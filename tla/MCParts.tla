------------------------------ MODULE MCParts ------------------------------
(* Image tasks, the marketplace and the requests of the gateway share no     *)
(* state here, for TLC: a behaviour runs one of them and leaves the others   *)
(* in their initial state.  The marketplace runs twice: installs at one      *)
(* price that nobody loads, of lists that only edits change, and prices of   *)
(* an item that nobody installs.  So do the requests: one with parts that    *)
(* wait for each other, and two, of which one has one part and the other     *)
(* only registers.                                                           *)
EXTENDS ImageTask, Marketplace, GatewayCalls, TLC

CONSTANT Caller  \* the request that makes calls

VARIABLE kind  \* the component that runs

imageVars == vars

PartsInit ==
  /\ kind \in {"image", "installs", "prices", "parts", "requests"}
  /\ Init /\ MarketInit /\ CallsInit
  /\ kind \notin {"parts", "requests"} => access = "on" /\ ~ dbFails

OnePrice == /\ UNCHANGED <<entry, upstream, priceVars>>
            /\ item'.price = 1 /\ \A a \in Admins : admin'[a].item.price = 1
NoInstall == UNCHANGED <<refVars, ask>>
OneRequest == \A q \in Rpcs \ {Caller} : phase'[q] = "none"
OneCaller == /\ UNCHANGED access
             /\ \A q \in Rpcs \ {Caller} : method'[q] = "plain"
             /\ \A w \in PartIds : w[2] > 1 => at'[w] = "none"

PartsNext ==
  /\ UNCHANGED kind
  /\ \/ kind = "image" /\ Next /\ UNCHANGED <<marketVars, callVars>>
     \/ kind = "installs" /\ MarketNext /\ OnePrice /\ UNCHANGED <<imageVars, callVars>>
     \/ kind = "prices" /\ MarketNext /\ NoInstall /\ UNCHANGED <<imageVars, callVars>>
     \/ kind = "parts" /\ CallsNext /\ OneRequest /\ UNCHANGED <<imageVars, marketVars>>
     \/ kind = "requests" /\ CallsNext /\ OneCaller /\ UNCHANGED <<imageVars, marketVars>>

PartsSpec == PartsInit /\ [][PartsNext]_<<kind, imageVars, marketVars, callVars>>

\* Requests are named like callers, administrators like workers.
Symmetry == Permutations(Workers) \cup Permutations(Callers) \cup Permutations(Inputs)
===============================================================================
