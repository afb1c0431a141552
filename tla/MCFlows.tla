------------------------------ MODULE MCFlows ------------------------------
(* The pool with one shared marketplace process, the pool with one passive   *)
(* service, the catalogs of sessions and the feeds of events, for TLC.  A    *)
(* behaviour runs one of them and leaves the others in their initial state.  *)
EXTENDS SessionPool, Catalog, EventFeed, TLC

\* One process for everybody.
OneKey == CHOOSE k \in Keys : TRUE
SharedKind == OneKey :> "shared"

\* A passive service whose row is edited, and which nobody calls.
PassivePool == INSTANCE SessionPool WITH Kind <- OneKey :> "passive", MaxEdits <- 1

VARIABLE kind  \* the component that runs

poolAll == vars

FlowsInit ==
  /\ kind \in {"shared", "passive", "catalog", "feed"}
  /\ Init /\ CatalogInit /\ FeedInit
  /\ kind # "catalog" => passive = FALSE

FlowsNext ==
  /\ UNCHANGED kind
  /\ \/ kind = "shared" /\ Next /\ UNCHANGED <<catalogVars, feedVars>>
     \/ kind = "passive" /\ PassivePool!Next /\ UNCHANGED <<req, catalogVars, feedVars>>
     \/ kind = "catalog" /\ CatalogNext /\ UNCHANGED <<poolAll, feedVars>>
     \/ kind = "feed" /\ FeedNext /\ UNCHANGED <<poolAll, catalogVars>>

FlowsSpec == FlowsInit /\ [][FlowsNext]_<<kind, poolAll, catalogVars, feedVars>>

\* Every component keeps its state in its declared sets.
FlowsTypesOK ==
  CASE kind = "shared" -> TypeOK
    [] kind = "passive" -> PassivePool!TypeOK
    [] kind = "catalog" -> CatalogTypeOK
    [] kind = "feed" -> FeedTypeOK

\* Racing requests never start a second process for a service: at most one
\* connection of a shared key is alive, but for those being closed
\* (session_pool.go, connect and its second look).
OneProcess == kind = "shared" => OneProcessPerKey

\* A passive session in the pool was let in by the token and status its row has
\* now, but for the edit that is about to remove it, and the row says connected
\* only while there is one (session_pool.go, AttachInbound and its second look,
\* setOnline).
PassiveAdmission ==
  kind = "passive" => PassivePool!PassiveCredentialCurrent /\ PassivePool!OnlineMeansAttached

\* Sessions are named like adapters, readers like callers.
Symmetry == Permutations(Callers) \cup Permutations(Adapters)
===============================================================================
