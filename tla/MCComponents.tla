----------------------------- MODULE MCComponents -----------------------------
(* The components that share no state, for TLC: a behaviour runs one of them  *)
(* and leaves the others in their initial state.                              *)
EXTENDS Billing, VideoTask, AudioTask, KeyRing, BlobStore, TLC

VARIABLE kind  \* the component that runs

moneyVars == vars

AllInit ==
  /\ kind \in {"billing", "video", "audio", "keys", "blobs"}
  /\ Init /\ VideoInit /\ AudioInit /\ KeyInit /\ BlobInit
  /\ kind # "video" => video = [t \in Tasks |-> NewVideo("none")]

AllNext ==
  /\ UNCHANGED kind
  /\ \/ kind = "billing" /\ Next /\ UNCHANGED <<videoVars, audioOwn, keyVars, blobVars>>
     \/ kind = "video" /\ VideoNext /\ UNCHANGED <<moneyVars, audioOwn, keyVars, blobVars>>
     \/ kind = "audio" /\ AudioNext /\ UNCHANGED <<moneyVars, videoOwn, keyVars, blobVars>>
     \/ kind = "keys" /\ KeyNext /\ UNCHANGED <<moneyVars, videoVars, audioOwn, blobVars>>
     \/ kind = "blobs" /\ BlobNext /\ UNCHANGED <<moneyVars, videoVars, audioOwn, keyVars>>

AllSpec == AllInit /\ [][AllNext]_<<kind, moneyVars, videoVars, audioOwn, keyVars, blobVars>>

\* To keep the run small the long request id comes with keys without a budget, and
\* while nothing has failed and nobody has edited the account.
LongIdsOnOpenKeys ==
  \A c \in Calls :
    rid[c] \in LongRids => key[c] \in OpenKeys /\ saves = 0 /\ slips = 0

\* The components take their names from the same sets.
Symmetry == Permutations(Callers) \cup Permutations(Workers) \cup Permutations(Inputs)
===============================================================================
