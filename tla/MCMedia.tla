------------------------------ MODULE MCMedia ------------------------------
(* Image, video and audio tasks for TLC.  They share nothing but their       *)
(* actors and bounds: a behaviour runs one of them and leaves the others in  *)
(* their initial state.                                                      *)
EXTENDS VideoTask, AudioTask

CONSTANTS Keys, Images

VARIABLES
  kind,  \* the tasks that run
  status, artifact, owner, lease, snapshot, resultKey, idem, hash, spool,
  outputs, attached, posts, wpc, holds, index, some, warned, dpc, target, sub

\* job and faults belong to the video tasks and to all of them.
VARIABLE imageJob

\* One caller with one input, and a fault more.
Image == INSTANCE ImageTask WITH None <- Nobody, job <- imageJob, Callers <- Clients,
           Inputs <- {CHOOSE i \in Inputs : TRUE}, MaxFaults <- MaxFaults + 1

imageVars ==
  <<status, artifact, owner, lease, snapshot, resultKey, idem, hash, spool, outputs, attached,
    posts, wpc, imageJob, holds, index, some, warned, dpc, target, sub>>

Init ==
  /\ kind \in {"image", "video", "audio"}
  /\ VideoInit /\ AudioInit /\ Image!Init
  /\ kind # "video" => video = [t \in Tasks |-> NewVideo("none")]

Next ==
  \/ kind = "image" /\ Image!Next /\ UNCHANGED <<kind, videoOwn, audioOwn, late>>
  \/ kind = "video" /\ VideoNext /\ UNCHANGED <<kind, audioOwn, imageVars>>
  \/ kind = "audio" /\ AudioNext /\ UNCHANGED <<kind, videoOwn, imageVars>>

Spec ==
  /\ Init /\ [][Next]_<<kind, videoVars, audioVars, imageVars>>
  /\ VideoFairness /\ AudioFairness /\ Image!Fairness

\* ImageTask.tla implements OneShotGeneration.
ImageImplementsOneShot == Image!ImplementsOneShot
===============================================================================
