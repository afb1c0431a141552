---------------------------- MODULE MCSessionPool ----------------------------
(* An instance of SessionPool for TLC: the service of one user.              *)
EXTENDS SessionPool, TLC

CONSTANT kOwn

OwnKind == kOwn :> "own"
===============================================================================
