-------------------------- MODULE MCImxSdmaSingle --------------------------
(* A finite instance of ImxSdmaSingle, with a bound on the requests made.  *)
EXTENDS ImxSdmaSingle

CONSTANTS p1, p2, f1, c1, c2, MaxRequests

VARIABLE requests  (* open, read and write calls so far.                   *)

OwnTables == [p \in Procs |-> p]

Asked ==
  \/ \E f \in Files : place[f] = "closed" /\ place'[f] # "closed"
  \/ \E p \in Procs : pc[p] = "idle" /\ pc'[p] # "idle"

MCInit == Init /\ requests = 0

MCNext ==
  /\ SingleNext
  /\ Asked => requests < MaxRequests
  /\ requests' = IF Asked THEN requests + 1 ELSE requests

MCFairSpec == MCInit /\ [][MCNext]_<<vars, requests>> /\ Fairness
=============================================================================
