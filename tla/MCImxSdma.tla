----------------------------- MODULE MCImxSdma -----------------------------
(* Finite instances of the scatter-gather driver, with a bound on the      *)
(* requests made.                                                          *)
EXTENDS ImxSdma, TLC

CONSTANTS p1, p2, f1, f2, c1, c2, MaxRequests

VARIABLE requests  (* open, read and write calls so far.                   *)

(* The global tables of the scatter-gather driver.                         *)
OneTable == [p \in Procs |-> "sg"]

(* Nothing tells two processes, two files or two channels apart.           *)
Symmetry ==
  Permutations(Procs) \union Permutations(Files) \union Permutations(Channels)

MCInit == Init /\ requests = 0

MCNext ==
  /\ fault = "none"
  /\ \/ requests < MaxRequests /\ Request /\ requests' = requests + 1
     \/ Step /\ UNCHANGED requests

MCSpec == MCInit /\ [][MCNext]_<<vars, requests>>
=============================================================================
