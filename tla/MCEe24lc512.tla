---------------------------- MODULE MCEe24lc512 ----------------------------
(* Finite instances of Ee24lc512, with a bound on the requests made.       *)
EXTENDS Ee24lc512Cursor, TLC

CONSTANTS p1, p2, b1, b2, MaxRequests

VARIABLE requests  (* open, release, read, write and llseek calls so far,  *)
                   (* but for the reads with the cursor at the end of the  *)
                   (* chip: of these there are as many as the users like.  *)

(* No two neighbouring bytes are equal, no page repeats the one before it, *)
(* and no byte is what kzalloc leaves.                                     *)
MCBytes == 0 .. 3
Pattern == {[a \in Addr |-> 1 + (a % 3)]}
Ones == {[a \in Addr |-> 1]}
AllCounts == 0 .. EEP_SIZE + 1
NoSeeks == {}
SomeSeeks == {<<3, SEEK_SET>>, <<1, SEEK_CUR>>, <<-1, SEEK_CUR>>, <<0, 2>>}

MCInit == Init /\ requests = 0

MCNext ==
  /\ fault = "none"
  /\ \E p \in Procs :
       \/ /\ requests < MaxRequests
          /\ Request(p)
          /\ requests' = requests + 1
       \/ /\ current_pointer >= EEP_SIZE
          /\ ReadCall(p)
          /\ UNCHANGED requests
       \/ /\ Acquire(p) \/ Progress(p) \/ LockKilled(p)
          /\ UNCHANGED requests

MCSpec == MCInit /\ [][MCNext]_<<vars, requests>>

(* FairSpec with the bound on requests, which leaves the steps it makes    *)
(* fair alone.  A process that waits for the mutex competes with readers   *)
(* that come back again and again.                                         *)
MCFairSpec ==
  /\ MCSpec
  /\ \A p \in Procs : WF_vars(fault = "none" /\ Progress(p))
  /\ \A p \in Procs : SF_vars(fault = "none" /\ Acquire(p))
=============================================================================
