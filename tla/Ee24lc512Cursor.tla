--------------------------- MODULE Ee24lc512Cursor ---------------------------
(***************************************************************************)
(* The EEPROM driver with one user implements a memory with a cursor.  The *)
(* chunks of a write, the transfers of a read and the steps of the cursor  *)
(* are stuttering steps; what they have done shows when the mutex is       *)
(* released.                                                               *)
(***************************************************************************)
EXTENDS Ee24lc512

User == CHOOSE p \in Procs : TRUE
c == call[User]

Busy == pc[User] \in Critical \union {"read_lock", "write_lock"}

(* A write that has planned its chunks, and a read that has advanced.      *)
Hidden ==
  \/ /\ c.op = "write" /\ pc[User] \in {"send", "sent", "write_advance", "end"}
     /\ c.retval \notin {EINVAL, EFAULT}
  \/ c.op = "read" /\ pc[User] = "end" /\ c.retval > 0

Seen == IF Hidden THEN c.start ELSE current_pointer

(* count cut to the bytes between the cursor and the end of the chip.      *)
Clip(pointer, count) ==
  LET left == IF pointer + count > EEP_SIZE THEN EEP_SIZE - pointer ELSE count
  IN  IF left > EEP_SIZE THEN EEP_SIZE ELSE left

NoRequest == [op |-> "none", count |-> 0, late |-> FALSE, payload |-> <<>>]
Requested ==
  [op |-> c.op, count |-> IF Seen >= EEP_SIZE THEN 0 ELSE Clip(Seen, c.count),
   late |-> c.pos >= EEP_SIZE, payload |-> c.payload]

Cursor == INSTANCE CursorMemory WITH
  Size <- EEP_SIZE,
  Page <- EEP_PAGE_SIZE,
  open <- pc[User] \notin {"closed", "open_alloc", "open_test"},
  memory <- IF Hidden /\ c.op = "write" THEN c.before ELSE eeprom,
  cursor <- Seen,
  request <- IF Busy THEN Requested ELSE NoRequest,
  answer <- IF Busy THEN 0 ELSE c.retval

(* For one user, the driver behaves as a memory with a cursor that answers *)
(* each request in one step: pages, the wrap of a short write's plan,      *)
(* failed transfers and interrupted calls included, no call leaves the     *)
(* cursor out of step with the bytes it has read or written.               *)
ImplementsCursorMemory == Cursor!Spec
=============================================================================
