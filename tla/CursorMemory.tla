---------------------------- MODULE CursorMemory ----------------------------
(***************************************************************************)
(* What the 24LC512 driver promises the only user of its device: a memory  *)
(* with a cursor.  A request of read or write is answered in one step, in  *)
(* which the memory and the cursor change together or not at all; opening  *)
(* and closing the device change no byte and leave the cursor at 0; a seek *)
(* is refused.                                                             *)
(*                                                                         *)
(* Two clauses are as weak as the driver: a write that ends inside the     *)
(* page it starts in runs on for a page, and a write that the bus has      *)
(* failed may have changed a page past the bytes it has answered for.      *)
(***************************************************************************)
EXTENDS Integers

CONSTANTS
  Size,     (* Bytes in the memory.                                        *)
  Page      (* Bytes in a page.                                            *)

VARIABLES
  open,     (* The user has the device open.                               *)
  memory,   (* The bytes, a function on 0 .. Size - 1.                     *)
  cursor,   (* The address of the next byte.                               *)
  request,  (* The request being served, or None.                          *)
  answer    (* The last answer, 0 while there is a request.                *)

vars == <<open, memory, cursor, request, answer>>

Address == 0 .. Size - 1
None == [op |-> "none", count |-> 0, late |-> FALSE, payload |-> <<>>]

Interrupted == -4
InputOutput == -5
BadAddress == -14
Invalid == -22
Broken == -1

(* A request for count bytes is one for those left in the memory.          *)
Cut(count) ==
  IF cursor >= Size THEN 0
  ELSE IF cursor + count > Size THEN Size - cursor ELSE count

Init ==
  /\ open = FALSE /\ cursor = 0 /\ request = None /\ answer = 0
  /\ memory = [a \in Address |-> 0]

Open ==
  /\ ~open /\ cursor = 0
  /\ open' = TRUE
  /\ UNCHANGED <<memory, cursor, request, answer>>

Close ==
  /\ open /\ request = None
  /\ open' = FALSE /\ cursor' = 0
  /\ UNCHANGED <<memory, request, answer>>

Seek ==
  /\ open /\ request = None
  /\ answer' = Invalid
  /\ UNCHANGED <<open, memory, cursor, request>>

Ask ==
  /\ open /\ request = None
  /\ request'.op \in {"read", "write"}
  /\ request'.count \in 0 .. Size
  /\ request'.count = Cut(request'.count)
  /\ answer' = 0
  /\ UNCHANGED <<open, memory, cursor>>

(* The answer to a request.                                                *)
Answer(r) ==
  /\ request # None
  /\ request' = None /\ answer' = r
  /\ UNCHANGED open

AtEnd == request.late \/ cursor >= Size

Refuse ==
  /\ \/ Answer(Interrupted)
     \/ AtEnd /\ request.op = "read" /\ Answer(0)
     \/ AtEnd /\ request.op = "write" /\ Answer(Invalid)
     \/ ~AtEnd /\ request.op = "read" /\ Answer(InputOutput)
     \/ ~AtEnd /\ request.op = "write" /\ Answer(BadAddress)
  /\ UNCHANGED <<memory, cursor>>

Read ==
  /\ request.op = "read" /\ ~AtEnd
  /\ Answer(request.count)
  /\ cursor' = cursor + request.count
  /\ UNCHANGED memory

(* The memory keeps its bytes but for the n from the cursor on.            *)
ChangesOnly(n) ==
  LET touched == {(cursor + k) % Size : k \in 0 .. n - 1}
  IN  /\ DOMAIN memory' = Address
      /\ \A a \in Address \ touched : memory'[a] = memory[a]

(* The first n bytes from the cursor on are those of the request.          *)
Holds(n) == \A k \in 0 .. n - 1 : memory'[cursor + k] = request.payload[k]

ToPageEnd == (Page - (cursor % Page)) % Page
Inside == request.count < ToPageEnd

Write ==
  /\ request.op = "write" /\ ~AtEnd
  /\ LET written == IF Inside THEN request.count + Page ELSE request.count
     IN  /\ Answer(written)
         /\ cursor' = cursor + written
         /\ ChangesOnly(written)
  /\ Holds(request.count)

(* The bus has failed after n bytes, at the end of a page.                 *)
Break ==
  /\ request.op = "write" /\ ~AtEnd
  /\ Answer(Broken)
  /\ \E n \in 0 .. Size :
       /\ n = 0 \/ (cursor + n) % Page = 0
       /\ cursor' = cursor + n
       /\ ChangesOnly(n + Page)
       /\ Holds(IF n < request.count THEN n ELSE request.count)

Next == Open \/ Close \/ Seek \/ Ask \/ Refuse \/ Read \/ Write \/ Break

Spec == Init /\ [][Next]_vars
=============================================================================
