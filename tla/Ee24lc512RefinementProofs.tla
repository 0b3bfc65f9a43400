--------------------- MODULE Ee24lc512RefinementProofs ---------------------
(***************************************************************************)
(* The EEPROM driver with one user implements CursorMemory, for every      *)
(* geometry of the chip, every integer width and every user input.         *)
(***************************************************************************)
EXTENDS Ee24lc512CursorProofs, Ee24lc512Cursor

(* There is one process.                                                   *)
Alone == Procs = {User}

-----------------------------------------------------------------------------
(* What the user sees.                                                     *)
Opened == pc[User] \notin {"closed", "open_alloc", "open_test"}
Memory == IF Hidden /\ c.op = "write" THEN c.before ELSE eeprom
Asked == IF Busy THEN Requested ELSE NoRequest
Answered == IF Busy THEN 0 ELSE c.retval

(* Places where a call is being served.                                    *)
Engaged == Critical \union {"read_lock", "write_lock"}

(* Hidden, of a call d at the place l.                                     *)
Veiled(l, d) ==
  \/ /\ d.op = "write" /\ l \in {"send", "sent", "write_advance", "end"}
     /\ d.retval \notin {EINVAL, EFAULT}
  \/ d.op = "read" /\ l = "end" /\ d.retval > 0

(* A step that changes nothing of it is no step of the abstract memory.    *)
LEMMA Stutter ==
  ASSUME UNCHANGED <<Opened, Memory, Seen, Asked, Answered>>
  PROVE  UNCHANGED Cursor!vars
BY DEF Cursor!vars, Opened, Memory, Asked, Answered

(* Between two calls the user sees the driver's own cursor and chip.       *)
LEMMA IdleView ==
  ASSUME pc[User] \notin Engaged
  PROVE  /\ Seen = current_pointer /\ Memory = eeprom
         /\ Asked = NoRequest /\ Answered = c.retval
<1>1. ~Busy
  BY DEF Busy, Engaged
<1>2. ~Hidden
  BY DEF Hidden, Engaged, Critical
<1> QED BY <1>1, <1>2 DEF Seen, Memory, Asked, Answered

(* The same after a step.                                                  *)
LEMMA IdleViewNext ==
  ASSUME pc'[User] \notin Engaged
  PROVE  /\ Seen' = current_pointer' /\ Memory' = eeprom'
         /\ Asked' = NoRequest /\ Answered' = c'.retval
<1>1. ~Busy'
  BY DEF Busy, Engaged
<1>2. ~Hidden'
  BY DEF Hidden, Engaged, Critical
<1> QED BY <1>1, <1>2 DEF Seen, Memory, Asked, Answered, NoRequest

(* A step inside a call shows nothing when the hidden cursor and chip are  *)
(* what the user saw before.                                               *)
LEMMA BusyStep ==
  ASSUME pc[User] \in Engaged, NEW l \in Engaged, NEW d,
         pc'[User] = l, c' = d, d.op = c.op, d.pos = c.pos, d.payload = c.payload,
         Seen = IF Veiled(l, d) THEN d.start ELSE current_pointer',
         Memory = IF Veiled(l, d) /\ d.op = "write" THEN d.before ELSE eeprom',
         Seen >= EEP_SIZE \/ Clip(Seen, d.count) = Clip(Seen, c.count)
  PROVE  UNCHANGED Cursor!vars
<1>1. Hidden' = Veiled(l, d)
  BY DEF Hidden, Veiled
<1>2. Seen' = Seen /\ Memory' = Memory
  BY <1>1 DEF Seen, Memory
<1>3. Busy /\ Busy' /\ Opened /\ Opened'
  BY DEF Busy, Engaged, Opened, Critical
<1>4. Requested' = Requested
  <2>1. Requested' = [op |-> d.op, count |-> IF Seen >= EEP_SIZE THEN 0 ELSE Clip(Seen, d.count),
                      late |-> d.pos >= EEP_SIZE, payload |-> d.payload]
    BY <1>2 DEF Requested, Clip
  <2> QED BY <2>1 DEF Requested
<1>5. Asked' = Asked /\ Answered' = Answered /\ Opened' = Opened
  BY <1>3, <1>4 DEF Asked, Answered
<1> QED BY <1>2, <1>5, Stutter

(* What is left of a count stays on the chip.                              *)
LEMMA ClipType ==
  ASSUME NEW pointer \in Nat, pointer < EEP_SIZE, NEW count \in Nat
  PROVE  Clip(pointer, count) \in Nat /\ pointer + Clip(pointer, count) <= EEP_SIZE
BY GeometryAssumption DEF Clip

(* A count that was cut to what is left is not cut again.                  *)
LEMMA ClipTwice ==
  ASSUME NEW pointer \in Nat, pointer < EEP_SIZE, NEW count \in Nat
  PROVE  /\ Clip(pointer, Clip(pointer, count)) = Clip(pointer, count)
         /\ pointer + count <= EEP_SIZE => Clip(pointer, count) = count
BY GeometryAssumption DEF Clip

-----------------------------------------------------------------------------
(* The invariant: what a call will be answered with is one of the answers  *)
(* the abstract memory gives.                                              *)
Late(d, cursor) == d.pos >= EEP_SIZE \/ cursor >= EEP_SIZE

ReadOver(d, cursor) ==
  \/ d.retval = 0 /\ Late(d, cursor)
  \/ d.retval = EIO /\ ~Late(d, cursor)
  \/ /\ d.retval = d.count /\ ~Late(d, d.start) /\ d.start \in Nat
     /\ cursor = d.start + d.count /\ cursor <= EEP_SIZE

(* The chunks sent before the bus failed end with a page.                  *)
BrokenOff(d) ==
  /\ d.retval = -1 /\ d.failure = "bus" /\ d.offset <= EEP_SIZE
  /\ d.offset = 0 \/ (d.start + d.offset) % EEP_PAGE_SIZE = 0

WriteOver(d, cursor) ==
  \/ d.retval = EINVAL /\ Late(d, cursor)
  \/ d.retval = EFAULT /\ ~Late(d, cursor)
  \/ /\ d.retval \notin {EINVAL, EFAULT} /\ d.pos < EEP_SIZE
     /\ d.failure = "none" \/ BrokenOff(d)

Ready(l, d, cursor) ==
  /\ l \in {"closed", "open_alloc", "open_test"} => cursor = 0
  /\ l \in {"test", "clip", "read_address", "write_copy", "write_address"} =>
       ~Late(d, cursor)
  /\ l = "clip" => cursor + d.count >= EEP_SIZE
  /\ l \in {"read_message", "read", "read_copy", "read_load", "read_advance"} =>
       ~Late(d, d.start)
  /\ l \in {"write_plan", "send", "sent", "write_advance"} => d.pos < EEP_SIZE
  /\ l = "end" => \/ d.op = "read" /\ ReadOver(d, cursor)
                  \/ d.op = "write" /\ WriteOver(d, cursor)

ReadyInv == Ready(pc[User], c, current_pointer)

(* All that is known of a reachable state with one user.                   *)
Known ==
  /\ Alone /\ ~shared
  /\ TypeOK /\ ExclusiveInv /\ FootprintInv /\ WithinInv /\ AlignedInv /\ ExactInv
  /\ WriteFaithful /\ WriteFootprint /\ ReadyInv

(* What it says of the user's call.                                        *)
LEMMA KnownUser ==
  ASSUME Known
  PROVE  /\ User \in Procs /\ \A p \in Procs : p = User
         /\ pc \in [Procs -> Places] /\ call \in [Procs -> CallType]
         /\ pc[User] \in Places /\ c \in CallType /\ current_pointer \in Nat
         /\ c.count \in Nat /\ c.pos \in Nat /\ c.offset \in Nat
         /\ Footprint(pc[User], c, eeprom) /\ Within(pc[User], c, current_pointer)
         /\ Exact(pc[User], c, current_pointer, mem[data], eeprom)
         /\ Ready(pc[User], c, current_pointer)
         /\ pc[User] \in {"send", "sent", "write_advance"} => Aligned(c)
<1>1. User \in Procs /\ \A p \in Procs : p = User
  BY DEF Known, Alone
<1>2. /\ pc \in [Procs -> Places] /\ call \in [Procs -> CallType]
      /\ current_pointer \in Nat
  BY DEF Known, TypeOK
<1>3. pc[User] \in Places /\ c \in CallType
  BY <1>1, <1>2 DEF c
<1>4. c.count \in Nat /\ c.pos \in Nat /\ c.offset \in Nat
  BY <1>3 DEF CallType
<1>5. /\ Footprint(pc[User], c, eeprom) /\ Within(pc[User], c, current_pointer)
      /\ Exact(pc[User], c, current_pointer, mem[data], eeprom)
      /\ AlignedAt(pc[User], c)
  BY <1>1 DEF Known, FootprintInv, WithinInv, ExactInv, AlignedInv, c
<1>7. pc[User] \in {"send", "sent", "write_advance"} => Aligned(c)
  BY <1>5 DEF AlignedAt, Exact
<1>6. Ready(pc[User], c, current_pointer)
  BY DEF Known, ReadyInv
<1> QED BY <1>1, <1>2, <1>3, <1>4, <1>5, <1>6, <1>7

(* A step keeps the invariant and is one of the abstract memory's, or none.*)
Simulated == ReadyInv' /\ [Cursor!Next]_(Cursor!vars)
-----------------------------------------------------------------------------
(* Steps between two calls.                                                *)

(* A step between two places that no call is served at.                    *)
LEMMA IdleStep ==
  ASSUME pc[User] \notin Engaged, pc'[User] \notin Engaged,
         UNCHANGED <<Opened, current_pointer, eeprom>>, c'.retval = c.retval
  PROVE  UNCHANGED Cursor!vars
BY IdleView, IdleViewNext, Stutter DEF NoRequest

(* A crash is not seen.                                                    *)
LEMMA CrashSimulated ==
  ASSUME Known, NEW f, Crash(f)
  PROVE  Simulated
<1>1. UNCHANGED <<pc, call, eeprom, current_pointer>>
  BY DEF Crash, device
<1>2. UNCHANGED Cursor!vars
  BY <1>1, Stutter DEF Opened, Memory, Seen, Asked, Answered, Hidden, Busy, Requested, c
<1>3. ReadyInv'
  BY <1>1 DEF Known, ReadyInv, c
<1> QED BY <1>2, <1>3 DEF Simulated

(* Opening the device: it is open when its block has been tested, and its  *)
(* cursor is then 0.                                                       *)
LEMMA OpenSimulated ==
  ASSUME Known,
         OpenReset(User) \/ OpenAlloc(User) \/ OpenNoMemory(User) \/ OpenTest(User)
  PROVE  Simulated
<1>0. pc \in [Procs -> Places] /\ User \in Procs /\ Ready(pc[User], c, current_pointer)
  BY KnownUser
<1>1. CASE OpenReset(User)
  <2>1. /\ pc[User] = "closed" /\ pc'[User] = "open_alloc" /\ current_pointer' = 0
        /\ UNCHANGED <<c, eeprom>>
    BY <1>0, <1>1 DEF OpenReset, Goto, c
  <2>2. current_pointer = 0
    BY <1>0, <2>1 DEF Ready
  <2>3. UNCHANGED Cursor!vars
    BY <2>1, <2>2, IdleStep DEF Opened, Engaged, Critical
  <2>4. ReadyInv'
    BY <2>1 DEF ReadyInv, Ready
  <2> QED BY <2>3, <2>4 DEF Simulated
<1>2. CASE OpenAlloc(User) \/ OpenNoMemory(User)
  <2>1. /\ pc[User] = "open_alloc" /\ pc'[User] = "open_test"
        /\ UNCHANGED <<c, eeprom, current_pointer>>
    BY <1>0, <1>2 DEF OpenAlloc, OpenNoMemory, Goto, c
  <2>2. UNCHANGED Cursor!vars
    BY <2>1, IdleStep DEF Opened, Engaged, Critical
  <2>3. ReadyInv'
    BY <1>0, <2>1 DEF ReadyInv, Ready
  <2> QED BY <2>2, <2>3 DEF Simulated
<1>3. CASE OpenTest(User)
  <2>1. /\ pc[User] = "open_test" /\ pc'[User] \in {"closed", "idle"}
        /\ UNCHANGED <<c, eeprom, current_pointer>>
    BY <1>0, <1>3 DEF OpenTest, Goto, device, c
  <2>2. current_pointer = 0
    BY <1>0, <2>1 DEF Ready
  <2>3. /\ Seen = 0 /\ Seen' = 0 /\ Memory' = Memory /\ Asked' = Asked
        /\ Answered' = Answered /\ ~Opened
    BY <2>1, <2>2, IdleView, IdleViewNext DEF Opened, Engaged, Critical
  <2>4. CASE pc'[User] = "closed"
    <3>1. UNCHANGED Cursor!vars
      BY <2>1, <2>4, IdleStep DEF Opened, Engaged, Critical
    <3>2. ReadyInv'
      BY <2>1, <2>2, <2>4 DEF ReadyInv, Ready
    <3> QED BY <3>1, <3>2 DEF Simulated
  <2>5. CASE pc'[User] = "idle"
    <3>1. Cursor!Open
      BY <2>3, <2>5 DEF Cursor!Open, Opened, Memory, Asked, Answered
    <3>2. ReadyInv'
      BY <2>5 DEF ReadyInv, Ready
    <3> QED BY <3>1, <3>2 DEF Simulated, Cursor!Next
  <2> QED BY <2>1, <2>4, <2>5
<1> QED BY <1>1, <1>2, <1>3

(* Closing it: freeing the block is not seen, resetting the cursor is.     *)
LEMMA CloseSimulated ==
  ASSUME Known,
         ReleaseTest(User) \/ ReleaseFree(User) \/ ReleaseClear(User) \/ ReleaseReset(User)
  PROVE  Simulated
<1>0. pc \in [Procs -> Places] /\ User \in Procs
  BY KnownUser
<1>1. CASE \E f : Crash(f)
  BY <1>1, CrashSimulated
<1>2. CASE /\ ReleaseTest(User) \/ ReleaseFree(User) \/ ReleaseClear(User)
           /\ ~\E f : Crash(f)
  <2>1. /\ pc[User] \in {"idle", "release_free", "release_clear"}
        /\ pc'[User] \in {"release_free", "release_clear", "release_reset"}
        /\ UNCHANGED <<c, eeprom, current_pointer>>
    BY <1>0, <1>2 DEF ReleaseTest, ReleaseFree, ReleaseClear, Goto, c, device
  <2>2. UNCHANGED Cursor!vars
    BY <2>1, IdleStep DEF Opened, Engaged, Critical
  <2>3. ReadyInv'
    BY <2>1 DEF ReadyInv, Ready
  <2> QED BY <2>2, <2>3 DEF Simulated
<1>3. CASE ReleaseReset(User)
  <2>1. /\ pc[User] = "release_reset" /\ pc'[User] = "closed"
        /\ UNCHANGED <<c, eeprom>> /\ current_pointer' = 0
    BY <1>0, <1>3 DEF ReleaseReset, Goto, c
  <2>2. /\ Seen' = 0 /\ Memory' = Memory /\ Asked = NoRequest /\ Asked' = NoRequest
        /\ Answered' = Answered /\ Opened /\ ~Opened'
    BY <2>1, IdleView, IdleViewNext DEF Opened, Engaged, Critical
  <2>3. NoRequest = Cursor!None
    BY DEF NoRequest, Cursor!None
  <2>4. Cursor!Close
    BY <2>2, <2>3 DEF Cursor!Close, Opened, Memory, Asked, Answered
  <2>5. ReadyInv'
    BY <2>1 DEF ReadyInv, Ready
  <2> QED BY <2>4, <2>5 DEF Simulated, Cursor!Next
<1> QED BY <1>1, <1>2, <1>3

(* A seek is refused.                                                      *)
LEMMA SeekSimulated ==
  ASSUME Known, Llseek(User)
  PROVE  Simulated
<1>0. pc \in [Procs -> Places] /\ call \in [Procs -> CallType] /\ User \in Procs
  BY KnownUser
<1>1. UNCHANGED <<pc, eeprom, current_pointer>> /\ pc[User] = "idle"
  BY <1>0, SeekMovesNothing DEF Llseek
<1>2. c'.retval = EINVAL
  <2>1. PICK s \in Seeks :
          LET newpos == NewPos(User, s[1], s[2])
              bad == s[2] \notin {SEEK_SET, SEEK_CUR} \/ SeekRejected(newpos)
          IN  call' = [call EXCEPT ![User] =
                         [NoCall EXCEPT !.op = "llseek", !.start = newpos,
                            !.pos = s[2],
                            !.retval = IF bad THEN EINVAL ELSE newpos]]
    BY DEF Llseek
  <2>2. SeekRejected(NewPos(User, s[1], s[2]))
    BY GeometryAssumption DEF SeekRejected
  <2> QED BY <1>0, <2>1, <2>2 DEF c, NoCall
<1>3. /\ Seen' = Seen /\ Memory' = Memory /\ Asked = NoRequest /\ Asked' = NoRequest
      /\ Answered' = EINVAL /\ Opened /\ Opened'
  BY <1>1, <1>2, IdleView, IdleViewNext DEF Opened, Engaged, Critical
<1>4. NoRequest = Cursor!None /\ EINVAL = Cursor!Invalid
  BY DEF NoRequest, Cursor!None, EINVAL, Cursor!Invalid
<1>5. Cursor!Seek
  BY <1>3, <1>4 DEF Cursor!Seek, Opened, Memory, Asked, Answered
<1>6. ReadyInv'
  BY <1>1 DEF ReadyInv, Ready
<1> QED BY <1>5, <1>6 DEF Simulated, Cursor!Next

(* A call asks for what is left of its count.                              *)
LEMMA AskSimulated ==
  ASSUME Known, ReadCall(User) \/ WriteCall(User)
  PROVE  Simulated
<1>0. /\ pc \in [Procs -> Places] /\ call \in [Procs -> CallType] /\ User \in Procs
      /\ current_pointer \in Nat
  BY KnownUser
<1>1. /\ pc[User] = "idle" /\ UNCHANGED <<eeprom, current_pointer>>
      /\ pc'[User] \in {"read_lock", "write_lock"}
  BY <1>0 DEF ReadCall, WriteCall, Goto, device
<1>2. c'.op \in {"read", "write"} /\ c'.count \in Nat
  <2>1. CASE ReadCall(User)
    <3>1. PICK count \in Counts, pos \in Positions \union {f_pos[User]} :
            c' = [NoCall EXCEPT !.op = "read", !.count = count, !.pos = pos]
      BY <1>0, <2>1 DEF ReadCall, c
    <3> QED BY <3>1, InputAssumption DEF NoCall
  <2>2. CASE WriteCall(User)
    <3>1. PICK count \in Counts, pos \in Positions \union {f_pos[User]},
               payload \in Payloads :
            c' = [NoCall EXCEPT !.op = "write", !.count = count, !.pos = pos,
                                !.payload = payload]
      BY <1>0, <2>2 DEF WriteCall, c
    <3> QED BY <3>1, InputAssumption DEF NoCall
  <2> QED BY <2>1, <2>2
<1>3. /\ Seen = current_pointer /\ Memory = eeprom /\ Asked = NoRequest
  BY <1>1, IdleView DEF Engaged, Critical
<1>4. Busy' /\ ~Hidden' /\ Opened /\ Opened'
  BY <1>1 DEF Busy, Hidden, Opened
<1>5. Seen' = Seen /\ Memory' = Memory /\ Asked' = Requested' /\ Answered' = 0
  BY <1>1, <1>3, <1>4 DEF Seen, Memory, Asked, Answered
<1> DEFINE n == IF Seen >= EEP_SIZE THEN 0 ELSE Clip(Seen, c'.count)
<1>6. Asked'.op = c'.op /\ Asked'.count = n
  BY <1>5 DEF Requested, Clip
<1>7. /\ n \in 0 .. EEP_SIZE
      /\ n = IF Seen >= EEP_SIZE THEN 0
             ELSE IF Seen + n > EEP_SIZE THEN EEP_SIZE - Seen ELSE n
  <2>1. Seen \in Nat /\ c'.count \in Nat /\ EEP_SIZE \in Nat
    BY <1>0, <1>2, <1>3, GeometryAssumption
  <2>2. CASE Seen >= EEP_SIZE
    BY <2>1, <2>2
  <2>3. CASE Seen < EEP_SIZE
    <3>1. Clip(Seen, c'.count) \in Nat /\ Seen + Clip(Seen, c'.count) <= EEP_SIZE
      BY <2>1, <2>3, ClipType
    <3>2. n = Clip(Seen, c'.count)
      BY <2>1, <2>3
    <3> HIDE DEF n
    <3> QED BY <2>1, <2>3, <3>1, <3>2
  <2> QED BY <2>1, <2>2, <2>3
<1> HIDE DEF n
<1>8. NoRequest = Cursor!None
  BY DEF NoRequest, Cursor!None
<1>9. Cursor!Ask
  BY <1>2, <1>3, <1>4, <1>5, <1>6, <1>7, <1>8
     DEF Cursor!Ask, Cursor!Cut, Opened, Memory, Asked, Answered
<1>10. ReadyInv'
  BY <1>1 DEF ReadyInv, Ready
<1> QED BY <1>9, <1>10 DEF Simulated, Cursor!Next
-----------------------------------------------------------------------------
(* Steps inside a call.                                                    *)

(* Before a call has something to hide, the user sees the driver's own     *)
(* cursor and chip.                                                        *)
LEMMA PlainView ==
  ASSUME ~Veiled(pc[User], c)
  PROVE  Seen = current_pointer /\ Memory = eeprom
BY DEF Veiled, Seen, Memory, Hidden

(* From then on, those the call has started with.                          *)
LEMMA VeiledView ==
  ASSUME Veiled(pc[User], c)
  PROVE  Seen = c.start /\ Memory = IF c.op = "write" THEN c.before ELSE eeprom
BY DEF Veiled, Seen, Memory, Hidden

(* A step inside a call that starts from the driver's own cursor.          *)
LEMMA QuietStep ==
  ASSUME Known, NEW l \in Engaged, NEW d, pc[User] \in Engaged, pc'[User] = l, c' = d,
         ~Veiled(pc[User], c), d.op = c.op, d.pos = c.pos, d.payload = c.payload,
         IF Veiled(l, d) THEN d.start = current_pointer
                         ELSE current_pointer' = current_pointer,
         IF Veiled(l, d) /\ d.op = "write" THEN d.before = eeprom
                                           ELSE eeprom' = eeprom,
         current_pointer >= EEP_SIZE
           \/ Clip(current_pointer, d.count) = Clip(current_pointer, c.count),
         Ready(l, d, current_pointer')
  PROVE  Simulated
<1>1. Seen = current_pointer /\ Memory = eeprom
  BY PlainView
<1>2. UNCHANGED Cursor!vars
  BY <1>1, BusyStep
<1>3. ReadyInv'
  BY DEF ReadyInv
<1> QED BY <1>2, <1>3 DEF Simulated

(* Leaving a call that has nothing to hide for its end.                    *)
LEMMA FinishSimulated ==
  ASSUME Known, NEW r, NEW f, Finish(User, r, f), UNCHANGED <<current_pointer, eeprom>>,
         pc[User] \in Engaged, ~Veiled(pc[User], c),
         r \notin {EINVAL, EFAULT} => c.op = "read",
         c.op = "read" => ~(r > 0),
         NEW d, d = [c EXCEPT !.retval = r, !.failure = f],
         Ready("end", d, current_pointer)
  PROVE  Simulated
<1>0. c \in CallType /\ User \in Procs /\ pc \in [Procs -> Places]
      /\ call \in [Procs -> CallType]
  BY KnownUser
<1>1. /\ d.retval = r /\ d.op = c.op /\ d.pos = c.pos /\ d.payload = c.payload
      /\ d.count = c.count
  BY <1>0 DEF CallType
<1>2. pc'[User] = "end" /\ c' = d
  BY <1>0 DEF Finish, Goto, c
<1>3. ~Veiled("end", d)
  BY <1>1 DEF Veiled
<1>4. "end" \in Engaged
  BY DEF Engaged, Critical
<1> QED BY <1>1, <1>2, <1>3, <1>4, QuietStep

(* A step inside a call that keeps its cursor, chip and request.           *)
LEMMA CallStep ==
  ASSUME Known, NEW l \in Engaged, pc[User] \in Engaged, pc'[User] = l,
         ~Veiled(pc[User], c), ~Veiled(l, c'), c'.op = c.op, c'.pos = c.pos,
         c'.payload = c.payload, UNCHANGED <<current_pointer, eeprom>>,
         current_pointer >= EEP_SIZE
           \/ Clip(current_pointer, c'.count) = Clip(current_pointer, c.count),
         Ready(l, c', current_pointer)
  PROVE  Simulated
BY QuietStep

(* Getting the mutex.                                                      *)
LEMMA LockSimulated ==
  ASSUME Known, ReadLock(User) \/ WriteLock(User)
  PROVE  Simulated
<1>0. /\ c \in CallType /\ User \in Procs /\ pc \in [Procs -> Places]
      /\ call \in [Procs -> CallType] /\ current_pointer \in Nat /\ c.count \in Nat
      /\ c.pos \in Nat /\ Footprint(pc[User], c, eeprom) /\ EEP_SIZE \in Nat
  BY KnownUser, GeometryAssumption
<1>1. /\ UNCHANGED <<current_pointer, eeprom>> /\ pc[User] \in Engaged
      /\ ~Veiled(pc[User], c) /\ pc[User] \in {"read_lock", "write_lock"}
  BY DEF ReadLock, WriteLock, device, memory, Engaged, Veiled
<1>2. c.op = IF ReadLock(User) THEN "read" ELSE "write"
  BY <1>0 DEF ReadLock, WriteLock, Footprint, Reading, Fresh
<1>3. CASE Late(c, current_pointer)
  <2> DEFINE r == IF c.op = "read" THEN 0 ELSE EINVAL
             d == [c EXCEPT !.retval = r, !.failure = "none"]
  <2>1. Finish(User, r, "none")
    BY <1>2, <1>3 DEF ReadLock, WriteLock, Late, c
  <2>2. d.retval = r /\ d.op = c.op /\ d.pos = c.pos
    BY <1>0 DEF CallType
  <2>3. Ready("end", d, current_pointer)
    BY <1>2, <1>3, <2>2 DEF Ready, ReadOver, WriteOver, Late
  <2>4. (r \notin {EINVAL, EFAULT} => c.op = "read") /\ (c.op = "read" => ~(r > 0))
    BY <1>2
  <2> HIDE DEF r, d
  <2> QED BY <1>1, <2>1, <2>3, <2>4, FinishSimulated DEF d
<1>4. CASE ~Late(c, current_pointer)
  <2>1. pc'[User] = "test" /\ c' = c
    BY <1>0, <1>2, <1>4 DEF ReadLock, WriteLock, Late, Goto, c
  <2>2. "test" \in Engaged /\ ~Veiled("test", c')
    BY DEF Engaged, Critical, Veiled
  <2>3. Ready("test", c', current_pointer)
    BY <1>4, <2>1 DEF Ready
  <2> QED BY <1>1, <2>1, <2>2, <2>3, CallStep
<1> QED BY <1>3, <1>4

(* Cutting the count changes nothing of the request, which was cut.        *)
LEMMA ClipSimulated ==
  ASSUME Known, TestCount(User) \/ ClipCount(User)
  PROVE  Simulated
<1>0. /\ c \in CallType /\ User \in Procs /\ pc \in [Procs -> Places]
      /\ call \in [Procs -> CallType] /\ current_pointer \in Nat /\ c.count \in Nat
      /\ c.pos \in Nat /\ EEP_SIZE \in Nat /\ Ready(pc[User], c, current_pointer)
  BY KnownUser, GeometryAssumption
<1>1. /\ UNCHANGED <<current_pointer, eeprom>> /\ pc[User] \in Engaged
      /\ ~Veiled(pc[User], c) /\ pc[User] \in {"test", "clip"}
  BY DEF TestCount, ClipCount, device, memory, Engaged, Critical, Veiled
<1>2. ~Late(c, current_pointer) /\ current_pointer < EEP_SIZE
  BY <1>0, <1>1 DEF Ready, Late
<1>3. AfterClip(c) \in {"read_address", "write_copy"}
  BY DEF AfterClip
<1>4. CASE TestCount(User) /\ TooLong(c)
  <2>1. pc'[User] = "clip" /\ c' = c
    BY <1>0, <1>4 DEF TestCount, Goto, c
  <2>2. "clip" \in Engaged /\ ~Veiled("clip", c')
    BY DEF Engaged, Critical, Veiled
  <2>3. current_pointer + c.count >= EEP_SIZE
    BY <1>0, <1>4 DEF TooLong
  <2>4. Ready("clip", c', current_pointer)
    BY <1>2, <2>1, <2>3 DEF Ready
  <2> QED BY <1>1, <2>1, <2>2, <2>4, CallStep
<1>5. CASE TestCount(User) /\ ~TooLong(c)
  <2>1. pc'[User] = AfterClip(c) /\ c' = c
    BY <1>0, <1>5 DEF TestCount, Goto, c
  <2> HIDE DEF c
  <2>2. AfterClip(c) \in Engaged /\ ~Veiled(AfterClip(c), c')
    BY <1>3 DEF Engaged, Critical, Veiled
  <2>3. Ready(AfterClip(c), c', current_pointer)
    BY <1>2, <1>3, <2>1 DEF Ready
  <2> QED BY <1>1, <2>1, <2>2, <2>3, CallStep
<1>6. CASE ClipCount(User)
  <2> DEFINE left == Left(current_pointer)
             n == IF left > EEP_SIZE THEN EEP_SIZE ELSE left
  <2>1. left = EEP_SIZE - current_pointer
    BY <1>0, <1>2, LeftOnChip
  <2>2. c' = [c EXCEPT !.count = n] /\ pc'[User] = AfterClip(c)
    BY <1>0, <1>6 DEF ClipCount, Goto, c
  <2>3. current_pointer + c.count >= EEP_SIZE
    BY <1>0, <1>6 DEF Ready, ClipCount
  <2> HIDE DEF left
  <2>4. n = EEP_SIZE - current_pointer /\ n \in Nat
    BY <1>0, <1>2, <2>1
  <2> HIDE DEF n
  <2>5. Clip(current_pointer, n) = Clip(current_pointer, c.count)
    BY <1>0, <1>2, <2>3, <2>4 DEF Clip
  <2>6. /\ c'.op = c.op /\ c'.pos = c.pos /\ c'.payload = c.payload /\ c'.count = n
    BY <1>0, <2>2 DEF CallType
  <2>7. AfterClip(c) \in Engaged /\ ~Veiled(AfterClip(c), c')
    BY <1>3 DEF Engaged, Critical, Veiled
  <2>8. Ready(AfterClip(c), c', current_pointer)
    BY <1>2, <1>3, <2>6 DEF Ready, Late
  <2> QED BY <1>1, <2>2, <2>5, <2>6, <2>7, <2>8, CallStep
<1> QED BY <1>4, <1>5, <1>6

(* The locals a read sets before it moves the cursor show nothing.         *)
LEMMA ReadLocals ==
  ASSUME Known, NEW l \in {"read_message", "read", "read_copy", "read_load", "read_advance"},
         pc[User] \in Critical, ~Veiled(pc[User], c), pc'[User] = l,
         c'.op = c.op, c'.pos = c.pos, c'.payload = c.payload, c'.count = c.count,
         UNCHANGED <<current_pointer, eeprom>>, ~Late(c', c'.start)
  PROVE  Simulated
<1>1. l \in Engaged /\ pc[User] \in Engaged /\ ~Veiled(l, c')
  BY DEF Engaged, Critical, Veiled
<1>2. Ready(l, c', current_pointer)
  BY DEF Ready
<1> QED BY <1>1, <1>2, CallStep

(* A read shows when it has moved the cursor, from where it started.       *)
LEMMA ReadSimulated ==
  ASSUME Known,
         \/ ReadAddress(User) \/ ReadMessage(User) \/ ReadTransfer(User)
         \/ ReadCopy(User) \/ LoadCursor(User) \/ ReadAdvance(User),
         pc[User] # "sent"
  PROVE  Simulated
<1>0. /\ c \in CallType /\ User \in Procs /\ pc \in [Procs -> Places]
      /\ call \in [Procs -> CallType] /\ current_pointer \in Nat /\ c.count \in Nat
      /\ Footprint(pc[User], c, eeprom) /\ Within(pc[User], c, current_pointer)
      /\ Exact(pc[User], c, current_pointer, mem[data], eeprom)
      /\ Ready(pc[User], c, current_pointer)
  BY KnownUser
<1>1. /\ pc[User] \in {"read_address", "read_message", "read", "read_copy", "read_load",
                       "read_advance"}
      /\ pc[User] \in Critical /\ pc[User] \in Engaged
  BY DEF ReadAddress, ReadMessage, ReadTransfer, ReadCopy, LoadCursor, ReadAdvance,
         Engaged, Critical
<1>2. c.op = "read" /\ ~Veiled(pc[User], c)
  BY <1>0, <1>1 DEF Footprint, Reading, Veiled
<1>3. CASE \E f : Crash(f)
  BY <1>3, CrashSimulated
<1>4. CASE ReadAddress(User)
  <2>1. c' = [c EXCEPT !.reg_addr = current_pointer, !.start = current_pointer]
    BY <1>0, <1>4 DEF ReadAddress, c
  <2>2. /\ pc[User] = "read_address" /\ pc'[User] = "read_message"
        /\ UNCHANGED <<current_pointer, eeprom>>
    BY <1>0, <1>4 DEF ReadAddress, Goto, device
  <2>3. /\ c'.op = c.op /\ c'.pos = c.pos /\ c'.payload = c.payload
        /\ c'.count = c.count /\ c'.start = current_pointer
    BY <1>0, <2>1 DEF CallType
  <2>4. ~Late(c', c'.start)
    BY <1>0, <2>2, <2>3 DEF Ready, Late
  <2> QED BY <1>1, <1>2, <2>2, <2>3, <2>4, ReadLocals
<1>5. ASSUME NEW l \in {"read", "read_copy", "read_load", "read_advance"}, NEW d,
             pc[User] # "read_address", pc'[User] = l, c' = d,
             d.op = c.op, d.pos = c.pos, d.payload = c.payload,
             d.count = c.count, d.start = c.start, UNCHANGED <<current_pointer, eeprom>>
      PROVE  Simulated
  <2>1. ~Late(c', c'.start)
    BY <1>0, <1>1, <1>5 DEF Ready, Late
  <2> QED BY <1>1, <1>2, <1>5, <2>1, ReadLocals
<1>6. CASE ReadMessage(User)
  <2> DEFINE d == [c EXCEPT !.msg_buf = data]
  <2>1. c' = d /\ pc[User] = "read_message" /\ pc'[User] = "read"
    BY <1>0, <1>6 DEF ReadMessage, Goto, c
  <2>2. UNCHANGED <<current_pointer, eeprom>>
    BY <1>6 DEF ReadMessage, device
  <2>3. /\ d.op = c.op /\ d.pos = c.pos /\ d.payload = c.payload
        /\ d.count = c.count /\ d.start = c.start
    BY <1>0 DEF CallType
  <2> HIDE DEF d
  <2> QED BY <1>5, <2>1, <2>2, <2>3
<1>7. CASE ReadTransfer(User) /\ ~\E f : Crash(f)
  <2>1. PICK failed : call' = [call EXCEPT ![User].failure = failed]
    BY <1>7 DEF ReadTransfer
  <2> DEFINE d == [c EXCEPT !.failure = failed]
  <2>2. c' = d /\ pc[User] = "read" /\ pc'[User] = "read_copy"
    BY <1>0, <1>7, <2>1 DEF ReadTransfer, Goto, c
  <2>3. UNCHANGED <<current_pointer, eeprom>>
    BY <1>7 DEF ReadTransfer, device
  <2>4. /\ d.op = c.op /\ d.pos = c.pos /\ d.payload = c.payload
        /\ d.count = c.count /\ d.start = c.start
    BY <1>0 DEF CallType
  <2> HIDE DEF d
  <2> QED BY <1>5, <2>2, <2>3, <2>4
<1>8. CASE ReadCopy(User) /\ ~\E f : Crash(f)
  <2>1. UNCHANGED <<current_pointer, eeprom>> /\ pc[User] = "read_copy"
    BY <1>8 DEF ReadCopy, device
  <2>2. CASE Finish(User, EIO, "copy")
    <3> DEFINE d == [c EXCEPT !.retval = EIO, !.failure = "copy"]
    <3>1. d.retval = EIO /\ d.op = "read" /\ d.pos = c.pos
      BY <1>0, <1>2 DEF CallType
    <3>2. ~Late(c, c.start) /\ c.start = current_pointer
      BY <1>0, <2>1 DEF Ready, Exact
    <3>3. Ready("end", d, current_pointer)
      BY <3>1, <3>2 DEF Ready, ReadOver, Late
    <3> HIDE DEF d
    <3>4. ~(EIO > 0)
      BY DEF EIO
    <3> QED BY <1>1, <1>2, <2>1, <2>2, <3>3, <3>4, FinishSimulated DEF d
  <2>3. CASE ~Finish(User, EIO, "copy")
    <3> DEFINE d == [c EXCEPT !.retval = c.count]
    <3>1. c' = d /\ pc'[User] = "read_load"
      BY <1>0, <1>8, <2>3 DEF ReadCopy, Goto, c
    <3>2. /\ d.op = c.op /\ d.pos = c.pos /\ d.payload = c.payload
          /\ d.count = c.count /\ d.start = c.start
      BY <1>0 DEF CallType
    <3> HIDE DEF d
    <3> QED BY <1>5, <2>1, <3>1, <3>2
  <2> QED BY <2>2, <2>3
<1>9. CASE LoadCursor(User)
  <2> DEFINE d == [c EXCEPT !.loaded = current_pointer]
  <2>1. c' = d /\ pc[User] = "read_load" /\ pc'[User] = "read_advance"
    BY <1>0, <1>9 DEF LoadCursor, Goto, c
  <2>2. UNCHANGED <<current_pointer, eeprom>>
    BY <1>9 DEF LoadCursor, device
  <2>3. /\ d.op = c.op /\ d.pos = c.pos /\ d.payload = c.payload
        /\ d.count = c.count /\ d.start = c.start
    BY <1>0 DEF CallType
  <2> HIDE DEF d
  <2> QED BY <1>5, <2>1, <2>2, <2>3
<1>10. CASE ReadAdvance(User)
  <2>1. /\ pc[User] = "read_advance" /\ pc'[User] = "end" /\ UNCHANGED <<c, eeprom>>
        /\ current_pointer' = c.loaded + c.count
    BY <1>0, <1>10 DEF ReadAdvance, Goto, c
  <2>2. /\ c.loaded = c.start /\ c.retval = c.count /\ ~Late(c, c.start)
        /\ c.start = current_pointer /\ c.start + c.count <= EEP_SIZE
    BY <1>0, <2>1 DEF Exact, Ready, Within
  <2>3. c.start \in Nat /\ current_pointer' = c.start + c.count
        /\ current_pointer' <= EEP_SIZE
    BY <1>0, <2>1, <2>2
  <2>4. Ready("end", c, current_pointer')
    BY <1>2, <2>2, <2>3 DEF Ready, ReadOver
  <2>5. ~Veiled("end", c) => current_pointer' = current_pointer
    <3>1. ~Veiled("end", c) => c.count = 0
      BY <1>0, <1>2, <2>2 DEF Veiled
    <3> QED BY <1>0, <2>2, <2>3, <3>1
  <2>6. "end" \in Engaged
    BY DEF Engaged, Critical
  <2> QED BY <1>1, <1>2, <2>1, <2>2, <2>4, <2>5, <2>6, QuietStep
<1> QED BY <1>3, <1>4, <1>6, <1>7, <1>8, <1>9, <1>10

(* Filling the block, or failing to, shows nothing.                        *)
LEMMA CopySimulated ==
  ASSUME Known, WriteCopy(User)
  PROVE  Simulated
<1>0. /\ c \in CallType /\ User \in Procs /\ pc \in [Procs -> Places]
      /\ call \in [Procs -> CallType] /\ Footprint(pc[User], c, eeprom)
      /\ Ready(pc[User], c, current_pointer)
  BY KnownUser
<1>1. pc[User] = "write_copy" /\ pc[User] \in Engaged /\ ~Veiled(pc[User], c)
  BY DEF WriteCopy, Engaged, Critical, Veiled
<1>2. c.op = "write" /\ ~Late(c, current_pointer)
  BY <1>0, <1>1 DEF Footprint, Fresh, Ready
<1>3. CASE \E f : Crash(f)
  BY <1>3, CrashSimulated
<1>4. CASE Finish(User, EFAULT, "copy") /\ UNCHANGED <<current_pointer, eeprom>>
  <2> DEFINE e == [c EXCEPT !.retval = EFAULT, !.failure = "copy"]
  <2>1. e.retval = EFAULT /\ e.op = "write" /\ e.pos = c.pos
    BY <1>0, <1>2 DEF CallType
  <2>2. Ready("end", e, current_pointer)
    BY <1>2, <2>1 DEF Ready, WriteOver, Late
  <2> HIDE DEF e
  <2> QED BY <1>1, <1>2, <1>4, <2>2, FinishSimulated DEF e
<1>5. CASE Goto(User, "write_address") /\ UNCHANGED <<call, current_pointer, eeprom>>
  <2>1. pc'[User] = "write_address" /\ c' = c
    BY <1>0, <1>5 DEF Goto, c
  <2>2. "write_address" \in Engaged /\ ~Veiled("write_address", c')
    BY DEF Engaged, Critical, Veiled
  <2>3. Ready("write_address", c', current_pointer)
    BY <1>2, <2>1 DEF Ready
  <2> QED BY <1>1, <1>5, <2>1, <2>2, <2>3, CallStep
<1> QED BY <1>3, <1>4, <1>5 DEF WriteCopy, device

(* So does taking the address of a write from the cursor.                  *)
LEMMA AddressSimulated ==
  ASSUME Known, WriteAddress(User)
  PROVE  Simulated
<1>0. /\ c \in CallType /\ User \in Procs /\ pc \in [Procs -> Places]
      /\ call \in [Procs -> CallType] /\ Ready(pc[User], c, current_pointer)
      /\ c.pos \in Nat /\ EEP_SIZE \in Nat
  BY KnownUser, GeometryAssumption
<1>1. pc[User] = "write_address" /\ pc[User] \in Engaged /\ ~Veiled(pc[User], c)
  BY DEF WriteAddress, Engaged, Critical, Veiled
<1> DEFINE d == [c EXCEPT !.reg_addr = current_pointer, !.start = current_pointer,
                          !.before = eeprom]
<1>2. c' = d /\ pc'[User] = "write_plan" /\ UNCHANGED <<current_pointer, eeprom>>
  BY <1>0 DEF WriteAddress, Goto, device, c
<1>3. d.op = c.op /\ d.pos = c.pos /\ d.payload = c.payload /\ d.count = c.count
  BY <1>0 DEF CallType
<1> HIDE DEF d
<1>4. "write_plan" \in Engaged /\ ~Veiled("write_plan", c')
  BY DEF Engaged, Critical, Veiled
<1>5. Ready("write_plan", c', current_pointer)
  BY <1>0, <1>1, <1>2, <1>3 DEF Ready, Late
<1> QED BY <1>1, <1>2, <1>3, <1>4, <1>5, CallStep

(* A write hides what it does from its plan on.                            *)
LEMMA PlanSimulated ==
  ASSUME Known, WritePlan(User)
  PROVE  Simulated
<1> DEFINE b == Plan(c, current_pointer)
           s == FirstStage(b)
           d == IF s = "end" THEN b ELSE [b EXCEPT !.stage = s]
           l == IF s = "end" THEN "end" ELSE "send"
<1>0. /\ c \in CallType /\ User \in Procs /\ pc \in [Procs -> Places]
      /\ call \in [Procs -> CallType] /\ current_pointer \in Nat /\ c.count \in Nat
      /\ Footprint(pc[User], c, eeprom) /\ Within(pc[User], c, current_pointer)
      /\ Exact(pc[User], c, current_pointer, mem[data], eeprom)
      /\ Ready(pc[User], c, current_pointer)
  BY KnownUser
<1>1. pc[User] = "write_plan" /\ pc[User] \in Engaged /\ ~Veiled(pc[User], c)
  BY DEF WritePlan, Engaged, Critical, Veiled
<1>2. /\ c.op = "write" /\ c.failure = "none" /\ c.retval = 0 /\ c.pos < EEP_SIZE
      /\ c.start = current_pointer /\ c.before = eeprom
  BY <1>0, <1>1 DEF Footprint, Fresh, Within, Unsent, Exact, Ready
<1>3. Continue(User, b, s) /\ UNCHANGED <<current_pointer, eeprom>>
  BY DEF WritePlan, device, c
<1>4. /\ b \in CallType /\ b.op = "write" /\ b.failure = "none" /\ b.retval = 0
      /\ b.start = c.start /\ b.before = c.before /\ b.pos = c.pos
      /\ b.payload = c.payload /\ b.count = c.count
  BY <1>0, <1>2, PlanType DEF Plan, CallType
<1>5. s \in Stage \union {"end"}
  BY DEF FirstStage, NextStage, Stage
<1>6. c' = d /\ pc'[User] = l
  BY <1>0, <1>3 DEF Continue, Goto, c
<1> HIDE DEF b, s
<1>7. /\ d.op = "write" /\ d.failure = "none" /\ d.retval = 0
      /\ d.start = c.start /\ d.before = c.before /\ d.pos = c.pos
      /\ d.payload = c.payload /\ d.count = c.count
  BY <1>4, <1>5 DEF CallType
<1> HIDE DEF d
<1>8. Veiled(l, d) /\ l \in Engaged
  BY <1>7 DEF Veiled, Engaged, Critical, EINVAL, EFAULT
<1>9. Ready(l, d, current_pointer')
  BY <1>2, <1>7 DEF Ready, WriteOver, EINVAL, EFAULT
<1> HIDE DEF l
<1> QED BY <1>1, <1>2, <1>3, <1>6, <1>7, <1>8, <1>9, QuietStep

(* A step that keeps a write hidden.                                       *)
LEMMA HiddenStep ==
  ASSUME Known, NEW l \in {"sent", "write_advance", "send", "end"}, NEW d,
         pc[User] \in {"sent", "write_advance", "send"}, Veiled(pc[User], c), c.op = "write",
         pc'[User] = l, c' = d, d.op = c.op, d.pos = c.pos, d.payload = c.payload,
         d.count = c.count, d.start = c.start, d.before = c.before,
         d.retval \notin {EINVAL, EFAULT},
         l = "end" => d.failure = "none" \/ BrokenOff(d)
  PROVE  Simulated
<1>1. l \in Engaged /\ pc[User] \in Engaged /\ Veiled(l, d)
  BY DEF Engaged, Critical, Veiled
<1>2. Seen = c.start /\ Memory = c.before
  BY VeiledView
<1>3. UNCHANGED Cursor!vars
  BY <1>1, <1>2, BusyStep
<1>4. c.pos < EEP_SIZE
  BY KnownUser DEF Ready
<1>5. Ready(l, d, current_pointer')
  BY <1>4 DEF Ready, WriteOver
<1> QED BY <1>3, <1>5 DEF Simulated, ReadyInv

(* A chunk starts a page, unless it is the first one.                      *)
LEMMA ChunkAtPage ==
  ASSUME Known, pc[User] = "send"
  PROVE  c.offset = 0 \/ (c.start + c.offset) % EEP_PAGE_SIZE = 0
<1>0. /\ c \in CallType /\ Footprint(pc[User], c, eeprom)
      /\ Within(pc[User], c, current_pointer) /\ Aligned(c)
  BY KnownUser
<1>1. OnPlan(c) /\ c.reg_addr = c.start + c.offset
  BY <1>0 DEF Within, Footprint, Planned
<1> QED BY <1>0, <1>1 DEF OnPlan, Aligned

(* Sending a chunk, and counting it, stay hidden.                          *)
LEMMA ChunkSimulated ==
  ASSUME Known,
         SendChunk(User) \/ (LoadCursor(User) /\ pc[User] = "sent") \/ WriteAdvance(User)
  PROVE  Simulated
<1>0. /\ c \in CallType /\ User \in Procs /\ pc \in [Procs -> Places]
      /\ call \in [Procs -> CallType] /\ c.offset \in Nat
      /\ Footprint(pc[User], c, eeprom) /\ Within(pc[User], c, current_pointer)
  BY KnownUser
<1>1. pc[User] \in {"sent", "write_advance", "send"}
  BY DEF SendChunk, WriteAdvance
<1>2. c.op = "write" /\ c.failure = "none" /\ c.retval = c.offset
  BY <1>0, <1>1 DEF Footprint, Planned, Within
<1>3. Veiled(pc[User], c)
  BY <1>0, <1>1, <1>2 DEF Veiled, EINVAL, EFAULT
<1>4. CASE \E f : Crash(f)
  BY <1>4, CrashSimulated
<1>5. CASE SendChunk(User) /\ Finish(User, -1, "bus")
  <2> DEFINE d == [c EXCEPT !.retval = -1, !.failure = "bus"]
  <2>1. c' = d /\ pc'[User] = "end" /\ pc[User] = "send"
    BY <1>0, <1>5 DEF SendChunk, Finish, Goto, c
  <2>2. /\ d.op = c.op /\ d.pos = c.pos /\ d.payload = c.payload /\ d.count = c.count
        /\ d.start = c.start /\ d.before = c.before /\ d.offset = c.offset
        /\ d.retval = -1 /\ d.failure = "bus"
    BY <1>0 DEF CallType
  <2> HIDE DEF d
  <2>3. c.offset <= EEP_SIZE
    BY <1>0, <2>1 DEF Within
  <2>4. BrokenOff(d) /\ d.retval \notin {EINVAL, EFAULT}
    BY <2>1, <2>2, <2>3, ChunkAtPage DEF BrokenOff, EINVAL, EFAULT
  <2> QED BY <1>1, <1>2, <1>3, <2>1, <2>2, <2>4, HiddenStep
<1>6. CASE SendChunk(User) /\ Goto(User, "sent") /\ UNCHANGED call
  <2>1. c' = c /\ pc'[User] = "sent"
    BY <1>0, <1>6 DEF Goto, c
  <2>2. c.retval \notin {EINVAL, EFAULT}
    BY <1>0, <1>2 DEF EINVAL, EFAULT
  <2> QED BY <1>1, <1>2, <1>3, <2>1, <2>2, HiddenStep
<1>8. CASE LoadCursor(User) /\ pc[User] = "sent"
  <2> DEFINE d == [c EXCEPT !.loaded = current_pointer]
  <2>1. c' = d /\ pc'[User] = "write_advance"
    BY <1>0, <1>8 DEF LoadCursor, Goto, c
  <2>2. /\ d.op = c.op /\ d.pos = c.pos /\ d.payload = c.payload /\ d.count = c.count
        /\ d.start = c.start /\ d.before = c.before /\ d.retval = c.retval
    BY <1>0 DEF CallType
  <2> HIDE DEF d
  <2>3. d.retval \notin {EINVAL, EFAULT}
    BY <1>0, <1>2, <2>2 DEF EINVAL, EFAULT
  <2> QED BY <1>1, <1>2, <1>3, <2>1, <2>2, <2>3, HiddenStep
<1>7. CASE WriteAdvance(User)
  <2> DEFINE b == Advance(c)
             n == ChunkLen(c)
             s == IF b.stage = "tail" THEN "end" ELSE NextStage(b)
             d == IF s = "end" THEN b ELSE [b EXCEPT !.stage = s]
             l == IF s = "end" THEN "end" ELSE "send"
  <2>1. c' = d /\ pc'[User] = l
    BY <1>0, <1>7 DEF WriteAdvance, Continue, Goto, c
  <2>2. n \in Nat /\ b \in CallType
    BY <1>0, ChunkType, AdvanceType, GeometryAssumption
  <2>3. /\ b.op = c.op /\ b.pos = c.pos /\ b.payload = c.payload /\ b.count = c.count
        /\ b.start = c.start /\ b.before = c.before /\ b.retval = c.offset + n
        /\ b.failure = c.failure
    BY <1>0 DEF Advance, CallType
  <2>4. s \in Stage \union {"end"}
    BY DEF NextStage, Stage
  <2> HIDE DEF b, n, s
  <2>5. /\ d.op = c.op /\ d.pos = c.pos /\ d.payload = c.payload /\ d.count = c.count
        /\ d.start = c.start /\ d.before = c.before /\ d.retval = c.offset + n
        /\ d.failure = "none"
    BY <1>2, <2>2, <2>3, <2>4 DEF CallType
  <2> HIDE DEF d
  <2>6. d.retval \notin {EINVAL, EFAULT}
    BY <1>0, <2>2, <2>5 DEF EINVAL, EFAULT
  <2>7. l \in {"send", "end"}
    OBVIOUS
  <2> HIDE DEF l
  <2> QED BY <1>1, <1>2, <1>3, <2>1, <2>5, <2>6, <2>7, HiddenStep
<1> QED BY <1>4, <1>5, <1>6, <1>7, <1>8 DEF SendChunk

-----------------------------------------------------------------------------
(* Steps that end a call: the answers.                                     *)

(* Leaving a call answers its request, and shows what the call has done.   *)
LEMMA AnswerView ==
  ASSUME pc[User] \in Engaged, pc'[User] = "idle", NEW r, c'.retval = r,
         UNCHANGED <<current_pointer, eeprom>>, c.op \in {"read", "write"}
  PROVE  /\ Cursor!Answer(r) /\ Asked = Requested /\ Requested.op = c.op
         /\ Seen' = current_pointer /\ Memory' = eeprom
         /\ Cursor!AtEnd <=> Late(c, Seen)
<1>1. Busy /\ Opened /\ Opened'
  BY DEF Busy, Engaged, Opened, Critical
<1>2. Asked = Requested /\ Requested.op = c.op /\ Requested.late = (c.pos >= EEP_SIZE)
  BY <1>1 DEF Asked, Requested
<1>3. Seen' = current_pointer /\ Memory' = eeprom /\ Asked' = NoRequest /\ Answered' = r
  BY IdleViewNext DEF Engaged, Critical
<1>4. NoRequest = Cursor!None /\ Cursor!None.op = "none"
  BY DEF NoRequest, Cursor!None
<1>5. Asked # Cursor!None
  BY <1>2, <1>4
<1>6. Cursor!Answer(r)
  BY <1>1, <1>3, <1>4, <1>5 DEF Cursor!Answer, Opened, Asked, Answered
<1>7. Cursor!AtEnd <=> Asked.late \/ Seen >= EEP_SIZE
  BY DEF Cursor!AtEnd, Asked
<1> QED BY <1>2, <1>3, <1>6, <1>7 DEF Late

(* An interrupted call.                                                    *)
LEMMA KillSimulated ==
  ASSUME Known, LockKilled(User)
  PROVE  Simulated
<1>0. /\ User \in Procs /\ pc \in [Procs -> Places] /\ call \in [Procs -> CallType]
      /\ Footprint(pc[User], c, eeprom)
  BY KnownUser
<1>1. /\ pc[User] \in {"read_lock", "write_lock"} /\ pc'[User] = "idle"
      /\ c'.retval = EINTR /\ UNCHANGED <<current_pointer, eeprom>>
  BY <1>0 DEF LockKilled, Goto, c, NoCall, device
<1>2. c.op \in {"read", "write"} /\ pc[User] \in Engaged /\ ~Veiled(pc[User], c)
  BY <1>0, <1>1 DEF Footprint, Reading, Fresh, Engaged, Veiled
<1>3. Seen' = Seen /\ Memory' = Memory /\ Cursor!Answer(EINTR)
  BY <1>1, <1>2, AnswerView, PlainView
<1>4. EINTR = Cursor!Interrupted
  BY DEF EINTR, Cursor!Interrupted
<1>5. Cursor!Refuse
  BY <1>3, <1>4 DEF Cursor!Refuse, Memory
<1>6. ReadyInv'
  BY <1>1 DEF ReadyInv, Ready
<1> QED BY <1>5, <1>6 DEF Simulated, Cursor!Next

(* A refused call shows the cursor and the chip it started with.           *)
LEMMA RefuseSimulated ==
  ASSUME Seen' = Seen, Memory' = Memory, Asked = Requested, Requested.op = c.op, NEW r,
         Cursor!Answer(r), Cursor!AtEnd <=> Late(c, Seen),
         \/ Late(c, Seen) /\ c.op = "read" /\ r = 0
         \/ Late(c, Seen) /\ c.op = "write" /\ r = EINVAL
         \/ ~Late(c, Seen) /\ c.op = "read" /\ r = EIO
         \/ ~Late(c, Seen) /\ c.op = "write" /\ r = EFAULT
  PROVE  Cursor!Refuse
<1>1. /\ EINVAL = Cursor!Invalid /\ EIO = Cursor!InputOutput
      /\ EFAULT = Cursor!BadAddress
  BY DEF EINVAL, EIO, EFAULT, Cursor!Invalid, Cursor!InputOutput, Cursor!BadAddress
<1> QED BY <1>1 DEF Cursor!Refuse, Memory, Asked

(* What the end of a read is for the abstract memory.                      *)
LEMMA ReadAnswered ==
  ASSUME Known, pc[User] = "end", pc'[User] = "idle", c'.retval = c.retval, c.op = "read",
         UNCHANGED <<current_pointer, eeprom>>
  PROVE  Cursor!Refuse \/ Cursor!Read
<1>0. /\ c \in CallType /\ c.count \in Nat /\ current_pointer \in Nat
      /\ Ready(pc[User], c, current_pointer) /\ c.retval \in Int
  BY KnownUser DEF CallType
<1>1. /\ Cursor!Answer(c.retval) /\ Asked = Requested /\ Requested.op = c.op
      /\ Seen' = current_pointer /\ Memory' = eeprom
      /\ Cursor!AtEnd <=> Late(c, Seen)
  BY AnswerView DEF Engaged, Critical
<1>2. ReadOver(c, current_pointer)
  BY <1>0 DEF Ready, WriteOver
<1>3. CASE c.retval = c.count /\ ~Late(c, c.start) /\ c.start \in Nat
           /\ current_pointer = c.start + c.count /\ current_pointer <= EEP_SIZE
  <2>1. Seen = c.start /\ Memory = eeprom
    <3>1. CASE Veiled(pc[User], c)
      BY <3>1, VeiledView
    <3>2. CASE ~Veiled(pc[User], c)
      <4>1. c.count = 0
        BY <1>0, <1>3, <3>2 DEF Veiled
      <4> QED BY <1>3, <3>2, <4>1, PlainView
    <3> QED BY <3>1, <3>2
  <2>2. Seen < EEP_SIZE
    BY <1>3, <2>1, GeometryAssumption DEF Late
  <2>3. Clip(Seen, c.count) = c.count
    BY <1>0, <1>3, <2>1, <2>2, ClipTwice
  <2>4. Asked.count = c.count /\ Asked.op = "read"
    BY <1>1, <1>3, <2>1, <2>2, <2>3, GeometryAssumption DEF Requested
  <2>5. Cursor!Read
    BY <1>1, <1>3, <2>1, <2>4 DEF Cursor!Read, Asked, Memory
  <2> QED BY <2>5
<1>4. CASE c.retval \in {0, EIO} /\ (Late(c, current_pointer) <=> c.retval = 0)
  <2>1. ~Veiled(pc[User], c)
    BY <1>4 DEF Veiled, EIO
  <2>2. Seen = current_pointer /\ Memory = eeprom
    BY <2>1, PlainView
  <2> QED BY <1>1, <1>4, <2>2, RefuseSimulated
<1>5. EIO # 0
  BY DEF EIO
<1> QED BY <1>2, <1>3, <1>4, <1>5 DEF ReadOver

(* What a write has kept, the abstract memory keeps.                       *)
LEMMA KeptView ==
  ASSUME Memory' = eeprom, Memory = c.before, Seen = c.start, eeprom \in Contents,
         NEW n \in Nat, NEW m \in Nat, n <= m, Kept(c, eeprom, n), ~Torn(c)
  PROVE  Cursor!ChangesOnly(m)
<1>1. DOMAIN Memory' = Cursor!Address /\ Cursor!Address = Addr
  BY DEF Cursor!Address, Addr, Contents
<1>2. Span(c, n) \subseteq Span(c, m)
  BY DEF Span
<1>3. \A a \in Addr \ Span(c, m) : Memory'[a] = Memory[a]
  BY <1>2 DEF Kept, Touched
<1>4. Span(c, m) = {(Seen + k) % EEP_SIZE : k \in 0 .. m - 1}
  BY DEF Span
<1> QED BY <1>1, <1>3, <1>4 DEF Cursor!ChangesOnly, Memory

(* What the end of a write is for the abstract memory.                     *)
LEMMA WriteAnswered ==
  ASSUME Known, pc[User] = "end", pc'[User] = "idle", c'.retval = c.retval,
         c.op = "write", UNCHANGED <<current_pointer, eeprom>>
  PROVE  Cursor!Refuse \/ Cursor!Write \/ Cursor!Break
<1>0. /\ c \in CallType /\ c.count \in Nat /\ current_pointer \in Nat /\ User \in Procs
      /\ Ready(pc[User], c, current_pointer) /\ c.retval \in Int /\ c.offset \in Nat
      /\ Footprint(pc[User], c, eeprom) /\ Within(pc[User], c, current_pointer)
      /\ Exact(pc[User], c, current_pointer, mem[data], eeprom)
      /\ eeprom \in Contents
  BY KnownUser DEF CallType, Known, TypeOK
<1>1. /\ Cursor!Answer(c.retval) /\ Asked = Requested /\ Requested.op = c.op
      /\ Seen' = current_pointer /\ Memory' = eeprom
      /\ Cursor!AtEnd <=> Late(c, Seen)
  BY AnswerView DEF Engaged, Critical
<1>2. WriteOver(c, current_pointer)
  BY <1>0 DEF Ready, ReadOver
<1>3. CASE /\ c.retval \in {EINVAL, EFAULT}
           /\ Late(c, current_pointer) <=> c.retval = EINVAL
  <2>1. ~Veiled(pc[User], c)
    BY <1>3 DEF Veiled
  <2>2. Seen = current_pointer /\ Memory = eeprom
    BY <2>1, PlainView
  <2> QED BY <1>1, <1>3, <2>2, RefuseSimulated
<1>4. CASE c.retval \notin {EINVAL, EFAULT}
  <2>1. Seen = c.start /\ Memory = c.before
    BY <1>4, VeiledView DEF Veiled
  <2>2. PlanKept(c) /\ c.pos < EEP_SIZE
    BY <1>0, <1>2, <1>4 DEF Within, Ended, WriteOver
  <2>7. /\ current_pointer = c.start + c.offset /\ Programmed(c, eeprom, c.offset)
        /\ ~Torn(c)
    BY <1>0, <1>4 DEF Exact, Ended
  <2>3. /\ c.start \in Nat /\ c.start < EEP_SIZE /\ c.start + c.count <= EEP_SIZE
        /\ c.remain_in_page = RemainInPage(c.start)
    BY <2>2, <2>7 DEF PlanKept, Torn
  <2>4. ~Late(c, Seen) /\ EEP_SIZE \in Nat
    BY <2>1, <2>2, <2>3, KnownUser, GeometryAssumption DEF Late
  <2>5. Clip(Seen, c.count) = c.count
    BY <1>0, <2>1, <2>3, ClipTwice
  <2>6. Asked.count = c.count /\ Asked.op = "write" /\ Asked.payload = c.payload
    BY <1>1, <2>4, <2>5 DEF Requested, Late
  <2>8. CASE c.failure = "none"
    <3>1. c.retval = c.offset /\ Kept(c, eeprom, c.offset)
      BY <1>0, <1>4, <2>8 DEF Within, Ended, Footprint
    <3>2. /\ c.retval = Written(c)
          /\ \A k \in 0 .. c.count - 1 : eeprom[c.start + k] = c.payload[k]
      BY <1>0, <1>4, <2>8 DEF Known, WriteFaithful, Completed, c
    <3>3. Cursor!ChangesOnly(c.retval)
      BY <1>0, <1>1, <2>1, <2>7, <3>1, KeptView
    <3>4. Cursor!ToPageEnd = c.remain_in_page
      BY <2>1, <2>3 DEF Cursor!ToPageEnd, RemainInPage
    <3>5. c.retval = IF Cursor!Inside THEN c.count + EEP_PAGE_SIZE ELSE c.count
      BY <2>6, <3>2, <3>4 DEF Cursor!Inside, Written, Asked
    <3>6. Cursor!Holds(c.count)
      BY <1>1, <2>1, <2>6, <3>2 DEF Cursor!Holds, Memory, Asked
    <3>7. Seen' = Seen + c.retval
      BY <1>1, <2>1, <2>7, <3>1
    <3>8. Cursor!Write
      BY <1>1, <2>4, <2>6, <3>3, <3>5, <3>6, <3>7 DEF Cursor!Write, Asked
    <3> QED BY <3>8
  <2>9. CASE c.failure # "none"
    <3>1. BrokenOff(c)
      BY <1>2, <1>4, <2>9 DEF WriteOver
    <3>2. /\ c.retval = Cursor!Broken /\ c.offset \in 0 .. EEP_SIZE
          /\ c.offset = 0 \/ (Seen + c.offset) % EEP_PAGE_SIZE = 0
      BY <1>0, <2>1, <2>4, <3>1 DEF BrokenOff, Cursor!Broken
    <3>3. /\ Kept(c, eeprom, c.offset + ChunkLen(c))
          /\ ChunkLen(c) \in 0 .. EEP_PAGE_SIZE /\ EEP_PAGE_SIZE \in Nat
      BY <1>0, <1>4, <2>9, ChunkType, GeometryAssumption DEF Footprint
    <3>4. Cursor!ChangesOnly(c.offset + EEP_PAGE_SIZE)
      BY <1>0, <1>1, <2>1, <2>7, <3>3, KeptView
    <3>5. Cursor!Holds(IF c.offset < c.count THEN c.offset ELSE c.count)
      <4>1. \A k \in 0 .. (IF c.offset < c.count THEN c.offset ELSE c.count) - 1 :
              eeprom[c.start + k] = c.payload[k]
        BY <1>0, <2>7 DEF Programmed
      <4> QED BY <1>1, <2>1, <2>6, <4>1 DEF Cursor!Holds, Memory, Asked
    <3>6. Seen' = Seen + c.offset
      BY <1>1, <2>1, <2>7
    <3>7. Cursor!Break
      BY <1>1, <2>4, <2>6, <3>2, <3>4, <3>5, <3>6 DEF Cursor!Break, Asked
    <3> QED BY <3>7
  <2> QED BY <2>8, <2>9
<1> QED BY <1>2, <1>3, <1>4 DEF WriteOver, EINVAL, EFAULT

(* Releasing the mutex answers the request.                                *)
LEMMA UnlockSimulated ==
  ASSUME Known, Unlock(User)
  PROVE  Simulated
<1>0. /\ User \in Procs /\ pc \in [Procs -> Places] /\ call \in [Procs -> CallType]
      /\ Ready(pc[User], c, current_pointer)
  BY KnownUser
<1>1. /\ pc[User] = "end" /\ pc'[User] = "idle" /\ c'.retval = c.retval
      /\ UNCHANGED <<current_pointer, eeprom>>
  BY <1>0 DEF Unlock, Goto, c, NoCall, device
<1>2. c.op \in {"read", "write"}
  BY <1>0, <1>1 DEF Ready
<1>3. Cursor!Next
  BY <1>1, <1>2, ReadAnswered, WriteAnswered DEF Cursor!Next
<1>4. ReadyInv'
  BY <1>1 DEF ReadyInv, Ready
<1> QED BY <1>3, <1>4 DEF Simulated

-----------------------------------------------------------------------------
(* Every step, and the refinement.                                         *)

(* Every step of the driver keeps the invariant and is a step of the       *)
(* abstract memory, or none.                                               *)
LEMMA StepSimulated ==
  ASSUME Known, [Next]_vars
  PROVE  Simulated
<1>1. CASE UNCHANGED vars
  <2>1. UNCHANGED <<pc, call, eeprom, current_pointer>>
    BY <1>1 DEF vars, device
  <2>2. UNCHANGED Cursor!vars
    BY <2>1, Stutter DEF Opened, Memory, Seen, Asked, Answered, Hidden, Busy, Requested, c
  <2>3. ReadyInv'
    BY <2>1 DEF Known, ReadyInv, c
  <2> QED BY <2>2, <2>3 DEF Simulated
<1>2. CASE Next
  <2>1. Request(User) \/ Acquire(User) \/ Progress(User) \/ LockKilled(User)
    BY <1>2, KnownUser DEF Next
  <2>2. Request(User) => Simulated
    BY OpenSimulated, CloseSimulated, AskSimulated, SeekSimulated DEF Request
  <2>3. Acquire(User) => Simulated
    BY LockSimulated DEF Acquire
  <2>4. ASSUME \/ ReadAddress(User) \/ ReadMessage(User) \/ ReadTransfer(User)
               \/ ReadCopy(User) \/ ReadAdvance(User)
        PROVE  Simulated
    <3>1. pc[User] # "sent"
      BY <2>4 DEF ReadAddress, ReadMessage, ReadTransfer, ReadCopy, ReadAdvance
    <3> QED BY <2>4, <3>1, ReadSimulated
  <2>5. LoadCursor(User) => Simulated
    BY ReadSimulated, ChunkSimulated
  <2>6. Progress(User) => Simulated
    BY <2>4, <2>5, OpenSimulated, CloseSimulated, ClipSimulated, CopySimulated,
       AddressSimulated, PlanSimulated, ChunkSimulated, UnlockSimulated DEF Progress
  <2> QED BY <2>1, <2>2, <2>3, <2>6, KillSimulated
<1> QED BY <1>1, <1>2

(* One process never has two files open.                                   *)
LEMMA NeverShared == Alone => (Spec => []~shared)
<1> SUFFICES ASSUME Alone PROVE Spec => []~shared
  OBVIOUS
<1>1. Init => ~shared
  BY DEF Init
<1>2. ~shared /\ [Next]_vars => ~shared'
  <2> SUFFICES ASSUME ~shared, [Next]_vars PROVE ~shared'
    OBVIOUS
  <2>1. UNCHANGED shared \/ \E p \in Procs : OpenReset(p)
    BY DEF Next, vars, history, Request, Acquire, Progress, LockKilled, Crash,
           OpenAlloc, OpenNoMemory, OpenTest, ReleaseTest, ReleaseFree, ReleaseClear,
           ReleaseReset, ReadCall, WriteCall, Llseek, ReadLock, WriteLock, TestCount,
           ClipCount, LoadCursor, ReadAddress, ReadMessage, ReadTransfer, ReadCopy,
           ReadAdvance, WriteCopy, WriteAddress, WritePlan, SendChunk, WriteAdvance, Unlock
  <2>2. ASSUME NEW p \in Procs, OpenReset(p) PROVE ~shared'
    <3>1. ~\E q \in Procs \ {p} : pc[q] # "closed"
      BY DEF Alone
    <3> QED BY <2>2, <3>1 DEF OpenReset
  <2> QED BY <2>1, <2>2
<1> QED BY <1>1, <1>2, PTL DEF Spec

(* A device just probed is a blank closed memory.                          *)
LEMMA InitSimulated == Alone /\ Init => ReadyInv /\ Cursor!Init
<1> SUFFICES ASSUME Alone, Init PROVE ReadyInv /\ Cursor!Init
  OBVIOUS
<1>1. User \in Procs
  BY DEF Alone
<1>2. pc[User] = "closed" /\ c = NoCall /\ current_pointer = 0 /\ eeprom = Blank
  BY <1>1 DEF Init, c
<1>3. ~Opened /\ Seen = 0 /\ Memory = Blank /\ Asked = NoRequest /\ Answered = 0
  BY <1>2, IdleView DEF Opened, Engaged, Critical, NoCall
<1>4. NoRequest = Cursor!None /\ Blank = [a \in Cursor!Address |-> 0]
  BY DEF NoRequest, Cursor!None, Blank, Addr, Cursor!Address
<1>5. Cursor!Init
  BY <1>3, <1>4 DEF Cursor!Init, Opened, Memory, Asked, Answered
<1>6. ReadyInv
  BY <1>2 DEF ReadyInv, Ready
<1> QED BY <1>5, <1>6

(* The driver with one user is a memory with a cursor: each call of read   *)
(* or write, cut into the chunks, transfers and cursor steps of the code,  *)
(* failed or not, is one step of CursorMemory, and everything else it does *)
(* in between is none.                                                     *)
THEOREM RefinementCorrect == Alone => (Spec => ImplementsCursorMemory)
<1> SUFFICES ASSUME Alone PROVE Spec => ImplementsCursorMemory
  OBVIOUS
<1>1. Init => ReadyInv /\ Cursor!Init
  BY InitSimulated
<1>2. /\ ~shared /\ TypeOK /\ ExclusiveInv /\ FootprintInv /\ WithinInv /\ AlignedInv
      /\ ExactInv /\ WriteFaithful /\ WriteFootprint /\ ReadyInv /\ [Next]_vars
      => ReadyInv' /\ [Cursor!Next]_(Cursor!vars)
  BY StepSimulated DEF Known, Simulated
<1>3. Spec => []~shared
  BY NeverShared
<1> QED BY <1>1, <1>2, <1>3, TypeCorrect, ExclusiveCorrect, FootprintHolds, WithinHolds,
           AlignedHolds, ExactHolds, WriteCorrect, FootprintCorrect, PTL
        DEF Spec, ImplementsCursorMemory, Cursor!Spec

=============================================================================
