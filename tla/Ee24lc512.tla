----------------------------- MODULE Ee24lc512 -----------------------------
(***************************************************************************)
(* The file operations of the 24LC512 EEPROM driver                        *)
(* (Chapter07/ee24lc512.c): open, release, read, write and llseek on one   *)
(* device, called by several processes.                                    *)
(*                                                                         *)
(* eep_mutex covers the bodies of read and write and nothing else: open    *)
(* and release assign dev->data and dev->current_pointer without it.  So a *)
(* step makes one access to one of these two fields, load or store, and    *)
(* another process may run before the next one: where the code reads a     *)
(* field twice, the two readings may differ.                               *)
(*                                                                         *)
(* Invalid memory accesses stop the system: "fault" keeps the first one.   *)
(***************************************************************************)
EXTENDS Integers

CONSTANTS
  Procs,          (* Processes, each with at most one open file.           *)
  Buffers,        (* Blocks kzalloc can hand out for dev->data.            *)
  NULL,           (* The null pointer, also "nobody" for the mutex.        *)
  EEP_SIZE,       (* Bytes in the EEPROM and in each block.                *)
  EEP_PAGE_SIZE,  (* Bytes in a page of the EEPROM.                        *)
  SIZE_T,         (* 2^(width of size_t).                                  *)
  INT_T,          (* 2^(width of int).                                     *)
  Bytes,          (* Byte values; 0 is what kzalloc fills a block with.    *)
  Payloads,       (* User buffers passed to write.                         *)
  Counts,         (* Bound: values of the count argument.                  *)
  Positions,      (* Bound: offsets passed to pread and pwrite.            *)
  Seeks           (* Bound: <<off, whence>> arguments of llseek.           *)

Addr == 0 .. EEP_SIZE - 1

(* EEP_SIZE is 2^16, the number of addresses two address bytes can carry   *)
(* and the modulus of the 16-bit i2c_msg.len.                              *)
ASSUME GeometryAssumption ==
  /\ EEP_SIZE \in Nat \ {0}
  /\ EEP_PAGE_SIZE \in Nat \ {0}
  /\ SIZE_T \in Nat \ {0}
  /\ INT_T \in Nat \ {0}
  /\ SIZE_T % EEP_PAGE_SIZE = 0
  /\ EEP_SIZE % EEP_PAGE_SIZE = 0

ASSUME InputAssumption ==
  /\ NULL \notin Procs /\ NULL \notin Buffers
  /\ 0 \in Bytes
  /\ Payloads \subseteq [Addr -> Bytes]
  /\ Counts \subseteq Nat
  /\ Positions \subseteq Nat
  /\ Seeks \subseteq Int \X Nat

VARIABLES
  data,             (* dev->data: a block or NULL.                         *)
  current_pointer,  (* dev->current_pointer.                               *)
  eep_mutex,        (* The holder of dev->eep_mutex, or NULL.              *)
  f_pos,            (* filp->f_pos of each process's file.                 *)
  heap,             (* The blocks now allocated.                           *)
  mem,              (* The bytes of each block.                            *)
  eeprom,           (* The bytes of the chip.                              *)
  pc,               (* Where each process is.                              *)
  call,             (* The local variables of each process's call.         *)
  shared,           (* History: two files have been open at once.          *)
  fault             (* History: the first invalid memory access.           *)

device  == <<data, current_pointer>>
memory  == <<heap, mem>>
history == <<shared, fault>>
vars == <<device, eep_mutex, f_pos, memory, eeprom, pc, call, history>>

-----------------------------------------------------------------------------
(* The locals of a call; an idle process keeps its last return value.      *)
(* start and before are history: the cursor and the chip when the call     *)
(* began; failure says what has failed, the bus or the copy of the user's  *)
(* buffer.                                                                 *)
Blank == [a \in Addr |-> 0]

NoCall ==
  [op |-> "none", count |-> 0, pos |-> 0, payload |-> Blank, reg_addr |-> 0,
   offset |-> 0, remain_in_page |-> 0, nb_page |-> 0, last_remain |-> 0,
   i |-> 0, stage |-> "head", msg_buf |-> NULL, loaded |-> 0, retval |-> 0,
   failure |-> "none", start |-> 0, before |-> Blank]

EINTR == -4
EIO == -5
EFAULT == -14
EINVAL == -22

(* Places between mutex_lock_killable and mutex_unlock.                    *)
Critical == {"test", "clip", "read_address", "read_message", "read",
             "read_copy", "read_load", "read_advance", "write_copy",
             "write_address", "write_plan", "send", "sent", "write_advance",
             "end"}
(* Places of a process whose file is open.                                 *)
Using == Critical \union {"idle", "read_lock", "write_lock"}

Places == Using \union {"closed", "open_alloc", "open_test", "release_free",
                       "release_clear", "release_reset"}

Faults == {"none", "null_dereference", "use_after_free", "double_free", "overrun"}

Goto(p, l) == pc' = [pc EXCEPT ![p] = l]

(* Mutant: an early return leaves the function without mutex_unlock.       *)
FinishUnlocked(p, r, f) ==
  /\ call' = [call EXCEPT ![p].retval = r, ![p].failure = f]
  /\ Goto(p, "idle")

(* The return value is set, and the call goes to its end_read or end_write.*)
Finish(p, r, f) ==
  /\ call' = [call EXCEPT ![p].retval = r, ![p].failure = f]
  /\ Goto(p, "end")

-----------------------------------------------------------------------------
(* What an access to n bytes of block b from offset o on runs into.        *)
AccessFault(b, o, n) ==
  CASE n = 0             -> "none"
    [] n > 0 /\ b = NULL -> "null_dereference"
    [] n > 0 /\ b # NULL -> IF b \notin heap THEN "use_after_free"
                            ELSE IF o + n > EEP_SIZE THEN "overrun" ELSE "none"

Crash(f) ==
  /\ fault' = f
  /\ UNCHANGED <<device, eep_mutex, f_pos, memory, eeprom, pc, call, shared>>

(* The chip: a read of n bytes from addr on wraps at the end of the chip.  *)
ReadSequential(b, addr, n) ==
  [a \in Addr |-> IF a < n THEN eeprom[(addr + a) % EEP_SIZE] ELSE b[a]]

(* The chip: a write of the n bytes b[off], b[off + 1], ... stays in the   *)
(* page of addr, the address counter wrapping at the end of that page.     *)
PageWrite(addr, b, off, n) ==
  LET first == addr % EEP_SIZE
      Index(a) == (a - first) % EEP_PAGE_SIZE
      Hit(a) == /\ a \div EEP_PAGE_SIZE = first \div EEP_PAGE_SIZE
                /\ Index(a) < n
  IN  [a \in Addr |-> IF Hit(a) THEN b[off + Index(a)] ELSE eeprom[a]]

-----------------------------------------------------------------------------
(* open and release.                                                       *)

(* The cursor is reset before the block is allocated, without the mutex.   *)
OpenReset(p) ==
  /\ pc[p] = "closed"
  /\ current_pointer' = 0
  /\ shared' = (shared \/ \E q \in Procs \ {p} : pc[q] # "closed")
  /\ Goto(p, "open_alloc")
  /\ UNCHANGED <<data, eep_mutex, f_pos, memory, eeprom, call, fault>>

(* kzalloc succeeds; the block dev->data held, if any, is forgotten.       *)
OpenAlloc(p) ==
  /\ pc[p] = "open_alloc"
  /\ \E b \in Buffers \ heap :
       /\ data' = b
       /\ heap' = heap \union {b}
       /\ mem' = [mem EXCEPT ![b] = Blank]
  /\ Goto(p, "open_test")
  /\ UNCHANGED <<current_pointer, eep_mutex, f_pos, eeprom, call, history>>

(* kzalloc fails: dev->data is NULL all the same.                          *)
OpenNoMemory(p) ==
  /\ pc[p] = "open_alloc"
  /\ data' = NULL
  /\ Goto(p, "open_test")
  /\ UNCHANGED <<current_pointer, eep_mutex, f_pos, memory, eeprom, call,
                 history>>

(* Mutant: the result of kzalloc is not tested.                            *)
OpenUntested(p) ==
  /\ pc[p] = "open_test"
  /\ Goto(p, "idle")
  /\ f_pos' = [f_pos EXCEPT ![p] = 0]
  /\ UNCHANGED <<device, eep_mutex, memory, eeprom, call, history>>

(* The open fails when dev->data, read again, is NULL.                     *)
OpenTest(p) ==
  /\ pc[p] = "open_test"
  /\ Goto(p, IF data = NULL THEN "closed" ELSE "idle")
  /\ f_pos' = [f_pos EXCEPT ![p] = 0]
  /\ UNCHANGED <<device, eep_mutex, memory, eeprom, call, history>>

ReleaseTest(p) ==
  /\ pc[p] = "idle"
  /\ Goto(p, IF data # NULL THEN "release_free" ELSE "release_reset")
  /\ UNCHANGED <<device, eep_mutex, f_pos, memory, eeprom, call, history>>

(* kfree of NULL does nothing.                                             *)
ReleaseFree(p) ==
  /\ pc[p] = "release_free"
  /\ IF data \in Buffers \ heap
     THEN Crash("double_free")
     ELSE /\ heap' = heap \ {data}
          /\ Goto(p, "release_clear")
          /\ UNCHANGED <<device, eep_mutex, f_pos, mem, eeprom, call, history>>

(* Mutant: dev->data keeps pointing at the block just freed.               *)
ReleaseDangling(p) ==
  /\ pc[p] = "release_clear"
  /\ Goto(p, "release_reset")
  /\ UNCHANGED <<device, eep_mutex, f_pos, memory, eeprom, call, history>>

(* dev->data is cleared only by a release that freed a block.              *)
ReleaseClear(p) ==
  /\ pc[p] = "release_clear"
  /\ data' = NULL
  /\ Goto(p, "release_reset")
  /\ UNCHANGED <<current_pointer, eep_mutex, f_pos, memory, eeprom, call,
                 history>>

ReleaseReset(p) ==
  /\ pc[p] = "release_reset"
  /\ current_pointer' = 0
  /\ Goto(p, "closed")
  /\ UNCHANGED <<data, eep_mutex, f_pos, memory, eeprom, call, history>>

-----------------------------------------------------------------------------
(* The lock, and what read and write share.                                *)

(* mutex_lock_killable returns an error to a process that is being killed. *)
LockKilled(p) ==
  /\ pc[p] \in {"read_lock", "write_lock"}
  /\ call' = [call EXCEPT ![p] = [NoCall EXCEPT !.retval = EINTR]]
  /\ Goto(p, "idle")
  /\ UNCHANGED <<device, eep_mutex, f_pos, memory, eeprom, history>>

Unlock(p) ==
  /\ pc[p] = "end"
  /\ eep_mutex' = NULL
  /\ call' = [call EXCEPT ![p] = [NoCall EXCEPT !.retval = call[p].retval]]
  /\ Goto(p, "idle")
  /\ UNCHANGED <<device, f_pos, memory, eeprom, history>>

(* The bytes from the cursor to the end of the chip, as a size_t.          *)
Left(pointer) == (EEP_SIZE - pointer) % SIZE_T

(* Mutant: the count is compared with the chip, not with what is left.     *)
TooLongForChip(c) == c.count > EEP_SIZE

TooLong(c) ==
  IF c.op = "read" THEN current_pointer + c.count > EEP_SIZE
  ELSE current_pointer + c.count >= EEP_SIZE

AfterClip(c) == IF c.op = "read" THEN "read_address" ELSE "write_copy"

(* The test reads the cursor ...                                           *)
TestCount(p) ==
  /\ pc[p] = "test"
  /\ Goto(p, IF TooLong(call[p]) THEN "clip" ELSE AfterClip(call[p]))
  /\ UNCHANGED <<device, eep_mutex, f_pos, memory, eeprom, call, history>>

(* ... and the cut reads it again: with a reset by an open in between, a   *)
(* read or a write goes on for the whole chip, whatever was asked for.     *)
ClipCount(p) ==
  /\ pc[p] = "clip"
  /\ LET left == Left(current_pointer)
     IN  call' = [call EXCEPT ![p].count =
                    IF left > EEP_SIZE THEN EEP_SIZE ELSE left]
  /\ Goto(p, AfterClip(call[p]))
  /\ UNCHANGED <<device, eep_mutex, f_pos, memory, eeprom, history>>

(* "current_pointer +=" loads the cursor here ...                          *)
LoadCursor(p) ==
  /\ pc[p] \in {"read_load", "sent"}
  /\ call' = [call EXCEPT ![p].loaded = current_pointer]
  /\ Goto(p, IF pc[p] = "sent" THEN "write_advance" ELSE "read_advance")
  /\ UNCHANGED <<device, eep_mutex, f_pos, memory, eeprom, history>>

-----------------------------------------------------------------------------
(* read.                                                                   *)

ReadCall(p) ==
  /\ pc[p] = "idle"
  /\ \E count \in Counts, pos \in Positions \union {f_pos[p]} :
       call' = [call EXCEPT ![p] =
                  [NoCall EXCEPT !.op = "read", !.count = count, !.pos = pos]]
  /\ Goto(p, "read_lock")
  /\ UNCHANGED <<device, eep_mutex, f_pos, memory, eeprom, history>>

(* End of file is a read of 0 bytes.                                       *)
ReadLock(p) ==
  /\ pc[p] = "read_lock"
  /\ eep_mutex = NULL
  /\ eep_mutex' = p
  /\ IF call[p].pos >= EEP_SIZE \/ current_pointer >= EEP_SIZE
     THEN Finish(p, 0, "none")
     ELSE Goto(p, "test") /\ UNCHANGED call
  /\ UNCHANGED <<device, f_pos, memory, eeprom, history>>

ReadAddress(p) ==
  /\ pc[p] = "read_address"
  /\ call' = [call EXCEPT ![p].reg_addr = current_pointer,
                          ![p].start = current_pointer]
  /\ Goto(p, "read_message")
  /\ UNCHANGED <<device, eep_mutex, f_pos, memory, eeprom, history>>

(* The second message points at the block dev->data holds now.             *)
ReadMessage(p) ==
  /\ pc[p] = "read_message"
  /\ call' = [call EXCEPT ![p].msg_buf = data]
  /\ Goto(p, "read")
  /\ UNCHANGED <<device, eep_mutex, f_pos, memory, eeprom, history>>

(* i2c_msg.len has 16 bits: a read of the whole chip asks for 0 bytes.     *)
MsgLen(count) == count % EEP_SIZE

(* A failed transfer has delivered some of the bytes and is only logged.   *)
ReadTransfer(p) ==
  LET c == call[p]
      f == AccessFault(c.msg_buf, 0, MsgLen(c.count))
  IN  /\ pc[p] = "read"
      /\ IF f # "none" THEN Crash(f) ELSE
         /\ \E got \in 0 .. MsgLen(c.count), failed \in {"none", "bus"} :
              /\ failed = "none" => got = MsgLen(c.count)
              /\ mem' = IF got = 0 THEN mem
                        ELSE [mem EXCEPT ![c.msg_buf] =
                                ReadSequential(@, c.reg_addr, got)]
              /\ call' = [call EXCEPT ![p].failure = failed]
         /\ Goto(p, "read_copy")
         /\ UNCHANGED <<device, eep_mutex, f_pos, heap, eeprom, history>>

(* copy_to_user reads dev->data again.                                     *)
ReadCopy(p) ==
  LET f == AccessFault(data, 0, call[p].count)
  IN  /\ pc[p] = "read_copy"
      /\ IF f # "none" THEN Crash(f) ELSE
         /\ \/ Finish(p, EIO, "copy")
            \/ /\ call' = [call EXCEPT ![p].retval = call[p].count]
               /\ Goto(p, "read_load")
         /\ UNCHANGED <<device, eep_mutex, f_pos, memory, eeprom, history>>

(* ... and stores it here: a reset by an open in between is lost.          *)
ReadAdvance(p) ==
  /\ pc[p] = "read_advance"
  /\ current_pointer' = call[p].loaded + call[p].count
  /\ Goto(p, "end")
  /\ UNCHANGED <<data, eep_mutex, f_pos, memory, eeprom, call, history>>

-----------------------------------------------------------------------------
(* write.                                                                  *)

WriteCall(p) ==
  /\ pc[p] = "idle"
  /\ \E count \in Counts, pos \in Positions \union {f_pos[p]},
        payload \in Payloads :
       call' = [call EXCEPT ![p] =
                  [NoCall EXCEPT !.op = "write", !.count = count, !.pos = pos,
                                 !.payload = payload]]
  /\ Goto(p, "write_lock")
  /\ UNCHANGED <<device, eep_mutex, f_pos, memory, eeprom, history>>

WriteLock(p) ==
  /\ pc[p] = "write_lock"
  /\ eep_mutex = NULL
  /\ eep_mutex' = p
  /\ IF current_pointer >= EEP_SIZE \/ call[p].pos >= EEP_SIZE
     THEN Finish(p, EINVAL, "none")
     ELSE Goto(p, "test") /\ UNCHANGED call
  /\ UNCHANGED <<device, f_pos, memory, eeprom, history>>

(* The conversion of an unsigned value to int keeps the low bits.          *)
ToInt(u) ==
  LET low == u % INT_T IN IF low < INT_T \div 2 THEN low ELSE low - INT_T

(* Mutants: the last "% EEP_PAGE_SIZE" forgotten; no partial first page.   *)
RemainWholePage(pointer) == EEP_PAGE_SIZE - (pointer % EEP_PAGE_SIZE)
RemainNothing(pointer) == 0

RemainInPage(pointer) ==
  (EEP_PAGE_SIZE - (pointer % EEP_PAGE_SIZE)) % EEP_PAGE_SIZE

(* count - remain_in_page is computed in size_t: it wraps when the write   *)
(* does not reach the end of its first page.                               *)
NbPage(count, remain) ==
  ToInt(((count - remain) % SIZE_T) \div EEP_PAGE_SIZE)

(* What NbPage is when it wraps, for every such write: -1 where size_t is  *)
(* wider than int, more pages than the chip has where it is not.           *)
WrappedPages == ToInt((SIZE_T \div EEP_PAGE_SIZE) - 1)

ASSUME WidthAssumption ==
  /\ EEP_SIZE < SIZE_T
  /\ EEP_SIZE \div EEP_PAGE_SIZE < INT_T \div 2
  /\ WrappedPages < 1 \/ WrappedPages * EEP_PAGE_SIZE >= EEP_SIZE

(* Mutant: the tail forgets the bytes that went into the first page.       *)
LastRemainOfCount(count, remain) == count % EEP_PAGE_SIZE

LastRemain(count, remain) == ((count - remain) % SIZE_T) % EEP_PAGE_SIZE

(* The parts a write of c.count bytes is sent in, by the cursor's place in *)
(* its page.                                                               *)
Plan(c, pointer) ==
  LET remain == RemainInPage(pointer)
  IN  [c EXCEPT !.remain_in_page = remain,
                !.nb_page = NbPage(c.count, remain),
                !.last_remain = LastRemain(c.count, remain)]

(* After the partial first page: whole pages, then the rest.  "end" also   *)
(* stands for the early exit before the loop.                              *)
NextStage(c) ==
  IF c.i < c.nb_page THEN "page" ELSE IF c.last_remain > 0 THEN "tail" ELSE "end"

FirstStage(c) == IF c.remain_in_page > 0 THEN "head" ELSE NextStage(c)

(* The call goes on with stage s, or to end_write when nothing is left.    *)
Continue(p, c, s) ==
  /\ call' = [call EXCEPT ![p] =
                IF s = "end" THEN c ELSE [c EXCEPT !.stage = s]]
  /\ Goto(p, IF s = "end" THEN "end" ELSE "send")

(* copy_from_user fills dev->data from its first byte on, whatever the     *)
(* cursor; a fault leaves some of the bytes copied.                        *)
CopyIn(n, payload) ==
  IF n = 0 THEN mem
  ELSE [mem EXCEPT ![data] = [a \in Addr |-> IF a < n THEN payload[a] ELSE @[a]]]

WriteCopy(p) ==
  LET c == call[p]
      f == AccessFault(data, 0, c.count)
  IN  /\ pc[p] = "write_copy"
      /\ IF f # "none" THEN Crash(f) ELSE
         /\ \/ /\ mem' = CopyIn(c.count, c.payload)
               /\ Goto(p, "write_address") /\ UNCHANGED call
            \/ /\ \E got \in 0 .. c.count : mem' = CopyIn(got, c.payload)
               /\ Finish(p, EFAULT, "copy")
         /\ UNCHANGED <<device, eep_mutex, f_pos, heap, eeprom, history>>

(* The address of the first transacWrite is the cursor as it is now ...    *)
WriteAddress(p) ==
  /\ pc[p] = "write_address"
  /\ call' = [call EXCEPT ![p].reg_addr = current_pointer,
                          ![p].start = current_pointer, ![p].before = eeprom]
  /\ Goto(p, "write_plan")
  /\ UNCHANGED <<device, eep_mutex, f_pos, memory, eeprom, history>>

(* ... and the parts are computed from the cursor as it is now.            *)
WritePlan(p) ==
  LET c == Plan(call[p], current_pointer)
  IN  /\ pc[p] = "write_plan"
      /\ Continue(p, c, FirstStage(c))
      /\ UNCHANGED <<device, eep_mutex, f_pos, memory, eeprom, history>>

ChunkLen(c) ==
  CASE c.stage = "head" -> c.remain_in_page
    [] c.stage = "page" -> EEP_PAGE_SIZE
    [] c.stage = "tail" -> c.last_remain

(* One transacWrite: it copies its bytes out of dev->data as it is now and *)
(* sends them to the address carried by two bytes.  A failed transfer may  *)
(* have programmed some of the bytes; the write then returns -1.           *)
SendChunk(p) ==
  LET c == call[p]
      n == ChunkLen(c)
      f == AccessFault(data, c.offset, n)
  IN  /\ pc[p] = "send"
      /\ IF f # "none" THEN Crash(f) ELSE
         /\ \E sent \in 0 .. n :
              /\ eeprom' = PageWrite(c.reg_addr, mem[data], c.offset, sent)
              /\ \/ Finish(p, -1, "bus")
                 \/ sent = n /\ Goto(p, "sent") /\ UNCHANGED call
         /\ UNCHANGED <<device, eep_mutex, f_pos, memory, history>>

(* Mutant: every transacWrite sends dev->data from its start.              *)
AdvanceAddress(c) ==
  LET n == ChunkLen(c)
  IN  [c EXCEPT !.reg_addr = @ + n, !.retval = c.offset + n,
                !.i = IF c.stage = "page" THEN @ + 1 ELSE @]

(* The bookkeeping after a successful transacWrite.                        *)
Advance(c) ==
  LET n == ChunkLen(c)
  IN  [c EXCEPT !.offset = @ + n, !.reg_addr = @ + n, !.retval = c.offset + n,
                !.i = IF c.stage = "page" THEN @ + 1 ELSE @]

WriteAdvance(p) ==
  LET c == Advance(call[p])
  IN  /\ pc[p] = "write_advance"
      /\ current_pointer' = c.loaded + ChunkLen(c)
      /\ Continue(p, c, IF c.stage = "tail" THEN "end" ELSE NextStage(c))
      /\ UNCHANGED <<data, eep_mutex, f_pos, memory, eeprom, history>>

-----------------------------------------------------------------------------
(* llseek, without the mutex; its test reads "newpos < 0 || EEP_SIZE".     *)
SEEK_SET == 0
SEEK_CUR == 1
NewPos(p, off, whence) == IF whence = SEEK_SET THEN off ELSE f_pos[p] + off
SeekRejected(newpos) == newpos < 0 \/ EEP_SIZE # 0

Llseek(p) ==
  /\ pc[p] = "idle"
  /\ \E s \in Seeks :
       LET newpos == NewPos(p, s[1], s[2])
           bad == s[2] \notin {SEEK_SET, SEEK_CUR} \/ SeekRejected(newpos)
       IN  /\ call' = [call EXCEPT ![p] =
                         [NoCall EXCEPT !.op = "llseek", !.start = newpos,
                            !.pos = s[2],
                            !.retval = IF bad THEN EINVAL ELSE newpos]]
           /\ current_pointer' = IF bad THEN current_pointer ELSE newpos
           /\ f_pos' = IF bad THEN f_pos ELSE [f_pos EXCEPT ![p] = newpos]
  /\ UNCHANGED <<data, eep_mutex, memory, eeprom, pc, history>>

-----------------------------------------------------------------------------
(* A device just probed: no block, the mutex free, a blank chip.           *)
Init ==
  /\ data = NULL /\ current_pointer = 0 /\ eep_mutex = NULL
  /\ f_pos = [p \in Procs |-> 0]
  /\ heap = {} /\ mem = [b \in Buffers |-> Blank]
  /\ eeprom = Blank
  /\ pc = [p \in Procs |-> "closed"] /\ call = [p \in Procs |-> NoCall]
  /\ shared = FALSE /\ fault = "none"

(* Steps user space decides on, and steps the kernel takes by itself.      *)
Request(p) ==
  OpenReset(p) \/ ReleaseTest(p) \/ ReadCall(p) \/ WriteCall(p) \/ Llseek(p)

Acquire(p) == ReadLock(p) \/ WriteLock(p)

Progress(p) ==
  \/ OpenAlloc(p) \/ OpenNoMemory(p) \/ OpenTest(p)
  \/ ReleaseFree(p) \/ ReleaseClear(p) \/ ReleaseReset(p)
  \/ TestCount(p) \/ ClipCount(p) \/ LoadCursor(p)
  \/ ReadAddress(p) \/ ReadMessage(p) \/ ReadTransfer(p) \/ ReadCopy(p)
  \/ ReadAdvance(p)
  \/ WriteCopy(p) \/ WriteAddress(p) \/ WritePlan(p) \/ SendChunk(p)
  \/ WriteAdvance(p) \/ Unlock(p)

Next ==
  /\ fault = "none"
  /\ \E p \in Procs : Request(p) \/ Acquire(p) \/ Progress(p) \/ LockKilled(p)

Spec == Init /\ [][Next]_vars

(* Every process runs, and the mutex hands itself to its waiters in turn.  *)
FairSpec ==
  /\ Spec
  /\ \A p \in Procs : WF_vars(fault = "none" /\ Progress(p))
  /\ \A p \in Procs : SF_vars(fault = "none" /\ Acquire(p))

-----------------------------------------------------------------------------
Contents == [Addr -> Bytes]
Pointer == Buffers \union {NULL}
PartOfPage == 0 .. EEP_PAGE_SIZE - 1
Op == {"none", "read", "write", "llseek"}
Stage == {"head", "page", "tail"}
Failures == {"none", "bus", "copy"}

CallType ==
  [op : Op, count : Nat, pos : Nat, payload : Contents, reg_addr : Nat,
   offset : Nat, remain_in_page : PartOfPage, nb_page : Int,
   last_remain : PartOfPage, i : Nat, stage : Stage, msg_buf : Pointer,
   loaded : Nat, retval : Int, failure : Failures, start : Int, before : Contents]

(* Every variable keeps its type: a step never computes a negative cursor, *)
(* address or length, nor addresses a byte outside the chip.               *)
TypeOK ==
  /\ data \in Pointer
  /\ current_pointer \in Nat
  /\ eep_mutex \in Procs \union {NULL}
  /\ f_pos \in [Procs -> Nat]
  /\ heap \subseteq Buffers
  /\ mem \in [Buffers -> Contents]
  /\ eeprom \in Contents
  /\ pc \in [Procs -> Places]
  /\ call \in [Procs -> CallType]
  /\ shared \in BOOLEAN
  /\ fault \in Faults

(* The mutex is held by a process exactly while that process is between    *)
(* mutex_lock_killable and end_read or end_write: no two are there at      *)
(* once, and no early exit of eep_read or eep_write keeps the mutex.       *)
MutexDiscipline == \A p \in Procs : pc[p] \in Critical <=> eep_mutex = p

(* As long as no two files have been open at once, no call dereferences    *)
(* NULL, touches a freed block or frees one twice, although open and       *)
(* release assign dev->data without the mutex, an open may fail and the    *)
(* device is opened again and again.                                       *)
ExclusiveIsMemorySafe ==
  ~shared => fault \notin {"null_dereference", "use_after_free", "double_free"}

(* With the same users, eep_release has freed what eep_open allocated: a   *)
(* device nobody has open owns no block, whatever failed in between.       *)
ExclusiveNoLeak ==
  (~shared /\ \A p \in Procs : pc[p] = "closed") => heap = {} /\ data = NULL

(* An open has reset the cursor between the reading that gave a write its  *)
(* address and the one that cut it into parts, and the two do not match.   *)
Torn(c) == c.remain_in_page # RemainInPage(c.start)

(* No transacWrite crosses a page of the chip, where the chip would wrap   *)
(* and overwrite the start of the page: also when the plan of a short      *)
(* write has wrapped around, and when another open moves the cursor, at    *)
(* any time but the one.  A torn write does cross pages.                   *)
ChunkInPage ==
  \A p \in Procs : (pc[p] = "send" /\ ~Torn(call[p])) =>
    (call[p].reg_addr % EEP_PAGE_SIZE) + ChunkLen(call[p]) <= EEP_PAGE_SIZE

(* The addresses of the first n bytes of a write.                          *)
Span(c, n) == {(c.start + k) % EEP_SIZE : k \in 0 .. n - 1}

(* A torn write may change the whole of every page it addresses.           *)
Touched(c, n) ==
  IF Torn(c)
  THEN {a \in Addr : \E b \in Span(c, n) : a \div EEP_PAGE_SIZE = b \div EEP_PAGE_SIZE}
  ELSE Span(c, n)

(* While a write is under way, the chip differs from what it was when the  *)
(* write was addressed only in the bytes already sent and in the chunk     *)
(* being sent, whatever other opens, closes and callers do; a write torn   *)
(* by an open damages bytes beside them, but none outside their pages.     *)
WriteFootprint ==
  \A p \in Procs :
    LET c == call[p]
        extent == CASE pc[p] = "send" -> c.offset
                    [] pc[p] \in {"sent", "write_advance"} -> c.offset + ChunkLen(c)
                    [] pc[p] = "end"  -> IF c.failure = "none" THEN c.offset
                                         ELSE c.offset + ChunkLen(c)
    IN  (pc[p] \in {"send", "sent", "write_advance", "end"} /\ c.op = "write"
           /\ c.retval \notin {EINVAL, EFAULT})
          => \A a \in Addr \ Touched(c, extent) : eeprom[a] = c.before[a]

(* The bytes a write that meets no error programs.  A write that ends      *)
(* inside its first page writes a page too much, because count -           *)
(* remain_in_page wraps.                                                   *)
Written(c) ==
  IF c.count < c.remain_in_page THEN c.count + EEP_PAGE_SIZE ELSE c.count

Completed(p, op) == pc[p] = "end" /\ call[p].op = op /\ call[p].failure = "none"

(* A write that reached the chip without an error, by the only user,       *)
(* returns the number of bytes it wrote, has moved the cursor by that      *)
(* number, and has put the caller's bytes at the cursor and (when it       *)
(* reached the end of its first page) nothing anywhere else: the split     *)
(* into a head, pages and a tail loses, repeats and misplaces no byte.     *)
WriteFaithful ==
  \A p \in Procs :
    LET c == call[p]
    IN  (Completed(p, "write") /\ ~shared /\ c.retval # EINVAL) =>
          /\ c.retval = Written(c)
          /\ current_pointer = c.start + c.retval
          /\ \A k \in 0 .. c.count - 1 : eeprom[c.start + k] = c.payload[k]
          /\ c.count >= c.remain_in_page =>
               \A a \in Addr \ (c.start .. c.start + c.count - 1) :
                 eeprom[a] = c.before[a]

(* When a transacWrite fails and eep_write returns -1, the cursor counts   *)
(* exactly the chunks programmed before it, and they hold the caller's     *)
(* bytes: what is written next goes where the chip has got to.             *)
FailedWriteAccounting ==
  \A p \in Procs :
    LET c == call[p]
    IN  (pc[p] = "end" /\ c.op = "write" /\ c.retval = -1 /\ ~shared) =>
          /\ current_pointer = c.start + c.offset
          /\ \A k \in 0 .. c.offset - 1 : k < c.count =>
               eeprom[c.start + k] = c.payload[k]

(* A read whose transfer worked, by the only user, returns the bytes that  *)
(* are on the chip from the old cursor on, stops at the end of the chip,   *)
(* and moves the cursor by what it returns.  (A read of the whole chip at  *)
(* once is the exception: its message asks for 0 bytes.)                   *)
ReadDelivers ==
  \A p \in Procs :
    LET c == call[p]
    IN  (Completed(p, "read") /\ ~shared /\ c.retval > 0 /\ c.count < EEP_SIZE) =>
          /\ current_pointer = c.start + c.retval
          /\ current_pointer <= EEP_SIZE
          /\ \A k \in 0 .. c.retval - 1 : mem[data][k] = eeprom[c.start + k]

(* The cursor stays within a page of the end of the chip, so it never      *)
(* approaches the limits of int, whatever the users do concurrently.       *)
CursorBound == current_pointer < EEP_SIZE + EEP_PAGE_SIZE

(* Every call of read or write returns, on every path, unless an invalid   *)
(* access has stopped the system: the mutex always finds its way back.     *)
CallReturns ==
  \A p \in Procs :
    pc[p] \notin {"closed", "idle"} ~> (pc[p] \in {"closed", "idle"} \/ fault # "none")

-----------------------------------------------------------------------------
(* Statements of the source that the code does not keep.                   *)

(* "eep_mutex - a mutex to protect the fields of this structure" (line     *)
(* 22): a process inside the mutex sees the fields change only by itself.  *)
MutexProtectsFields ==
  [][\A p \in Procs :
       (eep_mutex = p /\ device' # device)
         => (pc'[p] # pc[p] \/ call'[p] # call[p])]_vars

(* "Writing beyond the end of the buffer is not allowed." (line 175): no   *)
(* write sends a byte of dev->data past the last address of the chip.      *)
NoWriteBeyondEnd ==
  \A p \in Procs : pc[p] = "send" =>
    call[p].reg_addr + ChunkLen(call[p]) <= EEP_SIZE

=============================================================================
