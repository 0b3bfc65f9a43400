-------------------------- MODULE Ee24lc512Proofs --------------------------
(***************************************************************************)
(* What holds of Ee24lc512 for every number of processes, every geometry   *)
(* of the chip and every user input.                                       *)
(***************************************************************************)
EXTENDS Ee24lc512, TLAPS

-----------------------------------------------------------------------------
(* The operators the steps are built from.                                 *)

(* A quotient and a remainder of the driver's arithmetic are integers, and *)
(* the remainder is below the modulus.                                     *)
LEMMA DivMod ==
  ASSUME NEW a \in Int, NEW n \in Nat \ {0}
  PROVE  a % n \in 0 .. n - 1 /\ a \div n \in Int /\ a = (n * (a \div n)) + (a % n)
  OBVIOUS

(* A block of zeros is a block of bytes.                                   *)
LEMMA BlankType == Blank \in Contents
  BY InputAssumption DEF Blank, Contents

(* The record of an idle process has the type of a call.                   *)
LEMMA NoCallType == NoCall \in CallType
  BY BlankType, GeometryAssumption DEF NoCall, CallType, Failures, Op, Stage, Pointer, PartOfPage

(* What is left of the chip is a length, also when the subtraction wraps.  *)
LEMMA LeftType ==
  ASSUME NEW pointer \in Nat
  PROVE  Left(pointer) \in Nat
<1>1. EEP_SIZE - pointer \in Int
  BY GeometryAssumption
<1> QED BY <1>1, DivMod, GeometryAssumption DEF Left

(* The rest of a page is less than a page.                                 *)
LEMMA RemainType ==
  ASSUME NEW pointer \in Nat
  PROVE  RemainInPage(pointer) \in 0 .. EEP_PAGE_SIZE - 1
<1>1. pointer % EEP_PAGE_SIZE \in Int
  BY DivMod, GeometryAssumption
<1>2. EEP_PAGE_SIZE - (pointer % EEP_PAGE_SIZE) \in Int
  BY <1>1, GeometryAssumption
<1> QED BY <1>2, DivMod, GeometryAssumption DEF RemainInPage

(* The tail of a write is less than a page, wrapped or not.                *)
LEMMA LastRemainType ==
  ASSUME NEW count \in Nat, NEW remain \in Nat
  PROVE  LastRemain(count, remain) \in 0 .. EEP_PAGE_SIZE - 1
<1>1. (count - remain) % SIZE_T \in Int
  BY DivMod, GeometryAssumption
<1> QED BY <1>1, DivMod, GeometryAssumption DEF LastRemain

(* A message asks for at most as many bytes as the caller.                 *)
LEMMA MsgLenType ==
  ASSUME NEW count \in Nat
  PROVE  MsgLen(count) \in Nat
<1>1. count % EEP_SIZE \in 0 .. EEP_SIZE - 1
  BY DivMod, GeometryAssumption
<1> QED BY <1>1, GeometryAssumption DEF MsgLen

(* The number of whole pages is an integer, negative when int overflows.   *)
LEMMA NbPageType ==
  ASSUME NEW count \in Nat, NEW remain \in Nat
  PROVE  NbPage(count, remain) \in Int
<1>1. (count - remain) % SIZE_T \in Int
  BY DivMod, GeometryAssumption
<1>2. ((count - remain) % SIZE_T) \div EEP_PAGE_SIZE \in Int
  BY <1>1, DivMod, GeometryAssumption
<1> DEFINE u == ((count - remain) % SIZE_T) \div EEP_PAGE_SIZE
<1>3. u % INT_T \in Int
  BY <1>2, DivMod, GeometryAssumption
<1>4. ToInt(u) \in Int
  BY <1>3, GeometryAssumption DEF ToInt
<1> QED BY <1>4 DEF NbPage

(* A chunk is at most a page.                                              *)
LEMMA ChunkType ==
  ASSUME NEW c \in CallType
  PROVE  ChunkLen(c) \in 0 .. EEP_PAGE_SIZE
<1>1. c.stage \in {"head", "page", "tail"} /\ c.remain_in_page \in 0 .. EEP_PAGE_SIZE - 1
        /\ c.last_remain \in 0 .. EEP_PAGE_SIZE - 1
  BY DEF CallType, Stage, PartOfPage
<1> QED BY <1>1, GeometryAssumption DEF ChunkLen

(* An access that runs into nothing is inside an allocated block.          *)
LEMMA AccessInBounds ==
  ASSUME NEW b, NEW o \in Nat, NEW n \in Nat, n > 0, AccessFault(b, o, n) = "none"
  PROVE  b # NULL /\ b \in heap /\ o + n <= EEP_SIZE
<1>1. ~(n = 0)
  OBVIOUS
<1>2. b # NULL
  BY <1>1 DEF AccessFault
<1> QED BY <1>1, <1>2, GeometryAssumption DEF AccessFault

(* What an access runs into is one of the faults.                          *)
LEMMA FaultType ==
  ASSUME NEW b, NEW o \in Nat, NEW n \in Nat
  PROVE  AccessFault(b, o, n) \in Faults
<1>1. n = 0 \/ n > 0
  OBVIOUS
<1> QED BY <1>1 DEF AccessFault, Faults

(* The bookkeeping after a transacWrite keeps the type of a call.          *)
LEMMA AdvanceType ==
  ASSUME NEW c \in CallType
  PROVE  Advance(c) \in CallType
<1>1. ChunkLen(c) \in Nat /\ c.offset \in Nat /\ c.reg_addr \in Nat /\ c.i \in Nat
  BY ChunkType, GeometryAssumption DEF CallType
<1> DEFINE n == ChunkLen(c)
           next == IF c.stage = "page" THEN c.i + 1 ELSE c.i
<1>2. c.offset + n \in Nat /\ c.offset + n \in Int /\ c.reg_addr + n \in Nat /\ next \in Nat
  BY <1>1
<1> HIDE DEF n, next
<1>3. Advance(c) = [c EXCEPT !.offset = c.offset + n, !.reg_addr = c.reg_addr + n,
                      !.retval = c.offset + n, !.i = next]
  BY DEF Advance, n, next
<1> QED BY <1>2, <1>3 DEF CallType

(* So does the plan of a write.                                            *)
LEMMA PlanType ==
  ASSUME NEW c \in CallType, NEW pointer \in Nat
  PROVE  Plan(c, pointer) \in CallType
<1>1. c.count \in Nat
  BY DEF CallType
<1> DEFINE remain == RemainInPage(pointer)
<1>2. remain \in 0 .. EEP_PAGE_SIZE - 1
  BY RemainType
<1>3. remain \in Nat
  BY <1>2, GeometryAssumption
<1> HIDE DEF remain
<1>4. NbPage(c.count, remain) \in Int
  BY <1>1, <1>3, NbPageType
<1>5. LastRemain(c.count, remain) \in 0 .. EEP_PAGE_SIZE - 1
  BY <1>1, <1>3, LastRemainType
<1>6. Plan(c, pointer) = [c EXCEPT !.remain_in_page = remain,
                            !.nb_page = NbPage(c.count, remain),
                            !.last_remain = LastRemain(c.count, remain)]
  BY DEF Plan, remain
<1> QED BY <1>2, <1>4, <1>5, <1>6 DEF CallType, PartOfPage

(* Going on with a stage of the plan keeps the type of the call.           *)
LEMMA ContinueType ==
  ASSUME NEW c \in CallType, NEW s \in Stage \union {"end"}
  PROVE  (IF s = "end" THEN c ELSE [c EXCEPT !.stage = s]) \in CallType
  BY DEF CallType

(* The block holds bytes whatever part of a sequential read was done.      *)
LEMMA ReadSequentialType ==
  ASSUME NEW b \in Contents, eeprom \in Contents,
         NEW addr \in Nat, NEW n \in Nat
  PROVE  ReadSequential(b, addr, n) \in Contents
<1>1. \A a \in Addr : (addr + a) % EEP_SIZE \in Addr
  BY DivMod, GeometryAssumption DEF Addr
<1> QED BY <1>1 DEF ReadSequential, Contents

(* A page write leaves bytes on the chip.                                  *)
LEMMA PageWriteType ==
  ASSUME eeprom \in Contents, mem \in [Buffers -> Contents],
         data \in Pointer, NEW addr \in Nat, NEW o \in Nat,
         NEW n \in Nat, NEW sent \in 0 .. n, AccessFault(data, o, n) = "none"
  PROVE  PageWrite(addr, mem[data], o, sent) \in Contents
<1> DEFINE first == addr % EEP_SIZE
           Index(a) == (a - first) % EEP_PAGE_SIZE
<1>1. first \in Int
  BY DivMod, GeometryAssumption
<1>2. \A a \in Addr : Index(a) \in Nat
  BY <1>1, DivMod, GeometryAssumption DEF Addr
<1>3. ASSUME NEW a \in Addr, Index(a) < sent
      PROVE  mem[data][o + Index(a)] \in Bytes
  <2>1. n > 0
    BY <1>2, <1>3
  <2>2. data # NULL /\ o + n <= EEP_SIZE
    BY <2>1, AccessInBounds
  <2>3. o + Index(a) \in Addr
    BY <1>2, <1>3, <2>2, GeometryAssumption DEF Addr
  <2> QED BY <2>2, <2>3 DEF Contents, Pointer
<1> HIDE DEF first, Index
<1>4. PageWrite(addr, mem[data], o, sent)
        = [a \in Addr |-> IF a \div EEP_PAGE_SIZE = first \div EEP_PAGE_SIZE
                               /\ Index(a) < sent
                          THEN mem[data][o + Index(a)] ELSE eeprom[a]]
  BY DEF PageWrite, first, Index
<1> QED BY <1>3, <1>4 DEF Contents

(* copy_from_user leaves bytes in the block.                               *)
LEMMA CopyInType ==
  ASSUME mem \in [Buffers -> Contents], data \in Pointer,
         NEW payload \in Contents, NEW count \in Nat, NEW n \in 0 .. count,
         AccessFault(data, 0, count) = "none"
  PROVE  CopyIn(n, payload) \in [Buffers -> Contents]
<1>1. CASE n = 0
  BY <1>1 DEF CopyIn
<1>2. CASE n > 0
  <2>a. count > 0
    BY <1>2
  <2>b. data # NULL
    BY <2>a, AccessInBounds
  <2>1. data \in Buffers
    BY <2>b DEF Pointer
  <2> QED BY <1>2, <2>1 DEF CopyIn, Contents
<1> QED BY <1>1, <1>2

-----------------------------------------------------------------------------
(* Type correctness.                                                       *)

(* A device just probed has its types.                                     *)
LEMMA InitType == Init => TypeOK
<1> SUFFICES ASSUME Init PROVE TypeOK
  OBVIOUS
<1>1. pc \in [Procs -> Places]
  BY DEF Init, Places
<1>2. call \in [Procs -> CallType]
  BY NoCallType DEF Init
<1>3. mem \in [Buffers -> Contents] /\ eeprom \in Contents
  BY BlankType DEF Init
<1>4. fault \in Faults
  BY DEF Init, Faults
<1> QED BY <1>1, <1>2, <1>3, <1>4 DEF Init, TypeOK, Pointer

(* Leaving for end_read or end_write keeps the type of a call.             *)
LEMMA FinishType ==
  ASSUME NEW c \in CallType, NEW r \in Int, NEW f \in Failures
  PROVE  [c EXCEPT !.retval = r, !.failure = f] \in CallType
  BY DEF CallType

(* The returns of the code.                                                *)
LEMMA ReturnTypes ==
  /\ 0 \in Int /\ -1 \in Int /\ EIO \in Int /\ EFAULT \in Int /\ EINVAL \in Int
  /\ "none" \in Failures /\ "bus" \in Failures /\ "copy" \in Failures
  BY DEF EIO, EFAULT, EINVAL, Failures

(* Every step of every process keeps the types.                            *)
LEMMA StepType == TypeOK /\ [Next]_vars => TypeOK'
<1> SUFFICES ASSUME TypeOK, [Next]_vars PROVE TypeOK'
  OBVIOUS
<1>1. CASE UNCHANGED vars
  BY <1>1 DEF TypeOK, vars, device, memory, history
<1>2. ASSUME NEW p \in Procs, OpenReset(p) PROVE TypeOK'
  BY <1>2 DEF OpenReset, Places, Goto, TypeOK, memory
<1>3. ASSUME NEW p \in Procs, OpenAlloc(p) PROVE TypeOK'
  BY <1>3, BlankType DEF OpenAlloc, Pointer, Goto, TypeOK, history, Places
<1>4. ASSUME NEW p \in Procs, OpenNoMemory(p) PROVE TypeOK'
  BY <1>4 DEF OpenNoMemory, Pointer, Places, Goto, TypeOK, memory, history
<1>20. ASSUME NEW p \in Procs, OpenTest(p) PROVE TypeOK'
  BY <1>20 DEF OpenTest, Places, Using, Goto, TypeOK, device, memory, history
<1>21. ASSUME NEW p \in Procs, ReleaseTest(p) PROVE TypeOK'
  BY <1>21 DEF ReleaseTest, Places, Goto, TypeOK, device, memory, history
<1>5. ASSUME NEW p \in Procs, ReleaseFree(p) PROVE TypeOK'
  BY <1>5 DEF ReleaseFree, Places, Faults, Crash, Goto, TypeOK, device, memory, history
<1>22. ASSUME NEW p \in Procs, ReleaseClear(p) PROVE TypeOK'
  BY <1>22 DEF ReleaseClear, Pointer, Places, Goto, TypeOK, memory, history
<1>6. ASSUME NEW p \in Procs, ReleaseReset(p) PROVE TypeOK'
  BY <1>6 DEF ReleaseReset, Places, Goto, TypeOK, memory, history
<1>23. ASSUME NEW p \in Procs, TestCount(p) PROVE TypeOK'
  BY <1>23 DEF TestCount, AfterClip, Goto, TypeOK, device, memory, history, Places, Using,
               Critical
<1>24. ASSUME NEW p \in Procs, ClipCount(p) PROVE TypeOK'
  <2> DEFINE n == IF Left(current_pointer) > EEP_SIZE THEN EEP_SIZE
                  ELSE Left(current_pointer)
  <2>1. n \in Nat
    BY LeftType, GeometryAssumption DEF TypeOK
  <2>2. call' = [call EXCEPT ![p].count = n]
    BY <1>24 DEF ClipCount
  <2> HIDE DEF n
  <2>3. [call[p] EXCEPT !.count = n] \in CallType
    BY <2>1 DEF TypeOK, CallType
  <2> QED BY <1>24, <2>2, <2>3 DEF ClipCount, AfterClip, Goto, TypeOK, device, memory,
             history, Places, Using, Critical
<1>25. ASSUME NEW p \in Procs, LoadCursor(p) PROVE TypeOK'
  <2>1. [call[p] EXCEPT !.loaded = current_pointer] \in CallType
    BY DEF TypeOK, CallType
  <2> QED BY <1>25, <2>1 DEF LoadCursor, Goto, TypeOK, device, memory, history, Places,
             Using, Critical
<1>26. ASSUME NEW p \in Procs, ReadAddress(p) PROVE TypeOK'
  <2>0. call[p] \in CallType /\ current_pointer \in Nat /\ current_pointer \in Int
    BY DEF TypeOK
  <2>1. [call[p] EXCEPT !.reg_addr = current_pointer, !.start = current_pointer]
          \in CallType
    BY <2>0 DEF CallType
  <2>2. call' = [call EXCEPT ![p] = [call[p] EXCEPT !.reg_addr = current_pointer,
                                                    !.start = current_pointer]]
    BY <1>26 DEF ReadAddress, TypeOK
  <2> QED BY <1>26, <2>1, <2>2 DEF ReadAddress, Goto, TypeOK, device, memory, history,
             Places, Using, Critical
<1>27. ASSUME NEW p \in Procs, ReadMessage(p) PROVE TypeOK'
  <2>1. [call[p] EXCEPT !.msg_buf = data] \in CallType
    BY DEF TypeOK, CallType
  <2> QED BY <1>27, <2>1 DEF ReadMessage, Goto, TypeOK, device, memory, history, Places,
             Using, Critical
<1>28. ASSUME NEW p \in Procs, WriteAddress(p) PROVE TypeOK'
  <2>0. /\ call[p] \in CallType /\ current_pointer \in Nat /\ current_pointer \in Int
        /\ eeprom \in Contents
    BY DEF TypeOK
  <2>1. [call[p] EXCEPT !.reg_addr = current_pointer, !.start = current_pointer,
                        !.before = eeprom] \in CallType
    BY <2>0 DEF CallType
  <2>2. call' = [call EXCEPT ![p] = [call[p] EXCEPT !.reg_addr = current_pointer,
                                      !.start = current_pointer, !.before = eeprom]]
    BY <1>28 DEF WriteAddress, TypeOK
  <2> QED BY <1>28, <2>1, <2>2 DEF WriteAddress, Goto, TypeOK, device, memory, history,
             Places, Using, Critical

<1>7. ASSUME NEW p \in Procs, LockKilled(p) PROVE TypeOK'
  <2>1. [NoCall EXCEPT !.retval = EINTR] \in CallType
    BY NoCallType DEF CallType, EINTR
  <2> QED BY <1>7, <2>1 DEF LockKilled, Goto, TypeOK, device, memory, history, Places, Using
<1>8. ASSUME NEW p \in Procs, Unlock(p) PROVE TypeOK'
  <2>1. [NoCall EXCEPT !.retval = call[p].retval] \in CallType
    BY NoCallType DEF CallType, TypeOK
  <2> QED BY <1>8, <2>1 DEF Unlock, Goto, TypeOK, device, memory, history, Places, Using
<1>9. ASSUME NEW p \in Procs, ReadCall(p) PROVE TypeOK'
  <2>1. PICK count \in Counts, pos \in Positions \union {f_pos[p]} :
          call' = [call EXCEPT ![p] =
                    [NoCall EXCEPT !.op = "read", !.count = count, !.pos = pos]]
    BY <1>9 DEF ReadCall
  <2>2. count \in Nat /\ pos \in Nat
    BY InputAssumption DEF TypeOK
  <2>3. [NoCall EXCEPT !.op = "read", !.count = count, !.pos = pos] \in CallType
    BY <2>2, NoCallType DEF CallType, Op
  <2> QED BY <1>9, <2>1, <2>3
          DEF ReadCall, Goto, TypeOK, device, memory, history, Places, Using
<1>10. ASSUME NEW p \in Procs, ReadLock(p) PROVE TypeOK'
  <2>1. [call[p] EXCEPT !.retval = 0, !.failure = "none"] \in CallType
    BY FinishType, ReturnTypes, Zenon DEF TypeOK
  <2> QED BY <1>10, <2>1 DEF ReadLock, Finish, Goto, TypeOK, device, memory, history,
             Places, Using, Critical
<1>11. ASSUME NEW p \in Procs, ReadTransfer(p) PROVE TypeOK'
  <2>0. /\ call[p] \in CallType /\ call[p].count \in Nat
        /\ call[p].reg_addr \in Nat /\ MsgLen(call[p].count) \in Nat
    BY MsgLenType DEF TypeOK, CallType
  <2> DEFINE f == AccessFault(call[p].msg_buf, 0, MsgLen(call[p].count))
  <2>1. CASE f # "none"
    <3>1. f \in Faults
      BY <2>0, FaultType
    <3> QED BY <1>11, <2>1, <3>1 DEF ReadTransfer, Crash, TypeOK, device, memory
  <2>2. CASE f = "none"
    <3>2. PICK got \in 0 .. MsgLen(call[p].count), failed \in {"none", "bus"} :
            /\ mem' = IF got = 0 THEN mem
                      ELSE [mem EXCEPT ![call[p].msg_buf] =
                              ReadSequential(@, call[p].reg_addr, got)]
            /\ call' = [call EXCEPT ![p].failure = failed]
      BY <1>11, <2>2 DEF ReadTransfer
    <3>3. mem' \in [Buffers -> Contents]
      <4>1. CASE got = 0
        BY <3>2, <4>1 DEF TypeOK
      <4>2. CASE got > 0
        <5>1. MsgLen(call[p].count) > 0
          BY <2>0, <4>2
        <5>2. call[p].msg_buf # NULL
          BY <2>0, <2>2, <5>1, AccessInBounds
        <5>3. call[p].msg_buf \in Buffers
          BY <2>0, <5>2 DEF CallType, Pointer
        <5>4. ReadSequential(mem[call[p].msg_buf], call[p].reg_addr, got) \in Contents
          BY <2>0, <5>3, ReadSequentialType DEF TypeOK
        <5> QED BY <3>2, <4>2, <5>3, <5>4 DEF TypeOK
      <4> QED BY <2>0, <4>1, <4>2
    <3>4. call' \in [Procs -> CallType]
      <4>1. [call[p] EXCEPT !.failure = failed] \in CallType
        BY <2>0 DEF CallType, Failures
      <4> QED BY <3>2, <4>1 DEF TypeOK
    <3> QED BY <1>11, <2>2, <3>3, <3>4
            DEF ReadTransfer, Goto, TypeOK, device, history, Places, Using, Critical
  <2> QED BY <2>1, <2>2
<1>12. ASSUME NEW p \in Procs, ReadCopy(p) PROVE TypeOK'
  <2>0. call[p] \in CallType /\ call[p].count \in Nat /\ call[p].count \in Int
    BY DEF TypeOK, CallType
  <2> DEFINE f == AccessFault(data, 0, call[p].count)
  <2>1. CASE f # "none"
    <3>1. f \in Faults
      BY <2>0, FaultType
    <3> QED BY <1>12, <2>1, <3>1 DEF ReadCopy, Crash, TypeOK, device, memory
  <2>2. CASE f = "none" /\ Finish(p, EIO, "copy")
    <3>1. [call[p] EXCEPT !.retval = EIO, !.failure = "copy"] \in CallType
      BY <2>0, FinishType, ReturnTypes, Zenon
    <3> QED BY <1>12, <2>2, <3>1 DEF ReadCopy, Finish, Goto, TypeOK, device,
              memory, history, Places, Using, Critical
  <2>3. CASE f = "none" /\ ~Finish(p, EIO, "copy")
    <3>1. [call[p] EXCEPT !.retval = call[p].count] \in CallType
      BY <2>0 DEF CallType
    <3> QED BY <1>12, <2>3, <3>1 DEF ReadCopy, Goto, TypeOK, device, memory, history,
               Places, Using, Critical
  <2> QED BY <2>1, <2>2, <2>3
<1>13. ASSUME NEW p \in Procs, ReadAdvance(p) PROVE TypeOK'
  <2>1. call[p].loaded + call[p].count \in Nat
    BY DEF TypeOK, CallType
  <2> QED BY <1>13, <2>1
          DEF ReadAdvance, Goto, TypeOK, memory, history, Places, Using, Critical
<1>14. ASSUME NEW p \in Procs, WriteCall(p) PROVE TypeOK'
  <2>1. PICK count \in Counts, pos \in Positions \union {f_pos[p]}, payload \in Payloads :
          call' = [call EXCEPT ![p] =
                    [NoCall EXCEPT !.op = "write", !.count = count, !.pos = pos,
                                   !.payload = payload]]
    BY <1>14 DEF WriteCall
  <2>2. count \in Nat /\ pos \in Nat /\ payload \in Contents
    BY InputAssumption DEF TypeOK, Contents
  <2>3. [NoCall EXCEPT !.op = "write", !.count = count, !.pos = pos,
                       !.payload = payload] \in CallType
    BY <2>2, NoCallType DEF CallType, Op
  <2> QED BY <1>14, <2>1, <2>3
          DEF WriteCall, Goto, TypeOK, device, memory, history, Places, Using
<1>15. ASSUME NEW p \in Procs, WriteLock(p) PROVE TypeOK'
  <2>1. [call[p] EXCEPT !.retval = EINVAL, !.failure = "none"] \in CallType
    BY FinishType, ReturnTypes, Zenon DEF TypeOK
  <2> QED BY <1>15, <2>1 DEF WriteLock, Finish, Goto, TypeOK, device, memory, history,
             Places, Using, Critical
<1>16. ASSUME NEW p \in Procs, WriteCopy(p) PROVE TypeOK'
  <2>0. /\ call[p] \in CallType /\ call[p].count \in Nat /\ call[p].payload \in Contents
        /\ data \in Pointer /\ mem \in [Buffers -> Contents]
    BY DEF TypeOK, CallType
  <2> DEFINE f == AccessFault(data, 0, call[p].count)
  <2>1. CASE f # "none"
    <3>1. f \in Faults
      BY <2>0, FaultType
    <3> QED BY <1>16, <2>1, <3>1 DEF WriteCopy, Crash, TypeOK, device, memory
  <2>2. CASE f = "none" /\ mem' = CopyIn(call[p].count, call[p].payload)
               /\ Goto(p, "write_address") /\ UNCHANGED call
    <3>1. mem' \in [Buffers -> Contents]
      BY <2>0, <2>2, CopyInType
    <3> QED BY <1>16, <2>2, <3>1
            DEF WriteCopy, Goto, TypeOK, device, history, Places, Using, Critical
  <2>3. CASE f = "none" /\ (\E got \in 0 .. call[p].count : mem' = CopyIn(got, call[p].payload))
               /\ Finish(p, EFAULT, "copy")
    <3>1. mem' \in [Buffers -> Contents]
      BY <2>0, <2>3, CopyInType
    <3>2. [call[p] EXCEPT !.retval = EFAULT, !.failure = "copy"] \in CallType
      BY <2>0, FinishType, ReturnTypes, Zenon
    <3> QED BY <1>16, <2>3, <3>1, <3>2
            DEF WriteCopy, Finish, Goto, TypeOK, device, history, Places, Using, Critical
  <2> QED BY <1>16, <2>1, <2>2, <2>3 DEF WriteCopy
<1>29. ASSUME NEW p \in Procs, WritePlan(p) PROVE TypeOK'
  <2> DEFINE c == Plan(call[p], current_pointer)
             s == FirstStage(c)
  <2>1. c \in CallType
    BY PlanType DEF TypeOK
  <2>2. s \in Stage \union {"end"}
    BY DEF FirstStage, NextStage, Stage
  <2> HIDE DEF c, s
  <2>3. (IF s = "end" THEN c ELSE [c EXCEPT !.stage = s]) \in CallType
    BY <2>1, <2>2, ContinueType, Zenon
  <2>4. Continue(p, c, s)
    BY <1>29 DEF WritePlan, c, s
  <2>5. call' \in [Procs -> CallType] /\ pc' \in [Procs -> Places]
    BY <2>3, <2>4 DEF Continue, Goto, TypeOK, Places, Using, Critical
  <2> QED BY <1>29, <2>5 DEF WritePlan, TypeOK, device, memory, history
<1>17. ASSUME NEW p \in Procs, SendChunk(p) PROVE TypeOK'
  <2>0. /\ call[p] \in CallType /\ call[p].offset \in Nat /\ call[p].reg_addr \in Nat
        /\ data \in Pointer /\ mem \in [Buffers -> Contents] /\ eeprom \in Contents
    BY DEF TypeOK, CallType
  <2> DEFINE n == ChunkLen(call[p])
             f == AccessFault(data, call[p].offset, n)
  <2>a. n \in Nat
    BY <2>0, ChunkType, GeometryAssumption
  <2>1. CASE f # "none"
    <3>1. f \in Faults
      BY <2>0, <2>a, FaultType
    <3> QED BY <1>17, <2>1, <3>1 DEF SendChunk, Crash, TypeOK, device, memory
  <2>2. CASE f = "none"
    <3>1. PICK sent \in 0 .. n :
            /\ eeprom' = PageWrite(call[p].reg_addr, mem[data], call[p].offset, sent)
            /\ \/ Finish(p, -1, "bus")
               \/ Goto(p, "sent") /\ UNCHANGED call
      BY <1>17, <2>2 DEF SendChunk
    <3>2. eeprom' \in Contents
      BY <2>0, <2>a, <2>2, <3>1, PageWriteType
    <3>3. [call[p] EXCEPT !.retval = -1, !.failure = "bus"] \in CallType
      BY <2>0, FinishType, ReturnTypes, Zenon
    <3>4. call' \in [Procs -> CallType] /\ pc' \in [Procs -> Places]
      BY <3>1, <3>3 DEF Finish, Goto, TypeOK, Places, Using, Critical
    <3> QED BY <1>17, <2>2, <3>2, <3>4 DEF SendChunk, TypeOK, device, memory, history
  <2> QED BY <2>1, <2>2
<1>18. ASSUME NEW p \in Procs, WriteAdvance(p) PROVE TypeOK'
  <2> DEFINE c == Advance(call[p])
             s == IF c.stage = "tail" THEN "end" ELSE NextStage(c)
  <2>1. c \in CallType
    BY AdvanceType DEF TypeOK
  <2>2. c.loaded + ChunkLen(c) \in Nat
    BY <2>1, ChunkType, GeometryAssumption DEF CallType
  <2>3. s \in Stage \union {"end"}
    BY DEF NextStage, Stage
  <2> HIDE DEF c, s
  <2>4. Continue(p, c, s)
    BY <1>18 DEF WriteAdvance, c, s
  <2>a. (IF s = "end" THEN c ELSE [c EXCEPT !.stage = s]) \in CallType
    BY <2>1, <2>3, ContinueType, Zenon
  <2>5. call' \in [Procs -> CallType] /\ pc' \in [Procs -> Places]
    BY <2>4, <2>a DEF Continue, Goto, TypeOK, Places, Using, Critical
  <2> QED BY <1>18, <2>2, <2>5 DEF WriteAdvance, c, TypeOK, memory, history
<1>19. ASSUME NEW p \in Procs, Llseek(p) PROVE TypeOK'
  <2>1. PICK s \in Seeks :
          LET newpos == NewPos(p, s[1], s[2])
              bad == s[2] \notin {SEEK_SET, SEEK_CUR} \/ SeekRejected(newpos)
          IN  /\ call' = [call EXCEPT ![p] =
                            [NoCall EXCEPT !.op = "llseek", !.start = newpos,
                               !.pos = s[2],
                               !.retval = IF bad THEN EINVAL ELSE newpos]]
              /\ current_pointer' = IF bad THEN current_pointer ELSE newpos
              /\ f_pos' = IF bad THEN f_pos ELSE [f_pos EXCEPT ![p] = newpos]
    BY <1>19 DEF Llseek
  <2>2. s[1] \in Int /\ s[2] \in Nat
    BY InputAssumption
  <2> DEFINE newpos == NewPos(p, s[1], s[2])
  <2>3. newpos \in Int /\ SeekRejected(newpos)
    BY <2>2, GeometryAssumption DEF NewPos, SeekRejected, TypeOK
  <2> HIDE DEF newpos
  <2>4. [NoCall EXCEPT !.op = "llseek", !.start = newpos, !.pos = s[2],
                       !.retval = EINVAL] \in CallType
    BY <2>2, <2>3, NoCallType, ReturnTypes DEF CallType, Op
  <2>5. /\ call' = [call EXCEPT ![p] =
                      [NoCall EXCEPT !.op = "llseek", !.start = newpos,
                         !.pos = s[2], !.retval = EINVAL]]
        /\ current_pointer' = current_pointer /\ f_pos' = f_pos
    BY <2>1, <2>3 DEF newpos
  <2> QED BY <1>19, <2>4, <2>5 DEF Llseek, TypeOK, memory, history
<1> QED BY <1>1, <1>2, <1>3, <1>4, <1>5, <1>6, <1>7, <1>8, <1>9, <1>10, <1>11, <1>12,
           <1>13, <1>14, <1>15, <1>16, <1>17, <1>18, <1>19, <1>20, <1>21, <1>22, <1>23,
           <1>24, <1>25, <1>26, <1>27, <1>28, <1>29
        DEF Next, Request, Acquire, Progress

(* Every variable keeps its type, whatever users do, whoever is killed and *)
(* whatever fails: the driver never computes a negative cursor, address or *)
(* length, and no step leaves its places.                                  *)
THEOREM TypeCorrect == Spec => []TypeOK
<1> QED BY InitType, StepType, PTL DEF Spec

-----------------------------------------------------------------------------
(* The mutex.                                                              *)

(* Every step keeps the mutex where its holder is.                         *)
LEMMA StepMutex == TypeOK /\ MutexDiscipline /\ [Next]_vars => MutexDiscipline'
<1> SUFFICES ASSUME TypeOK, MutexDiscipline, [Next]_vars PROVE MutexDiscipline'
  OBVIOUS
<1>0. pc \in [Procs -> Places] /\ NULL \notin Procs
  BY InputAssumption DEF TypeOK
<1> USE <1>0 DEF MutexDiscipline, Critical
<1>1. CASE UNCHANGED vars
  BY <1>1 DEF vars
<1>2. ASSUME NEW p \in Procs, eep_mutex' = eep_mutex,
             \/ pc' = pc
             \/ \E l \in Critical : pc[p] \in Critical /\ pc' = [pc EXCEPT ![p] = l]
             \/ \E l \in Places \ Critical :
                  pc[p] \notin Critical /\ pc' = [pc EXCEPT ![p] = l]
      PROVE  MutexDiscipline'
  BY <1>2
<1>3. ASSUME NEW p \in Procs, Request(p) PROVE MutexDiscipline'
  <2>1. CASE OpenReset(p)
    BY <1>2, <2>1 DEF OpenReset, Goto, Places, Using
  <2>2. CASE ReleaseTest(p)
    BY <1>2, <2>2 DEF ReleaseTest, Goto, Places, Using
  <2>3. CASE ReadCall(p) \/ WriteCall(p)
    BY <1>2, <2>3 DEF ReadCall, WriteCall, Goto, Places, Using
  <2>4. CASE Llseek(p)
    BY <1>2, <2>4 DEF Llseek
  <2> QED BY <1>3, <2>1, <2>2, <2>3, <2>4 DEF Request
<1>4. ASSUME NEW p \in Procs, Acquire(p) PROVE MutexDiscipline'
  BY <1>4 DEF Acquire, ReadLock, WriteLock, Finish, Goto
<1>5. ASSUME NEW p \in Procs, LockKilled(p) PROVE MutexDiscipline'
  BY <1>2, <1>5 DEF LockKilled, Goto, Places, Using
<1>6. ASSUME NEW p \in Procs, Unlock(p) PROVE MutexDiscipline'
  BY <1>6 DEF Unlock, Goto
<1>7. ASSUME NEW p \in Procs, \/ OpenAlloc(p) \/ OpenNoMemory(p) \/ OpenTest(p)
                              \/ ReleaseFree(p) \/ ReleaseClear(p) \/ ReleaseReset(p)
      PROVE  MutexDiscipline'
  BY <1>2, <1>7 DEF OpenAlloc, OpenNoMemory, OpenTest, ReleaseFree, ReleaseClear,
                    ReleaseReset, Crash, Goto, Places, Using
<1>8. ASSUME NEW p \in Procs, TestCount(p) \/ ClipCount(p) \/ LoadCursor(p)
      PROVE  MutexDiscipline'
  BY <1>2, <1>8 DEF TestCount, ClipCount, LoadCursor, AfterClip, Goto
<1>9. ASSUME NEW p \in Procs, \/ ReadAddress(p) \/ ReadMessage(p) \/ ReadTransfer(p)
                              \/ ReadCopy(p) \/ ReadAdvance(p)
      PROVE  MutexDiscipline'
  BY <1>2, <1>9 DEF ReadAddress, ReadMessage, ReadTransfer, ReadCopy, ReadAdvance, Finish,
                    Crash, Goto
<1>10. ASSUME NEW p \in Procs, \/ WriteCopy(p) \/ WriteAddress(p) \/ WritePlan(p)
                               \/ SendChunk(p) \/ WriteAdvance(p)
      PROVE  MutexDiscipline'
  BY <1>2, <1>10 DEF WriteCopy, WriteAddress, WritePlan, SendChunk, WriteAdvance, Continue,
                     Finish, Crash, Goto
<1> QED BY <1>1, <1>3, <1>4, <1>5, <1>6, <1>7, <1>8, <1>9, <1>10 DEF Next, Progress

(* No two processes are between mutex_lock_killable and mutex_unlock at    *)
(* once, and no path through eep_read or eep_write keeps the mutex.        *)
THEOREM MutexCorrect == Spec => []MutexDiscipline
<1>1. Init => MutexDiscipline
  BY InputAssumption DEF Init, MutexDiscipline, Critical
<1> QED BY <1>1, StepMutex, TypeCorrect, PTL DEF Spec

-----------------------------------------------------------------------------
(* Memory safety of a device that is never open twice at once.             *)

(* The only process whose file is not closed decides what dev->data is:    *)
(* its block while the file is open, and no block is allocated outside of  *)
(* that.  The message of a read points at that block.                      *)
ExclusiveInv ==
  ~shared =>
    /\ \A p, q \in Procs : pc[p] # "closed" /\ pc[q] # "closed" => p = q
    /\ \A p \in Procs : pc[p] \in Using \union {"release_free"} =>
         data # NULL /\ heap = {data}
    /\ \A p \in Procs : pc[p] = "open_test" => heap = {data} \ {NULL}
    /\ \A p \in Procs : pc[p] \in {"open_alloc", "release_clear"} => heap = {}
    /\ \A p \in Procs : pc[p] = "release_reset" => heap = {} /\ data = NULL
    /\ (\A p \in Procs : pc[p] = "closed") => heap = {} /\ data = NULL
    /\ \A p \in Procs : pc[p] = "read" => call[p].msg_buf = data
    /\ fault \in {"none", "overrun"}

(* An access to an allocated block can only overrun it.                    *)
LEMMA AccessAllocated ==
  ASSUME NEW b, NEW o \in Nat, NEW n \in Nat, b # NULL, b \in heap
  PROVE  AccessFault(b, o, n) \in {"none", "overrun"}
<1>1. n = 0 \/ n > 0
  OBVIOUS
<1> QED BY <1>1 DEF AccessFault

(* Every step keeps what a single user can rely on.                        *)
LEMMA StepExclusive == TypeOK /\ ExclusiveInv /\ [Next]_vars => ExclusiveInv'
<1> SUFFICES ASSUME TypeOK, ExclusiveInv, [Next]_vars, ~shared' PROVE ExclusiveInv'
  BY DEF ExclusiveInv
<1>0. pc \in [Procs -> Places] /\ call \in [Procs -> CallType]
  BY DEF TypeOK
<1>1. CASE UNCHANGED vars
  BY <1>1 DEF vars, device, memory, history, ExclusiveInv
<1>2. ASSUME NEW p \in Procs, OpenReset(p) PROVE ExclusiveInv'
  BY <1>0, <1>2 DEF OpenReset, Goto, memory, ExclusiveInv, Using, Critical
<1>3. ASSUME NEW p \in Procs, OpenAlloc(p) PROVE ExclusiveInv'
  <2>1. data' # NULL /\ heap' = heap \union {data'}
    BY <1>3, InputAssumption DEF OpenAlloc
  <2> QED BY <1>0, <1>3, <2>1 DEF OpenAlloc, Goto, history, ExclusiveInv, Using, Critical
<1>4. ASSUME NEW p \in Procs, OpenNoMemory(p) PROVE ExclusiveInv'
  BY <1>0, <1>4 DEF OpenNoMemory, Goto, memory, history, ExclusiveInv, Using, Critical
<1>18. ASSUME NEW p \in Procs, OpenTest(p) PROVE ExclusiveInv'
  <2>1. ~shared /\ heap = {data} \ {NULL}
    BY <1>18 DEF OpenTest, history, ExclusiveInv
  <2> QED BY <1>0, <1>18, <2>1 DEF OpenTest, Goto, device, memory, history, ExclusiveInv,
             Using, Critical
<1>19. ASSUME NEW p \in Procs, ReleaseTest(p) PROVE ExclusiveInv'
  <2>1. data # NULL
    BY <1>19 DEF ReleaseTest, history, ExclusiveInv, Using
  <2> QED BY <1>0, <1>19, <2>1 DEF ReleaseTest, Goto, device, memory, history,
             ExclusiveInv, Using, Critical
<1>5. ASSUME NEW p \in Procs, ReleaseFree(p) PROVE ExclusiveInv'
  <2>1. ~shared /\ data # NULL /\ heap = {data}
    BY <1>5 DEF ReleaseFree, Crash, history, ExclusiveInv
  <2> QED BY <1>0, <1>5, <2>1
          DEF ReleaseFree, Goto, device, history, ExclusiveInv, Using, Critical
<1>20. ASSUME NEW p \in Procs, ReleaseClear(p) PROVE ExclusiveInv'
  BY <1>0, <1>20 DEF ReleaseClear, Goto, memory, history, ExclusiveInv, Using, Critical
<1>6. ASSUME NEW p \in Procs, ReleaseReset(p) PROVE ExclusiveInv'
  BY <1>0, <1>6 DEF ReleaseReset, Goto, memory, history, ExclusiveInv, Using, Critical
<1>7. ASSUME NEW p \in Procs, shared' = shared, data' = data, heap' = heap,
             fault' \in {"none", "overrun"}, pc[p] \in Using,
             NEW l \in Using, pc' = [pc EXCEPT ![p] = l],
             \A q \in Procs \ {p} : call'[q] = call[q],
             l = "read" => call'[p].msg_buf = data
      PROVE  ExclusiveInv'
  BY <1>0, <1>7 DEF ExclusiveInv, Using, Critical
<1>9. ASSUME NEW p \in Procs, ReadCall(p) \/ WriteCall(p) \/ LockKilled(p) \/ Unlock(p)
      PROVE  ExclusiveInv'
  BY <1>0, <1>7, <1>9 DEF ReadCall, WriteCall, LockKilled, Unlock, Goto, device, memory,
                          history, ExclusiveInv, Using, Critical
<1>10. ASSUME NEW p \in Procs, Llseek(p) PROVE ExclusiveInv'
  BY <1>0, <1>10 DEF Llseek, memory, history, ExclusiveInv, Using, Critical
<1>11. ASSUME NEW p \in Procs, Acquire(p) PROVE ExclusiveInv'
  BY <1>0, <1>7, <1>11 DEF Acquire, ReadLock, WriteLock, Finish, Goto, device, memory,
                           history, ExclusiveInv, Using, Critical
<1>21. ASSUME NEW p \in Procs, \/ TestCount(p) \/ ClipCount(p) \/ LoadCursor(p)
                               \/ ReadAddress(p) \/ WriteAddress(p)
       PROVE  ExclusiveInv'
  BY <1>0, <1>7, <1>21 DEF TestCount, ClipCount, LoadCursor, ReadAddress, WriteAddress,
       AfterClip, Goto, device, memory, history, ExclusiveInv, Using, Critical
<1>22. ASSUME NEW p \in Procs, ReadMessage(p) PROVE ExclusiveInv'
  <2>1. call'[p].msg_buf = data
    BY <1>0, <1>22 DEF ReadMessage, CallType
  <2> QED BY <1>0, <1>7, <1>22, <2>1 DEF ReadMessage, Goto, device, memory, history,
             ExclusiveInv, Using, Critical
<1>12. ASSUME NEW p \in Procs, ReadTransfer(p) PROVE ExclusiveInv'
  <2> DEFINE f == AccessFault(call[p].msg_buf, 0, MsgLen(call[p].count))
  <2>1. CASE f = "none"
    BY <1>0, <1>7, <1>12, <2>1
       DEF ReadTransfer, Goto, device, history, ExclusiveInv, Using, Critical
  <2>2. CASE f # "none"
    <3>1. Crash(f)
      BY <1>12, <2>2 DEF ReadTransfer
    <3>2. call[p].msg_buf # NULL /\ call[p].msg_buf \in heap
      BY <1>12, <3>1 DEF ReadTransfer, Crash, ExclusiveInv, Using, Critical
    <3>3. MsgLen(call[p].count) \in Nat
      BY <1>0, MsgLenType DEF CallType
    <3>4. f \in {"none", "overrun"}
      BY <3>2, <3>3, AccessAllocated
    <3> HIDE DEF f
    <3> QED BY <3>1, <3>4 DEF Crash, device, memory, ExclusiveInv, Using
  <2> QED BY <2>1, <2>2
<1>13. ASSUME NEW p \in Procs, ReadCopy(p) PROVE ExclusiveInv'
  <2> DEFINE f == AccessFault(data, 0, call[p].count)
  <2>1. CASE f = "none"
    BY <1>0, <1>7, <1>13, <2>1
       DEF ReadCopy, Finish, Goto, device, memory, history, ExclusiveInv, Using, Critical
  <2>2. CASE f # "none"
    <3>1. Crash(f)
      BY <1>13, <2>2 DEF ReadCopy
    <3>2. data # NULL /\ data \in heap
      BY <1>13, <3>1 DEF ReadCopy, Crash, ExclusiveInv, Using, Critical
    <3>3. call[p].count \in Nat
      BY <1>0 DEF CallType
    <3>4. f \in {"none", "overrun"}
      BY <3>2, <3>3, AccessAllocated
    <3> HIDE DEF f
    <3> QED BY <3>1, <3>4 DEF Crash, device, memory, ExclusiveInv, Using
  <2> QED BY <2>1, <2>2
<1>14. ASSUME NEW p \in Procs, ReadAdvance(p) PROVE ExclusiveInv'
  BY <1>0, <1>7, <1>14 DEF ReadAdvance, Goto, memory, history, ExclusiveInv, Using,
                           Critical
<1>15. ASSUME NEW p \in Procs, WriteCopy(p) PROVE ExclusiveInv'
  <2> DEFINE f == AccessFault(data, 0, call[p].count)
  <2>1. CASE f = "none"
    BY <1>0, <1>7, <1>15, <2>1
       DEF WriteCopy, Finish, Goto, device, history, ExclusiveInv, Using, Critical
  <2>2. CASE f # "none"
    <3>1. Crash(f)
      BY <1>15, <2>2 DEF WriteCopy
    <3>2. data # NULL /\ data \in heap
      BY <1>15, <3>1 DEF WriteCopy, Crash, ExclusiveInv, Using, Critical
    <3>3. call[p].count \in Nat
      BY <1>0 DEF CallType
    <3>4. f \in {"none", "overrun"}
      BY <3>2, <3>3, AccessAllocated
    <3> HIDE DEF f
    <3> QED BY <3>1, <3>4 DEF Crash, device, memory, ExclusiveInv, Using
  <2> QED BY <2>1, <2>2
<1>16. ASSUME NEW p \in Procs, SendChunk(p) PROVE ExclusiveInv'
  <2> DEFINE f == AccessFault(data, call[p].offset, ChunkLen(call[p]))
  <2>1. CASE f = "none"
    BY <1>0, <1>7, <1>16, <2>1
       DEF SendChunk, Finish, Goto, device, memory, history, ExclusiveInv, Using,
           Critical
  <2>2. CASE f # "none"
    <3>1. Crash(f)
      BY <1>16, <2>2 DEF SendChunk
    <3>2. data # NULL /\ data \in heap
      BY <1>16, <3>1 DEF SendChunk, Crash, ExclusiveInv, Using, Critical
    <3>3. call[p].offset \in Nat /\ ChunkLen(call[p]) \in Nat
      BY <1>0, ChunkType, GeometryAssumption DEF CallType
    <3>4. f \in {"none", "overrun"}
      BY <3>2, <3>3, AccessAllocated
    <3> HIDE DEF f
    <3> QED BY <3>1, <3>4 DEF Crash, device, memory, ExclusiveInv, Using
  <2> QED BY <2>1, <2>2
<1>17. ASSUME NEW p \in Procs, WritePlan(p) \/ WriteAdvance(p) PROVE ExclusiveInv'
  BY <1>0, <1>7, <1>17 DEF WritePlan, WriteAdvance, Continue, Goto, device, memory, history,
                           ExclusiveInv, Using, Critical
<1> QED BY <1>1, <1>2, <1>3, <1>4, <1>5, <1>6, <1>9, <1>10, <1>11, <1>12, <1>13, <1>14,
           <1>15, <1>16, <1>17, <1>18, <1>19, <1>20, <1>21, <1>22
        DEF Next, Request, Progress

(* So it holds in every reachable state.                                   *)
LEMMA ExclusiveCorrect == Spec => []ExclusiveInv
<1>1. Init => ExclusiveInv
  BY DEF Init, ExclusiveInv, Using, Critical
<1> QED BY <1>1, StepExclusive, TypeCorrect, PTL DEF Spec

(* While no two files have been open at once, no call of the driver        *)
(* touches NULL or a freed block, and none frees a block twice.            *)
THEOREM MemorySafety == Spec => []ExclusiveIsMemorySafe
<1>1. ExclusiveInv => ExclusiveIsMemorySafe
  BY DEF ExclusiveInv, ExclusiveIsMemorySafe
<1> QED BY <1>1, ExclusiveCorrect, PTL

(* And a device nobody has open owns no block.                             *)
THEOREM NoLeak == Spec => []ExclusiveNoLeak
<1>1. ExclusiveInv => ExclusiveNoLeak
  BY DEF ExclusiveInv, ExclusiveNoLeak
<1> QED BY <1>1, ExclusiveCorrect, PTL

-----------------------------------------------------------------------------
(* No transacWrite crosses a page.                                         *)

(* A remainder is determined by its equation.                              *)
LEMMA ModUnique ==
  ASSUME NEW n \in Nat \ {0}, NEW q \in Int, NEW r \in 0 .. n - 1
  PROVE  ((n * q) + r) % n = r
<1> DEFINE a == (n * q) + r
           k == a \div n
<1>0. a \in Int /\ r \in Int /\ n \in Int /\ n > 0
  OBVIOUS
<1> HIDE DEF a
<1>1. a % n \in 0 .. n - 1 /\ k \in Int /\ a = (n * k) + (a % n)
  BY <1>0, DivMod
<1> HIDE DEF k
<1>2. n * (q - k) = (a % n) - r
  BY <1>0, <1>1 DEF a
<1>3. ~(q - k >= 1)
  BY <1>0, <1>1, <1>2
<1>4. ~(q - k <= -1)
  BY <1>0, <1>1, <1>2
<1>5. q = k
  BY <1>1, <1>3, <1>4
<1> QED BY <1>0, <1>1, <1>5 DEF a

(* Adding the rest of the page, or a whole page, reaches a page boundary.  *)
LEMMA PageBoundary ==
  ASSUME NEW a \in Nat
  PROVE  /\ (a + RemainInPage(a)) % EEP_PAGE_SIZE = 0
         /\ a % EEP_PAGE_SIZE = 0 => (a + EEP_PAGE_SIZE) % EEP_PAGE_SIZE = 0
         /\ (a % EEP_PAGE_SIZE) + RemainInPage(a) <= EEP_PAGE_SIZE
         /\ RemainInPage(a) = 0 => a % EEP_PAGE_SIZE = 0
<1> DEFINE n == EEP_PAGE_SIZE
           r == a % n
           k == a \div n
<1>0. n \in Nat \ {0} /\ n \in Int /\ n > 0 /\ 0 \in 0 .. n - 1
  BY GeometryAssumption
<1> HIDE DEF n
<1>1. r \in 0 .. n - 1 /\ k \in Int /\ a = (n * k) + r
  BY <1>0, DivMod
<1>2. (n * (k + 1)) % n = 0
  <2>1. ((n * (k + 1)) + 0) % n = 0
    BY <1>0, <1>1, ModUnique
  <2>2. n * (k + 1) \in Int
    BY <1>0, <1>1
  <2> QED BY <2>1, <2>2
<1>3. RemainInPage(a) = IF r = 0 THEN 0 ELSE n - r
  <2>1. CASE r = 0
    <3>1. ((n * 1) + 0) % n = 0
      BY <1>0, ModUnique
    <3>2. n % n = 0
      BY <1>0, <3>1
    <3> QED BY <2>1, <3>2, <1>0 DEF RemainInPage, n
  <2>2. CASE r # 0
    <3>1. n - r \in 0 .. n - 1
      BY <1>0, <1>1, <2>2
    <3>2. ((n * 0) + (n - r)) % n = n - r
      BY <1>0, <3>1, ModUnique
    <3>3. (n - r) % n = n - r
      BY <1>0, <3>1, <3>2
    <3> QED BY <2>2, <3>3 DEF RemainInPage, n
  <2> QED BY <2>1, <2>2
<1>4. r # 0 => a + (n - r) = n * (k + 1)
  BY <1>0, <1>1
<1>5. r = 0 => a + n = n * (k + 1)
  BY <1>0, <1>1
<1>6. r = 0 => (a + 0) % n = 0
  BY <1>1
<1> HIDE DEF k, r
<1>7. (a + RemainInPage(a)) % n = 0
  BY <1>2, <1>3, <1>4, <1>6
<1>8. r = 0 => (a + n) % n = 0
  BY <1>2, <1>5
<1>9. r + RemainInPage(a) <= n /\ (RemainInPage(a) = 0 => r = 0)
  BY <1>0, <1>1, <1>3
<1> QED BY <1>7, <1>8, <1>9 DEF n, r

(* The head starts at the cursor and ends a page; a page and the tail      *)
(* start a page.                                                           *)
Aligned(c) ==
  IF c.stage = "head"
  THEN /\ (c.reg_addr % EEP_PAGE_SIZE) + c.remain_in_page <= EEP_PAGE_SIZE
       /\ (c.reg_addr + c.remain_in_page) % EEP_PAGE_SIZE = 0
  ELSE c.reg_addr % EEP_PAGE_SIZE = 0

(* A write that is not torn sends aligned chunks; where it starts and its  *)
(* first address are one reading of the cursor.                            *)
AlignedAt(l, c) ==
  /\ l = "write_plan" => c.reg_addr = c.start
  /\ l \in {"send", "sent", "write_advance"} => Torn(c) \/ Aligned(c)

AlignedInv == \A p \in Procs : AlignedAt(pc[p], call[p])

(* The first chunk of a plan made at the cursor the write has its address  *)
(* from either ends its page or starts one.                                *)
LEMMA FirstStageAligned ==
  ASSUME NEW c \in CallType, NEW pointer \in Nat, c.reg_addr = c.start,
         FirstStage(Plan(c, pointer)) # "end"
  PROVE  LET d == [Plan(c, pointer) EXCEPT !.stage = FirstStage(Plan(c, pointer))]
         IN  Torn(d) \/ Aligned(d)
<1> DEFINE P == Plan(c, pointer)
           s == FirstStage(P)
           d == [P EXCEPT !.stage = s]
<1>1. P \in CallType
  BY PlanType
<1>2. /\ P.reg_addr = c.start /\ P.start = c.start
      /\ P.remain_in_page = RemainInPage(pointer)
  BY DEF Plan, CallType
<1>3. c.start \in Nat /\ RemainInPage(c.start) \in Nat /\ RemainInPage(pointer) \in Nat
  <2>1. c.start \in Nat
    BY DEF CallType
  <2> QED BY <2>1, RemainType, GeometryAssumption
<1>4. s = "head" => RemainInPage(pointer) > 0
  BY <1>2 DEF FirstStage, NextStage
<1>5. s # "head" => RemainInPage(pointer) = 0
  BY <1>2, <1>3 DEF FirstStage
<1>6. /\ d.stage = s /\ d.reg_addr = c.start /\ d.start = c.start
      /\ d.remain_in_page = RemainInPage(pointer)
  BY <1>1, <1>2 DEF CallType
<1> HIDE DEF P, s, d
<1>7. SUFFICES ASSUME RemainInPage(pointer) = RemainInPage(c.start) PROVE Aligned(d)
  BY <1>6 DEF Torn, P, s, d
<1>8. CASE s = "head"
  BY <1>3, <1>6, <1>7, <1>8, PageBoundary DEF Aligned
<1>9. CASE s # "head"
  BY <1>3, <1>5, <1>6, <1>7, <1>9, PageBoundary DEF Aligned
<1> QED BY <1>8, <1>9

(* After a chunk, the next one starts a page.                              *)
LEMMA AdvanceAligned ==
  ASSUME NEW c \in CallType, Torn(c) \/ Aligned(c), c.stage # "tail",
         NEW s \in {"page", "tail"}
  PROVE  LET d == [Advance(c) EXCEPT !.stage = s] IN Torn(d) \/ Aligned(d)
<1> DEFINE d == [Advance(c) EXCEPT !.stage = s]
<1>0. c.reg_addr \in Nat /\ c.stage \in Stage
  BY DEF CallType
<1>1. /\ d.stage = s /\ d.reg_addr = c.reg_addr + ChunkLen(c)
      /\ d.start = c.start /\ d.remain_in_page = c.remain_in_page
  BY DEF Advance, CallType
<1> HIDE DEF d
<1>2. SUFFICES ASSUME Aligned(c) PROVE Aligned(d)
  BY <1>1 DEF Torn, d
<1>3. CASE c.stage = "head"
  <2>1. ChunkLen(c) = c.remain_in_page
    BY <1>3 DEF ChunkLen
  <2> QED BY <1>1, <1>2, <1>3, <2>1 DEF Aligned
<1>4. CASE c.stage = "page"
  <2>1. ChunkLen(c) = EEP_PAGE_SIZE
    BY <1>4 DEF ChunkLen
  <2> QED BY <1>0, <1>1, <1>2, <1>4, <2>1, PageBoundary DEF Aligned
<1> QED BY <1>0, <1>3, <1>4 DEF Stage

(* Every step keeps every chunk within its page.                           *)
LEMMA StepAligned == TypeOK /\ AlignedInv /\ [Next]_vars => AlignedInv'
<1> SUFFICES ASSUME TypeOK, AlignedInv, [Next]_vars PROVE AlignedInv'
  OBVIOUS
<1>0. pc \in [Procs -> Places] /\ call \in [Procs -> CallType]
  BY DEF TypeOK
<1>1. CASE UNCHANGED vars
  BY <1>1 DEF vars, AlignedInv
(* A step of p that does not leave p in the middle of a write.             *)
<1>2. ASSUME NEW p \in Procs,
             NEW l \in Places \ {"write_plan", "send", "sent", "write_advance"},
             pc' = [pc EXCEPT ![p] = l],
             \A q \in Procs \ {p} : call'[q] = call[q]
      PROVE  AlignedInv'
  BY <1>0, <1>2 DEF AlignedInv, AlignedAt
(* A step of p that does.                                                  *)
<1>3. ASSUME NEW p \in Procs, NEW l, NEW c, pc' = [pc EXCEPT ![p] = l],
             call' = [call EXCEPT ![p] = c], AlignedAt(l, c)
      PROVE  AlignedInv'
  BY <1>0, <1>3 DEF AlignedInv
<1>4. ASSUME NEW f, Crash(f) PROVE AlignedInv'
  BY <1>4 DEF Crash, AlignedInv
<1>5. ASSUME NEW p \in Procs, \/ OpenReset(p) \/ OpenAlloc(p) \/ OpenNoMemory(p)
                              \/ OpenTest(p) \/ ReleaseTest(p) \/ ReleaseClear(p)
                              \/ ReleaseReset(p)
      PROVE  AlignedInv'
  BY <1>2, <1>5 DEF OpenReset, OpenAlloc, OpenNoMemory, OpenTest, ReleaseTest,
                    ReleaseClear, ReleaseReset, Goto, Places, Using
<1>6. ASSUME NEW p \in Procs, ReleaseFree(p) PROVE AlignedInv'
  BY <1>2, <1>4, <1>6 DEF ReleaseFree, Goto, Places
<1>7. ASSUME NEW p \in Procs, LockKilled(p) \/ Unlock(p) \/ ReadCall(p) \/ WriteCall(p)
      PROVE  AlignedInv'
  BY <1>0, <1>2, <1>7 DEF LockKilled, Unlock, ReadCall, WriteCall, Goto, Places, Using
<1>8. ASSUME NEW p \in Procs, Acquire(p) PROVE AlignedInv'
  BY <1>0, <1>2, <1>8 DEF Acquire, ReadLock, WriteLock, Finish, Goto, Places, Using,
                          Critical
<1>9. ASSUME NEW p \in Procs, TestCount(p) \/ ClipCount(p) PROVE AlignedInv'
  BY <1>0, <1>2, <1>9 DEF TestCount, ClipCount, AfterClip, Goto, Places, Using, Critical
<1>10. ASSUME NEW p \in Procs, \/ ReadAddress(p) \/ ReadMessage(p) \/ ReadTransfer(p)
                               \/ ReadCopy(p) \/ ReadAdvance(p)
       PROVE  AlignedInv'
  BY <1>0, <1>2, <1>4, <1>10 DEF ReadAddress, ReadMessage, ReadTransfer, ReadCopy,
       ReadAdvance, Finish, Goto, Places, Using, Critical
<1>11. ASSUME NEW p \in Procs, LoadCursor(p) PROVE AlignedInv'
  <2>1. CASE pc[p] = "read_load"
    BY <1>0, <1>2, <1>11, <2>1 DEF LoadCursor, Goto, Places, Using, Critical
  <2>2. CASE pc[p] = "sent"
    <3> DEFINE c == [call[p] EXCEPT !.loaded = current_pointer]
    <3>1. c.stage = call[p].stage /\ c.reg_addr = call[p].reg_addr
            /\ c.remain_in_page = call[p].remain_in_page /\ c.start = call[p].start
      BY <1>0 DEF CallType
    <3>2. call' = [call EXCEPT ![p] = c] /\ pc' = [pc EXCEPT ![p] = "write_advance"]
      BY <1>11, <2>2 DEF LoadCursor, Goto
    <3> HIDE DEF c
    <3>3. AlignedAt("write_advance", c)
      BY <2>2, <3>1 DEF AlignedInv, AlignedAt, Aligned, Torn
    <3> QED BY <1>3, <3>2, <3>3
  <2> QED BY <1>11, <2>1, <2>2 DEF LoadCursor
<1>12. ASSUME NEW p \in Procs, Llseek(p) PROVE AlignedInv'
  BY <1>0, <1>12 DEF Llseek, AlignedInv, AlignedAt
<1>13. ASSUME NEW p \in Procs, WriteCopy(p) PROVE AlignedInv'
  BY <1>0, <1>2, <1>4, <1>13 DEF WriteCopy, Finish, Goto, Places, Using, Critical
<1>14. ASSUME NEW p \in Procs, WriteAddress(p) PROVE AlignedInv'
  <2> DEFINE c == [call[p] EXCEPT !.reg_addr = current_pointer,
                     !.start = current_pointer, !.before = eeprom]
  <2>1. c.reg_addr = c.start
    BY <1>0 DEF CallType
  <2>2. call' = [call EXCEPT ![p] = c] /\ pc' = [pc EXCEPT ![p] = "write_plan"]
    BY <1>0, <1>14 DEF WriteAddress, Goto
  <2> HIDE DEF c
  <2>3. AlignedAt("write_plan", c)
    BY <2>1 DEF AlignedAt
  <2> QED BY <1>3, <2>2, <2>3
<1>15. ASSUME NEW p \in Procs, WritePlan(p) PROVE AlignedInv'
  <2> DEFINE c == Plan(call[p], current_pointer)
             s == FirstStage(c)
             d == [c EXCEPT !.stage = s]
  <2>1. call[p].reg_addr = call[p].start
    BY <1>15 DEF WritePlan, AlignedInv, AlignedAt
  <2>2. s # "end" => Torn(d) \/ Aligned(d)
    BY <1>0, <2>1, FirstStageAligned DEF TypeOK
  <2>3. s \in Stage \union {"end"} /\ Continue(p, c, s)
    BY <1>15 DEF WritePlan, FirstStage, NextStage, Stage
  <2> HIDE DEF c, s
  <2>4. CASE s = "end"
    BY <1>0, <1>2, <2>3, <2>4 DEF Continue, Goto, Places, Using, Critical
  <2>5. CASE s # "end"
    <3>1. call' = [call EXCEPT ![p] = d] /\ pc' = [pc EXCEPT ![p] = "send"]
      BY <2>3, <2>5 DEF Continue, Goto
    <3> HIDE DEF d
    <3>2. AlignedAt("send", d)
      BY <2>2, <2>5 DEF AlignedAt
    <3> QED BY <1>3, <3>1, <3>2
  <2> QED BY <2>4, <2>5
<1>16. ASSUME NEW p \in Procs, SendChunk(p) PROVE AlignedInv'
  <2>1. CASE Finish(p, -1, "bus")
    BY <1>0, <1>2, <2>1 DEF Finish, Goto, Places, Using, Critical
  <2>2. CASE \E f : Crash(f)
    BY <1>4, <2>2
  <2>3. CASE Goto(p, "sent") /\ UNCHANGED call
    <3>1. AlignedAt("sent", call[p])
      BY <1>16 DEF SendChunk, AlignedInv, AlignedAt
    <3>2. call' = [call EXCEPT ![p] = call[p]]
      BY <1>0, <2>3
    <3> QED BY <1>3, <2>3, <3>1, <3>2 DEF Goto
  <2> QED BY <1>16, <2>1, <2>2, <2>3 DEF SendChunk
<1>17. ASSUME NEW p \in Procs, WriteAdvance(p) PROVE AlignedInv'
  <2> DEFINE b == call[p]
             c == Advance(b)
             s == IF c.stage = "tail" THEN "end" ELSE NextStage(c)
             d == [c EXCEPT !.stage = s]
  <2>0. b \in CallType /\ (Torn(b) \/ Aligned(b))
    BY <1>0, <1>17 DEF AlignedInv, AlignedAt, WriteAdvance
  <2>1. s = "end" \/ (s \in {"page", "tail"} /\ b.stage # "tail")
    BY <2>0 DEF NextStage, Advance, CallType
  <2>2. s # "end" => Torn(d) \/ Aligned(d)
    BY <2>0, <2>1, AdvanceAligned
  <2>3. Continue(p, c, s)
    BY <1>17 DEF WriteAdvance
  <2> HIDE DEF b, c, s
  <2>4. CASE s = "end"
    BY <1>0, <1>2, <2>3, <2>4 DEF Continue, Goto, Places, Using, Critical
  <2>5. CASE s # "end"
    <3>1. call' = [call EXCEPT ![p] = d] /\ pc' = [pc EXCEPT ![p] = "send"]
      BY <2>3, <2>5 DEF Continue, Goto
    <3> HIDE DEF d
    <3>2. AlignedAt("send", d)
      BY <2>2, <2>5 DEF AlignedAt
    <3> QED BY <1>3, <3>1, <3>2
  <2> QED BY <2>4, <2>5
<1> QED BY <1>1, <1>5, <1>6, <1>7, <1>8, <1>9, <1>10, <1>11, <1>12, <1>13, <1>14, <1>15,
           <1>16, <1>17 DEF Next, Request, Progress

(* So the chunks are aligned in every reachable state.                     *)
LEMMA AlignedHolds == Spec => []AlignedInv
<1>1. Init => AlignedInv
  BY DEF Init, AlignedInv, AlignedAt
<1> QED BY <1>1, StepAligned, TypeCorrect, PTL DEF Spec

(* Every transacWrite of a write that is not torn stays in one page of the *)
(* chip, for every geometry, cursor and count, also when the plan of a     *)
(* short write has wrapped, and opens and closes at any other moment       *)
(* included.                                                               *)
THEOREM PageSafety == Spec => []ChunkInPage
<1>1. TypeOK /\ AlignedInv => ChunkInPage
  <2> SUFFICES ASSUME TypeOK, AlignedInv, NEW p \in Procs, pc[p] = "send", ~Torn(call[p])
               PROVE  (call[p].reg_addr % EEP_PAGE_SIZE) + ChunkLen(call[p])
                        <= EEP_PAGE_SIZE
    BY DEF ChunkInPage
  <2>1. call[p] \in CallType /\ Aligned(call[p])
    BY DEF TypeOK, AlignedInv, AlignedAt
  <2>2. call[p].stage \in {"head", "page", "tail"}
    BY <2>1 DEF CallType, Stage
  <2>3. CASE call[p].stage = "head"
    BY <2>1, <2>3 DEF Aligned, ChunkLen
  <2>4. CASE call[p].stage # "head"
    BY <2>1, <2>4, ChunkType, GeometryAssumption DEF Aligned
  <2> QED BY <2>3, <2>4
<1> QED BY <1>1, AlignedHolds, TypeCorrect, PTL

-----------------------------------------------------------------------------
(* The chip: a chunk that stays in its page changes only the addresses     *)
(* from its own on, and these are the same modulo the size of the chip.    *)
ChangedByChunk(addr, b, off, n, a) ==
  /\ addr \in Nat /\ off \in Nat /\ n \in Nat /\ a \in Addr
  /\ (addr % EEP_PAGE_SIZE) + n <= EEP_PAGE_SIZE
  /\ PageWrite(addr, b, off, n)[a] # eeprom[a]

(* A byte that a chunk has changed is among those from its address on.     *)
LEMMA PageWriteWithin ==
  ASSUME NEW addr, NEW b, NEW off, NEW n, NEW a,
         ChangedByChunk(addr, b, off, n, a)
  PROVE  \E k : k \in 0 .. n - 1 /\ a = (addr + k) % EEP_SIZE
<1>h. /\ addr \in Nat /\ off \in Nat /\ n \in Nat /\ a \in Addr
      /\ (addr % EEP_PAGE_SIZE) + n <= EEP_PAGE_SIZE
      /\ PageWrite(addr, b, off, n)[a] # eeprom[a]
  BY DEF ChangedByChunk
<1> DEFINE P == EEP_PAGE_SIZE
           S == EEP_SIZE
           m == S \div P
           q == addr \div S
           first == addr % S
           u == first \div P
           s == first % P
           r == a % P
<1>0. /\ P \in Nat \ {0} /\ S \in Nat \ {0} /\ S % P = 0
      /\ addr \in Int /\ addr >= 0 /\ a \in 0 .. S - 1 /\ a \in Int
      /\ n \in Nat
  BY <1>h, GeometryAssumption DEF Addr
<1>1. a \div P = u /\ (a - first) % P < n
  BY <1>h DEF PageWrite
<1> HIDE DEF P, S
<1>2. m \in Int /\ S = P * m
  BY <1>0, DivMod
<1>3. q \in Int /\ first \in 0 .. S - 1 /\ first \in Int /\ addr = (S * q) + first
  BY <1>0, DivMod
<1>4. u \in Int /\ s \in 0 .. P - 1 /\ first = (P * u) + s
  BY <1>0, <1>3, DivMod
<1>5. r \in 0 .. P - 1 /\ a = (P * u) + r
  BY <1>0, <1>1, DivMod
<1> HIDE DEF m, q, first, u, s, r
<1>6. addr % P = s
  <2>1. addr = (P * ((m * q) + u)) + s
    BY <1>0, <1>2, <1>3, <1>4
  <2>2. (m * q) + u \in Int
    BY <1>2, <1>3, <1>4
  <2> QED  BY <1>0, <1>4, <2>1, <2>2, ModUnique
<1>7. s + n <= P
  BY <1>h, <1>6 DEF P
<1>8. r >= s
  <2> SUFFICES ASSUME r < s PROVE FALSE
    BY <1>4, <1>5, <1>0
  <2>1. (P + r) - s \in 0 .. P - 1
    BY <1>0, <1>4, <1>5
  <2>2. a - first = (P * (0 - 1)) + ((P + r) - s)
    BY <1>0, <1>3, <1>4, <1>5
  <2>3. (a - first) % P = (P + r) - s
    BY <1>0, <2>1, <2>2, ModUnique
  <2> QED  BY <1>0, <1>1, <1>4, <1>5, <1>7, <2>3
<1>9. r - s \in 0 .. n - 1
  <2>1. r - s \in 0 .. P - 1
    BY <1>0, <1>4, <1>5, <1>8
  <2>2. a - first = (P * 0) + (r - s)
    BY <1>0, <1>3, <1>4, <1>5
  <2>3. (a - first) % P = r - s
    BY <1>0, <2>1, <2>2, ModUnique
  <2> QED  BY <1>0, <1>1, <1>4, <1>5, <2>1, <2>3
<1>10. addr + (r - s) = (S * q) + a
  BY <1>0, <1>3, <1>4, <1>5
<1>11. (addr + (r - s)) % S = a
  BY <1>0, <1>3, <1>10, ModUnique
<1> QED  BY <1>9, <1>11 DEF S

-----------------------------------------------------------------------------
(* The invariant.  Whatever is in the middle of a write has sent offset    *)
(* bytes, the next of which goes to start + offset, and the chip differs   *)
(* from what it was only where these and the chunk just sent have touched  *)
(* it.                                                                     *)
Kept(c, chip, n) == \A a \in Addr \ Touched(c, n) : chip[a] = c.before[a]

Planned(c) ==
  c.op = "write" /\ c.failure = "none" /\ c.start \in Nat
    /\ c.reg_addr = c.start + c.offset

Fresh(c) == c.op = "write" /\ c.failure = "none" /\ c.offset = 0

Reading == {"read_lock", "read_address", "read_message", "read", "read_copy", "read_load",
            "read_advance"}

Footprint(l, c, chip) ==
  /\ l \in Reading => c.op = "read"
  /\ l \in {"test", "clip"} => c.op = "read" \/ Fresh(c)
  /\ l \in {"write_lock", "write_copy", "write_address", "write_plan"} => Fresh(c)
  /\ l = "write_plan" => Planned(c) /\ c.before = chip
  /\ l = "send" => Planned(c) /\ Kept(c, chip, c.offset)
  /\ l \in {"sent", "write_advance"} =>
       Planned(c) /\ Kept(c, chip, c.offset + ChunkLen(c))
  /\ (l = "end" /\ c.op = "write" /\ c.retval \notin {EINVAL, EFAULT}) =>
       Kept(c, chip, IF c.failure = "none" THEN c.offset ELSE c.offset + ChunkLen(c))

FootprintInv == \A p \in Procs : Footprint(pc[p], call[p], eeprom)

(* The invariant says what WriteFootprint does.                            *)
LEMMA FootprintImplies == FootprintInv => WriteFootprint
<1> SUFFICES ASSUME FootprintInv, NEW p \in Procs,
                    pc[p] \in {"send", "sent", "write_advance", "end"},
                    call[p].op = "write", call[p].retval \notin {EINVAL, EFAULT},
                    NEW n,
                    n = CASE pc[p] = "send" -> call[p].offset
                          [] pc[p] \in {"sent", "write_advance"} ->
                               call[p].offset + ChunkLen(call[p])
                          [] pc[p] = "end"  -> IF call[p].failure = "none" THEN call[p].offset
                                 ELSE call[p].offset + ChunkLen(call[p]),
                    NEW a \in Addr \ Touched(call[p], n)
             PROVE  eeprom[a] = call[p].before[a]
  BY Zenon DEF WriteFootprint
<1>1. CASE pc[p] = "send"
  BY <1>1 DEF FootprintInv, Footprint, Kept
<1>2. CASE pc[p] \in {"sent", "write_advance"}
  BY <1>2 DEF FootprintInv, Footprint, Kept
<1>3. CASE pc[p] = "end"
  BY <1>3 DEF FootprintInv, Footprint, Kept
<1> QED  BY <1>1, <1>2, <1>3

(* A step that leaves the chip alone concerns its own process only.        *)
LEMMA OwnStep ==
  ASSUME FootprintInv, TypeOK, NEW p \in Procs, UNCHANGED eeprom,
         NEW l, NEW c, pc' = [pc EXCEPT ![p] = l], call' = [call EXCEPT ![p] = c],
         Footprint(l, c, eeprom)
  PROVE  FootprintInv'
BY DEF FootprintInv, TypeOK

(* The chip is written by whoever is inside the mutex, and nobody else is. *)
LEMMA ChunkStep ==
  ASSUME FootprintInv, TypeOK, MutexDiscipline, NEW p \in Procs, pc[p] \in Critical,
         NEW l, NEW c, pc' = [pc EXCEPT ![p] = l], call' = [call EXCEPT ![p] = c],
         Footprint(l, c, eeprom')
  PROVE  FootprintInv'
<1> SUFFICES ASSUME NEW q \in Procs PROVE Footprint(pc'[q], call'[q], eeprom')
  BY DEF FootprintInv
<1>1. CASE q = p
  BY <1>1 DEF TypeOK
<1>2. CASE q # p
  <2>1. pc[q] \notin {"write_plan", "send", "sent", "write_advance", "end"}
    BY <1>2 DEF MutexDiscipline, Critical
  <2> QED  BY <1>2, <2>1 DEF TypeOK, FootprintInv, Footprint
<1> QED  BY <1>1, <1>2

(* A crash changes nothing.                                                *)
LEMMA CrashStep == ASSUME FootprintInv, NEW f, Crash(f) PROVE FootprintInv'
BY DEF FootprintInv, Crash

(* One transacWrite: the bytes sent are those from start + offset on, or,  *)
(* of a torn write, in the page of start + offset.                         *)
LEMMA ChunkKept ==
  ASSUME TypeOK, NEW c \in CallType, Planned(c), Kept(c, eeprom, c.offset),
         NEW b, NEW n \in Nat,
         Torn(c) \/ (c.reg_addr % EEP_PAGE_SIZE) + n <= EEP_PAGE_SIZE,
         NEW sent \in 0 .. n
  PROVE  Kept(c, PageWrite(c.reg_addr, b, c.offset, sent), c.offset + n)
<1> SUFFICES ASSUME NEW a \in Addr \ Touched(c, c.offset + n)
             PROVE  PageWrite(c.reg_addr, b, c.offset, sent)[a] = c.before[a]
  BY DEF Kept
<1>1. c.offset \in Nat /\ c.reg_addr \in Nat /\ c.start \in Nat
  BY DEF CallType, Planned
<1>2. Span(c, c.offset) \subseteq Span(c, c.offset + n)
  <2>1. 0 .. c.offset - 1 \subseteq 0 .. (c.offset + n) - 1
    BY <1>1
  <2> QED  BY <2>1 DEF Span
<1>3. eeprom[a] = c.before[a]
  <2>1. a \notin Touched(c, c.offset)
    BY <1>2 DEF Touched
  <2> QED  BY <2>1 DEF Kept
<1>4. ASSUME PageWrite(c.reg_addr, b, c.offset, sent)[a] # eeprom[a] PROVE FALSE
  <2> DEFINE addr == c.reg_addr
             off == c.offset
  <2>1. addr \in Nat /\ addr \in Int /\ off \in Nat /\ sent \in Nat /\ sent <= n
        /\ a \in Addr
    BY <1>1
  <2>2. PageWrite(addr, b, off, sent)[a] # eeprom[a]
    BY <1>4
  <2> HIDE DEF addr, off
  <2>3. CASE ~Torn(c)
    <3>1. (addr % EEP_PAGE_SIZE) + n <= EEP_PAGE_SIZE
      BY <2>3 DEF addr
    <3>2. (addr % EEP_PAGE_SIZE) + sent <= EEP_PAGE_SIZE
      <4>1. addr % EEP_PAGE_SIZE \in 0 .. EEP_PAGE_SIZE - 1
        BY <2>1, DivMod, GeometryAssumption
      <4> QED  BY <2>1, <3>1, <4>1, GeometryAssumption
    <3>3. ChangedByChunk(addr, b, off, sent, a)
      BY <2>1, <2>2, <3>2 DEF ChangedByChunk
    <3>4. PICK k : k \in 0 .. sent - 1 /\ a = (addr + k) % EEP_SIZE
      BY <3>3, PageWriteWithin
    <3>5. addr + k = c.start + (c.offset + k) /\ c.offset + k \in 0 .. (c.offset + n) - 1
      BY <1>1, <2>1, <3>4 DEF Planned, addr, off
    <3>6. a = (c.start + (c.offset + k)) % EEP_SIZE
      BY <3>4, <3>5
    <3> QED  BY <2>3, <3>5, <3>6 DEF Span, Touched
  <2>4. CASE Torn(c)
    <3> DEFINE first == addr % EEP_SIZE
               index == (a - first) % EEP_PAGE_SIZE
    <3>1. a \div EEP_PAGE_SIZE = first \div EEP_PAGE_SIZE /\ index < sent
      BY <2>1, <2>2 DEF PageWrite
    <3>2. index \in Nat
      <4>1. first \in Int /\ a \in Int
        BY <2>1, DivMod, GeometryAssumption DEF Addr
      <4> HIDE DEF first
      <4>2. a - first \in Int
        BY <4>1
      <4> QED  BY <4>2, DivMod, GeometryAssumption
    <3> HIDE DEF index, first
    <3>3. c.offset \in 0 .. (c.offset + n) - 1
      BY <1>1, <2>1, <3>1, <3>2
    <3>4. first = (c.start + c.offset) % EEP_SIZE
      BY DEF Planned, addr, first
    <3>5. first \in Span(c, c.offset + n)
      BY <3>3, <3>4 DEF Span
    <3> QED  BY <2>4, <3>1, <3>5 DEF Touched
  <2> QED  BY <2>3, <2>4
<1> QED  BY <1>3, <1>4

(* What was kept depends on where and on which chip the write began, and   *)
(* on whether it is torn.                                                  *)
LEMMA KeptSame ==
  ASSUME NEW c, NEW d, NEW chip, NEW n, c.start = d.start, c.before = d.before,
         c.remain_in_page = d.remain_in_page, Kept(c, chip, n)
  PROVE  Kept(d, chip, n)
BY DEF Kept, Span, Touched, Torn

-----------------------------------------------------------------------------
(* The steps of a write, one lemma each.                                   *)

(* The copy of the caller's bytes leaves the write as fresh as it was.     *)
LEMMA FootprintCopy ==
  ASSUME FootprintInv, TypeOK, NEW p \in Procs, WriteCopy(p)
  PROVE  FootprintInv'
<1>0. pc \in [Procs -> Places] /\ call \in [Procs -> CallType] /\ call[p] \in CallType
  BY DEF TypeOK
<1>1. Fresh(call[p])
  BY DEF WriteCopy, FootprintInv, Footprint
<1>2. CASE Goto(p, "write_address") /\ UNCHANGED call /\ UNCHANGED eeprom
  <2>1. call' = [call EXCEPT ![p] = call[p]] /\ pc' = [pc EXCEPT ![p] = "write_address"]
    BY <1>0, <1>2 DEF Goto
  <2>2. Footprint("write_address", call[p], eeprom)
    BY <1>1 DEF Footprint, Reading
  <2> QED  BY <1>2, <2>1, <2>2, OwnStep
<1>3. CASE Finish(p, EFAULT, "copy") /\ UNCHANGED eeprom
  <2> DEFINE e == [call[p] EXCEPT !.retval = EFAULT, !.failure = "copy"]
  <2>1. e.retval = EFAULT
    BY <1>0 DEF CallType
  <2>2. call' = [call EXCEPT ![p] = e] /\ pc' = [pc EXCEPT ![p] = "end"]
    BY <1>0, <1>3 DEF Finish, Goto
  <2> HIDE DEF e
  <2>3. Footprint("end", e, eeprom)
    BY <2>1 DEF Footprint, Reading
  <2> QED  BY <1>3, <2>2, <2>3, OwnStep
<1>4. CASE \E f : Crash(f)
  BY <1>4, CrashStep
<1> QED  BY <1>2, <1>3, <1>4 DEF WriteCopy

(* The address of a write is where it starts, on the chip as it is.        *)
LEMMA FootprintAddress ==
  ASSUME FootprintInv, TypeOK, NEW p \in Procs, WriteAddress(p)
  PROVE  FootprintInv'
<1> DEFINE c == [call[p] EXCEPT !.reg_addr = current_pointer, !.start = current_pointer,
                   !.before = eeprom]
<1>0. /\ pc \in [Procs -> Places] /\ call \in [Procs -> CallType]
      /\ call[p] \in CallType /\ current_pointer \in Nat
  BY DEF TypeOK
<1>1. Fresh(call[p])
  BY DEF WriteAddress, FootprintInv, Footprint
<1>2. /\ Fresh(c) /\ c.start = current_pointer /\ c.reg_addr = current_pointer
      /\ c.before = eeprom /\ c.offset = 0
  BY <1>0, <1>1 DEF Fresh, CallType
<1>3. /\ call' = [call EXCEPT ![p] = c] /\ pc' = [pc EXCEPT ![p] = "write_plan"]
      /\ UNCHANGED eeprom
  BY <1>0 DEF WriteAddress, Goto
<1> HIDE DEF c
<1>4. Planned(c)
  BY <1>0, <1>2 DEF Planned, Fresh
<1>5. Footprint("write_plan", c, eeprom)
  BY <1>2, <1>4 DEF Footprint, Reading
<1> QED  BY <1>3, <1>5, OwnStep

(* A plan starts with no byte sent.                                        *)
LEMMA FootprintPlan ==
  ASSUME FootprintInv, TypeOK, NEW p \in Procs, WritePlan(p)
  PROVE  FootprintInv'
<1> DEFINE b == call[p]
           c == Plan(b, current_pointer)
           s == FirstStage(c)
           d == IF s = "end" THEN c ELSE [c EXCEPT !.stage = s]
<1>0. call \in [Procs -> CallType] /\ b \in CallType /\ current_pointer \in Nat
  BY DEF TypeOK
<1>1. Fresh(b) /\ Planned(b) /\ b.before = eeprom
  BY DEF WritePlan, FootprintInv, Footprint
<1>2. c \in CallType /\ Continue(p, c, s) /\ UNCHANGED eeprom
  BY <1>0, PlanType DEF WritePlan
<1>3. /\ c.op = b.op /\ c.failure = b.failure /\ c.offset = b.offset
      /\ c.start = b.start /\ c.reg_addr = b.reg_addr /\ c.before = b.before
  BY <1>0 DEF Plan, CallType
<1> HIDE DEF b, c, s
<1>4. /\ d.op = b.op /\ d.failure = b.failure /\ d.offset = b.offset
      /\ d.start = b.start /\ d.reg_addr = b.reg_addr /\ d.before = b.before
  BY <1>2, <1>3 DEF CallType
<1>5. /\ call' = [call EXCEPT ![p] = d]
      /\ pc' = [pc EXCEPT ![p] = IF s = "end" THEN "end" ELSE "send"]
  BY <1>2 DEF Continue, Goto
<1> HIDE DEF d
<1>6. Kept(d, eeprom, d.offset) /\ Planned(d) /\ d.failure = "none"
  BY <1>1, <1>4 DEF Kept, Planned
<1>7. Footprint("end", d, eeprom) /\ Footprint("send", d, eeprom)
  BY <1>6 DEF Footprint, Reading
<1> QED  BY <1>2, <1>5, <1>7, OwnStep

(* A transacWrite changes its own chunk, after a failure perhaps less.     *)
LEMMA FootprintSend ==
  ASSUME FootprintInv, TypeOK, MutexDiscipline, ChunkInPage,
         NEW p \in Procs, SendChunk(p)
  PROVE  FootprintInv'
<1> DEFINE c == call[p]
           n == ChunkLen(c)
<1>0. call \in [Procs -> CallType] /\ c \in CallType /\ n \in Nat
  BY ChunkType, GeometryAssumption DEF TypeOK
<1>1. pc[p] = "send" /\ pc[p] \in Critical
  BY DEF SendChunk, Critical
<1>2. Planned(c) /\ Kept(c, eeprom, c.offset)
  BY <1>1 DEF FootprintInv, Footprint
<1>3. Torn(c) \/ (c.reg_addr % EEP_PAGE_SIZE) + n <= EEP_PAGE_SIZE
  BY <1>1 DEF ChunkInPage
<1>4. CASE \E f : Crash(f)
  BY <1>4, CrashStep
<1>5. CASE \E sent \in 0 .. n :
             /\ eeprom' = PageWrite(c.reg_addr, mem[data], c.offset, sent)
             /\ \/ Finish(p, -1, "bus")
                \/ Goto(p, "sent") /\ UNCHANGED call
  <2>1. PICK sent \in 0 .. n :
             /\ eeprom' = PageWrite(c.reg_addr, mem[data], c.offset, sent)
             /\ \/ Finish(p, -1, "bus")
                \/ Goto(p, "sent") /\ UNCHANGED call
    BY <1>5
  <2>2. Kept(c, eeprom', c.offset + n)
    <3> DEFINE b == mem[data]
    <3>1. eeprom' = PageWrite(c.reg_addr, b, c.offset, sent)
      BY <2>1
    <3> HIDE DEF c, n, b
    <3>2. Kept(c, PageWrite(c.reg_addr, b, c.offset, sent), c.offset + n)
      BY <1>0, <1>2, <1>3, ChunkKept
    <3> QED  BY <3>1, <3>2
  <2>3. CASE Finish(p, -1, "bus")
    <3> DEFINE d == [c EXCEPT !.retval = -1, !.failure = "bus"]
    <3>1. d.failure = "bus" /\ d.start = c.start /\ d.before = c.before
          /\ d.remain_in_page = c.remain_in_page /\ d.offset = c.offset /\ ChunkLen(d) = n
      BY <1>0 DEF CallType, ChunkLen
    <3>2. call' = [call EXCEPT ![p] = d] /\ pc' = [pc EXCEPT ![p] = "end"]
      BY <1>0, <2>3 DEF Finish, Goto
    <3> HIDE DEF c, n, d
    <3>3. Kept(d, eeprom', c.offset + n)
      BY <2>2, <3>1, KeptSame
    <3>4. Footprint("end", d, eeprom')
      BY <3>1, <3>3 DEF Footprint, Reading
    <3> QED  BY <1>1, <3>2, <3>4, ChunkStep
  <2>4. CASE Goto(p, "sent") /\ UNCHANGED call
    <3>1. call' = [call EXCEPT ![p] = c] /\ pc' = [pc EXCEPT ![p] = "sent"]
      BY <1>0, <2>4 DEF Goto
    <3> HIDE DEF c, n
    <3>2. Footprint("sent", c, eeprom')
      BY <1>2, <2>2 DEF Footprint, Reading, n
    <3> QED  BY <1>1, <3>1, <3>2, ChunkStep
  <2> QED  BY <2>1, <2>3, <2>4
<1> QED  BY <1>4, <1>5 DEF SendChunk

(* The bookkeeping counts the chunk as sent.                               *)
LEMMA FootprintAdvance ==
  ASSUME FootprintInv, TypeOK, NEW p \in Procs, WriteAdvance(p)
  PROVE  FootprintInv'
<1> DEFINE b == call[p]
           n == ChunkLen(b)
           c == Advance(b)
           s == IF c.stage = "tail" THEN "end" ELSE NextStage(c)
           d == IF s = "end" THEN c ELSE [c EXCEPT !.stage = s]
<1>0. call \in [Procs -> CallType] /\ b \in CallType /\ n \in Nat /\ c \in CallType
  BY ChunkType, AdvanceType, GeometryAssumption DEF TypeOK
<1>1. Planned(b) /\ Kept(b, eeprom, b.offset + n)
  BY DEF WriteAdvance, FootprintInv, Footprint
<1>2. /\ c.op = b.op /\ c.failure = b.failure /\ c.start = b.start
      /\ c.before = b.before /\ c.remain_in_page = b.remain_in_page
      /\ c.offset = b.offset + n /\ c.reg_addr = b.reg_addr + n
  BY <1>0 DEF Advance, CallType
<1>3. /\ Continue(p, c, s) /\ UNCHANGED eeprom
  BY DEF WriteAdvance
<1> HIDE DEF b, n, c, s
<1>4. /\ d.op = b.op /\ d.failure = b.failure /\ d.start = b.start
      /\ d.before = b.before /\ d.remain_in_page = b.remain_in_page
      /\ d.offset = b.offset + n /\ d.reg_addr = b.reg_addr + n
  BY <1>0, <1>2 DEF CallType
<1>5. call' = [call EXCEPT ![p] = d]
  BY <1>3 DEF Continue
<1>6. pc' = [pc EXCEPT ![p] = IF s = "end" THEN "end" ELSE "send"]
  BY <1>3 DEF Continue, Goto
<1> HIDE DEF d
<1>7. Kept(d, eeprom, d.offset)
  BY <1>1, <1>4, KeptSame
<1>8. Planned(d)
  <2>1. b.start \in Nat /\ b.offset \in Nat /\ b.reg_addr = b.start + b.offset
    BY <1>0, <1>1 DEF Planned, CallType
  <2> QED  BY <1>0, <1>1, <1>4, <2>1 DEF Planned
<1>9. Footprint("end", d, eeprom) /\ Footprint("send", d, eeprom)
  BY <1>7, <1>8 DEF Footprint, Reading, Planned
<1> QED  BY <1>3, <1>5, <1>6, <1>9, OwnStep

-----------------------------------------------------------------------------
(* The other steps leave the chip alone.                                   *)
LEMMA StepFootprint ==
  TypeOK /\ MutexDiscipline /\ ChunkInPage /\ FootprintInv /\ [Next]_vars => FootprintInv'
<1> SUFFICES ASSUME TypeOK, MutexDiscipline, ChunkInPage, FootprintInv, [Next]_vars
             PROVE  FootprintInv'
  OBVIOUS
<1>0. pc \in [Procs -> Places] /\ call \in [Procs -> CallType]
  BY DEF TypeOK
<1>1. CASE UNCHANGED vars
  BY <1>1 DEF vars, FootprintInv
(* A step of p alone, to a place of which the invariant says nothing.      *)
<1>2. ASSUME NEW p \in Procs, UNCHANGED eeprom,
             NEW l \in {"closed", "idle", "open_alloc", "open_test", "release_free",
                        "release_clear", "release_reset"},
             pc' = [pc EXCEPT ![p] = l], \A q \in Procs \ {p} : call'[q] = call[q]
      PROVE  FootprintInv'
  BY <1>0, <1>2 DEF FootprintInv, Footprint, Reading
<1>3. ASSUME NEW f, Crash(f) PROVE FootprintInv'
  BY <1>3, CrashStep
<1>4. ASSUME NEW p \in Procs, \/ OpenReset(p) \/ OpenAlloc(p) \/ OpenNoMemory(p)
                              \/ OpenTest(p) \/ ReleaseTest(p) \/ ReleaseClear(p)
                              \/ ReleaseReset(p)
      PROVE  FootprintInv'
  BY <1>2, <1>4 DEF OpenReset, OpenAlloc, OpenNoMemory, OpenTest, ReleaseTest,
                    ReleaseClear, ReleaseReset, Goto
<1>5. ASSUME NEW p \in Procs, ReleaseFree(p) PROVE FootprintInv'
  BY <1>2, <1>3, <1>5 DEF ReleaseFree, Goto
<1>6. ASSUME NEW p \in Procs, LockKilled(p) \/ Unlock(p) PROVE FootprintInv'
  BY <1>0, <1>2, <1>6 DEF LockKilled, Unlock, Goto
<1>7. ASSUME NEW p \in Procs, Llseek(p) PROVE FootprintInv'
  BY <1>0, <1>7 DEF Llseek, FootprintInv, Footprint, Reading
<1>8. ASSUME NEW p \in Procs, ReadCall(p) PROVE FootprintInv'
  <2>1. PICK count \in Counts, pos \in Positions \union {f_pos[p]} :
          call' = [call EXCEPT ![p] =
                     [NoCall EXCEPT !.op = "read", !.count = count, !.pos = pos]]
    BY <1>8 DEF ReadCall
  <2> DEFINE c == [NoCall EXCEPT !.op = "read", !.count = count, !.pos = pos]
  <2>2. c.op = "read"
    BY DEF NoCall
  <2> HIDE DEF c
  <2>3. Footprint("read_lock", c, eeprom)
    BY <2>2 DEF Footprint, Reading, Fresh
  <2> QED  BY <1>8, <2>1, <2>3, OwnStep DEF ReadCall, Goto, c
<1>9. ASSUME NEW p \in Procs, WriteCall(p) PROVE FootprintInv'
  <2>1. PICK count \in Counts, pos \in Positions \union {f_pos[p]}, payload \in Payloads :
          call' = [call EXCEPT ![p] =
                     [NoCall EXCEPT !.op = "write", !.count = count, !.pos = pos,
                                    !.payload = payload]]
    BY <1>9 DEF WriteCall
  <2> DEFINE c == [NoCall EXCEPT !.op = "write", !.count = count, !.pos = pos,
                                 !.payload = payload]
  <2>2. c.op = "write" /\ c.failure = "none" /\ c.offset = 0
    BY DEF NoCall
  <2> HIDE DEF c
  <2>3. Footprint("write_lock", c, eeprom)
    BY <2>2 DEF Footprint, Reading, Fresh
  <2> QED  BY <1>9, <2>1, <2>3, OwnStep DEF WriteCall, Goto, c
(* A step of p inside a read, or of a write before it has its address.     *)
<1>10. ASSUME NEW p \in Procs, NEW c, call' = [call EXCEPT ![p] = c], UNCHANGED eeprom,
              c.op = "read", NEW l, l \in Reading \union {"test", "clip", "end"},
              pc' = [pc EXCEPT ![p] = l]
       PROVE  FootprintInv'
  <2>1. Footprint(l, c, eeprom)
    BY <1>10 DEF Footprint, Reading
  <2> QED  BY <1>10, <2>1, OwnStep
<1>11. ASSUME NEW p \in Procs, NEW c, call' = [call EXCEPT ![p] = c], UNCHANGED eeprom,
              Fresh(c), NEW l, l \in {"test", "clip", "write_copy"},
              pc' = [pc EXCEPT ![p] = l]
       PROVE  FootprintInv'
  <2>1. Footprint(l, c, eeprom)
    BY <1>11 DEF Footprint, Reading
  <2> QED  BY <1>11, <2>1, OwnStep
<1>12. ASSUME NEW p \in Procs, NEW r, NEW f, call[p].op = "read", UNCHANGED eeprom, Finish(p, r, f)
       PROVE  FootprintInv'
  <2> DEFINE c == [call[p] EXCEPT !.retval = r, !.failure = f]
  <2>1. c.op = "read"
    BY <1>0, <1>12 DEF CallType
  <2>2. call' = [call EXCEPT ![p] = c] /\ pc' = [pc EXCEPT ![p] = "end"]
    BY <1>0, <1>12 DEF Finish, Goto
  <2> HIDE DEF c
  <2> QED  BY <1>10, <1>12, <2>1, <2>2
<1>13. ASSUME NEW p \in Procs, ReadLock(p) PROVE FootprintInv'
  <2>1. call[p].op = "read" /\ UNCHANGED eeprom
    BY <1>13 DEF ReadLock, FootprintInv, Footprint, Reading
  <2>2. CASE Finish(p, 0, "none")
    BY <1>12, <2>1, <2>2
  <2>3. CASE Goto(p, "test") /\ UNCHANGED call
    <3>1. call' = [call EXCEPT ![p] = call[p]]
      BY <1>0, <2>3
    <3> QED  BY <1>10, <2>1, <2>3, <3>1 DEF Goto
  <2> QED  BY <1>13, <2>2, <2>3 DEF ReadLock
<1>14. ASSUME NEW p \in Procs, WriteLock(p) PROVE FootprintInv'
  <2>1. Fresh(call[p]) /\ UNCHANGED eeprom
    BY <1>14 DEF WriteLock, FootprintInv, Footprint
  <2>2. CASE Finish(p, EINVAL, "none")
    <3> DEFINE c == [call[p] EXCEPT !.retval = EINVAL, !.failure = "none"]
    <3>1. c.retval = EINVAL /\ call' = [call EXCEPT ![p] = c]
            /\ pc' = [pc EXCEPT ![p] = "end"]
      BY <1>0, <2>2 DEF Finish, Goto, CallType
    <3> HIDE DEF c
    <3>2. Footprint("end", c, eeprom)
      BY <3>1 DEF Footprint, Reading
    <3> QED  BY <2>1, <3>1, <3>2, OwnStep
  <2>3. CASE Goto(p, "test") /\ UNCHANGED call
    <3>1. call' = [call EXCEPT ![p] = call[p]]
      BY <1>0, <2>3
    <3> QED  BY <1>11, <2>1, <2>3, <3>1 DEF Goto
  <2> QED  BY <1>14, <2>2, <2>3 DEF WriteLock
<1>15. ASSUME NEW p \in Procs, TestCount(p) PROVE FootprintInv'
  <2>1. /\ call[p].op = "read" \/ Fresh(call[p])
        /\ UNCHANGED eeprom /\ call' = [call EXCEPT ![p] = call[p]]
    BY <1>0, <1>15 DEF TestCount, FootprintInv, Footprint
  <2>2. PICK l : l \in {"clip", AfterClip(call[p])} /\ pc' = [pc EXCEPT ![p] = l]
    BY <1>15 DEF TestCount, Goto
  <2>3. CASE call[p].op = "read"
    BY <1>10, <2>1, <2>2, <2>3 DEF AfterClip, Reading
  <2>4. CASE Fresh(call[p])
    BY <1>11, <2>1, <2>2, <2>4 DEF AfterClip, Fresh
  <2> QED  BY <2>1, <2>3, <2>4
<1>16. ASSUME NEW p \in Procs, ClipCount(p) PROVE FootprintInv'
  <2> DEFINE n == IF Left(current_pointer) > EEP_SIZE THEN EEP_SIZE
                  ELSE Left(current_pointer)
             c == [call[p] EXCEPT !.count = n]
  <2>1. (call[p].op = "read" \/ Fresh(call[p])) /\ UNCHANGED eeprom
    BY <1>16 DEF ClipCount, FootprintInv, Footprint
  <2>2. call' = [call EXCEPT ![p] = c] /\ pc' = [pc EXCEPT ![p] = AfterClip(call[p])]
    BY <1>0, <1>16 DEF ClipCount, Goto
  <2> HIDE DEF n
  <2>3. c.op = call[p].op /\ c.failure = call[p].failure /\ c.offset = call[p].offset
    BY <1>0 DEF CallType
  <2> HIDE DEF c
  <2>4. CASE call[p].op = "read"
    BY <1>10, <2>1, <2>2, <2>3, <2>4 DEF AfterClip, Reading
  <2>5. CASE Fresh(call[p])
    BY <1>11, <2>1, <2>2, <2>3, <2>5 DEF AfterClip, Fresh
  <2> QED  BY <2>1, <2>4, <2>5
<1>17. ASSUME NEW p \in Procs, LoadCursor(p) PROVE FootprintInv'
  <2> DEFINE c == [call[p] EXCEPT !.loaded = current_pointer]
  <2>1. /\ c.op = call[p].op /\ c.failure = call[p].failure /\ c.start = call[p].start
        /\ c.before = call[p].before /\ c.offset = call[p].offset
        /\ c.reg_addr = call[p].reg_addr /\ c.remain_in_page = call[p].remain_in_page
        /\ ChunkLen(c) = ChunkLen(call[p])
    BY <1>0 DEF CallType, ChunkLen
  <2>2. call' = [call EXCEPT ![p] = c] /\ UNCHANGED eeprom
    BY <1>0, <1>17 DEF LoadCursor
  <2> HIDE DEF c
  <2>3. CASE pc[p] = "read_load"
    <3>1. c.op = "read" /\ pc' = [pc EXCEPT ![p] = "read_advance"]
      BY <1>17, <2>1, <2>3 DEF LoadCursor, Goto, FootprintInv, Footprint, Reading
    <3> QED  BY <1>10, <2>2, <3>1 DEF Reading
  <2>4. CASE pc[p] = "sent"
    <3>1. Planned(call[p]) /\ Kept(call[p], eeprom, c.offset + ChunkLen(c))
            /\ pc' = [pc EXCEPT ![p] = "write_advance"]
      BY <1>17, <2>1, <2>4 DEF LoadCursor, Goto, FootprintInv, Footprint
    <3>2. Planned(c) /\ Kept(c, eeprom, c.offset + ChunkLen(c))
      BY <2>1, <3>1, KeptSame DEF Planned
    <3>3. Footprint("write_advance", c, eeprom)
      BY <3>2 DEF Footprint, Reading
    <3> QED  BY <2>2, <3>1, <3>3, OwnStep
  <2> QED  BY <1>17, <2>3, <2>4 DEF LoadCursor
<1>18. ASSUME NEW p \in Procs, ReadAddress(p) PROVE FootprintInv'
  <2> DEFINE c == [call[p] EXCEPT !.reg_addr = current_pointer, !.start = current_pointer]
  <2>1. call[p].op = "read"
    BY <1>18 DEF ReadAddress, FootprintInv, Footprint, Reading
  <2>2. /\ c.op = "read" /\ call' = [call EXCEPT ![p] = c]
        /\ pc' = [pc EXCEPT ![p] = "read_message"] /\ UNCHANGED eeprom
    BY <1>0, <1>18, <2>1 DEF ReadAddress, Goto, CallType
  <2> HIDE DEF c
  <2> QED  BY <1>10, <2>2 DEF Reading
<1>19. ASSUME NEW p \in Procs, ReadMessage(p) PROVE FootprintInv'
  <2> DEFINE c == [call[p] EXCEPT !.msg_buf = data]
  <2>1. call[p].op = "read"
    BY <1>19 DEF ReadMessage, FootprintInv, Footprint, Reading
  <2>2. /\ c.op = "read" /\ call' = [call EXCEPT ![p] = c]
        /\ pc' = [pc EXCEPT ![p] = "read"] /\ UNCHANGED eeprom
    BY <1>0, <1>19, <2>1 DEF ReadMessage, Goto, CallType
  <2> HIDE DEF c
  <2> QED  BY <1>10, <2>2 DEF Reading
<1>20. ASSUME NEW p \in Procs, ReadTransfer(p) PROVE FootprintInv'
  <2>1. call[p].op = "read"
    BY <1>20 DEF ReadTransfer, FootprintInv, Footprint, Reading
  <2>2. CASE \E f : Crash(f)
    BY <1>3, <2>2
  <2>3. CASE UNCHANGED eeprom /\ Goto(p, "read_copy")
               /\ \E failed : call' = [call EXCEPT ![p].failure = failed]
    <3>1. PICK failed : call' = [call EXCEPT ![p].failure = failed]
      BY <2>3
    <3> DEFINE c == [call[p] EXCEPT !.failure = failed]
    <3>2. c.op = "read" /\ call' = [call EXCEPT ![p] = c]
      BY <1>0, <2>1, <3>1 DEF CallType
    <3> HIDE DEF c
    <3> QED  BY <1>10, <2>3, <3>2 DEF Goto, Reading
  <2> QED  BY <1>20, <2>2, <2>3 DEF ReadTransfer
<1>21. ASSUME NEW p \in Procs, ReadCopy(p) PROVE FootprintInv'
  <2>1. call[p].op = "read"
    BY <1>21 DEF ReadCopy, FootprintInv, Footprint, Reading
  <2>2. CASE \E f : Crash(f)
    BY <1>3, <2>2
  <2>3. CASE UNCHANGED eeprom /\ Finish(p, EIO, "copy")
    BY <1>12, <2>1, <2>3
  <2>4. CASE UNCHANGED eeprom /\ Goto(p, "read_load")
               /\ call' = [call EXCEPT ![p].retval = call[p].count]
    <3> DEFINE c == [call[p] EXCEPT !.retval = call[p].count]
    <3>1. c.op = "read" /\ call' = [call EXCEPT ![p] = c]
      BY <1>0, <2>1, <2>4 DEF CallType
    <3> HIDE DEF c
    <3> QED  BY <1>10, <2>4, <3>1 DEF Goto, Reading
  <2> QED  BY <1>21, <2>2, <2>3, <2>4 DEF ReadCopy
<1>22. ASSUME NEW p \in Procs, ReadAdvance(p) PROVE FootprintInv'
  <2>1. call[p].op = "read" /\ call' = [call EXCEPT ![p] = call[p]]
          /\ pc' = [pc EXCEPT ![p] = "end"] /\ UNCHANGED eeprom
    BY <1>0, <1>22 DEF ReadAdvance, FootprintInv, Footprint, Reading, Goto
  <2> QED  BY <1>10, <2>1
<1>23. ASSUME NEW p \in Procs, \/ WriteCopy(p) \/ WriteAddress(p) \/ WritePlan(p)
                               \/ SendChunk(p) \/ WriteAdvance(p)
       PROVE  FootprintInv'
  BY <1>23, FootprintCopy, FootprintAddress, FootprintPlan, FootprintSend,
     FootprintAdvance
<1> QED
  <2>1. CASE \E p \in Procs : Request(p)
    BY <1>4, <1>7, <1>8, <1>9, <2>1 DEF Request
  <2>2. CASE \E p \in Procs : Acquire(p)
    BY <1>13, <1>14, <2>2 DEF Acquire
  <2>3. CASE \E p \in Procs : Progress(p)
    BY <1>4, <1>5, <1>6, <1>15, <1>16, <1>17, <1>18, <1>19, <1>20, <1>21, <1>22, <1>23,
       <2>3 DEF Progress
  <2>4. CASE \E p \in Procs : LockKilled(p)
    BY <1>6, <2>4
  <2> QED  BY <1>1, <2>1, <2>2, <2>3, <2>4 DEF Next

(* Whatever the other processes do, a write changes the bytes it has sent  *)
(* and no other byte of the chip, except that a write torn by an open may  *)
(* damage the pages it addresses; beyond these pages it changes nothing.   *)
THEOREM FootprintCorrect == Spec => []WriteFootprint
<1>1. Init => FootprintInv
  BY DEF Init, FootprintInv, Footprint, Reading
<1> QED  BY <1>1, FootprintImplies, StepFootprint, TypeCorrect, MutexCorrect,
            PageSafety, PTL DEF Spec
=============================================================================
