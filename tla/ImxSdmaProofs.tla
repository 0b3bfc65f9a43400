-------------------------- MODULE ImxSdmaProofs --------------------------
(***************************************************************************)
(* Proofs about ImxSdma while one file is open at a time: who holds the    *)
(* channel and the buffers, and whose completion a waiting write takes.    *)
(***************************************************************************)
EXTENDS ImxSdma, FiniteSetTheorems, SequenceTheorems, TLAPS

CompareInRange == \A p \in Procs : pc[p] = "compare" => call[p].k \in Pairs

TypeInv == TypeOK /\ CompareInRange

Typed == TypeInv /\ transferred \in BOOLEAN

(* What a pointer can be depends on the number of blocks only.             *)
LEMMA PointersKept ==
  ASSUME UNCHANGED allocated
  PROVE  Pointer' = Pointer /\ Segments' = Segments /\ Transactions' = Transactions
         /\ Scatter' = Scatter /\ Calls' = Calls
BY DEF Pointer, Segments, Transactions, Scatter, Calls

(* An empty segment is a segment.                                          *)
LEMMA NothingType == Nothing \in Segments /\ Nothing \in Segments'
BY DEF Nothing, Segments, Pointer

(* A table stays a table when one of its sides is set.                     *)
LEMMA ScatterType ==
  ASSUME NEW s \in Scatter, NEW x \in Segments
  PROVE  /\ [s EXCEPT !.src = x] \in Scatter
         /\ [s EXCEPT !.dst = x] \in Scatter
BY DEF Scatter

(* The record of a call that begins has the type of a call.                *)
LEMMA NoCallType ==
  /\ NoCall \in Calls
  /\ \A f \in Files, b \in BOOLEAN :
       /\ [NoCall EXCEPT !.file = f] \in Calls
       /\ [NoCall EXCEPT !.file = f, !.after = b] \in Calls
       /\ [NoCall EXCEPT !.file = f].k = 1
       /\ [NoCall EXCEPT !.file = f, !.after = b].k = 1
<1>1. /\ NoCall.k = 1 /\ NoCall \in Calls
      /\ NoCall.file = NULL /\ NoCall.chan = NULL
  BY SdmaAssumption, NothingType DEF NoCall, Calls
<1>2. ASSUME NEW f \in Files, NEW b \in BOOLEAN
      PROVE  /\ [NoCall EXCEPT !.file = f] \in Calls
             /\ [NoCall EXCEPT !.file = f].k = 1
             /\ [NoCall EXCEPT !.file = f, !.after = b] \in Calls
             /\ [NoCall EXCEPT !.file = f, !.after = b].k = 1
  BY <1>1 DEF Calls
<1> QED BY <1>1, <1>2

(* It keeps it when the call moves on.                                     *)
LEMMA CallType ==
  ASSUME NEW d \in Calls
  PROVE  /\ \A k \in 1 .. N + 1 : /\ [d EXCEPT !.k = k] \in Calls
                                  /\ [d EXCEPT !.k = k].k = k
         /\ \A c \in Channels \union {NULL}, x \in Segments, y \in Segments :
              [d EXCEPT !.chan = c, !.src = x, !.dst = y] \in Calls
         /\ d.k \in 1 .. N + 1
         /\ d.chan \in Channels \union {NULL}
         /\ d.src \in Segments /\ d.dst \in Segments
BY DEF Calls

(* The places of a process, those of a write among them.                   *)
LEMMA LabelType ==
  /\ Writing \subseteq Labels
  /\ {"fill", "sg_init", "sg_set", "sg2_init", "sg2_set", "prep", "submit",
      "issue", "wait", "asleep", "lost", "unmap", "idle", "compare", "passed",
      "falled"} = Labels
BY DEF Labels, Writing

(* A step to label l keeps the types of the program counters.              *)
LEMMA GotoType ==
  ASSUME NEW p \in Procs, NEW l \in Labels, pc \in [Procs -> Labels], Goto(p, l)
  PROVE  /\ pc' \in [Procs -> Labels]
         /\ pc'[p] = l
         /\ \A q \in Procs \ {p} : pc'[q] = pc[q]
BY DEF Goto

(* The types, initially.                                                   *)
LEMMA InitTyped == Init => TypeInv
<1> SUFFICES ASSUME Init PROVE TypeInv
  OBVIOUS
<1> USE DEF Init
<1>1. sg \in [Tables -> Scatter]
  BY NothingType DEF Scatter
<1>2. /\ buf \in [Slots -> Pointer]
      /\ slot \in [Files -> Slots]
  BY SdmaAssumption DEF Pointer, Slots
<1>3. DOMAIN mem = {}
  OBVIOUS
<1> QED
  BY <1>1, <1>2, <1>3, NoCallType, LabelType, EmptySeq
     DEF TypeInv, TypeOK, CompareInRange

(* A crash changes nothing but fault.                                      *)
LEMMA CrashTyped ==
  ASSUME TypeInv, NEW e, Crash(e)
  PROVE  TypeInv'
BY PointersKept
   DEF TypeInv, TypeOK, CompareInRange, Crash, globals, memory, engine, file,
       process, history

(* init_completion keeps the types.                                        *)
LEMMA OpenStartTyped ==
  ASSUME NEW f \in Files, TypeInv, OpenStart(f)
  PROVE  TypeInv'
BY PointersKept, LabelType
   DEF TypeInv, TypeOK, CompareInRange, OpenStart, memory, engine

(* Requesting a channel keeps them.                                        *)
LEMMA OpenChannelTyped ==
  ASSUME NEW f \in Files, TypeInv, OpenChannel(f) \/ OpenNoChannel(f)
  PROVE  TypeInv'
<1>1. slot' \in [Files -> Slots]
  <2>1. 1 \in Slots
    BY SdmaAssumption DEF Slots
  <2> QED BY <2>1 DEF OpenChannel, OpenNoChannel, TypeInv, TypeOK
<1>2. /\ dma_m2m_chan' \in Channels \union {NULL} /\ requested' \subseteq Channels
      /\ place' \in [Files -> {"closed", "channel", "alloc", "open", "free"}]
      /\ submitted' = submitted /\ queue' = queue
  BY DEF OpenChannel, OpenNoChannel, engine, TypeInv, TypeOK
<1> QED
  BY <1>1, <1>2, PointersKept
     DEF TypeInv, TypeOK, CompareInRange, OpenChannel, OpenNoChannel, memory,
         process, history

(* Going from a buffer to the next stays within the buffers there are.     *)
LEMMA NextSlotType ==
  ASSUME NEW f \in Files, NEW l \in {"open", "closed"},
         slot \in [Files -> Slots],
         place \in [Files -> {"closed", "channel", "alloc", "open", "free"}],
         NextSlot(f, l)
  PROVE  /\ slot' \in [Files -> Slots]
         /\ place' \in [Files -> {"closed", "channel", "alloc", "open", "free"}]
<1>1. slot[f] # 2 * N => slot[f] + 1 \in Slots
  BY SdmaAssumption DEF Slots
<1> QED BY <1>1 DEF NextSlot

(* Allocating a buffer keeps the types: there is one pointer more.         *)
LEMMA OpenAllocTyped ==
  ASSUME NEW f \in Files, TypeInv, OpenAlloc(f)
  PROVE  TypeInv'
<1>1. allocated' = allocated + 1 /\ allocated \in Nat
  BY DEF OpenAlloc, TypeInv, TypeOK
<1>2. Pointer \subseteq Pointer' /\ allocated' \in Pointer'
  BY <1>1 DEF Pointer
<1>3. Segments \subseteq Segments'
  BY <1>2 DEF Segments
<1>4. Transactions \subseteq Transactions'
  BY <1>3 DEF Transactions
<1>5. buf' \in [Slots -> Pointer']
  BY <1>2 DEF OpenAlloc, TypeInv, TypeOK
<1>6. Scatter \subseteq Scatter' /\ Calls \subseteq Calls'
  BY <1>3 DEF Scatter, Calls
<1>7. \A b \in DOMAIN mem' : mem'[b] \in [Halves -> 0 .. N]
  <2>1. Blank \in [Halves -> 0 .. N]
    BY SdmaAssumption DEF Blank
  <2> QED BY <2>1 DEF OpenAlloc, TypeInv, TypeOK
<1>8. submitted' \in [Channels -> Seq(Transactions')]
      /\ queue' \in [Channels -> Seq(Transactions')]
  <2>1. Seq(Transactions) \subseteq Seq(Transactions')
    BY <1>4, SeqMonotonic
  <2> QED BY <2>1 DEF OpenAlloc, engine, TypeInv, TypeOK
<1>9. /\ place' \in [Files -> {"closed", "channel", "alloc", "open", "free"}]
      /\ slot' \in [Files -> Slots]
  BY NextSlotType DEF OpenAlloc, TypeInv, TypeOK
<1>10. /\ sg' \in [Tables -> Scatter']
       /\ call' \in [Procs -> Calls']
  BY <1>6 DEF OpenAlloc, process, TypeInv, TypeOK
<1>11. DOMAIN mem' \subseteq 1 .. allocated'
  BY <1>1 DEF OpenAlloc, TypeInv, TypeOK
<1>12. /\ dma_m2m_chan' = dma_m2m_chan /\ dma_m2m_ok' = dma_m2m_ok
       /\ requested' = requested /\ pc' = pc /\ call' = call
       /\ failed_opens' = failed_opens
  BY DEF OpenAlloc, process, engine
<1> QED
  BY <1>1, <1>5, <1>7, <1>8, <1>9, <1>10, <1>11, <1>12
     DEF TypeInv, TypeOK, CompareInRange

(* So does the failure to.                                                 *)
LEMMA OpenNoMemoryTyped ==
  ASSUME NEW f \in Files, TypeInv, OpenNoMemory(f)
  PROVE  TypeInv'
<1>1. buf' \in [Slots -> Pointer]
  BY DEF OpenNoMemory, TypeInv, TypeOK, Pointer
<1> QED
  BY <1>1, PointersKept
     DEF TypeInv, TypeOK, CompareInRange, OpenNoMemory, memory, process, engine

(* Releasing the channel keeps them, also when it drops what is not        *)
(* issued.                                                                 *)
LEMMA ReleaseChannelTyped ==
  ASSUME NEW f \in Files, TypeInv, ReleaseChannel(f)
  PROVE  TypeInv'
<1>1. CASE dma_m2m_chan = NULL
  BY <1>1, CrashTyped DEF ReleaseChannel
<1>2. CASE dma_m2m_chan # NULL
  <2>1. /\ submitted' \in [Channels -> Seq(Transactions)]
        /\ queue' \in [Channels -> Seq(Transactions)]
    <3>1. /\ submitted \in [Channels -> Seq(Transactions)]
          /\ queue \in [Channels -> Seq(Transactions)]
      BY DEF TypeInv, TypeOK
    <3>2. /\ submitted' = [submitted EXCEPT ![dma_m2m_chan] = <<>>]
          /\ \/ queue' = [queue EXCEPT ![dma_m2m_chan] = queue[dma_m2m_chan]]
             \/ queue' = [queue EXCEPT ![dma_m2m_chan] = <<>>]
      BY <1>2 DEF ReleaseChannel
    <3> QED BY <3>1, <3>2, EmptySeq
  <2>2. /\ slot' \in [Files -> Slots]
        /\ place' \in [Files -> {"closed", "channel", "alloc", "open", "free"}]
    <3>1. 1 \in Slots
      BY SdmaAssumption DEF Slots
    <3>2. /\ slot' = [slot EXCEPT ![f] = 1]
          /\ place' = [place EXCEPT ![f] = "free"]
      BY <1>2 DEF ReleaseChannel
    <3> QED BY <3>1, <3>2 DEF TypeInv, TypeOK
  <2> QED
    BY <1>2, <2>1, <2>2, PointersKept
       DEF ReleaseChannel, TypeInv, TypeOK, CompareInRange, memory, process,
           history
<1> QED BY <1>1, <1>2

(* Freeing a buffer keeps them.                                            *)
LEMMA ReleaseFreeTyped ==
  ASSUME NEW f \in Files, TypeInv, ReleaseFree(f)
  PROVE  TypeInv'
<1> DEFINE b == buf[slot[f]]
<1>1. CASE b # NULL /\ b \notin DOMAIN mem
  BY <1>1, CrashTyped DEF ReleaseFree
<1>2. CASE ~(b # NULL /\ b \notin DOMAIN mem)
  <2>1. /\ slot' \in [Files -> Slots]
        /\ place' \in [Files -> {"closed", "channel", "alloc", "open", "free"}]
    BY <1>2, NextSlotType DEF ReleaseFree, TypeInv, TypeOK
  <2>2. /\ DOMAIN mem' \subseteq DOMAIN mem
        /\ \A a \in DOMAIN mem' : mem'[a] = mem[a]
    BY <1>2 DEF ReleaseFree, Restrict
  <2> QED
    BY <1>2, <2>1, <2>2, PointersKept
       DEF ReleaseFree, TypeInv, TypeOK, CompareInRange, globals, engine,
           process, history
<1> QED BY <1>1, <1>2

(* A call of read or write that begins keeps them.                         *)
LEMMA CallTyped ==
  ASSUME NEW p \in Procs, TypeInv, transferred \in BOOLEAN,
         WriteCall(p) \/ ReadCall(p)
  PROVE  TypeInv'
<1>1. PICK d \in Calls : call' = [call EXCEPT ![p] = d] /\ d.k = 1
  BY NoCallType DEF WriteCall, ReadCall
<1>2. PICK l \in Labels : Goto(p, l)
  BY LabelType DEF WriteCall, ReadCall
<1>3. 1 \in Pairs
  BY SdmaAssumption DEF Pairs
<1> QED
  BY <1>1, <1>2, <1>3, GotoType, PointersKept
     DEF TypeInv, TypeOK, CompareInRange, WriteCall, ReadCall, globals, memory,
         engine, file, history

(* Filling the buffers keeps them.                                         *)
LEMMA WriteFillTyped ==
  ASSUME NEW p \in Procs, TypeInv, WriteFill(p)
  PROVE  TypeInv'
<1> DEFINE blocks == {buf[k] : k \in Pairs}
<1>1. CASE AccessFault(blocks) # "none"
  BY <1>1, CrashTyped DEF WriteFill
<1>2. CASE AccessFault(blocks) = "none"
  <2>1. DOMAIN mem' = DOMAIN mem
    BY <1>2 DEF WriteFill
  <2>2. ASSUME NEW b \in DOMAIN mem
        PROVE  mem'[b] \in [Halves -> 0 .. N]
    <3>1. CASE b \in blocks
      <4> DEFINE k == CHOOSE k \in Pairs : buf[k] = b
      <4>1. k \in Pairs
        BY <3>1
      <4>3. mem'[b] = Pattern(k)
        BY <1>2, <3>1 DEF WriteFill
      <4> HIDE DEF k
      <4>2. Pattern(k) \in [Halves -> 0 .. N]
        BY <4>1, SdmaAssumption DEF Pattern, Pairs
      <4> QED BY <4>2, <4>3
    <3>2. CASE b \notin blocks
      BY <1>2, <3>2 DEF WriteFill, TypeInv, TypeOK
    <3> QED BY <3>1, <3>2
  <2> QED
    BY <1>2, <2>1, <2>2, PointersKept, GotoType, LabelType
       DEF WriteFill, globals, engine, file, history, CompareInRange, TypeInv,
           TypeOK
<1> QED BY <1>1, <1>2

(* Setting up the tables keeps them.                                       *)
LEMMA SgTyped ==
  ASSUME NEW p \in Procs, TypeInv, SgInit(p) \/ SgSet(p)
  PROVE  TypeInv'
<1>1. CASE Crash("null_dereference")
  BY <1>1, CrashTyped
<1>2. CASE ~Crash("null_dereference")
  <2>1. Sources \in Segments /\ Destinations \in Segments
    BY SdmaAssumption
       DEF Sources, Destinations, Segments, Pairs, Slots, TypeInv, TypeOK
  <2>2. Table[p] \in Tables
    BY DEF Tables
  <2>3. sg' \in [Tables -> Scatter]
    <3>1. sg \in [Tables -> Scatter]
      BY DEF TypeInv, TypeOK
    <3> DEFINE s == sg[Table[p]]
    <3>2. PICK x \in Segments :
            \/ sg' = [sg EXCEPT ![Table[p]].src = x]
            \/ sg' = [sg EXCEPT ![Table[p]].dst = x]
      BY <1>2, <2>1, NothingType DEF SgInit, SgSet
    <3>3. \/ sg' = [sg EXCEPT ![Table[p]] = [s EXCEPT !.src = x]]
          \/ sg' = [sg EXCEPT ![Table[p]] = [s EXCEPT !.dst = x]]
      BY <3>2
    <3>4. [s EXCEPT !.src = x] \in Scatter /\ [s EXCEPT !.dst = x] \in Scatter
      BY <2>2, <3>1, ScatterType
    <3> QED BY <3>1, <3>3, <3>4
  <2>4. PICK l \in Labels : Goto(p, l) /\ l # "compare"
    BY <1>2, LabelType DEF SgInit, SgSet
  <2> QED
    BY <1>2, <2>3, <2>4, PointersKept, GotoType
       DEF SgInit, SgSet, memory, engine, file, history, CompareInRange,
           TypeInv, TypeOK
<1> QED BY <1>1, <1>2

(* Preparing the descriptor keeps them.                                    *)
LEMMA PrepTyped ==
  ASSUME NEW p \in Procs, TypeInv, WritePrep(p)
  PROVE  TypeInv'
<1>1. CASE Crash("null_dereference") \/ Crash("no_descriptor")
  BY <1>1, CrashTyped
<1>2. CASE ~(Crash("null_dereference") \/ Crash("no_descriptor"))
  <2>1. sg[Table[p]].src \in Segments /\ sg[Table[p]].dst \in Segments
    BY DEF Tables, Scatter, TypeInv, TypeOK
  <2>2. PICK d \in Calls : call' = [call EXCEPT ![p] = d]
    <3>1. call' = [call EXCEPT ![p] =
                    [call[p] EXCEPT !.chan = dma_m2m_chan,
                                    !.src = sg[Table[p]].src,
                                    !.dst = sg[Table[p]].dst]]
      BY <1>2 DEF WritePrep, TypeInv, TypeOK
    <3>2. call[p] \in Calls /\ dma_m2m_chan \in Channels \union {NULL}
      BY DEF TypeInv, TypeOK
    <3> QED BY <2>1, <3>1, <3>2, CallType
  <2>3. Goto(p, "submit")
    BY <1>2 DEF WritePrep
  <2> QED
    BY <1>2, <2>2, <2>3, PointersKept, GotoType, LabelType
       DEF WritePrep, globals, memory, engine, file, history, CompareInRange,
           TypeInv, TypeOK
<1> QED BY <1>1, <1>2

(* What a write submits is a transaction.                                  *)
LEMMA TransactionType ==
  ASSUME NEW p \in Procs, TypeInv
  PROVE  Transaction(p) \in Transactions
<1>1. call[p].src \in Segments /\ call[p].dst \in Segments
  BY CallType DEF TypeInv, TypeOK
<1>2. 0 \in 0 .. 2 * N
  BY SdmaAssumption
<1> QED BY <1>1, <1>2 DEF Transaction, Transactions

(* Submitting it keeps the types.                                          *)
LEMMA SubmitTyped ==
  ASSUME NEW p \in Procs, TypeInv, WriteSubmit(p)
  PROVE  TypeInv'
<1> DEFINE c == call[p].chan
<1>1. CASE c \notin requested
  BY <1>1, CrashTyped DEF WriteSubmit
<1>2. CASE c \in requested
  <2>1. Transaction(p) \in Transactions
    BY TransactionType
  <2>2. submitted' \in [Channels -> Seq(Transactions)]
    <3>1. submitted' = [submitted EXCEPT ![c] = Append(@, Transaction(p))]
      BY <1>2 DEF WriteSubmit
    <3>2. submitted \in [Channels -> Seq(Transactions)] /\ c \in Channels
      BY <1>2 DEF TypeInv, TypeOK
    <3> QED BY <2>1, <3>1, <3>2, AppendProperties
  <2>3. Goto(p, "issue")
    BY <1>2 DEF WriteSubmit
  <2> QED
    BY <1>2, <2>2, <2>3, PointersKept, GotoType, LabelType
       DEF WriteSubmit, globals, memory, file, history, CompareInRange,
           TypeInv, TypeOK
<1> QED BY <1>1, <1>2

(* Issuing what is submitted keeps them.                                   *)
LEMMA IssueTyped ==
  ASSUME NEW p \in Procs, TypeInv, WriteIssue(p)
  PROVE  TypeInv'
<1> DEFINE c == dma_m2m_chan
<1>1. CASE c = NULL
  BY <1>1, CrashTyped DEF WriteIssue
<1>2. CASE c # NULL
  <2>1. /\ submitted' \in [Channels -> Seq(Transactions)]
        /\ queue' \in [Channels -> Seq(Transactions)]
    <3>1. /\ queue' = [queue EXCEPT ![c] = @ \o submitted[c]]
          /\ submitted' = [submitted EXCEPT ![c] = <<>>]
      BY <1>2 DEF WriteIssue
    <3>2. /\ submitted \in [Channels -> Seq(Transactions)]
          /\ queue \in [Channels -> Seq(Transactions)]
          /\ c \in Channels
      BY <1>2 DEF TypeInv, TypeOK
    <3> QED BY <3>1, <3>2, ConcatProperties, EmptySeq
  <2>2. Goto(p, "wait")
    BY <1>2 DEF WriteIssue
  <2> QED
    BY <1>2, <2>1, <2>2, PointersKept, GotoType, LabelType
       DEF WriteIssue, globals, memory, file, history, CompareInRange,
           TypeInv, TypeOK
<1> QED BY <1>1, <1>2

(* The end of a call keeps them.                                           *)
LEMMA WaitTyped ==
  ASSUME NEW p \in Procs, TypeInv,
         WriteWait(p) \/ WriteSleep(p) \/ WriteUnmap(p) \/ ReadReturn(p)
  PROVE  TypeInv'
<1>1. PICK l \in Labels : Goto(p, l) /\ l # "compare"
  BY LabelType DEF WriteWait, WriteSleep, WriteUnmap, ReadReturn
<1>2. dma_m2m_ok' \in Nat
  BY DEF WriteWait, WriteSleep, WriteUnmap, ReadReturn, globals, TypeInv, TypeOK
<1>3. call' = call \/ call' = [call EXCEPT ![p] = NoCall]
  BY DEF WriteWait, WriteSleep, WriteUnmap, ReadReturn
<1>4. UNCHANGED <<dma_m2m_chan, buf, sg, memory, engine, file, failed_opens>>
  BY DEF WriteWait, WriteSleep, WriteUnmap, ReadReturn, globals, history
<1>5. call' \in [Procs -> Calls] /\ \A q \in Procs \ {p} : call'[q] = call[q]
  BY <1>3, NoCallType DEF TypeInv, TypeOK
<1>6. /\ pc' \in [Procs -> Labels]
      /\ \A q \in Procs : pc'[q] = "compare" => pc[q] = "compare" /\ q # p
  BY <1>1, GotoType DEF TypeInv, TypeOK
<1> QED
  BY <1>2, <1>4, <1>5, <1>6, PointersKept
     DEF TypeInv, TypeOK, CompareInRange, memory, engine, file

(* read compares only pairs there are.                                     *)
LEMMA CompareTyped ==
  ASSUME NEW p \in Procs, TypeInv, ReadCompare(p)
  PROVE  TypeInv'
<1> DEFINE k == call[p].k
           blocks == {buf[k], buf[N + k]}
<1>1. CASE AccessFault(blocks) # "none"
  BY <1>1, CrashTyped DEF ReadCompare
<1>2. CASE AccessFault(blocks) = "none"
  <2>1. k \in Pairs /\ k + 1 \in 1 .. N + 1 /\ (k # N => k + 1 \in Pairs)
    BY SdmaAssumption DEF ReadCompare, CompareInRange, TypeInv, Pairs
  <2>2. \/ /\ call' = [call EXCEPT ![p].k = k + 1]
           /\ Goto(p, IF k = N THEN "passed" ELSE "compare")
        \/ /\ call' = call
           /\ Goto(p, "falled")
    BY <1>2 DEF ReadCompare
  <2>3. CASE /\ call' = [call EXCEPT ![p].k = k + 1]
             /\ Goto(p, IF k = N THEN "passed" ELSE "compare")
    <3>1. PICK d \in Calls : call' = [call EXCEPT ![p] = d] /\ d.k = k + 1
      <4>1. call' = [call EXCEPT ![p] = [call[p] EXCEPT !.k = k + 1]]
        BY <2>3 DEF TypeInv, TypeOK
      <4> QED BY <2>1, <4>1, CallType DEF TypeInv, TypeOK
    <3>2. PICK l \in Labels : Goto(p, l) /\ (l = "compare" => k # N)
      BY <2>3, LabelType
    <3> QED
      BY <1>2, <2>1, <3>1, <3>2, PointersKept, GotoType
         DEF ReadCompare, globals, memory, engine, file, history,
             CompareInRange, TypeInv, TypeOK
  <2>4. CASE call' = call /\ Goto(p, "falled")
    BY <1>2, <2>4, PointersKept, GotoType, LabelType
       DEF ReadCompare, globals, memory, engine, file, history,
           CompareInRange, TypeInv, TypeOK
  <2> QED BY <2>2, <2>3, <2>4
<1> QED BY <1>1, <1>2

(* The engine keeps the types.                                             *)
LEMMA EngineTyped ==
  ASSUME NEW c \in Channels, TypeInv, DmaCopy(c) \/ DmaEnd(c)
  PROVE  TypeInv'
<1>1. queue \in [Channels -> Seq(Transactions)] /\ queue[c] \in Seq(Transactions)
  BY DEF TypeInv, TypeOK
<1>2. CASE DmaCopy(c)
  <2> DEFINE d == Head(queue[c])
             k == (d.pos \div 2) + 1
             h == IF d.pos % 2 = 0 THEN "lo" ELSE "hi"
             e == [d EXCEPT !.pos = @ + 1]
  <2>1. queue[c] # <<>> /\ d.pos < 2 * N
    BY <1>2 DEF DmaCopy
  <2>2. d \in Transactions /\ 1 \in 1 .. Len(queue[c]) /\ queue[c][1] = d
    BY <1>1, <2>1, HeadTailProperties, EmptySeq
  <2>3. CASE Crash("stray_dma")
    BY <2>3, CrashTyped
  <2>4. CASE ~Crash("stray_dma")
    <3>1. /\ mem' = [mem EXCEPT ![d.dst[k]][h] = mem[d.src[k]][h]]
          /\ {d.src[k], d.dst[k]} \subseteq DOMAIN mem
          /\ queue' = [queue EXCEPT ![c][1].pos = @ + 1]
      BY <1>2, <2>4 DEF DmaCopy
    <3>2. e \in Transactions
      <4>1. d.pos + 1 \in 0 .. 2 * N
        BY <2>1, <2>2, SdmaAssumption DEF Transactions
      <4> QED BY <4>1, <2>2 DEF Transactions
    <3>3. queue' = [queue EXCEPT ![c] = [queue[c] EXCEPT ![1] = e]]
      BY <1>1, <2>2, <3>1
    <3>4. queue' \in [Channels -> Seq(Transactions)]
      <4>1. [queue[c] EXCEPT ![1] = e] \in Seq(Transactions)
        BY <1>1, <2>2, <3>2, ExceptSeq
      <4> HIDE DEF e
      <4> QED BY <1>1, <3>3, <4>1
    <3>5. /\ DOMAIN mem' = DOMAIN mem
          /\ \A b \in DOMAIN mem' : mem'[b] \in [Halves -> 0 .. N]
      <4>1. h \in Halves
        BY DEF Halves
      <4>2. \A b \in DOMAIN mem : mem[b] \in [Halves -> 0 .. N]
        BY DEF TypeInv, TypeOK
      <4> HIDE DEF h, k, d
      <4> QED BY <3>1, <4>1, <4>2
    <3> QED
      BY <1>2, <2>4, <3>4, <3>5, PointersKept
         DEF DmaCopy, globals, file, process, history, CompareInRange,
             TypeInv, TypeOK
  <2> QED BY <2>3, <2>4
<1>3. CASE DmaEnd(c)
  <2>1. queue' \in [Channels -> Seq(Transactions)]
    BY <1>1, <1>3, HeadTailProperties DEF DmaEnd
  <2> QED
    BY <1>3, <2>1, PointersKept
       DEF DmaEnd, dma_m2m_callback, memory, file, process, CompareInRange,
           TypeInv, TypeOK
<1> QED BY <1>2, <1>3

-----------------------------------------------------------------------------
(* Every step keeps the types.                                             *)
LEMMA StepTyped == Typed /\ [Next]_vars => Typed'
<1> SUFFICES ASSUME TypeInv, transferred \in BOOLEAN, [Next]_vars
             PROVE  TypeInv' /\ transferred' \in BOOLEAN
  BY DEF Typed
<1>1. CASE UNCHANGED vars
  BY <1>1, PointersKept
     DEF vars, globals, memory, engine, file, process, history, TypeInv, TypeOK,
         CompareInRange
<1>2. CASE Request
  BY <1>2, OpenStartTyped, CallTyped
     DEF Request, OpenStart, WriteCall, ReadCall, history
<1>3. ASSUME NEW f \in Files, FileStep(f) \/ ReleaseChannel(f)
      PROVE  TypeInv' /\ transferred' \in BOOLEAN
  <2>1. transferred' \in BOOLEAN
    BY <1>3
       DEF FileStep, OpenChannel, OpenNoChannel, OpenAlloc, OpenNoMemory,
           ReleaseChannel, ReleaseFree, Crash, history
  <2> QED
    BY <1>3, <2>1, OpenChannelTyped, OpenAllocTyped, OpenNoMemoryTyped,
       ReleaseChannelTyped, ReleaseFreeTyped DEF FileStep
<1>4. ASSUME NEW p \in Procs, Proceed(p) \/ WriteWait(p)
      PROVE  TypeInv' /\ transferred' \in BOOLEAN
  <2>1. transferred' \in BOOLEAN
    BY <1>4
       DEF Proceed, WriteFill, SgInit, SgSet, WritePrep, WriteSubmit,
           WriteIssue, WriteWait, WriteSleep, WriteUnmap, ReadCompare,
           ReadReturn, Crash, history
  <2> QED
    BY <1>4, <2>1, WriteFillTyped, SgTyped, PrepTyped, SubmitTyped, IssueTyped,
       WaitTyped, CompareTyped DEF Proceed
<1>5. ASSUME NEW c \in Channels, Engine(c)
      PROVE  TypeInv' /\ transferred' \in BOOLEAN
  BY <1>5, EngineTyped DEF Engine, DmaCopy, DmaEnd, Crash, history
<1> QED BY <1>1, <1>2, <1>3, <1>4, <1>5 DEF Next, Step

(* Every variable keeps its type, for any numbers of processes, files,     *)
(* channels and buffers: open and release never leave the buffers there    *)
(* are, read compares no buffer past the last one, and a block is used by  *)
(* number only once it has been allocated.                                 *)
THEOREM SdmaTypeCorrect == Spec => []TypeOK
<1>1. Init => Typed
  BY InitTyped DEF Init, Typed
<1>2. Typed => TypeOK
  BY DEF Typed, TypeInv
<1> QED BY <1>1, <1>2, StepTyped, PTL DEF Spec

-----------------------------------------------------------------------------
(* One file at a time.                                                     *)

(* A call is under way on an open file only.                               *)
CallsOnOpen ==
  \A p \in Procs : pc[p] # "idle" =>
    call[p].file \in Files /\ place[call[p].file] = "open"

AtMostOne ==
  \A f, g \in Files : place[f] # "closed" /\ place[g] # "closed" => f = g

NoneLost == \A p \in Procs : pc[p] # "lost"

ChannelHeld ==
  \A f \in Files : place[f] \in {"alloc", "open"} => dma_m2m_chan \in requested

(* A write submits on the channel that it issues.                          *)
OwnChannel == \A p \in Procs : pc[p] = "submit" => call[p].chan = dma_m2m_chan

OthersQuiet ==
  \A c \in Channels : c # dma_m2m_chan => submitted[c] = <<>> /\ queue[c] = <<>>

Waiting == {p \in Procs : pc[p] \in {"issue", "wait", "asleep"}}

Due ==
  IF dma_m2m_chan = NULL THEN 0
  ELSE Len(submitted[dma_m2m_chan]) + Len(queue[dma_m2m_chan])

Balance == Cardinality(Waiting) = dma_m2m_ok + Due

(* The buffers that file f has allocated and not freed.                    *)
Owned(f) ==
  IF place[f] = "alloc" THEN 1 .. slot[f] - 1
  ELSE IF place[f] = "open" THEN Slots
  ELSE IF place[f] = "free" THEN slot[f] .. 2 * N
  ELSE {}

BuffersHeld ==
  \A f \in Files :
    /\ \A i \in Owned(f) : buf[i] \in DOMAIN mem
    /\ \A i, j \in Owned(f) : buf[i] = buf[j] => i = j

NoneLeaked ==
  failed_opens = 0 =>
    \A b \in DOMAIN mem : \E f \in Files : \E i \in Owned(f) : buf[i] = b

Holding == \E f \in Files : place[f] \in {"alloc", "open"}

ChannelsCounted ==
  /\ IsFiniteSet(requested)
  /\ Cardinality(requested) = failed_opens + (IF Holding THEN 1 ELSE 0)

Resources == AtMostOne /\ ChannelHeld /\ BuffersHeld /\ NoneLeaked /\ ChannelsCounted

Traffic == NoneLost /\ OwnChannel /\ OthersQuiet /\ Balance

Alone == Resources /\ Traffic

SafeFault == fault \notin {"null_dereference", "use_after_free", "double_free"}

(* What no step of a process and no step of the engine changes.            *)
Frame ==
  /\ UNCHANGED <<place, slot, dma_m2m_chan, requested, buf, overlap,
                 failed_opens>>
  /\ DOMAIN mem' = DOMAIN mem

ProcessStep(p) == WriteCall(p) \/ ReadCall(p) \/ Proceed(p) \/ WriteWait(p)

(* No read or write opens, closes or allocates anything ...                *)
LEMMA ProcessFrame ==
  ASSUME NEW p \in Procs, ProcessStep(p)
  PROVE  Frame
BY DEF Frame, ProcessStep, WriteCall, ReadCall, Proceed, WriteFill, SgInit, SgSet,
       WritePrep, WriteSubmit, WriteIssue, WriteWait, WriteSleep, WriteUnmap,
       ReadCompare, ReadReturn, Crash, globals, memory, engine, file, history

(* ... nor does the engine, which moves no process either ...              *)
LEMMA EngineFrame ==
  ASSUME NEW c \in Channels, Engine(c)
  PROVE  Frame /\ UNCHANGED <<pc, call>>
BY DEF Frame, Engine, DmaCopy, DmaEnd, Crash, globals, memory, engine, file,
       history, process

(* ... and what does not leaves the resources as they are.                 *)
LEMMA FrameKeeps ==
  ASSUME Frame, Resources
  PROVE  Resources'
<1>1. \A f \in Files : Owned(f)' = Owned(f)
  BY DEF Frame, Owned, Slots
<1>2. Holding' = Holding
  BY DEF Frame, Holding
<1>3. AtMostOne' /\ ChannelHeld' /\ ChannelsCounted'
  BY <1>2 DEF Frame, Resources, AtMostOne, ChannelHeld, ChannelsCounted
<1>4. BuffersHeld'
  BY <1>1 DEF Frame, Resources, BuffersHeld
<1>5. NoneLeaked'
  BY <1>1 DEF Frame, Resources, NoneLeaked
<1> QED BY <1>3, <1>4, <1>5 DEF Resources

(* The step of one process leaves the others where they are.               *)
LEMMA ProcessCalls ==
  ASSUME NEW p \in Procs, TypeInv, CallsOnOpen, ProcessStep(p)
  PROVE  /\ \A q \in Procs \ {p} : pc'[q] = pc[q] /\ call'[q] = call[q]
         /\ pc'[p] # "idle" =>
              call'[p].file \in Files /\ place[call'[p].file] = "open"
         /\ pc'[p] = "lost" => pc[p] = "lost"
<1>1. pc \in [Procs -> Labels] /\ call \in [Procs -> Calls]
  BY DEF TypeInv, TypeOK
<1>2. pc[p] # "idle" => call[p].file \in Files /\ place[call[p].file] = "open"
  BY DEF CallsOnOpen
<1>3. CASE WriteCall(p) \/ ReadCall(p)
  BY <1>1, <1>3 DEF WriteCall, ReadCall, Goto, NoCall
<1>4. CASE UNCHANGED process
  BY <1>2, <1>4 DEF process
<1>5. CASE /\ WriteFill(p) \/ SgInit(p) \/ SgSet(p) \/ WriteSubmit(p)
             \/ WriteIssue(p) \/ WriteSleep(p) \/ WriteWait(p)
           /\ ~UNCHANGED process
  <2>1. call' = call
    BY <1>5 DEF WriteFill, SgInit, SgSet, WriteSubmit, WriteIssue, WriteSleep,
                WriteWait, Crash
  <2>2. PICK l \in Labels : Goto(p, l) /\ l # "lost" /\ pc[p] # "idle"
    BY <1>5, LabelType
       DEF WriteFill, SgInit, SgSet, WriteSubmit, WriteIssue, WriteSleep,
           WriteWait, Crash
  <2> QED BY <1>1, <1>2, <2>1, <2>2 DEF Goto
<1>6. CASE WritePrep(p) /\ ~UNCHANGED process
  <2>1. call' = [call EXCEPT ![p].chan = dma_m2m_chan,
                             ![p].src = sg[Table[p]].src,
                             ![p].dst = sg[Table[p]].dst]
    BY <1>6 DEF WritePrep, Crash
  <2>2. Goto(p, "submit") /\ pc[p] # "idle"
    BY <1>6 DEF WritePrep, Crash
  <2>3. call'[p].file = call[p].file
    BY <1>1, <2>1 DEF Calls
  <2>4. \A q \in Procs \ {p} : call'[q] = call[q]
    BY <1>1, <2>1
  <2> QED BY <1>1, <1>2, <2>2, <2>3, <2>4 DEF Goto
<1>7. CASE ReadCompare(p) /\ ~UNCHANGED process
  <2>1. call' = call \/ call' = [call EXCEPT ![p].k = call[p].k + 1]
    BY <1>7 DEF ReadCompare, Crash
  <2>2. PICK l \in Labels : Goto(p, l) /\ l # "lost" /\ pc[p] # "idle"
    BY <1>7, LabelType DEF ReadCompare, Crash
  <2>3. call'[p].file = call[p].file
    BY <1>1, <2>1 DEF Calls
  <2>4. \A q \in Procs \ {p} : call'[q] = call[q]
    BY <1>1, <2>1
  <2> QED BY <1>1, <1>2, <2>2, <2>3, <2>4 DEF Goto
<1>8. CASE WriteUnmap(p) \/ ReadReturn(p)
  BY <1>1, <1>8 DEF WriteUnmap, ReadReturn, Goto
<1> QED
  BY <1>3, <1>4, <1>5, <1>6, <1>7, <1>8 DEF ProcessStep, Proceed

(* A process in a call finds a channel that is held.                       *)
LEMMA OnChannel ==
  ASSUME TypeInv, CallsOnOpen, ChannelHeld, NEW p \in Procs, pc[p] # "idle"
  PROVE  /\ dma_m2m_chan \in requested /\ dma_m2m_chan \in Channels
         /\ dma_m2m_chan # NULL
BY SdmaAssumption DEF TypeInv, TypeOK, CallsOnOpen, ChannelHeld

(* The waiting writers can be counted.                                     *)
LEMMA WaitingFinite == IsFiniteSet(Waiting) /\ Cardinality(Waiting) \in Nat
<1>1. Waiting \in SUBSET Procs
  BY DEF Waiting
<1> QED BY <1>1, SdmaAssumption, FS_Subset, FS_CardinalityType

(* So can the completions and the transactions to end.                     *)
LEMMA DueType == TypeInv => Due \in Nat
<1> SUFFICES ASSUME TypeInv PROVE Due \in Nat
  OBVIOUS
<1>1. \A c \in Channels : Len(submitted[c]) \in Nat /\ Len(queue[c]) \in Nat
  <2>1. \A c \in Channels : submitted[c] \in Seq(Transactions)
                             /\ queue[c] \in Seq(Transactions)
    BY DEF TypeInv, TypeOK
  <2> QED BY <2>1, LenProperties
<1> QED BY <1>1 DEF Due, TypeInv, TypeOK

(* Steps that bring no transaction and no completion.                      *)
LEMMA CalmTraffic ==
  ASSUME NEW p \in Procs, TypeInv, CallsOnOpen, Traffic, ProcessStep(p),
         UNCHANGED <<dma_m2m_chan, dma_m2m_ok, submitted, queue>>,
         pc'[p] \in {"issue", "wait", "asleep"} <=>
           pc[p] \in {"issue", "wait", "asleep"},
         pc'[p] = "submit" => call'[p].chan = dma_m2m_chan
  PROVE  Traffic'
<1>1. /\ \A q \in Procs \ {p} : pc'[q] = pc[q] /\ call'[q] = call[q]
      /\ pc'[p] = "lost" => pc[p] = "lost"
  BY ProcessCalls
<1>2. Waiting' = Waiting
  BY <1>1 DEF Waiting
<1>3. Due' = Due
  BY DEF Due
<1> QED
  BY <1>1, <1>2, <1>3
     DEF Traffic, NoneLost, OwnChannel, OthersQuiet, Balance

(* A write that submits waits for one transaction more: the balance        *)
(* holds.                                                                  *)
LEMMA SubmitTraffic ==
  ASSUME NEW p \in Procs, TypeInv, CallsOnOpen, ChannelHeld, Traffic,
         WriteSubmit(p)
  PROVE  Traffic' /\ fault' = fault
<1> DEFINE c == call[p].chan
<1>1. c = dma_m2m_chan /\ c \in requested /\ c \in Channels /\ c # NULL
  BY OnChannel DEF WriteSubmit, Traffic, OwnChannel
<1>2. /\ submitted' = [submitted EXCEPT ![c] = Append(@, Transaction(p))]
      /\ queue' = queue /\ dma_m2m_chan' = dma_m2m_chan
      /\ dma_m2m_ok' = dma_m2m_ok /\ fault' = fault /\ call' = call
      /\ Goto(p, "issue") /\ pc[p] = "submit"
  BY <1>1 DEF WriteSubmit, globals
<1>3. /\ submitted \in [Channels -> Seq(Transactions)]
      /\ submitted[c] \in Seq(Transactions) /\ queue[c] \in Seq(Transactions)
      /\ pc \in [Procs -> Labels] /\ dma_m2m_ok \in Nat
  BY <1>1 DEF TypeInv, TypeOK
<1>4. Transaction(p) \in Transactions
  BY TransactionType
<1> HIDE DEF c
<1>5. Len(submitted'[c]) = Len(submitted[c]) + 1
  BY <1>1, <1>2, <1>3, <1>4, AppendProperties
<1>6. Due' = Due + 1
  <2>1. Len(submitted[c]) \in Nat /\ Len(queue[c]) \in Nat
    BY <1>3, LenProperties
  <2> DEFINE m == Len(submitted[c])
             n == Len(queue[c])
  <2>2. Due = m + n
    BY <1>1 DEF Due
  <2>3. Due' = (m + 1) + n
    BY <1>1, <1>2, <1>5 DEF Due
  <2> HIDE DEF m, n
  <2>4. m \in Nat /\ n \in Nat
    BY <2>1 DEF m, n
  <2> QED BY <2>2, <2>3, <2>4
<1>7. Waiting' = Waiting \union {p} /\ p \notin Waiting
  BY <1>2, <1>3 DEF Waiting, Goto
<1>8. Cardinality(Waiting') = Cardinality(Waiting) + 1
  BY <1>7, WaitingFinite, FS_AddElement
<1>9. Balance'
  BY <1>2, <1>3, <1>6, <1>8, WaitingFinite, DueType DEF Balance, Traffic
<1>10. OthersQuiet'
  BY <1>1, <1>2, <1>3 DEF OthersQuiet, Traffic
<1>11. NoneLost' /\ OwnChannel'
  BY <1>2, <1>3 DEF NoneLost, OwnChannel, Traffic, Goto
<1> QED BY <1>2, <1>9, <1>10, <1>11 DEF Traffic

(* Issuing moves transactions from one queue to the other.                 *)
LEMMA IssueTraffic ==
  ASSUME NEW p \in Procs, TypeInv, CallsOnOpen, ChannelHeld, Traffic,
         WriteIssue(p)
  PROVE  Traffic' /\ fault' = fault
<1> DEFINE c == dma_m2m_chan
<1>1. c \in requested /\ c \in Channels /\ c # NULL
  BY OnChannel DEF WriteIssue
<1>2. /\ queue' = [queue EXCEPT ![c] = @ \o submitted[c]]
      /\ submitted' = [submitted EXCEPT ![c] = <<>>] /\ dma_m2m_chan' = dma_m2m_chan
      /\ dma_m2m_ok' = dma_m2m_ok /\ fault' = fault /\ call' = call
      /\ Goto(p, "wait") /\ pc[p] = "issue"
  BY <1>1 DEF WriteIssue, globals
<1>3. /\ submitted \in [Channels -> Seq(Transactions)]
      /\ queue \in [Channels -> Seq(Transactions)]
      /\ submitted[c] \in Seq(Transactions) /\ queue[c] \in Seq(Transactions)
      /\ pc \in [Procs -> Labels] /\ dma_m2m_ok \in Nat
  BY <1>1 DEF TypeInv, TypeOK
<1>4. /\ Len(queue'[c]) = Len(queue[c]) + Len(submitted[c])
      /\ Len(submitted'[c]) = 0
  BY <1>1, <1>2, <1>3, ConcatProperties, EmptySeq
<1>5. Len(submitted[c]) \in Nat /\ Len(queue[c]) \in Nat
  BY <1>3, LenProperties
<1>6. Due' = Due
  <2> DEFINE m == Len(submitted[c])
             n == Len(queue[c])
  <2>1. m \in Nat /\ n \in Nat
    BY <1>5
  <2>2. Due = m + n
    BY <1>1 DEF Due
  <2>3. Due' = 0 + (n + m)
    BY <1>1, <1>2, <1>4 DEF Due
  <2> HIDE DEF m, n
  <2> QED BY <2>1, <2>2, <2>3
<1>7. Waiting' = Waiting
  BY <1>2, <1>3 DEF Waiting, Goto
<1>8. Balance'
  BY <1>2, <1>6, <1>7 DEF Balance, Traffic
<1>9. OthersQuiet'
  BY <1>1, <1>2, <1>3 DEF OthersQuiet, Traffic
<1>10. NoneLost' /\ OwnChannel'
  BY <1>2, <1>3 DEF NoneLost, OwnChannel, Traffic, Goto
<1> QED BY <1>2, <1>8, <1>9, <1>10 DEF Traffic

(* A writer that stops waiting takes one completion.                       *)
LEMMA WaitTraffic ==
  ASSUME NEW p \in Procs, TypeInv, CallsOnOpen, Traffic, WriteWait(p)
  PROVE  Traffic'
<1>1. /\ dma_m2m_ok' = dma_m2m_ok - 1 /\ dma_m2m_ok > 0
      /\ UNCHANGED <<dma_m2m_chan, submitted, queue, call>>
      /\ Goto(p, "unmap") /\ pc[p] \in {"wait", "asleep"}
  BY DEF WriteWait, engine
<1>2. pc \in [Procs -> Labels] /\ dma_m2m_ok \in Nat
  BY DEF TypeInv, TypeOK
<1>3. Due' = Due
  BY <1>1 DEF Due
<1>4. Waiting' = Waiting \ {p} /\ p \in Waiting
  BY <1>1, <1>2 DEF Waiting, Goto
<1>5. Cardinality(Waiting') = Cardinality(Waiting) - 1
  BY <1>4, WaitingFinite, FS_RemoveElement
<1>6. Balance'
  BY <1>1, <1>2, <1>3, <1>5, WaitingFinite, DueType DEF Balance, Traffic
<1>7. NoneLost' /\ OwnChannel' /\ OthersQuiet'
  BY <1>1, <1>2 DEF NoneLost, OwnChannel, OthersQuiet, Traffic, Goto
<1> QED BY <1>6, <1>7 DEF Traffic

(* A transaction that ends becomes one completion.                         *)
LEMMA EngineTraffic ==
  ASSUME NEW c \in Channels, TypeInv, Traffic, Engine(c)
  PROVE  Traffic'
<1>1. /\ queue \in [Channels -> Seq(Transactions)]
      /\ queue[c] \in Seq(Transactions) /\ submitted[c] \in Seq(Transactions)
      /\ dma_m2m_ok \in Nat
  BY DEF TypeInv, TypeOK
<1>2. queue[c] # <<>> /\ c = dma_m2m_chan /\ c # NULL
  BY SdmaAssumption DEF Engine, DmaCopy, DmaEnd, Traffic, OthersQuiet
<1>3. UNCHANGED <<pc, call, dma_m2m_chan, submitted>>
  BY DEF Engine, DmaCopy, DmaEnd, Crash, process, globals, engine
<1>4. Len(queue[c]) \in Nat /\ Len(submitted[c]) \in Nat
  BY <1>1, LenProperties
<1>5. dma_m2m_ok' + Len(queue'[c]) = dma_m2m_ok + Len(queue[c])
  <2>1. CASE DmaEnd(c)
    <3>1. queue' = [queue EXCEPT ![c] = Tail(@)] /\ dma_m2m_ok' = dma_m2m_ok + 1
      BY <2>1 DEF DmaEnd, dma_m2m_callback
    <3>2. Len(queue'[c]) = Len(queue[c]) - 1
      BY <1>1, <1>2, <3>1, HeadTailProperties
    <3>3. dma_m2m_ok' = dma_m2m_ok + 1
      BY <3>1
    <3> QED BY <1>1, <1>4, <3>2, <3>3
  <2>2. CASE DmaCopy(c)
    <3>1. \/ queue' = queue
          \/ queue' = [queue EXCEPT ![c][1].pos = @ + 1]
      BY <2>2 DEF DmaCopy, Crash, engine
    <3>2. CASE queue' = [queue EXCEPT ![c][1].pos = @ + 1]
      <4>1. DOMAIN queue'[c] = DOMAIN queue[c]
        BY <1>1, <3>2
      <4>2. queue'[c] \in Seq(Transactions')
        BY EngineTyped DEF Engine, TypeInv, TypeOK
      <4>3. Len(queue'[c]) = Len(queue[c])
        BY <1>1, <4>1, <4>2, LenProperties
      <4> QED BY <2>2, <4>3 DEF DmaCopy, Crash, globals
    <3> QED BY <2>2, <3>1, <3>2 DEF DmaCopy, Crash, globals
  <2> QED BY <2>1, <2>2 DEF Engine
<1>6. dma_m2m_ok' \in Nat /\ Len(queue'[c]) \in Nat
  <2>1. TypeInv'
    BY EngineTyped DEF Engine
  <2>2. queue'[c] \in Seq(Transactions') /\ dma_m2m_ok' \in Nat
    BY <2>1 DEF TypeInv, TypeOK
  <2> QED BY <2>2, LenProperties
<1>7. \A e \in Channels \ {c} : queue'[e] = queue[e]
  BY <1>1 DEF Engine, DmaCopy, DmaEnd, Crash, engine
<1>8. Balance'
  <2>1. Waiting' = Waiting
    BY <1>3 DEF Waiting
  <2>2. Due = Len(submitted[c]) + Len(queue[c])
    BY <1>2 DEF Due
  <2>3. Due' = Len(submitted[c]) + Len(queue'[c])
    BY <1>2, <1>3 DEF Due
  <2> DEFINE l == Len(submitted[c])
             m == Len(queue[c])
             n == Len(queue'[c])
             ok2 == dma_m2m_ok'
  <2>4. Cardinality(Waiting) = dma_m2m_ok + (l + m)
    BY <2>2 DEF Balance, Traffic
  <2>5. Cardinality(Waiting) = ok2 + (l + n)
    <3>1. /\ l \in Nat /\ m \in Nat /\ n \in Nat /\ ok2 \in Nat
          /\ ok2 + n = dma_m2m_ok + m /\ dma_m2m_ok \in Nat
      BY <1>1, <1>4, <1>5, <1>6
    <3> HIDE DEF l, m, n, ok2
    <3> QED BY <2>4, <3>1
  <2> QED
    BY <2>1, <2>3, <2>5 DEF Balance
<1>9. NoneLost' /\ OwnChannel' /\ OthersQuiet'
  BY <1>2, <1>3, <1>7 DEF NoneLost, OwnChannel, OthersQuiet, Traffic
<1> QED BY <1>8, <1>9 DEF Traffic
(* While a call is under way, all buffers are allocated ...                *)
LEMMA BuffersLive ==
  ASSUME TypeInv, CallsOnOpen, Resources, NEW p \in Procs, pc[p] # "idle"
  PROVE  /\ \A i \in Slots : buf[i] \in DOMAIN mem /\ buf[i] # NULL
         /\ \A i, j \in Slots : buf[i] = buf[j] => i = j
<1>1. PICK f \in Files : place[f] = "open"
  BY DEF CallsOnOpen
<1>2. Owned(f) = Slots
  BY <1>1 DEF Owned
<1>3. DOMAIN mem \subseteq Nat
  BY DEF TypeInv, TypeOK
<1> QED BY <1>2, <1>3, SdmaAssumption DEF Resources, BuffersHeld

(* ... and the processor may access them.                                  *)
LEMMA Accessible ==
  ASSUME TypeInv, CallsOnOpen, Resources, NEW p \in Procs, pc[p] # "idle",
         NEW bs, \A b \in bs : \E i \in Slots : b = buf[i]
  PROVE  AccessFault(bs) = "none"
BY BuffersLive DEF AccessFault

(* Both buffers of a pair are among the buffers.                           *)
LEMMA PairSlots ==
  \A k \in Pairs : k \in Slots /\ N + k \in Slots
BY SdmaAssumption DEF Pairs, Slots

(* A process in a call uses only what is held.                             *)
LEMMA ProcessSafe ==
  ASSUME NEW p \in Procs, TypeInv, CallsOnOpen, Alone, SafeFault, ProcessStep(p)
  PROVE  SafeFault'
<1>1. CASE WriteFill(p)
  <2>1. AccessFault({buf[k] : k \in Pairs}) = "none"
    BY <1>1, Accessible, PairSlots DEF WriteFill, Alone
  <2> QED BY <1>1, <2>1 DEF WriteFill, SafeFault
<1>2. CASE ReadCompare(p)
  <2>1. call[p].k \in Pairs
    BY <1>2 DEF ReadCompare, TypeInv, CompareInRange
  <2>2. AccessFault({buf[call[p].k], buf[N + call[p].k]}) = "none"
    BY <1>2, <2>1, Accessible, PairSlots DEF ReadCompare, Alone
  <2> QED BY <1>2, <2>2 DEF ReadCompare, SafeFault
<1>3. CASE SgInit(p) \/ WritePrep(p)
  <2>1. dma_m2m_chan # NULL
    BY <1>3, OnChannel DEF SgInit, WritePrep, Alone, Resources
  <2> QED BY <1>3, <2>1 DEF SgInit, WritePrep, SafeFault, Crash
<1>4. CASE WriteSubmit(p)
  BY <1>4, SubmitTraffic DEF SafeFault, Alone, Resources
<1>5. CASE WriteIssue(p)
  BY <1>5, IssueTraffic DEF SafeFault, Alone, Resources
<1>6. CASE WriteCall(p) \/ ReadCall(p) \/ SgSet(p) \/ WriteSleep(p)
           \/ WriteWait(p) \/ WriteUnmap(p) \/ ReadReturn(p)
  BY <1>6
     DEF WriteCall, ReadCall, SgSet, WriteSleep, WriteWait, WriteUnmap,
         ReadReturn, SafeFault
<1> QED
  BY <1>1, <1>2, <1>3, <1>4, <1>5, <1>6 DEF ProcessStep, Proceed

(* Its steps keep the invariant.                                           *)
LEMMA ProcessAlone ==
  ASSUME NEW p \in Procs, TypeInv, CallsOnOpen, Alone, ProcessStep(p)
  PROVE  Alone'
<1>1. Resources'
  BY ProcessFrame, FrameKeeps DEF Alone
<1>2. Traffic /\ ChannelHeld
  BY DEF Alone, Resources
<1>3. CASE WriteSubmit(p) \/ WriteIssue(p) \/ WriteWait(p)
  BY <1>1, <1>2, <1>3, SubmitTraffic, IssueTraffic, WaitTraffic DEF Alone
<1>4. CASE ~(WriteSubmit(p) \/ WriteIssue(p) \/ WriteWait(p))
  <2>1. UNCHANGED <<dma_m2m_chan, dma_m2m_ok, submitted, queue>>
    BY <1>4
       DEF ProcessStep, Proceed, WriteCall, ReadCall, WriteFill, SgInit, SgSet,
           WritePrep, WriteSleep, WriteUnmap, ReadCompare, ReadReturn, Crash,
           globals, engine
  <2>2. pc \in [Procs -> Labels] /\ call \in [Procs -> Calls]
    BY DEF TypeInv, TypeOK
  <2>3. /\ pc'[p] \in {"issue", "wait", "asleep"} <=>
             pc[p] \in {"issue", "wait", "asleep"}
        /\ pc'[p] = "submit" => call'[p].chan = dma_m2m_chan
    <3>1. CASE UNCHANGED process
      BY <1>2, <3>1 DEF process, Traffic, OwnChannel
    <3>2. CASE WritePrep(p) /\ ~UNCHANGED process
      <4>1. call' = [call EXCEPT ![p].chan = dma_m2m_chan,
                                 ![p].src = sg[Table[p]].src,
                                 ![p].dst = sg[Table[p]].dst]
        BY <3>2 DEF WritePrep, Crash
      <4>2. Goto(p, "submit") /\ pc[p] = "prep"
        BY <3>2 DEF WritePrep, Crash
      <4>3. call'[p].chan = dma_m2m_chan
        BY <2>2, <4>1 DEF Calls
      <4> QED BY <2>2, <4>2, <4>3 DEF Goto
    <3>3. CASE ~WritePrep(p) /\ ~UNCHANGED process
      <4>1. PICK l \in Labels \ {"submit"} :
              /\ Goto(p, l)
              /\ l \in {"issue", "wait", "asleep"} <=>
                   pc[p] \in {"issue", "wait", "asleep"}
        <5>1. CASE WriteCall(p) \/ ReadCall(p)
          <6>1. pc[p] = "idle" /\ (Goto(p, "fill") \/ Goto(p, "compare"))
            BY <5>1 DEF WriteCall, ReadCall
          <6> QED BY <6>1, LabelType
        <5>2. CASE WriteFill(p) \/ SgInit(p) \/ SgSet(p)
          BY <3>3, <5>2, LabelType DEF WriteFill, SgInit, SgSet, Crash
        <5>3. CASE WriteSleep(p) \/ WriteUnmap(p) \/ ReadReturn(p)
          BY <5>3, LabelType DEF WriteSleep, WriteUnmap, ReadReturn
        <5>4. CASE ReadCompare(p)
          BY <3>3, <5>4, LabelType DEF ReadCompare, Crash
        <5> QED
          BY <1>4, <3>3, <5>1, <5>2, <5>3, <5>4 DEF ProcessStep, Proceed
      <4> QED BY <2>2, <4>1 DEF Goto
    <3> QED BY <3>1, <3>2, <3>3
  <2> QED BY <1>1, <1>2, <2>1, <2>3, CalmTraffic DEF Alone
<1> QED BY <1>3, <1>4

(* So do the engine's, which works on live buffers.                        *)
LEMMA EngineAlone ==
  ASSUME NEW c \in Channels, TypeInv, CallsOnOpen, Alone, SafeFault, Engine(c)
  PROVE  Alone' /\ SafeFault'
BY EngineFrame, FrameKeeps, EngineTraffic
   DEF Alone, Engine, DmaCopy, DmaEnd, Crash, SafeFault

-----------------------------------------------------------------------------
(* The steps of open and release.                                          *)

OpenOrRelease(f) == OpenStart(f) \/ FileStep(f) \/ ReleaseChannel(f)

(* A file is closed only when no call is in it.                            *)
LEMMA FileCalls ==
  ASSUME NEW f \in Files, TypeInv, CallsOnOpen, OpenOrRelease(f)
  PROVE  CallsOnOpen'
<1>1. \A p \in Procs : pc[p] # "idle" => call[p].file # f
  <2>1. ASSUME NEW p \in Procs, pc[p] # "idle", call[p].file = f
        PROVE  FALSE
    <3>1. place[f] = "open"
      BY <2>1 DEF CallsOnOpen
    <3> QED
      BY <2>1, <3>1
         DEF OpenOrRelease, OpenStart, FileStep, OpenChannel, OpenNoChannel,
             OpenAlloc, OpenNoMemory, ReleaseFree, ReleaseChannel
  <2> QED BY <2>1
<1>2. \A g \in Files \ {f} : place'[g] = place[g]
  BY DEF OpenOrRelease, OpenStart, FileStep, OpenChannel, OpenNoChannel,
         OpenAlloc, OpenNoMemory, ReleaseFree, ReleaseChannel, NextSlot, Crash,
         TypeInv, TypeOK, file
<1>3. /\ call' = call
      /\ \A p \in Procs : pc'[p] # "idle" => pc[p] # "idle"
  BY DEF OpenOrRelease, OpenStart, FileStep, OpenChannel, OpenNoChannel,
         OpenAlloc, OpenNoMemory, ReleaseFree, ReleaseChannel, Crash, process
<1> QED BY <1>1, <1>2, <1>3 DEF CallsOnOpen

(* While a file is on its way to open or to closed, alone, no call is      *)
(* under way, and then nothing is left in the engine or the completion.    *)
LEMMA Quiet ==
  ASSUME NEW f \in Files, TypeInv, CallsOnOpen, Alone, OpenOrRelease(f), ~overlap'
  PROVE  /\ ~overlap
         /\ \A g \in Files \ {f} : place[g] = "closed"
         /\ \A p \in Procs : pc[p] = "idle"
         /\ dma_m2m_ok = 0
         /\ \A c \in Channels : submitted[c] = <<>> /\ queue[c] = <<>>
<1>1. /\ ~overlap
      /\ \A g \in Files \ {f} : place[g] = "closed"
  BY DEF OpenOrRelease, OpenStart, FileStep, OpenChannel, OpenNoChannel,
         OpenAlloc, OpenNoMemory, ReleaseFree, ReleaseChannel, Crash, history,
         Alone, Resources, AtMostOne
<1>2. \A p \in Procs : pc[p] = "idle"
  <2>1. \A p \in Procs : pc[p] # "idle" => call[p].file = f /\ place[f] = "open"
    BY <1>1 DEF CallsOnOpen
  <2> QED
    BY <2>1
       DEF OpenOrRelease, OpenStart, FileStep, OpenChannel, OpenNoChannel,
           OpenAlloc, OpenNoMemory, ReleaseFree, ReleaseChannel
<1>3. Waiting = {}
  BY <1>2 DEF Waiting
<1>4. dma_m2m_ok = 0 /\ Due = 0
  <2>1. dma_m2m_ok + Due = 0
    BY <1>3, FS_EmptySet DEF Alone, Traffic, Balance
  <2> QED BY <2>1, DueType DEF TypeInv, TypeOK
<1>5. ASSUME NEW c \in Channels
      PROVE  submitted[c] = <<>> /\ queue[c] = <<>>
  <2>1. CASE c # dma_m2m_chan
    BY <2>1 DEF Alone, Traffic, OthersQuiet
  <2>2. CASE c = dma_m2m_chan
    <3> DEFINE l == Len(submitted[c])
               m == Len(queue[c])
    <3>1. submitted[c] \in Seq(Transactions) /\ queue[c] \in Seq(Transactions)
      BY DEF TypeInv, TypeOK
    <3>2. l \in Nat /\ m \in Nat
      BY <3>1, LenProperties
    <3>3. l + m = 0
      BY <1>4, <2>2, SdmaAssumption DEF Due
    <3>4. l = 0 /\ m = 0
      <4> HIDE DEF l, m
      <4> QED BY <3>2, <3>3
    <3> QED BY <3>1, <3>4, EmptySeq
  <2> QED BY <2>1, <2>2
<1> QED BY <1>1, <1>2, <1>4, <1>5
(* Nothing is under way, so the traffic is as it should be.                *)
LEMMA QuietTraffic ==
  ASSUME \A p \in Procs : pc'[p] = "idle", dma_m2m_ok' = 0,
         \A c \in Channels : submitted'[c] = <<>> /\ queue'[c] = <<>>,
         dma_m2m_chan' \in Channels \union {NULL}
  PROVE  Traffic'
<1>1. Waiting' = {}
  BY DEF Waiting
<1>2. Due' = 0
  <2>1. dma_m2m_chan' # NULL =>
          /\ dma_m2m_chan' \in Channels
          /\ submitted'[dma_m2m_chan'] = <<>> /\ queue'[dma_m2m_chan'] = <<>>
    OBVIOUS
  <2>2. Len(<<>>) = 0
    BY EmptySeq
  <2>3. dma_m2m_chan' # NULL => Due' = 0 + 0
    BY <2>1, <2>2 DEF Due
  <2>4. dma_m2m_chan' = NULL => Due' = 0
    BY DEF Due
  <2> QED BY <2>3, <2>4
<1>3. Balance'
  BY <1>1, <1>2, FS_EmptySet DEF Balance
<1> QED BY <1>3 DEF Traffic, NoneLost, OwnChannel, OthersQuiet

(* Only f may be open or on its way; what it owns afterwards is what the   *)
(* resources are.                                                          *)
LEMMA ResourcesOf ==
  ASSUME NEW f \in Files,
         \A g \in Files \ {f} : place'[g] = "closed",
         place'[f] \in {"alloc", "open"} =>
           dma_m2m_chan' \in requested',
         \A i \in Owned(f)' : buf'[i] \in DOMAIN mem',
         \A i, j \in Owned(f)' : buf'[i] = buf'[j] => i = j,
         failed_opens' = 0 =>
           \A b \in DOMAIN mem' : \E i \in Owned(f)' : buf'[i] = b,
         IsFiniteSet(requested'),
         Cardinality(requested') =
           failed_opens' + (IF place'[f] \in {"alloc", "open"} THEN 1 ELSE 0)
  PROVE  Resources'
<1>1. \A g \in Files \ {f} : Owned(g)' = {}
  BY DEF Owned
<1>2. AtMostOne' /\ ChannelHeld'
  BY DEF AtMostOne, ChannelHeld
<1>3. BuffersHeld'
  BY <1>1 DEF BuffersHeld
<1>4. NoneLeaked'
  BY DEF NoneLeaked
<1>5. Holding' <=> place'[f] \in {"alloc", "open"}
  BY DEF Holding
<1>6. ChannelsCounted'
  BY <1>5 DEF ChannelsCounted
<1> QED BY <1>2, <1>3, <1>4, <1>6 DEF Resources

(* An open that begins finds nothing held and nothing under way.           *)
LEMMA OpenStartAlone ==
  ASSUME NEW f \in Files, TypeInv, CallsOnOpen, Alone, OpenStart(f), ~overlap'
  PROVE  Alone'
<1>1. /\ \A g \in Files \ {f} : place[g] = "closed"
      /\ \A p \in Procs : pc[p] = "idle"
      /\ \A c \in Channels : submitted[c] = <<>> /\ queue[c] = <<>>
  BY Quiet DEF OpenOrRelease
<1>2. /\ place[f] = "closed" /\ place' = [place EXCEPT ![f] = "channel"]
      /\ dma_m2m_ok' = 0
      /\ pc' = [p \in Procs |-> IF pc[p] = "asleep" THEN "lost" ELSE pc[p]]
      /\ UNCHANGED <<dma_m2m_chan, buf, mem, requested, submitted, queue,
                     failed_opens>>
  BY DEF OpenStart, memory, engine
<1>3. \A g \in Files : Owned(g) = {}
  BY <1>1, <1>2 DEF Owned
<1>4. /\ \A g \in Files \ {f} : place'[g] = "closed"
      /\ place'[f] = "channel"
  BY <1>1, <1>2 DEF TypeInv, TypeOK
<1>5. Resources'
  <2>1. failed_opens' = 0 => DOMAIN mem' = {}
    BY <1>2, <1>3 DEF Alone, Resources, NoneLeaked
  <2>2. Owned(f)' = {}
    BY <1>4 DEF Owned
  <2>3. ~Holding
    BY <1>1, <1>2 DEF Holding
  <2>4. IsFiniteSet(requested') /\ Cardinality(requested') = failed_opens' + 0
    BY <1>2, <2>3 DEF Alone, Resources, ChannelsCounted
  <2> QED BY <1>4, <2>1, <2>2, <2>4, ResourcesOf
<1>6. Traffic'
  <2>1. \A p \in Procs : pc'[p] = "idle"
    BY <1>1, <1>2
  <2> QED BY <1>1, <1>2, <2>1, QuietTraffic DEF TypeInv, TypeOK
<1> QED BY <1>5, <1>6 DEF Alone

(* It then holds a channel, or has failed.                                 *)
LEMMA OpenChannelAlone ==
  ASSUME NEW f \in Files, TypeInv, CallsOnOpen, Alone, ~overlap',
         OpenChannel(f) \/ OpenNoChannel(f)
  PROVE  Alone'
<1>1. /\ \A g \in Files \ {f} : place[g] = "closed"
      /\ \A p \in Procs : pc[p] = "idle"
      /\ dma_m2m_ok = 0
      /\ \A c \in Channels : submitted[c] = <<>> /\ queue[c] = <<>>
  BY Quiet DEF OpenOrRelease, FileStep
<1>2. /\ place[f] = "channel"
      /\ UNCHANGED <<dma_m2m_ok, pc, buf, mem, submitted, queue, failed_opens>>
  BY DEF OpenChannel, OpenNoChannel, memory, engine, process, history
<1>3. \/ /\ dma_m2m_chan' = NULL /\ requested' = requested
         /\ place' = [place EXCEPT ![f] = "closed"]
      \/ /\ dma_m2m_chan' \in Channels \ requested
         /\ requested' = requested \union {dma_m2m_chan'}
         /\ place' = [place EXCEPT ![f] = "alloc"]
         /\ slot' = [slot EXCEPT ![f] = 1]
  BY DEF OpenChannel, OpenNoChannel, engine
<1>4. \A g \in Files : Owned(g) = {}
  BY <1>1, <1>2 DEF Owned
<1>5. /\ \A g \in Files \ {f} : place'[g] = "closed"
      /\ place'[f] = "closed" \/ (place'[f] = "alloc" /\ slot'[f] = 1)
  BY <1>1, <1>3 DEF TypeInv, TypeOK
<1>6. Resources'
  <2>1. failed_opens' = 0 => DOMAIN mem' = {}
    BY <1>2, <1>4 DEF Alone, Resources, NoneLeaked
  <2>2. Owned(f)' = {}
    BY <1>5 DEF Owned
  <2>3. ~Holding
    BY <1>1, <1>2 DEF Holding
  <2>4. IsFiniteSet(requested) /\ Cardinality(requested) = failed_opens
    BY <2>3 DEF Alone, Resources, ChannelsCounted, TypeInv, TypeOK
  <2>5. /\ IsFiniteSet(requested')
        /\ Cardinality(requested') =
             failed_opens' + (IF place'[f] \in {"alloc", "open"} THEN 1 ELSE 0)
    <3>1. CASE place'[f] = "closed"
      <4>1. requested' = requested
        BY <1>3, <3>1 DEF TypeInv, TypeOK
      <4> QED BY <1>2, <2>4, <3>1, <4>1 DEF TypeInv, TypeOK
    <3>2. CASE place'[f] = "alloc"
      <4>1. requested' = requested \union {dma_m2m_chan'}
            /\ dma_m2m_chan' \notin requested
        BY <1>3, <3>2 DEF TypeInv, TypeOK
      <4> QED BY <1>2, <2>4, <3>2, <4>1, FS_AddElement
    <3> QED BY <1>5, <3>1, <3>2
  <2>6. place'[f] \in {"alloc", "open"} => dma_m2m_chan' \in requested'
    BY <1>3 DEF TypeInv, TypeOK
  <2> QED BY <1>5, <2>1, <2>2, <2>5, <2>6, ResourcesOf
<1>7. Traffic'
  BY <1>1, <1>2, <1>3, QuietTraffic
<1> QED BY <1>6, <1>7 DEF Alone

(* It then holds a buffer more, and after the last one is open.            *)
LEMMA OpenAllocAlone ==
  ASSUME NEW f \in Files, TypeInv, CallsOnOpen, Alone, ~overlap', OpenAlloc(f)
  PROVE  Alone'
<1> DEFINE i == slot[f]
           b == allocated'
<1>1. /\ \A g \in Files \ {f} : place[g] = "closed"
      /\ \A p \in Procs : pc[p] = "idle"
      /\ dma_m2m_ok = 0
      /\ \A c \in Channels : submitted[c] = <<>> /\ queue[c] = <<>>
  BY Quiet DEF OpenOrRelease, FileStep
<1>2. /\ place[f] = "alloc"
      /\ UNCHANGED <<dma_m2m_chan, dma_m2m_ok, pc, requested, submitted, queue,
                     failed_opens>>
      /\ b = allocated + 1
      /\ DOMAIN mem' = DOMAIN mem \union {b}
      /\ buf' = [buf EXCEPT ![i] = b]
      /\ NextSlot(f, "open")
  BY DEF OpenAlloc, engine, process
<1>3. /\ buf \in [Slots -> Pointer] /\ i \in Slots
      /\ allocated \in Nat /\ DOMAIN mem \subseteq 1 .. allocated
      /\ place \in [Files -> {"closed", "channel", "alloc", "open", "free"}]
      /\ slot \in [Files -> Slots]
  BY DEF TypeInv, TypeOK
<1>4. Owned(f) = 1 .. i - 1
  BY <1>2 DEF Owned
<1>5. /\ \A g \in Files \ {f} : place'[g] = "closed"
      /\ place'[f] \in {"alloc", "open"}
      /\ Owned(f)' = 1 .. i
  <2>1. CASE i = 2 * N
    BY <1>1, <1>2, <1>3, <2>1 DEF NextSlot, Owned, Slots
  <2>2. CASE i # 2 * N
    <3>1. place' = place /\ slot' = [slot EXCEPT ![f] = i + 1]
      BY <1>2, <2>2 DEF NextSlot
    <3>2. (i + 1) - 1 = i
      BY <1>3, SdmaAssumption DEF Slots
    <3> QED BY <1>1, <1>2, <1>3, <3>1, <3>2 DEF Owned
  <2> QED BY <2>1, <2>2
<1>6. b \notin DOMAIN mem
  BY <1>2, <1>3
<1>7. 1 .. i = (1 .. i - 1) \union {i} /\ i \notin 1 .. i - 1 /\ 1 .. i \subseteq Slots
  BY <1>3, SdmaAssumption DEF Slots
<1>8. /\ \A j \in 1 .. i - 1 : buf'[j] = buf[j]
      /\ buf'[i] = b
  BY <1>2, <1>3, <1>7
<1>9. Resources'
  <2> HIDE DEF i, b
  <2>1. /\ \A j \in 1 .. i - 1 : buf[j] \in DOMAIN mem
        /\ \A j, k \in 1 .. i - 1 : buf[j] = buf[k] => j = k
    BY <1>4 DEF Alone, Resources, BuffersHeld
  <2>2. \A j \in Owned(f)' : buf'[j] \in DOMAIN mem'
    BY <1>2, <1>5, <1>7, <1>8, <2>1
  <2>3. \A j, k \in Owned(f)' : buf'[j] = buf'[k] => j = k
    BY <1>5, <1>6, <1>7, <1>8, <2>1
  <2>4. failed_opens' = 0 =>
          \A a \in DOMAIN mem' : \E j \in Owned(f)' : buf'[j] = a
    <3>1. failed_opens = 0 =>
            \A a \in DOMAIN mem : \E j \in 1 .. i - 1 : buf[j] = a
      <4>1. \A g \in Files \ {f} : Owned(g) = {}
        BY <1>1 DEF Owned
      <4> QED BY <1>4, <4>1 DEF Alone, Resources, NoneLeaked
    <3> QED BY <1>2, <1>5, <1>7, <1>8, <3>1
  <2>5. dma_m2m_chan' \in requested'
    BY <1>2 DEF Alone, Resources, ChannelHeld
  <2>6. /\ IsFiniteSet(requested')
        /\ Cardinality(requested') = failed_opens' + 1
    BY <1>2 DEF Alone, Resources, ChannelsCounted, Holding
  <2> QED BY <1>5, <2>2, <2>3, <2>4, <2>5, <2>6, ResourcesOf
<1>10. Traffic'
  BY <1>1, <1>2, QuietTraffic DEF TypeInv, TypeOK
<1> QED BY <1>9, <1>10 DEF Alone

(* A failure gives back the buffers, not the channel, which is counted.    *)
LEMMA OpenNoMemoryAlone ==
  ASSUME NEW f \in Files, TypeInv, CallsOnOpen, Alone, ~overlap', OpenNoMemory(f)
  PROVE  Alone'
<1>1. /\ \A g \in Files \ {f} : place[g] = "closed"
      /\ \A p \in Procs : pc[p] = "idle"
      /\ dma_m2m_ok = 0
      /\ \A c \in Channels : submitted[c] = <<>> /\ queue[c] = <<>>
  BY Quiet DEF OpenOrRelease, FileStep
<1>2. /\ place[f] = "alloc" /\ place' = [place EXCEPT ![f] = "closed"]
      /\ UNCHANGED <<dma_m2m_chan, dma_m2m_ok, pc, requested, submitted, queue>>
      /\ failed_opens' = failed_opens + 1
  BY DEF OpenNoMemory, engine, process
<1>3. place'[f] = "closed" /\ \A g \in Files \ {f} : place'[g] = "closed"
  BY <1>1, <1>2 DEF TypeInv, TypeOK
<1>4. Resources'
  <2>1. Owned(f)' = {}
    BY <1>3 DEF Owned
  <2>2. failed_opens \in Nat /\ failed_opens' # 0
    BY <1>2 DEF TypeInv, TypeOK
  <2>3. IsFiniteSet(requested) /\ Cardinality(requested) = failed_opens + 1
    BY <1>2 DEF Alone, Resources, ChannelsCounted, Holding
  <2>4. IsFiniteSet(requested') /\ Cardinality(requested') = failed_opens' + 0
    BY <1>2, <2>2, <2>3
  <2> QED BY <1>3, <2>1, <2>2, <2>4, ResourcesOf
<1>5. Traffic'
  BY <1>1, <1>2, QuietTraffic DEF TypeInv, TypeOK
<1> QED BY <1>4, <1>5 DEF Alone

(* A release finds no transaction left, by the balance.                    *)
LEMMA ReleaseChannelAlone ==
  ASSUME NEW f \in Files, TypeInv, CallsOnOpen, Alone, ~overlap',
         ReleaseChannel(f)
  PROVE  Alone' /\ fault' = fault
<1> DEFINE c == dma_m2m_chan
<1>1. /\ \A g \in Files \ {f} : place[g] = "closed"
      /\ \A p \in Procs : pc[p] = "idle"
      /\ dma_m2m_ok = 0
      /\ \A e \in Channels : submitted[e] = <<>> /\ queue[e] = <<>>
  BY Quiet DEF OpenOrRelease
<1>2. place[f] = "open" /\ c \in requested /\ c \in Channels /\ c # NULL
  BY SdmaAssumption
     DEF ReleaseChannel, Alone, Resources, ChannelHeld, TypeInv, TypeOK
<1>3. /\ requested' = requested \ {c} /\ dma_m2m_chan' = NULL
      /\ submitted' = [submitted EXCEPT ![c] = <<>>]
      /\ \E running \in {queue[c], <<>>} : queue' = [queue EXCEPT ![c] = running]
      /\ place' = [place EXCEPT ![f] = "free"] /\ slot' = [slot EXCEPT ![f] = 1]
      /\ UNCHANGED <<dma_m2m_ok, buf, mem, pc, failed_opens, fault>>
  BY <1>2 DEF ReleaseChannel, memory, process, history
<1>4. /\ place'[f] = "free" /\ slot'[f] = 1
      /\ \A g \in Files \ {f} : place'[g] = "closed"
  BY <1>1, <1>3 DEF TypeInv, TypeOK
<1>5. Owned(f)' = Owned(f)
  BY <1>2, <1>4 DEF Owned, Slots
<1>6. Resources'
  <2>1. /\ \A i \in Owned(f) : buf[i] \in DOMAIN mem
        /\ \A i, j \in Owned(f) : buf[i] = buf[j] => i = j
    BY DEF Alone, Resources, BuffersHeld
  <2>2. failed_opens = 0 =>
          \A b \in DOMAIN mem : \E i \in Owned(f) : buf[i] = b
    <3>1. \A g \in Files \ {f} : Owned(g) = {}
      BY <1>1 DEF Owned
    <3> QED BY <3>1 DEF Alone, Resources, NoneLeaked
  <2>3. IsFiniteSet(requested) /\ Cardinality(requested) = failed_opens + 1
    BY <1>2 DEF Alone, Resources, ChannelsCounted, Holding
  <2>4. IsFiniteSet(requested') /\ Cardinality(requested') = failed_opens' + 0
    <3>1. /\ IsFiniteSet(requested \ {c})
          /\ Cardinality(requested \ {c}) = Cardinality(requested) - 1
      BY <1>2, <2>3, FS_RemoveElement
    <3>2. failed_opens \in Nat /\ (failed_opens + 1) - 1 = failed_opens + 0
      BY DEF TypeInv, TypeOK
    <3> QED BY <1>3, <2>3, <3>1, <3>2
  <2>5. /\ \A i \in Owned(f)' : buf'[i] \in DOMAIN mem'
        /\ \A i, j \in Owned(f)' : buf'[i] = buf'[j] => i = j
    BY <1>3, <1>5, <2>1
  <2>6. failed_opens' = 0 =>
          \A b \in DOMAIN mem' : \E i \in Owned(f)' : buf'[i] = b
    BY <1>3, <1>5, <2>2
  <2>7. Cardinality(requested') =
          failed_opens' + (IF place'[f] \in {"alloc", "open"} THEN 1 ELSE 0)
    BY <1>4, <2>4
  <2>8. place'[f] \notin {"alloc", "open"}
    BY <1>4
  <2> HIDE DEF c
  <2> QED BY <1>4, <2>4, <2>5, <2>6, <2>7, <2>8, ResourcesOf
<1>7. Traffic'
  <2>1. \A e \in Channels : submitted'[e] = <<>> /\ queue'[e] = <<>>
    BY <1>1, <1>2, <1>3 DEF TypeInv, TypeOK
  <2> QED BY <1>1, <1>3, <2>1, QuietTraffic
<1> QED BY <1>3, <1>6, <1>7 DEF Alone

(* It then frees one buffer after the other, none twice.                   *)
LEMMA ReleaseFreeAlone ==
  ASSUME NEW f \in Files, TypeInv, CallsOnOpen, Alone, ~overlap',
         ReleaseFree(f)
  PROVE  Alone' /\ fault' = fault
<1> DEFINE i == slot[f]
<1>1. /\ \A g \in Files \ {f} : place[g] = "closed"
      /\ \A p \in Procs : pc[p] = "idle"
      /\ dma_m2m_ok = 0
      /\ \A c \in Channels : submitted[c] = <<>> /\ queue[c] = <<>>
  BY Quiet DEF OpenOrRelease, FileStep
<1>2. /\ place \in [Files -> {"closed", "channel", "alloc", "open", "free"}]
      /\ slot \in [Files -> Slots] /\ i \in Slots
  BY DEF TypeInv, TypeOK
<1>3. place[f] = "free" /\ Owned(f) = i .. 2 * N
  BY DEF ReleaseFree, Owned
<1>4. i .. 2 * N = (i + 1 .. 2 * N) \union {i} /\ i \notin i + 1 .. 2 * N
  BY <1>2, SdmaAssumption DEF Slots
<1>5. /\ \A j \in Owned(f) : buf[j] \in DOMAIN mem
      /\ \A j, k \in Owned(f) : buf[j] = buf[k] => j = k
  BY DEF Alone, Resources, BuffersHeld
<1>6. /\ mem' = Restrict(mem, DOMAIN mem \ {buf[i]})
      /\ NextSlot(f, "closed")
      /\ UNCHANGED <<dma_m2m_chan, dma_m2m_ok, buf, requested, submitted, queue,
                     pc, failed_opens, fault>>
  <2>1. buf[i] \in DOMAIN mem
    BY <1>3, <1>4, <1>5
  <2> QED BY <2>1 DEF ReleaseFree, globals, engine, process, history
<1>7. DOMAIN mem' = DOMAIN mem \ {buf[i]}
  BY <1>6 DEF Restrict
<1>8. /\ \A g \in Files \ {f} : place'[g] = "closed"
      /\ place'[f] \in {"free", "closed"}
      /\ Owned(f)' = i + 1 .. 2 * N
  <2>1. CASE i = 2 * N
    <3>1. place' = [place EXCEPT ![f] = "closed"]
      BY <1>6, <2>1 DEF NextSlot
    <3>2. i + 1 .. 2 * N = {}
      BY <2>1, SdmaAssumption
    <3>3. place'[f] = "closed"
      BY <1>2, <3>1
    <3>4. Owned(f)' = {}
      BY <3>3 DEF Owned
    <3> QED BY <1>1, <1>2, <3>1, <3>2, <3>3, <3>4
  <2>2. CASE i # 2 * N
    <3>1. place' = place /\ slot' = [slot EXCEPT ![f] = i + 1]
      BY <1>6, <2>2 DEF NextSlot
    <3>2. slot'[f] = i + 1 /\ place'[f] = "free"
      BY <1>2, <1>3, <3>1
    <3> QED BY <1>1, <3>1, <3>2 DEF Owned
  <2> QED BY <2>1, <2>2
<1>9. Resources'
  <2> HIDE DEF i
  <2>1. \A j \in Owned(f)' : buf'[j] \in DOMAIN mem'
    BY <1>3, <1>4, <1>5, <1>6, <1>7, <1>8
  <2>2. \A j, k \in Owned(f)' : buf'[j] = buf'[k] => j = k
    BY <1>3, <1>4, <1>5, <1>6, <1>8
  <2>3. failed_opens' = 0 =>
          \A a \in DOMAIN mem' : \E j \in Owned(f)' : buf'[j] = a
    <3>1. failed_opens = 0 =>
            \A a \in DOMAIN mem : \E j \in Owned(f) : buf[j] = a
      <4>1. \A g \in Files \ {f} : Owned(g) = {}
        BY <1>1 DEF Owned
      <4> QED BY <4>1 DEF Alone, Resources, NoneLeaked
    <3> QED BY <1>3, <1>4, <1>6, <1>7, <1>8, <3>1
  <2>4. IsFiniteSet(requested') /\ Cardinality(requested') = failed_opens' + 0
    <3>1. ~Holding
      BY <1>1, <1>3 DEF Holding
    <3> QED BY <1>6, <3>1 DEF Alone, Resources, ChannelsCounted
  <2> QED BY <1>8, <2>1, <2>2, <2>3, <2>4, ResourcesOf
<1>10. Traffic'
  BY <1>1, <1>6, QuietTraffic DEF TypeInv, TypeOK
<1> QED BY <1>6, <1>9, <1>10 DEF Alone

-----------------------------------------------------------------------------
(* The inductive invariant: while no two files have been open at once, the *)
(* device has one owner, which holds one channel and the buffers it has    *)
(* allocated, and the writes of its file account for all the traffic.      *)
AloneInv ==
  /\ Typed /\ CallsOnOpen
  /\ ~overlap => Alone /\ SafeFault

(* Nothing is held initially.                                              *)
LEMMA InitAlone == Init => AloneInv
<1> SUFFICES ASSUME Init PROVE AloneInv
  OBVIOUS
<1>1. Typed /\ CallsOnOpen /\ SafeFault
  BY InitTyped DEF Typed, Init, CallsOnOpen, SafeFault
<1>2. Waiting = {} /\ Due = 0
  BY DEF Init, Waiting, Due
<1>3. Traffic
  BY <1>2, FS_EmptySet DEF Init, Traffic, NoneLost, OwnChannel, OthersQuiet,
                           Balance
<1>4. \A f \in Files : Owned(f) = {} /\ ~Holding
  BY DEF Init, Owned, Holding
<1>5. DOMAIN mem = {}
  BY DEF Init
<1>6. ChannelsCounted
  BY FS_EmptySet DEF Init, ChannelsCounted, Holding
<1>7. Resources
  BY <1>4, <1>5, <1>6
     DEF Resources, AtMostOne, ChannelHeld, BuffersHeld, NoneLeaked, Init
<1> QED BY <1>1, <1>3, <1>7 DEF AloneInv, Alone

(* Calls are in files that are open.                                       *)
LEMMA StepCalls ==
  ASSUME TypeInv, CallsOnOpen, [Next]_vars
  PROVE  CallsOnOpen'
<1>1. CASE UNCHANGED vars
  BY <1>1 DEF vars, file, process, CallsOnOpen
<1>2. ASSUME NEW f \in Files, OpenOrRelease(f)
      PROVE  CallsOnOpen'
  BY <1>2, FileCalls
<1>3. ASSUME NEW p \in Procs, ProcessStep(p)
      PROVE  CallsOnOpen'
  BY <1>3, ProcessCalls, ProcessFrame DEF Frame, CallsOnOpen
<1>4. ASSUME NEW c \in Channels, Engine(c)
      PROVE  CallsOnOpen'
  BY <1>4, EngineFrame DEF Frame, CallsOnOpen
<1> QED
  BY <1>1, <1>2, <1>3, <1>4
     DEF Next, Request, Step, OpenOrRelease, ProcessStep

(* Every step of an open or release keeps the invariant.                   *)
LEMMA FileAlone ==
  ASSUME NEW f \in Files, TypeInv, CallsOnOpen, Alone, SafeFault, ~overlap',
         OpenOrRelease(f)
  PROVE  Alone' /\ SafeFault'
<1>1. CASE ReleaseChannel(f) \/ ReleaseFree(f)
  BY <1>1, ReleaseChannelAlone, ReleaseFreeAlone DEF SafeFault
<1>2. CASE OpenStart(f) \/ OpenChannel(f) \/ OpenNoChannel(f) \/ OpenAlloc(f)
           \/ OpenNoMemory(f)
  <2>1. fault' = fault
    BY <1>2 DEF OpenStart, OpenChannel, OpenNoChannel, OpenAlloc, OpenNoMemory
  <2> QED
    BY <1>2, <2>1, OpenStartAlone, OpenChannelAlone, OpenAllocAlone,
       OpenNoMemoryAlone DEF SafeFault
<1> QED BY <1>1, <1>2 DEF OpenOrRelease, FileStep

(* Every step keeps it while no second file is open.                       *)
LEMMA StepAlone == AloneInv /\ [Next]_vars => AloneInv'
<1> SUFFICES ASSUME AloneInv, [Next]_vars PROVE AloneInv'
  OBVIOUS
<1>1. TypeInv /\ Typed /\ CallsOnOpen
  BY DEF AloneInv, Typed
<1>2. Typed' /\ CallsOnOpen'
  BY <1>1, StepTyped, StepCalls
<1>3. ASSUME ~overlap', ~overlap => Alone /\ SafeFault
      PROVE  Alone' /\ SafeFault'
  <2>1. ASSUME NEW f \in Files, OpenOrRelease(f)
        PROVE  Alone' /\ SafeFault'
    <3>1. ~overlap
      BY <1>3, <2>1
         DEF OpenOrRelease, OpenStart, FileStep, OpenChannel, OpenNoChannel,
             OpenAlloc, OpenNoMemory, ReleaseFree, ReleaseChannel, Crash,
             history
    <3> QED BY <1>1, <1>3, <2>1, <3>1, FileAlone
  <2>2. ASSUME NEW p \in Procs, ProcessStep(p)
        PROVE  Alone' /\ SafeFault'
    BY <1>1, <1>3, <2>2, ProcessFrame, ProcessSafe, ProcessAlone DEF Frame
  <2>3. ASSUME NEW c \in Channels, Engine(c)
        PROVE  Alone' /\ SafeFault'
    BY <1>1, <1>3, <2>3, EngineFrame, EngineAlone DEF Frame
  <2>4. CASE UNCHANGED vars
    <3>1. UNCHANGED overlap /\ UNCHANGED fault
      BY <2>4 DEF vars, history
    <3>2. Resources'
      BY <1>3, <2>4, <3>1, FrameKeeps
         DEF Frame, vars, globals, memory, engine, file, history, Alone
    <3>3. Waiting' = Waiting /\ Due' = Due
      BY <2>4 DEF vars, globals, engine, process, Waiting, Due
    <3>4. Traffic'
      BY <1>3, <2>4, <3>1, <3>3
         DEF vars, globals, engine, process, Alone, Traffic, NoneLost,
             OwnChannel, OthersQuiet, Balance
    <3> QED BY <1>3, <3>1, <3>2, <3>4 DEF Alone, SafeFault
  <2> QED
    BY <2>1, <2>2, <2>3, <2>4
       DEF Next, Request, Step, OpenOrRelease, ProcessStep
<1> QED BY <1>2, <1>3 DEF AloneInv

(* It holds in every reachable state.                                      *)
LEMMA AlwaysAlone == Spec => []AloneInv
BY InitAlone, StepAlone, PTL DEF Spec

(* With one file open at a time, the drivers touch no freed block, free    *)
(* none twice and dereference no null channel or buffer, however many      *)
(* threads share the file and however many opens fail half way.            *)
THEOREM ExclusiveCorrect == Spec => []ExclusiveIsMemorySafe
<1>1. AloneInv => ExclusiveIsMemorySafe
  BY DEF AloneInv, SafeFault, ExclusiveIsMemorySafe
<1> QED BY <1>1, AlwaysAlone, PTL

(* With one file open at a time, release gives back everything, and each   *)
(* open that fails for lack of memory keeps exactly one channel.           *)
THEOREM LeaksCounted == Spec => []LeakAccounting
<1>1. AloneInv => LeakAccounting
  <2> SUFFICES ASSUME AloneInv, ~overlap, \A f \in Files : place[f] = "closed"
               PROVE  /\ Cardinality(requested) = failed_opens
                      /\ failed_opens = 0 => DOMAIN mem = {}
    BY DEF LeakAccounting
  <2>1. Resources /\ failed_opens \in Nat
    BY DEF AloneInv, Alone, Typed, TypeInv, TypeOK
  <2>2. ~Holding /\ \A f \in Files : Owned(f) = {}
    BY DEF Holding, Owned
  <2>3. Cardinality(requested) = failed_opens
    BY <2>1, <2>2 DEF Resources, ChannelsCounted
  <2>4. failed_opens = 0 => DOMAIN mem = {}
    BY <2>1, <2>2 DEF Resources, NoneLeaked
  <2> QED BY <2>3, <2>4
<1> QED BY <1>1, AlwaysAlone, PTL

(* The transactions not ended are on the current channel.                  *)
LEMMA UnfinishedDue ==
  ASSUME Typed, OthersQuiet
  PROVE  Cardinality(Unfinished) = Due
<1> DEFINE c == dma_m2m_chan
           Ended(e) == 1 .. Len(submitted[e]) + Len(queue[e])
<1>1. \A e \in Channels : e # c => Ended(e) = {}
  <2>1. Len(<<>>) = 0
    BY EmptySeq
  <2>2. 1 .. 0 + 0 = {}
    OBVIOUS
  <2> QED BY <2>1, <2>2 DEF OthersQuiet
<1>2. CASE c = NULL
  <2>1. Unfinished = {}
    <3>1. \A e \in Channels : Ended(e) = {}
      BY <1>1, <1>2, SdmaAssumption
    <3> QED BY <3>1 DEF Unfinished
  <2> QED BY <1>2, <2>1, FS_EmptySet DEF Due
<1>3. CASE c # NULL
  <2>1. c \in Channels
    BY <1>3 DEF Typed, TypeInv, TypeOK
  <2>2. Unfinished = {c} \X Ended(c)
    <3> HIDE DEF Ended
    <3>1. Unfinished = UNION {{e} \X Ended(e) : e \in Channels}
      BY DEF Unfinished, Ended
    <3> QED BY <1>1, <2>1, <3>1
  <2>3. Due \in Nat /\ Due = Len(submitted[c]) + Len(queue[c])
    BY <1>3, DueType DEF Due, Typed
  <2>4. PICK n \in Nat : n = Due
    BY <2>3
  <2>5. IsFiniteSet(1 .. n) /\ Cardinality(1 .. n) = n
    BY FS_Interval
  <2>6. IsFiniteSet({c}) /\ Cardinality({c}) = 1
    BY FS_Singleton
  <2>7. Cardinality({c} \X (1 .. n)) = 1 * n
    BY <2>5, <2>6, FS_Product
  <2>8. Ended(c) = 1 .. n
    BY <2>3, <2>4
  <2> HIDE DEF Ended
  <2> QED BY <2>2, <2>4, <2>7, <2>8
<1> QED BY <1>2, <1>3

(* With one file open at a time, the writes between submit and the end of  *)
(* their wait are as many as the completions not yet taken and the         *)
(* transactions not yet ended together.                                    *)
THEOREM BalanceCorrect == Spec => []CompletionBalance
<1>1. AloneInv => CompletionBalance
  <2> SUFFICES ASSUME AloneInv, ~overlap
               PROVE  Cardinality(Waiting) = dma_m2m_ok + Cardinality(Unfinished)
    BY DEF CompletionBalance, Waiting
  <2>1. Cardinality(Unfinished) = Due
    BY UnfinishedDue DEF AloneInv, Alone, Traffic
  <2> QED BY <2>1 DEF AloneInv, Alone, Traffic, Balance
<1> QED BY <1>1, AlwaysAlone, PTL

=============================================================================
