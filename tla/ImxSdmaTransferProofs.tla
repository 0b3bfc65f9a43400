----------------------- MODULE ImxSdmaTransferProofs -----------------------
(***************************************************************************)
(* Proofs about what the transactions of ImxSdma copy, while one file is   *)
(* open at a time and no two writes share a scatter table: every           *)
(* transaction is made of the buffers of the file, and read tells the      *)
(* truth about them.                                                       *)
(***************************************************************************)
EXTENDS ImxSdmaProofs

(* No two writes use one table.                                            *)
Distinct ==
  \A p, q \in Procs :
    p # q /\ pc[p] \in Writing /\ pc[q] \in Writing => Table[p] # Table[q]

TablesSet ==
  \A p \in Procs :
    /\ pc[p] \in {"sg2_init", "sg2_set", "prep"} => sg[Table[p]].src = Sources
    /\ pc[p] = "prep" => sg[Table[p]].dst = Destinations

CallsSet ==
  \A p \in Procs : pc[p] = "submit" =>
    call[p].src = Sources /\ call[p].dst = Destinations

(* Transactions on the buffers of the file, begun or not, and not begun.   *)
Proper == {d \in Transactions : d.src = Sources /\ d.dst = Destinations}
Fresh == {d \in Proper : d.pos = 0}

PendingSet ==
  \A c \in Channels :
    /\ submitted[c] \in Seq(Fresh)
    /\ queue[c] \in Seq(Proper)
    /\ \A i \in 2 .. Len(queue[c]) : queue[c][i] \in Fresh

Ordered == Distinct /\ TablesSet /\ CallsSet /\ PendingSet

(* What a proper transaction is depends on the buffers held only.          *)
LEMMA FrameFresh ==
  ASSUME Frame, UNCHANGED allocated
  PROVE  /\ Sources' = Sources /\ Destinations' = Destinations
         /\ Proper' = Proper /\ Fresh' = Fresh
BY PointersKept DEF Frame, Sources, Destinations, Proper, Fresh

(* No read or write allocates ...                                          *)
LEMMA ProcessMemory ==
  ASSUME NEW p \in Procs, ProcessStep(p)
  PROVE  UNCHANGED allocated
BY DEF ProcessStep, WriteCall, ReadCall, Proceed, WriteFill, SgInit, SgSet,
       WritePrep, WriteSubmit, WriteIssue, WriteWait, WriteSleep, WriteUnmap,
       ReadCompare, ReadReturn, Crash, memory

(* ... nor does the engine.                                                *)
LEMMA EngineMemory ==
  ASSUME NEW c \in Channels, Engine(c)
  PROVE  UNCHANGED allocated
BY DEF Engine, DmaCopy, DmaEnd, Crash, memory

(* Every table has an owner at most, and the others keep theirs.           *)
LEMMA ProcessDistinct ==
  ASSUME NEW p \in Procs, TypeInv, CallsOnOpen, Distinct, ~clash',
         ProcessStep(p)
  PROVE  Distinct'
<1>1. \A q \in Procs \ {p} : pc'[q] = pc[q]
  BY ProcessCalls
<1>2. CASE WriteCall(p)
  <2>1. \A q \in Procs \ {p} : pc[q] \in Writing => Table[q] # Table[p]
    BY <1>2 DEF WriteCall
  <2> QED BY <1>1, <2>1 DEF Distinct
<1>3. CASE ~WriteCall(p)
  <2>1. pc'[p] \in Writing => pc[p] \in Writing
    BY <1>3
       DEF ProcessStep, ReadCall, Proceed, WriteFill, SgInit, SgSet, WritePrep,
           WriteSubmit, WriteIssue, WriteWait, WriteSleep, WriteUnmap,
           ReadCompare, ReadReturn, Crash, process, Goto, Writing, TypeInv,
           TypeOK
  <2> QED BY <1>1, <2>1 DEF Distinct
<1> QED BY <1>2, <1>3

(* A table set by a write stays as set while no other write uses it.       *)
LEMMA ProcessTables ==
  ASSUME NEW p \in Procs, TypeInv, CallsOnOpen, Distinct, TablesSet,
         ProcessStep(p)
  PROVE  TablesSet'
<1>1. \A q \in Procs \ {p} : pc'[q] = pc[q]
  BY ProcessCalls
<1>2. Sources' = Sources /\ Destinations' = Destinations
  BY ProcessFrame, ProcessMemory, FrameFresh
<1>3. sg \in [Tables -> Scatter] /\ \A q \in Procs : Table[q] \in Tables
  BY DEF TypeInv, TypeOK, Tables
<1>4. pc \in [Procs -> Labels]
  BY DEF TypeInv, TypeOK
<1>5. CASE (SgInit(p) \/ SgSet(p)) /\ ~Crash("null_dereference")
  <2>1. pc[p] \in Writing
    BY <1>5 DEF SgInit, SgSet, Writing
  <2>2. \A q \in Procs \ {p} :
          pc[q] \in {"sg2_init", "sg2_set", "prep"} => Table[q] # Table[p]
    BY <2>1 DEF Distinct, Writing
  <2>3. \/ sg' = [sg EXCEPT ![Table[p]].src = Nothing] /\ Goto(p, "sg_set")
        \/ /\ sg' = [sg EXCEPT ![Table[p]].src = Sources]
           /\ Goto(p, "sg2_init")
        \/ /\ sg' = [sg EXCEPT ![Table[p]].dst = Nothing]
           /\ Goto(p, "sg2_set") /\ pc[p] = "sg2_init"
        \/ /\ sg' = [sg EXCEPT ![Table[p]].dst = Destinations]
           /\ Goto(p, "prep") /\ pc[p] = "sg2_set"
    BY <1>5 DEF SgInit, SgSet
  <2>4. \A q \in Procs \ {p} :
          pc[q] \in {"sg2_init", "sg2_set", "prep"} =>
            sg'[Table[q]] = sg[Table[q]]
    BY <1>3, <2>2, <2>3
  <2>5. /\ pc'[p] \in {"sg2_init", "sg2_set", "prep"} =>
             sg'[Table[p]].src = Sources
        /\ pc'[p] = "prep" => sg'[Table[p]].dst = Destinations
    <3>1. pc[p] \in {"sg2_init", "sg2_set"} => sg[Table[p]].src = Sources
      BY DEF TablesSet
    <3>2. sg[Table[p]] \in Scatter /\ Table[p] \in Tables
      BY <1>3
    <3>3. CASE sg' = [sg EXCEPT ![Table[p]].src = Nothing] /\ Goto(p, "sg_set")
      BY <1>4, <3>3 DEF Goto
    <3>4. CASE /\ sg' = [sg EXCEPT ![Table[p]].src = Sources]
               /\ Goto(p, "sg2_init")
      BY <1>3, <1>4, <3>2, <3>4 DEF Goto, Scatter
    <3>5. CASE /\ sg' = [sg EXCEPT ![Table[p]].dst = Nothing]
               /\ Goto(p, "sg2_set") /\ pc[p] = "sg2_init"
      BY <1>3, <1>4, <3>1, <3>2, <3>5 DEF Goto, Scatter
    <3>6. CASE /\ sg' = [sg EXCEPT ![Table[p]].dst = Destinations]
               /\ Goto(p, "prep") /\ pc[p] = "sg2_set"
      BY <1>3, <1>4, <3>1, <3>2, <3>6 DEF Goto, Scatter
    <3> QED BY <2>3, <3>3, <3>4, <3>5, <3>6
  <2> QED BY <1>1, <1>2, <2>4, <2>5 DEF TablesSet
<1>6. CASE ~((SgInit(p) \/ SgSet(p)) /\ ~Crash("null_dereference"))
  <2>1. /\ UNCHANGED sg
        /\ pc'[p] = pc[p] \/ pc'[p] \notin {"sg2_init", "sg2_set", "prep"}
    <3>1. CASE UNCHANGED <<globals, process>>
      BY <3>1 DEF globals, process
    <3>2. CASE ~UNCHANGED <<globals, process>>
      BY <1>4, <1>6, <3>2
         DEF ProcessStep, WriteCall, ReadCall, Proceed, WriteFill, WritePrep,
             WriteSubmit, WriteIssue, WriteWait, WriteSleep, WriteUnmap,
             ReadCompare, ReadReturn, Crash, globals, Goto
    <3> QED BY <3>1, <3>2
  <2> QED BY <1>1, <1>2, <2>1 DEF TablesSet
<1> QED BY <1>5, <1>6

(* A write about to submit has the file's buffers in its descriptor.       *)
LEMMA ProcessCallsSet ==
  ASSUME NEW p \in Procs, TypeInv, CallsOnOpen, TablesSet, CallsSet,
         ProcessStep(p)
  PROVE  CallsSet'
<1>1. \A q \in Procs \ {p} : pc'[q] = pc[q] /\ call'[q] = call[q]
  BY ProcessCalls
<1>2. Sources' = Sources /\ Destinations' = Destinations
  BY ProcessFrame, ProcessMemory, FrameFresh
<1>3. pc \in [Procs -> Labels] /\ call \in [Procs -> Calls]
  BY DEF TypeInv, TypeOK
<1>4. CASE WritePrep(p) /\ ~UNCHANGED process
  <2>1. call' = [call EXCEPT ![p].chan = dma_m2m_chan,
                             ![p].src = sg[Table[p]].src,
                             ![p].dst = sg[Table[p]].dst]
    BY <1>4 DEF WritePrep, Crash
  <2>2. sg[Table[p]].src = Sources /\ sg[Table[p]].dst = Destinations
    BY <1>4 DEF WritePrep, TablesSet
  <2>3. call'[p].src = Sources /\ call'[p].dst = Destinations
    BY <1>3, <2>1, <2>2 DEF Calls
  <2> QED BY <1>1, <1>2, <2>3 DEF CallsSet
<1>5. CASE ~(WritePrep(p) /\ ~UNCHANGED process)
  <2>1. (pc'[p] = pc[p] /\ call'[p] = call[p]) \/ pc'[p] # "submit"
    <3>1. CASE UNCHANGED process
      BY <3>1 DEF process
    <3>2. CASE ~UNCHANGED process
      BY <1>3, <1>5, <3>2
         DEF ProcessStep, WriteCall, ReadCall, Proceed, WriteFill, SgInit, SgSet,
             WriteSubmit, WriteIssue, WriteWait, WriteSleep, WriteUnmap,
             ReadCompare, ReadReturn, Crash, Goto
    <3> QED BY <3>1, <3>2
  <2> QED BY <1>1, <1>2, <2>1 DEF CallsSet
<1> QED BY <1>4, <1>5

(* A queue of transactions of which only the first has begun.              *)
LEMMA QueueConcat ==
  ASSUME NEW P, NEW F, F \subseteq P, NEW q \in Seq(P), NEW s \in Seq(F),
         \A i \in 2 .. Len(q) : q[i] \in F
  PROVE  /\ q \o s \in Seq(P)
         /\ \A i \in 2 .. Len(q \o s) : (q \o s)[i] \in F
<1> DEFINE m == Len(q)
           n == Len(s)
           r == q \o s
<1>1. s \in Seq(P)
  BY SeqMonotonic
<1>2. /\ r \in Seq(P) /\ Len(r) = m + n
      /\ \A i \in 1 .. m + n : r[i] = IF i <= m THEN q[i] ELSE s[i - m]
  BY <1>1, ConcatProperties
<1>3. /\ m \in Nat /\ n \in Nat
      /\ \A i \in 1 .. n : s[i] \in F
  BY LenProperties, ElementOfSeq
<1> HIDE DEF m, n, r
<1>4. \A i \in 2 .. m : q[i] \in F
  BY DEF m
<1>5. \A i \in 2 .. m + n : r[i] \in F
  <2> TAKE i \in 2 .. m + n
  <2>1. CASE i <= m
    BY <1>2, <1>3, <1>4, <2>1
  <2>2. CASE ~(i <= m)
    BY <1>2, <1>3, <2>2
  <2> QED BY <2>1, <2>2
<1> QED BY <1>2, <1>5 DEF r

(* What waits behind the running transaction is fresh; so is the next one  *)
(* when that has ended ...                                                 *)
LEMMA QueueTail ==
  ASSUME NEW P, NEW F, F \subseteq P, NEW q \in Seq(P), q # <<>>,
         \A i \in 2 .. Len(q) : q[i] \in F
  PROVE  /\ Tail(q) \in Seq(P)
         /\ \A i \in 2 .. Len(Tail(q)) : Tail(q)[i] \in F
         /\ Tail(q) # <<>> => Tail(q)[1] \in F
<1> DEFINE m == Len(q)
           n == Len(Tail(q))
           t == Tail(q)
<1>1. /\ t \in Seq(P) /\ n = m - 1
      /\ \A i \in 1 .. n : t[i] = q[i + 1]
  BY HeadTailProperties
<1>2. m \in Nat /\ n \in Nat /\ (t # <<>> => n # 0)
  BY <1>1, LenProperties, EmptySeq
<1>3. \A i \in 2 .. m : q[i] \in F
  OBVIOUS
<1> HIDE DEF m, n, t
<1>4. \A i \in 1 .. n : t[i] \in F
  BY <1>1, <1>2, <1>3
<1>5. t # <<>> => 1 \in 1 .. n
  BY <1>2
<1> QED BY <1>1, <1>2, <1>4, <1>5 DEF t, n

(* ... and what waits stays fresh while it runs.                           *)
LEMMA QueueAdvance ==
  ASSUME NEW P, NEW F, NEW q \in Seq(P), q # <<>>, NEW d \in P,
         \A i \in 2 .. Len(q) : q[i] \in F
  PROVE  /\ [q EXCEPT ![1] = d] \in Seq(P)
         /\ \A i \in 2 .. Len([q EXCEPT ![1] = d]) : [q EXCEPT ![1] = d][i] \in F
         /\ [q EXCEPT ![1] = d][1] = d
         /\ [q EXCEPT ![1] = d] # <<>>
<1> DEFINE m == Len(q)
           r == [q EXCEPT ![1] = d]
<1>1. m \in Nat /\ m # 0
  BY EmptySeq, LenProperties
<1>2. 1 \in 1 .. m
  <2> HIDE DEF m
  <2> QED BY <1>1
<1>3. /\ r \in Seq(P) /\ Len(r) = m
      /\ \A j \in 1 .. m : r[j] = IF j = 1 THEN d ELSE q[j]
  BY <1>2, ExceptSeq
<1>4. \A i \in 2 .. m : q[i] \in F
  OBVIOUS
<1> HIDE DEF m, r
<1>5. \A i \in 2 .. m : r[i] \in F
  BY <1>1, <1>3, <1>4
<1>6. r # <<>>
  BY <1>1, <1>3, EmptySeq
<1> QED BY <1>2, <1>3, <1>5, <1>6 DEF r

(* What a write submits or issues is of the file's buffers.                *)
LEMMA ProcessPending ==
  ASSUME NEW p \in Procs, TypeInv, CallsOnOpen, CallsSet, PendingSet,
         ProcessStep(p)
  PROVE  PendingSet'
<1>1. Fresh' = Fresh /\ Proper' = Proper
  BY ProcessFrame, ProcessMemory, FrameFresh
<1>2. CASE WriteSubmit(p) /\ call[p].chan \in requested
  <2> DEFINE c == call[p].chan
  <2>1. /\ submitted' = [submitted EXCEPT ![c] = Append(@, Transaction(p))]
        /\ queue' = queue /\ pc[p] = "submit"
    BY <1>2 DEF WriteSubmit
  <2>2. Transaction(p) \in Fresh
    BY <2>1, TransactionType DEF Transaction, CallsSet, Fresh, Proper
  <2>3. c \in Channels /\ submitted \in [Channels -> Seq(Transactions)]
    BY <1>2 DEF TypeInv, TypeOK
  <2>4. Append(submitted[c], Transaction(p)) \in Seq(Fresh)
    BY <2>2, <2>3, AppendProperties DEF PendingSet
  <2>5. \A e \in Channels : submitted'[e] \in Seq(Fresh)
    BY <2>1, <2>3, <2>4 DEF PendingSet
  <2> QED BY <1>1, <2>1, <2>5 DEF PendingSet
<1>3. CASE WriteIssue(p) /\ dma_m2m_chan # NULL
  <2> DEFINE c == dma_m2m_chan
             q == queue[c] \o submitted[c]
  <2>1. queue' = [queue EXCEPT ![c] = q] /\ submitted' = [submitted EXCEPT ![c] = <<>>]
    BY <1>3 DEF WriteIssue
  <2>2. /\ c \in Channels /\ submitted \in [Channels -> Seq(Transactions)]
        /\ queue \in [Channels -> Seq(Transactions)]
    BY <1>3 DEF TypeInv, TypeOK
  <2>3. Fresh \subseteq Proper
    BY DEF Fresh
  <2>4. q \in Seq(Proper) /\ \A i \in 2 .. Len(q) : q[i] \in Fresh
    <3>1. /\ queue[c] \in Seq(Proper) /\ submitted[c] \in Seq(Fresh)
          /\ \A i \in 2 .. Len(queue[c]) : queue[c][i] \in Fresh
      BY <2>2 DEF PendingSet
    <3> QED BY <2>3, <3>1, QueueConcat
  <2> HIDE DEF q
  <2>5. <<>> \in Seq(Fresh)
    BY EmptySeq
  <2> QED BY <1>1, <2>1, <2>2, <2>4, <2>5 DEF PendingSet
<1>4. CASE ~(WriteSubmit(p) /\ call[p].chan \in requested)
           /\ ~(WriteIssue(p) /\ dma_m2m_chan # NULL)
  <2>1. UNCHANGED <<submitted, queue>>
    BY <1>4
       DEF ProcessStep, WriteCall, ReadCall, Proceed, WriteFill, SgInit, SgSet,
           WritePrep, WriteSubmit, WriteIssue, WriteWait, WriteSleep,
           WriteUnmap, ReadCompare, ReadReturn, Crash, engine
  <2> QED BY <1>1, <2>1 DEF PendingSet
<1> QED BY <1>2, <1>3, <1>4

(* What the engine has not ended stays so.                                 *)
LEMMA EnginePending ==
  ASSUME NEW c \in Channels, TypeInv, PendingSet, Engine(c)
  PROVE  PendingSet'
<1>1. Fresh' = Fresh /\ Proper' = Proper
  BY EngineFrame, EngineMemory, FrameFresh
<1>2. /\ queue \in [Channels -> Seq(Transactions)] /\ queue[c] \in Seq(Proper)
      /\ \A i \in 2 .. Len(queue[c]) : queue[c][i] \in Fresh
      /\ queue[c] # <<>> /\ Fresh \subseteq Proper
  BY DEF TypeInv, TypeOK, PendingSet, Engine, DmaCopy, DmaEnd, Fresh
<1>3. CASE DmaEnd(c)
  <2>1. queue' = [queue EXCEPT ![c] = Tail(@)] /\ submitted' = submitted
    BY <1>3 DEF DmaEnd
  <2>2. /\ Tail(queue[c]) \in Seq(Proper)
        /\ \A i \in 2 .. Len(Tail(queue[c])) : Tail(queue[c])[i] \in Fresh
    BY <1>2, QueueTail
  <2> QED BY <1>1, <1>2, <2>1, <2>2 DEF PendingSet
<1>4. CASE DmaCopy(c) /\ ~Crash("stray_dma")
  <2> DEFINE e == [queue[c][1] EXCEPT !.pos = @ + 1]
             q == [queue[c] EXCEPT ![1] = e]
  <2>1. queue' = [queue EXCEPT ![c] = q] /\ submitted' = submitted
    BY <1>2, <1>4 DEF DmaCopy
  <2>2. e \in Proper
    <3>1. queue[c][1] \in Proper /\ queue[c][1] = Head(queue[c])
      BY <1>2, HeadTailProperties
    <3>2. queue[c][1].pos < 2 * N
      BY <1>4, <3>1 DEF DmaCopy
    <3>3. queue[c][1].pos \in 0 .. 2 * N
      BY <3>1 DEF Proper, Transactions
    <3>4. queue[c][1].pos + 1 \in 0 .. 2 * N
      BY <3>2, <3>3, SdmaAssumption
    <3> QED BY <3>1, <3>4 DEF Proper, Transactions
  <2> HIDE DEF e
  <2>3. q \in Seq(Proper) /\ \A i \in 2 .. Len(q) : q[i] \in Fresh
    BY <1>2, <2>2, QueueAdvance
  <2> HIDE DEF q
  <2> QED BY <1>1, <1>2, <2>1, <2>3 DEF PendingSet
<1>5. CASE Crash("stray_dma")
  BY <1>1, <1>5 DEF Crash, engine, PendingSet
<1> QED BY <1>3, <1>4, <1>5 DEF Engine

(* Where no call is made and nothing is submitted, there is nothing to     *)
(* order.                                                                  *)
LEMMA QuietOrdered ==
  ASSUME \A p \in Procs : pc'[p] = "idle",
         \A c \in Channels : submitted'[c] = <<>> /\ queue'[c] = <<>>
  PROVE  Ordered'
<1>1. Distinct' /\ TablesSet' /\ CallsSet'
  BY DEF Distinct, TablesSet, CallsSet, Writing
<1>2. PendingSet'
  <2>1. /\ <<>> \in Seq(Fresh') /\ <<>> \in Seq(Proper')
        /\ Len(<<>>) = 0 /\ 2 .. 0 = {}
    BY EmptySeq
  <2> QED BY <2>1 DEF PendingSet
<1> QED BY <1>1, <1>2 DEF Ordered

(* After a step of open or release nothing is under way either.            *)
LEMMA FileQuiet ==
  ASSUME NEW f \in Files, TypeInv, CallsOnOpen, Alone, OpenOrRelease(f), ~overlap'
  PROVE  /\ \A p \in Procs : pc'[p] = "idle"
         /\ \A c \in Channels : submitted'[c] = <<>> /\ queue'[c] = <<>>
         /\ dma_m2m_ok' = 0
<1>1. /\ \A p \in Procs : pc[p] = "idle"
      /\ \A c \in Channels : submitted[c] = <<>> /\ queue[c] = <<>>
      /\ dma_m2m_ok = 0
  BY Quiet
<1>2. \A p \in Procs : pc'[p] = "idle"
  BY <1>1
     DEF OpenOrRelease, OpenStart, FileStep, OpenChannel, OpenNoChannel,
         OpenAlloc, OpenNoMemory, ReleaseFree, ReleaseChannel, Crash, process,
         TypeInv, TypeOK
<1>3. \A c \in Channels : submitted'[c] = <<>> /\ queue'[c] = <<>>
  <2>1. CASE ReleaseChannel(f) /\ dma_m2m_chan # NULL
    <3>1. /\ submitted' = [submitted EXCEPT ![dma_m2m_chan] = <<>>]
          /\ \/ queue' = [queue EXCEPT ![dma_m2m_chan] = queue[dma_m2m_chan]]
             \/ queue' = [queue EXCEPT ![dma_m2m_chan] = <<>>]
      BY <2>1 DEF ReleaseChannel
    <3> QED BY <1>1, <3>1 DEF TypeInv, TypeOK
  <2>2. CASE ~(ReleaseChannel(f) /\ dma_m2m_chan # NULL)
    BY <1>1, <2>2
       DEF OpenOrRelease, OpenStart, FileStep, OpenChannel, OpenNoChannel,
           OpenAlloc, OpenNoMemory, ReleaseFree, ReleaseChannel, Crash, engine
  <2> QED BY <2>1, <2>2
<1>4. dma_m2m_ok' = 0
  BY <1>1
     DEF OpenOrRelease, OpenStart, FileStep, OpenChannel, OpenNoChannel,
         OpenAlloc, OpenNoMemory, ReleaseFree, ReleaseChannel, Crash, globals
<1> QED BY <1>2, <1>3, <1>4

(* So it is initially.                                                     *)
LEMMA InitOrdered == Init => Ordered
<1> SUFFICES ASSUME Init PROVE Ordered
  OBVIOUS
<1>1. Distinct /\ TablesSet /\ CallsSet
  BY DEF Init, Distinct, TablesSet, CallsSet, Writing
<1>2. PendingSet
  <2>1. /\ <<>> \in Seq(Fresh) /\ <<>> \in Seq(Proper)
        /\ Len(<<>>) = 0 /\ 2 .. 0 = {}
    BY EmptySeq
  <2> QED BY <2>1 DEF Init, PendingSet
<1> QED BY <1>1, <1>2 DEF Ordered

(* The histories only grow.                                                *)
LEMMA HistoryGrows ==
  ASSUME [Next]_vars
  PROVE  /\ ~overlap' => ~overlap
         /\ ~clash' => ~clash
<1>1. ASSUME NEW f \in Files, OpenOrRelease(f)
      PROVE  (~overlap' => ~overlap) /\ clash' = clash
  BY <1>1
     DEF OpenOrRelease, OpenStart, FileStep, OpenChannel, OpenNoChannel,
         OpenAlloc, OpenNoMemory, ReleaseFree, ReleaseChannel, Crash, history
<1>2. ASSUME NEW p \in Procs, ProcessStep(p)
      PROVE  overlap' = overlap /\ (~clash' => ~clash)
  <2>1. CASE WriteCall(p)
    BY <2>1 DEF WriteCall
  <2>2. CASE ~WriteCall(p)
    <3>1. UNCHANGED <<overlap, clash>>
      BY <1>2, <2>2
         DEF ProcessStep, ReadCall, Proceed, WriteFill, SgInit, SgSet,
             WritePrep, WriteSubmit, WriteIssue, WriteWait, WriteSleep,
             WriteUnmap, ReadCompare, ReadReturn, Crash, history
    <3> QED BY <3>1
  <2> QED BY <2>1, <2>2
<1>3. ASSUME NEW c \in Channels, Engine(c)
      PROVE  overlap' = overlap /\ clash' = clash
  BY <1>3 DEF Engine, DmaCopy, DmaEnd, Crash, history
<1>4. CASE UNCHANGED vars
  BY <1>4 DEF vars, history
<1> QED
  BY <1>1, <1>2, <1>3, <1>4
     DEF Next, Request, Step, OpenOrRelease, ProcessStep

OrderedInv == AloneInv /\ (~overlap /\ ~clash => Ordered)

(* Every step keeps the order while one file is open and no tables clash.  *)
LEMMA StepOrdered == OrderedInv /\ [Next]_vars => OrderedInv'
<1> SUFFICES ASSUME OrderedInv, [Next]_vars, ~overlap', ~clash'
             PROVE  Ordered'
  BY StepAlone DEF OrderedInv
<1>1. /\ TypeInv /\ CallsOnOpen /\ Alone /\ Ordered
      /\ Distinct /\ TablesSet /\ CallsSet /\ PendingSet
  BY HistoryGrows DEF OrderedInv, AloneInv, Typed, Ordered
<1>2. ASSUME NEW f \in Files, OpenOrRelease(f)
      PROVE  Ordered'
  BY <1>1, <1>2, FileQuiet, QuietOrdered
<1>3. ASSUME NEW p \in Procs, ProcessStep(p)
      PROVE  Ordered'
  BY <1>1, <1>3, ProcessDistinct, ProcessTables, ProcessCallsSet,
     ProcessPending DEF Ordered
<1>4. ASSUME NEW c \in Channels, Engine(c)
      PROVE  Ordered'
  <2>1. UNCHANGED <<pc, call, sg>> /\ Sources' = Sources
        /\ Destinations' = Destinations
    BY <1>4, EngineFrame, EngineMemory, FrameFresh
       DEF Engine, DmaCopy, DmaEnd, Crash, globals
  <2>2. Distinct' /\ TablesSet' /\ CallsSet'
    BY <1>1, <2>1 DEF Distinct, TablesSet, CallsSet
  <2> QED BY <1>1, <1>4, <2>2, EnginePending DEF Ordered
<1>5. CASE UNCHANGED vars
  <2>1. /\ UNCHANGED <<pc, call, sg, submitted, queue, buf, allocated>>
    BY <1>5 DEF vars, globals, memory, engine, process
  <2>2. Sources' = Sources /\ Destinations' = Destinations /\ Proper' = Proper
        /\ Fresh' = Fresh
    BY <2>1, PointersKept DEF Sources, Destinations, Proper, Fresh
  <2> QED
    BY <1>1, <2>1, <2>2
       DEF Ordered, Distinct, TablesSet, CallsSet, PendingSet
<1> QED
  BY <1>2, <1>3, <1>4, <1>5 DEF Next, Request, Step, OpenOrRelease, ProcessStep

(* It holds in every reachable state.                                      *)
LEMMA AlwaysOrdered == Spec => []OrderedInv
<1>1. Init => OrderedInv
  BY InitAlone, InitOrdered DEF OrderedInv
<1> QED BY <1>1, StepOrdered, PTL DEF Spec

(* A transaction that has not ended has a write that waits for it.         *)
LEMMA PendingWaits ==
  ASSUME TypeInv, Alone, NEW c \in Channels,
         submitted[c] # <<>> \/ queue[c] # <<>>
  PROVE  \E p \in Procs : pc[p] \in {"issue", "wait", "asleep"}
<1> DEFINE m == Len(submitted[c])
           n == Len(queue[c])
<1>1. c = dma_m2m_chan /\ c # NULL
  BY SdmaAssumption DEF Alone, Traffic, OthersQuiet
<1>2. submitted[c] \in Seq(Transactions) /\ queue[c] \in Seq(Transactions)
      /\ dma_m2m_ok \in Nat
  BY DEF TypeInv, TypeOK
<1>3. m \in Nat /\ n \in Nat /\ (m # 0 \/ n # 0)
  BY <1>2, LenProperties, EmptySeq
<1>4. Due = m + n
  BY <1>1 DEF Due
<1> HIDE DEF m, n
<1>5. dma_m2m_ok + Due # 0
  BY <1>2, <1>3, <1>4
<1>6. Waiting # {}
  BY <1>5, FS_EmptySet DEF Alone, Traffic, Balance
<1> QED BY <1>6 DEF Waiting

(* With one file open at a time and no two writes on one table, every      *)
(* transaction that has not ended works on allocated buffers, also across  *)
(* a release.                                                              *)
THEOREM DmaLiveCorrect == Spec => []DmaIntoLiveBuffers
<1>1. OrderedInv => DmaIntoLiveBuffers
  <2> SUFFICES ASSUME OrderedInv, ~overlap, ~clash, NEW c \in Channels,
                      NEW d \in Pending(c), NEW k \in Pairs
               PROVE  {d.src[k], d.dst[k]} \subseteq DOMAIN mem
    BY DEF DmaIntoLiveBuffers
  <2>1. TypeInv /\ CallsOnOpen /\ Alone /\ Resources /\ PendingSet
    BY DEF OrderedInv, AloneInv, Typed, Ordered, Alone
  <2>2. /\ submitted[c] \in Seq(Fresh) /\ queue[c] \in Seq(Proper)
        /\ Fresh \subseteq Proper
    BY <2>1 DEF PendingSet, Fresh
  <2>3. d \in Proper /\ (submitted[c] # <<>> \/ queue[c] # <<>>)
    <3>1. CASE \E i \in DOMAIN submitted[c] : d = submitted[c][i]
      BY <2>2, <3>1, LenProperties, ElementOfSeq, EmptySeq
    <3>2. CASE \E i \in DOMAIN queue[c] : d = queue[c][i]
      BY <2>2, <3>2, LenProperties, ElementOfSeq, EmptySeq
    <3> QED BY <3>1, <3>2 DEF Pending
  <2>4. PICK p \in Procs : pc[p] # "idle"
    BY <2>1, <2>3, PendingWaits
  <2>5. \A i \in Slots : buf[i] \in DOMAIN mem
    BY <2>1, <2>4, BuffersLive
  <2>6. d.src[k] = buf[k] /\ d.dst[k] = buf[N + k]
    BY <2>3 DEF Proper, Sources, Destinations
  <2> QED BY <2>5, <2>6, PairSlots
<1> QED BY <1>1, AlwaysOrdered, PTL
-----------------------------------------------------------------------------
(* What the engine has copied.  A transaction copies its 2 * N half        *)
(* buffers in the order of their positions.                                *)

Positions == 0 .. 2 * N - 1
Pair(q) == (q \div 2) + 1
Half(q) == IF q % 2 = 0 THEN "lo" ELSE "hi"

(* The destination holds the pattern at position q.                        *)
Arrived(q) == mem[buf[N + Pair(q)]][Half(q)] = Pair(q)

IsOpen == \E f \in Files : place[f] = "open"

SourcesFilled ==
  (\E p \in Procs : pc[p] \in Writing \ {"fill"}) \/ (transferred /\ IsOpen) =>
    \A k \in Pairs : mem[buf[k]] = Pattern(k)

InOrder ==
  IsOpen => \A q, r \in Positions : r < q /\ Arrived(q) => Arrived(r)

HeadArrived ==
  \A c \in Channels : queue[c] # <<>> =>
    \A q \in Positions : q < queue[c][1].pos => Arrived(q)

(* Once a transaction has ended in good order, everything has arrived.     *)
Completed ==
  transferred \/ dma_m2m_ok > 0 \/ \E p \in Procs : pc[p] = "unmap"

AllArrived ==
  IsOpen /\ Completed /\ ~dma_error => \A q \in Positions : Arrived(q)

AllocBlank ==
  \A f \in Files : place[f] = "alloc" =>
    \A i \in Owned(f) : mem[buf[i]] = Blank

(* What a read that began after a write knows.                             *)
Seen(k) == /\ Arrived(2 * (k - 1))
           /\ k \notin HalfPairs => Arrived(2 * (k - 1) + 1)

Compared ==
  \A p \in Procs :
    call[p].after /\ pc[p] \in {"compare", "passed", "falled"} =>
      /\ transferred
      /\ pc[p] = "compare" => \A k \in Pairs : k < call[p].k => Seen(k)
      /\ pc[p] = "passed" => \A q \in Positions : Arrived(q)
      /\ pc[p] = "falled" => dma_error

Transfer ==
  SourcesFilled /\ InOrder /\ HeadArrived /\ AllArrived /\ AllocBlank /\ Compared

(* The position of a transfer is a pair and one of its halves.             *)
LEMMA Halving ==
  ASSUME NEW q \in Nat
  PROVE  q \div 2 \in Nat /\ q % 2 \in 0 .. 1 /\ q = 2 * (q \div 2) + (q % 2)
<1>1. ASSUME NEW a \in Int, NEW n \in Nat \ {0}
      PROVE  /\ a % n \in 0 .. n - 1 /\ a \div n \in Int
             /\ a = (n * (a \div n)) + (a % n)
  OBVIOUS
<1> DEFINE a == q \div 2
           b == q % 2
<1>2. b \in 0 .. 1 /\ a \in Int /\ q = 2 * a + b
  BY <1>1
<1> HIDE DEF a, b
<1>3. a \in Nat
  BY <1>2
<1> QED BY <1>2, <1>3 DEF a, b

(* Positions count the halves of the pairs.                                *)
LEMMA PositionType ==
  /\ \A q \in Positions : Pair(q) \in Pairs /\ Half(q) \in Halves
  /\ \A q, r \in Positions : Pair(q) = Pair(r) /\ Half(q) = Half(r) => q = r
  /\ \A k \in Pairs :
       /\ 2 * (k - 1) \in Positions
       /\ Pair(2 * (k - 1)) = k /\ Half(2 * (k - 1)) = "lo"
       /\ 2 * (k - 1) + 1 \in Positions
       /\ Pair(2 * (k - 1) + 1) = k /\ Half(2 * (k - 1) + 1) = "hi"
<1>1. ASSUME NEW q \in Positions
      PROVE  /\ Pair(q) \in Pairs /\ Half(q) \in Halves
             /\ q = 2 * (Pair(q) - 1) + (IF Half(q) = "lo" THEN 0 ELSE 1)
  <2>1. q \in Nat /\ q < 2 * N
    BY SdmaAssumption DEF Positions
  <2> DEFINE a == q \div 2
             b == q % 2
  <2>2. a \in Nat /\ b \in 0 .. 1 /\ q = 2 * a + b
    BY <2>1, Halving
  <2>3. Pair(q) = a + 1 /\ Half(q) = IF b = 0 THEN "lo" ELSE "hi"
    BY DEF Pair, Half
  <2> HIDE DEF a, b
  <2>4. Pair(q) \in Pairs
    BY <2>1, <2>2, <2>3, SdmaAssumption DEF Pairs
  <2>5. Half(q) \in Halves
    BY <2>3 DEF Halves
  <2>6. q = 2 * (Pair(q) - 1) + (IF Half(q) = "lo" THEN 0 ELSE 1)
    <3>1. CASE b = 0
      BY <2>2, <2>3, <3>1
    <3>2. CASE b = 1
      BY <2>2, <2>3, <3>2
    <3> QED BY <2>2, <3>1, <3>2
  <2> QED BY <2>4, <2>5, <2>6
<1>2. ASSUME NEW k \in Pairs
      PROVE  /\ 2 * (k - 1) \in Positions
             /\ Pair(2 * (k - 1)) = k /\ Half(2 * (k - 1)) = "lo"
             /\ 2 * (k - 1) + 1 \in Positions
             /\ Pair(2 * (k - 1) + 1) = k /\ Half(2 * (k - 1) + 1) = "hi"
  <2>1. k \in 1 .. N /\ N \in Nat
    BY SdmaAssumption DEF Pairs
  <2>2. /\ 2 * (k - 1) \in Positions
        /\ 2 * (k - 1) + 1 \in Positions
    BY <2>1 DEF Positions
  <2>3. /\ (2 * (k - 1)) \div 2 = k - 1 /\ (2 * (k - 1)) % 2 = 0
        /\ (2 * (k - 1) + 1) \div 2 = k - 1 /\ (2 * (k - 1) + 1) % 2 = 1
    BY <2>1
  <2> QED BY <2>1, <2>2, <2>3 DEF Pair, Half
<1> QED BY <1>1, <1>2

(* Where everything has arrived the destinations hold the patterns.        *)
LEMMA AllPatterns ==
  ASSUME TypeInv, \A i \in Slots : buf[i] \in DOMAIN mem,
         \A q \in Positions : Arrived(q)
  PROVE  \A k \in Pairs : mem[buf[N + k]] = Pattern(k)
<1> TAKE k \in Pairs
<1>1. mem[buf[N + k]] \in [Halves -> 0 .. N]
  BY PairSlots DEF TypeInv, TypeOK
<1>2. mem[buf[N + k]]["lo"] = k /\ mem[buf[N + k]]["hi"] = k
  BY PositionType DEF Arrived
<1>3. \A h \in Halves : mem[buf[N + k]][h] = Pattern(k)[h]
  BY <1>2 DEF Halves, Pattern
<1> QED BY <1>1, <1>3 DEF Pattern

-----------------------------------------------------------------------------
(* The steps of the processes.                                             *)

(* All buffers are allocated, each in a block of its own.                  *)
Live == /\ \A i \in Slots : buf[i] \in DOMAIN mem
        /\ \A i, j \in Slots : buf[i] = buf[j] => i = j

(* While a file is open its buffers are allocated and no other file is     *)
(* being opened.                                                           *)
LEMMA OpenLive ==
  ASSUME Resources, IsOpen
  PROVE  Live /\ \A f \in Files : place[f] # "alloc"
<1>1. PICK f \in Files : place[f] = "open"
  BY DEF IsOpen
<1>2. Owned(f) = Slots
  BY <1>1 DEF Owned
<1>3. \A g \in Files : place[g] # "alloc"
  BY <1>1 DEF Resources, AtMostOne
<1> QED BY <1>2, <1>3 DEF Resources, BuffersHeld, Live

(* A process that takes a step in a call has an open file before and       *)
(* after.                                                                  *)
LEMMA ProcessOpen ==
  ASSUME NEW p \in Procs, CallsOnOpen, ProcessStep(p)
  PROVE  IsOpen /\ IsOpen'
<1>1. IsOpen
  <2>1. CASE pc[p] = "idle"
    BY <2>1
       DEF ProcessStep, WriteCall, ReadCall, Proceed, WriteFill, SgInit, SgSet,
           WritePrep, WriteSubmit, WriteIssue, WriteWait, WriteSleep,
           WriteUnmap, ReadCompare, ReadReturn, IsOpen
  <2>2. CASE pc[p] # "idle"
    BY <2>2 DEF CallsOnOpen, IsOpen
  <2> QED BY <2>1, <2>2
<1>2. place' = place
  BY ProcessFrame DEF Frame
<1> QED BY <1>1, <1>2 DEF IsOpen

(* No destination is a source of any pair.                                 *)
LEMMA DestinationsApart ==
  ASSUME Live
  PROVE  \A j, k \in Pairs : buf[N + k] # buf[j]
BY PairSlots, SdmaAssumption DEF Live, Pairs, Slots

(* The fill of a write is all that a process does to the blocks.           *)
LEMMA ProcessBlocks ==
  ASSUME NEW p \in Procs, CallsOnOpen, Resources, ProcessStep(p)
  PROVE  /\ UNCHANGED buf
         /\ \A k \in Pairs : mem'[buf[N + k]] = mem[buf[N + k]]
         /\ \/ /\ UNCHANGED mem
               /\ WriteFill(p) => UNCHANGED <<pc, transferred>>
            \/ \A k \in Pairs : mem'[buf[k]] = Pattern(k)
<1>1. Live
  BY ProcessOpen, OpenLive
<1>2. UNCHANGED buf
  BY ProcessFrame DEF Frame
<1> DEFINE blocks == {buf[k] : k \in Pairs}
<1>3. CASE WriteFill(p) /\ ~Crash(AccessFault(blocks))
  <2>1. mem' = [b \in DOMAIN mem |->
                  IF b \in blocks
                  THEN Pattern(CHOOSE k \in Pairs : buf[k] = b) ELSE mem[b]]
    BY <1>3 DEF WriteFill
  <2>2. ASSUME NEW k \in Pairs
        PROVE  mem'[buf[N + k]] = mem[buf[N + k]]
    <3>1. buf[N + k] \notin blocks
      BY <1>1, DestinationsApart
    <3>2. buf[N + k] \in DOMAIN mem
      BY <1>1, PairSlots DEF Live
    <3> QED BY <2>1, <3>1, <3>2
  <2>3. ASSUME NEW k \in Pairs
        PROVE  mem'[buf[k]] = Pattern(k)
    <3>1. buf[k] \in blocks /\ buf[k] \in DOMAIN mem
      BY <1>1, PairSlots DEF Live
    <3>2. (CHOOSE j \in Pairs : buf[j] = buf[k]) = k
      BY <1>1, PairSlots DEF Live
    <3> QED BY <2>1, <3>1, <3>2
  <2> QED BY <1>2, <2>1, <2>2, <2>3
<1>4. CASE Crash(AccessFault(blocks))
  BY <1>2, <1>4 DEF Crash, memory, process, history
<1>5. CASE ~WriteFill(p)
  BY <1>2, <1>5
     DEF ProcessStep, WriteCall, ReadCall, Proceed, SgInit, SgSet, WritePrep,
         WriteSubmit, WriteIssue, WriteWait, WriteSleep, WriteUnmap, ReadCompare,
         ReadReturn, Crash, memory
<1> QED BY <1>3, <1>4, <1>5

(* No process writes to a destination.                                     *)
LEMMA ProcessArrived ==
  ASSUME NEW p \in Procs, CallsOnOpen, Resources, ProcessStep(p)
  PROVE  \A q \in Positions : Arrived(q)' <=> Arrived(q)
<1> TAKE q \in Positions
<1>1. Pair(q) \in Pairs
  BY PositionType
<1> QED BY <1>1, ProcessBlocks DEF Arrived, Pair, Half

(* What a process step does to the history of the writes.                  *)
LEMMA ProcessHistory ==
  ASSUME NEW p \in Procs, TypeInv, ProcessStep(p)
  PROVE  /\ UNCHANGED dma_error
         /\ transferred' = transferred \/ (transferred' /\ pc[p] = "unmap")
         /\ dma_m2m_ok' > 0 => dma_m2m_ok > 0
         /\ pc'[p] = "unmap" => pc[p] = "unmap" \/ dma_m2m_ok > 0
         /\ pc'[p] \in Writing \ {"fill"} =>
              pc[p] \in Writing \ {"fill"} \/ WriteFill(p)
<1>1. pc \in [Procs -> Labels] /\ dma_m2m_ok \in Nat
  BY DEF TypeInv, TypeOK
<1>2. UNCHANGED dma_error
  BY DEF ProcessStep, WriteCall, ReadCall, Proceed, WriteFill, SgInit, SgSet,
         WritePrep, WriteSubmit, WriteIssue, WriteWait, WriteSleep, WriteUnmap,
         ReadCompare, ReadReturn, Crash, history
<1>3. transferred' = transferred \/ (transferred' /\ pc[p] = "unmap")
  <2>1. CASE WriteUnmap(p)
    BY <2>1 DEF WriteUnmap
  <2>2. CASE ~WriteUnmap(p)
    <3>1. UNCHANGED transferred
      BY <2>2
         DEF ProcessStep, WriteCall, ReadCall, Proceed, WriteFill, SgInit, SgSet,
             WritePrep, WriteSubmit, WriteIssue, WriteWait, WriteSleep,
             ReadCompare, ReadReturn, Crash, history
    <3> QED BY <3>1
  <2> QED BY <2>1, <2>2
<1>4. dma_m2m_ok' > 0 => dma_m2m_ok > 0
  BY <1>1
     DEF ProcessStep, WriteCall, ReadCall, Proceed, WriteFill, SgInit, SgSet,
         WritePrep, WriteSubmit, WriteIssue, WriteWait, WriteSleep, WriteUnmap,
         ReadCompare, ReadReturn, Crash, globals
<1>5. CASE UNCHANGED process
  BY <1>2, <1>3, <1>4, <1>5 DEF process
<1>6. CASE ~UNCHANGED process
  <2>1. /\ pc'[p] = "unmap" => pc[p] = "unmap" \/ dma_m2m_ok > 0
        /\ pc'[p] \in Writing \ {"fill"} =>
             pc[p] \in Writing \ {"fill"} \/ WriteFill(p)
    BY <1>1, <1>6
       DEF ProcessStep, WriteCall, ReadCall, Proceed, SgInit, SgSet, WritePrep,
           WriteSubmit, WriteIssue, WriteWait, WriteSleep, WriteUnmap,
           ReadCompare, ReadReturn, Crash, process, Goto, Writing, WriteFill
  <2> QED BY <1>2, <1>3, <1>4, <2>1
<1> QED BY <1>5, <1>6

(* The sources are filled before anything is submitted, and stay filled.   *)
LEMMA ProcessSources ==
  ASSUME NEW p \in Procs, TypeInv, CallsOnOpen, Resources, SourcesFilled,
         ProcessStep(p)
  PROVE  SourcesFilled'
<1>1. /\ UNCHANGED buf
      /\ \/ /\ UNCHANGED mem
            /\ WriteFill(p) => UNCHANGED <<pc, transferred>>
         \/ \A k \in Pairs : mem'[buf[k]] = Pattern(k)
  BY ProcessBlocks
<1>2. \A q \in Procs \ {p} : pc'[q] = pc[q]
  BY ProcessCalls
<1>3. IsOpen
  BY ProcessOpen
<1>4. CASE UNCHANGED mem /\ (WriteFill(p) => UNCHANGED <<pc, transferred>>)
  <2> SUFFICES ASSUME (\E q \in Procs : pc'[q] \in Writing \ {"fill"})
                        \/ transferred'
               PROVE  \A k \in Pairs : mem[buf[k]] = Pattern(k)
    BY <1>1, <1>4 DEF SourcesFilled, Pattern
  <2>1. (\E q \in Procs : pc[q] \in Writing \ {"fill"}) \/ transferred
    <3>1. CASE WriteFill(p)
      BY <1>4, <3>1
    <3>2. CASE ~WriteFill(p)
      BY <1>2, <3>2, ProcessHistory DEF Writing
    <3> QED BY <3>1, <3>2
  <2> QED BY <1>3, <2>1 DEF SourcesFilled
<1>5. CASE \A k \in Pairs : mem'[buf[k]] = Pattern(k)
  BY <1>1, <1>5 DEF SourcesFilled, Pattern
<1> QED BY <1>1, <1>4, <1>5

(* The halves before the position of the running transaction have          *)
(* arrived; processes do not change that.                                  *)
LEMMA ProcessHead ==
  ASSUME NEW p \in Procs, TypeInv, CallsOnOpen, Resources, PendingSet,
         HeadArrived, ProcessStep(p)
  PROVE  HeadArrived'
<1>1. \A q \in Positions : Arrived(q)' <=> Arrived(q)
  BY ProcessArrived
<1>2. CASE WriteIssue(p) /\ dma_m2m_chan # NULL
  <2> DEFINE c == dma_m2m_chan
             s == submitted[c]
             t == queue[c]
             m == Len(t)
             n == Len(s)
  <2>1. queue' = [queue EXCEPT ![c] = t \o s]
    BY <1>2 DEF WriteIssue
  <2>2. /\ c \in Channels /\ queue \in [Channels -> Seq(Transactions)]
        /\ t \in Seq(Transactions) /\ s \in Seq(Transactions) /\ s \in Seq(Fresh)
    BY <1>2 DEF TypeInv, TypeOK, PendingSet
  <2>3. /\ t \o s \in Seq(Transactions) /\ Len(t \o s) = m + n
        /\ \A i \in 1 .. m + n : (t \o s)[i] = IF i <= m THEN t[i] ELSE s[i - m]
    BY <2>2, ConcatProperties
  <2>4. m \in Nat /\ n \in Nat /\ (t = <<>> <=> m = 0) /\ (s = <<>> <=> n = 0)
    BY <2>2, LenProperties, EmptySeq
  <2>5. t \o s # <<>> => m + n # 0
    BY <2>3, EmptySeq
  <2>6. n # 0 => s[1].pos = 0
    <3>1. n # 0 => 1 \in 1 .. n
      <4> HIDE DEF n
      <4> QED BY <2>4
    <3>2. n # 0 => s[1] \in Fresh
      BY <2>2, <3>1, ElementOfSeq
    <3> QED BY <3>2 DEF Fresh
  <2> DEFINE r == t \o s
  <2>7. ASSUME r # <<>>, NEW q \in Positions, q < r[1].pos
        PROVE  Arrived(q)
    <3>1. CASE m # 0
      <4>1. r[1] = t[1]
        <5> HIDE DEF m, n, r, t, s
        <5>1. 1 \in 1 .. m + n /\ 1 <= m
          BY <2>4, <3>1
        <5> QED BY <2>3, <5>1 DEF r
      <4> QED BY <2>2, <2>4, <2>7, <3>1, <4>1 DEF HeadArrived
    <3>2. CASE m = 0
      <4>1. n # 0 /\ r[1] = s[1]
        <5> HIDE DEF m, n, t, s
        <5>1. n # 0
          BY <2>4, <2>5, <2>7, <3>2 DEF r
        <5>2. 1 \in 1 .. m + n /\ ~(1 <= m) /\ 1 - m = 1
          BY <2>4, <3>2, <5>1
        <5> QED BY <2>3, <5>1, <5>2 DEF r
      <4>2. q < 0
        BY <2>6, <2>7, <4>1
      <4> QED BY <4>2, SdmaAssumption DEF Positions
    <3> QED BY <3>1, <3>2
  <2> HIDE DEF r
  <2>8. \A e \in Channels : queue'[e] = IF e = c THEN r ELSE queue[e]
    BY <2>1, <2>2 DEF r
  <2> QED BY <1>1, <2>7, <2>8 DEF HeadArrived
<1>3. CASE ~(WriteIssue(p) /\ dma_m2m_chan # NULL)
  <2>1. UNCHANGED queue
    BY <1>3
       DEF ProcessStep, WriteCall, ReadCall, Proceed, WriteFill, SgInit, SgSet,
           WritePrep, WriteSubmit, WriteIssue, WriteWait, WriteSleep, WriteUnmap,
           ReadCompare, ReadReturn, Crash, engine
  <2> QED BY <1>1, <2>1 DEF HeadArrived
<1> QED BY <1>2, <1>3

(* Nor do they undo what has arrived, or change what an open finds.        *)
LEMMA ProcessAll ==
  ASSUME NEW p \in Procs, TypeInv, CallsOnOpen, Resources, InOrder, AllArrived,
         ProcessStep(p)
  PROVE  InOrder' /\ AllArrived' /\ AllocBlank'
<1>1. \A q \in Positions : Arrived(q)' <=> Arrived(q)
  BY ProcessArrived
<1>2. IsOpen /\ UNCHANGED place /\ \A f \in Files : place[f] # "alloc"
  BY ProcessOpen, ProcessFrame, OpenLive DEF Frame
<1>3. \A q \in Procs \ {p} : pc'[q] = pc[q]
  BY ProcessCalls
<1>4. Completed' => Completed
  BY <1>3, ProcessHistory DEF Completed
<1>5. InOrder' /\ AllArrived'
  BY <1>1, <1>2, <1>4, ProcessHistory DEF InOrder, AllArrived, Positions
<1>6. AllocBlank'
  BY <1>2 DEF AllocBlank
<1> QED BY <1>5, <1>6

(* A read compares only what is there to compare.                          *)
LEMMA SameArrived ==
  ASSUME TypeInv, Live, \A k \in Pairs : mem[buf[k]] = Pattern(k),
         NEW k \in Pairs
  PROVE  /\ Same(k) => Seen(k)
         /\ (\A q \in Positions : Arrived(q)) => Same(k)
<1>1. /\ mem[buf[k]]["lo"] = k /\ mem[buf[k]]["hi"] = k
  BY DEF Pattern, Halves
<1>2. /\ Pair(2 * (k - 1)) = k /\ Half(2 * (k - 1)) = "lo"
      /\ Pair(2 * (k - 1) + 1) = k /\ Half(2 * (k - 1) + 1) = "hi"
      /\ 2 * (k - 1) \in Positions /\ 2 * (k - 1) + 1 \in Positions
  BY PositionType
<1>3. /\ Arrived(2 * (k - 1)) <=> mem[buf[N + k]]["lo"] = k
      /\ Arrived(2 * (k - 1) + 1) <=> mem[buf[N + k]]["hi"] = k
  BY <1>2 DEF Arrived
<1>4. Same(k) => Seen(k)
  BY <1>1, <1>3 DEF Same, Seen, Halves
<1>5. (\A q \in Positions : Arrived(q)) => Same(k)
  BY <1>1, <1>2, <1>3 DEF Same, Halves
<1> QED BY <1>4, <1>5

(* The last pair is compared in full, and it is the last to arrive.        *)
LEMMA LastSeen ==
  ASSUME IsOpen, InOrder, Seen(N)
  PROVE  \A q \in Positions : Arrived(q)
<1>1. N \in Nat /\ N \notin HalfPairs /\ N # 0
  BY SdmaAssumption
<1>2. Arrived(2 * (N - 1) + 1)
  BY <1>1 DEF Seen
<1>3. 2 * (N - 1) + 1 = 2 * N - 1 /\ 2 * N - 1 \in Positions
  BY <1>1 DEF Positions
<1>4. \A q \in Positions : q < 2 * N - 1 \/ q = 2 * N - 1
  BY <1>1 DEF Positions
<1> QED BY <1>2, <1>3, <1>4 DEF InOrder

(* A read passes or falls on the way it should.                            *)
LEMMA ReadCompared ==
  ASSUME NEW p \in Procs, TypeInv, CallsOnOpen, Resources, SourcesFilled,
         InOrder, AllArrived, Compared, ReadCompare(p), ~UNCHANGED process,
         call[p].after
  PROVE  /\ call'[p].after /\ transferred
         /\ pc'[p] = "compare" =>
              \A k \in Pairs : k < call'[p].k => Seen(k)
         /\ pc'[p] = "passed" => \A q \in Positions : Arrived(q)
         /\ pc'[p] = "falled" => dma_error
<1> DEFINE n == call[p].k
<1>1. /\ pc[p] = "compare" /\ pc \in [Procs -> Labels]
      /\ \/ /\ Same(n)
            /\ call' = [call EXCEPT ![p].k = n + 1]
            /\ Goto(p, IF n = N THEN "passed" ELSE "compare")
         \/ /\ ~Same(n)
            /\ Goto(p, "falled")
            /\ UNCHANGED call
  BY DEF ReadCompare, Crash, process, TypeInv, TypeOK
<1>2. n \in Pairs /\ call \in [Procs -> Calls] /\ call[p] \in Calls
  BY <1>1 DEF TypeInv, CompareInRange, TypeOK
<1>3. IsOpen /\ Live
  BY <1>1, OpenLive DEF CallsOnOpen, IsOpen
<1>4. transferred /\ \A k \in Pairs : k < n => Seen(k)
  BY <1>1 DEF Compared
<1>5. \A k \in Pairs : mem[buf[k]] = Pattern(k)
  BY <1>3, <1>4 DEF SourcesFilled
<1>6. CASE /\ Same(n)
           /\ call' = [call EXCEPT ![p].k = n + 1]
           /\ Goto(p, IF n = N THEN "passed" ELSE "compare")
  <2>1. call'[p].after = call[p].after /\ call'[p].k = n + 1
    BY <1>2, <1>6 DEF Calls
  <2>2. pc'[p] = IF n = N THEN "passed" ELSE "compare"
    BY <1>1, <1>6 DEF Goto
  <2>3. Seen(n)
    BY <1>2, <1>3, <1>5, <1>6, SameArrived
  <2> HIDE DEF n
  <2>4. \A k \in Pairs : k < n + 1 => k < n \/ k = n
    BY <1>2 DEF Pairs
  <2>5. n = N => \A q \in Positions : Arrived(q)
    BY <1>3, <2>3, LastSeen
  <2> QED BY <1>4, <2>1, <2>2, <2>3, <2>4, <2>5
<1>7. CASE ~Same(n) /\ Goto(p, "falled") /\ UNCHANGED call
  <2>1. pc'[p] = "falled"
    BY <1>1, <1>7 DEF Goto
  <2>2. ~(\A q \in Positions : Arrived(q))
    BY <1>2, <1>3, <1>5, <1>7, SameArrived
  <2>3. dma_error
    BY <1>3, <1>4, <2>2 DEF AllArrived, Completed
  <2> QED BY <1>4, <1>7, <2>1, <2>3
<1> QED BY <1>1, <1>6, <1>7

(* What read has passed has arrived; the steps of processes keep that.     *)
LEMMA ProcessCompared ==
  ASSUME NEW p \in Procs, Typed, CallsOnOpen, Resources, SourcesFilled,
         InOrder, AllArrived, Compared, ProcessStep(p)
  PROVE  Compared'
<1>1. \A q \in Positions : Arrived(q)' <=> Arrived(q)
  BY ProcessArrived
<1>2. \A k \in Pairs : Seen(k)' <=> Seen(k)
  BY <1>1, PositionType DEF Seen
<1>3. \A q \in Procs \ {p} : pc'[q] = pc[q] /\ call'[q] = call[q]
  BY ProcessCalls DEF Typed
<1>4. (transferred => transferred') /\ UNCHANGED dma_error
  <2>1. CASE WriteUnmap(p)
    BY <2>1 DEF WriteUnmap
  <2>2. CASE ~WriteUnmap(p)
    <3>1. UNCHANGED transferred
      BY <2>2
         DEF ProcessStep, WriteCall, ReadCall, Proceed, WriteFill, SgInit, SgSet,
             WritePrep, WriteSubmit, WriteIssue, WriteWait, WriteSleep,
             ReadCompare, ReadReturn, Crash, history
    <3> QED BY <3>1, ProcessHistory DEF Typed
  <2> QED BY <2>1, <2>2, ProcessHistory DEF Typed
<1>5. pc \in [Procs -> Labels] /\ call \in [Procs -> Calls]
  BY DEF Typed, TypeInv, TypeOK
<1>6. ASSUME call'[p].after, pc'[p] \in {"compare", "passed", "falled"}
      PROVE  /\ transferred
             /\ pc'[p] = "compare" =>
                  \A k \in Pairs : k < call'[p].k => Seen(k)
             /\ pc'[p] = "passed" => \A q \in Positions : Arrived(q)
             /\ pc'[p] = "falled" => dma_error
  <2>1. CASE UNCHANGED process
    BY <1>6, <2>1 DEF process, Compared
  <2>2. CASE ReadCompare(p) /\ ~UNCHANGED process
    <3>1. call'[p].after = call[p].after
      BY <1>5, <2>2 DEF ReadCompare, Crash, process, Calls
    <3> QED BY <1>6, <2>2, <3>1, ReadCompared DEF Typed
  <2>3. CASE ReadCall(p)
    <3>1. PICK f \in Files :
            call' = [call EXCEPT ![p] =
                       [NoCall EXCEPT !.file = f, !.after = transferred]]
      BY <2>3 DEF ReadCall
    <3>2. Goto(p, "compare")
      BY <2>3 DEF ReadCall
    <3>3. pc'[p] = "compare"
      BY <1>5, <3>2 DEF Goto
    <3>4. call'[p].k = 1 /\ call'[p].after = transferred
      BY <1>5, <3>1, NoCallType DEF Typed, NoCall
    <3>5. \A k \in Pairs : ~(k < 1)
      BY SdmaAssumption DEF Pairs
    <3> QED BY <1>6, <3>3, <3>4, <3>5
  <2>4. CASE ~ReadCompare(p) /\ ~ReadCall(p) /\ ~UNCHANGED process
    BY <1>5, <1>6, <2>4
       DEF ProcessStep, WriteCall, Proceed, WriteFill, SgInit, SgSet, WritePrep,
           WriteSubmit, WriteIssue, WriteWait, WriteSleep, WriteUnmap,
           ReadReturn, Crash, process, Goto
  <2> QED BY <2>1, <2>2, <2>3, <2>4
<1>7. ASSUME NEW q \in Procs \ {p}, call'[q].after,
             pc'[q] \in {"compare", "passed", "falled"}
      PROVE  /\ transferred
             /\ pc'[q] = "compare" =>
                  \A k \in Pairs : k < call'[q].k => Seen(k)
             /\ pc'[q] = "passed" => \A r \in Positions : Arrived(r)
             /\ pc'[q] = "falled" => dma_error
  BY <1>3, <1>7 DEF Compared
<1> QED BY <1>1, <1>2, <1>4, <1>6, <1>7 DEF Compared

-----------------------------------------------------------------------------
(* The steps of the engine.                                                *)

(* A copy of a half buffer brings the pattern to its position.             *)
LEMMA CopyArrives ==
  ASSUME NEW c \in Channels, TypeInv, CallsOnOpen, Alone, PendingSet,
         SourcesFilled, DmaCopy(c), ~Crash("stray_dma")
  PROVE  /\ IsOpen
         /\ queue[c][1].pos \in Positions
         /\ \A q \in Positions :
              Arrived(q)' <=> Arrived(q) \/ q = queue[c][1].pos
         /\ \A k \in Pairs : mem'[buf[k]] = mem[buf[k]]
<1> DEFINE d == queue[c][1]
           n == d.pos
           k == Pair(n)
           h == Half(n)
<1>1. queue[c] # <<>> /\ d = Head(queue[c]) /\ d \in Proper
  <2>1. queue[c] # <<>> /\ queue[c] \in Seq(Proper)
    BY DEF DmaCopy, PendingSet
  <2>2. Len(queue[c]) \in Nat /\ Len(queue[c]) # 0
    BY <2>1, LenProperties, EmptySeq
  <2>3. 1 \in 1 .. Len(queue[c])
    BY <2>2
  <2> QED BY <2>1, <2>3, ElementOfSeq, HeadTailProperties
<1>2. n \in Positions
  <2>1. n < 2 * N
    BY <1>1 DEF DmaCopy
  <2>2. n \in 0 .. 2 * N
    BY <1>1 DEF Proper, Transactions
  <2> HIDE DEF n
  <2> QED BY <2>1, <2>2, SdmaAssumption DEF Positions
<1>3. k \in Pairs /\ h \in Halves
  BY <1>2, PositionType
<1>4. mem' = [mem EXCEPT ![buf[N + k]][h] = mem[buf[k]][h]]
  <2>1. mem' = [mem EXCEPT ![d.dst[k]][h] = mem[d.src[k]][h]]
    BY <1>1 DEF DmaCopy, Pair, Half
  <2>2. d.dst[k] = buf[N + k] /\ d.src[k] = buf[k]
    BY <1>1, <1>3 DEF Proper, Sources, Destinations
  <2> QED BY <2>1, <2>2
<1>5. PICK p \in Procs : pc[p] \in {"issue", "wait", "asleep"}
  BY <1>1, PendingWaits
<1>6. IsOpen /\ Live
  BY <1>5, OpenLive DEF CallsOnOpen, IsOpen, Alone
<1>7. mem[buf[k]][h] = k
  BY <1>3, <1>5 DEF SourcesFilled, Writing, Pattern
<1>8. buf' = buf
  BY EngineFrame DEF Frame, Engine
<1>9. ASSUME NEW j \in Pairs
      PROVE  mem'[buf[j]] = mem[buf[j]]
  BY <1>3, <1>4, <1>6, <1>9, DestinationsApart, PairSlots DEF Live
<1>10. ASSUME NEW q \in Positions
       PROVE  Arrived(q)' <=> Arrived(q) \/ q = n
  <2> HIDE DEF n
  <2>1. Pair(q) \in Pairs /\ Half(q) \in Halves
    BY PositionType
  <2> DEFINE a == buf[N + Pair(q)]
             b == buf[N + k]
  <2>2. /\ a \in DOMAIN mem /\ b \in DOMAIN mem
        /\ a = b => Pair(q) = k
    <3>1. N + Pair(q) \in Slots /\ N + k \in Slots
      BY <1>3, <2>1, PairSlots
    <3>2. N + Pair(q) = N + k => Pair(q) = k
      BY <1>3, <2>1, SdmaAssumption DEF Pairs
    <3> QED BY <1>6, <3>1, <3>2 DEF Live
  <2>3. mem[a] \in [Halves -> 0 .. N] /\ mem[b] \in [Halves -> 0 .. N]
    BY <2>2 DEF TypeInv, TypeOK
  <2>4. Arrived(q)' <=> mem'[a][Half(q)] = Pair(q)
    BY <1>8 DEF Arrived, Pair, Half
  <2>5. Arrived(q) <=> mem[a][Half(q)] = Pair(q)
    BY DEF Arrived
  <2> HIDE DEF a, b, k, h
  <2>6. CASE a = b /\ Half(q) = h
    <3>1. q = n
      BY <1>2, <2>2, <2>6, PositionType DEF k, h
    <3>2. mem'[a][Half(q)] = k
      BY <1>3, <1>4, <1>7, <2>2, <2>3, <2>6 DEF b
    <3> QED BY <2>2, <2>4, <2>6, <3>1, <3>2
  <2>7. CASE ~(a = b /\ Half(q) = h)
    <3>1. q # n
      BY <2>7 DEF a, b, k, h
    <3>2. mem'[a][Half(q)] = mem[a][Half(q)]
      <4>1. CASE a # b
        BY <1>4, <2>2, <4>1 DEF b
      <4>2. CASE a = b /\ Half(q) # h
        BY <1>3, <1>4, <2>1, <2>2, <2>3, <4>2 DEF b
      <4> QED BY <2>7, <4>1, <4>2
    <3> QED BY <2>4, <2>5, <3>1, <3>2
  <2> QED BY <2>6, <2>7
<1> QED BY <1>2, <1>6, <1>9, <1>10

(* Half a block more has arrived, and it is the pattern.                   *)
LEMMA CopyTransfer ==
  ASSUME NEW c \in Channels, TypeInv, CallsOnOpen, Alone, PendingSet,
         Transfer, DmaCopy(c), ~Crash("stray_dma")
  PROVE  Transfer'
<1> DEFINE n == queue[c][1].pos
<1> USE DEF Transfer
<1>1. /\ IsOpen /\ n \in Positions
      /\ \A q \in Positions : Arrived(q)' <=> Arrived(q) \/ q = n
      /\ \A k \in Pairs : mem'[buf[k]] = mem[buf[k]]
  BY CopyArrives
<1>2. /\ UNCHANGED <<buf, place, pc, call, transferred, dma_m2m_ok, dma_error>>
      /\ queue[c] # <<>>
      /\ queue' = [queue EXCEPT ![c] = [queue[c] EXCEPT ![1] =
                     [queue[c][1] EXCEPT !.pos = @ + 1]]]
  BY DEF DmaCopy, globals, file, process, history, Crash
<1>3. IsOpen' /\ \A f \in Files : place[f] # "alloc"
  BY <1>1, <1>2, OpenLive DEF IsOpen, Alone
<1>4. \A q \in Positions : q < n => Arrived(q)
  BY <1>2 DEF HeadArrived
<1>5. SourcesFilled'
  BY <1>1, <1>2 DEF SourcesFilled, IsOpen, Pattern
<1>6. InOrder'
  <2> SUFFICES ASSUME NEW q \in Positions, NEW r \in Positions, r < q,
                      Arrived(q)'
               PROVE  Arrived(r)'
    BY DEF InOrder, Positions
  <2> QED BY <1>1, <1>4 DEF InOrder
<1>7. HeadArrived'
  <2> DEFINE e == [queue[c][1] EXCEPT !.pos = @ + 1]
             t == [queue[c] EXCEPT ![1] = e]
  <2>1. queue[c] \in Seq(Transactions) /\ queue \in [Channels -> Seq(Transactions)]
    BY DEF TypeInv, TypeOK
  <2>2. Len(queue[c]) \in Nat /\ Len(queue[c]) # 0
    BY <1>2, <2>1, LenProperties, EmptySeq
  <2>3. 1 \in 1 .. Len(queue[c])
    BY <2>2
  <2>4. queue[c][1] \in Transactions
    BY <2>1, <2>3, ElementOfSeq
  <2>5. t[1] = e /\ e.pos = n + 1
    <3>1. e.pos = n + 1
      BY <2>4 DEF Transactions
    <3>2. 1 \in DOMAIN queue[c]
      BY <2>1, <2>3, LenProperties
    <3> HIDE DEF e
    <3>3. t[1] = e
      BY <3>2
    <3> QED BY <3>1, <3>3
  <2>6. \A a \in Channels : queue'[a] = IF a = c THEN t ELSE queue[a]
    BY <1>2, <2>1
  <2> HIDE DEF t, e
  <2>7. \A q \in Positions : q < n + 1 => Arrived(q) \/ q = n
    <3>1. \A q \in Positions : q < n + 1 => q < n \/ q = n
      <4> HIDE DEF n
      <4> QED BY <1>1 DEF Positions
    <3> QED BY <1>4, <3>1
  <2>8. ASSUME NEW a \in Channels, queue'[a] # <<>>, NEW q \in Positions,
               q < queue'[a][1].pos
        PROVE  Arrived(q)'
    <3>1. CASE a = c
      BY <1>1, <2>5, <2>6, <2>7, <2>8, <3>1
    <3>2. CASE a # c
      BY <1>1, <2>6, <2>8, <3>2 DEF HeadArrived
    <3> QED BY <3>1, <3>2
  <2> QED BY <2>8 DEF HeadArrived, Positions
<1>8. AllArrived'
  BY <1>1, <1>2 DEF AllArrived, Completed, IsOpen, Positions
<1>9. AllocBlank'
  BY <1>2, <1>3 DEF AllocBlank
<1>10. Compared'
  <2>1. \A k \in Pairs : Seen(k) => Seen(k)'
    BY <1>1, PositionType DEF Seen
  <2> QED BY <1>1, <1>2, <2>1 DEF Compared, Positions, Pairs
<1> QED BY <1>5, <1>6, <1>7, <1>8, <1>9, <1>10

(* A transaction that ends without an error has brought everything.        *)
LEMMA EndTransfer ==
  ASSUME NEW c \in Channels, TypeInv, CallsOnOpen, Alone, PendingSet,
         dma_error \in BOOLEAN, Transfer, DmaEnd(c)
  PROVE  Transfer'
<1> USE DEF Transfer
<1> DEFINE d == queue[c][1]
<1>1. /\ queue[c] # <<>>
      /\ UNCHANGED <<mem, buf, place, slot, pc, call, transferred>>
      /\ queue' = [queue EXCEPT ![c] = Tail(@)]
      /\ dma_error' = (dma_error \/ Head(queue[c]).pos < 2 * N)
      /\ dma_m2m_ok' = dma_m2m_ok + 1
  BY DEF DmaEnd, dma_m2m_callback, file, process, memory
<1>2. /\ IsOpen' <=> IsOpen
      /\ \A q \in Positions : Arrived(q)' <=> Arrived(q)
  BY <1>1 DEF IsOpen, Arrived, Pair, Half
<1>3. /\ queue \in [Channels -> Seq(Transactions)] /\ queue[c] \in Seq(Proper)
      /\ \A i \in 2 .. Len(queue[c]) : queue[c][i] \in Fresh
      /\ Fresh \subseteq Proper
      /\ d = Head(queue[c]) /\ d \in Proper
  <2>1. queue[c] \in Seq(Proper)
    BY DEF PendingSet
  <2>2. Len(queue[c]) \in Nat /\ Len(queue[c]) # 0
    BY <1>1, <2>1, LenProperties, EmptySeq
  <2>3. 1 \in 1 .. Len(queue[c])
    BY <2>2
  <2>4. d = Head(queue[c]) /\ d \in Proper
    BY <1>1, <2>1, <2>3, ElementOfSeq, HeadTailProperties
  <2> QED BY <2>1, <2>4 DEF TypeInv, TypeOK, PendingSet, Fresh
<1>4. SourcesFilled'
  BY <1>1, <1>2 DEF SourcesFilled, Pattern
<1>5. InOrder'
  BY <1>2 DEF InOrder, Positions
<1>6. HeadArrived'
  <2>1. Tail(queue[c]) # <<>> => Tail(queue[c])[1] \in Fresh
    BY <1>1, <1>3, QueueTail
  <2>2. \A a \in Channels : queue'[a] = IF a = c THEN Tail(queue[c]) ELSE queue[a]
    BY <1>1, <1>3
  <2>3. \A q \in Positions : ~(q < 0)
    BY SdmaAssumption DEF Positions
  <2>4. ASSUME NEW a \in Channels, queue'[a] # <<>>, NEW q \in Positions,
               q < queue'[a][1].pos
        PROVE  Arrived(q)'
    <3>1. CASE a = c
      BY <2>1, <2>2, <2>3, <2>4, <3>1 DEF Fresh
    <3>2. CASE a # c
      BY <1>2, <2>2, <2>4, <3>2 DEF HeadArrived
    <3> QED BY <3>1, <3>2
  <2> QED BY <2>4 DEF HeadArrived, Positions
<1>7. AllArrived'
  <2> SUFFICES ASSUME ~dma_error', NEW q \in Positions
               PROVE  Arrived(q)
    BY <1>2 DEF AllArrived, Positions
  <2>1. ~(d.pos < 2 * N) /\ d.pos \in 0 .. 2 * N
    BY <1>1, <1>3 DEF Proper, Transactions
  <2>2. q < d.pos
    <3> DEFINE n == d.pos
    <3>1. ~(n < 2 * N) /\ n \in 0 .. 2 * N
      BY <2>1
    <3> HIDE DEF n
    <3>2. q < n
      BY <3>1, SdmaAssumption DEF Positions
    <3> QED BY <3>2 DEF n
  <2> QED BY <1>1, <2>2 DEF HeadArrived
<1>8. AllocBlank'
  BY <1>1 DEF AllocBlank, Owned, Blank
<1>9. Compared'
  <2>1. \A k \in Pairs : Seen(k)' <=> Seen(k)
    BY <1>2, PositionType DEF Seen
  <2>2. dma_error => dma_error'
    BY <1>1
  <2> QED BY <1>1, <1>2, <2>1, <2>2 DEF Compared, Positions, Pairs
<1> QED BY <1>4, <1>5, <1>6, <1>7, <1>8, <1>9

-----------------------------------------------------------------------------
(* The steps of open and release, with nothing under way.                  *)

(* Only the last allocation of an open opens the file.                     *)
LEMMA FileOpens ==
  ASSUME NEW f \in Files, TypeInv, CallsOnOpen, Alone, ~overlap',
         OpenOrRelease(f)
  PROVE  \/ \E e : Crash(e)
         \/ OpenAlloc(f)
         \/ ~IsOpen' /\ (place'[f] = "alloc" => Owned(f)' = {})
<1>1. /\ \A g \in Files \ {f} : place[g] = "closed"
      /\ place \in [Files -> {"closed", "channel", "alloc", "open", "free"}]
      /\ slot \in [Files -> Slots]
  BY Quiet DEF TypeInv, TypeOK
<1>2. CASE OpenChannel(f)
  <2>1. /\ place' = [place EXCEPT ![f] = "alloc"]
        /\ slot' = [slot EXCEPT ![f] = 1]
    BY <1>2 DEF OpenChannel
  <2>2. Owned(f)' = 1 .. 0
    BY <1>1, <2>1 DEF Owned
  <2>3. ~IsOpen'
    BY <1>1, <2>1 DEF IsOpen
  <2> QED BY <2>2, <2>3
<1>3. CASE OpenStart(f) \/ OpenNoChannel(f) \/ OpenNoMemory(f)
  <2>1. \/ place' = [place EXCEPT ![f] = "channel"]
        \/ place' = [place EXCEPT ![f] = "closed"]
    BY <1>3 DEF OpenStart, OpenNoChannel, OpenNoMemory
  <2>2. ~IsOpen' /\ place'[f] # "alloc"
    BY <1>1, <2>1 DEF IsOpen
  <2> QED BY <2>2
<1>4. CASE ReleaseChannel(f)
  <2>1. CASE dma_m2m_chan = NULL
    BY <1>4, <2>1 DEF ReleaseChannel
  <2>2. CASE dma_m2m_chan # NULL
    <3>1. place' = [place EXCEPT ![f] = "free"]
      BY <1>4, <2>2 DEF ReleaseChannel
    <3> QED BY <1>1, <3>1 DEF IsOpen
  <2> QED BY <2>1, <2>2
<1>5. CASE ReleaseFree(f)
  <2>1. CASE \E e : Crash(e)
    BY <2>1
  <2>2. CASE ~\E e : Crash(e)
    <3>1. place[f] = "free" /\ NextSlot(f, "closed")
      BY <1>5, <2>2 DEF ReleaseFree
    <3>2. place' = [place EXCEPT ![f] = "closed"] \/ place' = place
      BY <3>1 DEF NextSlot
    <3> QED BY <1>1, <3>1, <3>2 DEF IsOpen
  <2> QED BY <2>1, <2>2
<1> QED BY <1>2, <1>3, <1>4, <1>5 DEF OpenOrRelease, FileStep

(* A crash changes nothing of it.                                          *)
LEMMA CrashTransfer ==
  ASSUME Transfer, NEW e, Crash(e)
  PROVE  Transfer'
<1>1. UNCHANGED <<buf, mem, place, slot, pc, call, queue, transferred,
                  dma_m2m_ok, dma_error>>
  BY DEF Crash, globals, memory, engine, file, process, history
<1>2. \A q \in Positions : Arrived(q)' <=> Arrived(q)
  BY <1>1 DEF Arrived, Pair, Half
<1>3. \A k \in Pairs : Seen(k)' <=> Seen(k)
  BY <1>2, PositionType DEF Seen
<1>4. SourcesFilled' /\ InOrder' /\ HeadArrived'
  BY <1>1, <1>2
     DEF Transfer, SourcesFilled, InOrder, HeadArrived, IsOpen, Pattern, Positions
<1>5. AllArrived' /\ AllocBlank'
  BY <1>1, <1>2
     DEF Transfer, AllArrived, Completed, IsOpen, AllocBlank, Owned, Positions
<1>6. Compared'
  BY <1>1, <1>2, <1>3 DEF Transfer, Compared, Positions, Pairs
<1> QED BY <1>4, <1>5, <1>6 DEF Transfer

(* Where no call is made and no transaction is queued, there is little to  *)
(* say.                                                                    *)
LEMMA StillTransfer ==
  ASSUME \A p \in Procs : pc'[p] = "idle", dma_m2m_ok' = 0,
         \A c \in Channels : queue'[c] = <<>>,
         IsOpen' => ~transferred' /\ \A q \in Positions : ~Arrived(q)',
         AllocBlank'
  PROVE  Transfer'
<1>1. SourcesFilled'
  BY DEF SourcesFilled, Writing
<1>2. InOrder'
  BY DEF InOrder, Positions
<1>3. HeadArrived' /\ Compared'
  BY DEF HeadArrived, Compared
<1>4. AllArrived'
  BY DEF AllArrived, Completed
<1> QED BY <1>1, <1>2, <1>3, <1>4 DEF Transfer

(* kzalloc clears the buffers.                                             *)
LEMMA AllocTransfer ==
  ASSUME NEW f \in Files, TypeInv, CallsOnOpen, Alone, AllocBlank, ~overlap',
         OpenAlloc(f)
  PROVE  Transfer'
<1> DEFINE i == slot[f]
           b == allocated'
<1>1. OpenOrRelease(f)
  BY DEF OpenOrRelease, FileStep
<1>2. /\ \A p \in Procs : pc'[p] = "idle"
      /\ \A c \in Channels : queue'[c] = <<>>
      /\ dma_m2m_ok' = 0
  BY <1>1, FileQuiet
<1>3. /\ place[f] = "alloc" /\ NextSlot(f, "open") /\ ~transferred'
      /\ b = allocated + 1
      /\ mem' = [a \in DOMAIN mem \union {b} |-> IF a = b THEN Blank ELSE mem[a]]
      /\ buf' = [buf EXCEPT ![i] = b]
  BY DEF OpenAlloc
<1>4. /\ buf \in [Slots -> Pointer] /\ i \in Slots
      /\ allocated \in Nat /\ DOMAIN mem \subseteq 1 .. allocated
      /\ place \in [Files -> {"closed", "channel", "alloc", "open", "free"}]
      /\ slot \in [Files -> Slots]
      /\ \A g \in Files \ {f} : place[g] = "closed"
  BY <1>1, Quiet DEF TypeInv, TypeOK
<1>5. \A j \in 1 .. i - 1 : buf[j] \in DOMAIN mem /\ mem[buf[j]] = Blank
  <2>1. Owned(f) = 1 .. i - 1
    BY <1>3 DEF Owned
  <2> QED BY <1>3, <2>1 DEF AllocBlank, Alone, Resources, BuffersHeld
<1>6. \A j \in 1 .. i : mem'[buf'[j]] = Blank
  <2> HIDE DEF i, b
  <2>1. mem'[buf'[i]] = Blank
    BY <1>3, <1>4
  <2>2. ASSUME NEW j \in 1 .. i, j # i
        PROVE  mem'[buf'[j]] = Blank
    <3>1. j \in 1 .. i - 1
      BY <1>4, <2>2 DEF Slots
    <3>2. buf'[j] = buf[j]
      BY <1>3, <1>4, <2>2, <3>1
    <3> QED BY <1>3, <1>4, <1>5, <3>1, <3>2
  <2> QED BY <2>1, <2>2
<1>7. CASE i = 2 * N
  <2>1. place' = [place EXCEPT ![f] = "open"]
    BY <1>3, <1>7 DEF NextSlot
  <2>2. AllocBlank'
    BY <1>4, <2>1 DEF AllocBlank
  <2>3. ASSUME NEW q \in Positions
        PROVE  ~Arrived(q)'
    <3>1. Pair(q) \in Pairs /\ Half(q) \in Halves
      BY PositionType
    <3>2. N + Pair(q) \in 1 .. i /\ Pair(q) # 0
      BY <1>7, <3>1, PairSlots, SdmaAssumption DEF Slots, Pairs
    <3>3. mem'[buf'[N + Pair(q)]][Half(q)] = 0
      BY <1>6, <3>1, <3>2 DEF Blank
    <3> QED BY <3>2, <3>3 DEF Arrived, Pair, Half
  <2> QED BY <1>2, <1>3, <2>2, <2>3, StillTransfer
<1>8. CASE i # 2 * N
  <2>1. place' = place /\ slot' = [slot EXCEPT ![f] = i + 1]
    BY <1>3, <1>8 DEF NextSlot
  <2>2. ~IsOpen'
    BY <1>3, <1>4, <2>1 DEF IsOpen
  <2>3. Owned(f)' = 1 .. i
    <3>1. slot'[f] - 1 = i
      BY <1>4, <2>1 DEF Slots
    <3> QED BY <1>3, <2>1, <3>1 DEF Owned
  <2>4. AllocBlank'
    BY <1>4, <1>6, <2>1, <2>3 DEF AllocBlank, Blank
  <2> QED BY <1>2, <2>2, <2>4, StillTransfer
<1> QED BY <1>7, <1>8

(* Opens and releases start again with blank buffers.                      *)
LEMMA FileTransfer ==
  ASSUME NEW f \in Files, TypeInv, CallsOnOpen, Alone, Transfer, ~overlap',
         OpenOrRelease(f)
  PROVE  Transfer'
<1>1. CASE \E e : Crash(e)
  BY <1>1, CrashTransfer
<1>2. CASE OpenAlloc(f)
  BY <1>2, AllocTransfer DEF Transfer
<1>3. CASE ~IsOpen' /\ (place'[f] = "alloc" => Owned(f)' = {})
           /\ ~(\E e : Crash(e))
  <2>1. \A g \in Files \ {f} : place'[g] # "alloc"
    <3>1. /\ \A g \in Files \ {f} : place[g] = "closed"
          /\ place \in [Files -> {"closed", "channel", "alloc", "open", "free"}]
      BY Quiet DEF TypeInv, TypeOK
    <3>2. \A g \in Files \ {f} : place'[g] = place[g]
      BY <1>3, <3>1
         DEF OpenOrRelease, OpenStart, FileStep, OpenChannel, OpenNoChannel,
             OpenAlloc, OpenNoMemory, ReleaseFree, ReleaseChannel, NextSlot
    <3> QED BY <3>1, <3>2
  <2>2. AllocBlank'
    BY <1>3, <2>1 DEF AllocBlank
  <2> QED BY <1>3, <2>2, FileQuiet, StillTransfer
<1> QED BY <1>1, <1>2, <1>3, FileOpens

-----------------------------------------------------------------------------
TransferInv ==
  /\ OrderedInv /\ dma_error \in BOOLEAN
  /\ ~overlap /\ ~clash => Transfer

(* Nothing has been transferred initially.                                 *)
LEMMA InitTransfer == Init => TransferInv
<1> SUFFICES ASSUME Init PROVE TransferInv
  OBVIOUS
<1>1. OrderedInv /\ dma_error \in BOOLEAN
  BY InitAlone, InitOrdered DEF OrderedInv, Init
<1>2. SourcesFilled /\ InOrder /\ AllArrived /\ AllocBlank
  BY DEF Init, SourcesFilled, InOrder, AllArrived, AllocBlank, IsOpen, Writing
<1>3. HeadArrived /\ Compared
  BY DEF Init, HeadArrived, Compared
<1> QED BY <1>1, <1>2, <1>3 DEF TransferInv, Transfer

(* Whether the engine has failed is yes or no.                             *)
LEMMA ErrorType ==
  ASSUME dma_error \in BOOLEAN, TypeInv, [Next]_vars
  PROVE  dma_error' \in BOOLEAN
<1>1. ASSUME NEW f \in Files, OpenOrRelease(f)
      PROVE  dma_error' = dma_error
  BY <1>1
     DEF OpenOrRelease, OpenStart, FileStep, OpenChannel, OpenNoChannel,
         OpenAlloc, OpenNoMemory, ReleaseFree, ReleaseChannel, Crash, history
<1>2. ASSUME NEW p \in Procs, ProcessStep(p)
      PROVE  dma_error' = dma_error
  BY <1>2, ProcessHistory
<1>3. ASSUME NEW c \in Channels, Engine(c)
      PROVE  dma_error' \in BOOLEAN
  <2>1. CASE DmaCopy(c)
    BY <2>1 DEF DmaCopy, Crash, history
  <2>2. CASE DmaEnd(c)
    BY <2>2 DEF DmaEnd
  <2> QED BY <1>3, <2>1, <2>2 DEF Engine
<1>4. CASE UNCHANGED vars
  BY <1>4 DEF vars, history
<1> QED
  BY <1>1, <1>2, <1>3, <1>4 DEF Next, Request, Step, OpenOrRelease, ProcessStep

(* Every step keeps the invariant.                                         *)
LEMMA StepTransfer == TransferInv /\ [Next]_vars => TransferInv'
<1> SUFFICES ASSUME TransferInv, [Next]_vars
             PROVE  TransferInv'
  OBVIOUS
<1>1. OrderedInv' /\ dma_error' \in BOOLEAN
  BY StepOrdered, ErrorType DEF TransferInv, OrderedInv, AloneInv, Typed
<1> SUFFICES ASSUME ~overlap', ~clash'
             PROVE  Transfer'
  BY <1>1 DEF TransferInv
<1>2. /\ Typed /\ TypeInv /\ CallsOnOpen /\ Alone /\ Resources /\ PendingSet
      /\ Transfer /\ dma_error \in BOOLEAN
      /\ SourcesFilled /\ InOrder /\ HeadArrived /\ AllArrived /\ Compared
  BY HistoryGrows
     DEF TransferInv, OrderedInv, AloneInv, Typed, Ordered, Alone, Transfer
<1>3. ASSUME NEW f \in Files, OpenOrRelease(f)
      PROVE  Transfer'
  BY <1>2, <1>3, FileTransfer
<1>4. ASSUME NEW p \in Procs, ProcessStep(p)
      PROVE  Transfer'
  BY <1>2, <1>4, ProcessSources, ProcessHead, ProcessAll, ProcessCompared
     DEF Transfer
<1>5. ASSUME NEW c \in Channels, Engine(c)
      PROVE  Transfer'
  BY <1>2, <1>5, CopyTransfer, EndTransfer, CrashTransfer DEF Engine
<1>6. CASE UNCHANGED vars
  <2>1. Crash(fault)
    BY <1>6 DEF vars, Crash
  <2> QED BY <1>2, <2>1, CrashTransfer
<1> QED
  BY <1>3, <1>4, <1>5, <1>6 DEF Next, Request, Step, OpenOrRelease, ProcessStep

(* With one file open at a time and no two writes on one table, a read     *)
(* that begins after a write has returned tells the truth: "passed" only   *)
(* if every destination holds the pattern to the last word, and "falled"   *)
(* only if the engine has ended a transaction early.                       *)
THEOREM ReadsConfirmed == Spec => []ReadConfirms
<1>1. TransferInv => ReadConfirms
  <2> SUFFICES ASSUME TransferInv, ~overlap, ~clash, NEW p \in Procs,
                      call[p].after
               PROVE  /\ pc[p] = "passed" =>
                           \A k \in Pairs : mem[buf[N + k]] = Pattern(k)
                      /\ pc[p] = "falled" => dma_error
    BY DEF ReadConfirms
  <2>1. TypeInv /\ CallsOnOpen /\ Resources /\ Compared
    BY DEF TransferInv, OrderedInv, AloneInv, Typed, Alone, Transfer
  <2>2. CASE pc[p] = "passed"
    <3>1. \A i \in Slots : buf[i] \in DOMAIN mem
      BY <2>1, <2>2, BuffersLive
    <3>2. \A q \in Positions : Arrived(q)
      BY <2>1, <2>2 DEF Compared
    <3> QED BY <2>1, <2>2, <3>1, <3>2, AllPatterns
  <2>3. CASE pc[p] = "falled"
    BY <2>1, <2>3 DEF Compared
  <2> QED BY <2>2, <2>3
<1>2. Spec => []TransferInv
  BY InitTransfer, StepTransfer, PTL DEF Spec
<1> QED BY <1>1, <1>2, PTL

=============================================================================
