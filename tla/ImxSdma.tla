------------------------------ MODULE ImxSdma ------------------------------
(***************************************************************************)
(* The two SDMA test drivers of Chapter12/imx-sdma, which copy N source    *)
(* buffers (wbuf, wbuf2, wbuf3) to N destination buffers (rbuf, rbuf2,     *)
(* rbuf3) by DMA: imx-sdma-single.c with N = 1, and                        *)
(* imx-sdma-scatter-gather.c with N = 3.                                   *)
(*                                                                         *)
(* The channel, the buffers, the completion and the scatter tables are     *)
(* global and no lock protects them.  A file is opened and released step   *)
(* by step, processes call write and read on open files, and the DMA       *)
(* engine works through the issued transactions of every channel.  Line    *)
(* numbers are those of imx-sdma-scatter-gather.c.                         *)
(***************************************************************************)
EXTENDS Integers, Sequences, FiniteSets, Functions

CONSTANTS
  Procs,      (* Processes and threads that call read and write.           *)
  Files,      (* Open file descriptions of /dev/sdma_test.                 *)
  Channels,   (* General purpose channels of the SDMA.                     *)
  NULL,       (* The null pointer.                                         *)
  N,          (* Buffers copied by a transaction.                          *)
  HalfPairs,  (* The buffers of which read compares the first half only.   *)
  Table       (* The scatter tables a process's write uses.                *)

(* Scatter-gather writes share the global tables sg and sg2; a single      *)
(* write has its two DMA addresses to itself, as a table of its own.       *)
ASSUME SdmaAssumption ==
  /\ N \in Nat \ {0}
  /\ HalfPairs \subseteq 1 .. N - 1
  /\ NULL \notin Channels /\ NULL \notin Nat
  /\ IsFiniteSet(Procs)
  /\ DOMAIN Table = Procs

Pairs == 1 .. N
Slots == 1 .. 2 * N   (* The buffers, in the order open allocates them.    *)
Tables == {Table[p] : p \in Procs}
Halves == {"lo", "hi"}

VARIABLES
  dma_m2m_chan,  (* The channel, or NULL.                                  *)
  dma_m2m_ok,    (* The count of the completion.                           *)
  buf,           (* wbuf, wbuf2, wbuf3, rbuf, rbuf2, rbuf3: blocks or NULL.*)
  sg,            (* Per table: the blocks of its source and destination.   *)
  mem,           (* The contents of the allocated blocks, which are        *)
                 (* numbered in the order of their allocation.             *)
  allocated,     (* Blocks allocated so far.                               *)
  requested,     (* The channels now requested.                            *)
  submitted,     (* Per channel: transactions submitted and not issued.    *)
  queue,         (* Per channel: transactions issued, the oldest running.  *)
  place,         (* Where the open or release of each file is.             *)
  slot,          (* The buffer that open or release handles next.          *)
  pc,            (* Where each process is.                                 *)
  call,          (* The local variables of each process's call.            *)
  overlap,       (* History: two files have been open at once.             *)
  clash,         (* History: two writes have used one table at once.       *)
  failed_opens,  (* History: opens that failed holding a channel.          *)
  transferred,   (* History: a write has returned since the last open.     *)
  dma_error,     (* History: a transaction has ended early.                *)
  fault          (* History: the first invalid access.                     *)

globals == <<dma_m2m_chan, dma_m2m_ok, buf, sg>>
memory  == <<mem, allocated>>
engine  == <<requested, submitted, queue>>
file    == <<place, slot>>
process == <<pc, call>>
history == <<overlap, clash, failed_opens, transferred, dma_error>>
vars    == <<globals, memory, engine, file, process, history, fault>>

-----------------------------------------------------------------------------
Blank == [h \in Halves |-> 0]
Pattern(k) == [h \in Halves |-> k]   (* 0x12121212, 0x34343434, ...        *)

Nothing == [k \in Pairs |-> NULL]
Sources == [k \in Pairs |-> buf[k]]
Destinations == [k \in Pairs |-> buf[N + k]]

NoCall ==
  [file |-> NULL, k |-> 1, chan |-> NULL, src |-> Nothing, dst |-> Nothing,
   after |-> FALSE]

Goto(p, l) == pc' = [pc EXCEPT ![p] = l]

Writing == {"fill", "sg_init", "sg_set", "sg2_init", "sg2_set", "prep", "submit",
            "issue", "wait", "asleep", "lost", "unmap"}

(* What an access of the processor to the blocks bs runs into.             *)
AccessFault(bs) ==
  IF NULL \in bs THEN "null_dereference"
  ELSE IF bs \subseteq DOMAIN mem THEN "none" ELSE "use_after_free"

Crash(f) ==
  /\ fault' = f
  /\ UNCHANGED <<globals, memory, engine, file, process, history>>

-----------------------------------------------------------------------------
(* open.                                                                   *)

(* init_completion forgets the count and whoever sleeps on it.             *)
OpenStart(f) ==
  /\ place[f] = "closed"
  /\ place' = [place EXCEPT ![f] = "channel"]
  /\ dma_m2m_ok' = 0
  /\ pc' = [p \in Procs |-> IF pc[p] = "asleep" THEN "lost" ELSE pc[p]]
  /\ overlap' = (overlap \/ \E g \in Files \ {f} : place[g] # "closed")
  /\ UNCHANGED <<dma_m2m_chan, buf, sg, memory, engine, slot, call, clash,
                 failed_opens, transferred, dma_error, fault>>

OpenChannel(f) ==
  /\ place[f] = "channel"
  /\ \E c \in Channels \ requested :
       /\ dma_m2m_chan' = c
       /\ requested' = requested \union {c}
  /\ place' = [place EXCEPT ![f] = "alloc"]
  /\ slot' = [slot EXCEPT ![f] = 1]
  /\ UNCHANGED <<dma_m2m_ok, buf, sg, memory, submitted, queue, process,
                 history, fault>>

OpenNoChannel(f) ==
  /\ place[f] = "channel"
  /\ dma_m2m_chan' = NULL
  /\ place' = [place EXCEPT ![f] = "closed"]
  /\ UNCHANGED <<dma_m2m_ok, buf, sg, memory, engine, slot, process, history,
                 fault>>

(* Mutant: one buffer too many.                                            *)
NextSlotBeyond(f, l) ==
  IF slot[f] > 2 * N
  THEN place' = [place EXCEPT ![f] = l] /\ UNCHANGED slot
  ELSE slot' = [slot EXCEPT ![f] = @ + 1] /\ UNCHANGED place

(* Open and release go from one buffer to the next, and then to place l.   *)
NextSlot(f, l) ==
  IF slot[f] = 2 * N
  THEN place' = [place EXCEPT ![f] = l] /\ UNCHANGED slot
  ELSE slot' = [slot EXCEPT ![f] = @ + 1] /\ UNCHANGED place

(* kzalloc of the next buffer; the open succeeds with the last one.        *)
OpenAlloc(f) ==
  /\ place[f] = "alloc"
  /\ allocated' = allocated + 1
  /\ mem' = [b \in DOMAIN mem \union {allocated'} |->
               IF b = allocated' THEN Blank ELSE mem[b]]
  /\ buf' = [buf EXCEPT ![slot[f]] = allocated']
  /\ NextSlot(f, "open")
  /\ transferred' = FALSE
  /\ UNCHANGED <<dma_m2m_chan, dma_m2m_ok, sg, engine, process, overlap, clash,
                 failed_opens, dma_error, fault>>

(* Mutant: the result of kzalloc is not tested.                            *)
OpenUntested(f) ==
  /\ place[f] = "alloc"
  /\ buf' = [buf EXCEPT ![slot[f]] = NULL]
  /\ NextSlot(f, "open")
  /\ UNCHANGED <<dma_m2m_chan, dma_m2m_ok, sg, memory, engine, process, history,
                 fault>>

(* kzalloc fails, and the open returns -1 with all it has got so far.      *)
OpenNoMemory(f) ==
  /\ place[f] = "alloc"
  /\ buf' = [buf EXCEPT ![slot[f]] = NULL]
  /\ place' = [place EXCEPT ![f] = "closed"]
  /\ failed_opens' = failed_opens + 1
  /\ UNCHANGED <<dma_m2m_chan, dma_m2m_ok, sg, memory, engine, slot, process,
                 overlap, clash, transferred, dma_error, fault>>

-----------------------------------------------------------------------------
(* release, which the kernel calls when no call on the file is under way.  *)

(* Whether a transaction that is still running stops depends on the engine.*)
ReleaseChannel(f) ==
  /\ place[f] = "open"
  /\ \A p \in Procs : call[p].file # f
  /\ IF dma_m2m_chan = NULL THEN Crash("null_dereference") ELSE
     /\ requested' = requested \ {dma_m2m_chan}
     /\ submitted' = [submitted EXCEPT ![dma_m2m_chan] = <<>>]
     /\ \E running \in {queue[dma_m2m_chan], <<>>} :
          queue' = [queue EXCEPT ![dma_m2m_chan] = running]
     /\ dma_m2m_chan' = NULL
     /\ place' = [place EXCEPT ![f] = "free"]
     /\ slot' = [slot EXCEPT ![f] = 1]
     /\ UNCHANGED <<dma_m2m_ok, buf, sg, memory, process, history, fault>>

(* Mutant: the last buffer is not freed.                                   *)
ReleaseFreeButLast(f) ==
  /\ place[f] = "free"
  /\ mem' = IF slot[f] = 2 * N THEN mem
            ELSE Restrict(mem, DOMAIN mem \ {buf[slot[f]]})
  /\ NextSlot(f, "closed")
  /\ UNCHANGED <<globals, allocated, engine, process, history, fault>>

(* kfree of the next buffer; the pointer keeps its value.                  *)
ReleaseFree(f) ==
  LET b == buf[slot[f]]
  IN  /\ place[f] = "free"
      /\ IF b # NULL /\ b \notin DOMAIN mem THEN Crash("double_free") ELSE
         /\ mem' = Restrict(mem, DOMAIN mem \ {b})
         /\ NextSlot(f, "closed")
         /\ UNCHANGED <<globals, allocated, engine, process, history, fault>>

-----------------------------------------------------------------------------
(* write.                                                                  *)

WriteCall(p) ==
  /\ pc[p] = "idle"
  /\ \E f \in Files :
       /\ place[f] = "open"
       /\ call' = [call EXCEPT ![p] = [NoCall EXCEPT !.file = f]]
  /\ Goto(p, "fill")
  /\ clash' = (clash \/ \E q \in Procs \ {p} :
                          pc[q] \in Writing /\ Table[q] = Table[p])
  /\ UNCHANGED <<globals, memory, engine, file, overlap, failed_opens,
                 transferred, dma_error, fault>>

WriteFill(p) ==
  LET blocks == {buf[k] : k \in Pairs}
  IN  /\ pc[p] = "fill"
      /\ IF AccessFault(blocks) # "none" THEN Crash(AccessFault(blocks)) ELSE
         /\ mem' = [b \in DOMAIN mem |->
                      IF b \in blocks
                      THEN Pattern(CHOOSE k \in Pairs : buf[k] = b) ELSE mem[b]]
         /\ Goto(p, "sg_init")
         /\ UNCHANGED <<globals, allocated, engine, file, call, history, fault>>

(* dmaengine_slave_config follows the channel, then the source table is    *)
(* emptied and set; after that the destination table.                      *)
SgInit(p) ==
  /\ pc[p] \in {"sg_init", "sg2_init"}
  /\ IF pc[p] = "sg_init" /\ dma_m2m_chan = NULL THEN Crash("null_dereference")
     ELSE
     /\ IF pc[p] = "sg_init"
        THEN sg' = [sg EXCEPT ![Table[p]].src = Nothing] /\ Goto(p, "sg_set")
        ELSE sg' = [sg EXCEPT ![Table[p]].dst = Nothing] /\ Goto(p, "sg2_set")
     /\ UNCHANGED <<dma_m2m_chan, dma_m2m_ok, buf, memory, engine, file, call,
                    history, fault>>

SgSet(p) ==
  /\ \/ /\ pc[p] = "sg_set"
        /\ sg' = [sg EXCEPT ![Table[p]].src = Sources]
        /\ Goto(p, "sg2_init")
     \/ /\ pc[p] = "sg2_set"
        /\ sg' = [sg EXCEPT ![Table[p]].dst = Destinations]
        /\ Goto(p, "prep")
  /\ UNCHANGED <<dma_m2m_chan, dma_m2m_ok, buf, memory, engine, file, call,
                 history, fault>>

(* The engine may have no descriptor to give: desc->callback is assigned   *)
(* before desc is tested.                                                  *)
WritePrep(p) ==
  /\ pc[p] = "prep"
  /\ \/ /\ dma_m2m_chan = NULL
        /\ Crash("null_dereference")
     \/ /\ dma_m2m_chan # NULL
        /\ Crash("no_descriptor")
     \/ /\ dma_m2m_chan # NULL
        /\ call' = [call EXCEPT ![p].chan = dma_m2m_chan,
                                ![p].src = sg[Table[p]].src,
                                ![p].dst = sg[Table[p]].dst]
        /\ Goto(p, "submit")
        /\ UNCHANGED <<globals, memory, engine, file, history, fault>>

(* Mutant: source and destination exchanged.                               *)
TransactionSwapped(p) ==
  [proc |-> p, src |-> call[p].dst, dst |-> call[p].src, pos |-> 0]

Transaction(p) ==
  [proc |-> p, src |-> call[p].src, dst |-> call[p].dst, pos |-> 0]

(* The transaction goes to the channel it was prepared for.                *)
WriteSubmit(p) ==
  LET c == call[p].chan
  IN  /\ pc[p] = "submit"
      /\ IF c \notin requested THEN Crash("use_after_free") ELSE
         /\ submitted' = [submitted EXCEPT ![c] = Append(@, Transaction(p))]
         /\ Goto(p, "issue")
         /\ UNCHANGED <<globals, memory, requested, queue, file, call, history,
                        fault>>

(* dma_async_issue_pending reads dma_m2m_chan again.                       *)
WriteIssue(p) ==
  LET c == dma_m2m_chan
  IN  /\ pc[p] = "issue"
      /\ IF c = NULL THEN Crash("null_dereference") ELSE
         /\ queue' = [queue EXCEPT ![c] = @ \o submitted[c]]
         /\ submitted' = [submitted EXCEPT ![c] = <<>>]
         /\ Goto(p, "wait")
         /\ UNCHANGED <<globals, memory, requested, file, call, history, fault>>

(* Mutant: wait_for_completion_timeout, whose result is not looked at.     *)
WriteTimeout(p) ==
  /\ pc[p] \in {"wait", "asleep"}
  /\ dma_m2m_ok' = IF dma_m2m_ok > 0 THEN dma_m2m_ok - 1 ELSE 0
  /\ Goto(p, "unmap")
  /\ UNCHANGED <<dma_m2m_chan, buf, sg, memory, engine, file, call, history,
                 fault>>

(* wait_for_completion goes through when the count is positive, whichever  *)
(* transaction raised it ...                                               *)
WriteWait(p) ==
  /\ pc[p] \in {"wait", "asleep"}
  /\ dma_m2m_ok > 0
  /\ dma_m2m_ok' = dma_m2m_ok - 1
  /\ Goto(p, "unmap")
  /\ UNCHANGED <<dma_m2m_chan, buf, sg, memory, engine, file, call, history,
                 fault>>

(* ... and sleeps on the completion otherwise.                             *)
WriteSleep(p) ==
  /\ pc[p] = "wait"
  /\ dma_m2m_ok = 0
  /\ Goto(p, "asleep")
  /\ UNCHANGED <<globals, memory, engine, file, call, history, fault>>

(* The tables are unmapped and write returns count, whatever the engine    *)
(* has to say of the transaction.                                          *)
WriteUnmap(p) ==
  /\ pc[p] = "unmap"
  /\ transferred' = TRUE
  /\ call' = [call EXCEPT ![p] = NoCall]
  /\ Goto(p, "idle")
  /\ UNCHANGED <<globals, memory, engine, file, overlap, clash, failed_opens,
                 dma_error, fault>>

-----------------------------------------------------------------------------
(* read, which compares the buffers and logs "passed" or "falled".         *)

ReadCall(p) ==
  /\ pc[p] = "idle"
  /\ \E f \in Files :
       /\ place[f] = "open"
       /\ call' = [call EXCEPT ![p] =
                     [NoCall EXCEPT !.file = f, !.after = transferred]]
  /\ Goto(p, "compare")
  /\ UNCHANGED <<globals, memory, engine, file, history, fault>>

(* Mutant: half of every buffer is compared.                               *)
SameHalf(k) == mem[buf[N + k]]["lo"] = mem[buf[k]]["lo"]

Same(k) ==
  \A h \in (IF k \in HalfPairs THEN {"lo"} ELSE Halves) :
    mem[buf[N + k]][h] = mem[buf[k]][h]

(* The next buffer, until one differs or all N have passed.                *)
ReadCompare(p) ==
  LET k == call[p].k
      blocks == {buf[k], buf[N + k]}
  IN  /\ pc[p] = "compare"
      /\ IF AccessFault(blocks) # "none" THEN Crash(AccessFault(blocks)) ELSE
         /\ \/ /\ Same(k)
               /\ call' = [call EXCEPT ![p].k = k + 1]
               /\ Goto(p, IF k = N THEN "passed" ELSE "compare")
            \/ /\ ~Same(k)
               /\ Goto(p, "falled")
               /\ UNCHANGED call
         /\ UNCHANGED <<globals, memory, engine, file, history, fault>>

ReadReturn(p) ==
  /\ pc[p] \in {"passed", "falled"}
  /\ call' = [call EXCEPT ![p] = NoCall]
  /\ Goto(p, "idle")
  /\ UNCHANGED <<globals, memory, engine, file, history, fault>>

-----------------------------------------------------------------------------
(* The engine: on each channel it copies the oldest issued transaction,    *)
(* half a buffer at a time, and calls back when it has ended, also when it *)
(* has ended in an error.                                                  *)

(* Mutant: the callback completes nothing.                                 *)
CallbackLogs == UNCHANGED dma_m2m_ok

dma_m2m_callback == dma_m2m_ok' = dma_m2m_ok + 1

DmaCopy(c) ==
  LET d == Head(queue[c])
      k == (d.pos \div 2) + 1
      h == IF d.pos % 2 = 0 THEN "lo" ELSE "hi"
  IN  /\ queue[c] # <<>>
      /\ d.pos < 2 * N
      /\ IF {d.src[k], d.dst[k]} \subseteq DOMAIN mem
         THEN /\ mem' = [mem EXCEPT ![d.dst[k]][h] = mem[d.src[k]][h]]
              /\ queue' = [queue EXCEPT ![c][1].pos = @ + 1]
              /\ UNCHANGED <<globals, allocated, requested, submitted, file,
                             process, history, fault>>
         ELSE Crash("stray_dma")

DmaEnd(c) ==
  /\ queue[c] # <<>>
  /\ dma_error' = (dma_error \/ Head(queue[c]).pos < 2 * N)
  /\ queue' = [queue EXCEPT ![c] = Tail(@)]
  /\ dma_m2m_callback
  /\ UNCHANGED <<dma_m2m_chan, buf, sg, memory, requested, submitted, file,
                 process, overlap, clash, failed_opens, transferred, fault>>

-----------------------------------------------------------------------------
(* The module has just been loaded.                                        *)
Init ==
  /\ dma_m2m_chan = NULL /\ dma_m2m_ok = 0
  /\ buf = [k \in Slots |-> NULL]
  /\ sg = [t \in Tables |-> [src |-> Nothing, dst |-> Nothing]]
  /\ mem = <<>> /\ allocated = 0
  /\ requested = {}
  /\ submitted = [c \in Channels |-> <<>>] /\ queue = [c \in Channels |-> <<>>]
  /\ place = [f \in Files |-> "closed"] /\ slot = [f \in Files |-> 1]
  /\ pc = [p \in Procs |-> "idle"] /\ call = [p \in Procs |-> NoCall]
  /\ overlap = FALSE /\ clash = FALSE /\ failed_opens = 0
  /\ transferred = FALSE /\ dma_error = FALSE /\ fault = "none"

(* What user space asks for, what a call does then, and the engine.        *)
Request ==
  \/ \E f \in Files : OpenStart(f)
  \/ \E p \in Procs : WriteCall(p) \/ ReadCall(p)

FileStep(f) ==
  \/ OpenChannel(f) \/ OpenNoChannel(f) \/ OpenAlloc(f) \/ OpenNoMemory(f)
  \/ ReleaseFree(f)

Proceed(p) ==
  \/ WriteFill(p) \/ SgInit(p) \/ SgSet(p) \/ WritePrep(p) \/ WriteSubmit(p)
  \/ WriteIssue(p) \/ WriteSleep(p) \/ WriteUnmap(p)
  \/ ReadCompare(p) \/ ReadReturn(p)

Engine(c) == DmaCopy(c) \/ DmaEnd(c)

Step ==
  \/ \E f \in Files : FileStep(f) \/ ReleaseChannel(f)
  \/ \E p \in Procs : Proceed(p) \/ WriteWait(p)
  \/ \E c \in Channels : Engine(c)

Next == fault = "none" /\ (Request \/ Step)

Spec == Init /\ [][Next]_vars

(* Processes run, the engine ends what it has begun, and the completion    *)
(* wakes the process that has slept on it longest.                         *)
Fairness ==
  /\ \A p \in Procs : WF_vars(fault = "none" /\ Proceed(p))
  /\ \A p \in Procs : SF_vars(fault = "none" /\ WriteWait(p))
  /\ \A c \in Channels : WF_vars(fault = "none" /\ Engine(c))

FairSpec == Spec /\ Fairness

-----------------------------------------------------------------------------
Pointer == (1 .. allocated) \union {NULL}
Segments == [Pairs -> Pointer]
Scatter == [src : Segments, dst : Segments]
Transactions == [proc : Procs, src : Segments, dst : Segments, pos : 0 .. 2 * N]
Calls ==
  [file : Files \union {NULL}, k : 1 .. N + 1, chan : Channels \union {NULL},
   src : Segments, dst : Segments, after : BOOLEAN]
Labels == Writing \union {"idle", "compare", "passed", "falled"}

(* Every variable keeps its type: among others, a block is used by number  *)
(* only after it was allocated, and open and release never leave the       *)
(* buffers there are.                                                      *)
TypeOK ==
  /\ dma_m2m_chan \in Channels \union {NULL}
  /\ dma_m2m_ok \in Nat
  /\ buf \in [Slots -> Pointer]
  /\ sg \in [Tables -> Scatter]
  /\ allocated \in Nat /\ failed_opens \in Nat
  /\ DOMAIN mem \subseteq 1 .. allocated
  /\ \A b \in DOMAIN mem : mem[b] \in [Halves -> 0 .. N]
  /\ requested \subseteq Channels
  /\ submitted \in [Channels -> Seq(Transactions)]
  /\ queue \in [Channels -> Seq(Transactions)]
  /\ place \in [Files -> {"closed", "channel", "alloc", "open", "free"}]
  /\ slot \in [Files -> Slots]
  /\ pc \in [Procs -> Labels]
  /\ call \in [Procs -> Calls]

Pending(c) ==
  {submitted[c][i] : i \in DOMAIN submitted[c]}
    \union {queue[c][i] : i \in DOMAIN queue[c]}

(* An element for each transaction that has not ended.                     *)
Unfinished ==
  UNION {{c} \X (1 .. Len(submitted[c]) + Len(queue[c])) : c \in Channels}

(* While no two files have been open at once, every transaction submitted  *)
(* is paid for by exactly one wait: the writes between submit and the end  *)
(* of their wait are as many as the completions not yet taken and the      *)
(* transactions not yet ended.  So no completion of one file is left over  *)
(* for a write of the next, and no write waits for nothing.                *)
CompletionBalance ==
  ~overlap =>
    LET waiting == {p \in Procs : pc[p] \in {"issue", "wait", "asleep"}}
    IN  Cardinality(waiting) = dma_m2m_ok + Cardinality(Unfinished)

(* With one file open at a time, and no two writes sharing a table, every  *)
(* transaction the engine still has works on allocated buffers, also       *)
(* across a release: release frees the buffers without asking the engine,  *)
(* and only the waits of the writes before it make that safe.              *)
DmaIntoLiveBuffers ==
  (~overlap /\ ~clash) =>
    \A c \in Channels : \A d \in Pending(c) : \A k \in Pairs :
      {d.src[k], d.dst[k]} \subseteq DOMAIN mem

(* With one file open at a time, the drivers touch no freed block, free    *)
(* none twice and dereference no null channel or buffer, although an open  *)
(* can fail half way, release leaves its pointers behind and two threads   *)
(* share the file.  (A descriptor the engine does not give is another      *)
(* matter.)                                                                *)
ExclusiveIsMemorySafe ==
  ~overlap => fault \notin {"null_dereference", "use_after_free", "double_free"}

(* With one file open at a time, a closed device holds exactly one channel *)
(* per open that failed for lack of memory, and no buffer if none did:     *)
(* release gives back everything, a failing open nothing.                  *)
LeakAccounting ==
  (~overlap /\ \A f \in Files : place[f] = "closed") =>
    /\ Cardinality(requested) = failed_opens
    /\ failed_opens = 0 => DOMAIN mem = {}

(* A read that begins after a write has returned on the same open file     *)
(* logs the truth, whatever other threads write meanwhile: where all the   *)
(* copies have passed, the destinations hold the pattern to the last word, *)
(* although write does not look at the result of the transaction and read  *)
(* compares half of a buffer only; and a copy has falled only if the       *)
(* engine has.  So a write that is woken by the completion of another      *)
(* write still returns after the data has arrived.                         *)
ReadConfirms ==
  ~(overlap \/ clash) =>
    \A p \in Procs : call[p].after =>
      /\ pc[p] = "passed" => \A k \in Pairs : mem[buf[N + k]] = Pattern(k)
      /\ pc[p] = "falled" => dma_error

(* A write returns, unless two files were open at once (which can put its  *)
(* transaction on a channel nobody issues, or forget that it sleeps) or an *)
(* invalid access stopped the system.                                      *)
WriteReturns ==
  \A p \in Procs :
    pc[p] \in Writing ~> (pc[p] \notin Writing \/ overlap \/ fault # "none")

-----------------------------------------------------------------------------
(* Statements of the sources that the code does not keep.                  *)

(* "Once the transaction is done, we need to" unmap (line 248): a write    *)
(* unmaps its buffers when its own transaction has ended.                  *)
UnmapAfterDone ==
  \A p \in Procs : pc[p] = "unmap" =>
    \A c \in Channels : \A d \in Pending(c) : d.proc # p

=============================================================================
