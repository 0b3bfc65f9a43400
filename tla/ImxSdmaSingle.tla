--------------------------- MODULE ImxSdmaSingle ---------------------------
(***************************************************************************)
(* The single-buffer SDMA driver (Chapter12/imx-sdma/imx-sdma-single.c):   *)
(* ImxSdma with one source and one destination buffer, which read compares *)
(* to the last word.  The addresses dma_map_single returns are locals of   *)
(* write, so every process has a table of its own.                         *)
(***************************************************************************)
EXTENDS ImxSdma

ASSUME SingleAssumption ==
  /\ N = 1
  /\ \A p, q \in Procs : Table[p] = Table[q] => p = q

sdma_open(f) ==
  \/ OpenStart(f)
  \/ OpenChannel(f) \/ OpenNoChannel(f)
  \/ OpenAlloc(f) \/ OpenNoMemory(f)

sdma_release(f) == ReleaseChannel(f) \/ ReleaseFree(f)

sdma_read(p) == ReadCall(p) \/ ReadCompare(p) \/ ReadReturn(p)

(* The buffer is filled and mapped, and the two addresses become a         *)
(* transaction, ...                                                        *)
Prepare(p) ==
  \/ WriteCall(p) \/ WriteFill(p)
  \/ SgInit(p) \/ SgSet(p)
  \/ WritePrep(p)

(* ... which is submitted, issued and waited for.                          *)
Transfer(p) ==
  \/ WriteSubmit(p) \/ WriteIssue(p)
  \/ WriteWait(p) \/ WriteSleep(p)
  \/ WriteUnmap(p)

sdma_write(p) == Prepare(p) \/ Transfer(p)

SingleNext ==
  /\ fault = "none"
  /\ \/ \E f \in Files : sdma_open(f) \/ sdma_release(f)
     \/ \E p \in Procs : sdma_read(p) \/ sdma_write(p)
     \/ \E c \in Channels : Engine(c)

SingleFairSpec == Init /\ [][SingleNext]_vars /\ Fairness
=============================================================================
