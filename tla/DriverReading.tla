---------------------------- MODULE DriverReading ----------------------------
(***************************************************************************)
(* What a careful reader checks in the text of a driver of DriverModel,    *)
(* without running it: that its init passes on only what it has (orderly), *)
(* that its error paths and its exit give up what it has acquired (tidy),  *)
(* and that nobody touches what is not there (safe).  Module DriverProofs  *)
(* shows what each reading promises for the runs.                          *)
(***************************************************************************)
EXTENDS DriverModel

(* Got(p, k) is what init acquires before its step k; of that, it has for  *)
(* sure, unless a failure has gone unnoticed, what only init, exit and     *)
(* error paths give up and init has not.                                   *)
Got(p, k) == UNION {p.init[i].gets : i \in {j \in 1 .. k - 1 : p.init[j].op \in Acquiring}}
PutBy(steps) == UNION {steps[i].puts : i \in DOMAIN steps}
PutBefore(steps, k) == UNION {steps[i].puts : i \in 1 .. k - 1}

OnceEntries(p) ==
  {p.handlers[h].entry : h \in {g \in DOMAIN p.handlers : p.handlers[g].once}}
HandlersTake(p) ==
  OnceEntries(p) \union UNION {PutBy(p.handlers[h].steps) : h \in DOMAIN p.handlers}

Sure(p, k) == Got(p, k) \ (HandlersTake(p) \union PutBefore(p.init, k))

(* Init passes on only what it has for sure.                               *)
Orderly(p) == \A k \in DOMAIN p.init : p.init[k].needs \subseteq Sure(p, k)

(* What the end of init leaves to exit, and what exit and the core release.*)
Done(p) == Len(p.init) + 1
Ending(p) == p.exit \o p.devres

Releases(steps) ==
  UNION {steps[i].puts : i \in {j \in DOMAIN steps : steps[j].op \in Releasing}}

(* A handler that runs once may give up what it was handed: init acquires  *)
(* it, if at all, before it arms the handler, which it does in one place,  *)
(* with a call that cannot fail unnoticed, and nothing disarms it.         *)
HandsOver(p, h, r) ==
  LET e == p.handlers[h].entry
  IN  /\ p.handlers[h].once /\ r \in PutBy(p.handlers[h].steps)
      /\ \A g \in DOMAIN p.handlers \ {h} : p.handlers[g].entry # e
      /\ \A g \in DOMAIN p.handlers : e \notin PutBy(p.handlers[g].steps)
      /\ e \notin PutBy(p.init)
      /\ \A i \in DOMAIN Ending(p) :
           e \in Ending(p)[i].puts => Ending(p)[i].op = "flush"
      /\ \E j \in DOMAIN p.init :
           /\ p.init[j].op \in {"do", "get"} /\ e \in p.init[j].gets
           /\ \A i \in DOMAIN p.init : /\ e \in p.init[i].gets => i = j
                                       /\ r \in p.init[i].gets => i < j

(* What exit gives up, or somebody for it: a step that releases it, the    *)
(* handler it was handed to once that has run, a step that releases it when*)
(* it is not in use, or one that does if init has acquired it.             *)
GivenUp(p, excuses, r) ==
  \/ r \in Releases(Ending(p))
  \/ \E h \in DOMAIN p.handlers :
       /\ HandsOver(p, h, r)
       /\ \/ "busy" \in excuses
          \/ /\ p.handlers[h].sync
             /\ \E i \in DOMAIN Ending(p) :
                  Ending(p)[i].op = "flush" /\ p.handlers[h].entry \in Ending(p)[i].puts
  \/ /\ "busy" \in excuses
     /\ \/ r \in OnceEntries(p)
        \/ \E i \in DOMAIN Ending(p) :
             Ending(p)[i].op = "put_if_idle" /\ r \in Ending(p)[i].puts
  \/ /\ "ignored" \in excuses /\ Orderly(p)
     /\ \E i \in DOMAIN Ending(p) :
          /\ Ending(p)[i].op = "put_if" /\ r \in Ending(p)[i].puts
          /\ Ending(p)[i].needs \subseteq Sure(p, Done(p)) \ PutBefore(Ending(p), i)

(* Each error path releases what the steps before it have acquired, and    *)
(* exit gives up what init has, where the driver is not excused.           *)
ErrorPathTidy(p, excuses, k) ==
  \/ Got(p, k) \ Values \subseteq Releases(p.init[k].undo \o p.devres)
  \/ "failed" \in excuses /\ ("unmet" \in excuses \/ p.init[k].needs = {})

Tidy(p, excuses) ==
  /\ \A k \in DOMAIN p.init : p.init[k].op = "get" => ErrorPathTidy(p, excuses, k)
  /\ "removed" \in excuses \/ \A r \in Got(p, Done(p)) \ Values : GivenUp(p, excuses, r)

(* All drivers pass this reading, with the excuses they have.              *)
TextTidy == Tidy(prog, LeakExcuses[driver])
TextOrderly == driver \in Careless \/ Orderly(prog)

-----------------------------------------------------------------------------
(* Safe texts, read for the runs a driver is not excused for.              *)

(* What a step has to do with, and what it must really have for it.        *)
Wants(step) == step.uses \union step.puts
Needed(step) == step.uses \union (IF step.op = "put_own" THEN step.puts ELSE {})

(* Where the driver is excused once a handler has woken somebody, the      *)
(* handler is read up to there.                                            *)
Heard(steps, excuses) ==
  {i \in DOMAIN steps : "woken" \in excuses => \A j \in 1 .. i - 1 : steps[j].op # "wake"}
WorksOn(steps, excuses) == UNION {Wants(steps[i]) : i \in Heard(steps, excuses)}
GivesUp(steps, excuses) == UNION {steps[i].puts : i \in Heard(steps, excuses)}

UsesUp(h, excuses) ==
  GivesUp(h.steps, excuses) \union (IF h.once THEN {h.entry} ELSE {})

(* What init has at its step k, whatever its handlers have done by then: a *)
(* call whose failure goes unnoticed counts where that is excused.         *)
Counts(p, excuses, step) ==
  \/ step.op \in {"do", "get"}
  \/ step.op = "try" /\ "ignored" \in excuses /\ ("unmet" \in excuses \/ Orderly(p))

ArmedBy(p, k) == {h \in DOMAIN p.handlers : p.handlers[h].entry \in Got(p, k)}

Firm(p, excuses, k) ==
  (UNION {p.init[i].gets : i \in {j \in 1 .. k - 1 : Counts(p, excuses, p.init[j])}})
    \ (PutBefore(p.init, k) \union UNION {UsesUp(p.handlers[h], excuses) : h \in ArmedBy(p, k)})

(* Init does not come past a call that asks for what nobody has acquired,  *)
(* where that is excused.                                                  *)
Reached(p, excuses, k) ==
  "unmet" \in excuses =>
    \A j \in 1 .. k - 1 : p.init[j].op \in Acquiring => p.init[j].needs \subseteq Got(p, j)

(* A step of init touches only what it has for sure, acquires nothing a    *)
(* second time, gives up nothing that an armed handler works on, and arms  *)
(* a handler only when all is there that the handler works on.             *)
InitSafe(p, excuses, k) ==
  LET step == p.init[k]
  IN  /\ Wants(step) \subseteq Firm(p, excuses, k)
      /\ step.op \in Acquiring => step.gets \intersect Got(p, k) = {}
      /\ \A h \in DOMAIN p.handlers :
           LET work == WorksOn(p.handlers[h].steps, excuses)
           IN  /\ h \in ArmedBy(p, k) => step.puts \intersect work = {}
               /\ step.op \in Acquiring /\ p.handlers[h].entry \in step.gets =>
                    work \subseteq Firm(p, excuses, k) \union step.gets

(* A handler is one that init arms, and touches nothing that it, or another*)
(* handler, has given up.                                                  *)
HandlerSafe(p, excuses, h) ==
  LET steps == p.handlers[h].steps
  IN  /\ p.handlers[h].entry \in Got(p, Done(p))
      /\ \A i \in Heard(steps, excuses) : Wants(steps[i]) \intersect PutBefore(steps, i) = {}
      /\ GivesUp(steps, excuses) # {} => p.handlers[h].once
      /\ \A g \in DOMAIN p.handlers :
           LET work == WorksOn(p.handlers[g].steps, excuses)
           IN  /\ g # h => GivesUp(steps, excuses) \intersect work = {}
               /\ p.handlers[h].once => p.handlers[h].entry \notin work

(* An ending releases nothing a second time, and uses only what init had   *)
(* for sure and nobody has given up.                                       *)
HandlersPut(p) == UNION {PutBy(p.handlers[h].steps) : h \in DOMAIN p.handlers}

EndingSafe(p, steps, firm) ==
  \A i \in DOMAIN steps :
    /\ steps[i].puts \intersect
         (PutBy(p.init) \union HandlersPut(p) \union PutBefore(steps, i)) = {}
    /\ Needed(steps[i]) \subseteq firm \ (HandlersTake(p) \union PutBefore(steps, i))

(* An ending makes sure that a handler is called no more, and waits until  *)
(* it has returned, before it gives up anything the handler works on.      *)
Disconnects(step, entry, excuses) ==
  /\ entry \in step.puts
  /\ \/ step.op \in Releasing
     \/ step.op = "put_if" /\ step.needs = {entry}
     \/ step.op = "put_if_idle" /\ "busy" \in excuses

Awaits(step, h) == h.sync /\ Disconnects(step, h.entry, {})

StoppedFirst(steps, excuses, h) ==
  \E j \in DOMAIN steps :
    Awaits(steps[j], h) /\ PutBefore(steps, j) \intersect WorksOn(h.steps, excuses) = {}

(* Exit need not wait for what cannot run while it does, or for what keeps *)
(* the module in memory and works on nothing that exit gives up.           *)
Quiet(p, excuses, h) == "busy" \in excuses \/ (h.pins /\ ~p.device)

Dismissed(p, excuses, h) ==
  \/ StoppedFirst(Ending(p), excuses, h)
  \/ /\ \/ Quiet(p, excuses, h)
        \/ /\ p.device /\ h.pins
           /\ PutBy(Ending(p)) \intersect WorksOn(h.steps, excuses) = {}
     /\ \/ h.once /\ "busy" \in excuses
        \/ \E i \in DOMAIN Ending(p) : Disconnects(Ending(p)[i], h.entry, excuses)

ErrorPathSafe(p, excuses, k) ==
  LET steps == p.init[k].undo \o p.devres
  IN  \/ "failed" \in excuses /\ ("unmet" \in excuses \/ p.init[k].needs = {})
      \/ /\ EndingSafe(p, steps, Firm(p, excuses, k))
         /\ \A h \in ArmedBy(p, k) : StoppedFirst(steps, excuses, p.handlers[h])

ExitSafe(p, excuses) ==
  \/ "removed" \in excuses
  \/ /\ EndingSafe(p, Ending(p), Firm(p, excuses, Done(p)))
     /\ \A h \in DOMAIN p.handlers : Dismissed(p, excuses, p.handlers[h])

Safe(p, excuses) ==
  /\ \A h \in DOMAIN p.handlers : HandlerSafe(p, excuses, h)
  /\ \A k \in DOMAIN p.init : Reached(p, excuses, k) =>
       InitSafe(p, excuses, k) /\ (p.init[k].op = "get" => ErrorPathSafe(p, excuses, k))
  /\ Reached(p, excuses, Done(p)) => ExitSafe(p, excuses)

TextSafe == Safe(prog, FaultExcuses[driver])

=============================================================================
