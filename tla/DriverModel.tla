----------------------------- MODULE DriverModel -----------------------------
(***************************************************************************)
(* The life of a driver in the kernel.  A driver is a record: the steps of *)
(* its init (or probe) and of its exit (or remove), and its handlers, the  *)
(* functions the kernel calls in between: interrupt handlers, timers, work *)
(* items and open files.  This module is the machine that runs one driver, *)
(* chosen at the start; module DriverTables has the drivers.               *)
(*                                                                         *)
(* A step acquires, uses or releases named resources.  The kernel may      *)
(* refuse a resource, a handler may run as soon as its entry point is      *)
(* registered and as long as it stays so, and the code of the module goes  *)
(* away when it is unloaded.  The first invalid access stops the system.   *)
(***************************************************************************)
EXTENDS Naturals, Sequences, FiniteSets

CONSTANTS
  Programs,      (* The drivers: a function from their names to records.   *)
  FaultExcuses,  (* Per driver: the circumstances in which it may fault.   *)
  LeakExcuses,   (* Per driver: those in which it may leave things behind. *)
  Values,        (* Names of what is computed, and owned by nobody.        *)
  Careless,      (* Drivers that pass on what they have not got.           *)
  Sleepers       (* Drivers whose init may sleep for ever.                 *)

StepOps == {"do", "get", "try", "put", "put_own", "put_if", "put_if_idle",
            "flush", "touch", "wake", "wait"}

Acquiring == {"do", "get", "try"}
Releasing == {"put", "put_own", "flush"}

(* A text is a sequence of steps.  An ending (an error path, exit, or what *)
(* the core releases) acquires nothing.                                    *)
IsSequence(s) == s \in Seq({s[i] : i \in DOMAIN s})
IsText(s) == IsSequence(s) /\ \A i \in DOMAIN s : s[i].op \in StepOps
IsEnding(s) == IsText(s) /\ \A i \in DOMAIN s : s[i].op \notin Acquiring

ASSUME ProgramsAssumption ==
  \A d \in DOMAIN Programs :
    /\ IsText(Programs[d].init)
    /\ \A i \in DOMAIN Programs[d].init : IsEnding(Programs[d].init[i].undo)
    /\ IsEnding(Programs[d].exit) /\ IsEnding(Programs[d].devres)
    /\ \A h \in DOMAIN Programs[d].handlers : IsText(Programs[d].handlers[h].steps)

VARIABLES
  driver,     (* The driver that lives here.                               *)
  text,       (* Its module is in memory.                                  *)
  phase,      (* Where it is in its life.                                  *)
  plan,       (* The steps of init, exit or an error path under way ...    *)
  at,         (* ... and which one is next.                                *)
  res,        (* What has become of each of its resources.                 *)
  body,       (* Per handler: the steps it has yet to take.                *)
  condition,  (* What the sleeper in init waits for is true.               *)
  woken,      (* The sleeper has been woken since it last looked.          *)
  seen,       (* History: circumstances met since init began.              *)
  fault       (* History: the first invalid access.                        *)

place == <<phase, plan, at>>
sleep == <<condition, woken>>
vars  == <<driver, text, place, res, body, sleep, seen, fault>>

-----------------------------------------------------------------------------
(* Steps.  uses: the pointers the call dereferences.  needs: arguments     *)
(* without which the call returns an error.  undo: the error path taken    *)
(* when the call fails.                                                    *)
Step(op) ==
  [op |-> op, gets |-> {}, puts |-> {}, uses |-> {}, needs |-> {},
   undo |-> <<>>, sets |-> FALSE]

Do(r, uses) == [Step("do") EXCEPT !.gets = {r}, !.uses = uses]
Get(r, uses, undo) ==
  [Step("get") EXCEPT !.gets = {r}, !.uses = uses, !.undo = undo]
Check(undo) == [Step("get") EXCEPT !.undo = undo]    (* Nothing but a test.*)
Try(r, uses) == [Step("try") EXCEPT !.gets = {r}, !.uses = uses]
Needing(step, rs) == [step EXCEPT !.needs = rs]

Put(rs) == [Step("put") EXCEPT !.puts = rs]
PutUsing(rs, uses) == [Step("put") EXCEPT !.puts = rs, !.uses = uses]
PutOwn(rs) == [Step("put_own") EXCEPT !.puts = rs]
PutIfIdle(rs) == [Step("put_if_idle") EXCEPT !.puts = rs]
PutIf(got, rs) == [Step("put_if") EXCEPT !.needs = got, !.puts = rs]
Flush(rs, uses) == [Step("flush") EXCEPT !.puts = rs, !.uses = uses]

Touch(uses) == [Step("touch") EXCEPT !.uses = uses]
Wake(sets, uses) == [Step("wake") EXCEPT !.sets = sets, !.uses = uses]
Wait(uses) == [Step("wait") EXCEPT !.uses = uses]

(* Handlers.  entry: what makes the kernel call it.  once: each time it is *)
(* armed it runs once.  sync: releasing the entry waits for it to return.  *)
(* pins: while it runs, the module cannot be unloaded.                     *)
Handler(entry, steps) ==
  [entry |-> entry, steps |-> steps, once |-> FALSE, sync |-> FALSE,
   pins |-> FALSE]
Synced(h) == [h EXCEPT !.sync = TRUE]
Pinning(h) == [h EXCEPT !.pins = TRUE]
Once(h) == [h EXCEPT !.once = TRUE]

(* Drivers: a module that does its work when it is loaded, and a driver    *)
(* whose probe is called when a device is bound to it.  devres: what the   *)
(* driver core releases by itself after remove or a failed probe.          *)
NoHandlers == <<>>
Module(init, exit, handlers) ==
  [device |-> FALSE, init |-> init, exit |-> exit, devres |-> <<>>,
   handlers |-> handlers]
Device(init, exit, devres, handlers) ==
  [device |-> TRUE, init |-> init, exit |-> exit, devres |-> devres,
   handlers |-> handlers]

-----------------------------------------------------------------------------
prog == Programs[driver]
Resources == UNION {prog.init[i].gets : i \in DOMAIN prog.init}
Handlers == DOMAIN prog.handlers
Of(h) == prog.handlers[h]

With(status) == {r \in Resources : res[r] = status}
Held == With("held")
Owned == Held \ Values
Running == {h \in Handlers : body[h] # <<>>}
Pending == {h \in Handlers : Of(h).once /\ res[Of(h).entry] = "held"}
Pinned == \E h \in Running : Of(h).pins

Busy(rs) == \E h \in Running : Of(h).entry \in rs
Synchronous(rs) == \E h \in Running : Of(h).sync /\ Of(h).entry \in rs

current == plan[at]
Active == phase \in {"init", "undo", "exit"} /\ at <= Len(plan)

(* What dereferencing the resources rs runs into.                          *)
Misuse(rs) ==
  IF rs \subseteq Held THEN "none"
  ELSE IF rs \intersect With("gone") # {} THEN "use_after_free"
  ELSE "bad_pointer"

Crash(f) ==
  /\ fault' = f
  /\ UNCHANGED <<driver, text, place, res, body, sleep, seen>>

Become(rs, status) == res' = [r \in Resources |-> IF r \in rs THEN status ELSE res[r]]

Begin(p, steps) == phase' = p /\ plan' = steps /\ at' = 1

(* Mutant: a step is passed over.                                          *)
GoOnPast == at' = at + 2 /\ UNCHANGED <<phase, plan>>

GoOn == at' = at + 1 /\ UNCHANGED <<phase, plan>>

-----------------------------------------------------------------------------
(* Loading, binding, unbinding and unloading.                              *)

Insmod ==
  /\ prog.device /\ phase = "idle" /\ ~text
  /\ text' = TRUE
  /\ UNCHANGED <<driver, place, res, body, sleep, seen, fault>>

(* init, or probe.  A driver that has left something behind, or is still   *)
(* being used, is not started again: its trouble shows without that.       *)
Start ==
  /\ phase = "idle" /\ text = prog.device
  /\ Owned = {} /\ Running = {}
  /\ text' = TRUE
  /\ Begin("init", prog.init)
  /\ Become(Resources, "none")
  /\ condition' = FALSE /\ woken' = FALSE /\ seen' = {}
  /\ UNCHANGED <<driver, body, fault>>

(* The end of init, exit or an error path.  A module that has failed or    *)
(* has exited is freed at once.                                            *)
Return ==
  /\ phase \in {"init", "undo", "exit"} /\ at > Len(plan)
  /\ phase' = IF phase = "init" THEN "live" ELSE "idle"
  /\ text' = (phase = "init" \/ prog.device)
  /\ plan' = <<>> /\ at' = 1
  /\ UNCHANGED <<driver, res, body, sleep, seen, fault>>

(* exit, which an open file that pins the module prevents, or remove, which*)
(* nothing prevents.                                                       *)
Remove ==
  /\ phase = "live"
  /\ prog.device \/ ~Pinned
  /\ Begin("exit", prog.exit \o prog.devres)
  /\ seen' = seen \union {"removed"}
                  \union (IF Running \union Pending # {} THEN {"busy"} ELSE {})
  /\ UNCHANGED <<driver, text, res, body, sleep, fault>>

Rmmod ==
  /\ prog.device /\ phase = "idle" /\ text /\ ~Pinned
  /\ text' = FALSE
  /\ UNCHANGED <<driver, place, res, body, sleep, seen, fault>>

-----------------------------------------------------------------------------
(* The steps of init and of its error paths, and of exit.                  *)

(* A call that acquires something and works.                               *)
Acquire ==
  /\ Active /\ current.op \in {"do", "get", "try"}
  /\ current.needs \subseteq Held
  /\ IF Misuse(current.uses) # "none" THEN Crash(Misuse(current.uses)) ELSE
     /\ Become(current.gets, "held")
     /\ GoOn
     /\ UNCHANGED <<driver, text, body, sleep, seen, fault>>

(* Mutant: the code returns the error without its error path.              *)
ErrorPathSkipped == Begin("undo", prog.devres)

ErrorPath == Begin("undo", current.undo \o prog.devres)

(* A call refused for what it was given, or in spite of it.                *)
Circumstance(c) == IF current.needs \subseteq Held THEN c ELSE "unmet"

(* A call that fails and is noticed: init takes the error path.            *)
GetFails ==
  /\ Active /\ current.op = "get" /\ Misuse(current.uses) = "none"
  /\ ErrorPath
  /\ seen' = seen \union {Circumstance("failed")}
  /\ UNCHANGED <<driver, text, res, body, sleep, fault>>

(* A call that fails and is not noticed.                                   *)
TryFails ==
  /\ Active /\ current.op = "try" /\ Misuse(current.uses) = "none"
  /\ Become(current.gets, "failed")
  /\ GoOn
  /\ seen' = seen \union {Circumstance("ignored")}
  /\ UNCHANGED <<driver, text, body, sleep, fault>>

Use ==
  /\ Active /\ current.op = "touch"
  /\ IF Misuse(current.uses) # "none" THEN Crash(Misuse(current.uses)) ELSE
     /\ GoOn
     /\ UNCHANGED <<driver, text, res, body, sleep, seen, fault>>

(* Releasing twice is a fault, and so is releasing what was refused where  *)
(* the call takes it for the caller's own (put_own).  Some calls wait for  *)
(* the handler to return; put_if_idle gives up while its entry is in use,  *)
(* and put_if is for code that tests what it has got.                      *)
ReleaseFault ==
  IF Misuse(current.uses) # "none" THEN Misuse(current.uses)
  ELSE IF current.puts \intersect With("gone") # {} THEN "double_free"
  ELSE IF current.op = "put_own" /\ current.puts \intersect With("failed") # {}
       THEN "not_acquired"
  ELSE "none"

Omitted ==
  \/ current.op = "put_if_idle" /\ Busy(current.puts)
  \/ current.op = "put_if" /\ ~(current.needs \subseteq Held)

Release ==
  /\ Active /\ current.op \in {"put", "put_own", "put_if", "put_if_idle", "flush"}
  /\ ~Synchronous(current.puts)
  /\ current.op = "flush" => current.puts \intersect Held = {}
  /\ IF ReleaseFault # "none" THEN Crash(ReleaseFault) ELSE
     /\ IF Omitted THEN UNCHANGED res ELSE Become(current.puts \intersect Held, "gone")
     /\ GoOn
     /\ UNCHANGED <<driver, text, body, sleep, seen, fault>>

(* wait_event_interruptible tests the condition first, goes back to sleep  *)
(* when it is woken for nothing, and is left on a signal, too.  Leaving    *)
(* and going back to sleep use the wait queue.                             *)
WaitEnds ==
  /\ Active /\ current.op = "wait" /\ condition
  /\ IF Misuse(current.uses) # "none" THEN Crash(Misuse(current.uses)) ELSE
     /\ GoOn
     /\ UNCHANGED <<driver, text, res, body, sleep, seen, fault>>

WaitAgain ==
  /\ Active /\ current.op = "wait" /\ woken /\ ~condition
  /\ IF Misuse(current.uses) # "none" THEN Crash(Misuse(current.uses)) ELSE
     /\ woken' = FALSE
     /\ UNCHANGED <<driver, text, place, res, body, condition, seen, fault>>

WaitSignalled ==
  /\ Active /\ current.op = "wait"
  /\ IF Misuse(current.uses) # "none" THEN Crash(Misuse(current.uses)) ELSE
     /\ GoOn
     /\ seen' = seen \union {"signal"}
     /\ UNCHANGED <<driver, text, res, body, sleep, fault>>

-----------------------------------------------------------------------------
(* Handlers, at most one instance of each at a time.                       *)

(* A release that waits lets no new instance start, and a module on its    *)
(* way out cannot be pinned.                                               *)
Callable(h) ==
  /\ body[h] = <<>> /\ res[Of(h).entry] = "held"
  /\ ~(Active /\ Of(h).sync /\ current.op \in {"put", "put_own", "put_if"}
         /\ Of(h).entry \in current.puts)
  /\ ~(Of(h).pins /\ phase = "exit" /\ ~prog.device)

Call(h) ==
  /\ Callable(h)
  /\ IF ~text THEN Crash("text_gone") ELSE
     /\ body' = [body EXCEPT ![h] = Of(h).steps]
     /\ IF Of(h).once THEN Become({Of(h).entry}, "spent") ELSE UNCHANGED res
     /\ seen' = seen \union (IF phase \in {"init", "live"} THEN {} ELSE {"busy"})
     /\ UNCHANGED <<driver, text, place, sleep, fault>>

HandlerFault(s) ==
  IF ~text THEN "text_gone"
  ELSE IF Misuse(s.uses) # "none" THEN Misuse(s.uses)
  ELSE IF s.puts \intersect With("gone") # {} THEN "double_free"
  ELSE "none"

HandlerStep(h) ==
  LET s == Head(body[h])
  IN  /\ body[h] # <<>>
      /\ IF HandlerFault(s) # "none" THEN Crash(HandlerFault(s)) ELSE
         /\ body' = [body EXCEPT ![h] = Tail(@)]
         /\ Become(s.puts \intersect Held, "gone")
         /\ condition' = (condition \/ s.sets)
         /\ woken' = (woken \/ s.op = "wake")
         /\ seen' = seen \union (IF s.op = "wake" THEN {"woken"} ELSE {})
         /\ UNCHANGED <<driver, text, place, fault>>

-----------------------------------------------------------------------------
Init ==
  /\ driver \in DOMAIN Programs
  /\ text = FALSE
  /\ phase = "idle" /\ plan = <<>> /\ at = 1
  /\ res = [r \in Resources |-> "none"]
  /\ body = [h \in Handlers |-> <<>>]
  /\ condition = FALSE /\ woken = FALSE
  /\ seen = {} /\ fault = "none"

(* What the code does by itself, and what is up to user space, to the      *)
(* hardware and to the kernel's luck.                                      *)
Proceed ==
  Return \/ Acquire \/ GetFails \/ TryFails \/ Use \/ Release \/ WaitEnds \/ WaitAgain

Elsewhere ==
  \/ Insmod \/ Start \/ Remove \/ Rmmod \/ WaitSignalled
  \/ \E h \in Handlers : Call(h) \/ HandlerStep(h)

Next == fault = "none" /\ (Proceed \/ Elsewhere)

Spec == Init /\ [][Next]_vars

(* Init and exit run, what is armed once comes to run, and what releases   *)
(* wait for comes to an end.  Nobody has to close a file or send a signal. *)
Prompt(h) == Of(h).once \/ Of(h).sync

HandlerNames == UNION {DOMAIN Programs[d].handlers : d \in DOMAIN Programs}
CallOnce(h) == h \in Handlers /\ Of(h).once /\ Call(h)
StepPrompt(h) == h \in Handlers /\ Prompt(h) /\ HandlerStep(h)

Fairness ==
  /\ WF_vars(fault = "none" /\ Proceed)
  /\ \A h \in HandlerNames : WF_vars(fault = "none" /\ CallOnce(h))
  /\ \A h \in HandlerNames : WF_vars(fault = "none" /\ StepPrompt(h))

FairSpec == Spec /\ Fairness

-----------------------------------------------------------------------------
Circumstances == {"failed", "ignored", "unmet", "signal", "woken", "removed",
                  "busy"}

(* Every variable keeps its type; in particular no step is taken beyond    *)
(* the end of its plan, and no handler of another driver runs.             *)
TypeOK ==
  /\ driver \in DOMAIN Programs
  /\ text \in BOOLEAN
  /\ phase \in {"idle", "init", "undo", "live", "exit"}
  /\ at \in 1 .. Len(plan) + 1
  /\ \A i \in DOMAIN plan : plan[i].op \in StepOps
  /\ res \in [Resources -> {"none", "held", "failed", "spent", "gone"}]
  /\ DOMAIN body = Handlers
  /\ condition \in BOOLEAN /\ woken \in BOOLEAN
  /\ seen \subseteq Circumstances
  /\ fault \in {"none", "bad_pointer", "use_after_free", "double_free",
                "not_acquired", "text_gone"}

(* Every driver is clean in this sense (no memory, number, interrupt,      *)
(* timer or device stays behind when its init has failed or its exit has   *)
(* returned) but in the circumstances it is excused for.                   *)
NothingLeft ==
  phase = "idle" => (Owned = {} \/ seen \intersect LeakExcuses[driver] # {})

(* No driver uses what it has not got or has given up, releases anything   *)
(* twice, or is called in freed code, but in the circumstances it is       *)
(* excused for: a step that failed, one that failed unnoticed, a signal,   *)
(* its removal, or something of it running or called during its removal.   *)
FaultsExplained ==
  fault # "none" => seen \intersect FaultExcuses[driver] # {}

(* A call is refused for a bad argument only after an earlier failure went *)
(* unnoticed: no driver uses a value before it has computed it.            *)
ArgumentsValid ==
  "unmet" \in seen => (driver \in Careless \/ "ignored" \in seen)

(* init, its error paths and exit return: no driver waits for ever for its *)
(* own handler, and the one that sleeps in init is woken.                  *)
Settles ==
  (phase \in {"init", "undo", "exit"} /\ driver \notin Sleepers)
    ~> (phase \in {"idle", "live"} \/ fault # "none")

-----------------------------------------------------------------------------
(* Statements of the sources that the code does not keep.                  *)

(* The errata of the README (line 28) insert "sleep = 1" before the        *)
(* wake-up of Chapter 3's shared work queue: its sleeper wakes up.         *)
SleeperWakes ==
  (driver \in Sleepers /\ phase = "init") ~> (phase # "init" \/ fault # "none")

(* "the line with `packt-input-button` correspond to the IRQ line for this *)
(* input device" (Chapter17/README.md): when the kernel refuses nothing,   *)
(* the probe of the button succeeds, and it has its interrupt.             *)
ButtonGetsInterrupt ==
  (driver \in Careless /\ phase = "undo") => seen \intersect {"failed", "ignored"} # {}

=============================================================================
