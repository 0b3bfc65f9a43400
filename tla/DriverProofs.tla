---------------------------- MODULE DriverProofs ----------------------------
(***************************************************************************)
(* Proofs about DriverModel, for every set of drivers: every variable keeps*)
(* its type, and what a reader finds in the text of a driver holds for its *)
(* runs.  A driver that is orderly in its text passes on nothing it has not*)
(* got, one that is tidy leaves nothing behind, and one that is safe does  *)
(* not fault, however the kernel refuses resources and whenever handlers   *)
(* run.                                                                    *)
(***************************************************************************)
EXTENDS DriverReading, TLAPS

Phases == {"idle", "init", "undo", "live", "exit"}

(* What the steps of a text are numbered by.                               *)
LEMMA OneSequence ==
  ASSUME NEW s, IsSequence(s)
  PROVE  Len(s) \in Nat /\ DOMAIN s = 1 .. Len(s)
BY DEF IsSequence

-----------------------------------------------------------------------------
(* Every variable keeps its type, in any driver.                           *)
Statuses == {"none", "held", "failed", "spent", "gone"}

(* The ending of a phase is two endings, one after the other: it is an     *)
(* ending.                                                                 *)
LEMMA JoinedText ==
  ASSUME NEW s, NEW t, IsEnding(s), IsEnding(t)
  PROVE  /\ Len(s \o t) \in Nat
         /\ DOMAIN (s \o t) = 1 .. Len(s \o t)
         /\ \A i \in DOMAIN (s \o t) :
              (s \o t)[i].op \in StepOps /\ (s \o t)[i].op \notin Acquiring
<1> DEFINE S == {s[i] : i \in DOMAIN s} \union {t[i] : i \in DOMAIN t}
<1>1. s \in Seq(S) /\ t \in Seq(S)
  BY DEF IsEnding, IsText, IsSequence
<1>2. \A x \in S : x.op \in StepOps /\ x.op \notin Acquiring
  BY DEF IsEnding, IsText
<1> HIDE DEF S
<1>3. s \o t \in Seq(S)
  BY <1>1
<1> QED BY <1>2, <1>3

(* What does not depend on the plan.                                       *)
Kept ==
  /\ driver \in DOMAIN Programs
  /\ text \in BOOLEAN
  /\ res \in [Resources -> Statuses]
  /\ DOMAIN body = Handlers
  /\ condition \in BOOLEAN /\ woken \in BOOLEAN
  /\ seen \subseteq Circumstances
  /\ fault \in {"none", "bad_pointer", "use_after_free", "double_free",
                "not_acquired", "text_gone"}

(* What does.                                                              *)
Planned ==
  /\ phase \in Phases
  /\ Len(plan) \in Nat /\ DOMAIN plan = 1 .. Len(plan)
  /\ at \in 1 .. Len(plan) + 1
  /\ \A i \in DOMAIN plan :
       /\ plan[i].op \in StepOps
       /\ plan[i].op = "get" => IsEnding(plan[i].undo)

Typed == Kept /\ Planned

(* The texts of the driver that runs are what the machine asks of texts.   *)
LEMMA DriverTexts ==
  ASSUME Typed
  PROVE  /\ IsText(prog.init) /\ IsEnding(prog.exit) /\ IsEnding(prog.devres)
         /\ \A i \in DOMAIN prog.init : IsEnding(prog.init[i].undo)
BY ProgramsAssumption DEF Typed, Kept, prog

(* The type invariant is more than TypeOK.                                 *)
LEMMA TypedTypes == Typed => TypeOK
BY DEF Typed, TypeOK, Kept, Planned, Statuses, Phases

(* Giving resources a status keeps every resource at a status.             *)
LEMMA BecomeType ==
  ASSUME res \in [Resources -> Statuses], NEW rs, NEW status \in Statuses,
         driver' = driver, Become(rs, status)
  PROVE  res' \in [Resources -> Statuses]' /\ Handlers' = Handlers
BY DEF Become, Resources, Handlers, prog

(* What a driver has depends on nothing but which driver it is.            *)
LEMMA SameDriver ==
  ASSUME driver' = driver
  PROVE  Resources' = Resources /\ Handlers' = Handlers /\ prog' = prog
BY DEF Resources, Handlers, prog

(* What an access can run into.                                            *)
LEMMA MisuseType ==
  \A rs : Misuse(rs) \in {"none", "use_after_free", "bad_pointer"}
BY DEF Misuse

(* What a release can run into.                                            *)
LEMMA ReleaseFaultType ==
  ReleaseFault \in {"none", "use_after_free", "bad_pointer", "double_free", "not_acquired"}
BY MisuseType DEF ReleaseFault

(* What a step of a handler can run into.                                  *)
LEMMA HandlerFaultType ==
  \A s : HandlerFault(s) \in {"none", "text_gone", "use_after_free", "bad_pointer",
                               "double_free"}
BY MisuseType DEF HandlerFault

(* A crash changes the fault and nothing else.                             *)
LEMMA CrashTyped ==
  ASSUME Typed, Crash("bad_pointer") \/ Crash("use_after_free") \/ Crash("double_free")
                \/ Crash("not_acquired") \/ Crash("text_gone")
  PROVE  Typed'
<1>1. UNCHANGED <<driver, text, place, res, body, sleep, seen>>
      /\ fault' \in {"bad_pointer", "use_after_free", "double_free", "not_acquired",
                      "text_gone"}
  BY DEF Crash
<1>2. Kept'
  BY <1>1, SameDriver DEF Typed, Kept, sleep
<1>3. Planned'
  BY <1>1 DEF Typed, Planned, place
<1> QED BY <1>2, <1>3 DEF Typed

(* So does a crash in a misuse.                                            *)
LEMMA MisuseTyped ==
  ASSUME Typed, NEW rs, Misuse(rs) # "none", Crash(Misuse(rs))
  PROVE  Typed'
BY MisuseType, CrashTyped

(* A step that goes on to the next one, and one that begins a new plan.    *)
LEMMA GoOnPlanned ==
  ASSUME Typed, Active, GoOn
  PROVE  Planned'
BY DEF Typed, Planned, Active, GoOn

(* A phase that begins with an ending has a plan of the right form.        *)
LEMMA BeginPlanned ==
  ASSUME NEW p \in Phases, NEW s, NEW t, IsEnding(s), IsEnding(t), Begin(p, s \o t)
  PROVE  Planned'
BY JoinedText DEF Planned, Begin, Acquiring

(* The plan keeps its form while its place is left alone.                  *)
LEMMA StaysPlanned ==
  ASSUME Typed, UNCHANGED place
  PROVE  Planned'
BY DEF Typed, Planned, place

-----------------------------------------------------------------------------
(* A driver not loaded has the types.                                      *)
LEMMA InitTyped == Init => Typed
<1> SUFFICES ASSUME Init PROVE Typed
  OBVIOUS
<1>1. Kept
  BY DEF Init, Kept, Statuses
<1>2. Planned
  BY DEF Init, Planned, Phases
<1> QED BY <1>1, <1>2 DEF Typed

(* Loading and unloading the module keep the types.                        *)
LEMMA LoadTyped ==
  ASSUME Typed, Insmod \/ Rmmod
  PROVE  Typed'
<1>1. Kept'
  BY SameDriver DEF Typed, Kept, Insmod, Rmmod, sleep
<1> QED BY <1>1, StaysPlanned DEF Typed, Insmod, Rmmod

(* Starting init keeps them: its plan is the driver's text.                *)
LEMMA StartTyped ==
  ASSUME Typed, Start
  PROVE  Typed'
<1>1. res' \in [Resources -> Statuses]'
  BY BecomeType DEF Typed, Start, Kept, Statuses
<1>2. Kept'
  BY <1>1, SameDriver DEF Typed, Kept, Start
<1>3. Planned'
  BY DriverTexts, OneSequence DEF Planned, Start, Begin, IsText, Phases, Typed, prog, Kept
<1> QED BY <1>2, <1>3 DEF Typed

(* Returning from a phase keeps them.                                      *)
LEMMA ReturnTyped ==
  ASSUME Typed, Return
  PROVE  Typed'
<1>1. text' \in BOOLEAN
  <2>1. text' = (phase = "init" \/ prog.device)
    BY DEF Return
  <2> QED BY <2>1
<1>2. Kept'
  BY <1>1, SameDriver DEF Typed, Kept, Return, sleep
<1>3. Planned'
  BY DEF Planned, Return, Phases
<1> QED BY <1>2, <1>3 DEF Typed

(* Starting exit keeps them: its plan is an ending.                        *)
LEMMA RemoveTyped ==
  ASSUME Typed, Remove
  PROVE  Typed'
<1>1. Kept'
  BY SameDriver DEF Typed, Kept, Remove, Circumstances, sleep
<1>2. Planned'
  BY DriverTexts, BeginPlanned DEF Remove, Phases
<1> QED BY <1>1, <1>2 DEF Typed

(* A call that acquires keeps them.                                        *)
LEMMA AcquireTyped ==
  ASSUME Typed, Acquire
  PROVE  Typed'
<1>1. CASE Misuse(current.uses) # "none"
  BY <1>1, MisuseTyped DEF Acquire
<1>2. CASE Misuse(current.uses) = "none"
  <2>1. res' \in [Resources -> Statuses]'
    BY <1>2, BecomeType DEF Typed, Acquire, Kept, Statuses
  <2>2. Kept'
    BY <1>2, <2>1, SameDriver DEF Typed, Kept, Acquire, sleep
  <2> QED BY <1>2, <2>2, GoOnPlanned DEF Typed, Acquire
<1> QED BY <1>1, <1>2

(* A call that fails keeps them: an error path is an ending.               *)
LEMMA FailTyped ==
  ASSUME Typed, GetFails \/ TryFails
  PROVE  Typed'
<1>1. \A c \in Circumstances : Circumstance(c) \in Circumstances
  BY DEF Circumstance, Circumstances
<1>2. seen' \subseteq Circumstances
  BY <1>1 DEF Typed, GetFails, TryFails, Kept, Circumstances
<1>3. CASE GetFails
  <2>1. Kept'
    BY <1>2, <1>3, SameDriver DEF Typed, Kept, GetFails, sleep
  <2>2. at \in DOMAIN plan
    BY <1>3 DEF Typed, GetFails, Active, Planned
  <2>3. IsEnding(current.undo)
    BY <2>2, <1>3 DEF GetFails, Typed, Planned, current
  <2> QED BY <1>3, <2>1, <2>3, DriverTexts, BeginPlanned
          DEF Typed, GetFails, ErrorPath, Phases
<1>4. CASE TryFails
  <2>1. res' \in [Resources -> Statuses]'
    BY <1>4, BecomeType DEF Typed, TryFails, Kept, Statuses
  <2>2. Kept'
    BY <1>2, <1>4, <2>1, SameDriver DEF Typed, Kept, TryFails, sleep
  <2> QED BY <1>4, <2>2, GoOnPlanned DEF Typed, TryFails
<1> QED BY <1>3, <1>4

(* Steps that neither acquire nor release.                                 *)
LEMMA PassiveTyped ==
  ASSUME Typed, Use \/ WaitEnds \/ WaitSignalled
  PROVE  Typed'
<1>1. CASE Misuse(current.uses) # "none"
  BY <1>1, MisuseTyped DEF Use, WaitEnds, WaitSignalled
<1>2. CASE Misuse(current.uses) = "none"
  <2>1. UNCHANGED <<driver, text, body, res, sleep, fault>> /\ Active /\ GoOn
        /\ seen' \subseteq seen \union {"signal"}
    BY <1>2 DEF Use, WaitEnds, WaitSignalled
  <2>2. Kept'
    BY <2>1, SameDriver DEF Typed, Kept, Circumstances, sleep
  <2> QED BY <2>1, <2>2, GoOnPlanned DEF Typed
<1> QED BY <1>1, <1>2

(* Going back to sleep keeps them.                                         *)
LEMMA WaitAgainTyped ==
  ASSUME Typed, WaitAgain
  PROVE  Typed'
<1>1. CASE Misuse(current.uses) # "none"
  BY <1>1, MisuseTyped DEF WaitAgain
<1>2. CASE Misuse(current.uses) = "none"
  <2>1. Kept'
    BY <1>2, SameDriver DEF Typed, Kept, WaitAgain
  <2> QED BY <1>2, <2>1, StaysPlanned DEF Typed, WaitAgain
<1> QED BY <1>1, <1>2

(* A release keeps them, skipped or not.                                   *)
LEMMA ReleaseTyped ==
  ASSUME Typed, Release
  PROVE  Typed'
<1>1. CASE ReleaseFault # "none"
  BY <1>1, ReleaseFaultType, CrashTyped DEF Release
<1>2. CASE ReleaseFault = "none"
  <2>1. /\ UNCHANGED <<driver, text, body, sleep, seen, fault>> /\ GoOn /\ Active
        /\ res' = res \/ Become(current.puts \intersect Held, "gone")
    BY <1>2 DEF Release
  <2>2. res' \in [Resources -> Statuses]'
    BY <2>1, BecomeType, SameDriver DEF Typed, Kept, Statuses
  <2>3. Kept'
    BY <2>1, <2>2, SameDriver DEF Typed, Kept, sleep
  <2> QED BY <2>1, <2>3, GoOnPlanned DEF Typed
<1> QED BY <1>1, <1>2

(* A handler that is called keeps them: its body is its text.              *)
LEMMA CallTyped ==
  ASSUME Typed, NEW h \in Handlers, Call(h)
  PROVE  Typed'
<1>1. CASE ~text
  BY <1>1, CrashTyped DEF Call
<1>2. CASE text
  <2>1. /\ UNCHANGED <<driver, text, place, sleep, fault>>
        /\ body' = [body EXCEPT ![h] = Of(h).steps]
        /\ seen' \subseteq seen \union {"busy"}
        /\ res' = res \/ Become({Of(h).entry}, "spent")
    BY <1>2 DEF Call
  <2>2. res' \in [Resources -> Statuses]'
    BY <2>1, BecomeType, SameDriver DEF Typed, Kept, Statuses
  <2>3. Kept'
    BY <2>1, <2>2, SameDriver DEF Typed, Kept, Circumstances, sleep
  <2> QED BY <2>1, <2>3, StaysPlanned DEF Typed
<1> QED BY <1>1, <1>2

(* A step of a handler keeps them.                                         *)
LEMMA HandlerTyped ==
  ASSUME Typed, NEW h \in Handlers, HandlerStep(h)
  PROVE  Typed'
<1> DEFINE s == Head(body[h])
<1>1. CASE HandlerFault(s) # "none"
  BY <1>1, HandlerFaultType, CrashTyped DEF HandlerStep
<1>2. CASE HandlerFault(s) = "none"
  <2>1. /\ UNCHANGED <<driver, text, place, fault>>
        /\ body' = [body EXCEPT ![h] = Tail(@)]
        /\ Become(s.puts \intersect Held, "gone")
        /\ condition' = (condition \/ s.sets) /\ woken' = (woken \/ s.op = "wake")
        /\ seen' \subseteq seen \union {"woken"}
    BY <1>2 DEF HandlerStep
  <2> HIDE DEF s
  <2>2. res' \in [Resources -> Statuses]'
    BY <2>1, BecomeType DEF Typed, Kept, Statuses
  <2>3. DOMAIN body' = Handlers' /\ seen' \subseteq Circumstances
    BY <2>1, SameDriver DEF Typed, Kept, Circumstances
  <2>4. condition' \in BOOLEAN /\ woken' \in BOOLEAN
    BY <2>1
  <2>5. Kept'
    BY <2>1, <2>2, <2>3, <2>4 DEF Typed, Kept
  <2> QED BY <2>1, <2>5, StaysPlanned DEF Typed
<1> QED BY <1>1, <1>2

(* Every step keeps the types.                                             *)
LEMMA NextTyped == Typed /\ [Next]_vars => Typed'
<1> SUFFICES ASSUME Typed, [Next]_vars PROVE Typed'
  OBVIOUS
<1>1. CASE Proceed
  BY <1>1, ReturnTyped, AcquireTyped, FailTyped, PassiveTyped, ReleaseTyped,
     WaitAgainTyped DEF Proceed
<1>2. CASE Elsewhere
  BY <1>2, LoadTyped, StartTyped, RemoveTyped, PassiveTyped, CallTyped, HandlerTyped
  DEF Elsewhere
<1>3. CASE UNCHANGED vars
  <2>1. Kept'
    BY <1>3, SameDriver DEF Typed, Kept, vars, sleep
  <2> QED BY <1>3, <2>1, StaysPlanned DEF Typed, vars
<1> QED BY <1>1, <1>2, <1>3 DEF Next

(* Every variable keeps its type, for every set of drivers whose texts are *)
(* sequences of the machine's steps: no step is taken beyond the end of    *)
(* init, an error path or exit, and no handler of another driver runs.     *)
THEOREM DriverTypeCorrect == Spec => []TypeOK
<1>1. Typed => TypeOK
  BY TypedTypes
<1> QED BY <1>1, InitTyped, NextTyped, PTL DEF Spec

-----------------------------------------------------------------------------
(* Steps seen by what they change.  Whatever stops the system, loads or    *)
(* unloads the module, or sends a sleeper back to sleep leaves these alone.*)
Untouched == UNCHANGED <<driver, place, res, body, seen>>

(* A step of the plan that neither acquires nor releases anything.         *)
Passed ==
  /\ UNCHANGED <<driver, res, body>> /\ Active /\ GoOn
  /\ current.op \in {"touch", "wait"}
  /\ seen \subseteq seen' /\ seen' \subseteq seen \union {"signal"}

Acquired ==
  /\ UNCHANGED <<driver, body, seen>> /\ Active /\ GoOn
  /\ current.op \in Acquiring /\ current.needs \subseteq Held
  /\ Become(current.gets, "held")

Released ==
  /\ UNCHANGED <<driver, body, seen>> /\ Active /\ GoOn
  /\ current.op \in Releasing \union {"put_if", "put_if_idle"}
  /\ ~Synchronous(current.puts)
  /\ current.op = "flush" => current.puts \intersect Held = {}
  /\ IF Omitted THEN UNCHANGED res ELSE Become(current.puts \intersect Held, "gone")

Called(h) ==
  /\ UNCHANGED <<driver, place>> /\ res[Of(h).entry] = "held"
  /\ ~(Of(h).pins /\ phase = "exit" /\ ~prog.device)
  /\ body' = [body EXCEPT ![h] = Of(h).steps]
  /\ IF Of(h).once THEN Become({Of(h).entry}, "spent") ELSE UNCHANGED res
  /\ seen' = seen \union (IF phase \in {"init", "live"} THEN {} ELSE {"busy"})

Stepped(h) ==
  /\ UNCHANGED <<driver, place>> /\ body[h] # <<>>
  /\ body' = [body EXCEPT ![h] = Tail(@)]
  /\ Become(Head(body[h]).puts \intersect Held, "gone")
  /\ seen \subseteq seen' /\ seen' \subseteq seen \union {"woken"}
  /\ Head(body[h]).op = "wake" => "woken" \in seen'

(* What a step does to the resources, the plan and the handlers, without   *)
(* how: every step has one of these effects.                               *)
LEMMA Effects ==
  ASSUME Next
  PROVE  \/ Untouched \/ Passed \/ Acquired \/ Released
         \/ Start \/ Return \/ Remove \/ GetFails \/ TryFails
         \/ \E h \in Handlers : Called(h) \/ Stepped(h)
<1> USE DEF Untouched
<1>1. \A f : Crash(f) => Untouched
  BY DEF Crash
<1>2. Insmod \/ Rmmod \/ WaitAgain => Untouched
  BY <1>1 DEF Insmod, Rmmod, WaitAgain, place
<1>3. Acquire => Untouched \/ Acquired
  BY <1>1 DEF Acquire, Acquired, Acquiring
<1>4. Use \/ WaitEnds \/ WaitSignalled => Untouched \/ Passed
  BY <1>1 DEF Use, WaitEnds, WaitSignalled, Passed
<1>5. Release => Untouched \/ Released
  BY <1>1 DEF Release, Released, Releasing
<1>6. ASSUME NEW h \in Handlers, Call(h) PROVE Untouched \/ Called(h)
  BY <1>1, <1>6 DEF Call, Callable, Called
<1>7. ASSUME NEW h \in Handlers, HandlerStep(h) PROVE Untouched \/ Stepped(h)
  <2> DEFINE s == Head(body[h])
  <2>1. CASE HandlerFault(s) # "none"
    BY <1>1, <1>7, <2>1 DEF HandlerStep
  <2>2. CASE HandlerFault(s) = "none"
    <3>1. /\ UNCHANGED <<driver, place>> /\ body[h] # <<>>
          /\ body' = [body EXCEPT ![h] = Tail(@)]
          /\ Become(s.puts \intersect Held, "gone")
          /\ seen' = seen \union (IF s.op = "wake" THEN {"woken"} ELSE {})
      BY <1>7, <2>2 DEF HandlerStep
    <3> QED BY <3>1 DEF Stepped
  <2> QED BY <2>1, <2>2
<1> QED BY <1>2, <1>3, <1>4, <1>5, <1>6, <1>7 DEF Next, Proceed, Elsewhere

-----------------------------------------------------------------------------
(* What a run keeps of the texts: init takes the steps of the driver's     *)
(* init, exit those of its exit, an error path acquires nothing, and a     *)
(* handler takes its own steps.                                            *)
StepsOf(h) == {Of(h).steps[i] : i \in DOMAIN Of(h).steps}

Course ==
  /\ phase = "init" => plan = prog.init
  /\ phase = "exit" => plan = Ending(prog)
  /\ phase # "init" => \A i \in DOMAIN plan : plan[i].op \notin Acquiring
  /\ \A h \in Handlers : body[h] \in Seq(StepsOf(h))

Sound == Typed /\ Course

(* The texts of a driver do not change while it runs.                      *)
LEMMA SameTexts ==
  ASSUME driver' = driver
  PROVE  /\ prog' = prog /\ Ending(prog)' = Ending(prog) /\ Handlers' = Handlers
         /\ \A h \in Handlers : StepsOf(h)' = StepsOf(h) /\ Of(h)' = Of(h)
         /\ Resources' = Resources
BY DEF prog, Ending, Handlers, StepsOf, Of, Resources

(* The body of a handler is a text of that handler.                        *)
LEMMA HandlerTexts ==
  ASSUME Typed, NEW h \in Handlers
  PROVE  Of(h).steps \in Seq(StepsOf(h))
BY ProgramsAssumption DEF Typed, Kept, Handlers, Of, prog, StepsOf, IsText, IsSequence

(* A step that acquires is a step of init, at its place in the text.       *)
LEMMA InInit ==
  ASSUME Sound, Active, current.op \in Acquiring
  PROVE  /\ phase = "init" /\ plan = prog.init
         /\ at \in DOMAIN prog.init /\ current = prog.init[at] /\ Len(prog.init) \in Nat
         /\ DOMAIN prog.init = 1 .. Len(prog.init)
BY DEF Sound, Typed, Planned, Course, Active, current

(* A driver that is active is at a step of its plan.                       *)
LEMMA InPlan ==
  ASSUME Sound, Active
  PROVE  at \in 1 .. Len(plan) /\ at \in DOMAIN plan /\ Len(plan) \in Nat
         /\ phase \in {"init", "undo", "exit"}
BY DEF Sound, Typed, Planned, Active

(* A driver not loaded has nothing planned.                                *)
LEMMA InitCourse == Init => Course
<1> SUFFICES ASSUME Init PROVE Course
  OBVIOUS
<1> QED BY DEF Init, Course

(* A driver that does not move stays on its course.                        *)
LEMMA CourseStays ==
  ASSUME Course, driver' = driver, plan' = plan, phase' = phase, body' = body
  PROVE  Course'
BY SameTexts DEF Course

(* Every step keeps plan and bodies parts of the driver's texts.           *)
LEMMA NextCourse ==
  ASSUME Sound, Next
  PROVE  Course'
<1>1. CASE Untouched
  BY <1>1, CourseStays DEF Untouched, place, Sound
<1>2. CASE Passed \/ Acquired \/ Released \/ TryFails
  BY <1>2, CourseStays DEF Passed, Acquired, Released, TryFails, GoOn, Sound
<1>3. CASE Start
  BY <1>3, SameTexts DEF Start, Begin, Course, Sound
<1>4. CASE Return
  <2>1. phase' \in {"live", "idle"} /\ plan' = <<>> /\ UNCHANGED <<driver, body>>
    BY <1>4 DEF Return
  <2> QED BY <2>1, SameTexts DEF Course, Sound
<1>5. CASE Remove
  <2>1. phase' = "exit" /\ plan' = Ending(prog) /\ UNCHANGED <<driver, body>>
    BY <1>5 DEF Remove, Begin, Ending
  <2>2. \A i \in DOMAIN plan' : plan'[i].op \notin Acquiring
    BY <2>1, DriverTexts, JoinedText DEF Ending, Sound
  <2> QED BY <2>1, <2>2, SameTexts DEF Course, Sound
<1>6. CASE GetFails
  <2>1. phase' = "undo" /\ plan' = current.undo \o prog.devres /\ UNCHANGED <<driver, body>>
    BY <1>6 DEF GetFails, ErrorPath, Begin
  <2>2. IsEnding(current.undo)
    BY <1>6, InPlan DEF GetFails, Sound, Typed, Planned, current
  <2>3. \A i \in DOMAIN plan' : plan'[i].op \notin Acquiring
    BY <2>1, <2>2, DriverTexts, JoinedText DEF Sound
  <2> QED BY <2>1, <2>3, SameTexts DEF Course, Sound
<1>7. ASSUME NEW h \in Handlers, Called(h) \/ Stepped(h) PROVE Course'
  <2>1. UNCHANGED <<driver, phase, plan>>
    BY <1>7 DEF Called, Stepped, place
  <2>2. body[h] \in Seq(StepsOf(h)) /\ DOMAIN body = Handlers
    BY DEF Sound, Course, Typed, Kept
  <2>3. Of(h).steps \in Seq(StepsOf(h))
    BY HandlerTexts DEF Sound
  <2>4. body' = [body EXCEPT ![h] = Of(h).steps]
        \/ (body[h] # <<>> /\ body' = [body EXCEPT ![h] = Tail(body[h])])
    BY <1>7 DEF Called, Stepped
  <2>5. body'[h] \in Seq(StepsOf(h)) /\ \A g \in Handlers \ {h} : body'[g] = body[g]
    <3> DEFINE S == StepsOf(h)
               b == body[h]
    <3>1. b # <<>> => Tail(b) \in Seq(S)
      <4>1. b \in Seq(S)
        BY <2>2
      <4> HIDE DEF S, b
      <4> QED BY <4>1
    <3> QED BY <2>2, <2>3, <2>4, <3>1
  <2> QED BY <2>1, <2>5, SameTexts DEF Course, Sound
<1> QED BY <1>1, <1>2, <1>3, <1>4, <1>5, <1>6, <1>7, Effects

(* Types and course, initially ...                                         *)
LEMMA InitSound == Init => Sound
BY InitTyped, InitCourse DEF Sound

(* ... and in every step.                                                  *)
LEMMA NextSound == Sound /\ [Next]_vars => Sound'
<1>1. Sound /\ UNCHANGED vars => Course'
  BY CourseStays DEF Sound, vars, place
<1> QED BY <1>1, NextTyped, NextCourse DEF Sound

-----------------------------------------------------------------------------
(* What is held after resources have become held, or something else.       *)
LEMMA HeldGained ==
  ASSUME NEW rs, driver' = driver, Become(rs, "held")
  PROVE  Held' = Held \union (rs \intersect Resources)
BY DEF Become, Held, With, Resources, prog

(* What gets another status is held no longer, and nothing else changes    *)
(* hands.                                                                  *)
LEMMA HeldLost ==
  ASSUME NEW rs, NEW status, status # "held", driver' = driver, Become(rs, status)
  PROVE  Held' = Held \ rs
BY DEF Become, Held, With, Resources, prog

(* What has its status left alone stays held.                              *)
LEMMA HeldSame ==
  ASSUME driver' = driver, res' = res
  PROVE  Held' = Held
BY DEF Held, With, Resources, prog

(* What a handler's step releases is what handlers take.                   *)
LEMMA HandlerPuts ==
  ASSUME Sound, NEW h \in Handlers, body[h] # <<>>
  PROVE  Head(body[h]).puts \subseteq HandlersTake(prog)
<1>1. body[h] \in Seq(StepsOf(h))
  BY DEF Sound, Course
<1>2. Head(body[h]) \in StepsOf(h)
  <2> DEFINE S == StepsOf(h)
             b == body[h]
  <2>1. b \in Seq(S) /\ b # <<>>
    BY <1>1
  <2> HIDE DEF S, b
  <2>2. Head(b) \in S
    BY <2>1
  <2> QED BY <2>2 DEF S, b
<1>3. PICK i \in DOMAIN Of(h).steps : Head(body[h]) = Of(h).steps[i]
  BY <1>2 DEF StepsOf
<1> QED BY <1>3 DEF HandlersTake, PutBy, Of, Handlers

(* Handlers take nothing away of what they do not take in their text.      *)
LEMMA HandlersLeave ==
  ASSUME Sound, NEW h \in Handlers, Called(h) \/ Stepped(h)
  PROVE  /\ driver' = driver /\ UNCHANGED place /\ seen \subseteq seen'
         /\ Held' \subseteq Held
         /\ Held \ HandlersTake(prog) \subseteq Held'
<1>1. driver' = driver /\ UNCHANGED place /\ seen \subseteq seen'
  BY DEF Called, Stepped
<1>2. CASE Called(h)
  <2>1. Of(h).once => Of(h).entry \in HandlersTake(prog)
    BY DEF HandlersTake, OnceEntries, Of, Handlers
  <2>2. CASE Of(h).once
    <3>1. Held' = Held \ {Of(h).entry}
      BY <1>1, <1>2, <2>2, HeldLost DEF Called
    <3> QED BY <1>1, <2>1, <2>2, <3>1
  <2>3. CASE ~Of(h).once
    BY <1>1, <1>2, <2>3, HeldSame DEF Called
  <2> QED BY <2>2, <2>3
<1>3. CASE Stepped(h)
  <2> DEFINE s == Head(body[h])
  <2>1. s.puts \subseteq HandlersTake(prog) /\ Become(s.puts \intersect Held, "gone")
    BY <1>3, HandlerPuts DEF Stepped
  <2> HIDE DEF s
  <2>2. Held' = Held \ (s.puts \intersect Held)
    BY <1>1, <2>1, HeldLost
  <2> QED BY <1>1, <2>1, <2>2
<1> QED BY <1>2, <1>3

(* A release takes what its step names, unless the kernel omits it, and    *)
(* nothing else.                                                           *)
LEMMA ReleasedHeld ==
  ASSUME Released
  PROVE  /\ Held' \subseteq Held /\ Held \ current.puts \subseteq Held'
         /\ ~Omitted => Held' = Held \ current.puts
<1>1. driver' = driver
  BY DEF Released
<1>2. CASE Omitted
  BY <1>1, <1>2, HeldSame DEF Released
<1>3. CASE ~Omitted
  <2>1. Held' = Held \ (current.puts \intersect Held)
    BY <1>1, <1>3, HeldLost DEF Released
  <2> QED BY <1>3, <2>1
<1> QED BY <1>2, <1>3

(* What init has acquired, and what it has for sure, one step later.       *)
LEMMA GotStep ==
  ASSUME NEW p, NEW k \in Nat \ {0}
  PROVE  /\ p.init[k].op \in Acquiring => Got(p, k + 1) = Got(p, k) \union p.init[k].gets
         /\ p.init[k].op \notin Acquiring => Got(p, k + 1) = Got(p, k)
         /\ PutBefore(p.init, k + 1) = PutBefore(p.init, k) \union p.init[k].puts
<1>1. (k + 1) - 1 = k /\ 1 .. k = (1 .. k - 1) \union {k} /\ k \notin 1 .. k - 1
  OBVIOUS
<1> QED BY <1>1 DEF Got, PutBefore

(* Before its first step, init has got nothing.                            *)
LEMMA GotFirst ==
  ASSUME NEW p
  PROVE  Got(p, 1) = {} /\ Sure(p, 1) = {}
<1>1. 1 .. 1 - 1 = {}
  OBVIOUS
<1> QED BY <1>1 DEF Got, Sure

(* What is sure grows only by what a step acquires, and loses what it      *)
(* gives back; what handlers take is never sure.                           *)
LEMMA SureStep ==
  ASSUME NEW p, NEW k \in Nat \ {0}
  PROVE  /\ p.init[k].op \in Acquiring => Sure(p, k + 1) \subseteq Sure(p, k) \union p.init[k].gets
         /\ p.init[k].op \notin Acquiring => Sure(p, k + 1) \subseteq Sure(p, k) \ p.init[k].puts
         /\ Sure(p, k) \intersect HandlersTake(p) = {}
BY GotStep DEF Sure

(* A step of the plan goes from one step to the next.                      *)
LEMMA Onward ==
  ASSUME Sound, Active, GoOn, driver' = driver
  PROVE  /\ phase' = phase /\ plan' = plan /\ at' = at + 1 /\ prog' = prog
         /\ at \in Nat \ {0}
BY InPlan, SameTexts DEF GoOn

(* A driver that is orderly in its text has what it has for sure, until a  *)
(* failure goes unnoticed.                                                 *)
HasSure ==
  /\ phase = "init" => Sure(prog, at) \subseteq Held
  /\ phase = "live" => Sure(prog, Done(prog)) \subseteq Held

Passing == Orderly(prog) /\ "ignored" \notin seen => HasSure /\ "unmet" \notin seen

(* A driver not loaded has nothing to hold.                                *)
LEMMA InitPassing == Init => Passing
<1> SUFFICES ASSUME Init PROVE Passing
  OBVIOUS
<1> QED BY DEF Init, Passing, HasSure

(* A step that leaves the resources and the plan alone changes nothing of  *)
(* it.                                                                     *)
LEMMA UntouchedPassing ==
  ASSUME Passing, Untouched
  PROVE  Passing'
<1>1. Held' = Held /\ prog' = prog
  BY HeldSame, SameTexts DEF Untouched
<1> QED BY <1>1 DEF Passing, HasSure, Untouched, place

(* Every step keeps held what the text says is held for sure.              *)
LEMMA NextPassing ==
  ASSUME Sound, Passing, Next
  PROVE  Passing'
<1> SUFFICES ASSUME Orderly(prog)', "ignored" \notin seen'
             PROVE  HasSure' /\ "unmet" \notin seen'
  BY DEF Passing
<1>1. CASE Untouched
  BY <1>1, UntouchedPassing DEF Passing
<1>2. CASE Start
  BY <1>2, GotFirst, SameTexts DEF Start, Begin, HasSure
<1> SUFFICES ASSUME ~Untouched, ~Start
             PROVE  HasSure' /\ "unmet" \notin seen'
  BY <1>1, <1>2
<1>3. driver' = driver /\ seen \subseteq seen'
  <2>1. Passed \/ Acquired \/ Released => UNCHANGED driver /\ seen \subseteq seen'
    BY DEF Passed, Acquired, Released
  <2>2. Return \/ Remove => UNCHANGED driver /\ seen \subseteq seen'
    BY DEF Return, Remove
  <2>3. GetFails \/ TryFails => UNCHANGED driver /\ seen \subseteq seen'
    BY DEF GetFails, TryFails
  <2> QED BY <2>1, <2>2, <2>3, HandlersLeave, Effects
<1>4. prog' = prog /\ Orderly(prog) /\ HasSure /\ "unmet" \notin seen
  BY <1>3, SameTexts DEF Passing
<1>5. Active /\ current.op \in Acquiring => current.needs \subseteq Held
  BY <1>4, InInit DEF HasSure, Orderly
<1>6. CASE Passed
  <2>1. Held' = Held
    BY <1>6, HeldSame DEF Passed
  <2>2. /\ phase' = phase /\ plan' = plan /\ at' = at + 1 /\ at \in Nat \ {0}
    BY <1>6, Onward DEF Passed
  <2>3. phase = "init" => current = prog.init[at]
    BY DEF Sound, Course, current
  <2>4. HasSure'
    BY <1>4, <1>6, <2>1, <2>2, <2>3, SureStep DEF HasSure, Passed, Acquiring
  <2> QED BY <1>4, <1>6, <2>4 DEF Passed
<1>7. CASE Acquired
  <2>1. Held' = Held \union (current.gets \intersect Resources)
    BY <1>7, HeldGained DEF Acquired
  <2>2. phase = "init" /\ current = prog.init[at] /\ at \in DOMAIN prog.init
    BY <1>7, InInit DEF Acquired
  <2>3. current.gets \subseteq Resources
    BY <2>2 DEF Resources
  <2>4. /\ phase' = phase /\ plan' = plan /\ at' = at + 1 /\ at \in Nat \ {0}
    BY <1>7, Onward DEF Acquired
  <2>5. HasSure'
    BY <1>4, <1>7, <2>1, <2>2, <2>3, <2>4, SureStep DEF HasSure, Acquired
  <2> QED BY <1>4, <1>7, <2>5 DEF Acquired
<1>8. CASE Released
  <2>1. /\ phase' = phase /\ plan' = plan /\ at' = at + 1 /\ at \in Nat \ {0}
    BY <1>8, Onward DEF Released
  <2>2. phase = "init" => current = prog.init[at]
    BY DEF Sound, Course, current
  <2>3. current.op \notin Acquiring
    BY <1>8 DEF Released, Releasing, Acquiring
  <2>4. phase \in {"init", "undo", "exit"}
    BY <1>8 DEF Released, Active
  <2>5. HasSure'
    BY <1>4, <1>8, <2>1, <2>2, <2>3, <2>4, ReleasedHeld, SureStep DEF HasSure
  <2> QED BY <1>4, <1>8, <2>5 DEF Released
<1>9. CASE Return
  <2>1. phase = "init" => at = Done(prog)
    BY <1>9 DEF Return, Sound, Typed, Planned, Course, Done
  <2>2. Held' = Held
    BY <1>9, HeldSame DEF Return
  <2>3. phase' # "init" /\ (phase' = "live" => phase = "init")
    BY <1>9 DEF Return
  <2> QED BY <1>4, <1>9, <2>1, <2>2, <2>3 DEF HasSure, Return
<1>10. CASE Remove
  <2>1. phase' = "exit" /\ "unmet" \notin seen'
    BY <1>4, <1>10 DEF Remove, Begin
  <2> QED BY <2>1 DEF HasSure
<1>11. CASE GetFails
  <2>1. phase' = "undo"
    BY <1>11 DEF GetFails, ErrorPath, Begin
  <2>2. current.needs \subseteq Held
    BY <1>5, <1>11 DEF GetFails, Acquiring
  <2> QED BY <1>4, <1>11, <2>1, <2>2 DEF HasSure, GetFails, Circumstance
<1>12. CASE TryFails
  <2>1. current.needs \subseteq Held
    BY <1>5, <1>12 DEF TryFails, Acquiring
  <2> QED BY <1>12, <2>1 DEF TryFails, Circumstance
<1>13. ASSUME NEW h \in Handlers, Called(h) \/ Stepped(h)
       PROVE  HasSure' /\ "unmet" \notin seen'
  <2>1. Held \ HandlersTake(prog) \subseteq Held' /\ UNCHANGED place
    BY <1>13, HandlersLeave
  <2>2. HasSure'
    BY <1>4, <2>1 DEF HasSure, Sure, place
  <2> QED BY <1>4, <1>13, <2>2 DEF Called, Stepped
<1> QED BY <1>6, <1>7, <1>8, <1>9, <1>10, <1>11, <1>12, <1>13, Effects

(* A driver whose init passes on, in its text, only what it has for sure   *)
(* calls nothing with an argument it has not got, unless an earlier failure*)
(* went unnoticed: for every driver of this form, whatever the kernel      *)
(* refuses and whenever its handlers run.                                  *)
THEOREM OrderlyCorrect == Spec => [](TextOrderly => ArgumentsValid)
<1> DEFINE I == Sound /\ Passing
<1>1. Init => I
  BY InitSound, InitPassing
<1>2. I /\ [Next]_vars => I'
  <2>1. ASSUME Passing, UNCHANGED vars PROVE Passing'
    BY <2>1, UntouchedPassing DEF Untouched, vars, place
  <2> QED BY <2>1, NextSound, NextPassing
<1>3. I => (TextOrderly => ArgumentsValid)
  BY DEF Passing, TextOrderly, ArgumentsValid
<1> QED BY <1>1, <1>2, <1>3, PTL DEF Spec

-----------------------------------------------------------------------------
(* What has been handed to a handler that runs once is held only while the *)
(* handler is armed, or has yet to give it up.                             *)
Handed(h, r) ==
  \/ res[Of(h).entry] = "held"
  \/ res[Of(h).entry] = "spent" /\ (r \in Held => r \in PutBy(body[h]))

Armed(h) == phase = "init" => Of(h).entry \in Got(prog, at)

Handing ==
  \A h \in Handlers : \A r \in Resources :
    HandsOver(prog, h, r) /\ phase \in {"init", "live", "exit"} /\ Armed(h) => Handed(h, r)

(* The step of init that arms the handler, if there is one.                *)
LEMMA Arming ==
  ASSUME Typed, NEW h \in Handlers, NEW r, HandsOver(prog, h, r)
  PROVE  /\ Of(h).entry \in Resources
         /\ Of(h).entry \in Got(prog, Done(prog))
         /\ Of(h).once /\ r \in PutBy(Of(h).steps)
         /\ \A k \in DOMAIN prog.init : Of(h).entry \in prog.init[k].gets =>
              /\ prog.init[k].op # "try"
              /\ Of(h).entry \notin Got(prog, k)
         /\ \A k \in DOMAIN prog.init : Of(h).entry \in Got(prog, k) =>
              r \notin prog.init[k].gets
<1> DEFINE e == prog.handlers[h].entry
<1>1. PICK j \in DOMAIN prog.init :
        /\ prog.init[j].op \in {"do", "get"} /\ e \in prog.init[j].gets
        /\ \A i \in DOMAIN prog.init : /\ e \in prog.init[i].gets => i = j
                                       /\ r \in prog.init[i].gets => i < j
  BY DEF HandsOver
<1>2. Len(prog.init) \in Nat /\ DOMAIN prog.init = 1 .. Len(prog.init)
  BY DriverTexts, OneSequence DEF IsText
<1>3. e \in Resources
  BY <1>1 DEF Resources
<1>4. e \in Got(prog, Done(prog))
  <2>1. j \in 1 .. Done(prog) - 1
    BY <1>2 DEF Done
  <2> QED BY <1>1, <2>1 DEF Got, Acquiring
<1> HIDE DEF e
<1>9. j \in Nat /\ \A i \in DOMAIN prog.init : i \in Nat
  BY <1>2
<1>10. \A i \in DOMAIN prog.init : e \in prog.init[i].gets => i = j
  BY <1>1
<1>11. \A i \in DOMAIN prog.init : r \in prog.init[i].gets => i < j
  BY <1>1
<1>5. \A k \in DOMAIN prog.init : e \in Got(prog, k) => j < k
  <2> SUFFICES ASSUME NEW k \in DOMAIN prog.init, e \in Got(prog, k) PROVE j < k
    OBVIOUS
  <2>1. PICK i \in 1 .. k - 1 : e \in prog.init[i].gets
    BY DEF Got
  <2>2. i \in DOMAIN prog.init /\ i < k
    BY <1>2, <2>1
  <2>3. i = j
    BY <1>10, <2>1, <2>2
  <2> QED BY <2>2, <2>3
<1>6. prog.handlers[h].once /\ r \in PutBy(prog.handlers[h].steps)
  BY DEF HandsOver
<1>7. \A k \in DOMAIN prog.init : e \in prog.init[k].gets => prog.init[k].op # "try" /\ ~(j < k)
  BY <1>1, <1>9, <1>10
<1>8. \A k \in DOMAIN prog.init : j < k => r \notin prog.init[k].gets
  <2> SUFFICES ASSUME NEW k \in DOMAIN prog.init, j < k, r \in prog.init[k].gets PROVE FALSE
    OBVIOUS
  <2>1. k < j /\ j \in Nat /\ k \in Nat
    BY <1>9, <1>11
  <2> QED BY <2>1
<1> QED BY <1>3, <1>4, <1>5, <1>6, <1>7, <1>8 DEF Of, e

(* What was handed to a handler stays its own while neither the handler    *)
(* nor the resource moves.                                                 *)
LEMMA HandedStays ==
  ASSUME NEW h \in Handlers, NEW r, driver' = driver, body'[h] = body[h],
         res'[Of(h).entry] = res[Of(h).entry], r \in Held' => r \in Held, Handed(h, r)
  PROVE  Handed(h, r)'
BY SameTexts DEF Handed, PutBy

(* No handler of a driver not loaded has been handed anything.             *)
LEMMA InitHanding == Init => Handing
BY DEF Init, Handing

(* A step of init changes the entry it arms, and what that handler is to   *)
(* give up, only as it arms it.                                            *)
LEMMA InitStepHanded ==
  ASSUME Sound, Active, GoOn, UNCHANGED <<driver, body>>, current.op \in Acquiring,
         NEW status, Become(current.gets, status),
         status = "held" \/ (status = "failed" /\ current.op = "try"),
         NEW h \in Handlers, NEW r \in Resources, HandsOver(prog, h, r),
         Of(h).entry \in Got(prog, at + 1),
         Of(h).entry \in Got(prog, at) => Handed(h, r)
  PROVE  Handed(h, r)'
<1> DEFINE e == Of(h).entry
<1>1. /\ current = prog.init[at] /\ at \in DOMAIN prog.init /\ at \in Nat \ {0}
      /\ e \in Resources
  BY InInit, InPlan, Arming DEF Sound
<1>2. res' = [x \in Resources |-> IF x \in current.gets THEN status ELSE res[x]]
  BY DEF Become
<1>3. e' = e
  BY SameTexts
<1>4. CASE e \in current.gets
  <2>1. status = "held"
    BY <1>1, <1>4, Arming DEF Sound
  <2> QED BY <1>1, <1>2, <1>3, <1>4, <2>1 DEF Handed
<1>5. CASE e \notin current.gets
  <2>1. e \in Got(prog, at) /\ Handed(h, r)
    BY <1>1, <1>5, GotStep
  <2>2. r \notin current.gets
    BY <1>1, <2>1, Arming DEF Sound
  <2>3. res'[e] = res[e] /\ res'[r] = res[r]
    BY <1>1, <1>2, <1>5, <2>2
  <2>4. r \in Held' => r \in Held
    BY <2>3, SameTexts DEF Held, With
  <2> QED BY <2>1, <2>3, <2>4, HandedStays
<1> QED BY <1>4, <1>5

(* Init, exit and the core do not disarm it, but to wait until it has run. *)
LEMMA ReleaseStepHanded ==
  ASSUME Sound, Released, phase \in {"init", "exit"},
         NEW h \in Handlers, NEW r \in Resources, HandsOver(prog, h, r), Handed(h, r)
  PROVE  Handed(h, r)'
<1> DEFINE e == Of(h).entry
<1>1. e \in Resources
  BY Arming DEF Sound
<1>2. driver' = driver /\ body' = body /\ Held' \subseteq Held
  BY ReleasedHeld DEF Released
<1>3. e \notin current.puts \intersect Held
  <2>1. CASE phase = "init"
    <3>1. current = prog.init[at] /\ at \in DOMAIN prog.init
      BY <2>1, InPlan DEF Sound, Course, current, Released
    <3>2. e \notin PutBy(prog.init)
      BY DEF HandsOver, Of
    <3> QED BY <3>1, <3>2 DEF PutBy
  <2>2. CASE phase = "exit"
    <3>1. current = Ending(prog)[at] /\ at \in DOMAIN Ending(prog)
      BY <2>2, InPlan DEF Sound, Course, current, Released
    <3>2. e \in current.puts => current.op = "flush"
      BY <3>1 DEF HandsOver, Of
    <3> QED BY <3>2 DEF Released
  <2> QED BY <2>1, <2>2
<1>4. res'[e] = res[e]
  BY <1>1, <1>3 DEF Released, Become
<1> QED BY <1>2, <1>4, HandedStays

(* A handler that is called or goes on leaves what was handed over with    *)
(* whom it was, or gives it up.                                            *)
LEMMA HandlerStepHanded ==
  ASSUME Sound, NEW g \in Handlers, Called(g) \/ Stepped(g),
         NEW h \in Handlers, NEW r \in Resources, HandsOver(prog, h, r), Handed(h, r)
  PROVE  Handed(h, r)'
<1> DEFINE e == Of(h).entry
<1>1. e \in Resources /\ Of(h).once /\ r \in PutBy(Of(h).steps)
  BY Arming DEF Sound
<1>2. driver' = driver /\ Held' \subseteq Held
  BY HandlersLeave
<1>3. \A x \in Handlers \ {h} : Of(x).entry # e
  BY DEF HandsOver, Of, Handlers
<1>4. DOMAIN body = Handlers
  BY DEF Sound, Typed, Kept
<1>5. CASE Called(g) /\ g = h
  <2>1. res'[e] = "spent" /\ body'[h] = Of(h).steps
    BY <1>1, <1>4, <1>5 DEF Called, Become
  <2>2. PutBy(body[h])' = PutBy(Of(h).steps)
    BY <2>1 DEF PutBy
  <2>3. e' = e
    BY <1>2, SameTexts
  <2> QED BY <1>1, <2>1, <2>2, <2>3 DEF Handed
<1>6. CASE Called(g) /\ g # h
  <2>1. body'[h] = body[h] /\ res'[e] = res[e]
    BY <1>1, <1>3, <1>4, <1>6 DEF Called, Become
  <2> QED BY <1>2, <2>1, HandedStays
<1>7. CASE Stepped(g)
  <2> DEFINE s == Head(body[g])
  <2>1. s.puts \subseteq PutBy(Of(g).steps)
    <3>1. body[g] \in Seq(StepsOf(g)) /\ body[g] # <<>>
      BY <1>7 DEF Stepped, Sound, Course
    <3>2. s \in StepsOf(g)
      <4> DEFINE S == StepsOf(g)
                 b == body[g]
      <4>1. b \in Seq(S) /\ b # <<>>
        BY <3>1
      <4> HIDE DEF S, b
      <4>2. Head(b) \in S
        BY <4>1
      <4> QED BY <4>2 DEF S, b
    <3> QED BY <3>2 DEF StepsOf, PutBy
  <2>2. e \notin PutBy(Of(g).steps)
    BY DEF HandsOver, Of, Handlers
  <2>3. Become(s.puts \intersect Held, "gone") /\ body' = [body EXCEPT ![g] = Tail(body[g])]
    BY <1>7 DEF Stepped
  <2> HIDE DEF s
  <2>4. res'[e] = res[e]
    BY <1>1, <2>1, <2>2, <2>3 DEF Become
  <2>5. CASE g # h
    <3>1. body'[h] = body[h]
      BY <1>4, <2>3, <2>5
    <3> QED BY <1>2, <2>4, <3>1, HandedStays
  <2>6. CASE g = h
    <3>1. body'[h] = Tail(body[h])
      BY <1>4, <2>3, <2>6
    <3>2. Held' = Held \ (s.puts \intersect Held)
      BY <1>2, <2>3, HeldLost
    <3>3. r \in PutBy(body[h]) /\ r \notin s.puts => r \in PutBy(body[h])'
      <4> SUFFICES ASSUME r \in PutBy(body[h]), r \notin s.puts PROVE r \in PutBy(body[h])'
        OBVIOUS
      <4>1. PICK i \in DOMAIN body[h] : r \in body[h][i].puts
        BY DEF PutBy
      <4>2. body[h] \in Seq(StepsOf(h)) /\ body[h] # <<>>
        BY <1>7, <2>6 DEF Stepped, Sound, Course
      <4>3. i # 1
        BY <2>6, <4>1, <4>2 DEF s
      <4>4. i - 1 \in DOMAIN Tail(body[h]) /\ Tail(body[h])[i - 1] = body[h][i]
        <5> DEFINE S == StepsOf(h)
                   b == body[h]
        <5>1. b \in Seq(S) /\ b # <<>> /\ i \in DOMAIN b
          BY <4>1, <4>2
        <5> HIDE DEF S, b
        <5>2. i - 1 \in DOMAIN Tail(b) /\ Tail(b)[i - 1] = b[i]
          BY <4>3, <5>1
        <5> QED BY <5>2 DEF b
      <4> QED BY <3>1, <4>1, <4>4 DEF PutBy
    <3>4. e' = e
      BY <1>2, SameTexts
    <3> QED BY <1>2, <2>4, <3>2, <3>3, <3>4 DEF Handed
  <2> QED BY <2>5, <2>6
<1> QED BY <1>5, <1>6, <1>7

(* Every step keeps it that a resource handed over is still the            *)
(* handler's, or given up.                                                 *)
LEMMA NextHanding ==
  ASSUME Sound, Handing, Next
  PROVE  Handing'
<1> SUFFICES ASSUME NEW h \in Handlers', NEW r \in Resources', HandsOver(prog, h, r)',
                    phase' \in {"init", "live", "exit"}, Armed(h)'
             PROVE  Handed(h, r)'
  BY DEF Handing
<1>1. CASE Start
  <2>1. driver' = driver /\ phase' = "init" /\ at' = 1
    BY <1>1 DEF Start, Begin
  <2> QED BY <2>1, GotFirst DEF Armed
<1>2. CASE GetFails
  BY <1>2 DEF GetFails, ErrorPath, Begin
<1> SUFFICES ASSUME ~Start, ~GetFails PROVE Handed(h, r)'
  BY <1>1, <1>2
<1>3. UNCHANGED driver
  <2>1. Passed \/ Acquired \/ Released \/ Untouched \/ TryFails => UNCHANGED driver
    BY DEF Passed, Acquired, Released, Untouched, TryFails
  <2>2. Return \/ Remove => UNCHANGED driver
    BY DEF Return, Remove
  <2> QED BY <2>1, <2>2, HandlersLeave, Effects
<1>4. /\ h \in Handlers /\ r \in Resources /\ HandsOver(prog, h, r)
      /\ Of(h)' = Of(h) /\ prog' = prog
  BY <1>3, SameTexts
<1>5. phase \in {"init", "live", "exit"} /\ Armed(h) => Handed(h, r)
  BY <1>4 DEF Handing
<1>6. CASE Acquired \/ TryFails
  <2>1. /\ Active /\ GoOn /\ UNCHANGED body /\ current.op \in Acquiring
        /\ Become(current.gets, "held") \/ (Become(current.gets, "failed") /\ current.op = "try")
    BY <1>6 DEF Acquired, TryFails, Acquiring
  <2>2. phase = "init" /\ phase' = "init" /\ at' = at + 1
    BY <1>3, <2>1, InInit, Onward
  <2>3. Of(h).entry \in Got(prog, at + 1)
    BY <1>4, <2>2 DEF Armed
  <2>4. Of(h).entry \in Got(prog, at) => Handed(h, r)
    BY <1>5, <2>2 DEF Armed
  <2> QED BY <1>3, <1>4, <2>1, <2>3, <2>4, InitStepHanded
<1>7. ASSUME UNCHANGED <<phase, plan>>, Active, GoOn, current.op \notin Acquiring
      PROVE  Handed(h, r)
  <2>1. CASE phase = "init"
    <3>1. current = prog.init[at] /\ at' = at + 1 /\ at \in Nat \ {0}
      BY <1>3, <1>7, <2>1, Onward DEF Sound, Course, current
    <3>2. Of(h).entry \in Got(prog, at)
      BY <1>4, <1>7, <2>1, <3>1, GotStep DEF Armed
    <3> QED BY <1>5, <2>1, <3>2 DEF Armed
  <2>2. CASE phase # "init"
    BY <1>5, <1>7, <2>2 DEF Armed
  <2> QED BY <2>1, <2>2
<1>8. CASE Passed
  <2>1. Handed(h, r)
    BY <1>3, <1>7, <1>8, Onward DEF Passed, Acquiring
  <2>2. Held' = Held
    BY <1>8, HeldSame DEF Passed
  <2> QED BY <1>4, <1>8, <2>1, <2>2, HandedStays DEF Passed
<1>9. CASE Released
  <2>1. /\ UNCHANGED <<phase, plan>> /\ current.op \notin Acquiring
        /\ phase \in {"init", "exit"}
    BY <1>9, Onward, InPlan DEF Released, Releasing, Acquiring
  <2>2. Handed(h, r)
    BY <1>7, <1>9, <2>1 DEF Released
  <2> QED BY <1>4, <1>9, <2>1, <2>2, ReleaseStepHanded
<1>10. CASE Return
  <2>1. phase = "init" /\ at = Done(prog)
    BY <1>10 DEF Return, Sound, Typed, Planned, Course, Done
  <2>2. Handed(h, r)
    BY <1>4, <1>5, <2>1, Arming DEF Armed, Sound
  <2>3. Held' = Held
    BY <1>10, HeldSame DEF Return
  <2> QED BY <1>4, <1>10, <2>2, <2>3, HandedStays DEF Return
<1>11. CASE Untouched \/ Remove
  <2>1. UNCHANGED <<res, body>> /\ Held' = Held
    BY <1>3, <1>11, HeldSame DEF Untouched, Remove
  <2>2. phase \in {"init", "live", "exit"} /\ Armed(h)
    <3>1. CASE Untouched
      BY <1>4, <3>1 DEF Untouched, place, Armed
    <3>2. CASE Remove
      BY <3>2 DEF Remove, Armed
    <3> QED BY <1>11, <3>1, <3>2
  <2> QED BY <1>3, <1>4, <1>5, <2>1, <2>2, HandedStays
<1>12. ASSUME NEW g \in Handlers, Called(g) \/ Stepped(g) PROVE Handed(h, r)'
  <2>1. UNCHANGED place
    BY <1>12, HandlersLeave
  <2>2. Handed(h, r)
    BY <1>4, <1>5, <2>1 DEF Armed, place
  <2> QED BY <1>4, <1>12, <2>2, HandlerStepHanded
<1> QED BY <1>6, <1>8, <1>9, <1>10, <1>11, <1>12, Effects

-----------------------------------------------------------------------------
(* A step of exit that gives r up, if it is reached: as it stands, because *)
(* no handler runs, because what it asks for stays held until then, or     *)
(* because the handler r was handed to will be through.                    *)
Stable(rs, i) ==
  /\ rs \subseteq Held \ HandlersTake(prog)
  /\ \A j \in at .. i - 1 : rs \intersect plan[j].puts = {}

FlushOf(i, h, r) ==
  /\ plan[i].op = "flush" /\ Of(h).sync /\ HandsOver(prog, h, r)
  /\ Of(h).entry \in plan[i].puts

Clears(i, r) ==
  \/ plan[i].op \in Releasing /\ r \in plan[i].puts
  \/ plan[i].op = "put_if_idle" /\ r \in plan[i].puts /\ "busy" \in LeakExcuses[driver]
  \/ plan[i].op = "put_if" /\ r \in plan[i].puts /\ Stable(plan[i].needs, i)
  \/ \E h \in Handlers : FlushOf(i, h, r)

Due(r) == \E i \in at .. Len(plan) : Clears(i, r)

StillReleased ==
  UNION {plan[i].puts : i \in {j \in at .. Len(plan) : plan[j].op \in Releasing}}

Excused == seen \intersect LeakExcuses[driver] # {}

(* What is owned is what init has acquired, and is due to be given up on   *)
(* an error path and in exit.                                              *)
Owes ==
  /\ phase = "idle" => Owned = {}
  /\ phase = "init" => Owned \subseteq Got(prog, at)
  /\ phase = "live" => Owned \subseteq Got(prog, Done(prog))
  /\ phase = "undo" => Owned \subseteq StillReleased
  /\ phase = "exit" => \A r \in Owned : Due(r)
  /\ phase = "exit" /\ "busy" \in LeakExcuses[driver] => Running = {}

Owing == TextTidy /\ ~Excused => Owes

Kind == Sound /\ Passing /\ Handing

(* A driver not loaded owns nothing.                                       *)
LEMMA InitOwing == Init => Owing
<1> SUFFICES ASSUME Init PROVE Owes
  BY DEF Owing
<1> QED BY DEF Init, Owes, Owned, Held, With

(* Who holds no more owns no more.                                         *)
LEMMA OwnedShrinks ==
  ASSUME Held' \subseteq Held
  PROVE  Owned' \subseteq Owned
BY DEF Owned

(* What clears r still does, as long as what it asks for stays held.       *)
LEMMA ClearsStays ==
  ASSUME UNCHANGED <<driver, plan>>, NEW i \in Nat, NEW r, Clears(i, r), at \in Nat,
         NEW lost, Held \ lost \subseteq Held',
         \/ at' = at /\ lost \subseteq HandlersTake(prog)
         \/ at' = at + 1 /\ i # at /\ i >= at /\ lost \subseteq plan[at].puts
  PROVE  Clears(i, r)'
<1>1. prog' = prog /\ Handlers' = Handlers /\ \A h \in Handlers : Of(h)' = Of(h)
  BY SameTexts
<1>2. HandlersTake(prog)' = HandlersTake(prog)
  BY <1>1 DEF HandlersTake, OnceEntries, PutBy
<1>3. ASSUME NEW rs, Stable(rs, i) PROVE Stable(rs, i)'
  <2>1. rs \subseteq Held \ HandlersTake(prog)
        /\ \A j \in at .. i - 1 : rs \intersect plan[j].puts = {}
    BY <1>3 DEF Stable
  <2>2. rs \intersect lost = {}
    <3>1. CASE at' = at /\ lost \subseteq HandlersTake(prog)
      BY <2>1, <3>1
    <3>2. CASE i # at /\ i >= at /\ lost \subseteq plan[at].puts
      <4>1. at \in at .. i - 1
        BY <3>2
      <4> QED BY <2>1, <3>2, <4>1
    <3> QED BY <3>1, <3>2
  <2>3. \A j \in at' .. i - 1 : j \in at .. i - 1
    OBVIOUS
  <2> QED BY <1>2, <2>1, <2>2, <2>3 DEF Stable
<1>4. \A h \in Handlers : FlushOf(i, h, r) => FlushOf(i, h, r)'
  BY <1>1 DEF FlushOf
<1> QED BY <1>1, <1>3, <1>4 DEF Clears

(* What is due stays due while the plan stands and what handlers do not    *)
(* take is held.                                                           *)
LEMMA DueStays ==
  ASSUME UNCHANGED <<driver, plan, at>>, NEW r, Due(r), at \in Nat,
         Held \ HandlersTake(prog) \subseteq Held'
  PROVE  Due(r)'
<1>1. PICK i \in at .. Len(plan) : Clears(i, r)
  BY DEF Due
<1>2. i \in Nat
  BY <1>1
<1>3. Clears(i, r)'
  BY <1>1, <1>2, ClearsStays
<1> QED BY <1>1, <1>3 DEF Due

(* A step that clears r, if it gets done: r is not held after it.          *)
LEMMA ClearsNow ==
  ASSUME Kind, Owes, Released, phase = "exit", NEW r \in Resources, Clears(at, r)
  PROVE  r \notin Held'
<1>1. ~Omitted => Held' = Held \ current.puts
  BY ReleasedHeld
<1>2. Held' \subseteq Held
  BY ReleasedHeld
<1>3. CASE current.op \in Releasing /\ r \in current.puts
  BY <1>1, <1>3 DEF Omitted, Releasing
<1>4. CASE current.op = "put_if_idle" /\ r \in current.puts /\ "busy" \in LeakExcuses[driver]
  <2>1. Running = {}
    BY <1>4 DEF Owes
  <2>2. ~Busy(current.puts)
    BY <2>1 DEF Busy
  <2> QED BY <1>1, <1>4, <2>2 DEF Omitted
<1>5. CASE current.op = "put_if" /\ r \in current.puts /\ Stable(current.needs, at)
  <2>1. ~Omitted
    BY <1>5 DEF Omitted, Stable
  <2> QED BY <1>1, <1>5, <2>1
<1>6. ASSUME NEW h \in Handlers, FlushOf(at, h, r) PROVE r \notin Held
  <2>1. /\ current.op = "flush" /\ Of(h).sync /\ HandsOver(prog, h, r)
        /\ Of(h).entry \in current.puts
    BY <1>6 DEF FlushOf, current
  <2>2. Handed(h, r)
    BY <2>1 DEF Kind, Handing, Armed
  <2>3. Of(h).entry \in Resources
    BY <2>1, Arming DEF Kind, Sound
  <2>4. res[Of(h).entry] # "held"
    BY <2>1, <2>3 DEF Released, Held, With
  <2>5. h \notin Running
    BY <2>1 DEF Released, Synchronous
  <2>6. body[h] = <<>>
    BY <2>5 DEF Running
  <2>7. r \notin PutBy(body[h])
    BY <2>6 DEF PutBy
  <2> QED BY <2>2, <2>4, <2>7 DEF Handed
<1> QED BY <1>2, <1>3, <1>4, <1>5, <1>6 DEF Clears, current

(* What an error path will release is released by the step it passes, or   *)
(* by one to come.                                                         *)
LEMMA StillReleasedStep ==
  ASSUME Sound, Active, GoOn, NEW r \in StillReleased
  PROVE  r \in StillReleased' \/ (current.op \in Releasing /\ r \in current.puts)
<1>1. PICK i \in at .. Len(plan) : plan[i].op \in Releasing /\ r \in plan[i].puts
  BY DEF StillReleased
<1>2. at \in 1 .. Len(plan) /\ Len(plan) \in Nat
  BY InPlan
<1>3. CASE i = at
  BY <1>1, <1>3 DEF current
<1>4. CASE i # at
  <2>1. i \in at' .. Len(plan') /\ plan' = plan
    BY <1>2, <1>4 DEF GoOn
  <2> QED BY <1>1, <2>1 DEF StillReleased
<1> QED BY <1>3, <1>4

(* What is due stays due when the plan goes past a step that does not      *)
(* clear it.                                                               *)
LEMMA DueStep ==
  ASSUME Sound, Active, GoOn, driver' = driver, NEW r, Due(r), ~Clears(at, r),
         Held \ current.puts \subseteq Held'
  PROVE  Due(r)'
<1>1. PICK i \in at .. Len(plan) : Clears(i, r)
  BY DEF Due
<1>2. at \in 1 .. Len(plan) /\ Len(plan) \in Nat
  BY InPlan
<1>3. plan' = plan /\ at' = at + 1
  BY DEF GoOn
<1>4. i # at /\ i >= at /\ i \in Nat /\ i \in at' .. Len(plan')
  BY <1>1, <1>2, <1>3
<1>5. Clears(i, r)'
  <2> DEFINE lost == plan[at].puts
  <2>1. Held \ lost \subseteq Held' /\ lost \subseteq plan[at].puts /\ at \in Nat
    BY <1>2 DEF current
  <2> HIDE DEF lost
  <2> QED BY <1>1, <1>3, <1>4, <2>1, ClearsStays
<1> QED BY <1>4, <1>5 DEF Due

(* A step of the plan that may only release things.                        *)
LEMMA StepOwing ==
  ASSUME Kind, Owes, Passed \/ Released
  PROVE  Owes'
<1>1. /\ Sound /\ Active /\ GoOn /\ UNCHANGED <<driver, body>>
      /\ current.op \notin Acquiring
  BY DEF Kind, Passed, Released, Releasing, Acquiring
<1>2. Held' \subseteq Held /\ Held \ current.puts \subseteq Held'
  BY ReleasedHeld, HeldSame DEF Passed
<1>3. /\ phase \in {"init", "undo", "exit"} /\ phase' = phase
      /\ at' = at + 1 /\ at \in Nat \ {0} /\ prog' = prog
  BY <1>1, Onward, InPlan
<1>4. Owned' \subseteq Owned
  BY <1>2, OwnedShrinks
<1>5. CASE phase = "init"
  <2>1. current = prog.init[at]
    BY <1>5 DEF Kind, Sound, Course, current
  <2>2. Got(prog, at)' = Got(prog, at)
    BY <1>1, <1>3, <2>1, GotStep
  <2> QED BY <1>3, <1>4, <1>5, <2>2 DEF Owes
<1>6. CASE phase = "undo"
  <2> SUFFICES ASSUME NEW r \in Owned' PROVE r \in StillReleased'
    BY <1>3, <1>6 DEF Owes
  <2>1. r \in StillReleased
    BY <1>4, <1>6 DEF Owes
  <2>2. r \in Held'
    BY DEF Owned
  <2>3. CASE current.op \in Releasing /\ r \in current.puts
    <3>1. Released
      BY <2>3 DEF Passed, Releasing
    <3>2. ~Omitted
      BY <2>3 DEF Omitted, Releasing
    <3> QED BY <2>2, <2>3, <3>1, <3>2, ReleasedHeld
  <2> QED BY <1>1, <2>1, <2>3, StillReleasedStep
<1>7. CASE phase = "exit"
  <2>1. "busy" \in LeakExcuses[driver]' => Running' = {}
    <3>1. Running' = Running
      BY <1>1, SameTexts DEF Running
    <3> QED BY <1>1, <1>7, <3>1 DEF Owes
  <2>2. ASSUME NEW r \in Owned' PROVE Due(r)'
    <3>1. r \in Owned /\ r \in Resources /\ Due(r)
      BY <1>4, <1>7 DEF Owes, Owned, Held, With
    <3>2. r \in Held'
      BY DEF Owned
    <3>3. ~Clears(at, r)
      <4>1. CASE Passed
        BY <4>1 DEF Passed, Clears, FlushOf, Releasing, current
      <4>2. CASE Released
        BY <1>7, <3>1, <3>2, <4>2, ClearsNow
      <4> QED BY <4>1, <4>2
    <3> QED BY <1>1, <1>2, <3>1, <3>3, DueStep
  <2> QED BY <1>3, <1>7, <2>1, <2>2 DEF Owes
<1> QED BY <1>3, <1>5, <1>6, <1>7

(* What init leaves and its exit gives up: on its way out, each resource   *)
(* is due.                                                                 *)
LEMMA GivenUpDue ==
  ASSUME Kind, Remove, TextTidy, ~Excused', NEW r \in Owned,
         GivenUp(prog, LeakExcuses[driver], r)
  PROVE  Due(r)'
<1>1. /\ phase = "live" /\ plan' = Ending(prog) /\ at' = 1 /\ UNCHANGED <<driver, res, body>>
      /\ seen' = seen \union {"removed"}
                      \union (IF Running \union Pending # {} THEN {"busy"} ELSE {})
  BY DEF Remove, Begin, Ending
<1>2. /\ prog' = prog /\ Handlers' = Handlers /\ \A h \in Handlers : Of(h)' = Of(h)
      /\ Held' = Held
  BY <1>1, SameTexts, HeldSame
<1>3. "busy" \in LeakExcuses[driver] => Running = {} /\ Pending = {}
  BY <1>1 DEF Excused
<1>4. Len(Ending(prog)) \in Nat /\ DOMAIN Ending(prog) = 1 .. Len(Ending(prog))
  BY DriverTexts, JoinedText DEF Kind, Sound, Ending
<1>5. \A i \in DOMAIN Ending(prog) : Clears(i, r)' => Due(r)'
  BY <1>1, <1>4 DEF Due
<1>6. r \in Held /\ r \in Resources
  BY DEF Owned, Held, With
<1>7. CASE r \in Releases(Ending(prog))
  <2>1. PICK i \in DOMAIN Ending(prog) :
          Ending(prog)[i].op \in Releasing /\ r \in Ending(prog)[i].puts
    BY <1>7 DEF Releases
  <2>2. Clears(i, r)'
    BY <1>1, <2>1 DEF Clears
  <2> QED BY <1>5, <2>2
<1>8. ASSUME NEW h \in DOMAIN prog.handlers, HandsOver(prog, h, r),
             \/ "busy" \in LeakExcuses[driver]
             \/ /\ prog.handlers[h].sync
                /\ \E i \in DOMAIN Ending(prog) :
                     Ending(prog)[i].op = "flush"
                     /\ prog.handlers[h].entry \in Ending(prog)[i].puts
      PROVE  Due(r)'
  <2>1. h \in Handlers /\ Of(h) = prog.handlers[h]
    BY DEF Handlers, Of
  <2>2. CASE "busy" \in LeakExcuses[driver]
    <3>1. Handed(h, r)
      BY <1>1, <1>6, <1>8, <2>1 DEF Kind, Handing, Armed
    <3>2. res[Of(h).entry] # "held"
      BY <1>3, <1>8, <2>1, <2>2 DEF Pending, HandsOver
    <3>3. body[h] = <<>>
      BY <1>3, <2>1, <2>2 DEF Running
    <3>4. r \notin PutBy(body[h])
      BY <3>3 DEF PutBy
    <3> QED BY <1>6, <3>1, <3>2, <3>4 DEF Handed
  <2>3. CASE prog.handlers[h].sync
             /\ \E i \in DOMAIN Ending(prog) :
                  Ending(prog)[i].op = "flush"
                  /\ prog.handlers[h].entry \in Ending(prog)[i].puts
    <3>1. PICK i \in DOMAIN Ending(prog) :
            Ending(prog)[i].op = "flush" /\ Of(h).entry \in Ending(prog)[i].puts
      BY <2>1, <2>3
    <3>2. FlushOf(i, h, r)'
      BY <1>1, <1>2, <1>8, <2>1, <2>3, <3>1 DEF FlushOf
    <3>3. Clears(i, r)'
      BY <1>2, <2>1, <3>2 DEF Clears
    <3> QED BY <1>5, <3>3
  <2> QED BY <1>8, <2>2, <2>3
<1>9. CASE "busy" \in LeakExcuses[driver] /\ r \in OnceEntries(prog)
  <2>1. PICK h \in Handlers : Of(h).once /\ r = Of(h).entry
    BY <1>9 DEF OnceEntries, Handlers, Of
  <2>2. h \in Pending
    BY <1>6, <2>1 DEF Pending, Held, With
  <2> QED BY <1>3, <1>9, <2>2
<1>10. ASSUME "busy" \in LeakExcuses[driver],
              NEW i \in DOMAIN Ending(prog),
              Ending(prog)[i].op = "put_if_idle", r \in Ending(prog)[i].puts
       PROVE  Due(r)'
  <2>1. Clears(i, r)'
    BY <1>1, <1>10 DEF Clears
  <2> QED BY <1>5, <2>1
<1>11. ASSUME "ignored" \in LeakExcuses[driver], Orderly(prog),
              NEW i \in DOMAIN Ending(prog),
              Ending(prog)[i].op = "put_if", r \in Ending(prog)[i].puts,
              Ending(prog)[i].needs
                \subseteq Sure(prog, Done(prog)) \ PutBefore(Ending(prog), i)
       PROVE  Due(r)'
  <2> DEFINE rs == Ending(prog)[i].needs
  <2>1. "ignored" \notin seen
    BY <1>1, <1>11 DEF Excused
  <2>2. Sure(prog, Done(prog)) \subseteq Held
    BY <1>1, <1>11, <2>1 DEF Kind, Passing, HasSure
  <2>3. rs \subseteq Held \ HandlersTake(prog)
    BY <1>11, <2>2 DEF Sure
  <2>4. \A j \in 1 .. i - 1 : rs \intersect Ending(prog)[j].puts = {}
    BY <1>11 DEF PutBefore
  <2>5. HandlersTake(prog)' = HandlersTake(prog)
    BY <1>2 DEF HandlersTake, OnceEntries, PutBy
  <2>6. Stable(plan[i].needs, i)'
    <3>1. plan'[i].needs = rs
      BY <1>1
    <3> HIDE DEF rs
    <3>2. rs \subseteq (Held \ HandlersTake(prog))'
      BY <1>2, <2>3, <2>5
    <3>3. \A j \in at' .. i - 1 : rs \intersect plan'[j].puts = {}
      BY <1>1, <2>4
    <3> QED BY <3>1, <3>2, <3>3 DEF Stable
  <2>7. Clears(i, r)'
    BY <1>1, <1>11, <2>6 DEF Clears
  <2> QED BY <1>5, <2>7
<1> QED BY <1>7, <1>8, <1>9, <1>10, <1>11 DEF GivenUp

(* When exit starts, everything owned is due, by the rules of the text.    *)
LEMMA RemoveOwing ==
  ASSUME Kind, Owes, Remove, TextTidy, ~Excused'
  PROVE  Owes'
<1>1. /\ phase = "live" /\ phase' = "exit" /\ UNCHANGED <<driver, res, body>>
      /\ seen' = seen \union {"removed"}
                      \union (IF Running \union Pending # {} THEN {"busy"} ELSE {})
  BY DEF Remove, Begin
<1>2. "removed" \notin LeakExcuses[driver]
  BY <1>1 DEF Excused
<1>3. \A r \in Got(prog, Done(prog)) \ Values : GivenUp(prog, LeakExcuses[driver], r)
  BY <1>2 DEF TextTidy, Tidy
<1>4. Owned' = Owned
  BY <1>1, HeldSame DEF Owned
<1>5. \A r \in Owned : r \in Got(prog, Done(prog)) \ Values
  BY <1>1 DEF Owes, Owned
<1>6. \A r \in Owned' : Due(r)'
  BY <1>3, <1>4, <1>5, GivenUpDue
<1>7. "busy" \in LeakExcuses[driver]' => Running' = {}
  <2>1. Running' = Running
    BY <1>1, SameTexts DEF Running
  <2> QED BY <1>1, <2>1 DEF Excused
<1> QED BY <1>1, <1>6, <1>7 DEF Owes

(* Returning from a phase keeps it: past the end of a plan nothing is      *)
(* due.                                                                    *)
LEMMA ReturnOwing ==
  ASSUME Kind, Owes, Return
  PROVE  Owes'
<1>1. /\ phase \in {"init", "undo", "exit"} /\ at > Len(plan) /\ UNCHANGED <<driver, res>>
      /\ phase' = IF phase = "init" THEN "live" ELSE "idle"
  BY DEF Return
<1>2. Owned' = Owned /\ Got(prog, Done(prog))' = Got(prog, Done(prog))
  BY <1>1, HeldSame, SameTexts DEF Owned, Got, Done
<1>3. phase = "init" => at = Done(prog)
  BY <1>1 DEF Kind, Sound, Typed, Planned, Course, Done
<1>4. at .. Len(plan) = {}
  BY <1>1 DEF Kind, Sound, Typed, Planned
<1>5. phase = "undo" => Owned = {}
  BY <1>4 DEF Owes, StillReleased
<1>6. phase = "exit" => Owned = {}
  BY <1>4 DEF Owes, Due
<1> QED BY <1>1, <1>2, <1>3, <1>5, <1>6 DEF Owes

(* Each error path releases what init has got so far.                      *)
LEMMA GetFailsOwing ==
  ASSUME Kind, Owes, GetFails, TextTidy, ~Excused'
  PROVE  Owes'
<1>1. /\ phase' = "undo" /\ plan' = current.undo \o prog.devres /\ at' = 1
      /\ UNCHANGED <<driver, res>> /\ Active /\ current.op = "get"
      /\ seen' = seen \union {Circumstance("failed")}
  BY DEF GetFails, ErrorPath, Begin
<1>2. /\ phase = "init" /\ at \in DOMAIN prog.init /\ current = prog.init[at]
  BY <1>1, InInit DEF Kind, Acquiring
<1>3. Owned' = Owned
  BY <1>1, HeldSame DEF Owned
<1>4. ErrorPathTidy(prog, LeakExcuses[driver], at)
  BY <1>1, <1>2 DEF TextTidy, Tidy
<1>5. Got(prog, at) \ Values \subseteq Releases(plan')
  <2>1. ~("failed" \in LeakExcuses[driver]
            /\ ("unmet" \in LeakExcuses[driver] \/ current.needs = {}))
    BY <1>1 DEF Excused, Circumstance
  <2> QED BY <1>1, <1>2, <1>4, <2>1 DEF ErrorPathTidy
<1>6. StillReleased' = Releases(plan')
  <2>1. DOMAIN plan' = 1 .. Len(plan')
    <3>1. IsEnding(current.undo)
      BY <1>2, DriverTexts DEF Kind, Sound
    <3> QED BY <1>1, <3>1, DriverTexts, JoinedText DEF Kind, Sound
  <2>2. {j \in at' .. Len(plan') : plan'[j].op \in Releasing}
          = {j \in DOMAIN plan' : plan'[j].op \in Releasing}
    BY <1>1, <2>1
  <2> QED BY <2>2 DEF StillReleased, Releases
<1>7. Owned \subseteq Got(prog, at) \ Values
  BY <1>2 DEF Owes, Owned
<1> QED BY <1>1, <1>3, <1>5, <1>6, <1>7 DEF Owes

(* A step of init that acquires something, or fails to.                    *)
LEMMA InitStepOwing ==
  ASSUME Kind, Owes, Acquired \/ TryFails
  PROVE  Owes'
<1>1. UNCHANGED driver /\ Active /\ GoOn /\ current.op \in Acquiring
  BY DEF Acquired, TryFails, Acquiring
<1>2. /\ phase = "init" /\ current = prog.init[at]
      /\ phase' = phase /\ at' = at + 1 /\ at \in Nat \ {0} /\ prog' = prog
  BY <1>1, InInit, Onward DEF Kind
<1>3. Held' \subseteq Held \union current.gets
  BY <1>1, HeldGained, HeldLost DEF Acquired, TryFails
<1>4. Got(prog, at)' = Got(prog, at) \union current.gets
  BY <1>1, <1>2, GotStep
<1> QED BY <1>2, <1>3, <1>4 DEF Owes, Owned

(* Handlers do not add to what is owed.                                    *)
LEMMA HandlerOwing ==
  ASSUME Kind, Owes, ~Excused', NEW h \in Handlers, Called(h) \/ Stepped(h)
  PROVE  Owes'
<1>1. /\ UNCHANGED <<driver, phase, plan, at>> /\ Held' \subseteq Held
      /\ Held \ HandlersTake(prog) \subseteq Held'
  BY HandlersLeave DEF Kind, place
<1>2. Owned' \subseteq Owned /\ prog' = prog /\ at \in Nat
  BY <1>1, OwnedShrinks, SameTexts DEF Kind, Sound, Typed, Planned
<1>3. phase = "exit" => \A r \in Owned' : Due(r)'
  BY <1>1, <1>2, DueStays DEF Owes
<1>4. phase = "exit" /\ "busy" \in LeakExcuses[driver] => FALSE
  <2> SUFFICES ASSUME phase = "exit", "busy" \in LeakExcuses[driver] PROVE FALSE
    OBVIOUS
  <2>1. CASE Called(h)
    BY <1>1, <2>1 DEF Called, Excused
  <2>2. CASE Stepped(h)
    BY <2>2 DEF Owes, Running, Stepped
  <2> QED BY <2>1, <2>2
<1>5. StillReleased' = StillReleased
  BY <1>1 DEF StillReleased
<1> QED BY <1>1, <1>2, <1>3, <1>4, <1>5 DEF Owes

(* Every step keeps what is owned among what the text will give up.        *)
LEMMA NextOwing ==
  ASSUME Kind, Owing, Next
  PROVE  Owing'
<1> SUFFICES ASSUME TextTidy', ~Excused' PROVE Owes'
  BY DEF Owing
<1>1. CASE Start
  <2>1. /\ driver' = driver /\ phase' = "init"
        /\ res' = [r \in Resources |-> "none"]
    BY <1>1 DEF Start, Begin, Become
  <2>2. Held' = {}
    BY <2>1, SameTexts DEF Held, With
  <2> QED BY <2>1, <2>2 DEF Owes, Owned
<1> SUFFICES ASSUME ~Start PROVE Owes'
  BY <1>1
<1>2. UNCHANGED driver /\ seen \subseteq seen'
  <2>1. Passed \/ Acquired \/ Released \/ Untouched => UNCHANGED driver /\ seen \subseteq seen'
    BY DEF Passed, Acquired, Released, Untouched
  <2>2. Return \/ Remove => UNCHANGED driver /\ seen \subseteq seen'
    BY DEF Return, Remove
  <2>3. GetFails \/ TryFails => UNCHANGED driver /\ seen \subseteq seen'
    BY DEF GetFails, TryFails
  <2> QED BY <2>1, <2>2, <2>3, HandlersLeave, Effects DEF Kind
<1>3. TextTidy
  BY <1>2, SameTexts DEF TextTidy
<1>4. Owes
  BY <1>2, <1>3 DEF Owing, Excused
<1>5. CASE Untouched
  <2>1. /\ UNCHANGED <<driver, phase, plan, at, body>> /\ Held' = Held
    BY <1>5, HeldSame DEF Untouched, place
  <2>2. /\ Owned' = Owned /\ prog' = prog /\ at \in Nat /\ Running' = Running
    BY <2>1, SameTexts DEF Owned, Running, Kind, Sound, Typed, Planned
  <2>3. phase = "exit" => \A r \in Owned' : Due(r)'
    BY <1>4, <2>1, <2>2, DueStays DEF Owes
  <2>4. StillReleased' = StillReleased
    BY <2>1 DEF StillReleased
  <2> QED BY <1>4, <2>1, <2>2, <2>3, <2>4 DEF Owes
<1> QED BY <1>2, <1>3, <1>4, <1>5, StepOwing, InitStepOwing, ReturnOwing, RemoveOwing,
           GetFailsOwing, HandlerOwing, Effects

(* A driver that is tidy in its text leaves nothing behind: if each error  *)
(* path of its init releases what the steps before it have acquired, and   *)
(* its exit, or a handler it has been handed to, gives up the rest, then   *)
(* nothing is owned once init has failed or exit has returned, whatever    *)
(* the kernel refuses and whenever its handlers run, but in the            *)
(* circumstances that the text itself excuses.                             *)
THEOREM TidyCorrect == Spec => [](TextTidy => NothingLeft)
<1> DEFINE I == Kind /\ Owing
<1>1. Init => I
  BY InitSound, InitPassing, InitHanding, InitOwing DEF Kind
<1>2. I /\ [Next]_vars => I'
  <2>1. ASSUME Kind, Next PROVE Kind'
    BY <2>1, NextSound, NextPassing, NextHanding DEF Kind
  <2>2. ASSUME Kind, Owing, UNCHANGED vars PROVE Kind' /\ Owing'
    <3>1. UNCHANGED <<driver, phase, plan, at, res, body, seen>> /\ Sound'
      BY <2>2, NextSound DEF vars, place, Kind
    <3>2. /\ prog' = prog /\ Handlers' = Handlers /\ Resources' = Resources
          /\ \A h \in Handlers : Of(h)' = Of(h)
          /\ Held' = Held
      BY <3>1, SameTexts, HeldSame
    <3>3. Passing'
      BY <2>2, <3>1, UntouchedPassing DEF Kind, Untouched, place
    <3>4. Handing'
      BY <2>2, <3>1, <3>2 DEF Kind, Handing, Armed, Handed
    <3>5. \A r : Due(r) => Due(r)'
      BY <2>2, <3>1, <3>2, DueStays DEF Kind, Sound, Typed, Planned
    <3>6. /\ Owned' = Owned /\ Running' = Running /\ StillReleased' = StillReleased
          /\ Excused' = Excused /\ TextTidy' = TextTidy
      BY <3>1, <3>2 DEF Owned, Running, StillReleased, Excused, TextTidy
    <3>7. Owing'
      BY <2>2, <3>1, <3>2, <3>5, <3>6 DEF Owing, Owes
    <3> QED BY <3>1, <3>3, <3>4, <3>7 DEF Kind
  <2> QED BY <2>1, <2>2, NextOwing
<1>3. I => (TextTidy => NothingLeft)
  BY DEF Owing, Owes, NothingLeft, Excused
<1> QED BY <1>1, <1>2, <1>3, PTL DEF Spec

-----------------------------------------------------------------------------
(* Safe texts.  What a run that is not excused keeps of the reading.       *)
Strict == seen \intersect FaultExcuses[driver] = {}

Works(h) == WorksOn(Of(h).steps, FaultExcuses[driver])
WorksNow(h) == WorksOn(body[h], FaultExcuses[driver])

Frugal(steps, excuses) ==
  \A i \in Heard(steps, excuses) :
    Wants(steps[i]) \intersect PutBefore(steps, i) = {}

Hushed(h) == phase = "exit" /\ Quiet(prog, FaultExcuses[driver], Of(h))

(* What a handler that runs works on is there, and what one that may be    *)
(* called works on; one that runs once is not armed while it runs.         *)
ServedOne(h) ==
  /\ WorksNow(h) \subseteq Held /\ WorksNow(h) \subseteq Works(h)
  /\ Frugal(body[h], FaultExcuses[driver])
  /\ GivesUp(body[h], FaultExcuses[driver])
       \subseteq GivesUp(Of(h).steps, FaultExcuses[driver])
  /\ res[Of(h).entry] = "held" /\ ~Hushed(h) => Works(h) \subseteq Held
  /\ body[h] # <<>> /\ Of(h).once => res[Of(h).entry] # "held"

Served == \A h \in Handlers : ServedOne(h)

(* An ending gives up nothing twice, and uses nothing it has given up.     *)
Lasting ==
  \A i \in DOMAIN plan :
    /\ plan[i].puts \intersect
         (PutBy(prog.init) \union HandlersPut(prog) \union PutBefore(plan, i)) = {}
    /\ Needed(plan[i]) \intersect (HandlersTake(prog) \union PutBefore(plan, i)) = {}

(* A handler has stopped for good, or the ending will wait for it before   *)
(* it gives up what it works on, or it need not be waited for.             *)
Stopped(h) == body[h] = <<>> /\ res[Of(h).entry] # "held"

AwaitedAt(h, j) ==
  /\ Awaits(plan[j], Of(h))
  /\ \A i \in at .. j - 1 : plan[i].puts \intersect Works(h) = {}
Awaited(h) == \E j \in at .. Len(plan) : AwaitedAt(h, j)

CutOffAt(h, j) == Disconnects(plan[j], Of(h).entry, FaultExcuses[driver])
CutOff(h) == res[Of(h).entry] # "held" \/ \E j \in at .. Len(plan) : CutOffAt(h, j)

Apart(h) == \A i \in at .. Len(plan) : plan[i].puts \intersect Works(h) = {}

Spared(h) ==
  /\ phase = "exit" /\ CutOff(h)
  /\ \/ Hushed(h) /\ body[h] = <<>>
     \/ prog.device /\ Of(h).pins /\ Apart(h)

Leaves(h) == Stopped(h) \/ Awaited(h) \/ Spared(h)
Leaving == \A h \in Handlers : Leaves(h)

(* What is there in each phase.                                            *)
InitPlaced(k) ==
  /\ Reached(prog, FaultExcuses[driver], k)
  /\ Firm(prog, FaultExcuses[driver], k) \subseteq Held

EndPlaced ==
  /\ Lasting /\ Leaving
  /\ \A i \in at .. Len(plan) : Needed(plan[i]) \subseteq Held
  /\ phase = "exit" /\ "busy" \in FaultExcuses[driver] => Running = {}

IdlePlaced ==
  \A h \in Handlers :
    /\ res[Of(h).entry] # "held"
    /\ body[h] # <<>> => text /\ prog.device /\ Of(h).pins

Placed ==
  /\ phase = "init" => InitPlaced(at) /\ Running \subseteq ArmedBy(prog, at)
  /\ phase = "live" => InitPlaced(Done(prog))
  /\ phase \in {"undo", "exit"} => EndPlaced
  /\ phase = "idle" => IdlePlaced

Secure == fault = "none" /\ Served /\ Placed

Securing == TextSafe /\ Strict => Secure

(* What every run keeps track of: init has only what its steps acquire,    *)
(* gone is only what steps passed, or handlers, may have given up, and the *)
(* module is there while its init or exit runs, and in between.            *)
Tracks ==
  /\ phase = "init" => Held \subseteq Got(prog, at)
  /\ phase \in {"init", "live"} =>
       With("gone") \subseteq PutBy(prog.init) \union HandlersPut(prog)
  /\ phase \in {"undo", "exit"} =>
       With("gone") \subseteq PutBy(prog.init) \union HandlersPut(prog) \union PutBefore(plan, at)
  /\ phase # "idle" => text

(* The readings do not change while a driver runs.                         *)
LEMMA SameReading ==
  ASSUME driver' = driver
  PROVE  /\ TextSafe' = TextSafe /\ FaultExcuses[driver]' = FaultExcuses[driver]
         /\ prog' = prog /\ Handlers' = Handlers /\ Resources' = Resources
         /\ \A h \in Handlers : Of(h)' = Of(h) /\ Works(h)' = Works(h)
BY SameTexts DEF TextSafe, Works

(* What has gone after resources have become something.                    *)
LEMMA GoneKept ==
  ASSUME NEW rs, NEW status, driver' = driver, Become(rs, status)
  PROVE  /\ With("gone")' \subseteq With("gone") \union rs
         /\ status # "gone" => With("gone")' \subseteq With("gone")
BY DEF Become, With, Resources, prog

(* What the first steps of a text release, one step later.                 *)
LEMMA PutBeforeStep ==
  ASSUME NEW s, NEW k \in Nat \ {0}
  PROVE  PutBefore(s, k + 1) = PutBefore(s, k) \union s[k].puts
<1>1. (k + 1) - 1 = k /\ 1 .. k = (1 .. k - 1) \union {k}
  OBVIOUS
<1> QED BY <1>1 DEF PutBefore

(* What a handler that runs has next is a step of its text.                *)
LEMMA HandlerHead ==
  ASSUME Sound, NEW h \in Handlers, body[h] # <<>>
  PROVE  Head(body[h]).puts \subseteq HandlersPut(prog)
<1> DEFINE S == StepsOf(h)
           b == body[h]
<1>1. b \in Seq(S) /\ b # <<>>
  BY DEF Sound, Course
<1>2. S = {Of(h).steps[i] : i \in DOMAIN Of(h).steps}
  BY DEF StepsOf
<1> HIDE DEF S, b
<1>3. Head(b) \in S
  BY <1>1
<1>4. PICK i \in DOMAIN Of(h).steps : Head(b) = Of(h).steps[i]
  BY <1>2, <1>3
<1>5. Head(b).puts \subseteq PutBy(Of(h).steps)
  BY <1>4 DEF PutBy
<1> QED BY <1>5 DEF HandlersPut, Of, Handlers, b

(* The module comes and goes only while nothing of it runs.                *)
LEMMA TextStep ==
  ASSUME Next
  PROVE  \/ text' = text
         \/ Start \/ Return
         \/ phase = "idle" /\ UNCHANGED place /\ body' = body /\ (text' \/ ~Pinned)
<1>1. \A f : Crash(f) => text' = text
  BY DEF Crash
<1>2. Acquire \/ GetFails \/ TryFails \/ Use \/ Release \/ WaitEnds \/ WaitAgain
        \/ WaitSignalled => text' = text
  BY <1>1 DEF Acquire, GetFails, TryFails, Use, Release, WaitEnds, WaitAgain, WaitSignalled
<1>3. \A h \in Handlers : Call(h) \/ HandlerStep(h) => text' = text
  BY <1>1 DEF Call, HandlerStep
<1>4. Remove => text' = text
  BY DEF Remove
<1>5. Insmod \/ Rmmod => phase = "idle" /\ UNCHANGED place /\ body' = body /\ (text' \/ ~Pinned)
  BY DEF Insmod, Rmmod
<1> QED BY <1>2, <1>3, <1>4, <1>5 DEF Next, Proceed, Elsewhere

(* A driver not loaded has nothing, and nothing of it has gone.            *)
LEMMA InitTracks == Init => Tracks
<1> SUFFICES ASSUME Init PROVE Tracks
  OBVIOUS
<1> QED BY DEF Init, Tracks

(* Of a driver that is idle, only a start changes the place.               *)
LEMMA IdleStays ==
  ASSUME Sound, Next, phase = "idle"
  PROVE  UNCHANGED place \/ Start
<1>1. ~Active
  BY DEF Active
<1>2. ~(Passed \/ Acquired \/ Released \/ GetFails \/ TryFails)
  BY <1>1 DEF Passed, Acquired, Released, GetFails, TryFails
<1>3. ~(Return \/ Remove)
  BY DEF Return, Remove
<1> QED BY <1>2, <1>3, HandlersLeave, Effects DEF Untouched

(* The module is in memory while its init or exit runs, and in between.    *)
LEMMA TextThere ==
  ASSUME Sound, Tracks, Next
  PROVE  phase' # "idle" => text'
<1>1. Start => text' = TRUE
  BY DEF Start
<1>2. Return => (phase' # "idle" => text')
  BY DEF Return
<1>3. CASE text' = text
  <2>1. phase = "idle" /\ ~Start => phase' = "idle"
    BY IdleStays DEF place
  <2> QED BY <1>1, <1>3, <2>1 DEF Tracks
<1>4. CASE phase = "idle" /\ UNCHANGED place
  BY <1>4 DEF place
<1> QED BY <1>1, <1>2, <1>3, <1>4, TextStep

(* What a release, or a step of a handler, makes go.                       *)
LEMMA ReleasedGone ==
  ASSUME Released
  PROVE  With("gone")' \subseteq With("gone") \union current.puts
<1>1. CASE Omitted
  <2>1. UNCHANGED <<driver, res>>
    BY <1>1 DEF Released
  <2> QED BY <2>1, SameTexts DEF With
<1>2. CASE ~Omitted
  <2>1. driver' = driver /\ Become(current.puts \intersect Held, "gone")
    BY <1>2 DEF Released
  <2>2. With("gone")' \subseteq With("gone") \union (current.puts \intersect Held)
    BY <2>1, GoneKept
  <2> QED BY <2>2
<1> QED BY <1>1, <1>2

(* Handlers make go what handlers give up in their text.                   *)
LEMMA HandlerGone ==
  ASSUME Sound, NEW h \in Handlers, Called(h) \/ Stepped(h)
  PROVE  With("gone")' \subseteq With("gone") \union HandlersPut(prog)
<1>1. CASE Called(h)
  <2>1. driver' = driver /\ (res' = res \/ Become({Of(h).entry}, "spent"))
    BY <1>1 DEF Called
  <2>2. res' = res => With("gone")' = With("gone")
    BY <2>1, SameTexts DEF With
  <2> QED BY <2>1, <2>2, GoneKept
<1>2. CASE Stepped(h)
  <2> DEFINE s == Head(body[h])
  <2>1. driver' = driver /\ Become(s.puts \intersect Held, "gone")
        /\ s.puts \subseteq HandlersPut(prog)
    BY <1>2, HandlerHead DEF Stepped
  <2> HIDE DEF s
  <2>2. With("gone")' \subseteq With("gone") \union (s.puts \intersect Held)
    BY <2>1, GoneKept
  <2> QED BY <2>1, <2>2
<1> QED BY <1>1, <1>2

(* Every step keeps track.                                                 *)
LEMMA NextTracks ==
  ASSUME Sound, Tracks, Next
  PROVE  Tracks'
<1> DEFINE G == PutBy(prog.init) \union HandlersPut(prog)
<1>1. driver' = driver => prog' = prog /\ G' = G
  BY SameTexts DEF PutBy, HandlersPut
<1>2. /\ phase' = "init" => Held' \subseteq Got(prog, at)'
      /\ phase' \in {"init", "live"} => With("gone")' \subseteq G'
      /\ phase' \in {"undo", "exit"} =>
           With("gone")' \subseteq G' \union PutBefore(plan, at)'
  <2> HIDE DEF G
  <2>0. /\ phase = "init" => Held \subseteq Got(prog, at)
        /\ phase \in {"init", "live"} => With("gone") \subseteq G
        /\ phase \in {"undo", "exit"} => With("gone") \subseteq G \union PutBefore(plan, at)
    BY DEF Tracks, G
  <2>1. CASE Start
    <3>1. /\ driver' = driver /\ phase' = "init"
          /\ res' = [r \in Resources |-> "none"]
      BY <2>1 DEF Start, Begin, Become
    <3>2. Held' = {} /\ With("gone")' = {}
      BY <3>1, SameTexts DEF Held, With
    <3> QED BY <3>1, <3>2
  <2>2. CASE Return
    <3>1. /\ UNCHANGED <<driver, res>> /\ phase \in {"init", "undo", "exit"}
          /\ phase' = IF phase = "init" THEN "live" ELSE "idle"
      BY <2>2 DEF Return
    <3>2. With("gone")' = With("gone")
      BY <3>1, SameTexts DEF With
    <3> QED BY <1>1, <2>0, <3>1, <3>2
  <2>3. CASE Remove \/ GetFails
    <3>1. /\ UNCHANGED <<driver, res>> /\ phase' \in {"undo", "exit"}
      BY <2>3 DEF Remove, GetFails, ErrorPath, Begin
    <3>2. phase \in {"init", "live"}
      BY <2>3, InInit DEF Remove, GetFails, Acquiring
    <3>3. With("gone")' = With("gone")
      BY <3>1, SameTexts DEF With
    <3> QED BY <1>1, <2>0, <3>1, <3>2, <3>3
  <2>4. CASE Acquired \/ TryFails
    <3>1. /\ UNCHANGED driver /\ Active /\ GoOn /\ current.op \in Acquiring
          /\ Become(current.gets, "held") \/ Become(current.gets, "failed")
      BY <2>4 DEF Acquired, TryFails, Acquiring
    <3>2. /\ phase = "init" /\ current = prog.init[at]
          /\ phase' = phase /\ at' = at + 1 /\ at \in Nat \ {0} /\ prog' = prog
      BY <3>1, InInit, Onward
    <3>3. Held' \subseteq Held \union current.gets /\ With("gone")' \subseteq With("gone")
      BY <3>1, HeldGained, HeldLost, GoneKept
    <3>4. Got(prog, at)' = Got(prog, at) \union current.gets
      BY <3>1, <3>2, GotStep
    <3> QED BY <1>1, <2>0, <3>1, <3>2, <3>3, <3>4
  <2>5. CASE Passed \/ Released
    <3>1. /\ UNCHANGED driver /\ Active /\ GoOn /\ current.op \notin Acquiring
      BY <2>5 DEF Passed, Released, Releasing, Acquiring
    <3>2. /\ phase' = phase /\ plan' = plan /\ at' = at + 1 /\ at \in Nat \ {0} /\ prog' = prog
          /\ phase \in {"init", "undo", "exit"}
      BY <3>1, Onward, InPlan
    <3>3. Held' \subseteq Held /\ With("gone")' \subseteq With("gone") \union current.puts
      <4>1. CASE Passed
        <5>1. UNCHANGED <<driver, res>>
          BY <4>1 DEF Passed
        <5> QED BY <5>1, HeldSame, SameTexts DEF With
      <4> QED BY <2>5, <4>1, ReleasedHeld, ReleasedGone
    <3>4. PutBefore(plan, at)' = PutBefore(plan, at) \union current.puts
      BY <3>2, PutBeforeStep DEF current
    <3>5. phase = "init" => current.puts \subseteq G /\ Got(prog, at)' = Got(prog, at)
      <4> SUFFICES ASSUME phase = "init"
                   PROVE  current.puts \subseteq G /\ Got(prog, at)' = Got(prog, at)
        OBVIOUS
      <4>1. at \in DOMAIN prog.init /\ current = prog.init[at]
        BY <3>1, InPlan DEF Sound, Course, current
      <4>2. current.puts \subseteq PutBy(prog.init)
        BY <4>1 DEF PutBy
      <4> QED BY <3>1, <3>2, <4>1, <4>2, GotStep DEF G
    <3> QED BY <1>1, <2>0, <3>1, <3>2, <3>3, <3>4, <3>5
  <2>6. CASE Untouched
    <3>1. UNCHANGED <<driver, res, phase, plan, at>>
      BY <2>6 DEF Untouched, place
    <3>2. With("gone")' = With("gone") /\ Held' = Held
      BY <3>1, SameTexts, HeldSame DEF With
    <3> QED BY <1>1, <2>0, <3>1, <3>2
  <2>7. ASSUME NEW h \in Handlers, Called(h) \/ Stepped(h)
        PROVE  /\ phase' = "init" => Held' \subseteq Got(prog, at)'
               /\ phase' \in {"init", "live"} => With("gone")' \subseteq G'
               /\ phase' \in {"undo", "exit"} =>
                    With("gone")' \subseteq G' \union PutBefore(plan, at)'
    <3>1. UNCHANGED <<driver, phase, plan, at>> /\ Held' \subseteq Held
      BY <2>7, HandlersLeave DEF place
    <3>2. With("gone")' \subseteq With("gone") \union G
      BY <2>7, HandlerGone DEF G
    <3>3. PutBefore(plan, at)' = PutBefore(plan, at)
      BY <3>1
    <3> QED BY <1>1, <2>0, <3>1, <3>2, <3>3
  <2> QED BY <2>1, <2>2, <2>3, <2>4, <2>5, <2>6, <2>7, Effects
<1> QED BY <1>2, TextThere DEF Tracks, G

(* The first step of a handler is heard.                                   *)
LEMMA HeardHead ==
  ASSUME NEW S, NEW b \in Seq(S), b # <<>>, NEW X
  PROVE  Wants(Head(b)) \subseteq WorksOn(b, X) /\ Head(b).puts \subseteq GivesUp(b, X)
<1>1. 1 \in DOMAIN b /\ b[1] = Head(b)
  OBVIOUS
<1>2. 1 .. 1 - 1 = {}
  OBVIOUS
<1>3. 1 \in Heard(b, X)
  BY <1>1, <1>2 DEF Heard
<1> QED BY <1>1, <1>3 DEF WorksOn, GivesUp

(* A step heard later is the next one of what is heard now.                *)
LEMMA HeardTail ==
  ASSUME NEW S, NEW b \in Seq(S), b # <<>>, NEW X, "woken" \in X => Head(b).op # "wake",
         NEW i \in Heard(Tail(b), X)
  PROVE  /\ i + 1 \in Heard(b, X) /\ Tail(b)[i] = b[i + 1]
         /\ PutBefore(Tail(b), i) \union Head(b).puts \subseteq PutBefore(b, i + 1)
<1>1. /\ i \in 1 .. Len(b) - 1 /\ Len(b) \in Nat /\ DOMAIN b = 1 .. Len(b)
      /\ \A j \in 1 .. Len(b) - 1 : Tail(b)[j] = b[j + 1]
      /\ b[1] = Head(b)
  BY DEF Heard
<1>2. i + 1 \in DOMAIN b /\ Tail(b)[i] = b[i + 1]
  BY <1>1
<1>3. "woken" \in X => \A j \in 1 .. (i + 1) - 1 : b[j].op # "wake"
  <2> SUFFICES ASSUME "woken" \in X, NEW j \in 1 .. (i + 1) - 1 PROVE b[j].op # "wake"
    OBVIOUS
  <2>1. CASE j = 1
    BY <1>1, <2>1
  <2>2. CASE j # 1
    <3>1. j - 1 \in 1 .. i - 1 /\ j - 1 \in 1 .. Len(b) - 1
      BY <1>1, <2>2
    <3>2. Tail(b)[j - 1].op # "wake"
      BY <3>1 DEF Heard
    <3>3. Tail(b)[j - 1] = b[j]
      BY <1>1, <3>1
    <3> QED BY <3>2, <3>3
  <2> QED BY <2>1, <2>2
<1>4. i + 1 \in Heard(b, X)
  BY <1>2, <1>3 DEF Heard
<1>5. \A j \in 1 .. i - 1 : j + 1 \in 1 .. (i + 1) - 1 /\ Tail(b)[j] = b[j + 1]
  BY <1>1
<1>6. 1 \in 1 .. (i + 1) - 1
  BY <1>1
<1>7. PutBefore(Tail(b), i) \subseteq PutBefore(b, i + 1)
  BY <1>5 DEF PutBefore
<1>8. Head(b).puts \subseteq PutBefore(b, i + 1)
  BY <1>1, <1>6 DEF PutBefore
<1> QED BY <1>2, <1>4, <1>7, <1>8

(* A handler that goes on works on no more than before, and on nothing it  *)
(* has just given up.                                                      *)
LEMMA FrugalTail ==
  ASSUME NEW S, NEW b \in Seq(S), b # <<>>, NEW X, "woken" \in X => Head(b).op # "wake",
         Frugal(b, X)
  PROVE  /\ WorksOn(Tail(b), X) \subseteq WorksOn(b, X) \ Head(b).puts
         /\ GivesUp(Tail(b), X) \subseteq GivesUp(b, X)
         /\ Frugal(Tail(b), X)
<1>1. \A i \in Heard(Tail(b), X) :
        /\ i + 1 \in Heard(b, X) /\ Tail(b)[i] = b[i + 1]
        /\ PutBefore(Tail(b), i) \union Head(b).puts \subseteq PutBefore(b, i + 1)
  BY HeardTail
<1>2. \A i \in Heard(Tail(b), X) :
        /\ Wants(Tail(b)[i]) = Wants(b[i + 1]) /\ i + 1 \in Heard(b, X)
        /\ Wants(b[i + 1]) \intersect PutBefore(b, i + 1) = {}
  BY <1>1 DEF Frugal
<1>3. WorksOn(Tail(b), X) \subseteq WorksOn(b, X) \ Head(b).puts
  <2> SUFFICES ASSUME NEW i \in Heard(Tail(b), X)
               PROVE  Wants(Tail(b)[i]) \subseteq WorksOn(b, X) \ Head(b).puts
    BY DEF WorksOn
  <2>1. Wants(b[i + 1]) \subseteq WorksOn(b, X)
    BY <1>2 DEF WorksOn
  <2> QED BY <1>1, <1>2, <2>1
<1>4. GivesUp(Tail(b), X) \subseteq GivesUp(b, X)
  BY <1>1 DEF GivesUp
<1>5. Frugal(Tail(b), X)
  <2> SUFFICES ASSUME NEW i \in Heard(Tail(b), X)
               PROVE  Wants(Tail(b)[i]) \intersect PutBefore(Tail(b), i) = {}
    BY DEF Frugal
  <2> QED BY <1>1, <1>2
<1> QED BY <1>3, <1>4, <1>5

(* What has nothing left to do works on nothing.                           *)
LEMMA NothingHeard ==
  ASSUME NEW X
  PROVE  WorksOn(<<>>, X) = {} /\ GivesUp(<<>>, X) = {} /\ Frugal(<<>>, X)
BY DEF WorksOn, GivesUp, Frugal, Heard

(* A handler of a safe text is armed by init, with a resource of its own.  *)
LEMMA SafeEntry ==
  ASSUME Kind, TextSafe, NEW h \in Handlers
  PROVE  /\ Of(h).entry \in Resources /\ h \in ArmedBy(prog, Done(prog))
         /\ HandlerSafe(prog, FaultExcuses[driver], h)
         /\ res[Of(h).entry] = "held" <=> Of(h).entry \in Held
<1>1. HandlerSafe(prog, FaultExcuses[driver], h) /\ prog.handlers[h] = Of(h)
      /\ h \in DOMAIN prog.handlers
  BY DEF TextSafe, Safe, Handlers, Of
<1>2. Of(h).entry \in Got(prog, Done(prog))
  BY <1>1 DEF HandlerSafe
<1>3. Len(prog.init) \in Nat /\ DOMAIN prog.init = 1 .. Len(prog.init)
  BY DriverTexts, OneSequence DEF Kind, Sound, IsText
<1>4. Of(h).entry \in Resources
  <2>1. PICK i \in 1 .. Done(prog) - 1 : Of(h).entry \in prog.init[i].gets
    BY <1>2 DEF Got
  <2>2. i \in DOMAIN prog.init
    BY <1>3, <2>1 DEF Done
  <2> QED BY <2>1, <2>2 DEF Resources
<1> QED BY <1>1, <1>2, <1>4 DEF ArmedBy, Held, With

(* What is held is neither gone nor refused.                               *)
LEMMA HeldOnly ==
  ASSUME NEW rs, rs \subseteq Held
  PROVE  /\ Misuse(rs) = "none"
         /\ rs \intersect With("gone") = {} /\ rs \intersect With("failed") = {}
BY DEF Misuse, Held, With

(* Init, of a text that is safe, is at a step that is safe.                *)
LEMMA SafeStep ==
  ASSUME Kind, TextSafe, Secure, Active, phase = "init"
  PROVE  /\ at \in DOMAIN prog.init /\ current = prog.init[at] /\ at \in Nat \ {0}
         /\ InitSafe(prog, FaultExcuses[driver], at)
         /\ current.op = "get" => ErrorPathSafe(prog, FaultExcuses[driver], at)
         /\ Wants(current) \subseteq Held
<1>1. at \in DOMAIN prog.init /\ current = prog.init[at] /\ at \in Nat \ {0}
  BY InPlan DEF Kind, Sound, Course, current
<1>2. Reached(prog, FaultExcuses[driver], at) /\ Firm(prog, FaultExcuses[driver], at) \subseteq Held
  BY DEF Secure, Placed, InitPlaced
<1>3. /\ InitSafe(prog, FaultExcuses[driver], at)
      /\ current.op = "get" => ErrorPathSafe(prog, FaultExcuses[driver], at)
  BY <1>1, <1>2 DEF TextSafe, Safe
<1>4. Wants(current) \subseteq Firm(prog, FaultExcuses[driver], at)
  BY <1>1, <1>3 DEF InitSafe
<1> QED BY <1>1, <1>2, <1>3, <1>4

(* A step of the plan finds what it uses, and releases nothing that is     *)
(* gone, nor, as its own, what it has not got.                             *)
LEMMA StepFits ==
  ASSUME Kind, Tracks, TextSafe, Secure, Active
  PROVE  Misuse(current.uses) = "none" /\ ReleaseFault = "none"
<1>1. CASE phase = "init"
  <2>1. current.uses \subseteq Held /\ current.puts \subseteq Held
    BY <1>1, SafeStep DEF Wants
  <2> QED BY <2>1, HeldOnly DEF ReleaseFault
<1>2. CASE phase \in {"undo", "exit"}
  <2>1. at \in 1 .. Len(plan) /\ at \in DOMAIN plan /\ Len(plan) \in Nat
    BY InPlan DEF Kind
  <2>2. at \in at .. Len(plan)
    BY <2>1
  <2>3. EndPlaced
    BY <1>2 DEF Secure, Placed
  <2>4. Needed(current) \subseteq Held
    BY <2>2, <2>3 DEF EndPlaced, current
  <2>5. current.uses \subseteq Held
        /\ (current.op = "put_own" => current.puts \subseteq Held)
    BY <2>4 DEF Needed
  <2>6. current.puts \intersect With("gone") = {}
    BY <1>2, <2>1, <2>3 DEF EndPlaced, Lasting, Tracks, current
  <2> QED BY <2>5, <2>6, HeldOnly DEF ReleaseFault
<1> QED BY <1>1, <1>2, InPlan DEF Kind

(* A handler that may be called has its module, and one that runs has it,  *)
(* too, and what it uses.                                                  *)
LEMMA HandlerFits ==
  ASSUME Kind, Tracks, TextSafe, Secure, NEW h \in Handlers
  PROVE  /\ res[Of(h).entry] = "held" => text
         /\ body[h] # <<>> => HandlerFault(Head(body[h])) = "none"
<1>1. (res[Of(h).entry] = "held" \/ body[h] # <<>>) => text
  <2>1. phase # "idle" => text
    BY DEF Tracks
  <2>2. phase = "idle" /\ body[h] # <<>> => text
    BY DEF Secure, Placed, IdlePlaced
  <2>3. phase = "idle" => res[Of(h).entry] # "held"
    BY DEF Secure, Placed, IdlePlaced
  <2> QED BY <2>1, <2>2, <2>3
<1>2. ASSUME body[h] # <<>> PROVE HandlerFault(Head(body[h])) = "none"
  <2>1. body[h] \in Seq(StepsOf(h))
    BY DEF Kind, Sound, Course
  <2>2. Wants(Head(body[h])) \subseteq WorksNow(h)
    BY <1>2, <2>1, HeardHead DEF WorksNow
  <2>3. WorksNow(h) \subseteq Held
    BY DEF Secure, Served, ServedOne
  <2>4. Head(body[h]).uses \subseteq Held /\ Head(body[h]).puts \subseteq Held
    BY <2>2, <2>3 DEF Wants
  <2> DEFINE s == Head(body[h])
  <2>5. s.uses \subseteq Held /\ s.puts \subseteq Held
    BY <2>4
  <2> HIDE DEF s
  <2>6. HandlerFault(s) = "none"
    BY <1>1, <1>2, <2>5, HeldOnly DEF HandlerFault
  <2> QED BY <2>6 DEF s
<1> QED BY <1>1, <1>2

(* No step from a secure state is a fault.                                 *)
LEMMA NoCrash ==
  ASSUME Kind, Tracks, TextSafe, Secure, Next
  PROVE  fault' = "none"
<1>1. fault = "none"
  BY DEF Secure
<1>2. Insmod \/ Rmmod \/ Start \/ Return \/ Remove \/ GetFails \/ TryFails => UNCHANGED fault
  BY DEF Insmod, Rmmod, Start, Return, Remove, GetFails, TryFails
<1>3. Acquire \/ Use \/ Release \/ WaitEnds \/ WaitAgain \/ WaitSignalled => UNCHANGED fault
  BY StepFits DEF Acquire, Use, Release, WaitEnds, WaitAgain, WaitSignalled
<1>4. ASSUME NEW h \in Handlers, Call(h) PROVE UNCHANGED fault
  BY <1>4, HandlerFits DEF Call, Callable
<1>5. ASSUME NEW h \in Handlers, HandlerStep(h) PROVE UNCHANGED fault
  <2> DEFINE s == Head(body[h])
  <2>1. body[h] # <<>>
    BY <1>5 DEF HandlerStep
  <2>2. HandlerFault(s) = "none"
    BY <2>1, HandlerFits
  <2> QED BY <1>5, <2>2 DEF HandlerStep
<1> QED BY <1>1, <1>2, <1>3, <1>4, <1>5 DEF Next, Proceed, Elsewhere

(* A handler keeps what it works on while nothing of that is lost.         *)
LEMMA ServedStays ==
  ASSUME NEW h \in Handlers, ServedOne(h), driver' = driver, body'[h] = body[h],
         NEW lost, Held \ lost \subseteq Held', lost \intersect Works(h) = {},
         res'[Of(h).entry] = "held" => res[Of(h).entry] = "held",
         Hushed(h) => Hushed(h)' \/ res'[Of(h).entry] # "held"
  PROVE  ServedOne(h)'
<1>1. /\ FaultExcuses[driver]' = FaultExcuses[driver] /\ Of(h)' = Of(h)
      /\ Works(h)' = Works(h)
  BY SameReading
<1>2. WorksNow(h)' = WorksNow(h)
  BY <1>1 DEF WorksNow
<1>3. /\ Frugal(body[h], FaultExcuses[driver])' = Frugal(body[h], FaultExcuses[driver])
      /\ GivesUp(body[h], FaultExcuses[driver])' = GivesUp(body[h], FaultExcuses[driver])
      /\ GivesUp(Of(h).steps, FaultExcuses[driver])' = GivesUp(Of(h).steps, FaultExcuses[driver])
  BY <1>1 DEF Frugal, GivesUp, PutBefore, Heard
<1>4. WorksNow(h)' \subseteq Held'
  BY <1>2 DEF ServedOne
<1>5. res'[Of(h).entry] = "held" /\ ~Hushed(h)' => Works(h) \subseteq Held'
  BY DEF ServedOne
<1> QED BY <1>1, <1>2, <1>3, <1>4, <1>5 DEF ServedOne

(* One that has returned and is not called asks for nothing.               *)
LEMMA ServedIdle ==
  ASSUME NEW h \in Handlers, driver' = driver, body'[h] = <<>>,
         res'[Of(h).entry] # "held" \/ Hushed(h)'
  PROVE  ServedOne(h)'
<1>1. /\ FaultExcuses[driver]' = FaultExcuses[driver] /\ Of(h)' = Of(h)
  BY SameReading
<1>2. /\ WorksOn(body'[h], FaultExcuses[driver]) = {}
      /\ GivesUp(body'[h], FaultExcuses[driver]) = {}
      /\ Frugal(body'[h], FaultExcuses[driver])
  BY NothingHeard
<1>3. /\ WorksNow(h)' = {} /\ GivesUp(body[h], FaultExcuses[driver])' = {}
      /\ Frugal(body[h], FaultExcuses[driver])'
  BY <1>1, <1>2 DEF WorksNow, WorksOn, GivesUp, Frugal, Heard, PutBefore
<1> QED BY <1>1, <1>3 DEF ServedOne

(* A call gives the handler all its steps.                                 *)
LEMMA CalledServed ==
  ASSUME Kind, TextSafe, Strict', Secure, NEW g \in Handlers, Called(g),
         NEW h \in Handlers
  PROVE  ServedOne(h)'
<1> DEFINE X == FaultExcuses[driver]
<1>1. driver' = driver /\ UNCHANGED place /\ DOMAIN body = Handlers /\ ServedOne(h) /\ ServedOne(g)
  BY DEF Called, Kind, Sound, Typed, Kept, Secure, Served
<1>2. HandlerSafe(prog, X, g) /\ HandlerSafe(prog, X, h)
      /\ Of(g).entry \in Resources /\ Of(h).entry \in Resources
  BY SafeEntry
<1>3. /\ FaultExcuses[driver]' = X /\ Of(h)' = Of(h) /\ Works(h)' = Works(h)
      /\ prog' = prog
  BY <1>1, SameReading
<1>4. Hushed(h)' = Hushed(h) /\ Hushed(g)' = Hushed(g)
  BY <1>1, SameReading DEF Hushed, place
<1>5. /\ Held' \subseteq Held
      /\ Held' = IF Of(g).once THEN Held \ {Of(g).entry} ELSE Held
      /\ res'[Of(h).entry] = "held" => res[Of(h).entry] = "held"
      /\ Of(g).once => res'[Of(g).entry] # "held"
  <2>1. CASE Of(g).once
    <3> DEFINE e == Of(g).entry
    <3>1. Become({e}, "spent") /\ "spent" # "held"
      BY <2>1 DEF Called
    <3> HIDE DEF e
    <3>2. Held' = Held \ {e}
      BY <1>1, <3>1, HeldLost
    <3>3. \A r \in Resources : /\ res'[r] = "held" => res[r] = "held"
                               /\ r = e => res'[r] = "spent"
      BY <3>1 DEF Become
    <3> QED BY <1>2, <2>1, <3>2, <3>3 DEF e
  <2>2. CASE ~Of(g).once
    BY <1>1, <2>2, HeldSame DEF Called
  <2> QED BY <2>1, <2>2
<1>6. Of(g).once => Of(g).entry \notin Works(h)
  BY <1>2 DEF HandlerSafe, Works, Of, Handlers
<1>7. CASE h # g
  <2>1. body'[h] = body[h]
    BY <1>1, <1>7 DEF Called
  <2> DEFINE lost == IF Of(g).once THEN {Of(g).entry} ELSE {}
  <2>2. Held \ lost \subseteq Held' /\ lost \intersect Works(h) = {}
    BY <1>5, <1>6
  <2> HIDE DEF lost
  <2> QED BY <1>1, <1>4, <1>5, <2>1, <2>2, ServedStays
<1>8. CASE h = g
  <2>1. body'[h] = Of(h).steps /\ res[Of(h).entry] = "held"
    BY <1>1, <1>8 DEF Called
  <2>2. ~Hushed(h)
    <3> SUFFICES ASSUME Hushed(h) PROVE FALSE
      OBVIOUS
    <3>1. phase = "exit" /\ ("busy" \in X \/ (Of(h).pins /\ ~prog.device))
      BY DEF Hushed, Quiet
    <3>2. "busy" \in seen'
      BY <1>8, <3>1 DEF Called
    <3>3. "busy" \notin X
      BY <1>3, <3>2 DEF Strict
    <3> QED BY <1>8, <3>1, <3>3 DEF Called
  <2>3. Works(h) \subseteq Held
    BY <1>1, <2>1, <2>2 DEF ServedOne
  <2>4. Works(h) \subseteq Held'
    BY <1>5, <1>6, <1>8, <2>3
  <2>5. /\ WorksNow(h)' = Works(h)
        /\ GivesUp(body[h], FaultExcuses[driver])' = GivesUp(Of(h).steps, FaultExcuses[driver])'
        /\ Frugal(body[h], FaultExcuses[driver])' = Frugal(Of(h).steps, X)
    BY <1>3, <2>1 DEF WorksNow, Works, WorksOn, GivesUp, Frugal, Heard, PutBefore
  <2>6. Frugal(Of(h).steps, X)
    BY <1>2 DEF HandlerSafe, Frugal, Of
  <2> HIDE DEF X
  <2> QED BY <1>3, <1>5, <1>8, <2>4, <2>5, <2>6 DEF ServedOne
<1> QED BY <1>7, <1>8

(* A handler that goes on gives up only what is its own.                   *)
LEMMA SteppedServed ==
  ASSUME Kind, TextSafe, Strict', Secure, NEW g \in Handlers, Stepped(g),
         NEW h \in Handlers
  PROVE  ServedOne(h)'
<1> DEFINE X == FaultExcuses[driver]
           s == Head(body[g])
<1>1. /\ driver' = driver /\ UNCHANGED place /\ DOMAIN body = Handlers
      /\ ServedOne(h) /\ ServedOne(g) /\ body[g] # <<>> /\ body[g] \in Seq(StepsOf(g))
      /\ body' = [body EXCEPT ![g] = Tail(@)]
      /\ Become(s.puts \intersect Held, "gone")
  BY DEF Stepped, Kind, Sound, Course, Typed, Kept, Secure, Served
<1>2. /\ HandlerSafe(prog, X, g) /\ Of(h).entry \in Resources
      /\ s.puts \subseteq GivesUp(body[g], X)
  BY <1>1, SafeEntry, HeardHead
<1>3. /\ FaultExcuses[driver]' = X /\ Of(h)' = Of(h) /\ Works(h)' = Works(h)
      /\ prog' = prog
  BY <1>1, SameReading
<1>4. Hushed(h)' = Hushed(h)
  BY <1>1, SameReading DEF Hushed, place
<1>5. s.puts \subseteq GivesUp(Of(g).steps, X)
  BY <1>1, <1>2 DEF ServedOne
<1>6. "woken" \in X => s.op # "wake"
  BY <1>3 DEF Stepped, Strict
<1> HIDE DEF s
<1>7. /\ Held' = Held \ s.puts
      /\ res'[Of(h).entry] = "held" => res[Of(h).entry] = "held"
  <2>1. Held' = Held \ (s.puts \intersect Held)
    BY <1>1, HeldLost
  <2>2. res'[Of(h).entry] = "held" => res[Of(h).entry] = "held"
    BY <1>1, <1>2 DEF Become
  <2> QED BY <2>1, <2>2
<1>8. CASE h # g
  <2>1. body'[h] = body[h]
    BY <1>1, <1>8
  <2>2. s.puts \intersect Works(h) = {}
    BY <1>2, <1>5, <1>8 DEF HandlerSafe, Works, Of, Handlers
  <2> QED BY <1>1, <1>4, <1>7, <2>1, <2>2, ServedStays
<1>9. CASE h = g
  <2>1. body'[h] = Tail(body[h])
    BY <1>1, <1>9
  <2>2. /\ WorksOn(Tail(body[h]), X) \subseteq WorksOn(body[h], X) \ s.puts
        /\ GivesUp(Tail(body[h]), X) \subseteq GivesUp(body[h], X)
        /\ Frugal(Tail(body[h]), X)
    <3> DEFINE S == StepsOf(h)
               b == body[h]
    <3>1. /\ b \in Seq(S) /\ b # <<>> /\ Frugal(b, X) /\ s = Head(b)
          /\ "woken" \in X => Head(b).op # "wake"
      BY <1>1, <1>6, <1>9 DEF ServedOne, s
    <3> HIDE DEF S, b, X
    <3>2. /\ WorksOn(Tail(b), X) \subseteq WorksOn(b, X) \ Head(b).puts
          /\ GivesUp(Tail(b), X) \subseteq GivesUp(b, X)
          /\ Frugal(Tail(b), X)
      BY <3>1, FrugalTail
    <3> QED BY <3>1, <3>2 DEF b
  <2>3. /\ WorksNow(h)' = WorksOn(Tail(body[h]), X)
        /\ GivesUp(body[h], FaultExcuses[driver])' = GivesUp(Tail(body[h]), X)
        /\ Frugal(body[h], FaultExcuses[driver])' = Frugal(Tail(body[h]), X)
        /\ GivesUp(Of(h).steps, FaultExcuses[driver])' = GivesUp(Of(h).steps, X)
    BY <1>3, <2>1 DEF WorksNow, WorksOn, GivesUp, Frugal, Heard, PutBefore
  <2>4. WorksNow(h)' \subseteq Held' /\ WorksNow(h)' \subseteq Works(h)
    BY <1>1, <1>7, <2>2, <2>3 DEF ServedOne, WorksNow
  <2>5. res'[Of(h).entry] = "held" /\ ~Hushed(h)' => Works(h) \subseteq Held'
    <3> SUFFICES ASSUME res'[Of(h).entry] = "held", ~Hushed(h)' PROVE Works(h) \subseteq Held'
      OBVIOUS
    <3>1. ~Of(h).once
      BY <1>1, <1>7, <1>9 DEF ServedOne
    <3>2. GivesUp(Of(h).steps, X) = {}
      BY <1>2, <1>9, <3>1 DEF HandlerSafe, Of
    <3>3. s.puts = {}
      BY <1>5, <1>9, <3>2
    <3> QED BY <1>1, <1>4, <1>7, <3>3 DEF ServedOne
  <2>6. /\ GivesUp(body[h], X) \subseteq GivesUp(Of(h).steps, X)
        /\ Of(h).once => res'[Of(h).entry] # "held"
    BY <1>1, <1>7, <1>9 DEF ServedOne
  <2> HIDE DEF X
  <2> QED BY <1>3, <2>2, <2>3, <2>4, <2>5, <2>6 DEF ServedOne
<1> QED BY <1>8, <1>9

(* Before init arms a handler, it neither runs nor can be called.          *)
LEMMA NotYetArmed ==
  ASSUME Kind, Tracks, TextSafe, Secure, phase = "init",
         NEW h \in Handlers, h \notin ArmedBy(prog, at)
  PROVE  Stopped(h)
<1>1. Of(h).entry \notin Got(prog, at)
  BY DEF ArmedBy, Handlers, Of
<1>2. res[Of(h).entry] # "held"
  BY <1>1, SafeEntry DEF Tracks
<1>3. body[h] = <<>>
  BY DEF Secure, Placed, Running
<1> QED BY <1>2, <1>3 DEF Stopped

(* A step of init that acquires something, or fails to, does not change    *)
(* what it has.                                                            *)
LEMMA AcquiredServed ==
  ASSUME Kind, Tracks, TextSafe, Secure, Acquired \/ TryFails, NEW h \in Handlers
  PROVE  ServedOne(h)' /\ Held \subseteq Held'
<1> DEFINE e == Of(h).entry
           X == FaultExcuses[driver]
<1>1. /\ UNCHANGED <<driver, body>> /\ Active /\ GoOn /\ current.op \in Acquiring
      /\ Acquired => Become(current.gets, "held")
      /\ TryFails => Become(current.gets, "failed")
  BY DEF Acquired, TryFails, Acquiring
<1>2. /\ phase = "init" /\ current = prog.init[at] /\ at \in DOMAIN prog.init
      /\ phase' = phase
  BY <1>1, InInit, Onward DEF Kind
<1>3. InitSafe(prog, X, at) /\ e \in Resources
  BY <1>1, <1>2, SafeStep, SafeEntry
<1>4. current.gets \subseteq Resources /\ current.gets \intersect Got(prog, at) = {}
      /\ Held \subseteq Got(prog, at)
  BY <1>1, <1>2, <1>3 DEF Resources, InitSafe, Tracks
<1>5. Acquired => Held' = Held \union current.gets
  BY <1>1, <1>4, HeldGained
<1>6. Held \subseteq Held'
  BY <1>1, <1>4, <1>5, HeldLost
<1>7. ServedOne(h) /\ ~Hushed(h) /\ ~Hushed(h)'
  BY <1>2 DEF Secure, Served, Hushed
<1>8. CASE res'[e] = "held" => res[e] = "held"
  <2>1. /\ Held \ {} \subseteq Held' /\ {} \intersect Works(h) = {}
        /\ driver' = driver /\ body'[h] = body[h]
    BY <1>1, <1>6
  <2> HIDE DEF X
  <2> QED BY <1>7, <1>8, <2>1, ServedStays DEF e
<1>9. CASE res'[e] = "held" /\ res[e] # "held"
  <2>1. Acquired /\ e \in current.gets
    BY <1>1, <1>3, <1>9 DEF Become
  <2>2. h \notin ArmedBy(prog, at)
    BY <1>4, <2>1 DEF ArmedBy, Handlers, Of
  <2>3. body[h] = <<>>
    BY <1>2, <2>2, NotYetArmed DEF Stopped
  <2>4. Works(h) \subseteq Firm(prog, X, at) \union current.gets
    BY <1>1, <1>2, <1>3, <2>1 DEF InitSafe, Works, Handlers, Of
  <2>5. Firm(prog, X, at) \subseteq Held
    BY <1>2 DEF Secure, Placed, InitPlaced
  <2>6. Works(h) \subseteq Held'
    BY <1>5, <1>6, <2>1, <2>4, <2>5
  <2>7. /\ FaultExcuses[driver]' = X /\ Of(h)' = Of(h) /\ Works(h)' = Works(h)
        /\ body'[h] = <<>>
    BY <1>1, <2>3, SameReading
  <2>8. /\ WorksNow(h)' = {} /\ GivesUp(body[h], FaultExcuses[driver])' = {}
        /\ Frugal(body[h], FaultExcuses[driver])'
    BY <2>7 DEF WorksNow, WorksOn, GivesUp, Frugal, Heard, PutBefore
  <2> HIDE DEF X
  <2>9. ServedOne(h)'
    BY <2>6, <2>7, <2>8 DEF ServedOne
  <2> QED BY <1>6, <2>9
<1> QED BY <1>8, <1>9

(* What a step that disconnects a handler does, once it gets done: the     *)
(* handler cannot be called any more, and if the step waits for it, it has *)
(* returned.                                                               *)
LEMMA DisconnectsNow ==
  ASSUME Kind, TextSafe, Released, NEW h \in Handlers, NEW X,
         Disconnects(current, Of(h).entry, X), "busy" \in X => Running = {}
  PROVE  res'[Of(h).entry] # "held"
<1> DEFINE e == Of(h).entry
<1>1. e \in Resources /\ (res[e] = "held" <=> e \in Held) /\ e \in current.puts
  BY SafeEntry DEF Disconnects
<1>2. driver' = driver /\ (res'[e] = "held" => e \in Held')
  <2>1. driver' = driver
    BY DEF Released
  <2> QED BY <1>1, <2>1, SameDriver DEF Held, With
<1>3. CASE Omitted
  <2>1. current.op = "put_if" /\ current.needs = {e}
    <3>1. current.op = "put_if_idle" => FALSE
      BY <1>3 DEF Omitted, Busy, Disconnects, Releasing
    <3> QED BY <1>3, <3>1 DEF Omitted, Disconnects, Releasing
  <2>2. e \notin Held
    BY <1>3, <2>1 DEF Omitted
  <2> QED BY <1>2, <2>2, ReleasedHeld
<1>4. CASE ~Omitted
  <2>1. e \notin Held'
    BY <1>1, <1>4, ReleasedHeld
  <2> QED BY <1>2, <2>1
<1> QED BY <1>3, <1>4

(* So does a step that waits for it.                                       *)
LEMMA AwaitsNow ==
  ASSUME Kind, TextSafe, Released, NEW h \in Handlers, Awaits(current, Of(h))
  PROVE  Stopped(h)'
<1>1. Of(h).sync /\ Of(h).entry \in current.puts
  BY DEF Awaits, Disconnects
<1>2. h \notin Running
  BY <1>1 DEF Released, Synchronous
<1>3. body'[h] = <<>> /\ driver' = driver
  BY <1>2 DEF Running, Released
<1>4. res'[Of(h).entry] # "held"
  BY DisconnectsNow DEF Awaits
<1> QED BY <1>3, <1>4, SameTexts DEF Stopped

(* One that has stopped stays so while nothing is acquired.                *)
LEMMA StoppedStays ==
  ASSUME Kind, TextSafe, NEW h \in Handlers, Stopped(h),
         UNCHANGED <<driver, body>>, Held' \subseteq Held
  PROVE  Stopped(h)'
<1>1. Of(h).entry \in Resources /\ Of(h).entry \notin Held
  BY SafeEntry DEF Stopped
<1>2. Of(h)' = Of(h) /\ Resources' = Resources
  BY SameTexts
<1>3. res'[Of(h).entry] # "held"
  BY <1>1, <1>2 DEF Held, With
<1> QED BY <1>2, <1>3 DEF Stopped

(* What an ending cuts off stays cut off, or will be, one step later.      *)
LEMMA CutOffStep ==
  ASSUME Kind, TextSafe, Passed \/ Released, NEW h \in Handlers, CutOff(h),
         "busy" \in FaultExcuses[driver] => Running = {}
  PROVE  CutOff(h)'
<1>1. /\ UNCHANGED <<driver, body, plan>> /\ Active /\ GoOn /\ Held' \subseteq Held
      /\ at' = at + 1
  BY ReleasedHeld, HeldSame DEF Passed, Released, GoOn
<1>2. /\ Of(h)' = Of(h) /\ FaultExcuses[driver]' = FaultExcuses[driver]
      /\ Resources' = Resources
  BY <1>1, SameReading
<1>3. at \in 1 .. Len(plan) /\ Len(plan) \in Nat
  BY <1>1, InPlan DEF Kind
<1>4. CASE res[Of(h).entry] # "held"
  <2>1. res'[Of(h).entry] # "held"
    BY <1>1, <1>2, <1>4, SafeEntry DEF Held, With
  <2> QED BY <1>2, <2>1 DEF CutOff
<1>5. ASSUME NEW j \in at .. Len(plan), CutOffAt(h, j) PROVE CutOff(h)'
  <2>1. CASE j = at
    <3>1. Disconnects(current, Of(h).entry, FaultExcuses[driver])
      BY <1>5, <2>1 DEF CutOffAt, current
    <3>2. Released
      BY <3>1 DEF Passed, Disconnects, Releasing
    <3>3. res'[Of(h).entry] # "held"
      BY <3>1, <3>2, DisconnectsNow
    <3> QED BY <1>2, <3>3 DEF CutOff
  <2>2. CASE j # at
    <3>1. j \in at' .. Len(plan')
      BY <1>1, <1>3, <2>2
    <3>2. CutOffAt(h, j)'
      BY <1>1, <1>2, <1>5 DEF CutOffAt
    <3> QED BY <3>1, <3>2 DEF CutOff
  <2> QED BY <2>1, <2>2
<1> QED BY <1>4, <1>5 DEF CutOff

(* A handler an ending waits for has stopped, or will be waited for.       *)
LEMMA AwaitedStep ==
  ASSUME Kind, TextSafe, Passed \/ Released, NEW h \in Handlers, Awaited(h)
  PROVE  \/ Stopped(h)'
         \/ Awaited(h)' /\ current.puts \intersect Works(h) = {}
<1>1. /\ UNCHANGED <<driver, body, plan>> /\ Active /\ GoOn /\ at' = at + 1
  BY DEF Passed, Released, GoOn
<1>2. Of(h)' = Of(h) /\ Works(h)' = Works(h)
  BY <1>1, SameReading
<1>3. at \in 1 .. Len(plan) /\ Len(plan) \in Nat
  BY <1>1, InPlan DEF Kind
<1>4. PICK j \in at .. Len(plan) : AwaitedAt(h, j)
  BY DEF Awaited
<1>5. CASE j = at
  <2>1. Awaits(current, Of(h))
    BY <1>4, <1>5 DEF AwaitedAt, current
  <2>2. Released
    BY <2>1 DEF Passed, Awaits, Disconnects, Releasing
  <2> QED BY <2>1, <2>2, AwaitsNow
<1>6. CASE j # at
  <2>1. j \in at' .. Len(plan') /\ at \in at .. j - 1
        /\ \A i \in at' .. j - 1 : i \in at .. j - 1
    BY <1>1, <1>3, <1>6
  <2>2. AwaitedAt(h, j)'
    BY <1>1, <1>2, <1>4, <2>1 DEF AwaitedAt
  <2>3. current.puts \intersect Works(h) = {}
    BY <1>4, <2>1 DEF AwaitedAt, current
  <2> QED BY <2>1, <2>2, <2>3 DEF Awaited
<1> QED BY <1>5, <1>6

(* A step of an ending gives up nothing that a handler still works on.     *)
LEMMA EndingStep ==
  ASSUME Kind, TextSafe, Secure, phase \in {"undo", "exit"}, Passed \/ Released,
         NEW h \in Handlers
  PROVE  ServedOne(h)' /\ Leaves(h)'
<1>1. /\ UNCHANGED <<driver, body, plan, phase>> /\ Active /\ GoOn
      /\ Held' \subseteq Held /\ Held \ current.puts \subseteq Held' /\ at' = at + 1
  BY ReleasedHeld, HeldSame DEF Passed, Released, GoOn
<1>2. /\ Of(h)' = Of(h) /\ Works(h)' = Works(h) /\ prog' = prog /\ Resources' = Resources
  BY <1>1, SameReading
<1>3. Hushed(h)' = Hushed(h)
  BY <1>1, SameReading DEF Hushed
<1>4. EndPlaced /\ Leaves(h) /\ ServedOne(h)
  BY DEF Secure, Placed, Served, EndPlaced, Leaving
<1>5. res'[Of(h).entry] = "held" => res[Of(h).entry] = "held"
  BY <1>1, <1>2, SafeEntry DEF Held, With
<1>6. at \in 1 .. Len(plan) /\ Len(plan) \in Nat
  BY <1>1, InPlan DEF Kind
<1>7. ASSUME current.puts \intersect Works(h) = {} PROVE ServedOne(h)'
  BY <1>1, <1>3, <1>4, <1>5, <1>7, ServedStays
<1>8. ASSUME Stopped(h)' PROVE ServedOne(h)' /\ Leaves(h)'
  <2>1. body'[h] = <<>> /\ res'[Of(h).entry] # "held"
    BY <1>2, <1>8 DEF Stopped
  <2> QED BY <1>1, <1>8, <2>1, ServedIdle DEF Leaves
<1>9. CASE Stopped(h)
  BY <1>1, <1>8, <1>9, StoppedStays
<1>10. CASE Awaited(h)
  BY <1>7, <1>8, <1>10, AwaitedStep DEF Leaves
<1>11. CASE Spared(h)
  <2>1. phase = "exit" /\ CutOff(h)'
    BY <1>4, <1>11, CutOffStep DEF Spared, EndPlaced
  <2>2. CASE Hushed(h) /\ body[h] = <<>>
    <3>1. Hushed(h)' /\ body'[h] = <<>>
      BY <1>1, <1>3, <2>2
    <3>2. Spared(h)'
      BY <1>1, <2>1, <3>1 DEF Spared
    <3> QED BY <1>1, <3>1, <3>2, ServedIdle DEF Leaves
  <2>3. CASE prog.device /\ Of(h).pins /\ Apart(h)
    <3>1. current.puts \intersect Works(h) = {}
      BY <1>6, <2>3 DEF Apart, current
    <3>2. Apart(h)'
      <4>1. \A i \in at' .. Len(plan') : i \in at .. Len(plan)
        BY <1>1, <1>6
      <4> QED BY <1>1, <1>2, <2>3, <4>1 DEF Apart
    <3>3. Spared(h)'
      BY <1>1, <1>2, <2>1, <2>3, <3>2 DEF Spared
    <3> QED BY <1>7, <3>1, <3>3 DEF Leaves
  <2> QED BY <1>11, <2>2, <2>3 DEF Spared
<1> QED BY <1>4, <1>9, <1>10, <1>11 DEF Leaves

(* A step of init gives up nothing that an armed handler works on.         *)
LEMMA InitStepServed ==
  ASSUME Kind, Tracks, TextSafe, Secure, phase = "init", Passed \/ Released,
         NEW h \in Handlers
  PROVE  ServedOne(h)'
<1>1. /\ UNCHANGED <<driver, body, plan, phase>> /\ Active /\ GoOn
      /\ Held' \subseteq Held /\ Held \ current.puts \subseteq Held'
  BY ReleasedHeld, HeldSame DEF Passed, Released, GoOn
<1>2. res'[Of(h).entry] = "held" => res[Of(h).entry] = "held"
  <2>1. Resources' = Resources
    BY <1>1, SameReading
  <2> QED BY <1>1, <2>1, SafeEntry DEF Held, With
<1>3. ServedOne(h) /\ ~Hushed(h)
  BY DEF Secure, Served, Hushed
<1>4. CASE h \in ArmedBy(prog, at)
  <2>1. InitSafe(prog, FaultExcuses[driver], at) /\ current = prog.init[at]
    BY <1>1, SafeStep
  <2>2. current.puts \intersect Works(h) = {}
    BY <1>4, <2>1 DEF InitSafe, Works, Handlers, Of
  <2> QED BY <1>1, <1>2, <1>3, <2>2, ServedStays
<1>5. CASE h \notin ArmedBy(prog, at)
  <2>1. body[h] = <<>> /\ res[Of(h).entry] # "held"
    BY <1>5, NotYetArmed DEF Stopped
  <2> QED BY <1>1, <1>2, <2>1, ServedIdle
<1> QED BY <1>4, <1>5

-----------------------------------------------------------------------------
(* What init has for sure grows only by what a call acquires that counts,  *)
(* and loses what the step gives back.                                     *)
LEMMA FirmStep ==
  ASSUME NEW p, NEW X, NEW k \in Nat \ {0}
  PROVE  /\ Firm(p, X, k + 1) \subseteq (Firm(p, X, k) \union p.init[k].gets) \ p.init[k].puts
         /\ ~Counts(p, X, p.init[k]) => Firm(p, X, k + 1) \subseteq Firm(p, X, k)
         /\ ArmedBy(p, k) \subseteq ArmedBy(p, k + 1)
<1> DEFINE Counted(j) == {i \in 1 .. j - 1 : Counts(p, X, p.init[i])}
           All(j) == UNION {p.init[i].gets : i \in Counted(j)}
           Lost(j) == PutBefore(p.init, j)
                        \union UNION {UsesUp(p.handlers[h], X) : h \in ArmedBy(p, j)}
<1>1. ArmedBy(p, k) \subseteq ArmedBy(p, k + 1)
  BY GotStep DEF ArmedBy
<1>2. Lost(k) \union p.init[k].puts \subseteq Lost(k + 1)
  <2>1. PutBefore(p.init, k + 1) = PutBefore(p.init, k) \union p.init[k].puts
    BY GotStep
  <2> QED BY <1>1, <2>1
<1>3. /\ All(k + 1) \subseteq All(k) \union p.init[k].gets
      /\ ~Counts(p, X, p.init[k]) => All(k + 1) \subseteq All(k)
  <2>1. (k + 1) - 1 = k /\ 1 .. k = (1 .. k - 1) \union {k}
    OBVIOUS
  <2>2. /\ Counted(k + 1) \subseteq Counted(k) \union {k}
        /\ ~Counts(p, X, p.init[k]) => Counted(k + 1) \subseteq Counted(k)
    BY <2>1
  <2> HIDE DEF Counted
  <2> QED BY <2>2
<1>4. \A j : Firm(p, X, j) = All(j) \ Lost(j)
  BY Zenon DEF Firm
<1> HIDE DEF All, Lost
<1> QED BY <1>1, <1>2, <1>3, <1>4

(* Before its first step, init has nothing for sure.                       *)
LEMMA FirmFirst ==
  ASSUME NEW p, NEW X
  PROVE  Firm(p, X, 1) = {} /\ Reached(p, X, 1)
<1>1. 1 .. 1 - 1 = {}
  OBVIOUS
<1> QED BY <1>1 DEF Firm, Reached

(* A step of init that asks only for what init has acquired is come past.  *)
LEMMA ReachedStep ==
  ASSUME NEW p, NEW X, NEW k \in Nat \ {0}, Reached(p, X, k),
         "unmet" \in X /\ p.init[k].op \in Acquiring => p.init[k].needs \subseteq Got(p, k)
  PROVE  Reached(p, X, k + 1)
<1>1. (k + 1) - 1 = k /\ 1 .. k = (1 .. k - 1) \union {k}
  OBVIOUS
<1> QED BY <1>1 DEF Reached

(* A handler takes only what its text says it uses up.                     *)
LEMMA HandlersUse ==
  ASSUME Kind, TextSafe, Secure, NEW h \in Handlers, Called(h) \/ Stepped(h)
  PROVE  Held \ UsesUp(Of(h), FaultExcuses[driver]) \subseteq Held'
<1> DEFINE X == FaultExcuses[driver]
<1>1. driver' = driver
  BY DEF Called, Stepped
<1>2. CASE Called(h)
  <2>1. CASE Of(h).once
    <3>1. Become({Of(h).entry}, "spent") /\ "spent" # "held"
      BY <1>2, <2>1 DEF Called
    <3>2. Held' = Held \ {Of(h).entry}
      BY <1>1, <3>1, HeldLost
    <3> QED BY <2>1, <3>2 DEF UsesUp
  <2>2. CASE ~Of(h).once
    BY <1>1, <1>2, <2>2, HeldSame DEF Called
  <2> QED BY <2>1, <2>2
<1>3. CASE Stepped(h)
  <2> DEFINE s == Head(body[h])
  <2>1. body[h] # <<>> /\ body[h] \in Seq(StepsOf(h)) /\ Become(s.puts \intersect Held, "gone")
    BY <1>3 DEF Stepped, Kind, Sound, Course
  <2>2. s.puts \subseteq GivesUp(body[h], X)
    BY <2>1, HeardHead
  <2>3. s.puts \subseteq GivesUp(Of(h).steps, X)
    BY <2>2 DEF Secure, Served, ServedOne
  <2> HIDE DEF s
  <2>4. Held' = Held \ (s.puts \intersect Held)
    BY <1>1, <2>1, HeldLost
  <2> QED BY <2>3, <2>4 DEF UsesUp
<1> QED BY <1>2, <1>3

(* What init has for sure stays, whatever the handlers it has armed do.    *)
LEMMA FirmStays ==
  ASSUME Kind, TextSafe, Secure, NEW h \in Handlers, Called(h) \/ Stepped(h),
         NEW k, InitPlaced(k), h \in ArmedBy(prog, k)
  PROVE  /\ Reached(prog, FaultExcuses[driver], k)
         /\ Firm(prog, FaultExcuses[driver], k) \subseteq Held'
<1> DEFINE X == FaultExcuses[driver]
           Used == UNION {UsesUp(prog.handlers[g], X) : g \in ArmedBy(prog, k)}
<1>1. UsesUp(Of(h), X) \subseteq Used
  BY DEF Of
<1>2. Firm(prog, X, k) \intersect Used = {}
  <2> HIDE DEF X
  <2> QED BY DEF Firm
<1> QED BY <1>1, <1>2, HandlersUse DEF InitPlaced

(* A failure that goes unnoticed is none of a call that counts, and one    *)
(* that asked for what nobody has acquired is none where that is excused.  *)
LEMMA TryFailsSpares ==
  ASSUME Kind, TextSafe, Strict', Secure, TryFails, Passing'
  PROVE  /\ ~Counts(prog, FaultExcuses[driver], current)
         /\ "unmet" \in FaultExcuses[driver] => current.needs \subseteq Held
<1> DEFINE X == FaultExcuses[driver]
<1>1. /\ driver' = driver /\ current.op = "try"
      /\ seen' = seen \union {Circumstance("ignored")}
  BY DEF TryFails
<1>2. FaultExcuses[driver]' = X /\ (Orderly(prog)' <=> Orderly(prog))
  BY <1>1, SameTexts
<1>3. seen' \intersect X = {}
  BY <1>2 DEF Strict
<1>4. "unmet" \in X => current.needs \subseteq Held
  BY <1>1, <1>3 DEF Circumstance
<1>5. ASSUME "ignored" \in X, "unmet" \in X \/ Orderly(prog) PROVE FALSE
  <2>1. "ignored" \notin seen'
    BY <1>3, <1>5
  <2>2. Circumstance("ignored") = "unmet"
    BY <1>1, <2>1 DEF Circumstance
  <2>3. "unmet" \in seen' /\ Orderly(prog)
    BY <1>1, <1>3, <1>5, <2>2
  <2> QED BY <1>2, <2>1, <2>3 DEF Passing
<1> QED BY <1>1, <1>4, <1>5 DEF Counts

(* A step of init leaves what is there for sure, and comes past no call    *)
(* that asks for what nobody has acquired.                                 *)
LEMMA InitStepPlaced ==
  ASSUME Kind, Tracks, TextSafe, Strict', Secure, Passing', phase = "init",
         Passed \/ Acquired \/ Released \/ TryFails
  PROVE  Placed'
<1> DEFINE X == FaultExcuses[driver]
<1>1. UNCHANGED <<driver, body>> /\ Active /\ GoOn
  BY DEF Passed, Acquired, Released, TryFails
<1>2. /\ phase' = "init" /\ at' = at + 1 /\ prog' = prog /\ FaultExcuses[driver]' = X
      /\ Handlers' = Handlers /\ Running' = Running
  BY <1>1, Onward, SameTexts DEF Kind, Running
<1>3. /\ at \in DOMAIN prog.init /\ current = prog.init[at] /\ at \in Nat \ {0}
      /\ InitSafe(prog, X, at)
  BY <1>1, SafeStep
<1>4. /\ Reached(prog, X, at) /\ Firm(prog, X, at) \subseteq Held
      /\ Running \subseteq ArmedBy(prog, at)
  BY DEF Secure, Placed, InitPlaced
<1>5. "unmet" \in X /\ current.op \in Acquiring => current.needs \subseteq Held
  <2>1. Acquired => current.needs \subseteq Held
    BY DEF Acquired
  <2>2. Passed \/ Released => current.op \notin Acquiring
    BY DEF Passed, Released, Releasing, Acquiring
  <2> QED BY <2>1, <2>2, TryFailsSpares
<1>6. Reached(prog, X, at + 1)
  BY <1>3, <1>4, <1>5, ReachedStep DEF Tracks
<1>7. /\ Firm(prog, X, at + 1) \subseteq (Firm(prog, X, at) \union current.gets) \ current.puts
      /\ ~Counts(prog, X, current) => Firm(prog, X, at + 1) \subseteq Firm(prog, X, at)
      /\ ArmedBy(prog, at) \subseteq ArmedBy(prog, at + 1)
  BY <1>3, FirmStep
<1>8. Firm(prog, X, at + 1) \subseteq Held'
  <2>1. CASE Acquired
    <3>1. driver' = driver /\ Become(current.gets, "held") /\ current.gets \subseteq Resources
      BY <1>3, <2>1 DEF Acquired, Resources
    <3>2. Held' = Held \union current.gets
      BY <3>1, HeldGained
    <3> HIDE DEF X
    <3> QED BY <1>4, <1>7, <3>2
  <2>2. CASE TryFails
    <3>1. Held \subseteq Held'
      <4>1. /\ driver' = driver /\ Become(current.gets, "failed") /\ "failed" # "held"
            /\ current.op \in Acquiring
        BY <2>2 DEF TryFails, Acquiring
      <4>2. current.gets \intersect Held = {}
        BY <1>3, <4>1 DEF InitSafe, Tracks
      <4>3. Held' = Held \ current.gets
        BY <4>1, HeldLost
      <4> QED BY <4>2, <4>3
    <3>2. ~Counts(prog, X, current)
      BY <2>2, TryFailsSpares
    <3> HIDE DEF X
    <3> QED BY <1>4, <1>7, <3>1, <3>2
  <2>3. CASE Passed \/ Released
    <3>1. Held \ current.puts \subseteq Held' /\ ~Counts(prog, X, current)
      <4>1. Passed => Held' = Held
        BY <1>1, HeldSame DEF Passed
      <4>2. current.op \notin Acquiring
        BY <2>3 DEF Passed, Released, Releasing, Acquiring
      <4> QED BY <2>3, <4>1, <4>2, ReleasedHeld DEF Counts, Acquiring
    <3> HIDE DEF X
    <3> QED BY <1>4, <1>7, <3>1
  <2> QED BY <2>1, <2>2, <2>3
<1>9. Running' \subseteq ArmedBy(prog, at + 1)
  BY <1>2, <1>4, <1>7
<1> HIDE DEF X
<1>10. InitPlaced(at)' /\ Running' \subseteq ArmedBy(prog, at)'
  BY <1>2, <1>6, <1>8, <1>9 DEF InitPlaced
<1> QED BY <1>2, <1>10 DEF Placed

(* While the plan stands still, an ending leaves a handler as before, if   *)
(* that does nothing it should not do any more.                            *)
LEMMA LeavesStays ==
  ASSUME Kind, TextSafe, UNCHANGED <<driver, place>>, Held' \subseteq Held,
         NEW h \in Handlers, Leaves(h),
         body'[h] = body[h] \/ ~(Stopped(h) \/ (Hushed(h) /\ body[h] = <<>>))
  PROVE  Leaves(h)'
<1>1. /\ UNCHANGED <<driver, phase, plan, at>> /\ Of(h)' = Of(h) /\ prog' = prog
      /\ FaultExcuses[driver]' = FaultExcuses[driver] /\ Works(h)' = Works(h)
      /\ Resources' = Resources
  BY SameReading DEF place
<1>2. res[Of(h).entry] # "held" => res'[Of(h).entry] # "held"
  BY <1>1, SafeEntry DEF Held, With
<1>3. Awaited(h)' = Awaited(h) /\ Apart(h)' = Apart(h) /\ Hushed(h)' = Hushed(h)
  BY <1>1 DEF Awaited, AwaitedAt, Apart, Hushed
<1>4. CutOff(h) => CutOff(h)'
  BY <1>1, <1>2 DEF CutOff, CutOffAt
<1>5. CASE Stopped(h)
  BY <1>1, <1>2, <1>5 DEF Stopped, Leaves
<1>6. CASE Awaited(h)
  BY <1>3, <1>6 DEF Leaves
<1>7. CASE Spared(h)
  BY <1>1, <1>3, <1>4, <1>7 DEF Spared, Leaves
<1> QED BY <1>5, <1>6, <1>7 DEF Leaves

(* A driver that is idle stays as it is while what pins it runs.           *)
LEMMA IdleKept ==
  ASSUME Kind, TextSafe, Secure, Next, phase = "idle", UNCHANGED <<driver, place>>,
         Held' \subseteq Held, \A h \in Handlers : body[h] = <<>> => body'[h] = <<>>
  PROVE  Placed'
<1>1. /\ phase' = "idle" /\ Handlers' = Handlers /\ prog' = prog /\ Resources' = Resources
      /\ \A h \in Handlers : Of(h)' = Of(h)
  BY SameReading DEF place
<1>2. ~Start /\ ~Return
  BY <1>1 DEF Start, Begin, Return
<1>3. ASSUME NEW h \in Handlers
      PROVE  /\ res'[Of(h).entry] # "held"
             /\ body'[h] # <<>> => text' /\ prog.device /\ Of(h).pins
  <2>1. /\ res[Of(h).entry] # "held"
        /\ body[h] # <<>> => text /\ prog.device /\ Of(h).pins
    BY DEF Secure, Placed, IdlePlaced
  <2>2. res'[Of(h).entry] # "held"
    BY <1>1, <2>1, SafeEntry DEF Held, With
  <2>3. body[h] # <<>> => text'
    BY <1>2, <2>1, TextStep DEF Pinned, Running
  <2> QED BY <2>1, <2>2, <2>3
<1> QED BY <1>1, <1>3 DEF Placed, IdlePlaced

(* Handlers leave init, its error paths and exit what is there for sure,   *)
(* and none is called, or runs, that an ending does not expect.            *)
LEMMA HandlerPlaced ==
  ASSUME Kind, Tracks, TextSafe, Strict', Secure, Next,
         NEW h \in Handlers, Called(h) \/ Stepped(h)
  PROVE  Placed'
<1> DEFINE X == FaultExcuses[driver]
<1>1. /\ UNCHANGED <<driver, place, phase, plan, at>> /\ Held' \subseteq Held
      /\ Held \ HandlersTake(prog) \subseteq Held'
  BY HandlersLeave DEF Kind, place
<1>2. /\ FaultExcuses[driver]' = X /\ prog' = prog /\ Handlers' = Handlers
      /\ \A g \in Handlers : Of(g)' = Of(g)
  BY <1>1, SameReading
<1>3. /\ \A g \in Handlers \ {h} : body'[g] = body[g]
      /\ Called(h) => res[Of(h).entry] = "held"
      /\ Stepped(h) => body[h] # <<>>
      /\ DOMAIN body = Handlers
  BY DEF Called, Stepped, Kind, Sound, Typed, Kept
<1>4. /\ Called(h) /\ phase \in {"undo", "exit"} => "busy" \notin X
      /\ Called(h) => ~(Of(h).pins /\ phase = "exit" /\ ~prog.device)
  <2>1. Called(h) /\ phase \in {"undo", "exit"} => "busy" \in seen'
    BY DEF Called
  <2> QED BY <1>2, <2>1 DEF Strict, Called
<1> HIDE DEF X
<1>5. CASE phase = "idle"
  <2>1. Stepped(h)
    BY <1>3, <1>5 DEF Secure, Placed, IdlePlaced
  <2>2. \A g \in Handlers : body[g] = <<>> => body'[g] = <<>>
    BY <1>3, <2>1
  <2> QED BY <1>1, <1>5, <2>2, IdleKept
<1>6. CASE phase = "init"
  <2>1. InitPlaced(at) /\ Running \subseteq ArmedBy(prog, at)
    BY <1>6 DEF Secure, Placed
  <2>2. h \in ArmedBy(prog, at)
    <3>1. Stepped(h) => h \in Running
      BY <1>3 DEF Running
    <3>2. Called(h) => Of(h).entry \in Held
      BY <1>3, SafeEntry
    <3> QED BY <1>6, <2>1, <3>1, <3>2 DEF Tracks, ArmedBy, Handlers, Of
  <2>3. Reached(prog, X, at) /\ Firm(prog, X, at) \subseteq Held'
    BY <2>1, <2>2, FirmStays DEF X
  <2>4. Running' \subseteq ArmedBy(prog, at)
    BY <1>2, <1>3, <2>1, <2>2 DEF Running
  <2>5. InitPlaced(at)' /\ Running' \subseteq ArmedBy(prog, at)'
    BY <1>1, <1>2, <2>3, <2>4 DEF InitPlaced
  <2> QED BY <1>1, <1>6, <2>5 DEF Placed
<1>7. CASE phase = "live"
  <2>1. InitPlaced(Done(prog)) /\ h \in ArmedBy(prog, Done(prog))
    BY <1>7, SafeEntry DEF Secure, Placed
  <2>2. Reached(prog, X, Done(prog)) /\ Firm(prog, X, Done(prog)) \subseteq Held'
    BY <2>1, FirmStays DEF X
  <2>3. InitPlaced(Done(prog))'
    BY <1>2, <2>2 DEF InitPlaced
  <2> QED BY <1>1, <1>7, <2>3 DEF Placed
<1>8. CASE phase \in {"undo", "exit"}
  <2>1. EndPlaced
    BY <1>8 DEF Secure, Placed
  <2>2. Lasting'
    BY <1>1, <1>2, <2>1 DEF EndPlaced, Lasting
  <2>3. ~(Stopped(h) \/ (Hushed(h) /\ body[h] = <<>>))
    <3>1. ~Stopped(h)
      BY <1>3 DEF Stopped
    <3>2. Hushed(h) => ~Called(h)
      BY <1>4 DEF Hushed, Quiet, X
    <3> QED BY <1>3, <3>1, <3>2
  <2>4. Leaving'
    <3>1. ASSUME NEW g \in Handlers PROVE Leaves(g)'
      <4>1. Leaves(g) /\ (g # h => body'[g] = body[g])
        BY <1>3, <2>1 DEF EndPlaced, Leaving
      <4> QED BY <1>1, <2>3, <4>1, LeavesStays
    <3> QED BY <1>2, <3>1 DEF Leaving
  <2>5. \A i \in at' .. Len(plan') : Needed(plan'[i]) \subseteq Held'
    <3> SUFFICES ASSUME NEW i \in at .. Len(plan) PROVE Needed(plan[i]) \subseteq Held'
      BY <1>1
    <3>1. i \in DOMAIN plan
      BY DEF Kind, Sound, Typed, Planned
    <3>2. Needed(plan[i]) \subseteq Held /\ Needed(plan[i]) \intersect HandlersTake(prog) = {}
      BY <2>1, <3>1 DEF EndPlaced, Lasting
    <3> QED BY <1>1, <3>2
  <2>6. ~(phase = "exit" /\ "busy" \in X)
    <3>1. phase = "exit" /\ "busy" \in X => h \notin Running
      BY <2>1 DEF EndPlaced, X
    <3> QED BY <1>3, <1>4, <3>1 DEF Running
  <2>7. EndPlaced'
    BY <1>1, <1>2, <2>2, <2>4, <2>5, <2>6 DEF EndPlaced
  <2> QED BY <1>1, <1>8, <2>7 DEF Placed
<1> QED BY <1>5, <1>6, <1>7, <1>8 DEF Kind, Sound, Typed, Planned, Phases

(* A step of an ending leaves what the steps after it use.                 *)
LEMMA EndingStepPlaced ==
  ASSUME Kind, TextSafe, Secure, phase \in {"undo", "exit"}, Passed \/ Released
  PROVE  Placed'
<1>1. /\ UNCHANGED <<driver, body, plan, phase>> /\ Active /\ GoOn /\ at' = at + 1
      /\ Held \ current.puts \subseteq Held'
  BY ReleasedHeld, HeldSame DEF Passed, Released, GoOn
<1>2. /\ FaultExcuses[driver]' = FaultExcuses[driver] /\ prog' = prog
      /\ Handlers' = Handlers /\ Running' = Running
  BY <1>1, SameReading DEF Running
<1>3. EndPlaced
  BY DEF Secure, Placed
<1>4. at \in 1 .. Len(plan) /\ Len(plan) \in Nat /\ DOMAIN plan = 1 .. Len(plan)
  BY <1>1, InPlan DEF Kind, Sound, Typed, Planned
<1>5. Lasting'
  BY <1>1, <1>2, <1>3 DEF EndPlaced, Lasting
<1>6. Leaving'
  <2>1. \A h \in Handlers : Leaves(h)'
    BY EndingStep
  <2> QED BY <1>2, <2>1 DEF Leaving
<1>7. ASSUME NEW i \in at' .. Len(plan') PROVE Needed(plan'[i]) \subseteq Held'
  <2>1. i \in at .. Len(plan) /\ i \in DOMAIN plan /\ at \in 1 .. i - 1
    BY <1>1, <1>4
  <2>2. current.puts \subseteq PutBefore(plan, i)
    BY <2>1 DEF PutBefore, current
  <2>3. Needed(plan[i]) \intersect PutBefore(plan, i) = {} /\ Needed(plan[i]) \subseteq Held
    BY <1>3, <2>1 DEF EndPlaced, Lasting
  <2> QED BY <1>1, <2>2, <2>3
<1>8. EndPlaced'
  BY <1>1, <1>2, <1>3, <1>5, <1>6, <1>7 DEF EndPlaced
<1> QED BY <1>1, <1>8 DEF Placed

(* Init comes to its end with all there that exit is read for, and an      *)
(* ending has then stopped every handler, or cut it off.                   *)
LEMMA ReturnPlaced ==
  ASSUME Kind, TextSafe, Secure, Return
  PROVE  Placed'
<1>1. /\ phase \in {"init", "undo", "exit"} /\ at > Len(plan) /\ UNCHANGED <<driver, res, body>>
      /\ phase' = IF phase = "init" THEN "live" ELSE "idle"
      /\ text' = (phase = "init" \/ prog.device)
  BY DEF Return
<1>2. /\ FaultExcuses[driver]' = FaultExcuses[driver] /\ prog' = prog /\ Held' = Held
      /\ Handlers' = Handlers /\ \A h \in Handlers : Of(h)' = Of(h)
  BY <1>1, SameReading, HeldSame
<1>3. CASE phase = "init"
  <2>1. at = Done(prog)
    BY <1>1, <1>3 DEF Kind, Sound, Typed, Planned, Course, Done
  <2>2. InitPlaced(Done(prog))'
    BY <1>2, <1>3, <2>1 DEF Secure, Placed, InitPlaced
  <2> QED BY <1>1, <1>3, <2>2 DEF Placed
<1>4. CASE phase # "init"
  <2>1. phase' = "idle" /\ (prog.device => text')
    BY <1>1, <1>4
  <2>2. at .. Len(plan) = {}
    BY <1>1 DEF Kind, Sound, Typed, Planned
  <2>3. ASSUME NEW h \in Handlers
        PROVE  /\ res[Of(h).entry] # "held"
               /\ body[h] # <<>> => prog.device /\ Of(h).pins
    <3>1. Leaves(h)
      BY <1>1, <1>4 DEF Secure, Placed, EndPlaced, Leaving
    <3>2. Stopped(h) \/ Spared(h)
      BY <2>2, <3>1 DEF Leaves, Awaited
    <3>3. Spared(h) => res[Of(h).entry] # "held"
      BY <2>2 DEF Spared, CutOff
    <3> QED BY <3>2, <3>3 DEF Stopped, Spared
  <2>4. IdlePlaced'
    BY <1>1, <1>2, <2>1, <2>3 DEF IdlePlaced
  <2> QED BY <2>1, <2>4 DEF Placed
<1> QED BY <1>3, <1>4

(* What a reader finds of an ending holds when it begins.                  *)
LEMMA EndingBegins ==
  ASSUME NEW steps, NEW firm, EndingSafe(prog, steps, firm), firm \subseteq Held,
         driver' = driver, res' = res, plan' = steps, at' = 1, DOMAIN steps = 1 .. Len(steps)
  PROVE  Lasting' /\ \A i \in at' .. Len(plan') : Needed(plan'[i]) \subseteq Held'
<1>1. prog' = prog /\ Held' = Held
  BY SameReading, HeldSame
<1>2. Lasting'
  BY <1>1 DEF EndingSafe, Lasting
<1> QED BY <1>1, <1>2 DEF EndingSafe

(* An ending that makes sure of a handler in its text waits for it.        *)
LEMMA StoppedFirstAwaited ==
  ASSUME NEW h \in Handlers, driver' = driver, at' = 1,
         DOMAIN plan' = 1 .. Len(plan'),
         StoppedFirst(plan', FaultExcuses[driver], Of(h))
  PROVE  Awaited(h)'
<1> DEFINE steps == plan'
<1>1. PICK j \in DOMAIN steps :
        Awaits(steps[j], Of(h)) /\ PutBefore(steps, j) \intersect Works(h) = {}
  BY DEF StoppedFirst, Works
<1>2. Of(h)' = Of(h) /\ Works(h)' = Works(h)
  BY SameReading
<1>3. \A i \in 1 .. j - 1 : steps[i].puts \intersect Works(h) = {}
  BY <1>1 DEF PutBefore
<1>4. AwaitedAt(h, j)'
  BY <1>1, <1>2, <1>3 DEF AwaitedAt
<1> QED BY <1>1, <1>4 DEF Awaited

(* An error path that is taken waits for every handler that init has armed,*)
(* and gives up what only it holds.                                        *)
LEMMA GetFailsPlaced ==
  ASSUME Kind, Tracks, TextSafe, Strict', Secure, GetFails
  PROVE  Placed'
<1> DEFINE X == FaultExcuses[driver]
           steps == current.undo \o prog.devres
<1>1. /\ phase' = "undo" /\ plan' = steps /\ at' = 1
      /\ UNCHANGED <<driver, res, body>> /\ Active /\ current.op = "get"
      /\ seen' = seen \union {Circumstance("failed")}
  BY DEF GetFails, ErrorPath, Begin
<1>2. phase = "init" /\ at \in DOMAIN prog.init /\ current = prog.init[at]
  BY <1>1, InInit DEF Kind, Acquiring
<1>3. /\ FaultExcuses[driver]' = X /\ prog' = prog
      /\ Handlers' = Handlers /\ \A h \in Handlers : Of(h)' = Of(h)
  BY <1>1, SameReading
<1>4. DOMAIN steps = 1 .. Len(steps)
  <2>1. IsEnding(current.undo)
    BY <1>2, DriverTexts DEF Kind, Sound
  <2> QED BY <2>1, DriverTexts, JoinedText DEF Kind, Sound
<1>5. ~("failed" \in X /\ ("unmet" \in X \/ current.needs = {}))
  BY <1>1, <1>3 DEF Strict, Circumstance
<1>6. /\ EndingSafe(prog, steps, Firm(prog, X, at))
      /\ \A h \in ArmedBy(prog, at) : StoppedFirst(steps, X, prog.handlers[h])
  <2>1. ErrorPathSafe(prog, X, at)
    BY <1>1, <1>2, SafeStep
  <2> QED BY <1>2, <1>5, <2>1 DEF ErrorPathSafe
<1>7. Firm(prog, X, at) \subseteq Held
  BY <1>2 DEF Secure, Placed, InitPlaced
<1> HIDE DEF steps
<1>8. Lasting' /\ \A i \in at' .. Len(plan') : Needed(plan'[i]) \subseteq Held'
  BY <1>1, <1>4, <1>6, <1>7, EndingBegins
<1>9. ASSUME NEW h \in Handlers PROVE Leaves(h)'
  <2>1. CASE h \in ArmedBy(prog, at)
    <3>1. StoppedFirst(plan', X, Of(h)) /\ DOMAIN plan' = 1 .. Len(plan')
      BY <1>1, <1>4, <1>6, <2>1 DEF Of
    <3> QED BY <1>1, <3>1, StoppedFirstAwaited DEF Leaves
  <2>2. CASE h \notin ArmedBy(prog, at)
    <3>1. Stopped(h)
      BY <1>2, <2>2, NotYetArmed
    <3> QED BY <1>1, <1>3, <3>1 DEF Stopped, Leaves
  <2> QED BY <2>1, <2>2
<1>10. EndPlaced'
  BY <1>1, <1>3, <1>8, <1>9 DEF EndPlaced, Leaving
<1> QED BY <1>1, <1>10 DEF Placed

(* Exit, when it begins, waits for every handler in time, cuts off those   *)
(* that cannot run, and uses only what is there for sure.                  *)
LEMMA RemovePlaced ==
  ASSUME Kind, TextSafe, Strict', Secure, Remove
  PROVE  Placed'
<1> DEFINE X == FaultExcuses[driver]
           steps == Ending(prog)
<1>1. /\ phase = "live" /\ phase' = "exit" /\ plan' = steps /\ at' = 1
      /\ UNCHANGED <<driver, res, body>> /\ (prog.device \/ ~Pinned)
      /\ seen' = seen \union {"removed"}
                      \union (IF Running \union Pending # {} THEN {"busy"} ELSE {})
  BY DEF Remove, Begin, Ending
<1>2. /\ FaultExcuses[driver]' = X /\ prog' = prog /\ Running' = Running
      /\ Handlers' = Handlers /\ \A h \in Handlers : Of(h)' = Of(h) /\ Works(h)' = Works(h)
  BY <1>1, SameReading DEF Running
<1>3. DOMAIN steps = 1 .. Len(steps)
  BY DriverTexts, JoinedText DEF Kind, Sound, Ending
<1>4. "removed" \notin X /\ ("busy" \in X => Running = {} /\ Pending = {})
  BY <1>1, <1>2 DEF Strict
<1>5. /\ EndingSafe(prog, steps, Firm(prog, X, Done(prog)))
      /\ \A h \in Handlers : Dismissed(prog, X, Of(h))
      /\ Firm(prog, X, Done(prog)) \subseteq Held
  <2>1. InitPlaced(Done(prog))
    BY <1>1 DEF Secure, Placed
  <2>2. ExitSafe(prog, X)
    BY <2>1 DEF InitPlaced, TextSafe, Safe
  <2> QED BY <1>4, <2>1, <2>2 DEF ExitSafe, InitPlaced, Handlers, Of
<1> HIDE DEF steps, X
<1>6. Lasting' /\ \A i \in at' .. Len(plan') : Needed(plan'[i]) \subseteq Held'
  BY <1>1, <1>3, <1>5, EndingBegins
<1>7. ASSUME NEW h \in Handlers PROVE Leaves(h)'
  <2>1. CASE StoppedFirst(steps, X, Of(h))
    BY <1>1, <1>3, <2>1, StoppedFirstAwaited DEF Leaves, X
  <2>2. ASSUME \/ Of(h).once /\ "busy" \in X
               \/ \E i \in DOMAIN steps : Disconnects(steps[i], Of(h).entry, X)
        PROVE  CutOff(h)'
    <3>1. CASE Of(h).once /\ "busy" \in X
      BY <1>1, <1>2, <1>4, <3>1 DEF Pending, CutOff
    <3>2. ASSUME NEW i \in DOMAIN steps, Disconnects(steps[i], Of(h).entry, X)
          PROVE  CutOff(h)'
      <4>1. CutOffAt(h, i)'
        BY <1>1, <1>2, <3>2 DEF CutOffAt
      <4>2. i \in at' .. Len(plan')
        BY <1>1, <1>3
      <4> QED BY <4>1, <4>2 DEF CutOff
    <3> QED BY <2>2, <3>1, <3>2
  <2>3. ASSUME Quiet(prog, X, Of(h)) PROVE Hushed(h)' /\ body'[h] = <<>>
    <3>1. body[h] = <<>>
      BY <1>1, <1>4, <2>3 DEF Quiet, Running, Pinned
    <3> QED BY <1>1, <1>2, <2>3, <3>1 DEF Hushed, Quiet
  <2>4. ASSUME PutBy(steps) \intersect Works(h) = {} PROVE Apart(h)'
    <3>1. \A i \in DOMAIN steps : steps[i].puts \intersect Works(h) = {}
      BY <2>4 DEF PutBy
    <3> QED BY <1>1, <1>2, <1>3, <3>1 DEF Apart
  <2>5. Dismissed(prog, X, Of(h))
    BY <1>5
  <2> QED BY <1>1, <1>2, <2>1, <2>2, <2>3, <2>4, <2>5 DEF Dismissed, Leaves, Spared, Works, X, steps
<1>8. "busy" \in FaultExcuses[driver]' => Running' = {}
  BY <1>2, <1>4
<1>9. EndPlaced'
  BY <1>2, <1>6, <1>7, <1>8 DEF EndPlaced, Leaving
<1> QED BY <1>1, <1>9 DEF Placed

(* A driver that is started has nothing yet, and nothing of it runs.       *)
LEMMA StartSecure ==
  ASSUME Kind, TextSafe, Start, fault = "none"
  PROVE  Secure'
<1>1. /\ driver' = driver /\ phase' = "init" /\ at' = 1 /\ Running = {} /\ fault' = "none"
      /\ res' = [r \in Resources |-> "none"] /\ body' = body
  BY DEF Start, Begin, Become
<1>2. /\ FaultExcuses[driver]' = FaultExcuses[driver] /\ prog' = prog
      /\ Handlers' = Handlers /\ Running' = {}
  BY <1>1, SameReading DEF Running
<1>3. ASSUME NEW h \in Handlers PROVE ServedOne(h)'
  <2>1. res'[Of(h).entry] # "held" /\ body'[h] = <<>>
    BY <1>1, SafeEntry DEF Running
  <2> QED BY <1>1, <2>1, ServedIdle
<1>4. InitPlaced(at)'
  BY <1>1, <1>2, FirmFirst DEF InitPlaced
<1>5. Served' /\ Placed'
  BY <1>1, <1>2, <1>3, <1>4 DEF Served, Placed
<1> QED BY <1>1, <1>5 DEF Secure

(* A step that leaves the resources and the handlers alone leaves the      *)
(* handlers what they work on.                                             *)
LEMMA StillServed ==
  ASSUME Secure, UNCHANGED <<driver, res, body>>, phase = "exit" => phase' \in {"exit", "idle"},
         Placed'
  PROVE  Served'
<1>1. /\ Held' = Held /\ prog' = prog /\ FaultExcuses[driver]' = FaultExcuses[driver]
      /\ Handlers' = Handlers /\ \A h \in Handlers : Of(h)' = Of(h)
  BY SameReading, HeldSame
<1>2. ASSUME NEW h \in Handlers PROVE ServedOne(h)'
  <2>1. ServedOne(h) /\ Held \ {} \subseteq Held' /\ {} \intersect Works(h) = {}
    BY <1>1 DEF Secure, Served
  <2>2. phase' = "idle" => res'[Of(h).entry] # "held"
    BY <1>1 DEF Placed, IdlePlaced
  <2>3. Hushed(h) /\ phase' = "exit" => Hushed(h)'
    BY <1>1 DEF Hushed, Quiet
  <2>4. Hushed(h) => Hushed(h)' \/ res'[Of(h).entry] # "held"
    BY <2>2, <2>3 DEF Hushed
  <2> QED BY <2>1, <2>4, ServedStays
<1> QED BY <1>1, <1>2 DEF Served

(* Where nothing of the driver moves, what is there stays there.           *)
LEMMA UntouchedPlaced ==
  ASSUME Kind, TextSafe, Secure, Untouched, phase # "idle"
  PROVE  Placed'
<1>1. /\ UNCHANGED <<driver, place, phase, plan, at, res, body>>
  BY DEF Untouched, place
<1>2. /\ Held' = Held /\ prog' = prog /\ FaultExcuses[driver]' = FaultExcuses[driver]
      /\ Handlers' = Handlers /\ Running' = Running
      /\ \A h \in Handlers : Of(h)' = Of(h)
  BY <1>1, SameReading, HeldSame DEF Running
<1>3. \A k : InitPlaced(k) => InitPlaced(k)'
  BY <1>2 DEF InitPlaced
<1>4. EndPlaced => EndPlaced'
  <2> SUFFICES ASSUME EndPlaced PROVE EndPlaced'
    OBVIOUS
  <2>1. \A h \in Handlers : Leaves(h)'
    BY <1>1, <1>2, LeavesStays DEF EndPlaced, Leaving
  <2>2. Lasting' /\ Leaving'
    BY <1>1, <1>2, <2>1 DEF EndPlaced, Lasting, Leaving
  <2> QED BY <1>1, <1>2, <2>2 DEF EndPlaced
<1>5. phase = "init" => InitPlaced(at)' /\ Running' \subseteq ArmedBy(prog, at)'
  BY <1>1, <1>2, <1>3 DEF Secure, Placed
<1>6. phase = "live" => InitPlaced(Done(prog))'
  BY <1>2, <1>3 DEF Secure, Placed, InitPlaced
<1> QED BY <1>1, <1>4, <1>5, <1>6 DEF Secure, Placed

(* Every step of a run that is not excused keeps it secure.                *)
LEMMA NextSecure ==
  ASSUME Kind, Tracks, TextSafe, Strict', Secure, Next, Passing'
  PROVE  Secure'
<1>1. fault' = "none"
  BY NoCrash
<1>2. CASE Start
  BY <1>2, StartSecure DEF Next
<1>3. CASE Untouched
  <2>1. /\ UNCHANGED <<driver, place, phase, res, body>> /\ Held' = Held
    BY <1>3, HeldSame DEF Untouched, place
  <2>2. Placed'
    BY <1>3, <2>1, IdleKept, UntouchedPlaced
  <2>3. Served'
    BY <2>1, <2>2, StillServed
  <2> QED BY <1>1, <2>2, <2>3 DEF Secure
<1>4. CASE Return \/ Remove \/ GetFails
  <2>1. Placed'
    BY <1>4, ReturnPlaced, RemovePlaced, GetFailsPlaced
  <2>2. UNCHANGED <<driver, res, body>> /\ (phase = "exit" => phase' \in {"exit", "idle"})
    <3>1. Return => UNCHANGED <<driver, res, body>> /\ (phase = "exit" => phase' = "idle")
      BY DEF Return
    <3>2. Remove => UNCHANGED <<driver, res, body>> /\ phase = "live"
      BY DEF Remove
    <3>3. GetFails => UNCHANGED <<driver, res, body>> /\ phase = "init"
      BY InInit DEF GetFails, Acquiring, Kind
    <3> QED BY <1>4, <3>1, <3>2, <3>3
  <2>3. Served'
    BY <2>1, <2>2, StillServed
  <2> QED BY <1>1, <2>1, <2>3 DEF Secure
<1>5. CASE Passed \/ Acquired \/ Released \/ TryFails
  <2>1. Active /\ driver' = driver
    BY <1>5 DEF Passed, Acquired, Released, TryFails
  <2>2. /\ phase \in {"init", "undo", "exit"} /\ Handlers' = Handlers
        /\ Acquired \/ TryFails => phase = "init"
    BY <2>1, InPlan, InInit, SameTexts DEF Kind, Acquired, TryFails, Acquiring
  <2>3. \A h \in Handlers : ServedOne(h)'
    BY <1>5, <2>2, AcquiredServed, InitStepServed, EndingStep
  <2>4. Placed'
    BY <1>5, <2>2, InitStepPlaced, EndingStepPlaced
  <2> QED BY <1>1, <2>2, <2>3, <2>4 DEF Secure, Served
<1>6. ASSUME NEW g \in Handlers, Called(g) \/ Stepped(g) PROVE Secure'
  <2>1. Handlers' = Handlers
    BY <1>6, SameTexts DEF Called, Stepped
  <2>2. \A h \in Handlers : ServedOne(h)'
    BY <1>6, CalledServed, SteppedServed
  <2>3. Placed'
    BY <1>6, HandlerPlaced
  <2> QED BY <1>1, <2>1, <2>2, <2>3 DEF Secure, Served
<1> QED BY <1>2, <1>3, <1>4, <1>5, <1>6, Effects

(* A driver not loaded has nothing that could be missed.                   *)
LEMMA InitSecuring == Init => Securing
<1> SUFFICES ASSUME Init, TextSafe PROVE Secure
  BY DEF Securing
<1>1. Kind
  BY InitSound, InitPassing, InitHanding DEF Kind
<1>2. ASSUME NEW h \in Handlers PROVE ServedOne(h) /\ res[Of(h).entry] # "held"
  <2>1. body[h] = <<>> /\ res[Of(h).entry] # "held"
    BY <1>1, SafeEntry DEF Init
  <2> QED BY <2>1, NothingHeard DEF ServedOne, WorksNow
<1>3. IdlePlaced
  BY <1>2 DEF Init, IdlePlaced
<1> QED BY <1>2, <1>3 DEF Init, Secure, Served, Placed

(* Every step of a driver that is safe in its text keeps the run secure,   *)
(* until it meets what the driver is excused for.                          *)
LEMMA NextSecuring ==
  ASSUME Kind, Tracks, Securing, Next, Passing'
  PROVE  Securing'
<1> SUFFICES ASSUME TextSafe', Strict' PROVE Secure'
  BY DEF Securing
<1>1. CASE Start
  <2>1. driver' = driver /\ fault = "none"
    BY <1>1 DEF Start, Next
  <2> QED BY <1>1, <2>1, SameReading, StartSecure
<1>2. CASE ~Start
  <2>1. UNCHANGED driver /\ seen \subseteq seen'
    <3>1. Passed \/ Acquired \/ Released \/ Untouched => UNCHANGED driver /\ seen \subseteq seen'
      BY DEF Passed, Acquired, Released, Untouched
    <3>2. Return \/ Remove \/ GetFails \/ TryFails => UNCHANGED driver /\ seen \subseteq seen'
      BY DEF Return, Remove, GetFails, TryFails
    <3> QED BY <1>2, <3>1, <3>2, HandlersLeave, Effects DEF Kind
  <2>2. TextSafe /\ Strict
    BY <2>1, SameReading DEF Strict
  <2> QED BY <2>2, NextSecure DEF Securing
<1> QED BY <1>1, <1>2

(* A driver that is safe in its text does not fault: if init touches only  *)
(* what it has for sure and arms a handler last, if no handler touches     *)
(* what it has given up, and if every error path and exit stop a handler   *)
(* and wait for it before they give up what it works on, then nothing is   *)
(* used, released or called that is not there, whatever the kernel refuses *)
(* and whenever handlers run, but in the circumstances that the text is    *)
(* excused for.                                                            *)
THEOREM SafeCorrect == Spec => [](TextSafe => FaultsExplained)
<1> DEFINE I == Kind /\ Tracks /\ Securing
<1>1. Init => I
  BY InitSound, InitPassing, InitHanding, InitTracks, InitSecuring DEF Kind
<1>2. I /\ [Next]_vars => I'
  <2>1. ASSUME Kind, Tracks, Securing, Next PROVE Kind' /\ Tracks' /\ Securing'
    <3>1. Kind'
      BY <2>1, NextSound, NextPassing, NextHanding DEF Kind
    <3> QED BY <2>1, <3>1, NextTracks, NextSecuring DEF Kind
  <2>2. ASSUME Kind, Tracks, Securing, UNCHANGED vars PROVE Kind' /\ Tracks' /\ Securing'
    <3>1. UNCHANGED <<driver, text, place, phase, plan, at, res, body, seen, fault>>
      BY <2>2 DEF vars, place
    <3>2. /\ prog' = prog /\ Handlers' = Handlers /\ Resources' = Resources
          /\ \A h \in Handlers : Of(h)' = Of(h)
          /\ Held' = Held /\ TextSafe' = TextSafe
          /\ FaultExcuses[driver]' = FaultExcuses[driver]
      BY <3>1, SameTexts, SameReading, HeldSame
    <3>3. Sound' /\ Passing'
      BY <2>2, <3>1, NextSound, UntouchedPassing DEF Kind, Untouched
    <3>4. Handing'
      BY <2>2, <3>1, <3>2 DEF Kind, Handing, Armed, Handed
    <3>5. Tracks'
      BY <2>2, <3>1, <3>2 DEF Tracks, With
    <3>6. ASSUME TextSafe, Secure PROVE Secure'
      <4>1. Placed'
        <5>1. CASE phase = "idle"
          BY <3>1, <3>2, <3>6, <5>1 DEF Secure, Placed, IdlePlaced
        <5>2. CASE phase # "idle"
          BY <2>2, <3>1, <3>6, <5>2, UntouchedPlaced DEF Untouched
        <5> QED BY <5>1, <5>2
      <4>2. Served'
        BY <3>1, <3>6, <4>1, StillServed
      <4> QED BY <3>1, <3>6, <4>1, <4>2 DEF Secure
    <3>7. Strict' = Strict
      BY <3>1, <3>2 DEF Strict
    <3>8. Securing'
      BY <2>2, <3>2, <3>6, <3>7 DEF Securing
    <3> QED BY <3>3, <3>4, <3>5, <3>8 DEF Kind
  <2> QED BY <2>1, <2>2
<1>3. I => (TextSafe => FaultsExplained)
  BY DEF Securing, Secure, Strict, FaultsExplained
<1> QED BY <1>1, <1>2, <1>3, PTL DEF Spec

-----------------------------------------------------------------------------
(* What the three readings ask of a table of drivers and excuses.          *)
Readable ==
  \A d \in DOMAIN Programs :
    /\ d \in Careless \/ Orderly(Programs[d])
    /\ Tidy(Programs[d], LeakExcuses[d])
    /\ Safe(Programs[d], FaultExcuses[d])

(* The readings are all it takes: of a table of drivers that passes them,  *)
(* every driver, in every run, passes on only what it has, leaves nothing  *)
(* behind and does not fault, but in the circumstances that the table      *)
(* names.                                                                  *)
THEOREM ReadingSuffices ==
  Readable => (Spec => [](ArgumentsValid /\ NothingLeft /\ FaultsExplained))
<1> SUFFICES ASSUME Readable
             PROVE  Spec => [](ArgumentsValid /\ NothingLeft /\ FaultsExplained)
  OBVIOUS
<1>1. TypeOK => TextOrderly /\ TextTidy /\ TextSafe
  BY DEF Readable, TypeOK, TextOrderly, TextTidy, TextSafe, prog
<1> QED BY <1>1, DriverTypeCorrect, OrderlyCorrect, TidyCorrect, SafeCorrect, PTL

=============================================================================
