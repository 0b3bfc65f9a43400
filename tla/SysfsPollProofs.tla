-------------------------- MODULE SysfsPollProofs --------------------------
(***************************************************************************)
(* Proofs about the pollable attributes, for any number of writers and     *)
(* clients and whatever they write: no client sleeps on stale values; every*)
(* variable keeps its type; and a number that nobody has written over stays*)
(* as the last of the pieces that store has taken it in.  The last two need*)
(* the powers of ten, about which facts are proved by induction: over a    *)
(* set of naturals, from its least element.                                *)
(***************************************************************************)
EXTENDS SysfsPoll, WellFoundedInduction, TLAPS

-----------------------------------------------------------------------------
(* What NoStaleSleep needs of the types: the numbers do not matter.        *)
Shape ==
  /\ module \in {"new", "loaded", "empty", "refused", "gone"}
  /\ DOMAIN value = Attrs
  /\ wpc \in [Writers -> {"idle", "enter", "scan", "load", "store", "notify"}]
  /\ DOMAIN job = Writers
  /\ \A w \in Writers : DOMAIN job[w] = DOMAIN NoJob /\ job[w].attr \in Attrs
  /\ cpc \in [Clients -> {"closed", "read", "show", "poll", "asleep"}]
  /\ at \in [Clients -> Attrs]
  /\ news \in [Clients -> SUBSET Attrs]
  /\ DOMAIN got = Clients
  /\ \A c \in Clients : DOMAIN got[c] = Attrs

(* A client has files open only of a module that has been loaded, and is   *)
(* inside show only while it is loaded.                                    *)
Attached ==
  \A c \in Clients :
    /\ cpc[c] # "closed" => module \in {"loaded", "gone"}
    /\ cpc[c] = "show" => module = "loaded"

(* The values a client relies on: all of them once it sleeps or is about   *)
(* to, and notify's while it reads trigger.  What it failed to read from a *)
(* removed attribute does not count: poll will not let it sleep.           *)
Relies(c, a) ==
  \/ cpc[c] = "asleep"
  \/ module = "loaded" /\ cpc[c] = "poll"
  \/ /\ module = "loaded" /\ cpc[c] \in {"read", "show"}
     /\ at[c] = "trigger" /\ a = "notify"

(* A store that has changed a, or may still, and will notify.              *)
WillNotify(w, a) == wpc[w] \in {"load", "store", "notify"} /\ job[w].attr = a

Fresh(c, a) ==
  \/ value[a] = got[c][a]
  \/ a \in news[c]
  \/ \E w \in Writers : WillNotify(w, a)

ReliesOnFresh == \A c \in Clients, a \in Attrs : Relies(c, a) => Fresh(c, a)

IInv == Shape /\ Attached /\ ReliesOnFresh

-----------------------------------------------------------------------------
(* No client relies on anything before it has read.                        *)
LEMMA InitInv == Init => IInv
<1> SUFFICES ASSUME Init PROVE IInv
  OBVIOUS
<1>1. Shape
  BY DEF Init, Shape, Attrs, NoJob
<1>2. Attached /\ ReliesOnFresh
  BY DEF Init, Attached, ReliesOnFresh, Relies
<1> QED  BY <1>1, <1>2 DEF IInv

(* Load and unload: no value, news or store changes, and nothing becomes   *)
(* relied on.                                                              *)
LEMMA ModuleInv ==
  ASSUME IInv, hello_module_init \/ hello_module_exit
  PROVE  IInv'
<1> USE DEF writing, reading
<1>1. Shape'
  BY DEF IInv, Shape, hello_module_init, hello_module_exit
<1>2. Attached'
  BY DEF IInv, Shape, Attached, hello_module_init, hello_module_exit, InShow
<1>3. ReliesOnFresh'
  <2> SUFFICES ASSUME NEW c \in Clients, NEW a \in Attrs, Relies(c, a)'
               PROVE  Fresh(c, a)'
    BY DEF ReliesOnFresh
  <2>1. Relies(c, a)
    BY DEF IInv, Attached, Relies, hello_module_init, hello_module_exit
  <2> QED
    BY <2>1 DEF IInv, ReliesOnFresh, Fresh, WillNotify, hello_module_init,
                hello_module_exit
<1> QED  BY <1>1, <1>2, <1>3 DEF IInv

-----------------------------------------------------------------------------
(* A step of a writer leaves the clients alone.                            *)
LEMMA WriterAttached ==
  ASSUME IInv, UNCHANGED <<module, cpc, at>>
  PROVE  /\ Attached'
         /\ \A c \in Clients, a \in Attrs : Relies(c, a)' => Fresh(c, a)
BY DEF IInv, Attached, ReliesOnFresh, Relies

(* A write that begins concerns no client.                                 *)
LEMMA WriteInv ==
  ASSUME IInv, NEW w \in Writers, Write(w)
  PROVE  IInv'
<1> USE DEF writing, reading
<1>1. UNCHANGED <<module, value, cpc, at, got, news>>
  BY DEF Write
<1>2. PICK r \in Requests :
        /\ r[1] = w
        /\ job' = [v \in Writers |->
             IF v = w THEN [NoJob EXCEPT !.attr = r[2], !.text = r[3], !.whole = r[3],
                              !.alone = \A u \in Writers \ {w} : ~Writing(u, r[2])]
             ELSE [job[v] EXCEPT !.alone = @ /\ job[v].attr # r[2]]]
  BY DEF Write
<1>3. r[2] \in Attrs
  BY RequestsAssumption
<1>4. wpc' = [wpc EXCEPT ![w] = "enter"] /\ wpc[w] = "idle"
  BY DEF Write, Idle
<1>5. \A v \in Writers : /\ DOMAIN job'[v] = DOMAIN NoJob /\ job'[v].attr \in Attrs
                         /\ v # w => job'[v].attr = job[v].attr
  BY <1>2, <1>3 DEF IInv, Shape, NoJob
<1>6. Shape'
  BY <1>1, <1>2, <1>4, <1>5 DEF IInv, Shape
<1>7. \A v \in Writers, a \in Attrs : WillNotify(v, a) => WillNotify(v, a)'
  BY <1>4, <1>5 DEF IInv, Shape, WillNotify
<1>8. ReliesOnFresh'
  BY <1>1, <1>7, WriterAttached DEF ReliesOnFresh, Fresh
<1> QED  BY <1>1, <1>6, <1>8, WriterAttached DEF IInv

(* Nor does the entry into store.                                          *)
LEMMA EnterStoreInv ==
  ASSUME IInv, NEW w \in Writers, EnterStore(w)
  PROVE  IInv'
<1> USE DEF writing, reading
<1>1. UNCHANGED <<module, value, cpc, at, got, news>>
  BY DEF EnterStore
<1>2. Shape'
  BY DEF IInv, Shape, EnterStore, NoJob, Attrs
<1>3. \A v \in Writers, a \in Attrs : WillNotify(v, a) => WillNotify(v, a)'
  BY DEF IInv, Shape, WillNotify, EnterStore
<1>4. ReliesOnFresh'
  BY <1>1, <1>3, WriterAttached DEF ReliesOnFresh, Fresh
<1> QED  BY <1>1, <1>2, <1>4, WriterAttached DEF IInv

(* scan and the store back change the value of the attribute, and will     *)
(* notify; load changes nothing of either.                                 *)
LEMMA StoreInv ==
  ASSUME IInv, NEW w \in Writers, Scan(w) \/ Load(w) \/ StoreBack(w)
  PROVE  IInv'
<1> USE DEF writing, reading
<1>1. UNCHANGED <<module, cpc, at, got, news>>
  BY DEF Scan, Load, StoreBack
<1>2. Shape'
  BY DEF IInv, Shape, Scan, Load, StoreBack, NoJob
<1>3. \A v \in Writers : job'[v].attr = job[v].attr
  BY DEF IInv, Shape, Scan, Load, StoreBack, NoJob
<1>4. \A v \in Writers, a \in Attrs : WillNotify(v, a) => WillNotify(v, a)'
  BY <1>3 DEF IInv, Shape, WillNotify, Scan, Load, StoreBack
<1>5. \A a \in Attrs : a # job[w].attr => value'[a] = value[a]
  BY DEF IInv, Shape, Scan, Load, StoreBack
<1>6. \A a \in Attrs : a = job[w].attr => WillNotify(w, a)'
  BY <1>3 DEF IInv, Shape, WillNotify, Scan, Load, StoreBack
<1>7. ReliesOnFresh'
  <2> SUFFICES ASSUME NEW c \in Clients, NEW a \in Attrs, Relies(c, a)'
               PROVE  Fresh(c, a)'
    BY DEF ReliesOnFresh
  <2>1. CASE a = job[w].attr
    BY <1>6, <2>1 DEF Fresh
  <2>2. CASE a # job[w].attr
    <3>1. Fresh(c, a)
      BY <1>1, WriterAttached
    <3> QED  BY <1>1, <1>4, <1>5, <2>2, <3>1 DEF Fresh
  <2> QED  BY <2>1, <2>2
<1> QED  BY <1>1, <1>2, <1>7, WriterAttached DEF IInv

(* The store that ends gives its attribute to the news of every client.    *)
LEMMA NotifyInv ==
  ASSUME IInv, NEW w \in Writers, Notify(w)
  PROVE  IInv'
<1> USE DEF writing, reading
<1>1. UNCHANGED <<module, value, cpc, at, got>>
  BY DEF Notify
<1>2. news' = [c \in Clients |->
        IF cpc[c] = "closed" THEN {} ELSE news[c] \union {job[w].attr}]
  BY DEF Notify, News, NewsOf
<1>3. Shape'
  <2>1. news' \in [Clients -> SUBSET Attrs]
    BY <1>2 DEF IInv, Shape
  <2>2. DOMAIN job' = Writers
        /\ \A v \in Writers : DOMAIN job'[v] = DOMAIN NoJob /\ job'[v].attr \in Attrs
    BY DEF IInv, Shape, Notify, NoJob, Attrs
  <2>3. wpc' \in [Writers -> {"idle", "enter", "scan", "load", "store", "notify"}]
    BY DEF IInv, Shape, Notify
  <2> QED  BY <1>1, <2>1, <2>2, <2>3 DEF IInv, Shape
<1>4. \A v \in Writers, a \in Attrs :
        WillNotify(v, a) => a = job[w].attr \/ WillNotify(v, a)'
  BY DEF IInv, Shape, WillNotify, Notify
<1>5. \A c \in Clients, a \in Attrs : Relies(c, a)' => cpc[c] # "closed"
  BY <1>1 DEF Relies
<1>6. ReliesOnFresh'
  BY <1>1, <1>2, <1>4, <1>5, WriterAttached DEF ReliesOnFresh, Fresh
<1> QED  BY <1>1, <1>3, <1>6, WriterAttached DEF IInv

-----------------------------------------------------------------------------
(* A step of one client: the values and the stores stay, and so does what  *)
(* the other clients rely on.                                              *)
LEMMA ClientInv ==
  ASSUME IInv, NEW c \in Clients, UNCHANGED <<module, value, writing>>, Shape',
         \A d \in Clients \ {c} :
           cpc'[d] = cpc[d] /\ at'[d] = at[d] /\ got'[d] = got[d] /\ news'[d] = news[d],
         cpc'[c] # "closed" => module \in {"loaded", "gone"},
         cpc'[c] = "show" => module = "loaded",
         \A a \in Attrs : Relies(c, a)' => Fresh(c, a)'
  PROVE  IInv'
<1> USE DEF writing
<1>1. Attached'
  BY DEF IInv, Attached
<1>2. ReliesOnFresh'
  BY DEF IInv, ReliesOnFresh, Relies, Fresh, WillNotify
<1> QED  BY <1>1, <1>2 DEF IInv

(* A client that opens an attribute relies on nothing yet.                 *)
LEMMA OpenInv ==
  ASSUME IInv, NEW c \in Clients, Open(c)
  PROVE  IInv'
<1>1. Shape'
  BY DEF IInv, Shape, Open, writing, Attrs
<1>2. \A a \in Attrs : ~Relies(c, a)'
  BY DEF IInv, Shape, Open, Relies
<1>3. \A d \in Clients \ {c} :
        cpc'[d] = cpc[d] /\ at'[d] = at[d] /\ got'[d] = got[d] /\ news'[d] = news[d]
  BY DEF IInv, Shape, Open
<1> QED  BY <1>1, <1>2, <1>3, ClientInv DEF Open

(* A read takes its attribute off the news, before it is relied on.        *)
LEMMA ReadInv ==
  ASSUME IInv, NEW c \in Clients, Read(c)
  PROVE  IInv'
<1>1. Shape'
  BY DEF IInv, Shape, Read, ReadDone, writing, Attrs
<1>2. \A a \in Attrs : Relies(c, a)' => Fresh(c, a)'
  <2> SUFFICES ASSUME NEW a \in Attrs, Relies(c, a)' PROVE Fresh(c, a)'
    OBVIOUS
  <2>1. module = "loaded" /\ cpc'[c] = "show" /\ at'[c] = at[c]
    BY DEF IInv, Shape, Read, ReadDone, Relies
  <2>2. at[c] = "trigger" /\ a = "notify"
    BY <2>1 DEF Relies
  <2>3. Fresh(c, a)
    BY <2>1, <2>2 DEF IInv, ReliesOnFresh, Relies, Read
  <2>4. a \in news[c] => a \in news'[c]
    BY <2>1, <2>2 DEF IInv, Shape, Read
  <2> QED  BY <2>3, <2>4 DEF Fresh, WillNotify, Read, writing
<1>3. \A d \in Clients \ {c} :
        cpc'[d] = cpc[d] /\ at'[d] = at[d] /\ got'[d] = got[d] /\ news'[d] = news[d]
  BY DEF IInv, Shape, Read, ReadDone
<1>4. module \in {"loaded", "gone"} /\ (cpc'[c] = "show" => module = "loaded")
  BY DEF IInv, Shape, Attached, Read, ReadDone
<1> QED  BY <1>1, <1>2, <1>3, <1>4, ClientInv DEF Read

(* show gives the client the value as it is: of notify, or of trigger while*)
(* it relies on notify already.                                            *)
LEMMA ShowInv ==
  ASSUME IInv, NEW c \in Clients, show(c)
  PROVE  IInv'
<1>1. Shape'
  BY DEF IInv, Shape, show, ReadDone, writing, Attrs
<1>2. /\ got'[c][at[c]] = value[at[c]]
      /\ \A a \in Attrs : a # at[c] => got'[c][a] = got[c][a]
  BY DEF IInv, Shape, show
<1>3. \A a \in Attrs : Relies(c, a)' => Fresh(c, a)'
  <2> SUFFICES ASSUME NEW a \in Attrs, Relies(c, a)' PROVE Fresh(c, a)'
    OBVIOUS
  <2>1. CASE a = at[c]
    BY <1>2, <2>1 DEF Fresh, show
  <2>2. CASE a # at[c]
    <3>1. at[c] = "trigger" /\ a = "notify"
      BY <2>2 DEF IInv, Shape, Attrs, show, ReadDone, Relies
    <3>2. Fresh(c, a)
      BY <3>1 DEF IInv, Attached, ReliesOnFresh, Relies, show
    <3> QED  BY <1>2, <2>2, <3>2 DEF Fresh, WillNotify, show, writing
  <2> QED  BY <2>1, <2>2
<1>4. \A d \in Clients \ {c} :
        cpc'[d] = cpc[d] /\ at'[d] = at[d] /\ got'[d] = got[d] /\ news'[d] = news[d]
  BY DEF IInv, Shape, show, ReadDone
<1>5. module \in {"loaded", "gone"} /\ cpc'[c] # "show"
  BY DEF IInv, Shape, Attached, show, ReadDone
<1> QED  BY <1>1, <1>3, <1>4, <1>5, ClientInv DEF show

(* Nor does one that has gone.                                             *)
LEMMA ExitInv ==
  ASSUME IInv, NEW c \in Clients, Exit(c)
  PROVE  IInv'
<1>1. Shape'
  BY DEF IInv, Shape, Exit, writing
<1>2. \A a \in Attrs : ~Relies(c, a)'
  BY DEF IInv, Shape, Exit, Relies
<1>3. \A d \in Clients \ {c} :
        cpc'[d] = cpc[d] /\ at'[d] = at[d] /\ got'[d] = got[d] /\ news'[d] = news[d]
  BY DEF IInv, Shape, Exit
<1>4. cpc'[c] = "closed"
  BY DEF IInv, Shape, Exit
<1> QED  BY <1>1, <1>2, <1>3, <1>4, ClientInv DEF Exit

(* Only a client that relies on both values goes to sleep.                 *)
LEMMA PollInv ==
  ASSUME IInv, NEW c \in Clients, Poll(c)
  PROVE  IInv'
<1>1. CASE news[c] # {} \/ module = "gone"
  BY <1>1, ExitInv DEF Poll
<1>2. CASE ~(news[c] # {} \/ module = "gone")
  <2>1. Shape'
    BY <1>2 DEF IInv, Shape, Poll, writing
  <2>2. module = "loaded"
    BY <1>2 DEF IInv, Attached, Poll
  <2>3. \A a \in Attrs : Fresh(c, a)'
    BY <1>2, <2>2 DEF IInv, ReliesOnFresh, Relies, Fresh, WillNotify, Poll, writing
  <2>4. \A d \in Clients \ {c} :
          cpc'[d] = cpc[d] /\ at'[d] = at[d] /\ got'[d] = got[d] /\ news'[d] = news[d]
    BY <1>2 DEF IInv, Shape, Poll
  <2> QED  BY <1>2, <2>1, <2>2, <2>3, <2>4, ClientInv DEF Poll
<1> QED  BY <1>1, <1>2

-----------------------------------------------------------------------------
(* Every step keeps the invariant.                                         *)
LEMMA NextInv == IInv /\ [Next]_vars => IInv'
<1> SUFFICES ASSUME IInv, [Next]_vars PROVE IInv'
  OBVIOUS
<1>1. CASE hello_module_init \/ hello_module_exit
  BY <1>1, ModuleInv
<1>2. CASE \E w \in Writers : Write(w) \/ Store(w)
  BY <1>2, WriteInv, EnterStoreInv, StoreInv, NotifyInv DEF Store
<1>3. CASE \E c \in Clients : Open(c) \/ Client(c) \/ PollTimeout(c)
  BY <1>3, OpenInv, ReadInv, ShowInv, PollInv, ExitInv
  DEF Client, Woken, PollTimeout
<1>4. CASE UNCHANGED vars
  BY <1>4 DEF vars, writing, reading, IInv, Shape, Attached, ReliesOnFresh,
              Relies, Fresh, WillNotify
<1> QED  BY <1>1, <1>2, <1>3, <1>4 DEF Next

(* No client sleeps on a value that has changed without news of it or a    *)
(* store under way that will bring them: the order of scan, store back and *)
(* sysfs_notify in store, and of the two reads before poll, is enough      *)
(* without a lock.                                                         *)
THEOREM NoStaleSleepCorrect == Spec => []NoStaleSleep
<1>1. IInv => NoStaleSleep
  BY DEF IInv, ReliesOnFresh, Relies, Fresh, WillNotify, NoStaleSleep
<1> QED  BY <1>1, InitInv, NextInv, PTL DEF Spec

-----------------------------------------------------------------------------
(* Induction over the naturals for a set: a set that has 0 and, with each  *)
(* number, its successor has every number, since what it missed would have *)
(* a least element.                                                        *)
LEMMA Least ==
  ASSUME NEW T, T \subseteq Nat, T # {}
  PROVE  \E x \in T : \A y \in T : x <= y
<1> DEFINE Below == {p \in Nat \X Nat : p[1] < p[2]}
<1>1. Below = OpToRel(<, Nat)
  BY DEF OpToRel
<1>2. IsWellFoundedOn(Below, Nat)
  BY <1>1, NatLessThanWellFounded
<1>3. \A x, y \in Nat : <<y, x>> \notin Below => x <= y
  OBVIOUS
<1> HIDE DEF Below
<1>4. \E x \in T : \A y \in T : <<y, x>> \notin Below
  BY <1>2, WFMin
<1> QED BY <1>3, <1>4

(* Induction, said of sets of naturals: a set with 0 and all successors    *)
(* of its members has them all, or its complement had a least element.     *)
LEMMA Induction ==
  ASSUME NEW T, 0 \in T, \A n \in Nat : n \in T => n + 1 \in T
  PROVE  Nat \subseteq T
<1> DEFINE Missed == Nat \ T
<1> SUFFICES ASSUME Missed # {} PROVE FALSE
  OBVIOUS
<1>1. Missed \subseteq Nat
  OBVIOUS
<1>2. PICK x \in Missed : \A y \in Missed : x <= y
  <2> HIDE DEF Missed
  <2> QED BY <1>1, Least
<1>3. x - 1 \in Nat /\ x - 1 \notin Missed
  BY <1>2
<1>4. (x - 1) + 1 \in T
  BY <1>3
<1> QED BY <1>2, <1>3, <1>4

(* A table of the powers of ten up to the n-th.                            *)
Table(n) ==
  {h \in [0 .. n -> Nat \ {0}] :
     h[0] = 1 /\ \A k \in 1 .. n : h[k] = 10 * h[k - 1]}

(* The powers of ten up to any exponent make a table ...                   *)
LEMMA TablesExist == \A n \in Nat : Table(n) # {}
<1> DEFINE T == {n \in Nat : Table(n) # {}}
<1>1. 0 \in T
  <2>1. [k \in 0 .. 0 |-> 1] \in Table(0)
    BY DEF Table
  <2> QED BY <2>1
<1>2. ASSUME NEW n \in Nat, n \in T PROVE n + 1 \in T
  <2>1. PICK h \in Table(n) : TRUE
    BY <1>2
  <2> DEFINE g == [k \in 0 .. n + 1 |-> IF k <= n THEN h[k] ELSE 10 * h[n]]
  <2>2. h \in [0 .. n -> Nat \ {0}] /\ h[n] \in Nat \ {0}
    BY DEF Table
  <2>3. g \in [0 .. n + 1 -> Nat \ {0}]
    BY <2>2
  <2>4. g[0] = 1
    BY DEF Table
  <2>5. \A k \in 1 .. n + 1 : g[k] = 10 * g[k - 1]
    <3> TAKE k \in 1 .. n + 1
    <3>1. CASE k <= n
      <4>1. h[k] = 10 * h[k - 1]
        BY <3>1 DEF Table
      <4> QED BY <3>1, <4>1
    <3>2. CASE k = n + 1
      <4>1. k - 1 = n
        BY <3>2
      <4> QED BY <3>2, <4>1
    <3> QED BY <3>1, <3>2
  <2> HIDE DEF g
  <2>6. g \in Table(n + 1)
    BY <2>3, <2>4, <2>5 DEF Table
  <2> QED BY <2>6
<1> HIDE DEF T
<1>3. Nat \subseteq T
  BY <1>1, <1>2, Induction
<1> QED BY <1>3 DEF T

(* ... two tables agree where both are defined ...                         *)
LEMMA TablesAgree ==
  ASSUME NEW m \in Nat, NEW n \in Nat, NEW h \in Table(m), NEW g \in Table(n), m <= n
  PROVE  \A k \in 0 .. m : h[k] = g[k]
<1> DEFINE T == {k \in Nat : k <= m => h[k] = g[k]}
<1>1. 0 \in T
  BY DEF Table
<1>2. ASSUME NEW k \in Nat, k \in T PROVE k + 1 \in T
  <2> SUFFICES ASSUME k + 1 <= m PROVE h[k + 1] = g[k + 1]
    OBVIOUS
  <2>1. k + 1 \in 1 .. m /\ k + 1 \in 1 .. n /\ (k + 1) - 1 = k /\ h[k] = g[k]
    BY <1>2
  <2>2. h[k + 1] = 10 * h[k] /\ g[k + 1] = 10 * g[k]
    BY <2>1 DEF Table
  <2> QED BY <2>1, <2>2
<1> HIDE DEF T
<1>3. Nat \subseteq T
  BY <1>1, <1>2, Induction
<1> QED BY <1>3 DEF T

(* Tens is what its definition says: the tables give a function that       *)
(* solves it, and a solution is positive everywhere.                       *)
LEMMA TensDefined == Tens = [k \in Nat |-> IF k = 0 THEN 1 ELSE 10 * Tens[k - 1]]
<1> DEFINE t(n) == CHOOSE h \in Table(n) : TRUE
           f == [n \in Nat |-> t(n)[n]]
<1>1. \A n \in Nat : t(n) \in Table(n)
  BY TablesExist
<1>2. ASSUME NEW n \in Nat
      PROVE  f[n] = IF n = 0 THEN 1 ELSE 10 * f[n - 1]
  <2>1. CASE n = 0
    <3>1. t(0) \in Table(0)
      BY <1>1
    <3> HIDE DEF t
    <3> QED BY <2>1, <3>1 DEF Table
  <2>2. CASE n # 0
    <3>1. n - 1 \in Nat /\ n \in 1 .. n /\ n - 1 <= n /\ n - 1 \in 0 .. n - 1
      BY <2>2
    <3>2. t(n) \in Table(n) /\ t(n - 1) \in Table(n - 1)
      BY <1>1, <3>1
    <3> HIDE DEF t
    <3>3. t(n)[n] = 10 * t(n)[n - 1]
      BY <3>1, <3>2 DEF Table
    <3>4. t(n - 1)[n - 1] = t(n)[n - 1]
      BY <3>1, <3>2, TablesAgree
    <3> QED BY <2>2, <3>1, <3>3, <3>4
  <2> QED BY <2>1, <2>2
<1> HIDE DEF t
<1>3. f = [n \in Nat |-> IF n = 0 THEN 1 ELSE 10 * f[n - 1]]
  BY <1>2
<1> HIDE DEF f
<1>4. \E g : g = [n \in Nat |-> IF n = 0 THEN 1 ELSE 10 * g[n - 1]]
  BY <1>3
<1> QED BY <1>4 DEF Tens

(* ... so there is a power of ten for every exponent, and it is positive   *)
(* ...                                                                     *)
LEMMA TensPositive == \A k \in Nat : Tens[k] \in Nat \ {0}
<1> DEFINE T == {k \in Nat : Tens[k] \in Nat \ {0}}
<1>1. 0 \in T
  BY TensDefined
<1>2. ASSUME NEW k \in Nat, k \in T PROVE k + 1 \in T
  <2>1. Tens[k + 1] = 10 * Tens[k]
    BY TensDefined
  <2> QED BY <1>2, <2>1
<1> HIDE DEF T
<1>3. Nat \subseteq T
  BY <1>1, <1>2, Induction
<1> QED BY <1>3 DEF T

(* ... and ten times the one before.                                       *)
LEMMA TensStep == \A k \in Nat : k >= 1 => Tens[k] = 10 * Tens[k - 1]
BY TensDefined

-----------------------------------------------------------------------------
(* What a number leaves by a multiple of d leaves by d what the number     *)
(* does.                                                                   *)
LEMMA ModUnique ==
  ASSUME NEW n \in Nat \ {0}, NEW q \in Int, NEW r \in 0 .. n - 1
  PROVE  ((n * q) + r) % n = r
OBVIOUS

SameModulo(n, D, d) == (n % D) % d = n % d

(* The last digits of the last digits of a number are its last digits.     *)
LEMMA ModOfMod ==
  ASSUME NEW n \in Nat, NEW d \in Nat \ {0}, NEW D \in Nat \ {0}, D = 10000 * d
  PROVE  SameModulo(n, D, d)
<1> DEFINE q == n \div D
           r == n % D
           k == r \div d
           s == r % d
<1>0. D \in Nat \ {0} /\ n \in Int
  OBVIOUS
<1>1. q \in Int /\ r \in Nat /\ n = (D * q) + r
  BY <1>0
<1>2. k \in Int /\ s \in 0 .. d - 1 /\ r = (d * k) + s
  <2> HIDE DEF r
  <2> QED BY <1>1
<1> HIDE DEF q, r, k, s
<1>3. n = (d * ((10000 * q) + k)) + s
  BY <1>1, <1>2
<1>4. (10000 * q) + k \in Int
  BY <1>1, <1>2
<1>5. n % d = s
  <2> DEFINE p == (10000 * q) + k
  <2> HIDE DEF p
  <2>1. p \in Int /\ n = (d * p) + s
    BY <1>3, <1>4 DEF p
  <2> QED BY <2>1, <1>2, ModUnique
<1> QED BY <1>5 DEF s, r, SameModulo

(* What is left of a number after store has taken four characters of it:   *)
(* the digits are four fewer, and still the last ones of the number.       *)
LEMMA FourTens == \A k \in Nat : k > 4 => Tens[k] = 10000 * Tens[k - 4]
<1> TAKE k \in Nat
<1> HAVE k > 4
<1>1. k - 1 \in Nat /\ k - 2 \in Nat /\ k - 3 \in Nat /\ k - 4 \in Nat
  OBVIOUS
<1>2. (k - 1) - 1 = k - 2 /\ (k - 2) - 1 = k - 3 /\ (k - 3) - 1 = k - 4
  OBVIOUS
<1>3. /\ Tens[k] = 10 * Tens[k - 1] /\ Tens[k - 1] = 10 * Tens[k - 2]
      /\ Tens[k - 2] = 10 * Tens[k - 3] /\ Tens[k - 3] = 10 * Tens[k - 4]
  BY <1>1, <1>2, TensStep
<1> QED BY <1>1, <1>3, TensPositive

(* The rest of a text is a text.                                           *)
LEMMA RestType ==
  ASSUME NEW t \in Pieces
  PROVE  Rest(t) \in Pieces
<1>1. \A k \in Nat : t.number % Tens[k] \in Nat
  <2> TAKE k \in Nat
  <2> DEFINE d == Tens[k]
  <2>1. d \in Nat \ {0} /\ t.number \in Nat
    BY TensPositive DEF Pieces
  <2> HIDE DEF d
  <2>2. t.number % d \in Nat
    BY <2>1
  <2> QED BY <2>2 DEF d
<1> QED BY <1>1 DEF Rest, Pieces, NoText

(* The digits that the last piece of a number consists of.                 *)
LastDigits(digits) == ((digits - 1) % 4) + 1

(* A text all of whose digits are still there, or whose first digits are   *)
(* gone in fours.                                                          *)
Remains(whole, t) ==
  /\ t.chars > t.digits
  /\ t.digits # 0 => whole.digits # 0 /\ LastDigits(t.digits) = LastDigits(whole.digits)
  /\ t.number = whole.number % Tens[t.digits]

(* What is left at first is the whole.                                     *)
LEMMA WholeRemains ==
  ASSUME NEW t \in Pieces, t.number < Tens[t.digits], t.chars > t.digits
  PROVE  Remains(t, t)
<1> DEFINE d == Tens[t.digits]
<1>1. d \in Nat \ {0} /\ t.number \in 0 .. d - 1
  BY TensPositive DEF Pieces
<1> HIDE DEF d
<1>2. t.number = t.number % d
  BY <1>1
<1> QED BY <1>2 DEF Remains, d

(* Cutting off a piece keeps the last piece.                               *)
LEMMA RestRemains ==
  ASSUME NEW whole \in Pieces, NEW t \in Pieces, Remains(whole, t), t.chars > 4
  PROVE  Remains(whole, Rest(t))
<1> DEFINE k == IF t.digits > 4 THEN t.digits - 4 ELSE 0
<1>1. Rest(t) = [digits |-> k, chars |-> t.chars - 4, number |-> t.number % Tens[k]]
  BY DEF Rest, Pieces
<1>2. t.chars - 4 > k
  BY DEF Remains, Pieces
<1>3. k # 0 => whole.digits # 0 /\ LastDigits(k) = LastDigits(whole.digits)
  BY DEF Remains, LastDigits, Pieces
<1>4. t.number % Tens[k] = whole.number % Tens[k]
  <2>1. CASE t.digits > 4
    <3> DEFINE d == Tens[k]
               D == Tens[t.digits]
               n == whole.number
    <3>1. t.number = n % D /\ D = 10000 * d
      BY <2>1, FourTens DEF Remains, Pieces
    <3>2. d \in Nat \ {0} /\ n \in Nat /\ D \in Nat \ {0}
      BY <2>1, TensPositive DEF Pieces
    <3> HIDE DEF d, D, n
    <3>3. SameModulo(n, D, d)
      BY <3>1, <3>2, ModOfMod
    <3>4. t.number % d = n % d
      BY <3>1, <3>3 DEF SameModulo
    <3> QED BY <3>4 DEF d, n
  <2>2. CASE ~(t.digits > 4)
    <3>1. Tens[k] = 1
      BY <2>2, TensDefined
    <3>2. t.number \in Nat /\ whole.number \in Nat
      BY DEF Pieces
    <3> QED BY <3>1, <3>2
  <2> QED BY <2>1, <2>2
<1> QED BY <1>1, <1>2, <1>3, <1>4 DEF Remains

-----------------------------------------------------------------------------
(* Every variable keeps its type, whatever is written.                     *)
LEMMA NoJobType == NoText \in Pieces /\ NoJob \in JobType
BY DEF NoText, NoJob, Pieces, JobType, Attrs

(* The types, initially.                                                   *)
LEMMA InitType == Init => TypeOK
<1> SUFFICES ASSUME Init PROVE TypeOK
  OBVIOUS
<1>1. /\ module \in {"new", "loaded", "empty", "refused", "gone"}
      /\ value \in [Attrs -> Nat]
      /\ wpc \in [Writers -> {"idle", "enter", "scan", "load", "store", "notify"}]
      /\ cpc \in [Clients -> {"closed", "read", "show", "poll", "asleep"}]
      /\ at \in [Clients -> Attrs] /\ news \in [Clients -> SUBSET Attrs]
      /\ got \in [Clients -> [Attrs -> Nat]]
  BY DEF Init, Attrs
<1>2. job \in [Writers -> JobType] /\ last \in [Attrs -> Pieces]
  BY NoJobType DEF Init
<1> QED BY <1>1, <1>2 DEF TypeOK

(* The steps of a writer.                                                  *)
WriterType ==
  /\ value \in [Attrs -> Nat]
  /\ wpc \in [Writers -> {"idle", "enter", "scan", "load", "store", "notify"}]
  /\ job \in [Writers -> JobType]
  /\ news \in [Clients -> SUBSET Attrs]
  /\ last \in [Attrs -> Pieces]

(* A write that begins has the type of a write.                            *)
LEMMA WriteType ==
  ASSUME TypeOK, NEW w \in Writers, Write(w)
  PROVE  WriterType'
<1>1. PICK r \in Requests :
        /\ job' = [v \in Writers |->
             IF v = w THEN [NoJob EXCEPT !.attr = r[2], !.text = r[3], !.whole = r[3],
                              !.alone = \A u \in Writers \ {w} : ~Writing(u, r[2])]
             ELSE [job[v] EXCEPT !.alone = @ /\ job[v].attr # r[2]]]
        /\ last' = [last EXCEPT ![r[2]] = NoText]
  BY DEF Write
<1>2. r[2] \in Attrs /\ r[3] \in Pieces
  BY RequestsAssumption
<1>3. job' \in [Writers -> JobType]
  <2> DEFINE b == \A u \in Writers \ {w} : ~Writing(u, r[2])
  <2>1. [NoJob EXCEPT !.attr = r[2], !.text = r[3], !.whole = r[3], !.alone = b] \in JobType
    <3>1. b \in BOOLEAN
      OBVIOUS
    <3> HIDE DEF b
    <3> QED BY <1>2, <3>1 DEF NoJob, JobType
  <2>2. ASSUME NEW v \in Writers
        PROVE  [job[v] EXCEPT !.alone = @ /\ job[v].attr # r[2]] \in JobType
    <3> DEFINE x == job[v].alone /\ job[v].attr # r[2]
    <3>1. x \in BOOLEAN /\ job[v] \in JobType
      BY DEF TypeOK
    <3> HIDE DEF x
    <3>2. [job[v] EXCEPT !.alone = x] \in JobType
      BY <3>1 DEF JobType
    <3> QED BY <3>2 DEF x
  <2> HIDE DEF b
  <2> QED BY <1>1, <2>1, <2>2 DEF b
<1>4. last' \in [Attrs -> Pieces]
  BY <1>1, NoJobType DEF TypeOK
<1> QED BY <1>3, <1>4 DEF TypeOK, WriterType, Write, reading

(* The steps of store keep the types of the writers.                       *)
LEMMA StoreType ==
  ASSUME TypeOK, NEW w \in Writers, EnterStore(w) \/ Scan(w) \/ Load(w) \/ StoreBack(w)
  PROVE  WriterType'
<1> USE DEF TypeOK, WriterType
<1>1. job[w] \in JobType
  OBVIOUS
<1>2. CASE EnterStore(w)
  BY <1>2, NoJobType DEF EnterStore
<1>3. CASE Scan(w)
  BY <1>1, <1>3 DEF Scan, JobType, Pieces
<1>4. CASE Load(w)
  <2>1. [job[w] EXCEPT !.loaded = value[job[w].attr]] \in JobType
    BY <1>1 DEF JobType
  <2>2. job' = [job EXCEPT ![w] = [job[w] EXCEPT !.loaded = value[job[w].attr]]] \/ job' = job
    BY <1>4 DEF Load
  <2>3. job' \in [Writers -> JobType]
    BY <2>1, <2>2
  <2> QED BY <1>4, <2>3 DEF Load
<1>5. CASE StoreBack(w)
  BY <1>1, <1>5 DEF StoreBack, JobType
<1> QED BY <1>2, <1>3, <1>4, <1>5

(* So does the notification, which goes on with the rest of the text.      *)
LEMMA NotifyType ==
  ASSUME TypeOK, NEW w \in Writers, Notify(w)
  PROVE  WriterType'
<1> DEFINE rest == Rest(job[w].text)
<1>1. job[w] \in JobType /\ job[w].whole \in Pieces /\ rest \in Pieces
  BY RestType DEF TypeOK, JobType
<1>2. news' \in [Clients -> SUBSET Attrs]
  BY <1>1 DEF Notify, News, NewsOf, TypeOK, JobType
<1>3. [job[w] EXCEPT !.text = rest] \in JobType
  BY <1>1 DEF JobType
<1>4. \/ job' = [job EXCEPT ![w] = [job[w] EXCEPT !.text = rest]]
      \/ job' = [job EXCEPT ![w] = NoJob]
  BY DEF Notify
<1>5. last' = last \/ last' = [last EXCEPT ![job[w].attr] = job[w].whole]
  BY DEF Notify
<1> HIDE DEF rest
<1>6. job' \in [Writers -> JobType]
  BY <1>3, <1>4, NoJobType DEF TypeOK
<1>7. last' \in [Attrs -> Pieces]
  BY <1>1, <1>5 DEF TypeOK
<1> QED BY <1>2, <1>6, <1>7 DEF Notify, TypeOK, WriterType

(* Every step keeps the types.                                             *)
LEMMA NextType == TypeOK /\ [Next]_vars => TypeOK'
<1> SUFFICES ASSUME TypeOK, [Next]_vars PROVE TypeOK'
  OBVIOUS
<1>1. CASE hello_module_init \/ hello_module_exit
  BY <1>1 DEF TypeOK, hello_module_init, hello_module_exit, writing, reading
<1>2. ASSUME NEW w \in Writers, Write(w) \/ Store(w) PROVE TypeOK'
  <2>1. WriterType'
    BY <1>2, WriteType, StoreType, NotifyType DEF Store
  <2>2. UNCHANGED <<module, cpc, at, got>>
    BY <1>2 DEF Store, Write, EnterStore, Scan, Load, StoreBack, Notify, reading
  <2> QED BY <2>1, <2>2 DEF TypeOK, WriterType
<1>3. ASSUME NEW c \in Clients, Open(c) \/ Read(c) \/ show(c) PROVE TypeOK'
  BY <1>3 DEF TypeOK, Open, Read, show, ReadDone, writing, Attrs
<1>4. ASSUME NEW c \in Clients, Poll(c) \/ Woken(c) \/ PollTimeout(c) PROVE TypeOK'
  <2>1. CASE Exit(c)
    <3>1. [a \in Attrs |-> 0] \in [Attrs -> Nat]
      OBVIOUS
    <3> QED BY <2>1, <3>1 DEF TypeOK, Exit, writing
  <2>2. CASE ~Exit(c)
    BY <1>4, <2>2 DEF TypeOK, Poll, Woken, PollTimeout, writing
  <2> QED BY <2>1, <2>2
<1>5. CASE UNCHANGED vars
  BY <1>5 DEF TypeOK, vars, writing, reading
<1> QED BY <1>1, <1>2, <1>3, <1>4, <1>5 DEF Next, Client

(* Every variable of the pollable attributes keeps its type, whatever is   *)
(* written into them: what is left to write never gets below nothing.      *)
THEOREM SysfsTypeCorrect == Spec => []TypeOK
BY InitType, NextType, PTL DEF Spec

-----------------------------------------------------------------------------
(* What stays of a number.  A writer that has been the only one since it   *)
(* began is lone: its attribute has the last piece of its number from the  *)
(* moment that piece has been stored, and nobody else writes there.        *)
Lone(w) == ~Idle(w) /\ job[w].alone

Stored(w) ==
  /\ job[w].whole.digits > 0
  /\ \/ job[w].text.digits = 0
     \/ wpc[w] \in {"load", "store", "notify"} /\ job[w].text.digits <= 4

LastPiece(t) == t.number % Tens[LastDigits(t.digits)]

Own(w) ==
  /\ ~Idle(w) => Remains(job[w].whole, job[w].text)
  /\ Lone(w) /\ Stored(w) => value[job[w].attr] = LastPiece(job[w].whole)
  /\ Lone(w) /\ wpc[w] = "store" => job[w].loaded = value[job[w].attr]

Apart == \A w, v \in Writers : Lone(w) /\ v # w => ~Writing(v, job[w].attr)

Quiet == \A a \in Attrs : last[a].digits > 0 => \A w \in Writers : ~Writing(w, a)

Stays == \A a \in Attrs : last[a].digits > 0 => value[a] = LastPiece(last[a])

LastInv == TypeOK /\ (\A w \in Writers : Own(w)) /\ Apart /\ Quiet /\ Stays

(* Nobody has written anything.                                            *)
LEMMA InitLast == Init => LastInv
<1> SUFFICES ASSUME Init PROVE LastInv
  OBVIOUS
<1>1. \A w \in Writers : Idle(w)
  BY DEF Init, Idle
<1>2. \A a \in Attrs : last[a].digits = 0
  BY DEF Init, NoText
<1> QED BY <1>1, <1>2, InitType DEF LastInv, Own, Lone, Apart, Quiet, Stays, Writing

(* What concerns no writer and no value.                                   *)
LEMMA ElsewhereLast ==
  ASSUME LastInv, TypeOK', UNCHANGED <<value, writing, last>>
  PROVE  LastInv'
BY DEF LastInv, Own, Lone, Stored, Apart, Quiet, Stays, Writing, Idle, writing

(* A step of a writer that goes on, or gives up: only its own value may    *)
(* change, on which nobody else relies.                                    *)
LEMMA StepLast ==
  ASSUME LastInv, TypeOK', NEW w \in Writers, ~Idle(w), Own(w)', last' = last,
         \A v \in Writers \ {w} : job'[v] = job[v] /\ wpc'[v] = wpc[v],
         \A a \in Attrs \ {job[w].attr} : value'[a] = value[a],
         Idle(w)' \/ (job'[w].attr = job[w].attr /\ job'[w].alone = job[w].alone)
  PROVE  LastInv'
<1>1. \A v \in Writers : job[v].attr \in Attrs
  BY DEF LastInv, TypeOK, JobType
<1>2. ASSUME NEW v \in Writers \ {w}
      PROVE  Own(v)'
  <2>1. Lone(v) => value'[job[v].attr] = value[job[v].attr]
    BY <1>1 DEF LastInv, Apart, Writing
  <2> QED BY <2>1 DEF LastInv, Own, Lone, Stored, Idle
<1>3. Apart'
  BY DEF LastInv, Apart, Lone, Writing, Idle
<1>4. Quiet'
  BY DEF LastInv, Quiet, Writing, Idle
<1>5. \A a \in Attrs : last[a].digits > 0 => a # job[w].attr
  BY DEF LastInv, Quiet, Writing
<1>6. Stays'
  BY <1>5 DEF LastInv, Stays
<1> QED BY <1>2, <1>3, <1>4, <1>6 DEF LastInv

(* A write that begins ends the quiet of its attribute.                    *)
LEMMA WriteLast ==
  ASSUME LastInv, TypeOK', NEW w \in Writers, Write(w)
  PROVE  LastInv'
<1>1. PICK r \in Requests :
        /\ job' = [v \in Writers |->
             IF v = w THEN [NoJob EXCEPT !.attr = r[2], !.text = r[3], !.whole = r[3],
                              !.alone = \A u \in Writers \ {w} : ~Writing(u, r[2])]
             ELSE [job[v] EXCEPT !.alone = @ /\ job[v].attr # r[2]]]
        /\ last' = [last EXCEPT ![r[2]] = NoText]
  BY DEF Write
<1> DEFINE free == \A u \in Writers \ {w} : ~Writing(u, r[2])
<1>2. r[2] \in Attrs /\ r[3] \in Pieces /\ Remains(r[3], r[3])
  BY RequestsAssumption, WholeRemains
<1>3. Idle(w) /\ ~Idle(w)' /\ wpc'[w] = "enter" /\ value' = value
      /\ \A v \in Writers \ {w} : wpc'[v] = wpc[v]
  BY DEF Write, LastInv, TypeOK, Idle
<1>4. /\ job'[w].attr = r[2] /\ job'[w].text = r[3] /\ job'[w].whole = r[3]
      /\ job'[w].alone => free
  <2> HIDE DEF free
  <2> QED BY <1>1 DEF NoJob, free
<1>5. ASSUME NEW v \in Writers \ {w}
      PROVE  /\ job'[v].attr = job[v].attr /\ job'[v].text = job[v].text
             /\ job'[v].whole = job[v].whole /\ job'[v].loaded = job[v].loaded
             /\ job'[v].alone => job[v].alone /\ job[v].attr # r[2]
  <2> DEFINE x == job[v].alone /\ job[v].attr # r[2]
  <2>1. job'[v] = [job[v] EXCEPT !.alone = x] /\ job[v] \in JobType
    BY <1>1 DEF LastInv, TypeOK
  <2> HIDE DEF x
  <2>2. /\ job'[v].attr = job[v].attr /\ job'[v].text = job[v].text
        /\ job'[v].whole = job[v].whole /\ job'[v].loaded = job[v].loaded
        /\ job'[v].alone = x
    BY <2>1 DEF JobType
  <2> QED BY <2>2 DEF x
<1>6. Own(w)'
  BY <1>2, <1>3, <1>4 DEF Own, Stored, Pieces
<1>7. ASSUME NEW v \in Writers \ {w} PROVE Own(v)'
  BY <1>3, <1>5 DEF LastInv, Own, Lone, Stored, Idle
<1>8. Apart'
  <2> SUFFICES ASSUME NEW u \in Writers, NEW v \in Writers, Lone(u)', v # u
               PROVE  ~Writing(v, job[u].attr)'
    BY DEF Apart
  <2>1. CASE u = w
    <3>1. ~Writing(v, r[2])
      BY <1>4, <2>1 DEF Lone
    <3> QED BY <1>3, <1>4, <1>5, <2>1, <3>1 DEF Writing, Idle
  <2>2. CASE u # w
    <3>1. Lone(u) /\ job'[u].attr = job[u].attr /\ job[u].attr # r[2]
      BY <1>3, <1>5, <2>2 DEF Lone, Idle
    <3>2. CASE v = w
      BY <1>4, <3>1, <3>2 DEF Writing
    <3>3. CASE v # w
      BY <1>3, <1>5, <3>1, <3>3 DEF LastInv, Apart, Writing, Idle
    <3> QED BY <3>2, <3>3
  <2> QED BY <2>1, <2>2
<1>9. /\ last'[r[2]].digits = 0
      /\ \A a \in Attrs \ {r[2]} : last'[a] = last[a]
  BY <1>1, <1>2 DEF LastInv, TypeOK, NoText
<1>10. Quiet'
  <2> SUFFICES ASSUME NEW a \in Attrs, last'[a].digits > 0, NEW v \in Writers
               PROVE  ~Writing(v, a)'
    BY DEF Quiet
  <2>1. a # r[2] /\ last[a].digits > 0
    BY <1>9
  <2>2. ~Writing(v, a)
    BY <2>1 DEF LastInv, Quiet
  <2> QED BY <1>3, <1>4, <1>5, <2>1, <2>2 DEF Writing, Idle
<1>11. Stays'
  BY <1>3, <1>9 DEF LastInv, Stays
<1> QED BY <1>6, <1>7, <1>8, <1>10, <1>11 DEF LastInv

(* The entry into store keeps what is left of the text.                    *)
LEMMA EnterLast ==
  ASSUME LastInv, TypeOK', NEW w \in Writers, EnterStore(w)
  PROVE  LastInv'
<1>1. ~Idle(w) /\ value' = value /\ last' = last
  BY DEF EnterStore, Idle
<1>2. \A v \in Writers \ {w} : job'[v] = job[v] /\ wpc'[v] = wpc[v]
  BY DEF EnterStore, LastInv, TypeOK
<1>3. Idle(w)' \/ (job'[w] = job[w] /\ wpc'[w] = "scan")
  BY DEF EnterStore, LastInv, TypeOK, Idle
<1>4. Own(w)'
  BY <1>1, <1>3 DEF LastInv, Own, Lone, Stored, Idle
<1> QED BY <1>1, <1>2, <1>3, <1>4, StepLast

(* The piece that is stored is the last one when it has up to four digits. *)
LEMMA ScanLast ==
  ASSUME LastInv, TypeOK', NEW w \in Writers, Scan(w)
  PROVE  LastInv'
<1> DEFINE j == job[w]
<1>1. /\ ~Idle(w) /\ job' = job /\ last' = last /\ wpc'[w] = "load"
      /\ \A v \in Writers \ {w} : wpc'[v] = wpc[v]
  BY DEF Scan, Idle, LastInv, TypeOK
<1>2. j.attr \in Attrs /\ j.text \in Pieces /\ j.whole \in Pieces /\ Remains(j.whole, j.text)
  BY <1>1 DEF LastInv, TypeOK, JobType, Own
<1>3. \A a \in Attrs \ {j.attr} : value'[a] = value[a]
  BY DEF Scan, LastInv, TypeOK
<1>4. Own(w)'
  <2>1. CASE j.text.digits = 0
    BY <1>1, <2>1 DEF Scan, LastInv, Own, Lone, Stored, Idle
  <2>2. CASE j.text.digits # 0
    <3>1. value'[j.attr] = j.text.number
      BY <1>2, <2>2 DEF Scan, LastInv, TypeOK
    <3>2. j.text.digits <= 4 => LastDigits(j.whole.digits) = j.text.digits
      BY <1>2, <2>2 DEF Remains, LastDigits, Pieces
    <3>3. j.text.digits <= 4 => value'[j.attr] = LastPiece(j.whole)
      BY <1>2, <3>1, <3>2 DEF Remains, LastPiece
    <3> QED BY <1>1, <1>2, <2>2, <3>3 DEF Own, Lone, Stored, Idle
  <2> QED BY <2>1, <2>2
<1> QED BY <1>1, <1>3, <1>4, StepLast

(* The load for the store back reads the attribute as it is.               *)
LEMMA LoadLast ==
  ASSUME LastInv, TypeOK', NEW w \in Writers, Load(w)
  PROVE  LastInv'
<1>1. /\ ~Idle(w) /\ value' = value /\ last' = last /\ wpc[w] = "load"
      /\ \A v \in Writers \ {w} : job'[v] = job[v] /\ wpc'[v] = wpc[v]
  BY DEF Load, Idle, LastInv, TypeOK
<1>2. /\ job'[w].attr = job[w].attr /\ job'[w].alone = job[w].alone
      /\ job'[w].text = job[w].text /\ job'[w].whole = job[w].whole
      /\ wpc'[w] = "store" => job'[w].loaded = value[job[w].attr]
      /\ wpc'[w] \in {"store", "notify"}
  BY DEF Load, LastInv, TypeOK, JobType
<1>3. Own(w)'
  BY <1>1, <1>2 DEF LastInv, Own, Lone, Stored, Idle
<1> QED BY <1>1, <1>2, <1>3, StepLast

(* A lone writer stores back what is there.                                *)
LEMMA StoreBackLast ==
  ASSUME LastInv, TypeOK', NEW w \in Writers, StoreBack(w)
  PROVE  LastInv'
<1>1. /\ ~Idle(w) /\ job' = job /\ last' = last /\ wpc[w] = "store" /\ wpc'[w] = "notify"
      /\ \A v \in Writers \ {w} : wpc'[v] = wpc[v]
  BY DEF StoreBack, Idle, LastInv, TypeOK
<1>2. /\ \A a \in Attrs \ {job[w].attr} : value'[a] = value[a]
      /\ value'[job[w].attr] = job[w].loaded
  BY DEF StoreBack, LastInv, TypeOK, JobType
<1>3. Own(w)'
  BY <1>1, <1>2 DEF LastInv, Own, Lone, Stored, Idle
<1> QED BY <1>1, <1>2, <1>3, StepLast

(* The notification ends a piece: what is left has the same last piece,    *)
(* or the last piece has been stored.                                      *)
LEMMA NotifyLast ==
  ASSUME LastInv, TypeOK', NEW w \in Writers, Notify(w)
  PROVE  LastInv'
<1> DEFINE j == job[w]
           rest == Rest(j.text)
<1>1. ~Idle(w) /\ wpc[w] = "notify" /\ value' = value
      /\ \A v \in Writers \ {w} : job'[v] = job[v] /\ wpc'[v] = wpc[v]
  BY DEF Notify, Idle, LastInv, TypeOK
<1>2. /\ j \in JobType /\ j.attr \in Attrs /\ j.text \in Pieces /\ j.whole \in Pieces
      /\ Remains(j.whole, j.text)
  BY <1>1 DEF LastInv, TypeOK, JobType, Own
<1>3. rest.chars > 0 <=> j.text.chars > 4
  BY <1>2 DEF Rest, Pieces, NoText
<1>4. CASE rest.chars > 0
  <2>1. /\ last' = last /\ wpc'[w] = "enter" /\ job'[w] = [j EXCEPT !.text = rest]
    BY <1>4 DEF Notify, LastInv, TypeOK
  <2>2. Remains(j.whole, rest)
    BY <1>2, <1>3, <1>4, RestRemains
  <2>3. rest.digits = 0 => j.text.digits <= 4
    BY <1>2, <1>3, <1>4 DEF Rest, Pieces
  <2> HIDE DEF rest
  <2>4. /\ job'[w].attr = j.attr /\ job'[w].alone = j.alone
        /\ job'[w].text = rest /\ job'[w].whole = j.whole
    BY <1>2, <2>1 DEF JobType
  <2>5. Own(w)'
    BY <1>1, <2>1, <2>2, <2>3, <2>4 DEF LastInv, Own, Lone, Stored, Idle
  <2> QED BY <1>1, <2>1, <2>4, <2>5, StepLast
<1>5. CASE ~(rest.chars > 0)
  <2>1. /\ wpc'[w] = "idle" /\ job'[w] = NoJob
        /\ last' = IF j.alone THEN [last EXCEPT ![j.attr] = j.whole] ELSE last
    BY <1>5 DEF Notify, LastInv, TypeOK
  <2>2. Idle(w)' /\ Own(w)'
    BY <2>1 DEF Own, Lone, Idle
  <2>3. CASE ~j.alone
    BY <1>1, <2>1, <2>2, <2>3, StepLast
  <2>4. CASE j.alone
    <3>1. /\ last'[j.attr] = j.whole
          /\ \A a \in Attrs \ {j.attr} : last'[a] = last[a]
      BY <1>2, <2>1, <2>4 DEF LastInv, TypeOK
    <3>2. Lone(w) /\ \A v \in Writers \ {w} : ~Writing(v, j.attr)
      BY <1>1, <2>4 DEF LastInv, Apart, Lone
    <3>3. j.whole.digits > 0 => value[j.attr] = LastPiece(j.whole)
      <4>1. j.text.digits <= 4
        BY <1>2, <1>3, <1>5 DEF Remains, Pieces
      <4> QED BY <1>1, <3>2, <4>1 DEF LastInv, Own, Stored
    <3>4. Quiet'
      BY <1>1, <2>1, <3>1, <3>2 DEF LastInv, Quiet, Writing, Idle
    <3>5. Stays'
      BY <1>1, <3>1, <3>3 DEF LastInv, Stays
    <3>6. Apart'
      BY <1>1, <2>1 DEF LastInv, Apart, Lone, Writing, Idle
    <3>7. ASSUME NEW v \in Writers \ {w} PROVE Own(v)'
      BY <1>1 DEF LastInv, Own, Lone, Stored, Idle
    <3> QED BY <2>2, <3>4, <3>5, <3>6, <3>7 DEF LastInv
  <2> QED BY <2>3, <2>4
<1> QED BY <1>4, <1>5

(* Every step keeps the invariant.                                         *)
LEMMA NextLast == LastInv /\ [Next]_vars => LastInv'
<1> SUFFICES ASSUME LastInv, [Next]_vars PROVE LastInv'
  OBVIOUS
<1>1. TypeOK'
  BY NextType DEF LastInv
<1>2. CASE hello_module_init \/ hello_module_exit
  BY <1>1, <1>2, ElsewhereLast DEF hello_module_init, hello_module_exit
<1>3. ASSUME NEW w \in Writers, Write(w) \/ Store(w) PROVE LastInv'
  BY <1>1, <1>3, WriteLast, EnterLast, ScanLast, LoadLast, StoreBackLast, NotifyLast
  DEF Store
<1>4. ASSUME NEW c \in Clients, Open(c) \/ Client(c) \/ PollTimeout(c) PROVE LastInv'
  <2>1. UNCHANGED <<value, writing, last>>
    BY <1>4 DEF Client, Open, Read, show, Poll, Woken, PollTimeout, Exit
  <2> QED BY <1>1, <2>1, ElsewhereLast
<1>5. CASE UNCHANGED vars
  BY <1>1, <1>5, ElsewhereLast DEF vars
<1> QED BY <1>2, <1>3, <1>4, <1>5 DEF Next

(* A number has no more than its digits.                                   *)
Fits(t) == t.number < Tens[t.digits]

FitsInv ==
  /\ \A w \in Writers : Fits(job[w].whole)
  /\ \A a \in Attrs : Fits(last[a])

(* No text fits.                                                           *)
LEMMA NoTextFits == Fits(NoText)
BY TensDefined DEF Fits, NoText

(* Whatever is written is, and keeps being, a number of its digits.        *)
LEMMA NextFits == TypeOK /\ FitsInv /\ [Next]_vars => FitsInv'
<1> SUFFICES ASSUME TypeOK, FitsInv, [Next]_vars PROVE FitsInv'
  OBVIOUS
<1>0. /\ job \in [Writers -> JobType] /\ last \in [Attrs -> Pieces]
      /\ NoJob.whole = NoText
  BY DEF TypeOK, NoJob
<1>1. ASSUME UNCHANGED <<job, last>> PROVE FitsInv'
  BY <1>1 DEF FitsInv
<1>2. ASSUME NEW w \in Writers, last' = last, NEW j, job' = [job EXCEPT ![w] = j],
             j.whole = job[w].whole \/ j.whole = NoText
      PROVE  FitsInv'
  BY <1>0, <1>2, NoTextFits DEF FitsInv
<1>3. ASSUME NEW w \in Writers, Write(w) PROVE FitsInv'
  <2>1. PICK r \in Requests :
          /\ job' = [v \in Writers |->
               IF v = w THEN [NoJob EXCEPT !.attr = r[2], !.text = r[3], !.whole = r[3],
                                !.alone = \A u \in Writers \ {w} : ~Writing(u, r[2])]
               ELSE [job[v] EXCEPT !.alone = @ /\ job[v].attr # r[2]]]
          /\ last' = [last EXCEPT ![r[2]] = NoText]
    BY <1>3 DEF Write
  <2>2. Fits(r[3])
    BY RequestsAssumption DEF Fits
  <2>3. job'[w].whole = r[3]
    BY <2>1 DEF NoJob
  <2>4. ASSUME NEW v \in Writers \ {w} PROVE job'[v].whole = job[v].whole
    <3> DEFINE x == job[v].alone /\ job[v].attr # r[2]
    <3>1. job'[v] = [job[v] EXCEPT !.alone = x] /\ job[v] \in JobType
      BY <1>0, <2>1
    <3> HIDE DEF x
    <3> QED BY <3>1 DEF JobType
  <2>5. \A a \in Attrs : last'[a] = last[a] \/ last'[a] = NoText
    BY <1>0, <2>1
  <2> QED BY <2>2, <2>3, <2>4, <2>5, NoTextFits DEF FitsInv
<1>4. ASSUME NEW w \in Writers, EnterStore(w) PROVE FitsInv'
  BY <1>0, <1>1, <1>2, <1>4 DEF EnterStore
<1>5. ASSUME NEW w \in Writers, Scan(w) \/ StoreBack(w) PROVE FitsInv'
  BY <1>1, <1>5 DEF Scan, StoreBack
<1>6. ASSUME NEW w \in Writers, Load(w) PROVE FitsInv'
  <2> DEFINE j == [job[w] EXCEPT !.loaded = value[job[w].attr]]
  <2>1. last' = last /\ (job' = job \/ job' = [job EXCEPT ![w] = j])
    BY <1>6 DEF Load
  <2>2. j.whole = job[w].whole
    BY <1>0 DEF JobType
  <2> HIDE DEF j
  <2> QED BY <1>1, <1>2, <2>1, <2>2
<1>7. ASSUME NEW w \in Writers, Notify(w) PROVE FitsInv'
  <2> DEFINE j == [job[w] EXCEPT !.text = Rest(job[w].text)]
  <2>1. \/ last' = last /\ job' = [job EXCEPT ![w] = j]
        \/ job' = [job EXCEPT ![w] = NoJob]
    BY <1>7 DEF Notify
  <2>2. CASE last' = last /\ job' = [job EXCEPT ![w] = j]
    <3>1. j.whole = job[w].whole
      BY <1>0 DEF JobType
    <3> HIDE DEF j
    <3> QED BY <1>2, <2>2, <3>1
  <2>3. CASE job' = [job EXCEPT ![w] = NoJob]
    <3>1. \A a \in Attrs : last'[a] = last[a] \/ last'[a] = job[w].whole
      BY <1>0, <1>7 DEF Notify
    <3>2. \A v \in Writers : job'[v].whole = job[v].whole \/ job'[v].whole = NoText
      BY <1>0, <2>3
    <3> QED BY <3>1, <3>2, NoTextFits DEF FitsInv
  <2> QED BY <2>1, <2>2, <2>3
<1>8. ASSUME NEW c \in Clients, Open(c) \/ Client(c) \/ PollTimeout(c) PROVE FitsInv'
  <2>1. UNCHANGED <<job, last>>
    BY <1>8 DEF Client, Open, Read, show, Poll, Woken, PollTimeout, Exit, writing
  <2> QED BY <1>1, <2>1
<1>9. CASE hello_module_init \/ hello_module_exit \/ UNCHANGED vars
  BY <1>1, <1>9 DEF hello_module_init, hello_module_exit, vars, writing
<1> QED BY <1>3, <1>4, <1>5, <1>6, <1>7, <1>8, <1>9 DEF Next, Store

(* A number of up to four digits that nobody else has written over while   *)
(* it was being written stays: the line end is stored as a text of its     *)
(* own, which leaves the number alone.  This is so for any number of       *)
(* writers and requests, and for a module that goes away in between.       *)
THEOREM ShortNumberCorrect == Spec => []ShortNumberStays
<1>1. LastInv /\ FitsInv => ShortNumberStays
  <2> SUFFICES ASSUME LastInv, FitsInv, NEW a \in Attrs, last[a].digits \in 1 .. 4
               PROVE  value[a] = last[a].number
    BY DEF ShortNumberStays
  <2> DEFINE n == last[a].number
             d == Tens[last[a].digits]
  <2>1. value[a] = LastPiece(last[a]) /\ last[a] \in Pieces
    BY DEF LastInv, Stays, TypeOK
  <2>2. LastDigits(last[a].digits) = last[a].digits
    BY DEF LastDigits
  <2>3. value[a] = n % d
    BY <2>1, <2>2 DEF LastPiece
  <2>4. n \in Nat /\ d \in Nat \ {0} /\ n < d
    BY <2>1, TensPositive DEF FitsInv, Fits, Pieces
  <2> HIDE DEF n, d
  <2>5. n % d = n
    BY <2>4
  <2> QED BY <2>3, <2>5 DEF n
<1>2. Init => FitsInv
  BY NoTextFits DEF Init, FitsInv, NoJob
<1>3. Spec => []TypeOK
  BY SysfsTypeCorrect
<1> QED BY <1>1, <1>2, <1>3, NextFits, InitLast, NextLast, PTL DEF Spec

=============================================================================
