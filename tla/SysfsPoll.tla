------------------------------ MODULE SysfsPoll ------------------------------
(***************************************************************************)
(* Pollable sysfs attributes (Chapter13/sysfs-poll): the attributes notify *)
(* and trigger of sysfs-poll.c, processes that write into them, and the    *)
(* clients sysfs-poll-user.c and sysfs-select-user.c, which read both and  *)
(* then sleep until one changes.                                           *)
(*                                                                         *)
(* store takes no lock, and sysfs serialises only the calls on one open    *)
(* file, so stores of two writers interleave.  store says that it has      *)
(* taken four bytes whatever it was given; the C library of the writer     *)
(* then writes the rest of the text, which store takes for a text of its   *)
(* own.                                                                    *)
(***************************************************************************)
EXTENDS Integers

CONSTANTS
  Writers,   (* Processes that write, each through its own open file.      *)
  Clients,   (* Processes that poll or select.                             *)
  Requests   (* Bound: what they write, <<writer, attribute, text>>.       *)

Attrs == {"notify", "trigger"}

(* The powers of ten: a number of k digits is below Tens[k].               *)
Tens[k \in Nat] == IF k = 0 THEN 1 ELSE 10 * Tens[k - 1]

(* A text is as many characters, of which the first digits are the decimal *)
(* number; in a word there is none, and a line end follows the number.     *)
Pieces == [digits : Nat, chars : Nat, number : Nat]

ASSUME RequestsAssumption ==
  \A r \in Requests :
    /\ r[1] \in Writers /\ r[2] \in Attrs /\ r[3] \in Pieces
    /\ r[3].number < Tens[r[3].digits]
    /\ r[3].chars > r[3].digits

VARIABLES
  module,    (* Where the module is in its life.                           *)
  value,     (* notify.value and trigger.value.                            *)
  wpc, job,  (* Where each write is: the attribute, what is left to write, *)
             (* and da->value, loaded.                                     *)
  cpc, at,   (* Where each client is, and which attribute it reads.        *)
  news,      (* Per client: the attributes that its poll would report.     *)
  got,       (* Per client: the values it has read.                        *)
  last       (* History: per attribute the last text written to the end    *)
             (* while nobody else was writing, or none.                    *)

writing == <<wpc, job>>
reading == <<cpc, at, got>>
vars == <<module, value, writing, reading, news, last>>

NoText == [digits |-> 0, chars |-> 0, number |-> 0]
NoJob == [attr |-> "notify", text |-> NoText, whole |-> NoText, alone |-> FALSE,
          loaded |-> 0]

Idle(w) == wpc[w] = "idle"
InStore(w) == wpc[w] \in {"scan", "load", "store", "notify"}
InShow(c) == cpc[c] = "show"
Writing(w, a) == ~Idle(w) /\ job[w].attr = a

-----------------------------------------------------------------------------
(* The module.                                                             *)

(* init returns 0 even when kobject_add has failed: the module is there    *)
(* without its attributes.                                                 *)
hello_module_init ==
  /\ module = "new"
  /\ module' \in {"loaded", "empty", "refused"}
  /\ UNCHANGED <<value, writing, reading, news, last>>

(* kobject_put removes the attributes, and waits for what runs in them.    *)
hello_module_exit ==
  /\ module = "loaded"
  /\ \A w \in Writers : ~InStore(w)
  /\ \A c \in Clients : ~InShow(c)
  /\ module' = "gone"
  /\ UNCHANGED <<value, writing, reading, news, last>>

-----------------------------------------------------------------------------
(* Writers.                                                                *)

(* open and write.  History: whether anybody else writes the attribute.    *)
Write(w) ==
  /\ Idle(w) /\ module = "loaded"
  /\ \E r \in {x \in Requests : x[1] = w} :
       LET a == r[2]
           t == r[3] IN
       /\ job' = [v \in Writers |->
            IF v = w THEN [NoJob EXCEPT !.attr = a, !.text = t, !.whole = t,
                             !.alone = \A u \in Writers \ {w} : ~Writing(u, a)]
            ELSE [job[v] EXCEPT !.alone = @ /\ job[v].attr # a]]
       /\ last' = [last EXCEPT ![a] = NoText]
  /\ wpc' = [wpc EXCEPT ![w] = "enter"]
  /\ UNCHANGED <<module, value, reading, news>>

(* sysfs calls store; on a removed attribute, the write is refused.        *)
EnterStore(w) ==
  /\ wpc[w] = "enter"
  /\ IF module = "loaded"
     THEN wpc' = [wpc EXCEPT ![w] = "scan"] /\ UNCHANGED job
     ELSE wpc' = [wpc EXCEPT ![w] = "idle"] /\ job' = [job EXCEPT ![w] = NoJob]
  /\ UNCHANGED <<module, value, reading, news, last>>

(* Mutant: simple_strtol makes 0 of a text in which there is no number.    *)
ScanAnything(w) ==
  LET j == job[w]
  IN  /\ wpc[w] = "scan"
      /\ value' = [value EXCEPT ![j.attr] = j.text.number]
      /\ wpc' = [wpc EXCEPT ![w] = "load"]
      /\ UNCHANGED <<module, job, reading, news, last>>

(* sscanf changes nothing when there is no number to read.                 *)
Scan(w) ==
  LET j == job[w]
  IN  /\ wpc[w] = "scan"
      /\ value' = IF j.text.digits = 0 THEN value
                  ELSE [value EXCEPT ![j.attr] = j.text.number]
      /\ wpc' = [wpc EXCEPT ![w] = "load"]
      /\ UNCHANGED <<module, job, reading, news, last>>

(* notify.value = da->value, where da is &notify: a load and a store of    *)
(* one variable, or nothing if the compiler sees it.                       *)
Load(w) ==
  /\ wpc[w] = "load"
  /\ \/ /\ job' = [job EXCEPT ![w].loaded = value[job[w].attr]]
        /\ wpc' = [wpc EXCEPT ![w] = "store"]
     \/ wpc' = [wpc EXCEPT ![w] = "notify"] /\ UNCHANGED job
  /\ UNCHANGED <<module, value, reading, news, last>>

StoreBack(w) ==
  /\ wpc[w] = "store"
  /\ value' = [value EXCEPT ![job[w].attr] = job[w].loaded]
  /\ wpc' = [wpc EXCEPT ![w] = "notify"]
  /\ UNCHANGED <<module, job, reading, news, last>>

NewsOf(attrs) ==
  [c \in Clients |-> IF cpc[c] = "closed" THEN {} ELSE news[c] \union attrs]

(* Mutants: only numbers are news; both attributes notify as "notify"; the *)
(* name of the directory is given for that of the attribute.               *)
NewsOfNumbers(j) == NewsOf(IF j.text.digits > 0 THEN {j.attr} ELSE {})
NewsOfNotify(j) == NewsOf({"notify"})
NewsOfHello(j) == NewsOf({"hello"})

(* sysfs_notify: whoever has the attribute open will find it changed.      *)
News(j) == NewsOf({j.attr})

(* What is left to write after store has returned sizeof(int).             *)
Rest(t) ==
  IF t.chars <= 4 THEN NoText
  ELSE LET digits == IF t.digits > 4 THEN t.digits - 4 ELSE 0
       IN  [digits |-> digits, chars |-> t.chars - 4,
            number |-> t.number % Tens[digits]]

(* sysfs_notify, and the return from store: the C library goes on.         *)
Notify(w) ==
  LET j == job[w]
      rest == Rest(j.text)
  IN  /\ wpc[w] = "notify"
      /\ news' = News(j)
      /\ IF rest.chars > 0
         THEN /\ job' = [job EXCEPT ![w].text = rest]
              /\ wpc' = [wpc EXCEPT ![w] = "enter"]
              /\ UNCHANGED last
         ELSE /\ job' = [job EXCEPT ![w] = NoJob]
              /\ wpc' = [wpc EXCEPT ![w] = "idle"]
              /\ last' = IF j.alone THEN [last EXCEPT ![j.attr] = j.whole] ELSE last
      /\ UNCHANGED <<module, value, reading>>

-----------------------------------------------------------------------------
(* Clients.                                                                *)

(* A file that has not been read yet has news.                             *)
Open(c) ==
  /\ cpc[c] = "closed" /\ module = "loaded"
  /\ news' = [news EXCEPT ![c] = Attrs]
  /\ cpc' = [cpc EXCEPT ![c] = "read"]
  /\ at' = [at EXCEPT ![c] = "notify"]
  /\ UNCHANGED <<module, value, writing, got, last>>

ReadDone(c) ==
  IF at[c] = "notify"
  THEN cpc' = [cpc EXCEPT ![c] = "read"] /\ at' = [at EXCEPT ![c] = "trigger"]
  ELSE cpc' = [cpc EXCEPT ![c] = "poll"] /\ UNCHANGED at

(* read: sysfs notes that the news have been seen, and then calls show.    *)
Read(c) ==
  /\ cpc[c] = "read"
  /\ IF module = "loaded"
     THEN /\ news' = [news EXCEPT ![c] = @ \ {at[c]}]
          /\ cpc' = [cpc EXCEPT ![c] = "show"]
          /\ UNCHANGED at
     ELSE ReadDone(c) /\ UNCHANGED news
  /\ UNCHANGED <<module, value, writing, got, last>>

show(c) ==
  /\ cpc[c] = "show"
  /\ got' = [got EXCEPT ![c][at[c]] = value[at[c]]]
  /\ ReadDone(c)
  /\ UNCHANGED <<module, value, writing, news, last>>

(* The client ends.                                                        *)
Exit(c) ==
  /\ cpc' = [cpc EXCEPT ![c] = "closed"]
  /\ got' = [got EXCEPT ![c] = [a \in Attrs |-> 0]]
  /\ news' = [news EXCEPT ![c] = {}]
  /\ UNCHANGED <<module, value, writing, at, last>>

(* poll returns at once for news or for an attribute that has gone, and    *)
(* sleeps otherwise; the removal of an attribute wakes nobody.             *)
Poll(c) ==
  /\ cpc[c] = "poll"
  /\ IF news[c] # {} \/ module = "gone" THEN Exit(c)
     ELSE /\ cpc' = [cpc EXCEPT ![c] = "asleep"]
          /\ UNCHANGED <<module, value, writing, at, got, news, last>>

Woken(c) == cpc[c] = "asleep" /\ news[c] # {} /\ Exit(c)

(* poll, but not select, gives up after a while.                           *)
PollTimeout(c) == cpc[c] = "asleep" /\ Exit(c)

-----------------------------------------------------------------------------
Init ==
  /\ module = "new"
  /\ value = [a \in Attrs |-> 0]
  /\ wpc = [w \in Writers |-> "idle"] /\ job = [w \in Writers |-> NoJob]
  /\ cpc = [c \in Clients |-> "closed"] /\ at = [c \in Clients |-> "notify"]
  /\ news = [c \in Clients |-> {}]
  /\ got = [c \in Clients |-> [a \in Attrs |-> 0]]
  /\ last = [a \in Attrs |-> NoText]

Store(w) == EnterStore(w) \/ Scan(w) \/ Load(w) \/ StoreBack(w) \/ Notify(w)

Client(c) == Read(c) \/ show(c) \/ Poll(c) \/ Woken(c)

Next ==
  \/ hello_module_init \/ hello_module_exit
  \/ \E w \in Writers : Write(w) \/ Store(w)
  \/ \E c \in Clients : Open(c) \/ Client(c) \/ PollTimeout(c)

Spec == Init /\ [][Next]_vars

(* Processes run.  Nobody has to write, and a timeout may never come.      *)
FairSpec ==
  /\ Spec
  /\ \A w \in Writers : WF_vars(Store(w))
  /\ \A c \in Clients : WF_vars(Client(c))

-----------------------------------------------------------------------------
JobType == [attr : Attrs, text : Pieces, whole : Pieces, alone : BOOLEAN, loaded : Nat]

(* Every variable keeps its type; what is left to write never gets below   *)
(* nothing.                                                                *)
TypeOK ==
  /\ module \in {"new", "loaded", "empty", "refused", "gone"}
  /\ value \in [Attrs -> Nat]
  /\ wpc \in [Writers -> {"idle", "enter", "scan", "load", "store", "notify"}]
  /\ job \in [Writers -> JobType]
  /\ cpc \in [Clients -> {"closed", "read", "show", "poll", "asleep"}]
  /\ at \in [Clients -> Attrs]
  /\ news \in [Clients -> SUBSET Attrs]
  /\ got \in [Clients -> [Attrs -> Nat]]
  /\ last \in [Attrs -> Pieces]

(* A client never sleeps on stale values: when an attribute is no longer   *)
(* what it has read, its poll will report it, or a store that has yet to   *)
(* notify is under way, however stores interleave with its reads and with  *)
(* each other.                                                             *)
NoStaleSleep ==
  \A c \in Clients, a \in Attrs :
    (cpc[c] = "asleep" /\ value[a] # got[c][a]) =>
      \/ a \in news[c]
      \/ \E w \in Writers : wpc[w] \in {"load", "store", "notify"} /\ job[w].attr = a

(* A number of up to four digits that nobody else has overwritten is what  *)
(* the attribute holds, although store never takes more than four bytes of *)
(* it: the line end left over is stored as a text of its own, and notified *)
(* a second time.  (A longer number does not stay: its last piece does.)   *)
ShortNumberStays ==
  \A a \in Attrs : last[a].digits \in 1 .. 4 => value[a] = last[a].number

(* "The app wainting will then print something" (README.md, line 42): a    *)
(* client that sleeps is woken by anything that is written, a word, too.   *)
WriteWakes ==
  \A c \in Clients, w \in Writers :
    (cpc[c] = "asleep" /\ wpc[w] = "scan") ~> (cpc[c] # "asleep")

=============================================================================
