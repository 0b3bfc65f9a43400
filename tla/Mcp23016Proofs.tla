--------------------------- MODULE Mcp23016Proofs ---------------------------
(***************************************************************************)
(* Proofs about Mcp23016, for every set of consumers, of requests and of   *)
(* error numbers: the unlocked read-modify-write harms the racing pins and *)
(* no others.                                                              *)
(***************************************************************************)
EXTENDS Mcp23016, TLAPS

DirectionKept(q, register) ==
  /\ promise[q].direction = "in" => bit(q) \in register
  /\ promise[q].direction = "out" => bit(q) \notin register

ValueKept(q, register) ==
  /\ promise[q].value = "high" => bit(q) \in register
  /\ promise[q].value = "low" => bit(q) \notin register

(* No call is changing the direction of q.                                 *)
Steady(q) == ~Changing(q) \/ call[q].op = "set"

OpsFit ==
  \A p \in Consumers :
    /\ pc[p] \in {"dir_read", "dir_write"} => call[p].op \in {"input", "output"}
    /\ pc[p] \in {"set_read", "set_write"} => call[p].op \in {"set", "output"}

(* Calls that overlap know it.                                             *)
Overlaps ==
  \A p \in Consumers : \A q \in Neighbours(p) :
    Changing(p) /\ Changing(q) => ~call[p].alone

(* The registers keep what has been promised ...                           *)
DirectionsHold == \A q \in Consumers : Steady(q) => DirectionKept(q, iodir[bank(q)])
ValuesHold == \A q \in Consumers : ~Changing(q) => ValueKept(q, olat[bank(q)])

(* ... to outputs alone, as far as values go ...                           *)
ValuesOfOutputs ==
  \A q \in Consumers : promise[q].value # "unknown" => promise[q].direction = "out"

(* ... and so does what a call is about to write.                          *)
DirectionsInHand ==
  \A p \in Consumers : pc[p] = "dir_write" /\ call[p].sound =>
    \A q \in Neighbours(p) : Steady(q) => DirectionKept(q, call[p].value)
ValuesInHand ==
  \A p \in Consumers : pc[p] = "set_write" =>
    \A q \in Neighbours(p) : ~Changing(q) => ValueKept(q, call[p].value)

(* The call's own pin.                                                     *)
OwnPin ==
  \A p \in Consumers :
    /\ pc[p] = "dir_write" => (bit(p) \in call[p].value <=> call[p].op = "input")
    /\ pc[p] = "set_write" => (bit(p) \in call[p].value <=> call[p].on)
    /\ (pc[p] \in {"set_read", "set_write"} /\ call[p].op = "output"
          /\ call[p].sound /\ call[p].alone) => bit(p) \notin iodir[bank(p)]

Inv ==
  /\ TypeOK /\ OpsFit /\ Overlaps
  /\ DirectionsHold /\ ValuesHold /\ ValuesOfOutputs
  /\ DirectionsInHand /\ ValuesInHand /\ OwnPin

-----------------------------------------------------------------------------
(* Two pins of a bank have different bits.                                 *)
LEMMA PinBits ==
  /\ \A p \in Consumers : p \in Pins /\ bank(p) \in Banks /\ bit(p) \in Bits
  /\ \A p \in Consumers : \A q \in Neighbours(p) : q \in Consumers /\ bit(q) # bit(p)
BY PinsAssumption DEF bank, bit, Banks, Bits, Pins, Neighbours

(* The invariant, initially: no call is under way.                         *)
LEMMA InitInv ==
  ASSUME Init
  PROVE  Inv
<1>1. TypeOK
  BY DEF Init, TypeOK, Registers, CallType, NoCall, Promises
<1> QED
  BY <1>1, PinBits
  DEF Init, Inv, OpsFit, Overlaps, DirectionsHold, ValuesHold, ValuesOfOutputs,
      DirectionsInHand, ValuesInHand, OwnPin, DirectionKept, ValueKept, Changing

(* A call that begins changes no register, and it and the calls it         *)
(* overlaps know of each other.                                            *)
LEMMA BeginKeeps ==
  ASSUME Inv, NEW p \in Consumers, NEW on \in BOOLEAN,
         NEW op \in {"set", "output", "input"}, NEW l \in {"set_read", "dir_read"},
         l = "set_read" <=> op = "set", Begin(p, op, on, l)
  PROVE  Inv'
<1>1. /\ pc[p] = "idle"
      /\ \A q \in Consumers : pc'[q] = IF q = p THEN l ELSE pc[q]
      /\ pc' \in [Consumers -> {"idle", "dir_read", "dir_write", "set_read", "set_write"}]
      /\ DOMAIN call' = Consumers /\ call' = [q \in Consumers |-> call'[q]]
      /\ \A q \in Consumers \ {p} :
           call'[q] = IF Overtaken(q, p) THEN [call[q] EXCEPT !.alone = FALSE] ELSE call[q]
      /\ call'[p] = [NoCall EXCEPT !.op = op, !.on = on, !.alone = Undisturbed(p)]
      /\ UNCHANGED <<chip, promise>>
  BY DEF Begin, Goto, Inv, TypeOK
<1>a. Undisturbed(p) \in BOOLEAN
  BY DEF Undisturbed
<1>2. call'[p] = [op |-> op, on |-> on, value |-> {}, alone |-> Undisturbed(p), sound |-> TRUE]
  BY <1>1 DEF NoCall
<1>b. call'[p] \in CallType
  BY <1>2, <1>a DEF CallType
<1>3. ASSUME NEW q \in Consumers \ {p}
      PROVE  /\ call'[q] \in CallType
             /\ call'[q].op = call[q].op /\ call'[q].on = call[q].on
             /\ call'[q].value = call[q].value /\ call'[q].sound = call[q].sound
             /\ call'[q].alone => call[q].alone
             /\ Overtaken(q, p) => ~call'[q].alone
  <2>1. call[q] \in CallType
    BY DEF Inv, TypeOK
  <2>2. CASE Overtaken(q, p)
    <3>1. call'[q] = [call[q] EXCEPT !.alone = FALSE]
      BY <1>1, <2>2
    <3> QED
      BY <2>1, <2>2, <3>1 DEF CallType
  <2>3. CASE ~Overtaken(q, p)
    BY <1>1, <2>1, <2>3
  <2> QED
    BY <2>2, <2>3
<1>c. TypeOK'
  <2>1. call' \in [Consumers -> CallType]
    BY <1>1, <1>b, <1>3
  <2> QED
    BY <1>1, <2>1 DEF Inv, TypeOK, chip
<1>4. \A q \in Consumers : Neighbours(q)' = Neighbours(q) /\ (Changing(q)' <=> (q = p \/ Changing(q)))
  BY <1>1 DEF Neighbours, Changing
<1>5. \A q \in Consumers : Steady(q)' => Steady(q)
  BY <1>1, <1>3, <1>4 DEF Steady, Changing
<1>6. OpsFit'
  <2> SUFFICES ASSUME NEW q \in Consumers
               PROVE  /\ pc'[q] \in {"dir_read", "dir_write"} => call'[q].op \in {"input", "output"}
                      /\ pc'[q] \in {"set_read", "set_write"} => call'[q].op \in {"set", "output"}
    BY DEF OpsFit
  <2>1. CASE q = p
    BY <1>1, <1>2, <2>1
  <2>2. CASE q # p
    BY <1>1, <1>3, <2>2 DEF Inv, OpsFit
  <2> QED
    BY <2>1, <2>2
<1>7. Overlaps'
  <2> SUFFICES ASSUME NEW q \in Consumers, NEW r \in Neighbours(q), Changing(q)', Changing(r)'
               PROVE  ~call'[q].alone
    BY <1>4 DEF Overlaps
  <2>0. r \in Consumers /\ r # q /\ bank(r) = bank(q)
    BY DEF Neighbours
  <2>1. CASE q = p
    <3>1. ~Undisturbed(p)
      BY <1>4, <2>0, <2>1 DEF Undisturbed
    <3> QED
      BY <3>1, <2>1, <1>2
  <2>2. CASE r = p
    <3>1. Overtaken(q, p)
      BY <1>4, <2>0, <2>2 DEF Overtaken, Neighbours
    <3> QED
      BY <3>1, <2>0, <2>2, <1>3
  <2>3. CASE q # p /\ r # p
    BY <1>3, <1>4, <2>0, <2>3 DEF Inv, Overlaps
  <2> QED
    BY <2>1, <2>2, <2>3
<1>8. DirectionsHold' /\ ValuesHold' /\ ValuesOfOutputs'
  BY <1>1, <1>4, <1>5
  DEF Inv, DirectionsHold, ValuesHold, ValuesOfOutputs, DirectionKept, ValueKept, chip
<1>9. DirectionsInHand'
  <2> SUFFICES ASSUME NEW q \in Consumers, pc'[q] = "dir_write", call'[q].sound,
                      NEW r \in Neighbours(q), Steady(r)'
               PROVE  DirectionKept(r, call[q].value) /\ call'[q].value = call[q].value /\ promise' = promise
    BY <1>4 DEF DirectionsInHand, DirectionKept
  <2>1. q # p /\ r \in Consumers
    BY <1>1 DEF Neighbours
  <2> QED
    BY <1>1, <1>3, <1>5, <2>1 DEF Inv, DirectionsInHand
<1>10. ValuesInHand'
  <2> SUFFICES ASSUME NEW q \in Consumers, pc'[q] = "set_write",
                      NEW r \in Neighbours(q), ~Changing(r)'
               PROVE  ValueKept(r, call[q].value) /\ call'[q].value = call[q].value /\ promise' = promise
    BY <1>4 DEF ValuesInHand, ValueKept
  <2>1. q # p /\ r \in Consumers
    BY <1>1 DEF Neighbours
  <2> QED
    BY <1>1, <1>3, <1>4, <2>1 DEF Inv, ValuesInHand
<1>11. OwnPin'
  <2> SUFFICES ASSUME NEW q \in Consumers
               PROVE  /\ pc'[q] = "dir_write" => (bit(q) \in call'[q].value <=> call'[q].op = "input")
                      /\ pc'[q] = "set_write" => (bit(q) \in call'[q].value <=> call'[q].on)
                      /\ (pc'[q] \in {"set_read", "set_write"} /\ call'[q].op = "output"
                            /\ call'[q].sound /\ call'[q].alone) => bit(q) \notin iodir'[bank(q)]
    BY DEF OwnPin
  <2>1. CASE q = p
    BY <1>1, <1>2, <2>1
  <2>2. CASE q # p
    BY <1>1, <1>3, <2>2 DEF Inv, OwnPin, chip
  <2> QED
    BY <2>1, <2>2
<1> QED
  BY <1>c, <1>6, <1>7, <1>8, <1>9, <1>10, <1>11 DEF Inv

-----------------------------------------------------------------------------
(* What a pin is promised after a call.                                    *)
LEMMA PromisedFacts ==
  ASSUME TypeOK, NEW p \in Consumers, NEW s \in BOOLEAN,
         call[p].op \in {"set", "output", "input"}
  PROVE  LET k == Promised(p, call[p], s) IN
         /\ k \in Promises
         /\ k.value # "unknown" => /\ k.direction = "out" /\ call[p].alone /\ s
                                   /\ call[p].op # "input"
                                   /\ k.value = "high" <=> call[p].on
         /\ ~(call[p].alone /\ s) => k.value = "unknown"
         /\ call[p].op = "input" => k.direction \in {"in", "unknown"}
         /\ call[p].op = "output" => k.direction \in {"out", "unknown"}
         /\ call[p].op # "set" /\ ~(call[p].alone /\ s) => k.direction = "unknown"
         /\ call[p].op = "set" => k.direction = promise[p].direction
<1> DEFINE sure == call[p].alone /\ s
           d == CASE call[p].op = "output" /\ sure  -> "out"
                  [] call[p].op = "input" /\ sure   -> "in"
                  [] call[p].op \in {"input", "output"} /\ ~sure -> "unknown"
                  [] call[p].op = "set"             -> promise[p].direction
           v == IF d = "out" /\ sure /\ call[p].op # "input"
                THEN (IF call[p].on THEN "high" ELSE "low") ELSE "unknown"
<1>1. Promised(p, call[p], s) = [direction |-> d, value |-> v]
  BY DEF Promised
<1>2. call[p] \in CallType /\ promise[p] \in Promises
  BY DEF TypeOK
<1>3. /\ call[p].op = "output" /\ sure => d = "out"
      /\ call[p].op = "input" /\ sure => d = "in"
      /\ call[p].op \in {"input", "output"} /\ ~sure => d = "unknown"
      /\ call[p].op = "set" => d = promise[p].direction
  OBVIOUS
<1>4. d \in {"in", "out", "unknown"}
  BY <1>2, <1>3 DEF Promises
<1>5. Promised(p, call[p], s).direction = d /\ Promised(p, call[p], s).value = v
  BY <1>1
<1>6. v \in {"high", "low", "unknown"}
  OBVIOUS
<1> HIDE DEF d
<1> QED
  BY <1>1, <1>2, <1>3, <1>4, <1>5, <1>6 DEF Promises

-----------------------------------------------------------------------------
(* The last step of a call that has set a value or failed to.              *)
LEMMA EndKeeps ==
  ASSUME Inv, NEW p \in Consumers, NEW s \in BOOLEAN, s => call[p].sound,
         pc[p] \in {"set_read", "set_write"}, End(p, s), UNCHANGED <<iodir, level>>
  PROVE  /\ OpsFit' /\ Overlaps' /\ DirectionsHold' /\ ValuesOfOutputs'
         /\ DirectionsInHand' /\ ValuesInHand' /\ OwnPin'
         /\ pc' \in [Consumers -> {"idle", "dir_read", "dir_write", "set_read", "set_write"}]
         /\ call' \in [Consumers -> CallType] /\ promise' \in [Consumers -> Promises]
<1> DEFINE k == Promised(p, call[p], s)
<1>1. /\ call[p].op \in {"set", "output"} /\ TypeOK /\ call[p] \in CallType
      /\ p \in Consumers /\ call[p].op \in {"set", "output", "input"}
  BY DEF Inv, OpsFit, TypeOK
<1>2. /\ k \in Promises
      /\ k.value # "unknown" => k.direction = "out" /\ call[p].alone /\ s
      /\ ~call[p].alone => k.value = "unknown"
      /\ call[p].op = "output" => k.direction \in {"out", "unknown"}
      /\ call[p].op = "output" /\ ~(call[p].alone /\ s) => k.direction = "unknown"
      /\ call[p].op = "set" => k.direction = promise[p].direction
  BY <1>1, PromisedFacts
<1>3. /\ promise'[p] = k /\ call'[p] = NoCall /\ pc'[p] = "idle"
      /\ \A q \in Consumers \ {p} :
           promise'[q] = promise[q] /\ call'[q] = call[q] /\ pc'[q] = pc[q]
  BY <1>1 DEF End, Goto, TypeOK
<1>4. /\ pc' \in [Consumers -> {"idle", "dir_read", "dir_write", "set_read", "set_write"}]
      /\ call' \in [Consumers -> CallType] /\ promise' \in [Consumers -> Promises]
  <2>1. NoCall \in CallType
    BY DEF NoCall, CallType
  <2> QED
    BY <1>1, <1>2, <2>1 DEF End, Goto, TypeOK
<1> HIDE DEF k
<1>5. /\ Changing(p) /\ ~Changing(p)' /\ iodir' = iodir
      /\ \A q \in Consumers \ {p} : Changing(q)' = Changing(q) /\ Steady(q)' = Steady(q)
      /\ \A q \in Consumers : Neighbours(q)' = Neighbours(q)
  BY <1>3 DEF Changing, Steady, Neighbours
<1>7. OpsFit'
  BY <1>3 DEF Inv, OpsFit
<1>8. Overlaps'
  <2> SUFFICES ASSUME NEW q \in Consumers, NEW r \in Neighbours(q), Changing(q)', Changing(r)'
               PROVE  ~call'[q].alone
    BY <1>5 DEF Overlaps
  <2>1. r \in Consumers /\ r # p /\ q # p
    BY <1>5 DEF Neighbours
  <2> QED
    BY <1>3, <1>5, <2>1 DEF Inv, Overlaps
<1>9. DirectionsHold'
  <2> SUFFICES ASSUME NEW q \in Consumers, Steady(q)'
               PROVE  /\ promise'[q].direction = "in" => bit(q) \in iodir[bank(q)]
                      /\ promise'[q].direction = "out" => bit(q) \notin iodir[bank(q)]
    BY <1>5 DEF DirectionsHold, DirectionKept
  <2>1. CASE q # p
    BY <1>3, <1>5, <2>1 DEF Inv, DirectionsHold, DirectionKept
  <2>2. CASE q = p /\ call[p].op = "set"
    <3>1. DirectionKept(p, iodir[bank(p)])
      BY <2>2 DEF Inv, DirectionsHold, Steady
    <3> QED
      BY <3>1, <2>2, <1>2, <1>3 DEF DirectionKept
  <2>3. CASE q = p /\ call[p].op = "output"
    <3>1. call[p].sound /\ call[p].alone => bit(p) \notin iodir[bank(p)]
      BY <2>3 DEF Inv, OwnPin
    <3> QED
      BY <3>1, <2>3, <1>2, <1>3
  <2> QED
    BY <1>1, <2>1, <2>2, <2>3
<1>10. ValuesOfOutputs'
  BY <1>2, <1>3 DEF Inv, ValuesOfOutputs
<1>11. DirectionsInHand'
  <2> SUFFICES ASSUME NEW q \in Consumers, pc'[q] = "dir_write", call'[q].sound,
                      NEW r \in Neighbours(q), Steady(r)'
               PROVE  /\ promise'[r].direction = "in" => bit(r) \in call'[q].value
                      /\ promise'[r].direction = "out" => bit(r) \notin call'[q].value
    BY <1>5 DEF DirectionsInHand, DirectionKept
  <2>0. r \in Consumers /\ q # p /\ pc[q] = "dir_write" /\ call'[q] = call[q] /\ q \in Neighbours(r)
    BY <1>3 DEF Neighbours
  <2>1. CASE r # p
    BY <1>3, <1>5, <2>0, <2>1 DEF Inv, DirectionsInHand, DirectionKept
  <2>2. CASE r = p /\ call[p].op = "set"
    <3>1. DirectionKept(p, call[q].value)
      BY <2>0, <2>2 DEF Inv, DirectionsInHand, Steady
    <3> QED
      BY <3>1, <2>0, <2>2, <1>2, <1>3 DEF DirectionKept
  <2>3. CASE r = p /\ call[p].op = "output"
    <3>1. ~call[p].alone
      BY <2>0, <2>3, <1>5 DEF Inv, Overlaps, Changing
    <3> QED
      BY <3>1, <2>3, <1>2, <1>3
  <2> QED
    BY <1>1, <2>1, <2>2, <2>3
<1>12. ValuesInHand'
  <2> SUFFICES ASSUME NEW q \in Consumers, pc'[q] = "set_write",
                      NEW r \in Neighbours(q), ~Changing(r)'
               PROVE  /\ promise'[r].value = "high" => bit(r) \in call'[q].value
                      /\ promise'[r].value = "low" => bit(r) \notin call'[q].value
    BY <1>5 DEF ValuesInHand, ValueKept
  <2>0. r \in Consumers /\ q # p /\ pc[q] = "set_write" /\ call'[q] = call[q] /\ q \in Neighbours(r)
    BY <1>3 DEF Neighbours
  <2>1. CASE r # p
    BY <1>3, <1>5, <2>0, <2>1 DEF Inv, ValuesInHand, ValueKept
  <2>2. CASE r = p
    <3>1. ~call[p].alone
      BY <2>0, <2>2, <1>5 DEF Inv, Overlaps, Changing
    <3> QED
      BY <3>1, <2>2, <1>2, <1>3
  <2> QED
    BY <2>1, <2>2
<1>13. OwnPin'
  BY <1>3, <1>5 DEF Inv, OwnPin
<1> QED
  BY <1>4, <1>7, <1>8, <1>9, <1>10, <1>11, <1>12, <1>13

(* mcp23016_set writes the latches.                                        *)
LEMMA SetWriteKeeps ==
  ASSUME Inv, NEW p \in Consumers, SetWrite(p)
  PROVE  Inv'
<1>1. PICK written \in BOOLEAN, sound \in BOOLEAN :
        /\ sound => written
        /\ olat' = IF written THEN [olat EXCEPT ![bank(p)] = call[p].value] ELSE olat
        /\ End(p, call[p].sound /\ sound)
  BY DEF SetWrite
<1> DEFINE s == call[p].sound /\ sound
           k == Promised(p, call[p], s)
<1>2. /\ pc[p] = "set_write" /\ call[p] \in CallType /\ call[p].op \in {"set", "output", "input"}
      /\ UNCHANGED <<iodir, level>> /\ TypeOK /\ bank(p) \in Banks
  BY PinBits DEF SetWrite, Inv, OpsFit, TypeOK
<1>3. s \in BOOLEAN /\ (s => call[p].sound) /\ (s => written)
  BY <1>1, <1>2 DEF CallType
<1>4. End(p, s)
  BY <1>1
<1> HIDE DEF s
<1>5. /\ k.value # "unknown" => s /\ (k.value = "high" <=> call[p].on)
      /\ k \in Promises
  BY <1>2, <1>3, PromisedFacts
<1>6. /\ promise'[p] = k
      /\ \A q \in Consumers \ {p} : promise'[q] = promise[q] /\ pc'[q] = pc[q]
  BY <1>2, <1>4 DEF End, Goto, TypeOK
<1> HIDE DEF k
<1>7. /\ OpsFit' /\ Overlaps' /\ DirectionsHold' /\ ValuesOfOutputs'
      /\ DirectionsInHand' /\ ValuesInHand' /\ OwnPin'
      /\ pc' \in [Consumers -> {"idle", "dir_read", "dir_write", "set_read", "set_write"}]
      /\ call' \in [Consumers -> CallType] /\ promise' \in [Consumers -> Promises]
  BY <1>2, <1>3, <1>4, EndKeeps
<1>8. olat' \in Registers
  BY <1>1, <1>2 DEF TypeOK, Registers, CallType
<1>9. TypeOK'
  BY <1>2, <1>7, <1>8 DEF TypeOK
<1>10. ValuesHold'
  <2> SUFFICES ASSUME NEW q \in Consumers, ~Changing(q)'
               PROVE  /\ promise'[q].value = "high" => bit(q) \in olat'[bank(q)]
                      /\ promise'[q].value = "low" => bit(q) \notin olat'[bank(q)]
    BY DEF ValuesHold, ValueKept
  <2>1. CASE q = p
    <3>1. bit(p) \in call[p].value <=> call[p].on
      BY <1>2 DEF Inv, OwnPin
    <3>2. written => olat'[bank(p)] = call[p].value
      BY <1>1, <1>2 DEF TypeOK, Registers
    <3> QED
      BY <2>1, <3>1, <3>2, <1>3, <1>5, <1>6 DEF Promises
  <2>2. CASE q \in Neighbours(p)
    <3>1. ValueKept(q, call[p].value) /\ ValueKept(q, olat[bank(q)]) /\ q # p /\ bank(q) = bank(p)
      BY <2>2, <1>2, <1>6 DEF Inv, ValuesInHand, ValuesHold, Changing, Neighbours
    <3>2. olat'[bank(q)] \in {call[p].value, olat[bank(q)]}
      BY <3>1, <1>1, <1>2 DEF TypeOK, Registers
    <3> QED
      BY <3>1, <3>2, <1>6 DEF ValueKept
  <2>3. CASE q # p /\ q \notin Neighbours(p)
    <3>1. bank(q) # bank(p) /\ bank(q) \in Banks
      BY <2>3, PinBits DEF Neighbours
    <3>2. olat'[bank(q)] = olat[bank(q)]
      BY <3>1, <1>1, <1>2 DEF TypeOK, Registers
    <3>3. ValueKept(q, olat[bank(q)])
      BY <2>3, <1>6 DEF Inv, ValuesHold, Changing
    <3> QED
      BY <2>3, <3>2, <3>3, <1>6 DEF ValueKept
  <2> QED
    BY <2>1, <2>2, <2>3
<1> QED
  BY <1>7, <1>9, <1>10 DEF Inv

(* mcp23016_set reads the pins of the bank: those of the outputs show what *)
(* the latches hold, so the value to be written keeps what was promised.   *)
LEMMA SetReadKeeps ==
  ASSUME Inv, NEW p \in Consumers, SetRead(p)
  PROVE  Inv'
<1> DEFINE value == WithBit(Status(bank(p)), p, call[p].on)
<1>1. /\ pc[p] = "set_read" /\ UNCHANGED chip /\ TypeOK /\ bank(p) \in Banks /\ bit(p) \in Bits
      /\ call[p] \in CallType
  BY PinBits DEF SetRead, Inv, TypeOK
<1>2. CASE End(p, FALSE)
  <2>1. /\ OpsFit' /\ Overlaps' /\ DirectionsHold' /\ ValuesOfOutputs'
        /\ DirectionsInHand' /\ ValuesInHand' /\ OwnPin'
        /\ pc' \in [Consumers -> {"idle", "dir_read", "dir_write", "set_read", "set_write"}]
        /\ call' \in [Consumers -> CallType] /\ promise' \in [Consumers -> Promises]
    BY <1>1, <1>2, EndKeeps DEF chip
  <2>2. TypeOK'
    BY <1>1, <2>1 DEF TypeOK, chip
  <2>3. /\ Promised(p, call[p], FALSE).value = "unknown"
        /\ promise' = [promise EXCEPT ![p] = Promised(p, call[p], FALSE)]
        /\ pc' = [pc EXCEPT ![p] = "idle"]
    BY <1>1, <1>2, PromisedFacts DEF End, Goto, Inv, OpsFit
  <2>4. ValuesHold'
    <3> SUFFICES ASSUME NEW q \in Consumers, ~Changing(q)'
                 PROVE  ValueKept(q, olat[bank(q)])'
      BY <1>1 DEF ValuesHold, chip
    <3>1. CASE q = p
      BY <2>3, <3>1, <1>1 DEF TypeOK, ValueKept
    <3>2. CASE q # p
      BY <2>3, <3>2, <1>1 DEF Inv, ValuesHold, ValueKept, Changing, TypeOK, chip
    <3> QED
      BY <3>1, <3>2
  <2> QED
    BY <2>1, <2>2, <2>4 DEF Inv
<1>3. CASE /\ call' = [call EXCEPT ![p].value = value]
           /\ Goto(p, "set_write") /\ UNCHANGED promise
  <2>1. value \in SUBSET Bits
    BY <1>1 DEF WithBit, Status, TypeOK, Registers
  <2>2. /\ bit(p) \in value <=> call[p].on
        /\ \A r \in Neighbours(p) : bit(r) \in value <=> bit(r) \in Status(bank(p))
    BY PinBits DEF WithBit
  <2> HIDE DEF value
  <2>3. /\ call'[p] \in CallType /\ call'[p].value = value
        /\ call'[p].op = call[p].op /\ call'[p].on = call[p].on
        /\ call'[p].alone = call[p].alone /\ call'[p].sound = call[p].sound
    BY <1>1, <1>3, <2>1 DEF CallType, TypeOK
  <2>4. /\ pc'[p] = "set_write"
        /\ \A q \in Consumers \ {p} : pc'[q] = pc[q] /\ call'[q] = call[q]
        /\ promise' = promise /\ iodir' = iodir /\ olat' = olat
    BY <1>1, <1>3 DEF Goto, TypeOK, chip
  <2>5. TypeOK'
    <3>1. call' \in [Consumers -> CallType]
      BY <1>1, <1>3, <2>3 DEF TypeOK
    <3>2. pc' \in [Consumers -> {"idle", "dir_read", "dir_write", "set_read", "set_write"}]
      BY <1>1, <1>3 DEF TypeOK, Goto
    <3> QED
      BY <1>1, <1>3, <3>1, <3>2 DEF TypeOK, chip
  <2>6. \A q \in Consumers : /\ Changing(q)' <=> Changing(q)
                             /\ Steady(q)' <=> Steady(q)
                             /\ Neighbours(q)' = Neighbours(q)
    BY <1>1, <2>3, <2>4 DEF Changing, Steady, Neighbours
  <2>7. OpsFit' /\ DirectionsHold' /\ ValuesHold' /\ ValuesOfOutputs'
    BY <1>1, <2>3, <2>4, <2>6
    DEF Inv, OpsFit, DirectionsHold, ValuesHold, ValuesOfOutputs, DirectionKept, ValueKept
  <2>8. Overlaps'
    <3> SUFFICES ASSUME NEW q \in Consumers, NEW r \in Neighbours(q), Changing(q), Changing(r)
                 PROVE  ~call'[q].alone
      BY <2>6 DEF Overlaps, Neighbours
    <3> QED
      BY <2>3, <2>4 DEF Inv, Overlaps
  <2>9. DirectionsInHand'
    <3> SUFFICES ASSUME NEW q \in Consumers, pc'[q] = "dir_write", call'[q].sound,
                        NEW r \in Neighbours(q), Steady(r)
                 PROVE  DirectionKept(r, call'[q].value)
      BY <2>4, <2>6 DEF DirectionsInHand, DirectionKept, Neighbours
    <3> QED
      BY <2>4 DEF Inv, DirectionsInHand
  <2>10. ValuesInHand'
    <3> SUFFICES ASSUME NEW q \in Consumers, pc'[q] = "set_write",
                        NEW r \in Neighbours(q), ~Changing(r)
                 PROVE  ValueKept(r, call'[q].value)
      BY <2>4, <2>6 DEF ValuesInHand, ValueKept, Neighbours
    <3>1. CASE q # p
      BY <3>1, <2>4 DEF Inv, ValuesInHand
    <3>2. CASE q = p
      <4>1. /\ r \in Consumers /\ bank(r) = bank(p)
            /\ ValueKept(r, olat[bank(p)]) /\ DirectionKept(r, iodir[bank(p)])
            /\ promise[r].value # "unknown" => promise[r].direction = "out"
        BY <3>2 DEF Inv, Neighbours, ValuesHold, DirectionsHold, Steady, ValuesOfOutputs
      <4>2. promise[r].value # "unknown" =>
              (bit(r) \in Status(bank(p)) <=> bit(r) \in olat[bank(p)])
        BY <4>1 DEF DirectionKept, Status
      <4> QED
        BY <4>1, <4>2, <3>2, <2>2, <2>3 DEF ValueKept
    <3> QED
      BY <3>1, <3>2
  <2>11. OwnPin'
    <3> SUFFICES ASSUME NEW q \in Consumers
                 PROVE  /\ pc'[q] = "dir_write" => (bit(q) \in call'[q].value <=> call'[q].op = "input")
                        /\ pc'[q] = "set_write" => (bit(q) \in call'[q].value <=> call'[q].on)
                        /\ (pc'[q] \in {"set_read", "set_write"} /\ call'[q].op = "output"
                              /\ call'[q].sound /\ call'[q].alone) => bit(q) \notin iodir'[bank(q)]
      BY DEF OwnPin
    <3>1. CASE q # p
      BY <3>1, <2>4 DEF Inv, OwnPin
    <3>2. CASE q = p
      BY <3>2, <1>1, <2>2, <2>3, <2>4 DEF Inv, OwnPin
    <3> QED
      BY <3>1, <3>2
  <2> QED
    BY <2>5, <2>7, <2>8, <2>9, <2>10, <2>11 DEF Inv
<1> QED
  BY <1>2, <1>3 DEF SetRead

-----------------------------------------------------------------------------
(* The low byte of an error number is a byte.                              *)
LEMMA LowByteType == \A e \in Errors : LowByte(e) \in SUBSET Bits
BY DEF LowByte

(* The direction register is read.                                         *)
LEMMA DirectionReadKeeps ==
  ASSUME Inv, NEW p \in Consumers, DirectionRead(p)
  PROVE  Inv'
<1>1. /\ pc[p] = "dir_read" /\ UNCHANGED <<chip, promise>> /\ TypeOK
      /\ call[p] \in CallType /\ bank(p) \in Banks /\ bit(p) \in Bits
      /\ call[p].op \in {"input", "output"}
  BY PinBits DEF DirectionRead, Inv, OpsFit, TypeOK
<1>2. PICK register \in SUBSET Bits :
        LET value == WithBit(register, p, call[p].op = "input") IN
        \/ call' = [call EXCEPT ![p].value = value] /\ register = iodir[bank(p)]
        \/ call' = [call EXCEPT ![p].value = value, ![p].sound = FALSE]
  BY <1>1, LowByteType DEF DirectionRead, TypeOK, Registers
<1> DEFINE value == WithBit(register, p, call[p].op = "input")
<1>3. value \in SUBSET Bits
  BY <1>1 DEF WithBit
<1>4. /\ bit(p) \in value <=> call[p].op = "input"
      /\ \A r \in Neighbours(p) : bit(r) \in value <=> bit(r) \in register
  BY <1>1, PinBits DEF WithBit
<1> HIDE DEF value
<1>5. /\ call' \in [Consumers -> CallType] /\ call'[p].value = value
      /\ call'[p].op = call[p].op /\ call'[p].on = call[p].on
      /\ call'[p].alone = call[p].alone
      /\ call'[p].sound => register = iodir[bank(p)]
      /\ \A q \in Consumers \ {p} : call'[q] = call[q]
  <2>1. CASE call' = [call EXCEPT ![p].value = value] /\ register = iodir[bank(p)]
    BY <1>1, <1>3, <2>1 DEF TypeOK, CallType
  <2>2. CASE call' = [call EXCEPT ![p].value = value, ![p].sound = FALSE]
    BY <1>1, <1>3, <2>2 DEF TypeOK, CallType
  <2> QED
    BY <1>2, <2>1, <2>2 DEF value
<1>6. /\ pc'[p] = "dir_write"
      /\ \A q \in Consumers \ {p} : pc'[q] = pc[q]
      /\ promise' = promise /\ iodir' = iodir /\ olat' = olat
  BY <1>1 DEF DirectionRead, Goto, TypeOK, chip
<1>7. TypeOK'
  <2>1. pc' \in [Consumers -> {"idle", "dir_read", "dir_write", "set_read", "set_write"}]
    BY <1>1 DEF DirectionRead, TypeOK, Goto
  <2> QED
    BY <1>1, <1>5, <2>1 DEF TypeOK, chip
<1>8. \A q \in Consumers : /\ Changing(q)' <=> Changing(q)
                           /\ Steady(q)' <=> Steady(q)
  BY <1>1, <1>5, <1>6 DEF Changing, Steady
<1>9. OpsFit' /\ DirectionsHold' /\ ValuesHold' /\ ValuesOfOutputs'
  BY <1>1, <1>5, <1>6, <1>8
  DEF Inv, OpsFit, DirectionsHold, ValuesHold, ValuesOfOutputs, DirectionKept, ValueKept
<1>10. Overlaps'
  <2> SUFFICES ASSUME NEW q \in Consumers, NEW r \in Neighbours(q), Changing(q), Changing(r)
               PROVE  ~call'[q].alone
    BY <1>8 DEF Overlaps, Neighbours
  <2> QED
    BY <1>5 DEF Inv, Overlaps
<1>11. DirectionsInHand'
  <2> SUFFICES ASSUME NEW q \in Consumers, pc'[q] = "dir_write", call'[q].sound,
                      NEW r \in Neighbours(q), Steady(r)
               PROVE  DirectionKept(r, call'[q].value)
    BY <1>6, <1>8 DEF DirectionsInHand, DirectionKept, Neighbours
  <2>1. CASE q # p
    BY <2>1, <1>5, <1>6 DEF Inv, DirectionsInHand
  <2>2. CASE q = p
    <3>1. DirectionKept(r, register)
      BY <2>2, <1>5 DEF Inv, DirectionsHold, Neighbours
    <3> QED
      BY <3>1, <2>2, <1>4, <1>5 DEF DirectionKept
  <2> QED
    BY <2>1, <2>2
<1>12. ValuesInHand'
  <2> SUFFICES ASSUME NEW q \in Consumers, pc'[q] = "set_write",
                      NEW r \in Neighbours(q), ~Changing(r)
               PROVE  ValueKept(r, call'[q].value)
    BY <1>6, <1>8 DEF ValuesInHand, ValueKept, Neighbours
  <2> QED
    BY <1>5, <1>6 DEF Inv, ValuesInHand
<1>13. OwnPin'
  <2> SUFFICES ASSUME NEW q \in Consumers
               PROVE  /\ pc'[q] = "dir_write" => (bit(q) \in call'[q].value <=> call'[q].op = "input")
                      /\ pc'[q] = "set_write" => (bit(q) \in call'[q].value <=> call'[q].on)
                      /\ (pc'[q] \in {"set_read", "set_write"} /\ call'[q].op = "output"
                            /\ call'[q].sound /\ call'[q].alone) => bit(q) \notin iodir'[bank(q)]
    BY DEF OwnPin
  <2>1. CASE q # p
    BY <2>1, <1>5, <1>6 DEF Inv, OwnPin
  <2>2. CASE q = p
    BY <2>2, <1>4, <1>5, <1>6
  <2> QED
    BY <2>1, <2>2
<1> QED
  BY <1>7, <1>9, <1>10, <1>11, <1>12, <1>13 DEF Inv

(* The direction register is written.                                      *)
LEMMA DirectionWriteKeeps ==
  ASSUME Inv, NEW p \in Consumers, DirectionWrite(p)
  PROVE  Inv'
<1>1. /\ pc[p] = "dir_write" /\ olat' = olat /\ level' = level /\ TypeOK
      /\ call[p] \in CallType /\ bank(p) \in Banks /\ bit(p) \in Bits
      /\ call[p].op \in {"input", "output"} /\ call[p].op \in {"set", "output", "input"}
      /\ (bit(p) \in call[p].value <=> call[p].op = "input")
  BY PinBits DEF DirectionWrite, Inv, OpsFit, TypeOK, OwnPin
<1> DEFINE lost == [direction |-> "unknown", value |-> "unknown"]
<1>2. PICK written \in BOOLEAN, sound \in BOOLEAN :
        /\ sound => written
        /\ iodir' = IF written THEN [iodir EXCEPT ![bank(p)] = call[p].value] ELSE iodir
        /\ IF call[p].op = "input"
           THEN call' = [call EXCEPT ![p] = NoCall] /\ Goto(p, "idle")
           ELSE call' = [call EXCEPT ![p].sound = @ /\ sound] /\ Goto(p, "set_read")
        /\ promise' = [(IF call[p].sound THEN promise ELSE DirectionsLost(p)) EXCEPT
             ![p] = IF call[p].op = "input"
                    THEN Promised(p, call[p], call[p].sound /\ sound) ELSE promise[p]]
  BY DEF DirectionWrite
<1> DEFINE s == call[p].sound /\ sound
           k == Promised(p, call[p], s)
<1>3. s \in BOOLEAN /\ (s => call[p].sound) /\ (s => written)
  BY <1>1, <1>2 DEF CallType
<1>4. /\ promise'[p] = IF call[p].op = "input" THEN k ELSE promise[p]
      /\ \A q \in Consumers \ {p} :
           \/ promise'[q] = promise[q] /\ (q \in Neighbours(p) => call[p].sound)
           \/ promise'[q] = lost
  BY <1>1, <1>2 DEF DirectionsLost, TypeOK
<1> HIDE DEF s
<1>5. /\ k \in Promises
      /\ call[p].op = "input" => k.value = "unknown" /\ k.direction \in {"in", "unknown"}
      /\ ~(call[p].alone /\ s) => k.direction = "unknown" /\ k.value = "unknown"
  BY <1>1, <1>3, PromisedFacts DEF Promises
<1> HIDE DEF k
<1>6. /\ \A q \in Consumers \ {p} : call'[q] = call[q] /\ pc'[q] = pc[q]
      /\ call[p].op = "input" => call'[p] = NoCall /\ pc'[p] = "idle"
      /\ call[p].op = "output" =>
           /\ call'[p].op = "output" /\ call'[p].on = call[p].on
           /\ call'[p].alone = call[p].alone /\ (call'[p].sound <=> s)
           /\ call'[p].value = call[p].value /\ pc'[p] = "set_read"
  BY <1>1, <1>2 DEF Goto, TypeOK, CallType, s
<1>7. TypeOK'
  <2>1. call' \in [Consumers -> CallType]
    <3>1. NoCall \in CallType
      BY DEF NoCall, CallType
    <3>2. CASE call[p].op = "input"
      BY <1>1, <1>2, <3>1, <3>2 DEF TypeOK
    <3>3. CASE call[p].op # "input"
      <4>1. s \in BOOLEAN /\ call' = [call EXCEPT ![p].sound = s]
        BY <1>2, <1>3, <3>3 DEF s
      <4> QED
        BY <4>1, <1>1 DEF TypeOK, CallType
    <3> QED
      BY <3>2, <3>3
  <2>2. pc' \in [Consumers -> {"idle", "dir_read", "dir_write", "set_read", "set_write"}]
    BY <1>1, <1>2 DEF TypeOK, Goto
  <2>3. promise' \in [Consumers -> Promises]
    <3>1. lost \in Promises
      BY DEF Promises
    <3>2. DOMAIN promise' = Consumers /\ promise' = [q \in Consumers |-> promise'[q]]
      BY <1>1, <1>2 DEF DirectionsLost, TypeOK
    <3> QED
      BY <3>1, <3>2, <1>1, <1>4, <1>5 DEF TypeOK
  <2>4. iodir' \in Registers
    BY <1>1, <1>2 DEF TypeOK, Registers, CallType
  <2> QED
    BY <1>1, <2>1, <2>2, <2>3, <2>4 DEF TypeOK
<1>8. /\ written => iodir'[bank(p)] = call[p].value
      /\ ~written => iodir'[bank(p)] = iodir[bank(p)]
      /\ \A b \in Banks \ {bank(p)} : iodir'[b] = iodir[b]
  BY <1>1, <1>2 DEF TypeOK, Registers
<1>9. /\ \A q \in Consumers \ {p} : Changing(q)' <=> Changing(q)
      /\ \A q \in Consumers \ {p} : Steady(q)' <=> Steady(q)
      /\ Changing(p) /\ (Changing(p)' <=> call[p].op = "output") /\ (Steady(p)' <=> call[p].op = "input")
  BY <1>1, <1>6 DEF Changing, Steady
<1>10. /\ \A q \in Consumers \ {p} :
            \/ promise'[q] = promise[q]
            \/ promise'[q].value = "unknown" /\ promise'[q].direction = "unknown"
       /\ promise'[p] = promise[p] \/ promise'[p].value = "unknown"
  BY <1>1, <1>4, <1>5
<1> HIDE DEF lost
<1>11. OpsFit'
  BY <1>1, <1>6 DEF Inv, OpsFit
<1>12. Overlaps'
  <2> SUFFICES ASSUME NEW q \in Consumers, NEW r \in Neighbours(q), Changing(q)', Changing(r)'
               PROVE  ~call'[q].alone
    BY DEF Overlaps, Neighbours
  <2>1. r \in Consumers /\ Changing(q) /\ Changing(r)
    BY <1>9 DEF Neighbours
  <2> QED
    BY <2>1, <1>1, <1>6, <1>9 DEF Inv, Overlaps
<1>13. DirectionsHold'
  <2> SUFFICES ASSUME NEW q \in Consumers, Steady(q)'
               PROVE  /\ promise'[q].direction = "in" => bit(q) \in iodir'[bank(q)]
                      /\ promise'[q].direction = "out" => bit(q) \notin iodir'[bank(q)]
    BY DEF DirectionsHold, DirectionKept
  <2>1. CASE q = p
    BY <2>1, <1>1, <1>3, <1>4, <1>5, <1>8, <1>9
  <2>2. CASE q \in Neighbours(p)
    <3>1. q # p /\ bank(q) = bank(p) /\ Steady(q)
      BY <2>2, <1>9 DEF Neighbours
    <3>2. DirectionKept(q, iodir[bank(p)]) /\ (call[p].sound => DirectionKept(q, call[p].value))
      BY <3>1, <2>2, <1>1 DEF Inv, DirectionsHold, DirectionsInHand
    <3>3. promise'[q].direction # "unknown" => promise'[q] = promise[q] /\ call[p].sound
      BY <3>1, <2>2, <1>4 DEF lost
    <3> QED
      BY <3>1, <3>2, <3>3, <1>2, <1>8 DEF DirectionKept
  <2>3. CASE q # p /\ q \notin Neighbours(p)
    <3>1. bank(q) # bank(p) /\ bank(q) \in Banks
      BY <2>3, PinBits DEF Neighbours
    <3> QED
      BY <3>1, <2>3, <1>8, <1>9, <1>10 DEF Inv, DirectionsHold, DirectionKept
  <2> QED
    BY <2>1, <2>2, <2>3
<1>14. ValuesHold'
  <2> SUFFICES ASSUME NEW q \in Consumers, ~Changing(q)'
               PROVE  /\ promise'[q].value = "high" => bit(q) \in olat[bank(q)]
                      /\ promise'[q].value = "low" => bit(q) \notin olat[bank(q)]
    BY <1>1 DEF ValuesHold, ValueKept
  <2>1. CASE q = p
    BY <2>1, <1>1, <1>4, <1>5, <1>9
  <2>2. CASE q # p
    BY <2>2, <1>9, <1>10 DEF Inv, ValuesHold, ValueKept
  <2> QED
    BY <2>1, <2>2
<1>15. ValuesOfOutputs'
  BY <1>10, <1>4, <1>5 DEF Inv, ValuesOfOutputs
<1>16. DirectionsInHand'
  <2> SUFFICES ASSUME NEW q \in Consumers, pc'[q] = "dir_write", call'[q].sound,
                      NEW r \in Neighbours(q), Steady(r)'
               PROVE  /\ promise'[r].direction = "in" => bit(r) \in call'[q].value
                      /\ promise'[r].direction = "out" => bit(r) \notin call'[q].value
    BY DEF DirectionsInHand, DirectionKept, Neighbours
  <2>0. r \in Consumers /\ q # p /\ pc[q] = "dir_write" /\ call'[q] = call[q] /\ q \in Neighbours(r)
    BY <1>1, <1>6 DEF Neighbours
  <2>1. CASE r # p
    BY <2>0, <2>1, <1>9, <1>10 DEF Inv, DirectionsInHand, DirectionKept
  <2>2. CASE r = p
    <3>1. ~call[p].alone /\ call[p].op = "input"
      BY <2>0, <2>2, <1>9 DEF Inv, Overlaps, Changing
    <3> QED
      BY <3>1, <2>2, <1>4, <1>5
  <2> QED
    BY <2>1, <2>2
<1>17. ValuesInHand'
  <2> SUFFICES ASSUME NEW q \in Consumers, pc'[q] = "set_write",
                      NEW r \in Neighbours(q), ~Changing(r)'
               PROVE  /\ promise'[r].value = "high" => bit(r) \in call'[q].value
                      /\ promise'[r].value = "low" => bit(r) \notin call'[q].value
    BY DEF ValuesInHand, ValueKept, Neighbours
  <2>0. r \in Consumers /\ q # p /\ pc[q] = "set_write" /\ call'[q] = call[q]
    BY <1>1, <1>6 DEF Neighbours
  <2>1. CASE r # p
    BY <2>0, <2>1, <1>9, <1>10 DEF Inv, ValuesInHand, ValueKept
  <2>2. CASE r = p
    BY <2>2, <1>1, <1>4, <1>5, <1>9
  <2> QED
    BY <2>1, <2>2
<1>18. OwnPin'
  <2> SUFFICES ASSUME NEW q \in Consumers
               PROVE  /\ pc'[q] = "dir_write" => (bit(q) \in call'[q].value <=> call'[q].op = "input")
                      /\ pc'[q] = "set_write" => (bit(q) \in call'[q].value <=> call'[q].on)
                      /\ (pc'[q] \in {"set_read", "set_write"} /\ call'[q].op = "output"
                            /\ call'[q].sound /\ call'[q].alone) => bit(q) \notin iodir'[bank(q)]
    BY DEF OwnPin
  <2>1. CASE q = p
    BY <2>1, <1>1, <1>3, <1>6, <1>8
  <2>2. CASE q # p
    <3>1. call'[q] = call[q] /\ pc'[q] = pc[q] /\ bank(q) \in Banks
      BY <2>2, <1>6, PinBits
    <3>2. CASE q \in Neighbours(p) /\ Changing(q)
      <4>1. p \in Neighbours(q)
        BY <3>2 DEF Neighbours
      <4>2. ~call[q].alone
        BY <4>1, <3>2, <1>9 DEF Inv, Overlaps
      <4> QED
        BY <4>2, <3>1 DEF Inv, OwnPin
    <3>3. CASE q \notin Neighbours(p)
      <4>1. bank(q) # bank(p)
        BY <2>2, <3>3 DEF Neighbours
      <4> QED
        BY <4>1, <3>1, <1>8 DEF Inv, OwnPin
    <3>4. CASE ~Changing(q)
      BY <3>1, <3>4 DEF Changing
    <3> QED
      BY <3>2, <3>3, <3>4
  <2> QED
    BY <2>1, <2>2
<1> QED
  BY <1>7, <1>11, <1>12, <1>13, <1>14, <1>15, <1>16, <1>17, <1>18 DEF Inv

(* The levels outside matter to a read of the pins alone.                  *)
LEMMA ChangeKeeps ==
  ASSUME Inv, NEW p \in Wired, Change(p)
  PROVE  Inv'
<1>1. TypeOK'
  <2>1. bank(p) \in Banks /\ bit(p) \in Bits
    BY PinsAssumption DEF Pins, Banks, Bits, bank, bit
  <2>2. level' \in Registers
    BY <2>1 DEF Change, WithBit, Inv, TypeOK, Registers
  <2> QED
    BY <2>2 DEF Change, Inv, TypeOK
<1> QED
  BY <1>1
  DEF Change, Inv, OpsFit, Overlaps, DirectionsHold, ValuesHold, ValuesOfOutputs,
      DirectionsInHand, ValuesInHand, OwnPin, Steady, Changing, DirectionKept,
      ValueKept, Neighbours

(* A step that changes nothing keeps the invariant.                        *)
LEMMA StutterKeeps ==
  ASSUME Inv, UNCHANGED vars
  PROVE  Inv'
BY DEF vars, chip, Inv, TypeOK, OpsFit, Overlaps, DirectionsHold, ValuesHold,
       ValuesOfOutputs, DirectionsInHand, ValuesInHand, OwnPin, Steady, Changing,
       DirectionKept, ValueKept, Neighbours

(* Every step keeps the invariant.                                         *)
LEMMA NextInv ==
  ASSUME Inv, [Next]_vars
  PROVE  Inv'
<1>1. ASSUME NEW p \in Consumers, Request(p)
      PROVE  Inv'
  <2>1. CASE mcp23016_set_value(p)
    BY <2>1, BeginKeeps DEF mcp23016_set_value
  <2>2. CASE mcp23016_direction_output(p)
    BY <2>2, BeginKeeps DEF mcp23016_direction_output
  <2>3. CASE mcp23016_direction_input(p)
    BY <2>3, BeginKeeps DEF mcp23016_direction_input
  <2> QED
    BY <1>1, <2>1, <2>2, <2>3 DEF Request
<1>2. ASSUME NEW p \in Consumers, Transfer(p)
      PROVE  Inv'
  BY <1>2, DirectionReadKeeps, DirectionWriteKeeps, SetReadKeeps, SetWriteKeeps DEF Transfer
<1> QED
  BY <1>1, <1>2, ChangeKeeps, StutterKeeps DEF Next

(* The expander's state keeps its type: what a transfer that failed leaves *)
(* behind is a byte, too.                                                  *)
THEOREM McpTypeCorrect == Spec => []TypeOK
<1>1. Inv => TypeOK
  BY DEF Inv
<1> QED
  BY InitInv, NextInv, <1>1, PTL DEF Spec

(* The unlocked read-modify-write of mcp23016_set and mcp23016_direction   *)
(* harms the pins that race and no others, whatever pins there are and     *)
(* whatever is asked of them.                                              *)
THEOREM PromisesCorrect == Spec => []PromisesKept
<1>1. Inv => PromisesKept
  BY DEF Inv, DirectionsHold, ValuesHold, Steady, DirectionKept, ValueKept, PromisesKept
<1> QED
  BY InitInv, NextInv, <1>1, PTL DEF Spec

=============================================================================
