------------------------------ MODULE Mcp23016 ------------------------------
(***************************************************************************)
(* The MCP23016 GPIO expander (Chapter15/mcp23016.c): the direction and    *)
(* the value of its pins, changed by the consumers of different pins at    *)
(* the same time.  A register holds the bits of the eight pins of a bank,  *)
(* and every change of a pin reads one, changes a bit and writes it back:  *)
(* two transfers, no lock.  A transfer may fail.  (get reads INTCAP, which *)
(* nothing here writes, and changes nothing.)                              *)
(*                                                                         *)
(* gpiolib gives a pin to one consumer, so there is a call per pin.  The   *)
(* contents of a register are the set of the bits that are 1.              *)
(***************************************************************************)
EXTENDS Integers

CONSTANTS
  Consumers,    (* The pins that somebody has requested.                   *)
  Requests,     (* Bound: what they ask, <<pin, operation, value>>.        *)
  Wired,        (* Bound: the pins whose level the outside changes.        *)
  Errors        (* Error numbers a failed transfer returns, negated.       *)

Banks == {0, 1}
Bits == 0 .. 7
Pins == 0 .. 15

ASSUME PinsAssumption ==
  /\ Consumers \subseteq Pins
  /\ Wired \subseteq Pins
  /\ Errors \subseteq 1 .. 255

VARIABLES
  iodir,      (* IODIR0 and IODIR1: 1 is an input.                         *)
  olat,       (* The output latches, which a write to GP0 or GP1 changes.  *)
  level,      (* What the outside puts on the pins.                        *)
  pc, call,   (* Where the call on each pin is, and its local variables.   *)
  promise     (* History: what the consumer of each pin may rely on.       *)

chip == <<iodir, olat, level>>
vars == <<chip, pc, call, promise>>

bank(offset) == offset \div 8
bit(offset) == offset % 8

(* What a read of GP0 or GP1 returns: the pins, not the latches.           *)
Status(b) == (olat[b] \ iodir[b]) \union (level[b] \intersect iodir[b])

(* Mutant: the other bits are not carried over.                            *)
WithoutOthers(value, offset, on) == IF on THEN {bit(offset)} ELSE {}

(* value |= 1 << bit, or value &= ~(1 << bit).                             *)
WithBit(value, offset, on) ==
  IF on THEN value \union {bit(offset)} ELSE value \ {bit(offset)}

(* Mutant: a register wider than a byte.                                   *)
LowWord(e) == {i \in 0 .. 15 : (((65536 - e) \div 2 ^ i) % 2) = 1}

(* The low byte of -e.                                                     *)
LowByte(e) == {i \in Bits : (((256 - e) \div 2 ^ i) % 2) = 1}

NoCall ==
  [op |-> "none", on |-> FALSE, value |-> {}, alone |-> TRUE, sound |-> TRUE]

Goto(p, l) == pc' = [pc EXCEPT ![p] = l]
Neighbours(p) == {q \in Consumers \ {p} : bank(q) = bank(p)}
Changing(q) == pc[q] # "idle"
Undisturbed(p) == \A n \in Neighbours(p) : ~Changing(n)
Overtaken(q, p) == q \in Neighbours(p) /\ Changing(q)

-----------------------------------------------------------------------------
(* A call begins.  History: changes that overlap in a bank know it.        *)
Begin(p, op, on, l) ==
  /\ pc[p] = "idle" /\ <<p, op, on>> \in Requests
  /\ call' = [q \in Consumers |->
       IF q = p THEN [NoCall EXCEPT !.op = op, !.on = on, !.alone = Undisturbed(p)]
       ELSE IF Overtaken(q, p) THEN [call[q] EXCEPT !.alone = FALSE]
       ELSE call[q]]
  /\ Goto(p, l)
  /\ UNCHANGED <<chip, promise>>

mcp23016_set_value(p) == \E on \in BOOLEAN : Begin(p, "set", on, "set_read")
mcp23016_direction_output(p) ==
  \E on \in BOOLEAN : Begin(p, "output", on, "dir_read")
mcp23016_direction_input(p) == Begin(p, "input", FALSE, "dir_read")

(* What the consumer of a pin may rely on after call c.  set promises a    *)
(* value to an output alone, for the latch of an input takes whatever      *)
(* level the outside puts on the pin.  set does not report an error.       *)
Promised(p, c, sound) ==
  LET sure == c.alone /\ sound
      direction == CASE c.op = "output" /\ sure  -> "out"
                     [] c.op = "input" /\ sure   -> "in"
                     [] c.op \in {"input", "output"} /\ ~sure -> "unknown"
                     [] c.op = "set"             -> promise[p].direction
  IN  [direction |-> direction,
       value |-> IF direction = "out" /\ sure /\ c.op # "input"
                 THEN (IF c.on THEN "high" ELSE "low") ELSE "unknown"]

End(p, sound) ==
  /\ promise' = [promise EXCEPT ![p] = Promised(p, call[p], sound)]
  /\ call' = [call EXCEPT ![p] = NoCall]
  /\ Goto(p, "idle")

(* The result of the read is not tested: a failed one is a value, too, and *)
(* its low byte goes into the register.                                    *)
DirectionRead(p) ==
  /\ pc[p] = "dir_read"
  /\ \/ call' = [call EXCEPT ![p].value =
                   WithBit(iodir[bank(p)], p, call[p].op = "input")]
     \/ \E e \in Errors :
          call' = [call EXCEPT ![p].value =
                     WithBit(LowByte(e), p, call[p].op = "input"),
                     ![p].sound = FALSE]
  /\ Goto(p, "dir_write")
  /\ UNCHANGED <<chip, promise>>

(* History: garbage in the register breaks what was promised to the bank.  *)
DirectionsLost(p) ==
  [q \in Consumers |-> IF q \in Neighbours(p)
                       THEN [direction |-> "unknown", value |-> "unknown"]
                       ELSE promise[q]]

(* Nor is the result of the write, which when it fails may have changed    *)
(* the register or not.                                                    *)
DirectionWrite(p) ==
  /\ pc[p] = "dir_write"
  /\ \E written \in BOOLEAN, sound \in BOOLEAN :
       /\ sound => written
       /\ iodir' = IF written THEN [iodir EXCEPT ![bank(p)] = call[p].value] ELSE iodir
       /\ IF call[p].op = "input"
          THEN /\ call' = [call EXCEPT ![p] = NoCall]
               /\ Goto(p, "idle")
          ELSE /\ call' = [call EXCEPT ![p].sound = @ /\ sound]
               /\ Goto(p, "set_read")
       /\ LET mine == IF call[p].op = "input"
                      THEN Promised(p, call[p], call[p].sound /\ sound) ELSE promise[p]
              others == IF call[p].sound THEN promise ELSE DirectionsLost(p)
          IN  promise' = [others EXCEPT ![p] = mine]
  /\ UNCHANGED <<olat, level>>

(* mcp23016_set: a failed read ends it ...                                 *)
SetRead(p) ==
  /\ pc[p] = "set_read"
  /\ \/ /\ call' = [call EXCEPT ![p].value = WithBit(Status(bank(p)), p, call[p].on)]
        /\ Goto(p, "set_write")
        /\ UNCHANGED promise
     \/ End(p, FALSE)
  /\ UNCHANGED chip

(* ... and a failed write may have changed the latches or not.             *)
SetWrite(p) ==
  /\ pc[p] = "set_write"
  /\ \E written \in BOOLEAN, sound \in BOOLEAN :
       /\ sound => written
       /\ olat' = IF written THEN [olat EXCEPT ![bank(p)] = call[p].value] ELSE olat
       /\ End(p, call[p].sound /\ sound)
  /\ UNCHANGED <<iodir, level>>

-----------------------------------------------------------------------------
(* The outside changes the level of a pin.                                 *)
Change(p) ==
  /\ level' = [level EXCEPT ![bank(p)] = WithBit(@, p, bit(p) \notin @)]
  /\ UNCHANGED <<iodir, olat, pc, call, promise>>

(* Power on: every pin an input.                                           *)
Init ==
  /\ iodir = [b \in Banks |-> Bits]
  /\ olat = [b \in Banks |-> {}]
  /\ level = [b \in Banks |-> {}]
  /\ pc = [p \in Consumers |-> "idle"]
  /\ call = [p \in Consumers |-> NoCall]
  /\ promise = [p \in Consumers |-> [direction |-> "in", value |-> "unknown"]]

Request(p) ==
  \/ mcp23016_set_value(p)
  \/ mcp23016_direction_output(p) \/ mcp23016_direction_input(p)

Transfer(p) ==
  DirectionRead(p) \/ DirectionWrite(p) \/ SetRead(p) \/ SetWrite(p)

Next ==
  \/ \E p \in Consumers : Request(p) \/ Transfer(p)
  \/ \E p \in Wired : Change(p)

Spec == Init /\ [][Next]_vars

-----------------------------------------------------------------------------
Registers == [Banks -> SUBSET Bits]
Promises == [direction : {"in", "out", "unknown"}, value : {"high", "low", "unknown"}]
CallType ==
  [op : {"none", "set", "output", "input"}, on : BOOLEAN,
   value : SUBSET Bits, alone : BOOLEAN, sound : BOOLEAN]

(* Every variable keeps its type: no transfer writes more than a byte or   *)
(* to a register of no bank.                                               *)
TypeOK ==
  /\ iodir \in Registers /\ olat \in Registers
  /\ level \in Registers
  /\ pc \in [Consumers -> {"idle", "dir_read", "dir_write", "set_read", "set_write"}]
  /\ call \in [Consumers -> CallType]
  /\ promise \in [Consumers -> Promises]

(* The unlocked read-modify-write hurts the pins in the race and no other: *)
(* a pin keeps the direction and the level its consumer has last asked for *)
(* whatever is done to other pins, as long as its own last call met no     *)
(* failed transfer and no other call in its bank, and no direction of its  *)
(* bank has since been computed from a failed read.                        *)
PromisesKept ==
  \A p \in Consumers :
    LET b == bank(p)
        kept == promise[p]
    IN  ~Changing(p) =>
          /\ kept.direction = "in" => bit(p) \in iodir[b]
          /\ kept.direction = "out" => bit(p) \notin iodir[b]
          /\ kept.value = "high" => bit(p) \in olat[b]
          /\ kept.value = "low" => bit(p) \notin olat[b]

=============================================================================
