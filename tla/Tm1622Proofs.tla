---------------------------- MODULE Tm1622Proofs ----------------------------
(***************************************************************************)
(* Proofs about the segment display driver, for any size of the glass and  *)
(* of the buffer, any font, commands and texts: what the driver clocks out *)
(* bit by bit arrives as the nibbles it means to write.                    *)
(***************************************************************************)
EXTENDS Tm1622, SequenceTheorems, TLAPS

-----------------------------------------------------------------------------
(***************************************************************************)
(* Shifts: a value is taken apart from its highest bit to its lowest.      *)
(***************************************************************************)
LEMMA ShiftStep ==
    ASSUME NEW v \in Nat, NEW n \in 1..8
    PROVE  ShiftRight(v, n - 1) = 2 * ShiftRight(v, n) + (ShiftRight(v, n - 1) % 2)
<1>1. CASE n = 1  BY <1>1 DEF ShiftRight, Pow2
<1>2. CASE n = 2  BY <1>2 DEF ShiftRight, Pow2
<1>3. CASE n = 3  BY <1>3 DEF ShiftRight, Pow2
<1>4. CASE n = 4  BY <1>4 DEF ShiftRight, Pow2
<1>5. CASE n = 5  BY <1>5 DEF ShiftRight, Pow2
<1>6. CASE n = 6  BY <1>6 DEF ShiftRight, Pow2
<1>7. CASE n = 7  BY <1>7 DEF ShiftRight, Pow2
<1>8. CASE n = 8  BY <1>8 DEF ShiftRight, Pow2
<1> QED  BY <1>1, <1>2, <1>3, <1>4, <1>5, <1>6, <1>7, <1>8

LEMMA ShiftNone == ASSUME NEW v \in Nat PROVE ShiftRight(v, 0) = v
BY DEF ShiftRight, Pow2

LEMMA ShiftAll ==
    ASSUME NEW v \in Nat
    PROVE  /\ v < 8 => ShiftRight(v, 3) = 0
           /\ v < 16 => ShiftRight(v, 4) = 0
           /\ v < 64 => ShiftRight(v, 6) = 0
           /\ v < 256 => ShiftRight(v, 8) = 0
BY DEF ShiftRight, Pow2

LEMMA ShiftType ==
    ASSUME NEW v \in Nat, NEW n \in 0..12
    PROVE  ShiftRight(v, n) \in Nat
<1>1. Pow2[n + 1] \in Nat /\ Pow2[n + 1] > 0
  BY DEF Pow2
<1> QED  BY <1>1 DEF ShiftRight

(***************************************************************************)
(* Transactions.                                                           *)
(***************************************************************************)
Transactions == [type : {4, 5}, cmd : Bytes, addr : Addresses, nibs : Seq(Nibbles)]

\* A command has no nibbles.
Wellformed(t) == t \in Transactions /\ (t.type = 4 => t.nibs = <<>>)

Planned(p) == p \in Seq(Transactions) /\ \A i \in 1..Len(p) : Wellformed(p[i])

LEMMA SeqByIndex ==
    ASSUME NEW n \in Nat, NEW S, NEW f \in [1..n -> S]
    PROVE  f \in Seq(S) /\ Len(f) = n
<1>1. f \in Seq(S)
  BY SeqDef
<1> QED  BY <1>1, LenProperties

LEMMA CommandWellformed == \A cmd \in Nat : Wellformed(Command(cmd))
BY DEF Wellformed, Transactions, Command, Bytes, Addresses, Size

LEMMA WriteForm ==
    ASSUME NEW a \in Nat, NEW data \in Seq(Nat)
    PROVE  /\ Wellformed(Write(a, data))
           /\ Write(a, data).type = 5
           /\ Write(a, data).addr = a % 64
           /\ Len(Write(a, data).nibs) = Len(data)
           /\ \A i \in 1..Len(data) : Write(a, data).nibs[i] = data[i] % 16
<1> DEFINE nibs == [i \in 1..Len(data) |-> data[i] % 16]
<1>1. Len(data) \in Nat /\ \A i \in 1..Len(data) : data[i] \in Nat
  OBVIOUS
<1>2. nibs \in [1..Len(data) -> Nibbles]
  <2>1. \A v \in Nat : v % 16 \in Nibbles
    BY DEF Nibbles
  <2> QED  BY <1>1, <2>1
<1>3. nibs \in Seq(Nibbles) /\ Len(nibs) = Len(data)
  BY <1>1, <1>2, SeqByIndex
<1>4. a % 64 \in Addresses
  BY DEF Addresses, Size
<1> QED  BY <1>3, <1>4 DEF Write, Wellformed, Transactions, Bytes

LEMMA BytesRange == \A v \in Bytes : v \in Nat /\ v < 256
BY DEF Bytes

LEMMA AddressesRange == \A a \in Addresses : a \in Nat /\ a < 64
BY DEF Addresses, Size

LEMMA UnitForm ==
    ASSUME NEW t, Wellformed(t), NEW u \in 1..Units(t)
    PROVE  /\ UnitBits(t, u) \in 1..8
           /\ UnitValue(t, u) \in Nat
           /\ ShiftRight(UnitValue(t, u), UnitBits(t, u)) = 0
           /\ u > 2 => t.type = 5 /\ UnitValue(t, u) = t.nibs[u - 2] /\ UnitValue(t, u) \in Nibbles
<1>1. /\ t.type \in {4, 5} /\ t.cmd \in Bytes /\ t.addr \in Addresses /\ t.nibs \in Seq(Nibbles)
      /\ t.type = 4 => t.nibs = <<>>
  BY DEF Wellformed, Transactions
<1>2. Len(t.nibs) \in Nat /\ u \in Nat
  BY <1>1 DEF Units
<1>3. CASE u = 1
  BY <1>1, <1>3, ShiftAll DEF UnitBits, UnitValue
<1>4. CASE u = 2
  <2>1. CASE t.type = 4
    <3>1. UnitBits(t, u) = 8 /\ UnitValue(t, u) = t.cmd
      BY <1>4, <2>1 DEF UnitBits, UnitValue
    <3>2. t.cmd \in Nat /\ t.cmd < 256
      BY <1>1, BytesRange
    <3> QED  BY <1>4, <3>1, <3>2, ShiftAll
  <2>2. CASE t.type = 5
    <3>1. UnitBits(t, u) = 6 /\ UnitValue(t, u) = t.addr
      BY <1>4, <2>2 DEF UnitBits, UnitValue
    <3>2. t.addr \in Nat /\ t.addr < 64
      BY <1>1, AddressesRange
    <3> QED  BY <1>4, <3>1, <3>2, ShiftAll
  <2> QED  BY <1>1, <2>1, <2>2
<1>5. CASE u > 2
  <2>1. u - 2 \in 1..Len(t.nibs)
    BY <1>2, <1>5 DEF Units
  <2>2. t.nibs[u - 2] \in Nibbles
    BY <1>1, <2>1
  <2>3. t.type = 5
    BY <1>1, <2>1
  <2>4. UnitBits(t, u) = 4 /\ UnitValue(t, u) = t.nibs[u - 2]
    BY <1>5 DEF UnitBits, UnitValue
  <2>5. t.nibs[u - 2] \in Nat /\ t.nibs[u - 2] < 16
    BY <2>2 DEF Nibbles
  <2>6. ShiftRight(t.nibs[u - 2], 4) = 0
    BY <2>5, ShiftAll
  <2> QED  BY <1>5, <2>2, <2>3, <2>4, <2>5, <2>6
<1> QED  BY <1>2, <1>3, <1>4, <1>5

(***************************************************************************)
(* Types, with what the call in progress means to send.                    *)
(***************************************************************************)
Types ==
    /\ Planned(plan)
    /\ tx \in 1..(Len(plan) + 1)
    /\ cs \in {0, 1, Floating}
    /\ unit \in Nat /\ bits \in Nat /\ shift \in Nat /\ count \in Nat
    /\ addr \in Addresses
    /\ ram \in [Addresses -> Nibbles]
    /\ before \in [Addresses -> Nibbles]

(***************************************************************************)
(* While CS is low, driver and chip are at the same place: the chip's      *)
(* shift register holds the bits of the unit that the driver has sent, it  *)
(* knows what kind of unit it is, and where the next nibble goes.          *)
(***************************************************************************)
InStep ==
    cs = 0 =>
        /\ ~Idle
        /\ unit \in 1..(Units(plan[tx]) + 1)
        /\ unit <= Units(plan[tx]) =>
              /\ bits \in 1..UnitBits(plan[tx], unit)
              /\ count = UnitBits(plan[tx], unit) - bits
              /\ shift = ShiftRight(UnitValue(plan[tx], unit), bits)
        /\ unit > Units(plan[tx]) => bits = 0
        /\ phase = IF unit = 1 THEN "type"
                   ELSE IF plan[tx].type = 4 THEN "command"
                   ELSE IF unit = 2 THEN "addr" ELSE "data"
        /\ unit > 2 /\ plan[tx].type = 5 => addr = (plan[tx].addr + unit - 3) % 64

WireInv == Types /\ InStep

\* The commands of the transactions sent so far have arrived.
CommandsTaken ==
    \A i \in 1..Len(plan) :
        plan[i].type = 4 /\ (i < tx \/ (i = tx /\ cs = 0 /\ unit > 2)) => plan[i].cmd \in received

(***************************************************************************)
(* A call that writes single nibbles to addresses one after the other: so  *)
(* many have arrived, in their places, and all else is as before.          *)
(***************************************************************************)
IsRow(base) ==
    /\ base + Len(plan) <= Size
    /\ \A k \in 1..Len(plan) :
          plan[k].type = 5 /\ plan[k].addr = base + k - 1 /\ Len(plan[k].nibs) = 1

Arrived == (tx - 1) + (IF cs = 0 /\ unit > 3 THEN 1 ELSE 0)

RowTaken ==
    \A base \in Addresses : IsRow(base) =>
        \A a \in Addresses :
            ram[a] = IF a \in base..(base + Arrived - 1) THEN plan[a - base + 1].nibs[1] ELSE before[a]

\* A call that ends by clearing the memory, after commands only: so much of it is
\* dark, and the rest as before.
ClearsLast ==
    /\ Len(plan) > 0 /\ plan[Len(plan)] = SetAll(FALSE)
    /\ \A i \in 1..(Len(plan) - 1) : plan[i].type = 4

Dark ==
    IF Idle THEN BufLen
    ELSE IF tx = Len(plan) /\ cs = 0 /\ unit > 3 THEN unit - 3 ELSE 0

ClearTaken ==
    ClearsLast => Dark <= BufLen /\ \A a \in Addresses : ram[a] = IF a < Dark THEN 0 ELSE before[a]

\* The plan is the one of the call.
PlanOfCall ==
    /\ call.op = "init" => plan = IF call.ret = "ESP_OK" THEN InitSequence ELSE <<>>
    /\ call.op = "putc" =>
          IF call.digit < Digits
          THEN /\ call.digit \in 0..(Digits - 1) /\ call.pattern \in Patterns
               /\ plan = Put(call.digit, call.pattern)
          ELSE call.ret = "ESP_ERR_INVALID_ARG" /\ plan = <<>>
    /\ call.op = "puts" =>
          /\ call.s \in Strings /\ call.behind \in Patterns
          /\ plan = PutAll([d \in 1..Digits |-> Lookup(Shown(call.s)[d], call.behind)])

-----------------------------------------------------------------------------
(***************************************************************************)
(* What each call plans to send.                                           *)
(***************************************************************************)
LEMMA PlannedOne == ASSUME NEW t, Wellformed(t) PROVE Planned(<<t>>)
BY DEF Planned, Wellformed

LEMMA PlannedNone == Planned(<<>>)
BY DEF Planned

LEMMA PlannedFunction ==
    ASSUME NEW n \in Nat, NEW f, f = [i \in 1..n |-> f[i]], \A i \in 1..n : Wellformed(f[i])
    PROVE  Planned(f) /\ Len(f) = n
<1>1. f \in [1..n -> Transactions]
  BY DEF Wellformed
<1>2. f \in Seq(Transactions) /\ Len(f) = n
  BY <1>1, SeqByIndex
<1> QED  BY <1>2 DEF Planned

LEMMA SetAllForm ==
    ASSUME NEW on \in BOOLEAN
    PROVE  /\ Wellformed(SetAll(on))
           /\ SetAll(on).type = 5 /\ SetAll(on).addr = 0
           /\ Len(SetAll(on).nibs) = BufLen
           /\ \A i \in 1..BufLen : SetAll(on).nibs[i] = IF on THEN 15 ELSE 0
<1> DEFINE data == [i \in 1..BufLen |-> IF on THEN 15 ELSE 0]
<1>1. BufLen \in Nat
  BY TmAssumption DEF Size
<1>2. data \in [1..BufLen -> Nat]
  OBVIOUS
<1>3. data \in Seq(Nat) /\ Len(data) = BufLen
  BY <1>1, <1>2, SeqByIndex
<1>4. SetAll(on) = Write(0, data)
  BY DEF SetAll
<1>5. \A i \in 1..BufLen : data[i] = (IF on THEN 15 ELSE 0) /\ data[i] % 16 = data[i]
  OBVIOUS
<1> HIDE DEF data
<1> QED  BY <1>3, <1>4, <1>5, WriteForm

LEMMA PutNibbleForm ==
    ASSUME NEW d \in 0..(Digits - 1), NEW n \in 0..3, NEW p \in Patterns
    PROVE  /\ Wellformed(PutNibble(d, n, p))
           /\ PutNibble(d, n, p).type = 5
           /\ PutNibble(d, n, p).addr = d * 4 + n
           /\ d * 4 + n < Size
           /\ Len(PutNibble(d, n, p).nibs) = 1
           /\ PutNibble(d, n, p).nibs[1] = ShiftRight(p, 4 * n) % 16
<1>1. Digits \in 1..16 /\ p \in Nat
  <2>1. Digits \in 1..16
    BY TmAssumption
  <2>2. p \in Nat
    BY DEF Patterns
  <2> QED  BY <2>1, <2>2
<1>2. d * 4 + n \in Nat /\ d * 4 + n < 64 /\ (d * 4 + n) % 64 = d * 4 + n
  BY <1>1
<1>3. ShiftRight(p, 4 * n) \in Nat
  <2>1. 4 * n \in 0..12
    OBVIOUS
  <2> QED  BY <1>1, <2>1, ShiftType
<1> DEFINE v == ShiftRight(p, 4 * n)
<1>4. <<v>> \in Seq(Nat) /\ Len(<<v>>) = 1 /\ <<v>>[1] = v
  BY <1>3
<1>5. PutNibble(d, n, p) = Write(d * 4 + n, <<v>>)
  BY DEF PutNibble
<1> HIDE DEF v
<1>6. 1 \in 1..Len(<<v>>)
  BY <1>4
<1>7. /\ Wellformed(Write(d * 4 + n, <<v>>))
      /\ Write(d * 4 + n, <<v>>).type = 5
      /\ Write(d * 4 + n, <<v>>).addr = (d * 4 + n) % 64
      /\ Len(Write(d * 4 + n, <<v>>).nibs) = 1
      /\ Write(d * 4 + n, <<v>>).nibs[1] = v % 16
  BY <1>2, <1>4, <1>6, WriteForm
<1> QED  BY <1>2, <1>5, <1>7 DEF v, Size

LEMMA PutForm ==
    ASSUME NEW d \in 0..(Digits - 1), NEW p \in Patterns
    PROVE  /\ Planned(Put(d, p)) /\ Len(Put(d, p)) = 4
           /\ \A k \in 1..4 : Put(d, p)[k] = PutNibble(d, k - 1, p)
<1>1. \A k \in 1..4 : k - 1 \in 0..3 /\ Put(d, p)[k] = PutNibble(d, k - 1, p)
  BY DEF Put
<1>2. \A k \in 1..4 : Wellformed(Put(d, p)[k])
  BY <1>1, PutNibbleForm
<1>3. Put(d, p) = [k \in 1..4 |-> Put(d, p)[k]]
  BY DEF Put
<1> QED  BY <1>1, <1>2, <1>3, PlannedFunction

LEMMA PutAllForm ==
    ASSUME NEW p \in [1..Digits -> Patterns]
    PROVE  /\ Planned(PutAll(p)) /\ Len(PutAll(p)) = 4 * Digits
           /\ \A d \in 0..(Digits - 1), n \in 0..3 :
                 PutAll(p)[d * 4 + n + 1] = PutNibble(d, n, p[d + 1])
<1>1. Digits \in 1..16 /\ 4 * Digits \in Nat
  BY TmAssumption
<1>2. ASSUME NEW k \in 1..(4 * Digits)
      PROVE  /\ (k - 1) \div 4 \in 0..(Digits - 1) /\ (k - 1) % 4 \in 0..3
             /\ ((k - 1) \div 4) + 1 \in 1..Digits
  BY <1>1
<1>3. ASSUME NEW k \in 1..(4 * Digits)
      PROVE  Wellformed(PutAll(p)[k])
  <2>1. PutAll(p)[k] = PutNibble((k - 1) \div 4, (k - 1) % 4, p[((k - 1) \div 4) + 1])
    BY DEF PutAll
  <2>2. p[((k - 1) \div 4) + 1] \in Patterns
    BY <1>2
  <2> QED  BY <1>2, <2>1, <2>2, PutNibbleForm
<1>4. PutAll(p) = [k \in 1..(4 * Digits) |-> PutAll(p)[k]]
  BY DEF PutAll
<1>5. ASSUME NEW d \in 0..(Digits - 1), NEW n \in 0..3
      PROVE  PutAll(p)[d * 4 + n + 1] = PutNibble(d, n, p[d + 1])
  <2>1. /\ d * 4 + n + 1 \in 1..(4 * Digits)
        /\ (d * 4 + n + 1 - 1) \div 4 = d /\ (d * 4 + n + 1 - 1) % 4 = n
    BY <1>1
  <2> QED  BY <2>1 DEF PutAll
<1> QED  BY <1>1, <1>3, <1>4, <1>5, PlannedFunction

LEMMA InitSequenceForm ==
    /\ Planned(InitSequence) /\ Len(InitSequence) = Len(Commands) + 1
    /\ \A i \in 1..Len(Commands) : InitSequence[i].type = 4 /\ InitSequence[i].cmd = Commands[i]
    /\ InitSequence[Len(Commands) + 1] = SetAll(FALSE)
<1> DEFINE cmds == [i \in 1..Len(Commands) |-> Command(Commands[i])]
<1>1. Commands \in Seq(Bytes) /\ Len(Commands) \in Nat
  BY TmAssumption
<1>2. ASSUME NEW i \in 1..Len(Commands)
      PROVE  Wellformed(cmds[i]) /\ cmds[i].type = 4 /\ cmds[i].cmd = Commands[i]
  <2>1. Commands[i] \in Bytes
    BY <1>1
  <2>2. Commands[i] \in Nat /\ Commands[i] % 256 = Commands[i]
    <3>1. \A v \in Nat : v < 256 => v % 256 = v
      OBVIOUS
    <3> QED  BY <2>1, <3>1, BytesRange
  <2>3. Wellformed(Command(Commands[i]))
    BY <2>2, CommandWellformed
  <2> QED  BY <2>2, <2>3 DEF Command
<1>3. Planned(cmds) /\ Len(cmds) = Len(Commands)
  <2>1. cmds = [i \in 1..Len(Commands) |-> cmds[i]]
    OBVIOUS
  <2> QED  BY <1>1, <1>2, <2>1, PlannedFunction
<1>4. InitSequence = Append(cmds, SetAll(FALSE))
  BY DEF InitSequence
<1> HIDE DEF cmds
<1>5. Wellformed(SetAll(FALSE)) /\ SetAll(FALSE) \in Transactions
  BY SetAllForm DEF Wellformed
<1>6. cmds \in Seq(Transactions)
  BY <1>3 DEF Planned
<1>7. /\ InitSequence \in Seq(Transactions)
      /\ Len(InitSequence) = Len(Commands) + 1
      /\ InitSequence[Len(Commands) + 1] = SetAll(FALSE)
      /\ \A i \in 1..Len(Commands) : InitSequence[i] = cmds[i]
  <2> DEFINE last == SetAll(FALSE)
  <2>1. last \in Transactions
    BY <1>5
  <2> HIDE DEF last
  <2>2. /\ Append(cmds, last) \in Seq(Transactions)
        /\ Len(Append(cmds, last)) = Len(cmds) + 1
        /\ \A i \in 1..Len(cmds) : Append(cmds, last)[i] = cmds[i]
        /\ Append(cmds, last)[Len(cmds) + 1] = last
    BY <1>6, <2>1, AppendProperties
  <2>3. InitSequence = Append(cmds, last)
    BY <1>4 DEF last
  <2> QED  BY <1>3, <2>2, <2>3 DEF last
<1>8. \A i \in 1..Len(InitSequence) : i \in 1..Len(Commands) \/ i = Len(Commands) + 1
  BY <1>1, <1>7
<1>9. \A i \in 1..Len(InitSequence) : Wellformed(InitSequence[i])
  BY <1>2, <1>5, <1>7, <1>8
<1> QED  BY <1>2, <1>7, <1>9 DEF Planned

LEMMA LookupType ==
    ASSUME NEW c \in DOMAIN Font \cup {Outside}, NEW p \in Patterns
    PROVE  Lookup(c, p) \in Patterns
BY TmAssumption DEF Lookup

LEMMA ShownType ==
    ASSUME NEW s \in Strings, NEW d \in 1..Digits
    PROVE  /\ Shown(s)[d] = IF d <= Len(s) THEN s[d] ELSE Blank
           /\ Shown(s)[d] \in DOMAIN Font \cup {Outside}
<1>1. s \in Seq(DOMAIN Font \cup {Outside}) /\ Blank \in DOMAIN Font /\ Digits \in Nat
  BY TmAssumption
<1>2. Shown(s)[d] = IF d <= Len(s) THEN s[d] ELSE Blank
  BY DEF Shown
<1>3. CASE d <= Len(s)
  <2>1. Len(s) \in Nat /\ d \in 1..Len(s)
    BY <1>1, <1>3
  <2>2. s[d] \in DOMAIN Font \cup {Outside}
    BY <1>1, <2>1
  <2> QED  BY <1>2, <1>3, <2>2
<1>4. CASE ~(d <= Len(s))
  BY <1>1, <1>2, <1>4
<1> QED  BY <1>2, <1>3, <1>4

LEMMA ShownPatterns ==
    ASSUME NEW s \in Strings, NEW p \in Patterns
    PROVE  [d \in 1..Digits |-> Lookup(Shown(s)[d], p)] \in [1..Digits -> Patterns]
<1>1. ASSUME NEW d \in 1..Digits PROVE Lookup(Shown(s)[d], p) \in Patterns
  BY ShownType, LookupType
<1> QED  BY <1>1

Calls == CallInit \/ CallSetAll \/ CallCommand \/ CallWrite \/ CallPutc \/ CallPuts

\* Every call begins with a well-formed plan.
LEMMA CallBegins ==
    ASSUME Calls
    PROVE  /\ Idle /\ tx' = 1 /\ before' = ram
           /\ cs' \in {cs, 1}
           /\ UNCHANGED <<unit, bits, phase, shift, count, addr, received, ram>>
           /\ Planned(plan') /\ PlanOfCall'
<1>1. CASE CallInit
  <2>1. CASE Begin([op |-> "init", ret |-> "ESP_OK"], InitSequence) /\ cs' = 1
    BY <2>1, InitSequenceForm DEF Begin, PlanOfCall, chip
  <2>2. CASE Begin([op |-> "init", ret |-> "ESP_FAIL"], <<>>) /\ UNCHANGED cs
    BY <2>2, PlannedNone DEF Begin, PlanOfCall, chip
  <2> QED  BY <1>1, <2>1, <2>2 DEF CallInit
<1>2. CASE CallSetAll
  <2>1. PICK on \in BOOLEAN : Use([op |-> "set_all", on |-> on], <<SetAll(on)>>)
    BY <1>2 DEF CallSetAll
  <2>2. Planned(<<SetAll(on)>>)
    BY SetAllForm, PlannedOne
  <2> QED  BY <2>1, <2>2 DEF Begin, Use, PlanOfCall, chip
<1>3. CASE CallCommand
  <2>1. PICK i \in 1..Len(Commands) : Use([op |-> "command"], <<Command(Commands[i])>>)
    BY <1>3 DEF CallCommand
  <2>2. Commands[i] \in Nat
    BY TmAssumption, BytesRange
  <2>3. Planned(<<Command(Commands[i])>>)
    BY <2>2, CommandWellformed, PlannedOne
  <2> QED  BY <2>1, <2>3 DEF Begin, Use, PlanOfCall, chip
<1>4. CASE CallWrite
  <2>1. PICK a \in PokeAddrs, data \in PokeData : Use([op |-> "write"], <<Write(a, data)>>)
    BY <1>4 DEF CallWrite
  <2>2. a \in Nat /\ data \in Seq(Nat)
    <3>1. a \in Bytes /\ data \in Seq(Bytes)
      BY TmAssumption
    <3>2. Bytes \subseteq Nat
      BY BytesRange
    <3> QED  BY <3>1, <3>2, SeqMonotonic
  <2>3. Planned(<<Write(a, data)>>)
    BY <2>2, WriteForm, PlannedOne
  <2> QED  BY <2>1, <2>3 DEF Begin, Use, PlanOfCall, chip
<1>5. CASE CallPutc
  <2>1. PICK d \in 0..Digits, c \in DOMAIN Font \cup {Outside}, p \in Behind :
            LET made(ret) == [op |-> "putc", digit |-> d, pattern |-> Lookup(c, p), ret |-> ret]
            IN  IF d < Digits THEN Use(made("ESP_OK"), Put(d, Lookup(c, p)))
                ELSE Use(made("ESP_ERR_INVALID_ARG"), <<>>)
    BY <1>5 DEF CallPutc
  <2>2. Lookup(c, p) \in Patterns
    <3>1. p \in Patterns
      BY TmAssumption
    <3> QED  BY <3>1, LookupType
  <2> DEFINE q == Lookup(c, p)
  <2> HIDE DEF q
  <2>3. CASE d < Digits
    <3>1. d \in 0..(Digits - 1) /\ q \in Patterns
      BY <2>2, <2>3, TmAssumption DEF q
    <3>2. Use([op |-> "putc", digit |-> d, pattern |-> q, ret |-> "ESP_OK"], Put(d, q))
      BY <2>1, <2>3 DEF q
    <3>3. Planned(Put(d, q))
      BY <3>1, PutForm
    <3> QED  BY <2>3, <3>1, <3>2, <3>3 DEF Begin, Use, PlanOfCall, chip
  <2>4. CASE ~(d < Digits)
    <3>1. Use([op |-> "putc", digit |-> d, pattern |-> q, ret |-> "ESP_ERR_INVALID_ARG"], <<>>)
      BY <2>1, <2>4 DEF q
    <3> QED  BY <2>4, <3>1, PlannedNone DEF Begin, Use, PlanOfCall, chip
  <2> QED  BY <2>3, <2>4
<1>6. CASE CallPuts
  <2>1. PICK s \in Strings, p \in Behind :
            Use([op |-> "puts", s |-> s, behind |-> p],
                 PutAll([d \in 1..Digits |-> Lookup(Shown(s)[d], p)]))
    BY <1>6 DEF CallPuts
  <2>2. p \in Patterns
    BY TmAssumption
  <2>3. Planned(PutAll([d \in 1..Digits |-> Lookup(Shown(s)[d], p)]))
    BY <2>2, ShownPatterns, PutAllForm
  <2> QED  BY <2>1, <2>2, <2>3 DEF Begin, Use, PlanOfCall, chip
<1> QED  BY <1>1, <1>2, <1>3, <1>4, <1>5, <1>6 DEF Calls

-----------------------------------------------------------------------------
(***************************************************************************)
(* One pulse of WR: the chip's register takes the next bit, or with the    *)
(* last bit of a unit the chip accepts the very value the driver sent.     *)
(***************************************************************************)
LEMMA Current ==
    ASSUME Types, ~Idle
    PROVE  tx \in 1..Len(plan) /\ Wellformed(plan[tx]) /\ Units(plan[tx]) \in Nat \ {0, 1}
<1>1. Len(plan) \in Nat
  BY DEF Types, Planned
<1>2. tx \in 1..Len(plan)
  BY <1>1 DEF Types, Idle
<1>3. Wellformed(plan[tx])
  BY <1>2 DEF Types, Planned
<1>4. Len(plan[tx].nibs) \in Nat
  BY <1>3 DEF Wellformed, Transactions
<1> QED  BY <1>2, <1>3, <1>4 DEF Units

LEMMA LengthsAgree ==
    ASSUME WireInv, cs = 0, unit <= Units(plan[tx])
    PROVE  UnitLength = UnitBits(plan[tx], unit)
<1>1. /\ ~Idle /\ unit \in Nat
      /\ phase = IF unit = 1 THEN "type"
                 ELSE IF plan[tx].type = 4 THEN "command"
                 ELSE IF unit = 2 THEN "addr" ELSE "data"
  BY DEF WireInv, InStep, Types
<1>2. Wellformed(plan[tx])
  BY <1>1, Current DEF WireInv
<1>3. plan[tx].type = 4 => unit <= 2
  BY <1>2 DEF Wellformed, Units
<1>4. unit \in 1..(Units(plan[tx]) + 1) /\ Units(plan[tx]) \in Nat
  BY <1>1, Current DEF WireInv, InStep
<1>5. CASE unit = 1
  BY <1>1, <1>5 DEF UnitLength, UnitBits
<1>6. CASE unit = 2
  BY <1>1, <1>6 DEF UnitLength, UnitBits
<1>7. CASE unit > 2
  <2>1. phase = "data"
    BY <1>1, <1>3, <1>7
  <2> QED  BY <1>7, <2>1 DEF UnitLength, UnitBits
<1> QED  BY <1>4, <1>5, <1>6, <1>7

LEMMA Pulse ==
    ASSUME WireInv, WrPulse
    PROVE  /\ cs = 0 /\ ~Idle /\ unit \in 1..Units(plan[tx])
           /\ \/ /\ bits > 1 /\ bits' = bits - 1 /\ unit' = unit
                 /\ count' = count + 1
                 /\ shift' = ShiftRight(UnitValue(plan[tx], unit), bits - 1)
                 /\ UNCHANGED <<phase, addr, received, ram>>
              \/ /\ bits = 1 /\ unit' = unit + 1
                 /\ bits' = IF unit < Units(plan[tx]) THEN UnitBits(plan[tx], unit + 1) ELSE 0
                 /\ count' = 0 /\ shift' = 0
                 /\ Accept(UnitValue(plan[tx], unit))
<1> DEFINE v == UnitValue(plan[tx], unit)
           n == UnitBits(plan[tx], unit)
<1>1. cs = 0 /\ bits > 0
  BY DEF WrPulse
<1>2. /\ ~Idle /\ unit \in 1..(Units(plan[tx]) + 1) /\ unit \in Nat
      /\ unit > Units(plan[tx]) => bits = 0
  BY <1>1 DEF WireInv, InStep, Types
<1>3. Wellformed(plan[tx]) /\ Units(plan[tx]) \in Nat
  BY <1>2, Current DEF WireInv
<1>4. unit \in 1..Units(plan[tx])
  BY <1>1, <1>2, <1>3
<1>5. bits \in 1..n /\ count = n - bits /\ shift = ShiftRight(v, bits)
  BY <1>1, <1>4 DEF WireInv, InStep
<1>6. n \in 1..8 /\ v \in Nat
  BY <1>3, <1>4, UnitForm
<1>7. UnitLength = n
  BY <1>1, <1>4, LengthsAgree
<1>8. SentBit = ShiftRight(v, bits - 1) % 2
  BY DEF SentBit
<1> HIDE DEF v, n
<1>9. bits \in 1..8 /\ bits \in Nat
  BY <1>5, <1>6
<1>10. 2 * shift + SentBit = ShiftRight(v, bits - 1)
  BY <1>5, <1>6, <1>8, <1>9, ShiftStep
<1>11. CASE bits > 1
  <2>1. count + 1 # UnitLength
    BY <1>5, <1>6, <1>7, <1>9, <1>11
  <2>2. Receive(SentBit) /\ Advance
    BY DEF WrPulse
  <2> QED  BY <1>1, <1>2, <1>4, <1>10, <1>11, <2>1, <2>2 DEF Receive, Advance, v
<1>12. CASE bits = 1
  <2>1. count + 1 = UnitLength
    BY <1>5, <1>6, <1>7, <1>9, <1>12
  <2>2. 2 * shift + SentBit = v
    BY <1>6, <1>10, <1>12, ShiftNone
  <2>3. Receive(SentBit) /\ Advance
    BY DEF WrPulse
  <2>4. shift' = 0 /\ count' = 0 /\ Accept(v)
    BY <2>1, <2>2, <2>3 DEF Receive
  <2>5. /\ unit' = unit + 1
        /\ bits' = IF unit < Units(plan[tx]) THEN UnitBits(plan[tx], unit + 1) ELSE 0
    BY <1>12, <2>3 DEF Advance
  <2> QED  BY <1>1, <1>2, <1>4, <1>12, <2>4, <2>5 DEF v
<1> QED  BY <1>9, <1>11, <1>12

(***************************************************************************)
(* What the chip makes of it depends on where in the transaction it is.    *)
(***************************************************************************)
LEMMA Accepts ==
    ASSUME WireInv, WrPulse, bits = 1
    PROVE  LET t == plan[tx] IN
           /\ unit = 1 =>
                 /\ phase' = IF t.type = 4 THEN "command" ELSE "addr"
                 /\ UNCHANGED <<addr, received, ram>>
           /\ unit = 2 /\ t.type = 4 =>
                 received' = received \cup {t.cmd} /\ UNCHANGED <<phase, addr, ram>>
           /\ unit = 2 /\ t.type # 4 =>
                 phase' = "data" /\ addr' = t.addr /\ UNCHANGED <<received, ram>>
           /\ unit > 2 =>
                 /\ t.type = 5 /\ t.nibs[unit - 2] \in Nibbles
                 /\ ram' = [ram EXCEPT ![addr] = t.nibs[unit - 2]]
                 /\ addr' = (addr + 1) % Size
                 /\ UNCHANGED <<phase, received>>
<1> DEFINE t == plan[tx]
<1>1. /\ cs = 0 /\ ~Idle /\ unit \in 1..Units(t)
      /\ Accept(UnitValue(t, unit))
  BY Pulse
<1>2. Wellformed(t) /\ Units(t) \in Nat
  BY <1>1, Current DEF WireInv
<1>3. phase = IF unit = 1 THEN "type"
              ELSE IF t.type = 4 THEN "command"
              ELSE IF unit = 2 THEN "addr" ELSE "data"
  BY <1>1 DEF WireInv, InStep
<1> HIDE DEF t
<1>4. CASE unit = 1
  BY <1>1, <1>3, <1>4 DEF Accept, UnitValue, t
<1>5. CASE unit = 2
  BY <1>1, <1>3, <1>5 DEF Accept, UnitValue, t
<1>6. CASE unit > 2
  <2>1. t.type = 5 /\ UnitValue(t, unit) = t.nibs[unit - 2] /\ t.nibs[unit - 2] \in Nibbles
    BY <1>1, <1>2, <1>6, UnitForm
  <2>2. phase = "data"
    BY <1>1, <1>2, <1>3, <1>6, <2>1
  <2> QED  BY <1>1, <1>6, <2>1, <2>2 DEF Accept, t
<1>7. unit = 1 \/ unit = 2 \/ unit > 2
  BY <1>1, <1>2
<1> QED  BY <1>4, <1>5, <1>6, <1>7 DEF t

LEMMA InitWire == TmInit => WireInv
<1> SUFFICES ASSUME TmInit PROVE WireInv
  OBVIOUS
<1>1. Planned(plan) /\ Len(plan) = 0
  BY PlannedNone DEF TmInit
<1>2. 0 \in Addresses /\ 15 \in Nibbles
  BY DEF Addresses, Size, Nibbles
<1>3. ram \in [Addresses -> Nibbles] /\ before \in [Addresses -> Nibbles]
  BY <1>2 DEF TmInit
<1> QED  BY <1>1, <1>2, <1>3 DEF TmInit, WireInv, Types, InStep

LEMMA CallsWire ==
    ASSUME WireInv, Calls
    PROVE  WireInv'
<1>1. /\ Idle /\ tx' = 1 /\ before' = ram
      /\ cs' \in {cs, 1}
      /\ UNCHANGED <<unit, bits, phase, shift, count, addr, received, ram>>
      /\ Planned(plan')
  BY CallBegins
<1>2. cs' # 0
  BY <1>1 DEF WireInv, InStep
<1>3. Len(plan') \in Nat
  BY <1>1 DEF Planned
<1>4. Types'
  BY <1>1, <1>3 DEF WireInv, Types, Planned
<1> QED  BY <1>1, <1>2, <1>4 DEF WireInv, InStep

LEMMA SelectWire ==
    ASSUME WireInv, Select
    PROVE  WireInv'
<1>1. /\ ~Idle /\ UNCHANGED <<plan, tx, addr, received, ram, before>>
      /\ cs' = 0 /\ unit' = 1 /\ bits' = 3 /\ phase' = "type" /\ shift' = 0 /\ count' = 0
  BY DEF Select, UnitBits
<1>2. Wellformed(plan[tx]) /\ Units(plan[tx]) \in Nat \ {0, 1}
  BY <1>1, Current DEF WireInv
<1>3. UnitBits(plan[tx], 1) = 3 /\ UnitValue(plan[tx], 1) = plan[tx].type
  BY DEF UnitBits, UnitValue
<1>4. ShiftRight(plan[tx].type, 3) = 0
  <2>1. plan[tx].type \in {4, 5}
    BY <1>2 DEF Wellformed, Transactions
  <2> QED  BY <2>1, ShiftAll
<1>5. Types'
  BY <1>1 DEF WireInv, Types
<1>6. ~Idle'
  BY <1>1 DEF Idle
<1>7. InStep'
  BY <1>1, <1>2, <1>3, <1>4, <1>6 DEF InStep
<1> QED  BY <1>5, <1>7 DEF WireInv

LEMMA WrPulseWire ==
    ASSUME WireInv, WrPulse
    PROVE  WireInv'
<1> DEFINE t == plan[tx]
<1>1. /\ cs = 0 /\ ~Idle /\ unit \in 1..Units(t)
      /\ cs' = cs /\ UNCHANGED <<plan, tx, before>>
  BY Pulse DEF WrPulse
<1>2. Wellformed(t) /\ Units(t) \in Nat \ {0, 1}
  BY <1>1, Current DEF WireInv
<1>3. /\ bits \in 1..UnitBits(t, unit)
      /\ count = UnitBits(t, unit) - bits
      /\ phase = IF unit = 1 THEN "type"
                 ELSE IF t.type = 4 THEN "command"
                 ELSE IF unit = 2 THEN "addr" ELSE "data"
      /\ unit > 2 /\ t.type = 5 => addr = (t.addr + unit - 3) % 64
  BY <1>1, <1>2 DEF WireInv, InStep
<1>4. UnitBits(t, unit) \in 1..8 /\ UnitValue(t, unit) \in Nat
  BY <1>1, <1>2, UnitForm
<1>5. t' = t /\ ~Idle'
  BY <1>1 DEF Idle
<1>6. /\ addr \in Addresses /\ ram \in [Addresses -> Nibbles]
      /\ t.addr \in Addresses /\ t.type \in {4, 5}
  BY <1>2 DEF WireInv, Types, Wellformed, Transactions
<1>7. CASE bits > 1
  <2>1. /\ bits' = bits - 1 /\ unit' = unit /\ count' = count + 1
        /\ shift' = ShiftRight(UnitValue(t, unit), bits - 1)
        /\ UNCHANGED <<phase, addr, received, ram>>
    BY <1>7, Pulse
  <2>2. bits - 1 \in 0..12
    BY <1>3, <1>4
  <2>3. shift' \in Nat /\ count' \in Nat
    <3>1. ShiftRight(UnitValue(t, unit), bits - 1) \in Nat
      BY <1>4, <2>2, ShiftType
    <3>2. count \in Nat
      BY DEF WireInv, Types
    <3> QED  BY <2>1, <3>1, <3>2
  <2>4. Types'
    BY <1>1, <1>3, <1>4, <1>7, <2>1, <2>3 DEF WireInv, Types
  <2>5. InStep'
    <3>1. bits' \in 1..UnitBits(t, unit) /\ count' = UnitBits(t, unit) - bits'
      BY <1>3, <1>4, <1>7, <2>1
    <3> HIDE DEF t
    <3> QED  BY <1>1, <1>2, <1>3, <1>5, <2>1, <3>1 DEF InStep, t
  <2> QED  BY <2>4, <2>5 DEF WireInv
<1>8. CASE bits = 1
  <2>1. /\ unit' = unit + 1 /\ count' = 0 /\ shift' = 0
        /\ bits' = IF unit < Units(t) THEN UnitBits(t, unit + 1) ELSE 0
    BY <1>8, Pulse
  <2>2. /\ addr' \in Addresses /\ ram' \in [Addresses -> Nibbles]
        /\ phase' = IF t.type = 4 THEN "command"
                    ELSE IF unit = 1 THEN "addr" ELSE "data"
        /\ unit = 2 /\ t.type # 4 => addr' = t.addr
        /\ unit > 2 => addr' = (addr + 1) % 64
    <3>1. CASE unit = 1
      BY <1>6, <1>8, <3>1, Accepts
    <3>2. CASE unit = 2
      BY <1>3, <1>6, <1>8, <3>2, Accepts
    <3>3. CASE unit > 2
      <4>1. /\ t.type = 5 /\ t.nibs[unit - 2] \in Nibbles
            /\ ram' = [ram EXCEPT ![addr] = t.nibs[unit - 2]]
            /\ addr' = (addr + 1) % 64
            /\ phase' = phase
        BY <1>8, <3>3, Accepts DEF Size
      <4>2. (addr + 1) % 64 \in Addresses
        BY <1>6 DEF Addresses, Size
      <4>3. ram' \in [Addresses -> Nibbles]
        BY <1>6, <4>1
      <4> QED  BY <1>3, <3>3, <4>1, <4>2, <4>3
    <3> QED  BY <1>1, <1>2, <3>1, <3>2, <3>3
  <2>3. unit < Units(t) => /\ unit + 1 \in 1..Units(t)
                           /\ UnitBits(t, unit + 1) \in 1..8
                           /\ ShiftRight(UnitValue(t, unit + 1), UnitBits(t, unit + 1)) = 0
    <3>1. unit < Units(t) => unit + 1 \in 1..Units(t)
      BY <1>1, <1>2
    <3> QED  BY <1>2, <3>1, UnitForm
  <2>4. Types'
    BY <1>1, <2>1, <2>2, <2>3 DEF WireInv, Types
  <2>5. unit' > 2 /\ t.type = 5 => addr' = (t.addr + unit' - 3) % 64
    <3>1. CASE unit = 2 /\ t.type = 5
      <4>1. t.addr \in 0..63
        BY <1>6 DEF Addresses, Size
      <4>2. (t.addr + unit' - 3) % 64 = t.addr
        BY <2>1, <3>1, <4>1
      <4> QED  BY <2>2, <3>1, <4>2
    <3>2. CASE unit > 2 /\ t.type = 5
      <4>1. addr = (t.addr + unit - 3) % 64 /\ addr' = (addr + 1) % 64
        BY <1>3, <2>2, <3>2
      <4>2. t.addr + unit - 3 \in Nat
        BY <1>1, <1>2, <1>6, <3>2 DEF Addresses, Size
      <4>3. \A x \in Nat : (((x % 64) + 1) % 64) = (x + 1) % 64
        OBVIOUS
      <4>4. addr' = (t.addr + unit - 3 + 1) % 64
        BY <4>1, <4>2, <4>3
      <4>5. t.addr + unit - 3 + 1 = t.addr + unit' - 3
        BY <1>1, <1>2, <1>6, <2>1 DEF Addresses, Size
      <4> QED  BY <4>4, <4>5
    <3> QED  BY <1>1, <1>2, <2>1, <3>1, <3>2
  <2>6. InStep'
    <3>1. unit' \in 1..(Units(t) + 1) /\ unit' # 1 /\ (unit' = 2 <=> unit = 1)
      BY <1>1, <1>2, <2>1
    <3>2. unit' <= Units(t) => unit < Units(t)
      BY <1>1, <1>2, <2>1
    <3>3. unit' > Units(t) => bits' = 0
      BY <1>1, <1>2, <2>1
    <3>4. unit' <= Units(t) =>
             /\ bits' \in 1..UnitBits(t, unit')
             /\ count' = UnitBits(t, unit') - bits'
             /\ shift' = ShiftRight(UnitValue(t, unit'), bits')
      BY <2>1, <2>3, <3>2
    <3>5. phase' = IF unit' = 1 THEN "type"
                   ELSE IF t.type = 4 THEN "command"
                   ELSE IF unit' = 2 THEN "addr" ELSE "data"
      BY <2>2, <3>1
    <3> HIDE DEF t
    <3> QED  BY <1>1, <1>5, <2>5, <3>1, <3>3, <3>4, <3>5 DEF InStep, t
  <2> QED  BY <2>4, <2>6 DEF WireInv
<1>9. bits = 1 \/ bits > 1
  BY <1>3, <1>4
<1> QED  BY <1>7, <1>8, <1>9

LEMMA DeselectWire ==
    ASSUME WireInv, Deselect
    PROVE  WireInv'
<1>1. /\ ~Idle /\ cs' = 1 /\ tx' = tx + 1
      /\ UNCHANGED <<plan, unit, bits, phase, shift, count, addr, received, ram, before>>
  BY DEF Deselect, WireInv, InStep, chip
<1>2. tx \in 1..Len(plan) /\ Len(plan) \in Nat
  BY <1>1, Current DEF WireInv, Types, Planned
<1>3. Types'
  BY <1>1, <1>2 DEF WireInv, Types
<1> QED  BY <1>1, <1>3 DEF WireInv, InStep

LEMMA NextWire == WireInv /\ [TmNext]_tmVars => WireInv'
<1> SUFFICES ASSUME WireInv, [TmNext]_tmVars PROVE WireInv'
  OBVIOUS
<1>1. CASE UNCHANGED tmVars
  BY <1>1 DEF tmVars, chip, WireInv, Types, InStep, Idle
<1> QED  BY <1>1, CallsWire, SelectWire, WrPulseWire, DeselectWire DEF TmNext, Calls, Drive

LEMMA WireAlways == TmSpec => []WireInv
BY InitWire, NextWire, PTL DEF TmSpec

-----------------------------------------------------------------------------
(***************************************************************************)
(* Refinement: a nibble is taken with the last of its bits, and a block is *)
(* finished when CS rises; everything else is a stutter, save the call.    *)
(***************************************************************************)
LEMMA MeantForm ==
    ASSUME NEW p, Planned(p)
    PROVE  LET blocks == [i \in 1..Len(p) |-> [addr |-> p[i].addr, nibs |-> p[i].nibs]]
           IN  blocks \in Seq(Memory!Blocks) /\ Len(blocks) = Len(p)
<1> DEFINE blocks == [i \in 1..Len(p) |-> [addr |-> p[i].addr, nibs |-> p[i].nibs]]
<1>1. Len(p) \in Nat /\ \A i \in 1..Len(p) : p[i] \in Transactions
  BY DEF Planned
<1>2. blocks \in [1..Len(p) -> Memory!Blocks]
  BY <1>1 DEF Memory!Blocks, Memory!Addresses, Transactions, Addresses
<1>3. blocks \in Seq(Memory!Blocks) /\ Len(blocks) = Len(p)
  <2> HIDE DEF blocks
  <2> QED  BY <1>1, <1>2, SeqByIndex
<1> QED  BY <1>3

LEMMA InitRefines == TmInit => Memory!Init
<1> SUFFICES ASSUME TmInit PROVE Memory!Init
  OBVIOUS
<1>1. ram \in [Addresses -> Nibbles]
  BY InitWire DEF WireInv, Types
<1>2. Len(plan) = 0 /\ Meant = <<>>
  BY DEF TmInit, Meant
<1> QED  BY <1>1, <1>2 DEF TmInit, Memory!Init, Memory!Addresses, Addresses, Taken

LEMMA StepRefines == WireInv /\ [TmNext]_tmVars => [Memory!Next]_(Memory!vars)
<1> SUFFICES ASSUME WireInv, [TmNext]_tmVars PROVE [Memory!Next]_(Memory!vars)
  OBVIOUS
<1>0. /\ Planned(plan) /\ Len(plan) \in Nat /\ Len(Meant) = Len(plan)
      /\ \A i \in 1..Len(plan) : Meant[i].addr = plan[i].addr /\ Meant[i].nibs = plan[i].nibs
  BY MeantForm DEF WireInv, Types, Planned, Meant
<1>1. CASE Calls
  <2>1. /\ Idle /\ tx' = 1 /\ cs' \in {cs, 1} /\ UNCHANGED <<unit, ram>> /\ Planned(plan')
    BY <1>1, CallBegins
  <2>2. Meant' \in Seq(Memory!Blocks)
    BY <2>1, MeantForm DEF Meant
  <2>3. cs # 0 /\ cs' # 0
    BY <2>1 DEF WireInv, InStep
  <2>4. Memory!Begin
    BY <1>0, <2>1, <2>2, <2>3 DEF Memory!Begin, Idle, Taken
  <2> QED  BY <2>4 DEF Memory!Next
<1>2. CASE Select
  <2>1. cs = 1 /\ unit' = 1 /\ UNCHANGED <<plan, tx, ram>>
    BY <1>2 DEF Select
  <2>2. Meant' = Meant /\ Taken' = Taken
    BY <2>1 DEF Meant, Taken
  <2> QED  BY <2>1, <2>2 DEF Memory!vars
<1>3. CASE WrPulse
  <2>1. /\ cs = 0 /\ cs' = cs /\ ~Idle /\ unit \in 1..Units(plan[tx]) /\ UNCHANGED <<plan, tx>>
    BY <1>3, Pulse DEF WrPulse
  <2>2. /\ tx \in 1..Len(plan) /\ Wellformed(plan[tx]) /\ unit \in Nat
    BY <2>1, Current DEF WireInv, Types
  <2>3. Meant' = Meant
    BY <2>1 DEF Meant
  <2>4. CASE bits = 1 /\ unit > 2
    <3> DEFINE t == plan[tx]
    <3>1. /\ unit' = unit + 1
          /\ t.nibs[unit - 2] \in Nibbles /\ t.type = 5
          /\ ram' = [ram EXCEPT ![addr] = t.nibs[unit - 2]]
      BY <1>3, <2>4, Pulse, Accepts
    <3>2. addr = (t.addr + unit - 3) % 64
      BY <2>1, <2>4, <3>1 DEF WireInv, InStep
    <3>3. t.addr \in Nat /\ Len(t.nibs) \in Nat
      BY <2>2, AddressesRange DEF Wellformed, Transactions
    <3>4. Taken = unit - 3 /\ Taken' = Taken + 1
      BY <2>1, <2>2, <2>4, <3>1 DEF Taken
    <3>5. /\ Taken < Len(t.nibs) /\ Taken + 1 = unit - 2
          /\ t.addr + Taken = t.addr + unit - 3
      BY <2>1, <2>2, <3>3, <3>4 DEF Units
    <3>6. Meant[tx].addr = t.addr /\ Meant[tx].nibs = t.nibs /\ tx <= Len(Meant)
      BY <1>0, <2>2
    <3>7. Memory!Take
      BY <2>1, <2>3, <3>1, <3>2, <3>4, <3>5, <3>6 DEF Memory!Take, Size
    <3> QED  BY <3>7 DEF Memory!Next
  <2>5. CASE ~(bits = 1 /\ unit > 2)
    <3>1. ram' = ram /\ Taken' = Taken
      <4>1. CASE bits > 1
        BY <1>3, <2>1, <4>1, Pulse DEF Taken
      <4>2. CASE bits = 1
        <5>1. unit' = unit + 1 /\ (unit = 1 \/ unit = 2)
          BY <1>3, <2>1, <2>2, <2>5, <4>2, Pulse
        <5>2. ram' = ram
          BY <1>3, <4>2, <5>1, Accepts
        <5> QED  BY <2>1, <2>2, <5>1, <5>2 DEF Taken
      <4> QED  BY <1>3, <4>1, <4>2, Pulse
    <3> QED  BY <2>1, <2>3, <3>1 DEF Memory!vars
  <2> QED  BY <2>4, <2>5
<1>4. CASE Deselect
  <2>1. /\ cs = 0 /\ bits = 0 /\ cs' = 1 /\ tx' = tx + 1 /\ UNCHANGED <<plan, unit, ram>>
    BY <1>4 DEF Deselect, chip
  <2>2. /\ ~Idle /\ unit \in 1..(Units(plan[tx]) + 1)
        /\ unit <= Units(plan[tx]) => bits \in 1..UnitBits(plan[tx], unit)
    BY <2>1 DEF WireInv, InStep
  <2>3. tx \in 1..Len(plan) /\ Wellformed(plan[tx]) /\ Units(plan[tx]) \in Nat
    BY <2>2, Current DEF WireInv
  <2>4. unit = Units(plan[tx]) + 1
    BY <2>1, <2>2, <2>3
  <2>5. Len(plan[tx].nibs) \in Nat
    BY <2>3 DEF Wellformed, Transactions
  <2>6. Taken = Len(plan[tx].nibs) /\ Taken' = 0
    BY <2>1, <2>4, <2>5 DEF Taken, Units
  <2>7. Meant' = Meant /\ Meant[tx].nibs = plan[tx].nibs /\ tx <= Len(Meant)
    BY <1>0, <2>1, <2>3 DEF Meant
  <2>8. Memory!Finish
    BY <2>1, <2>6, <2>7 DEF Memory!Finish
  <2> QED  BY <2>8 DEF Memory!Next
<1>5. CASE UNCHANGED tmVars
  BY <1>5 DEF tmVars, chip, Memory!vars, Meant, Taken
<1> QED  BY <1>1, <1>2, <1>3, <1>4, <1>5 DEF TmNext, Calls, Drive

\* The chip's memory takes exactly the nibbles each call means to write, in
\* their order and at their addresses, for every plan the driver can make.
THEOREM WiresCarryNibbles == TmSpec => Memory!Safety
BY InitRefines, StepRefines, WireAlways, PTL DEF TmSpec, Memory!Safety

-----------------------------------------------------------------------------
(***************************************************************************)
(* What has arrived in the middle of a call.  Each invariant is set anew   *)
(* by the next call and is disturbed only by the pulse that ends a unit.   *)
(***************************************************************************)
LEMMA PlanStays == Drive \/ UNCHANGED tmVars => UNCHANGED <<plan, call, before>>
BY DEF Drive, Select, WrPulse, Deselect, tmVars

LEMMA InitPlan == TmInit => PlanOfCall
BY DEF TmInit, PlanOfCall

LEMMA NextPlan == PlanOfCall /\ [TmNext]_tmVars => PlanOfCall'
<1> SUFFICES ASSUME PlanOfCall, [TmNext]_tmVars PROVE PlanOfCall'
  OBVIOUS
<1>1. CASE Calls
  BY <1>1, CallBegins
<1>2. CASE Drive \/ UNCHANGED tmVars
  BY <1>2, PlanStays DEF PlanOfCall
<1> QED  BY <1>1, <1>2 DEF TmNext, Calls

LEMMA InitCommands == TmInit => CommandsTaken
BY DEF TmInit, CommandsTaken

LEMMA NextCommands == WireInv /\ CommandsTaken /\ [TmNext]_tmVars => CommandsTaken'
<1> SUFFICES ASSUME WireInv, CommandsTaken, [TmNext]_tmVars,
                    NEW i \in 1..Len(plan'), plan'[i].type = 4,
                    i < tx' \/ (i = tx' /\ cs' = 0 /\ unit' > 2)
             PROVE  plan'[i].cmd \in received'
  BY DEF CommandsTaken
<1>0. /\ i \in Nat /\ tx \in Nat /\ unit \in Nat /\ cs \in {0, 1, Floating}
      /\ received \subseteq received'
  <2>1. i \in Nat
    <3>1. WireInv'
      BY NextWire
    <3> QED  BY <3>1 DEF WireInv, Types, Planned
  <2>2. received \subseteq received'
    <3>1. CASE WrPulse
      BY <3>1, Pulse DEF Accept
    <3>2. CASE ~WrPulse
      BY <3>2, CallBegins DEF TmNext, Calls, Drive, Select, Deselect, tmVars, chip
    <3> QED  BY <3>1, <3>2
  <2> QED  BY <2>1, <2>2 DEF WireInv, Types
<1>1. CASE Calls
  BY <1>0, <1>1, CallBegins DEF WireInv, InStep
<1>2. CASE Select
  <2>1. i < tx /\ plan' = plan
    BY <1>2 DEF Select
  <2> QED  BY <1>0, <2>1 DEF CommandsTaken
<1>3. CASE WrPulse
  <2>1. /\ plan' = plan /\ tx' = tx /\ cs' = cs /\ cs = 0 /\ ~Idle /\ unit \in 1..Units(plan[tx])
    BY <1>3, Pulse DEF WrPulse
  <2>2. CASE i < tx \/ unit > 2
    BY <1>0, <2>1, <2>2 DEF CommandsTaken
  <2>3. CASE i = tx /\ unit <= 2
    <3>1. bits = 1 /\ unit = 2
      BY <1>0, <1>3, <2>1, <2>3, Pulse
    <3>2. received' = received \cup {plan[tx].cmd}
      BY <1>3, <2>1, <2>3, <3>1, Accepts
    <3> QED  BY <2>1, <2>3, <3>2
  <2> QED  BY <1>0, <2>1, <2>2, <2>3
<1>4. CASE Deselect
  <2>1. /\ plan' = plan /\ tx' = tx + 1 /\ cs = 0 /\ cs' = 1 /\ bits = 0
    BY <1>4 DEF Deselect
  <2>2. /\ ~Idle /\ unit \in 1..(Units(plan[tx]) + 1)
        /\ unit <= Units(plan[tx]) => bits \in 1..UnitBits(plan[tx], unit)
    BY <2>1 DEF WireInv, InStep
  <2>3. unit > 2
    <3>1. Units(plan[tx]) \in Nat \ {0, 1}
      BY <2>2, Current DEF WireInv
    <3> QED  BY <2>1, <2>2, <3>1
  <2>4. i < tx \/ i = tx
    BY <1>0, <2>1
  <2> QED  BY <1>0, <2>1, <2>3, <2>4 DEF CommandsTaken
<1>5. CASE UNCHANGED tmVars
  BY <1>5 DEF CommandsTaken, tmVars, chip
<1> QED  BY <1>1, <1>2, <1>3, <1>4, <1>5 DEF TmNext, Calls, Drive

\* A pulse ends a nibble and the memory changes, or the memory stays.
LEMMA PulseRam ==
    ASSUME WireInv, WrPulse
    PROVE  /\ cs = 0 /\ ~Idle /\ tx \in 1..Len(plan) /\ unit \in 1..Units(plan[tx])
           /\ UNCHANGED <<cs, plan, tx, before>>
           /\ \/ ram' = ram /\ (unit' = unit \/ (unit' = unit + 1 /\ unit <= 2))
              \/ /\ unit > 2 /\ unit' = unit + 1
                 /\ plan[tx].type = 5
                 /\ ram' = [ram EXCEPT ![(plan[tx].addr + unit - 3) % 64] = plan[tx].nibs[unit - 2]]
<1>1. /\ cs = 0 /\ ~Idle /\ unit \in 1..Units(plan[tx]) /\ UNCHANGED <<cs, plan, tx, before>>
  BY Pulse DEF WrPulse
<1>2. tx \in 1..Len(plan) /\ Units(plan[tx]) \in Nat
  BY <1>1, Current DEF WireInv
<1>3. CASE bits > 1
  BY <1>1, <1>2, <1>3, Pulse
<1>4. CASE bits = 1 /\ unit <= 2
  <2>1. unit = 1 \/ unit = 2
    BY <1>1, <1>2, <1>4
  <2>2. ram' = ram
    BY <1>4, <2>1, Accepts
  <2> QED  BY <1>1, <1>2, <1>4, <2>2, Pulse
<1>5. CASE bits = 1 /\ unit > 2
  <2>1. /\ plan[tx].type = 5
        /\ ram' = [ram EXCEPT ![addr] = plan[tx].nibs[unit - 2]]
        /\ unit' = unit + 1
    BY <1>5, Accepts, Pulse
  <2>2. addr = (plan[tx].addr + unit - 3) % 64
    BY <1>1, <1>2, <1>5, <2>1 DEF WireInv, InStep
  <2> QED  BY <1>1, <1>2, <1>5, <2>1, <2>2
<1> QED  BY <1>1, <1>2, <1>3, <1>4, <1>5, Pulse

\* CS rises after the last unit.
LEMMA AtDeselect ==
    ASSUME WireInv, Deselect
    PROVE  /\ cs = 0 /\ cs' = 1 /\ tx' = tx + 1 /\ tx \in 1..Len(plan)
           /\ unit = Units(plan[tx]) + 1
           /\ UNCHANGED <<plan, unit, ram, before>>
<1>1. /\ cs = 0 /\ bits = 0 /\ cs' = 1 /\ tx' = tx + 1 /\ UNCHANGED <<plan, unit, ram, before>>
  BY DEF Deselect, chip
<1>2. /\ ~Idle /\ unit \in 1..(Units(plan[tx]) + 1)
      /\ unit <= Units(plan[tx]) => bits \in 1..UnitBits(plan[tx], unit)
  BY <1>1 DEF WireInv, InStep
<1>3. tx \in 1..Len(plan) /\ Units(plan[tx]) \in Nat
  BY <1>2, Current DEF WireInv
<1> QED  BY <1>1, <1>2, <1>3

LEMMA InitRow == TmInit => RowTaken
<1> SUFFICES ASSUME TmInit PROVE RowTaken
  OBVIOUS
<1>1. Arrived = 0 /\ before = ram
  BY DEF TmInit, Arrived
<1>2. \A base \in Addresses : \A a \in base..(base + Arrived - 1) : FALSE
  BY <1>1 DEF Addresses, Size
<1> QED  BY <1>1, <1>2 DEF RowTaken

LEMMA NextRow == WireInv /\ RowTaken /\ [TmNext]_tmVars => RowTaken'
<1> SUFFICES ASSUME WireInv, RowTaken, [TmNext]_tmVars,
                    NEW base \in Addresses, IsRow(base)', NEW a \in Addresses
             PROVE  ram'[a] = IF a \in base..(base + Arrived' - 1)
                              THEN plan'[a - base + 1].nibs[1] ELSE before'[a]
  BY DEF RowTaken
<1>0. /\ base \in Nat /\ a \in Nat /\ tx \in Nat /\ unit \in Nat /\ cs \in {0, 1, Floating}
      /\ ram \in [Addresses -> Nibbles]
  BY AddressesRange DEF WireInv, Types
<1>1. CASE Calls
  <2>1. /\ tx' = 1 /\ cs' # 0 /\ before' = ram /\ ram' = ram
    BY <1>1, CallBegins DEF WireInv, InStep
  <2>2. Arrived' = 0
    BY <2>1 DEF Arrived
  <2>3. a \notin base..(base + Arrived' - 1)
    BY <1>0, <2>2
  <2> QED  BY <2>1, <2>3
<1>2. CASE Drive \/ UNCHANGED tmVars
  <2>0. plan' = plan /\ before' = before
    BY <1>2, PlanStays
  <2>1. /\ base + Len(plan) <= 64
        /\ \A k \in 1..Len(plan) :
              plan[k].type = 5 /\ plan[k].addr = base + k - 1 /\ Len(plan[k].nibs) = 1
        /\ IsRow(base)
    BY <2>0 DEF IsRow, Size
  <2>2. ram[a] = IF a \in base..(base + Arrived - 1)
                 THEN plan[a - base + 1].nibs[1] ELSE before[a]
    BY <2>1 DEF RowTaken
  <2>3. ASSUME NEW k \in 1..Len(plan) PROVE Units(plan[k]) = 3
    <3>1. Len(plan[k].nibs) = 1
      BY <2>1
    <3> QED  BY <3>1 DEF Units
  <2>4. SUFFICES ASSUME ~(ram' = ram /\ Arrived' = Arrived)
                 PROVE  ram'[a] = IF a \in base..(base + Arrived' - 1)
                                  THEN plan[a - base + 1].nibs[1] ELSE before[a]
    BY <2>0, <2>2
  <2>5. CASE Select
    BY <1>0, <2>4, <2>5 DEF Select, Arrived
  <2>6. CASE WrPulse
    <3>1. /\ cs = 0 /\ tx \in 1..Len(plan) /\ unit \in 1..3 /\ cs' = cs /\ tx' = tx
          /\ ~(ram' = ram /\ (unit' = unit \/ (unit' = unit + 1 /\ unit <= 2)))
          /\ plan[tx].addr = base + tx - 1 /\ Len(plan) \in Nat
      <4>1. ram' = ram /\ (unit' = unit \/ (unit' = unit + 1 /\ unit <= 2)) => Arrived' = Arrived
        BY <1>0, <2>6, PulseRam DEF Arrived
      <4>2. Len(plan) \in Nat
        BY DEF WireInv, Types, Planned
      <4> QED  BY <2>1, <2>3, <2>4, <2>6, <4>1, <4>2, PulseRam
    <3>2. unit = 3 /\ unit' = 4 /\ ram' = [ram EXCEPT ![(plan[tx].addr + unit - 3) % 64] = plan[tx].nibs[unit - 2]]
      BY <2>6, <3>1, PulseRam
    <3>3. (plan[tx].addr + unit - 3) % 64 = base + tx - 1
      <4>1. base + tx - 1 \in 0..63
        <5>1. /\ tx \in 1..Len(plan) /\ Len(plan) \in Nat
              /\ base + Len(plan) <= 64 /\ base \in Nat
          BY <1>0, <2>1, <3>1, Zenon
        <5>2. \A b, n \in Nat : b + n <= 64 => \A i \in 1..n : b + i - 1 \in 0..63
          OBVIOUS
        <5> QED  BY <5>1, <5>2, Zenon
      <4>2. plan[tx].addr + unit - 3 = base + tx - 1
        <5>1. /\ plan[tx].addr = base + tx - 1 /\ unit = 3
              /\ base \in Nat /\ tx \in Nat
          BY <1>0, <3>1, <3>2, Zenon
        <5> QED  BY <5>1
      <4>3. \A x \in 0..63 : x % 64 = x
        OBVIOUS
      <4> QED  BY <4>1, <4>2, <4>3
    <3>4. ram' = [ram EXCEPT ![base + tx - 1] = plan[tx].nibs[1]]
      <4>1. unit - 2 = 1
        BY <3>2
      <4> QED  BY <3>2, <3>3, <4>1, Zenon
    <3>5. Arrived = tx - 1 /\ Arrived' = tx
      BY <1>0, <3>1, <3>2 DEF Arrived
    <3>6. CASE a = base + tx - 1
      <4>1. a \in base..(base + Arrived' - 1) /\ a - base + 1 = tx
        BY <1>0, <3>1, <3>5, <3>6
      <4> QED  BY <1>0, <3>4, <3>6, <4>1
    <3>7. CASE a # base + tx - 1
      <4>1. a \in base..(base + Arrived' - 1) <=> a \in base..(base + Arrived - 1)
        BY <1>0, <3>1, <3>5, <3>7
      <4>2. ram'[a] = ram[a]
        BY <1>0, <3>4, <3>7
      <4> QED  BY <2>2, <4>1, <4>2
    <3> QED  BY <3>6, <3>7
  <2>7. CASE Deselect
    <3>1. Arrived' = Arrived /\ ram' = ram
      BY <1>0, <2>3, <2>7, AtDeselect DEF Arrived
    <3> QED  BY <2>4, <3>1
  <2>8. CASE UNCHANGED tmVars
    BY <2>4, <2>8 DEF tmVars, chip, Arrived
  <2> QED  BY <1>2, <2>5, <2>6, <2>7, <2>8 DEF Drive
<1> QED  BY <1>1, <1>2 DEF TmNext, Calls, Drive

LEMMA InitClear == TmInit => ClearTaken
<1> SUFFICES ASSUME TmInit PROVE ~ClearsLast
  BY DEF ClearTaken
<1> QED  BY DEF TmInit, ClearsLast

LEMMA NextClear == WireInv /\ ClearTaken /\ [TmNext]_tmVars => ClearTaken'
<1> SUFFICES ASSUME WireInv, ClearTaken, [TmNext]_tmVars, ClearsLast'
             PROVE  Dark' <= BufLen /\ \A a \in Addresses : ram'[a] = IF a < Dark' THEN 0 ELSE before'[a]
  BY DEF ClearTaken
<1>0. /\ tx \in Nat /\ unit \in Nat /\ cs \in {0, 1, Floating} /\ ram \in [Addresses -> Nibbles]
      /\ BufLen \in 1..64 /\ \A a \in Addresses : a \in Nat /\ a < 64
  BY TmAssumption, AddressesRange DEF WireInv, Types, Size
<1>1. CASE Calls
  <2>1. /\ tx' = 1 /\ cs' # 0 /\ Planned(plan') /\ ram' = ram /\ before' = ram
    BY <1>1, CallBegins DEF WireInv, InStep
  <2>2. Len(plan') \in Nat /\ Len(plan') > 0
    BY <2>1 DEF Planned, ClearsLast
  <2>3. Dark' = 0
    BY <2>1, <2>2 DEF Dark, Idle
  <2>4. \A a \in Addresses : ~(a < Dark')
    BY <1>0, <2>3
  <2>5. Dark' <= BufLen
    BY <1>0, <2>3
  <2> QED  BY <2>1, <2>4, <2>5
<1>2. CASE Drive \/ UNCHANGED tmVars
  <2> DEFINE last == Len(plan)
  <2>0. plan' = plan /\ before' = before
    BY <1>2, PlanStays
  <2>1. /\ last \in Nat \ {0} /\ plan[last] = SetAll(FALSE)
        /\ \A i \in 1..(last - 1) : plan[i].type = 4
        /\ Dark <= BufLen /\ \A a \in Addresses : ram[a] = IF a < Dark THEN 0 ELSE before[a]
    <3>1. ClearsLast
      BY <2>0 DEF ClearsLast
    <3>2. Len(plan) \in Nat
      BY DEF WireInv, Types, Planned
    <3> QED  BY <3>1, <3>2 DEF ClearsLast, ClearTaken
  <2>2. /\ Len(plan[last].nibs) = BufLen /\ plan[last].addr = 0
        /\ \A i \in 1..BufLen : plan[last].nibs[i] = 0
        /\ Units(plan[last]) = 2 + BufLen
    BY <2>1, SetAllForm DEF Units
  <2>3. SUFFICES ASSUME ~(ram' = ram /\ Dark' = Dark)
                 PROVE  Dark' <= BufLen /\ \A a \in Addresses : ram'[a] = IF a < Dark' THEN 0 ELSE before'[a]
    BY <2>0, <2>1
  <2>4. CASE Select
    BY <1>0, <2>3, <2>4 DEF Select, Dark, Idle
  <2>5. CASE WrPulse
    <3>1. /\ cs = 0 /\ tx \in 1..last /\ cs' = cs /\ tx' = tx /\ unit \in 1..Units(plan[tx])
      BY <2>5, PulseRam
    <3>2. CASE tx # last
      <4>1. plan[tx].type = 4
        <5>1. tx \in 1..(last - 1)
          BY <2>1, <3>1, <3>2
        <5> QED  BY <2>1, <5>1
      <4>2. ram' = ram
        BY <2>5, <4>1, PulseRam
      <4> QED  BY <1>0, <2>0, <2>1, <2>3, <3>1, <3>2, <4>2 DEF Dark, Idle
    <3>3. CASE tx = last
      <4>1. ~(ram' = ram /\ (unit' = unit \/ (unit' = unit + 1 /\ unit <= 2)))
        BY <1>0, <2>0, <2>1, <2>3, <3>1, <3>3 DEF Dark, Idle
      <4>2. /\ unit > 2 /\ unit' = unit + 1
            /\ ram' = [ram EXCEPT ![(plan[last].addr + unit - 3) % 64] = plan[last].nibs[unit - 2]]
        BY <2>5, <3>3, <4>1, PulseRam
      <4>3. unit - 2 \in 1..BufLen
        <5>1. unit \in 1..(2 + BufLen)
          BY <2>2, <3>1, <3>3
        <5>2. unit \in Nat /\ unit > 2 /\ BufLen \in 1..64
          BY <1>0, <4>2, Zenon
        <5> QED  BY <5>1, <5>2
      <4>4. (plan[last].addr + unit - 3) % 64 = unit - 3
        <5>0. /\ plan[last].addr = 0 /\ BufLen \in 1..64 /\ unit \in Nat
              /\ unit - 2 \in 1..BufLen
          BY <1>0, <2>2, <4>3, Zenon
        <5>1. plan[last].addr + unit - 3 = unit - 3 /\ unit - 3 \in 0..63
          BY <5>0
        <5>2. \A x \in 0..63 : x % 64 = x
          OBVIOUS
        <5> QED  BY <5>1, <5>2
      <4>5. ram' = [ram EXCEPT ![unit - 3] = 0]
        <5>1. plan[last].nibs[unit - 2] = 0
          BY <2>2, <4>3
        <5> QED  BY <4>2, <4>4, <5>1, Zenon
      <4>6. Dark = unit - 3 /\ Dark' = unit - 2
        BY <1>0, <2>0, <2>1, <3>1, <3>3, <4>2 DEF Dark, Idle
      <4>7. ASSUME NEW a \in Addresses PROVE ram'[a] = IF a < Dark' THEN 0 ELSE before[a]
        <5>1. CASE a = unit - 3
          BY <1>0, <4>5, <4>6, <5>1
        <5>2. CASE a # unit - 3
          <6>1. a < Dark' <=> a < Dark
            BY <1>0, <4>6, <5>2
          <6>2. ram'[a] = ram[a]
            BY <1>0, <4>5, <5>2
          <6> QED  BY <2>1, <6>1, <6>2
        <5> QED  BY <5>1, <5>2
      <4>8. Dark' <= BufLen
        BY <1>0, <4>3, <4>6
      <4> QED  BY <2>0, <4>7, <4>8
    <3> QED  BY <3>2, <3>3
  <2>6. CASE Deselect
    <3>1. /\ cs = 0 /\ cs' = 1 /\ tx' = tx + 1 /\ tx \in 1..last
          /\ unit = Units(plan[tx]) + 1 /\ ram' = ram
      BY <2>6, AtDeselect
    <3>2. CASE tx = last
      <4>1. unit = 2 + BufLen + 1
        BY <2>2, <3>1, <3>2
      <4>2. Dark = BufLen
        BY <1>0, <2>1, <3>1, <3>2, <4>1 DEF Dark, Idle
      <4>3. Dark' = BufLen
        BY <2>0, <2>1, <3>1, <3>2 DEF Dark, Idle
      <4> QED  BY <2>3, <3>1, <4>2, <4>3
    <3>3. CASE tx # last
      BY <1>0, <2>0, <2>1, <2>3, <3>1, <3>3 DEF Dark, Idle
    <3> QED  BY <3>2, <3>3
  <2>7. CASE UNCHANGED tmVars
    BY <2>3, <2>7 DEF tmVars, chip, Dark, Idle
  <2> QED  BY <1>2, <2>4, <2>5, <2>6, <2>7 DEF Drive
<1> QED  BY <1>1, <1>2 DEF TmNext, Calls, Drive

-----------------------------------------------------------------------------
(***************************************************************************)
(* The properties: what has arrived when a call is over.                   *)
(***************************************************************************)
ArrivedInv == WireInv /\ PlanOfCall /\ CommandsTaken /\ RowTaken /\ ClearTaken

LEMMA ArrivedAlways == TmSpec => []ArrivedInv
<1>1. TmInit => ArrivedInv
  BY InitWire, InitPlan, InitCommands, InitRow, InitClear DEF ArrivedInv
<1>2. ArrivedInv /\ [TmNext]_tmVars => ArrivedInv'
  BY NextWire, NextPlan, NextCommands, NextRow, NextClear DEF ArrivedInv
<1> QED  BY <1>1, <1>2, PTL DEF TmSpec

\* When a call is over CS is high and all its transactions have arrived.
LEMMA CallOver ==
    ASSUME WireInv, Idle
    PROVE  tx = Len(plan) + 1 /\ Len(plan) \in Nat /\ Arrived = Len(plan)
<1>1. cs # 0 /\ Len(plan) \in Nat /\ tx = Len(plan) + 1
  BY DEF WireInv, InStep, Types, Planned, Idle
<1> QED  BY <1>1 DEF Arrived

LEMMA NothingArrived ==
    ASSUME ArrivedInv, Idle, plan = <<>>
    PROVE  ram = before
<1>1. Len(plan) = 0 /\ Arrived = 0
  BY CallOver DEF ArrivedInv
<1>2. IsRow(0) /\ 0 \in Addresses
  BY <1>1 DEF IsRow, Addresses, Size
<1>3. ASSUME NEW a \in Addresses PROVE ram[a] = before[a]
  <2>1. a \notin 0..(0 + Arrived - 1)
    BY <1>1
  <2> QED  BY <1>2, <2>1 DEF ArrivedInv, RowTaken
<1>4. ram \in [Addresses -> Nibbles] /\ before \in [Addresses -> Nibbles]
  BY DEF ArrivedInv, WireInv, Types
<1> QED  BY <1>3, <1>4

LEMMA InitArrived == ArrivedInv => InitComplete
<1> SUFFICES ASSUME ArrivedInv, Idle, call.op = "init"
             PROVE  IF call.ret = "ESP_OK"
                    THEN /\ \A i \in 1..Len(Commands) : Commands[i] \in received
                         /\ \A a \in Addresses : ram[a] = IF a < BufLen THEN 0 ELSE before[a]
                    ELSE ram = before
  BY DEF InitComplete
<1>1. CASE call.ret # "ESP_OK"
  <2>1. plan = <<>>
    BY <1>1 DEF ArrivedInv, PlanOfCall
  <2> QED  BY <1>1, <2>1, NothingArrived
<1>2. CASE call.ret = "ESP_OK"
  <2>1. plan = InitSequence
    BY <1>2 DEF ArrivedInv, PlanOfCall
  <2>2. /\ Len(plan) = Len(Commands) + 1 /\ Len(Commands) \in Nat
        /\ tx = Len(plan) + 1
    BY <2>1, InitSequenceForm, TmAssumption, CallOver DEF ArrivedInv
  <2>3. ASSUME NEW i \in 1..Len(Commands)
        PROVE  plan[i].type = 4 /\ Commands[i] \in received
    <3>1. i \in 1..Len(plan) /\ i < tx
      BY <2>2
    <3>2. plan[i].type = 4 /\ plan[i].cmd = Commands[i]
      BY <2>1, InitSequenceForm
    <3> QED  BY <3>1, <3>2 DEF ArrivedInv, CommandsTaken
  <2>4. ClearsLast
    <3>1. 1..(Len(plan) - 1) = 1..Len(Commands)
      BY <2>2
    <3> QED  BY <2>1, <2>2, <2>3, <3>1, InitSequenceForm DEF ClearsLast
  <2>5. Dark = BufLen
    BY DEF Dark
  <2>6. \A a \in Addresses : ram[a] = IF a < BufLen THEN 0 ELSE before[a]
    BY <2>4, <2>5 DEF ArrivedInv, ClearTaken
  <2> QED  BY <1>2, <2>3, <2>6
<1> QED  BY <1>1, <1>2

\* tm1622_init() that succeeds has given the chip every command and darkened it as
\* far as tm1622_clear() reaches, no farther, for any list of commands; one that
\* cannot set up its pins (tm1622.c:60) has changed nothing.
THEOREM InitDone == TmSpec => []InitComplete
BY ArrivedAlways, InitArrived, PTL

LEMMA DigitArrived ==
    ASSUME ArrivedInv, Idle, call.op = "putc",
           NEW d \in 0..(Digits - 1), NEW p \in Patterns, plan = Put(d, p)
    PROVE  /\ DigitShows(d, p)
           /\ \A a \in Addresses : a \div 4 # d => ram[a] = before[a]
<1>1. /\ Digits \in 1..16 /\ d \in Nat /\ d * 4 \in Nat /\ d * 4 + 4 <= 64
      /\ \A a \in Addresses : a \in Nat /\ a < 64
  <2>1. Digits \in 1..16
    BY TmAssumption
  <2> QED  BY <2>1, AddressesRange
<1>2. Len(plan) = 4 /\ Arrived = 4
  BY PutForm, CallOver DEF ArrivedInv
<1>3. ASSUME NEW n \in 0..3
      PROVE  /\ plan[n + 1].type = 5 /\ plan[n + 1].addr = d * 4 + n
             /\ Len(plan[n + 1].nibs) = 1
             /\ plan[n + 1].nibs[1] = ShiftRight(p, 4 * n) % 16
  <2>1. plan[n + 1] = PutNibble(d, n, p)
    <3>1. n + 1 \in 1..4 /\ (n + 1) - 1 = n
      OBVIOUS
    <3>2. plan[n + 1] = PutNibble(d, (n + 1) - 1, p)
      BY <3>1, PutForm
    <3> QED  BY <3>1, <3>2
  <2> QED  BY <2>1, PutNibbleForm
<1>4. IsRow(d * 4)
  <2>1. ASSUME NEW k \in 1..4
        PROVE  plan[k].type = 5 /\ plan[k].addr = d * 4 + k - 1 /\ Len(plan[k].nibs) = 1
    <3>1. k - 1 \in 0..3 /\ (k - 1) + 1 = k /\ d * 4 + (k - 1) = d * 4 + k - 1
      BY <1>1
    <3> DEFINE n == k - 1
    <3>2. n \in 0..3 /\ n + 1 = k /\ d * 4 + n = d * 4 + k - 1
      BY <3>1
    <3> HIDE DEF n
    <3> QED  BY <1>3, <3>2
  <2> QED  BY <1>1, <1>2, <2>1 DEF IsRow, Size
<1>5. d * 4 \in Addresses
  BY <1>1 DEF Addresses, Size
<1>6. ASSUME NEW a \in Addresses
      PROVE  ram[a] = IF a \in (d * 4)..(d * 4 + 4 - 1) THEN plan[a - (d * 4) + 1].nibs[1] ELSE before[a]
  BY <1>2, <1>4, <1>5 DEF ArrivedInv, RowTaken
<1>7. ASSUME NEW n \in 0..3 PROVE ram[d * 4 + n] = ShiftRight(p, 4 * n) % 16
  <2>1. /\ d * 4 + n \in Addresses /\ d * 4 + n \in (d * 4)..(d * 4 + 4 - 1)
        /\ (d * 4 + n) - (d * 4) + 1 = n + 1
    BY <1>1 DEF Addresses, Size
  <2>2. ram[d * 4 + n] = plan[(d * 4 + n) - (d * 4) + 1].nibs[1]
    BY <1>6, <2>1
  <2> QED  BY <1>3, <2>1, <2>2
<1>8. ASSUME NEW a \in Addresses, a \div 4 # d PROVE ram[a] = before[a]
  <2>1. a \notin (d * 4)..(d * 4 + 4 - 1)
    <3>1. a \in Nat
      BY <1>1
    <3> QED  BY <1>1, <1>8, <3>1
  <2> QED  BY <1>6, <2>1
<1> QED  BY <1>7, <1>8 DEF DigitShows

\* tm1622_putc() puts the pattern on its digit and leaves the others alone; a
\* digit beyond the glass is refused and nothing sent.
THEOREM DigitAlone == TmSpec => []OneDigitChanged
<1>1. ASSUME ArrivedInv PROVE OneDigitChanged
  <2>1. SUFFICES ASSUME Idle, call.op = "putc"
                 PROVE  IF call.digit < Digits
                        THEN /\ DigitShows(call.digit, call.pattern)
                             /\ \A a \in Addresses : a \div 4 # call.digit => ram[a] = before[a]
                        ELSE call.ret = "ESP_ERR_INVALID_ARG" /\ ram = before
    BY DEF OneDigitChanged
  <2>2. CASE call.digit < Digits
    <3>1. /\ call.digit \in 0..(Digits - 1) /\ call.pattern \in Patterns
          /\ plan = Put(call.digit, call.pattern)
      BY <1>1, <2>1, <2>2 DEF ArrivedInv, PlanOfCall
    <3> QED  BY <1>1, <2>1, <2>2, <3>1, DigitArrived
  <2>3. CASE ~(call.digit < Digits)
    <3>1. call.ret = "ESP_ERR_INVALID_ARG" /\ plan = <<>>
      BY <1>1, <2>1, <2>3 DEF ArrivedInv, PlanOfCall
    <3> QED  BY <1>1, <2>1, <2>3, <3>1, NothingArrived
  <2> QED  BY <2>2, <2>3
<1> QED  BY <1>1, ArrivedAlways, PTL

LEMMA TextArrived == ArrivedInv => TextShown
<1> SUFFICES ASSUME ArrivedInv, Idle, call.op = "puts"
             PROVE  /\ \A d \in 0..(Digits - 1) :
                          LET c == IF d < Len(call.s) THEN call.s[d + 1] ELSE Blank
                          IN  DigitShows(d, IF c = Outside THEN call.behind ELSE Font[c])
                    /\ \A a \in Addresses : a >= 4 * Digits => ram[a] = before[a]
  BY DEF TextShown
<1> DEFINE q == [d \in 1..Digits |-> Lookup(Shown(call.s)[d], call.behind)]
<1>1. /\ call.s \in Strings /\ call.behind \in Patterns /\ plan = PutAll(q)
      /\ q \in [1..Digits -> Patterns]
  BY ShownPatterns DEF ArrivedInv, PlanOfCall
<1>2. /\ Digits \in 1..16 /\ Len(call.s) \in Nat
      /\ \A a \in Addresses : a \in Nat /\ a < 64
  <2>1. Digits \in 1..16 /\ call.s \in Seq(DOMAIN Font \cup {Outside})
    BY <1>1, TmAssumption
  <2> QED  BY <2>1, AddressesRange
<1>3. ASSUME NEW d \in 0..(Digits - 1)
      PROVE  q[d + 1] = LET c == IF d < Len(call.s) THEN call.s[d + 1] ELSE Blank
                        IN  IF c = Outside THEN call.behind ELSE Font[c]
  <2>1. d + 1 \in 1..Digits /\ (d + 1 <= Len(call.s) <=> d < Len(call.s))
    BY <1>2
  <2>2. Shown(call.s)[d + 1] = IF d < Len(call.s) THEN call.s[d + 1] ELSE Blank
    BY <1>1, <2>1, ShownType
  <2>3. q[d + 1] = Lookup(Shown(call.s)[d + 1], call.behind)
    BY <2>1
  <2> QED  BY <2>2, <2>3 DEF Lookup
<1> HIDE DEF q
<1>4. Len(plan) = 4 * Digits /\ Arrived = 4 * Digits
  BY <1>1, PutAllForm, CallOver DEF ArrivedInv
<1>5. ASSUME NEW d \in 0..(Digits - 1), NEW n \in 0..3
      PROVE  /\ plan[d * 4 + n + 1].type = 5 /\ plan[d * 4 + n + 1].addr = d * 4 + n
             /\ Len(plan[d * 4 + n + 1].nibs) = 1
             /\ plan[d * 4 + n + 1].nibs[1] = ShiftRight(q[d + 1], 4 * n) % 16
  <2>1. plan[d * 4 + n + 1] = PutNibble(d, n, q[d + 1])
    BY <1>1, PutAllForm
  <2>2. q[d + 1] \in Patterns
    <3>1. d + 1 \in 1..Digits
      BY <1>2
    <3> QED  BY <1>1, <3>1
  <2> QED  BY <2>1, <2>2, PutNibbleForm
<1>6. IsRow(0)
  <2>1. ASSUME NEW k \in 1..(4 * Digits)
        PROVE  plan[k].type = 5 /\ plan[k].addr = 0 + k - 1 /\ Len(plan[k].nibs) = 1
    <3> DEFINE d == (k - 1) \div 4
               n == (k - 1) % 4
    <3>1. d \in 0..(Digits - 1) /\ n \in 0..3 /\ d * 4 + n = k - 1
      BY <1>2
    <3>2. d * 4 + n + 1 = k
      BY <3>1
    <3> HIDE DEF d, n
    <3>3. plan[d * 4 + n + 1].type = 5 /\ plan[d * 4 + n + 1].addr = d * 4 + n /\ Len(plan[d * 4 + n + 1].nibs) = 1
      BY <1>5, <3>1
    <3> QED  BY <3>1, <3>2, <3>3
  <2>2. 0 + 4 * Digits <= 64
    BY <1>2
  <2> QED  BY <1>4, <2>1, <2>2 DEF IsRow, Size
<1>7. ASSUME NEW a \in Addresses
      PROVE  ram[a] = IF a \in 0..(4 * Digits - 1) THEN plan[a + 1].nibs[1] ELSE before[a]
  <2>1. 0 \in Addresses /\ 0 + Arrived - 1 = 4 * Digits - 1 /\ a - 0 + 1 = a + 1
    BY <1>2, <1>4 DEF Addresses, Size
  <2>2. ram[a] = IF a \in 0..(0 + Arrived - 1) THEN plan[a - 0 + 1].nibs[1] ELSE before[a]
    BY <1>6, <2>1 DEF ArrivedInv, RowTaken
  <2> QED  BY <2>1, <2>2
<1>8. ASSUME NEW d \in 0..(Digits - 1) PROVE DigitShows(d, q[d + 1])
  <2>1. ASSUME NEW n \in 0..3 PROVE ram[d * 4 + n] = ShiftRight(q[d + 1], 4 * n) % 16
    <3>1. d * 4 + n \in Addresses /\ d * 4 + n \in 0..(4 * Digits - 1)
      BY <1>2 DEF Addresses, Size
    <3>2. ram[d * 4 + n] = plan[d * 4 + n + 1].nibs[1]
      BY <1>7, <3>1
    <3> QED  BY <1>5, <3>2
  <2> QED  BY <2>1 DEF DigitShows
<1>9. ASSUME NEW a \in Addresses, a >= 4 * Digits PROVE ram[a] = before[a]
  <2>1. a \notin 0..(4 * Digits - 1)
    BY <1>2, <1>9
  <2> QED  BY <1>7, <2>1
<1> QED  BY <1>3, <1>8, <1>9

\* tm1622_puts() puts the text on the glass, cut at its end and followed by
\* blanks, for every text, font and size of the glass.
THEOREM TextOnGlass == TmSpec => []TextShown
BY ArrivedAlways, TextArrived, PTL

=============================================================================
