------------------------------- MODULE Tm1622 -------------------------------
(***************************************************************************)
(* The driver of the 16-segment display (main/tm1622.c), bit by bit.  Each *)
(* call of the driver is a list of transactions; a transaction lowers CS,  *)
(* clocks its bits out on DATA with WR, most significant first, and raises *)
(* CS.  The TM1622 is external: it takes DATA at the rising edge of WR,    *)
(* reads a type, then either a command or an address and nibbles, which it *)
(* stores one after the other as they become complete.                     *)
(*                                                                         *)
(* Types have 3 bits, commands 8, addresses 6 and nibbles 4; a digit is 4  *)
(* nibbles.  The code has 10 digits and a buffer of 32 nibbles.            *)
(***************************************************************************)
EXTENDS Integers, Sequences

CONSTANTS
    Digits,         \* of the glass
    BufLen,         \* nibbles in the buffer of tm1622_set_all()
    Commands,       \* the commands of tm1622_init(), in their order
    Font,           \* font_table: from the characters it holds to patterns
    Blank,          \* the character ' '
    Outside,        \* a character whose code is beyond the table
    Behind,         \* the patterns that may lie in memory behind it
    Strings,        \* the texts written
    PokeAddrs, PokeData,    \* addresses and lists of nibbles written directly
    MaxCalls        \* bound: calls after power-on

Size == 64
Floating == -1      \* a pin no one drives
Addresses == 0..(Size - 1)
Nibbles == 0..15
Bytes == 0..255
Patterns == 0..65535

ASSUME TmAssumption ==
    /\ Digits \in 1..16 /\ BufLen \in 1..Size /\ MaxCalls \in Nat
    /\ Commands \in Seq(Bytes)
    /\ Blank \in DOMAIN Font /\ Outside \notin DOMAIN Font
    /\ \A c \in DOMAIN Font : Font[c] \in Patterns
    /\ Behind \subseteq Patterns
    /\ Strings \subseteq Seq(DOMAIN Font \cup {Outside})
    /\ PokeAddrs \subseteq Bytes /\ PokeData \subseteq Seq(Bytes)

VARIABLES
    call,               \* the call in progress or last made, and its result
    calls,              \* how many were made
    plan, tx,           \* its transactions, and the one to be sent
    cs,                 \* the pin CS: 0, 1, or not driven yet
    unit, bits,         \* the part of it on the wires, and its bits still to be sent
    phase, shift, count, addr, \* the chip: what it reads, so far, of how many bits, where next
    received, ram,      \* the chip: commands taken, the display's memory
    before              \* history: ram when the call began

chip == <<phase, shift, count, addr, received, ram>>
tmVars == <<call, calls, plan, tx, cs, unit, bits, chip, before>>

-----------------------------------------------------------------------------
\* v >> n, for the shifts of the driver.
Pow2 == <<1, 2, 4, 8, 16, 32, 64, 128, 256, 512, 1024, 2048, 4096>>
ShiftRight(v, n) == v \div Pow2[n + 1]

Command(cmd) == [type |-> 4, cmd |-> cmd % 256, addr |-> 0, nibs |-> <<>>]

\* tm1622_write_bulk(); tm1622_write4() is the same with one nibble.
Write(a, data) ==
    [type |-> 5, cmd |-> 0, addr |-> a % 64, nibs |-> [i \in 1..Len(data) |-> data[i] % 16]]

SetAll(on) == Write(0, [i \in 1..BufLen |-> IF on THEN 15 ELSE 0])

\* Mutant of PutNibble: a digit has one nibble less.
PutNibble_Mut(d, n, p) == Write(d * 3 + n, <<ShiftRight(p, 4 * n)>>)

\* raw_put_nibble(): nibble n of pattern p to digit d.
PutNibble(d, n, p) == Write(d * 4 + n, <<ShiftRight(p, 4 * n)>>)

\* The body of tm1622_putc(), and the ones tm1622_puts() makes for all digits.
Put(d, p) == [k \in 1..4 |-> PutNibble(d, k - 1, p)]
PutAll(p) == [k \in 1..(4 * Digits) |-> PutNibble((k - 1) \div 4, (k - 1) % 4, p[((k - 1) \div 4) + 1])]

\* font_table[c]: the table has 128 entries, the index is any byte; p is what
\* lies behind it.
Lookup(c, p) == IF c = Outside THEN p ELSE Font[c]

\* Mutant of Shown: the last character of a short text is left out.
Shown_Mut(s) == [d \in 1..Digits |-> IF d < Len(s) THEN s[d] ELSE Blank]

\* tm1622_puts(): the first characters, and blanks behind a short text.
Shown(s) == [d \in 1..Digits |-> IF d <= Len(s) THEN s[d] ELSE Blank]

\* tm1622_init().
InitSequence == Append([i \in 1..Len(Commands) |-> Command(Commands[i])], SetAll(FALSE))

-----------------------------------------------------------------------------
TmInit ==
    /\ call = [op |-> "none"] /\ calls = 0
    /\ plan = <<>> /\ tx = 1
    /\ cs = Floating /\ unit = 1 /\ bits = 0
    /\ phase = "type" /\ shift = 0 /\ count = 0 /\ addr = 0
    /\ received = {}
    /\ ram = [a \in Addresses |-> 15]
    /\ before = ram

Idle == tx > Len(plan)

Begin(c, p) ==
    /\ Idle
    /\ calls < MaxCalls
    /\ call' = c /\ plan' = p /\ tx' = 1
    /\ calls' = calls + 1
    /\ before' = ram
    /\ UNCHANGED <<unit, bits, chip>>

\* A call of a driver that is initialised.
Use(c, p) == Begin(c, p) /\ cs = 1 /\ UNCHANGED cs

\* Mutant of CallInit: the answer of gpio_config() is not looked at, so that
\* nothing arrives when it is a failure.
CallInit_Mut ==
    \/ Begin([op |-> "init", ret |-> "ESP_OK"], InitSequence) /\ cs' = 1
    \/ Begin([op |-> "init", ret |-> "ESP_OK"], <<>>) /\ UNCHANGED cs

\* gpio_config() may fail; otherwise the pins are driven, CS high.
CallInit ==
    \/ Begin([op |-> "init", ret |-> "ESP_OK"], InitSequence) /\ cs' = 1
    \/ Begin([op |-> "init", ret |-> "ESP_FAIL"], <<>>) /\ UNCHANGED cs

CallSetAll == \E on \in BOOLEAN : Use([op |-> "set_all", on |-> on], <<SetAll(on)>>)

CallCommand == \E i \in 1..Len(Commands) : Use([op |-> "command"], <<Command(Commands[i])>>)

\* tm1622_write4() and tm1622_write_bulk().
CallWrite == \E a \in PokeAddrs, data \in PokeData : Use([op |-> "write"], <<Write(a, data)>>)

CallPutc ==
    \E d \in 0..Digits, c \in DOMAIN Font \cup {Outside}, p \in Behind :
        LET made(ret) == [op |-> "putc", digit |-> d, pattern |-> Lookup(c, p), ret |-> ret]
        IN  IF d < Digits THEN Use(made("ESP_OK"), Put(d, Lookup(c, p)))
            ELSE Use(made("ESP_ERR_INVALID_ARG"), <<>>)

CallPuts ==
    \E s \in Strings, p \in Behind :
        Use([op |-> "puts", s |-> s, behind |-> p],
             PutAll([d \in 1..Digits |-> Lookup(Shown(s)[d], p)]))

-----------------------------------------------------------------------------
\* The parts of transaction t: its type, its command or address, its nibbles.
Units(t) == 2 + Len(t.nibs)

UnitValue(t, u) ==
    IF u = 1 THEN t.type
    ELSE IF u = 2 THEN (IF t.type = 4 THEN t.cmd ELSE t.addr)
    ELSE t.nibs[u - 2]

UnitBits(t, u) ==
    IF u = 1 THEN 3 ELSE IF u = 2 THEN (IF t.type = 4 THEN 8 ELSE 6) ELSE 4

\* cs_enable(): the chip waits for a new type.
Select ==
    /\ ~Idle /\ cs = 1
    /\ cs' = 0
    /\ unit' = 1 /\ bits' = UnitBits(plan[tx], 1)
    /\ phase' = "type" /\ shift' = 0 /\ count' = 0
    /\ UNCHANGED <<call, calls, plan, tx, addr, received, ram, before>>

UnitLength ==
    CASE phase = "type" -> 3
      [] phase = "command" -> 8
      [] phase = "addr" -> 6
      [] phase = "data" -> 4

\* What the chip makes of a complete unit v.
Accept(v) ==
    \/ phase = "type" /\ phase' = (IF v = 4 THEN "command" ELSE "addr") /\ UNCHANGED <<addr, received, ram>>
    \/ phase = "command" /\ received' = received \cup {v} /\ UNCHANGED <<phase, addr, ram>>
    \/ phase = "addr" /\ phase' = "data" /\ addr' = v /\ UNCHANGED <<received, ram>>
    \/ /\ phase = "data"
       /\ ram' = [ram EXCEPT ![addr] = v]
       /\ addr' = (addr + 1) % Size
       /\ UNCHANGED <<phase, received>>

Receive(bit) ==
    LET got == 2 * shift + bit
    IN  IF count + 1 = UnitLength
        THEN shift' = 0 /\ count' = 0 /\ Accept(got)
        ELSE shift' = got /\ count' = count + 1 /\ UNCHANGED <<phase, addr, received, ram>>

\* The bit send_bits() is at: it counts down to bit 0.
SentBit == ShiftRight(UnitValue(plan[tx], unit), bits - 1) % 2

\* Mutant of Advance: the loop ends before bit 0.
Advance_Mut ==
    IF bits > 2
    THEN bits' = bits - 1 /\ unit' = unit
    ELSE /\ unit' = unit + 1
         /\ bits' = IF unit < Units(plan[tx]) THEN UnitBits(plan[tx], unit + 1) ELSE 0

\* The loop of send_bits(), and the next call of it.
Advance ==
    IF bits > 1
    THEN bits' = bits - 1 /\ unit' = unit
    ELSE /\ unit' = unit + 1
         /\ bits' = IF unit < Units(plan[tx]) THEN UnitBits(plan[tx], unit + 1) ELSE 0

\* wr_pulse(): DATA is set while WR is low, and taken when it rises.
WrPulse ==
    /\ cs = 0 /\ bits > 0
    /\ Receive(SentBit)
    /\ Advance
    /\ UNCHANGED <<call, calls, plan, tx, cs, before>>

\* cs_disable().
Deselect ==
    /\ cs = 0 /\ bits = 0
    /\ cs' = 1
    /\ tx' = tx + 1
    /\ UNCHANGED <<call, calls, plan, unit, bits, chip, before>>

Drive == Select \/ WrPulse \/ Deselect

TmNext == CallInit \/ CallSetAll \/ CallCommand \/ CallWrite \/ CallPutc \/ CallPuts \/ Drive

TmSpec == TmInit /\ [][TmNext]_tmVars /\ WF_tmVars(Drive)

-----------------------------------------------------------------------------
DigitShows(d, p) == \A n \in 0..3 : ram[d * 4 + n] = ShiftRight(p, 4 * n) % 16

\* tm1622_puts() puts the text on the glass from digit 0, cut at the last digit
\* and followed by blanks, whatever was there, and nothing elsewhere
\* (tm1622.c:166-177).
TextShown ==
    Idle /\ call.op = "puts" =>
        /\ \A d \in 0..(Digits - 1) :
              LET c == IF d < Len(call.s) THEN call.s[d + 1] ELSE Blank
              IN  DigitShows(d, IF c = Outside THEN call.behind ELSE Font[c])
        /\ \A a \in Addresses : a >= 4 * Digits => ram[a] = before[a]

\* tm1622_putc() changes the nibbles of its digit and no other, or, beyond the last
\* digit, fails and sends nothing (tm1622.c:147-164).
OneDigitChanged ==
    Idle /\ call.op = "putc" =>
        IF call.digit < Digits
        THEN /\ DigitShows(call.digit, call.pattern)
             /\ \A a \in Addresses : a \div 4 # call.digit => ram[a] = before[a]
        ELSE call.ret = "ESP_ERR_INVALID_ARG" /\ ram = before

\* tm1622_init() that succeeds gives the chip every command and darkens the
\* nibbles that tm1622_clear() reaches, and no others; one whose pins cannot be
\* set up sends nothing (tm1622.c:59-76).
InitComplete ==
    Idle /\ call.op = "init" =>
        IF call.ret = "ESP_OK"
        THEN /\ \A i \in 1..Len(Commands) : Commands[i] \in received
             /\ \A a \in Addresses : ram[a] = IF a < BufLen THEN 0 ELSE before[a]
        ELSE ram = before

\* tm1622.h:100 says that tm1622_clear(), tm1622_set_all(dev, false), clears the
\* "entire display RAM (all pixels off)".
ClearsAll ==
    Idle /\ call.op = "set_all" /\ ~call.on => \A a \in Addresses : ram[a] = 0

\* What the call means to write, and how much of a transaction has arrived.
Meant == [i \in 1..Len(plan) |-> [addr |-> plan[i].addr, nibs |-> plan[i].nibs]]
Taken == IF cs = 0 /\ unit > 3 THEN unit - 3 ELSE 0

\* Bit by bit, the chip takes exactly the nibbles the driver means to write, in
\* their order and at their addresses.
Memory == INSTANCE SegmentRam WITH
    Size <- Size, Nibbles <- Nibbles, ram <- ram, writes <- Meant, at <- tx, taken <- Taken
ImplementsRam == Memory!Spec

=============================================================================
