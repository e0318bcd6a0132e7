----------------------------- MODULE SegmentRam -----------------------------
(***************************************************************************)
(* What the wire protocol of the TM1622 has to achieve (main/tm1622.h): a  *)
(* call of the driver means to write blocks of nibbles, each from one      *)
(* address on, and the display's memory takes exactly these, in order; an  *)
(* address beyond the last is the first again.                             *)
(***************************************************************************)
EXTENDS Integers, Sequences

CONSTANTS Size, Nibbles

Addresses == 0..(Size - 1)
Blocks == [addr : Addresses, nibs : Seq(Nibbles)]

VARIABLES
    ram,        \* the display's memory
    writes,     \* the blocks of the call
    at, taken   \* the block being written, how much of it has arrived

vars == <<ram, writes, at, taken>>

Init ==
    /\ ram \in [Addresses -> Nibbles]
    /\ writes = <<>>
    /\ at = 1 /\ taken = 0

Begin ==
    /\ at > Len(writes)
    /\ writes' \in Seq(Blocks)
    /\ at' = 1
    /\ UNCHANGED <<ram, taken>>

Take ==
    /\ at <= Len(writes)
    /\ taken < Len(writes[at].nibs)
    /\ ram' = [ram EXCEPT ![(writes[at].addr + taken) % Size] = writes[at].nibs[taken + 1]]
    /\ taken' = taken + 1
    /\ UNCHANGED <<writes, at>>

Finish ==
    /\ at <= Len(writes)
    /\ taken = Len(writes[at].nibs)
    /\ at' = at + 1
    /\ taken' = 0
    /\ UNCHANGED <<ram, writes>>

Next == Begin \/ Take \/ Finish

Safety == Init /\ [][Next]_vars

\* Once begun, the writes are carried out.
Spec == Safety /\ WF_vars(Take \/ Finish)

=============================================================================
