------------------------------- MODULE BitLog -------------------------------
(***************************************************************************)
(* What a BitSet promises to a compressor: a log of bits with room for     *)
(* Capacity of them.  Bits are appended at its end, the end can be taken   *)
(* back to a mark, and a reader gets the bits in the order in which they   *)
(* were appended.  A copy of the log can be kept and read back later.      *)
(***************************************************************************)
EXTENDS Naturals, Sequences

CONSTANTS
  Capacity,    \* the number of bits there is room for
  Values       \* the sequences of bits that may be appended

VARIABLES
  log,         \* the bits appended so far
  mark,        \* the length to go back to
  kept,        \* the bits of the copy
  pos,         \* how many bits were read
  got          \* the bits read last

lvars == <<log, mark, kept, pos, got>>

LInit == log = <<>> /\ mark = 0 /\ kept = <<>> /\ pos = 0 /\ got = <<>>

\* The bits that do not fit are not appended.
Add(x) ==
  /\ log' = SubSeq(log \o x, 1, IF Len(log) + Len(x) > Capacity THEN Capacity
                                                              ELSE Len(log) + Len(x))
  /\ UNCHANGED <<mark, kept, pos, got>>

Mark == mark' = Len(log) /\ UNCHANGED <<log, kept, pos, got>>

TakeBack == log' = SubSeq(log, 1, mark) /\ UNCHANGED <<mark, kept, pos, got>>

Clear == log' = <<>> /\ mark' = 0 /\ UNCHANGED <<kept, pos, got>>

Keep == kept' = log /\ UNCHANGED <<log, mark, pos, got>>

Reload == log' = kept /\ kept' = <<>> /\ mark' = 0 /\ UNCHANGED <<pos, got>>

Rewind == pos' = 0 /\ got' = <<>> /\ UNCHANGED <<log, mark, kept>>

Read(n) ==
  /\ pos + n <= Len(log)
  /\ got' = SubSeq(log, pos + 1, pos + n)
  /\ pos' = pos + n
  /\ UNCHANGED <<log, mark, kept>>

LNext ==
  \/ \E x \in Values : Add(x)
  \/ Mark \/ TakeBack \/ Clear \/ Keep \/ Reload \/ Rewind
  \/ \E n \in 1..Capacity : Read(n)

LSpec == LInit /\ [][LNext]_lvars
=============================================================================
