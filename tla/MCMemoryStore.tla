---------------------------- MODULE MCMemoryStore ----------------------------
(* Small instances of MemoryStore for TLC. *)
EXTENDS MemoryStore

CONSTANTS b1, b2, ch1, ch2, hello, bye

Said(n, b, ch, x) == [n |-> n, bot |-> b, channel |-> ch, content |-> x]

\* A bot repeats itself and then says something else.
OneBot == {Said(1, b1, ch1, hello), Said(2, b1, ch1, hello), Said(3, b1, ch1, bye)}

\* A bot says two things, another one of them.
TwoBots == {Said(1, b1, ch1, hello), Said(2, b1, ch2, bye), Said(3, b2, ch1, hello)}
=============================================================================
