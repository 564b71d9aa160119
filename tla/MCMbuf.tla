------------------------------- MODULE MCMbuf -------------------------------
(* Two connections, three buffers of three bytes; messages that fit, one    *)
(* whose end does not, and one that is too large.                           *)
EXTENDS Mbuf, TLC

CONSTANTS s1, s2

TwoSlots == {s1, s2}
AnySlot == Permutations(TwoSlots)
Short == <<"a">>
Longer == <<"b", "c">>
Full == <<"d", "e", "f">>
Large == <<"g", "h", "i", "j">>
SomeTexts == {Longer, Full, Large}
SomeCmds == {<<"q">>}
=============================================================================
