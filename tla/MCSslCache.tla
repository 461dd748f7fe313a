----------------------------- MODULE MCSslCache -----------------------------
(* Instances of SslCache for TLC.                                          *)
EXTENDS SslCache

CONSTANTS i1, i2, i3, s1, s2

Identifiers == Permutations({i1, i2})
WithClock == [have_time |-> TRUE, ids |-> {i1, i2}, timeouts |-> {-1, 1}, limits |-> {1, 2}]
WithoutClock == [have_time |-> FALSE, ids |-> {i1, i2, i3}, timeouts |-> {0}, limits |-> {2}]
Both == {WithClock, WithoutClock}
Lengths == (s1 :> 1) @@ (s2 :> 3)

\* A small block; n * size overflows to 2, to a number above -Align, and not.
SmallAndOverflow == {<<1, 1>>, <<2, 17>>, <<1, 31>>}
=============================================================================
