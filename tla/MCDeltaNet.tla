----------------------------- MODULE MCDeltaNet -----------------------------
(* The numbers modulo 9: the smallest ring with an exponential that tells  *)
(* a decay, its inverse and 1 apart.  Two keys' components and one value's,*)
(* so the state is a column of two.                                        *)
EXTENDS DeltaNet

Ring == 0..8
Plus(a, b)  == (a + b) % 9
Minus(a, b) == (a - b) % 9
Times(a, b) == (a * b) % 9
Exp(a)      == 4^a % 9

T(q, k, v, g, b) == [q |-> q, k |-> k, v |-> <<v>>, g_log |-> g, beta |-> b]
MCInputs == {T(<<2, 1>>, <<1, 2>>, 1, 8, 2), T(<<1, 4>>, <<0, 5>>, 2, 7, 5),
             T(<<0, 1>>, <<4, 1>>, 7, 0, 1)}
=============================================================================
