------------------------------ MODULE MCKernels ------------------------------
(***************************************************************************)
(* Kernels with the weights of a block cut to a quarter of the real number.  *)
(***************************************************************************)
EXTENDS Kernels

Offsets == 0 .. 6*W + 15

\* All ones (the largest fields and the scale -1), the most negative bytes, and
\* two irregular patterns in which neighbouring bytes and nibbles differ.
MCBytes == <<[i \in Offsets |-> 255],
             [i \in Offsets |-> 128],
             [i \in Offsets |-> (37*i + 11) % 256],
             [i \in Offsets |-> (91*i*i + 5*i + 200) % 256]>>

\* Zeros; the largest magnitude negative; ties between two steps; a lone spike
\* in the last position; equal extremes of both signs.
MCSources == <<[i \in 0 .. 8*W - 1 |-> 0],
               [i \in 0 .. 8*W - 1 |-> ((7*i) % 19) - 11],
               [i \in 0 .. 8*W - 1 |-> IF i = 8*W - 1 THEN -10 ELSE (i % 5) - 2],
               [i \in 0 .. 8*W - 1 |-> IF i % 2 = 0 THEN 8 ELSE -8],
               [i \in 0 .. 8*W - 1 |-> ((i * i) % 10) - 1]>>

MCCpus == {{}, {"avx", "f16c"}, {"avx", "f16c", "fma", "avx2"},
           {"avx", "f16c", "fma", "avx2", "avx_vnni"}, {"arm"}, {"arm", "macos"}, {"arm", "dotprod"}}
=============================================================================
