------------------------------ MODULE MCContext ------------------------------
(***************************************************************************)
(* Small instances of Context for TLC.                                     *)
(***************************************************************************)
EXTENDS Context

\* three layers, the middle one SSM: the two attention blocks are apart in
\* the flat cache
MCSsmLayers == {1}
=============================================================================
