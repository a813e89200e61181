--------------------------------- MODULE MCApp ---------------------------------
(***************************************************************************)
(* A small instance of App for TLC.                                        *)
(***************************************************************************)
EXTENDS App

\* One version of the app knows the size, another asks for it
MCKnownSize == {Unknown, 2}
=============================================================================
