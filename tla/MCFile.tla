------------------------------- MODULE MCFile -------------------------------
(***************************************************************************)
(* A stream with a buffer of two bytes on a file, or a pipe, of at most    *)
(* three: smaller than the file, so that reads refill, writes wrap, and a  *)
(* write-back can be cut in the middle of the buffer.                      *)
(***************************************************************************)
EXTENDS File

MCWritten == {<<"x">>, <<"x", "y">>, <<"n", "x">>}
MCInputs == {<<>>, <<"a", "b", "c">>}
=============================================================================
