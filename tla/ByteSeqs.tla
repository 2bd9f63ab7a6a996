------------------------------ MODULE ByteSeqs ------------------------------
(***************************************************************************)
(* Sequences of bytes as the stream modules use them.                      *)
(***************************************************************************)
EXTENDS Integers, Sequences, SequencesExt, FiniteSetsExt

CONSTANT Zero        \* the byte a hole in a file reads as

Prefix(s, n) == SubSeq(s, 1, n)
Suffix(s, n) == SubSeq(s, n + 1, Len(s))

\* s with bytes stored from position p (counted from 0) on.
Overlay(s, p, bytes) ==
  IF bytes = <<>> THEN s
  ELSE [i \in 1..Max({Len(s), p + Len(bytes)}) |->
          IF i > p /\ i <= p + Len(bytes) THEN bytes[i - p]
          ELSE IF i <= Len(s) THEN s[i] ELSE Zero]
=============================================================================
