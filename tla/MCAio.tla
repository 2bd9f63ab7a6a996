------------------------------- MODULE MCAio -------------------------------
(***************************************************************************)
(* The instance of Aio that TLC checks: one thread makes two calls that    *)
(* submit requests or take results, another one call that suspends or      *)
(* cancels; lists have one or both of two control blocks.                  *)
(***************************************************************************)
EXTENDS Aio, TLC

CONSTANTS t1, t2, c1, c2

MCArrays == {<<c1>>, <<c2, c1>>}
MCMaxCalls == (t1 :> 2) @@ (t2 :> 1)
=============================================================================
