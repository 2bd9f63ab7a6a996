---------------------------- MODULE Thread_proofs ----------------------------
(***************************************************************************)
(* The life of a thread, with thread-specific data, for any number of      *)
(* cancelling threads, any number of iterations of the destructor loop and *)
(* any number of deletions of the key: a signal is sent only to a thread   *)
(* whose tid is known, thread_join returns the thread's result, and a      *)
(* value is only ever handed out under the key it was stored under.        *)
(***************************************************************************)
EXTENDS Keys, TLAPS

(* The thread has come past the atomic or of thread_exit.                  *)
Leaving == {"x_handlers", "x_keys", "x_dtor", "x_call", "x_again", "x_store", "x_did", "x_wake",
            "gone", "cut"}

(* The tid is stored before the thread's own code runs, and without it     *)
(* nothing can lead to a signal.                                           *)
TidInv ==
    /\ creator = "idle" => pc = "unborn"
    /\ pc \notin {"unborn", "start", "start_sleep"} => tid
    /\ "enable" \in bits \/ pending \/ handler = "cas" => tid
    /\ handler = "cas" => pc # "unborn"
    /\ cpc \in [Cancellers -> {"idle", "cas", "kill", "check", "failed"}]
    /\ KillHasTid

(* tcbExitingBit is set exactly while the thread leaves, and the copy of a *)
(* handler that interrupts it has the bit, so that it does not jump to     *)
(* thread_exit again.                                                      *)
ExitInv ==
    /\ want \subseteq {"enable", "async"}
    /\ "exiting" \in bits <=> pc \in Leaving
    /\ handler = "cas" /\ pc \in Leaving => "exiting" \in hold

(* The argument of thread_exit, the value it stores and the flag.          *)
ResultInv ==
    /\ pc \in Leaving \cup {"x_load", "x_or", "exit_cas"} => arg # "none"
    /\ pc \in {"x_did", "x_wake", "gone"} => retval = arg
    /\ didExit => pc \in {"x_wake", "gone"}

JoinInv == (jpc = "read" => didExit) /\ JoinGetsResult

ThreadInv == TidInv /\ ExitInv /\ ResultInv /\ JoinInv

(* A slot is never ahead of its key, and its value carries the slot's own  *)
(* generation.                                                             *)
KeyInv ==
    /\ key \in [in_use : BOOLEAN, dtor : BOOLEAN, generation : Nat]
    /\ slot \in [value : Nat, generation : Nat]
    /\ slot.generation <= key.generation
    /\ slot.value # 0 => slot.value = slot.generation + 1

-----------------------------------------------------------------------------
(* The initial state satisfies the invariants.                             *)
LEMMA InitInv == KeysInit => ThreadInv /\ KeyInv
  BY DEF KeysInit, Init, KeyInv, ThreadInv, TidInv, ExitInv, ResultInv, JoinInv, KillHasTid, JoinGetsResult, Leaving

(* thread_create and the entry of the new thread.                          *)
LEMMA CreateInv ==
  ASSUME ThreadInv,
         CreateClone \/ CreatePublish \/ CreateTid \/ CreateWake \/ Start
  PROVE  ThreadInv'
<1> USE DEF target, signal, create, join, cancel
<1>1. CASE CreateClone
  <2>1. TidInv'
    BY <1>1 DEF ThreadInv, TidInv, KillHasTid, CreateClone
  <2>2. ExitInv'
    BY <1>1 DEF ThreadInv, TidInv, ExitInv, Leaving, CreateClone
  <2>3. ResultInv'
    BY <1>1 DEF ThreadInv, TidInv, ExitInv, ResultInv, Leaving, CreateClone
  <2>4. JoinInv'
    BY <1>1 DEF ThreadInv, TidInv, ExitInv, ResultInv, JoinInv, JoinGetsResult, Leaving, CreateClone
  <2> QED
    BY <2>1, <2>2, <2>3, <2>4 DEF ThreadInv
<1>2. CASE CreatePublish
  <2>1. TidInv'
    BY <1>2 DEF ThreadInv, TidInv, KillHasTid, CreatePublish
  <2>2. ExitInv'
    BY <1>2 DEF ThreadInv, TidInv, ExitInv, Leaving, CreatePublish
  <2>3. ResultInv'
    BY <1>2 DEF ThreadInv, TidInv, ExitInv, ResultInv, Leaving, CreatePublish
  <2>4. JoinInv'
    BY <1>2 DEF ThreadInv, TidInv, ExitInv, ResultInv, JoinInv, JoinGetsResult, Leaving, CreatePublish
  <2> QED
    BY <2>1, <2>2, <2>3, <2>4 DEF ThreadInv
<1>3. CASE CreateTid
  <2>1. TidInv'
    BY <1>3 DEF ThreadInv, TidInv, KillHasTid, CreateTid
  <2>2. ExitInv'
    BY <1>3 DEF ThreadInv, TidInv, ExitInv, Leaving, CreateTid
  <2>3. ResultInv'
    BY <1>3 DEF ThreadInv, TidInv, ExitInv, ResultInv, Leaving, CreateTid
  <2>4. JoinInv'
    BY <1>3 DEF ThreadInv, TidInv, ExitInv, ResultInv, JoinInv, JoinGetsResult, Leaving, CreateTid
  <2> QED
    BY <2>1, <2>2, <2>3, <2>4 DEF ThreadInv
<1>4. CASE CreateWake
  <2>1. TidInv'
    BY <1>4 DEF ThreadInv, TidInv, KillHasTid, CreateWake, Goto
  <2>2. ExitInv'
    BY <1>4 DEF ThreadInv, TidInv, ExitInv, Leaving, CreateWake, Goto
  <2>3. ResultInv'
    BY <1>4 DEF ThreadInv, TidInv, ExitInv, ResultInv, Leaving, CreateWake, Goto
  <2>4. JoinInv'
    BY <1>4 DEF ThreadInv, TidInv, ExitInv, ResultInv, JoinInv, JoinGetsResult, Leaving, CreateWake, Goto
  <2> QED
    BY <2>1, <2>2, <2>3, <2>4 DEF ThreadInv
<1>5. CASE Start
  <2>1. TidInv'
    BY <1>5 DEF ThreadInv, TidInv, KillHasTid, Start, At, Goto
  <2>2. ExitInv'
    <3>1. "exiting" \notin bits /\ pc' \notin Leaving /\ handler' = "none" /\ want' = want
      BY <1>5 DEF ThreadInv, ExitInv, Leaving, Start, At, Goto
    <3>2. bits' = bits \/ bits' = bits \cup {"enable"}
      BY <1>5 DEF Start
    <3> QED
      BY <3>1, <3>2 DEF ThreadInv, ExitInv
  <2>3. ResultInv'
    BY <1>5 DEF ThreadInv, TidInv, ExitInv, ResultInv, Leaving, Start, At, Goto
  <2>4. JoinInv'
    BY <1>5 DEF ThreadInv, TidInv, ExitInv, ResultInv, JoinInv, JoinGetsResult, Leaving, Start, At, Goto
  <2> QED
    BY <2>1, <2>2, <2>3, <2>4 DEF ThreadInv
<1> QED
  BY <1>1, <1>2, <1>3, <1>4, <1>5

(* What the thread's program chooses to do.                                *)
LEMMA ChoiceInv ==
  ASSUME ThreadInv,
         FunctionReturns \/ SetState \/ SetType \/ PthreadExit \/ TestCancel \/ CpEnter \/ CpReturn \/ CancelSelf
  PROVE  ThreadInv'
<1> USE DEF target, signal, create, join, cancel
<1>1. CASE FunctionReturns
  <2>1. TidInv'
    BY <1>1 DEF ThreadInv, TidInv, KillHasTid, FunctionReturns, At
  <2>2. ExitInv'
    BY <1>1 DEF ThreadInv, TidInv, ExitInv, Leaving, FunctionReturns, At
  <2>3. ResultInv'
    BY <1>1 DEF ThreadInv, TidInv, ExitInv, ResultInv, Leaving, FunctionReturns, At
  <2>4. JoinInv'
    BY <1>1 DEF ThreadInv, TidInv, ExitInv, ResultInv, JoinInv, JoinGetsResult, Leaving, FunctionReturns, At
  <2> QED
    BY <2>1, <2>2, <2>3, <2>4 DEF ThreadInv
<1>2. CASE SetState
  <2>1. TidInv'
    BY <1>2 DEF ThreadInv, TidInv, KillHasTid, SetState, At, Load
  <2>2. ExitInv'
    BY <1>2 DEF ThreadInv, TidInv, ExitInv, Leaving, SetState, At, Load
  <2>3. ResultInv'
    BY <1>2 DEF ThreadInv, TidInv, ExitInv, ResultInv, Leaving, SetState, At, Load
  <2>4. JoinInv'
    BY <1>2 DEF ThreadInv, TidInv, ExitInv, ResultInv, JoinInv, JoinGetsResult, Leaving, SetState, At, Load
  <2> QED
    BY <2>1, <2>2, <2>3, <2>4 DEF ThreadInv
<1>3. CASE SetType
  <2>1. TidInv'
    BY <1>3 DEF ThreadInv, TidInv, KillHasTid, SetType, At, Load
  <2>2. ExitInv'
    BY <1>3 DEF ThreadInv, TidInv, ExitInv, Leaving, SetType, At, Load
  <2>3. ResultInv'
    BY <1>3 DEF ThreadInv, TidInv, ExitInv, ResultInv, Leaving, SetType, At, Load
  <2>4. JoinInv'
    BY <1>3 DEF ThreadInv, TidInv, ExitInv, ResultInv, JoinInv, JoinGetsResult, Leaving, SetType, At, Load
  <2> QED
    BY <2>1, <2>2, <2>3, <2>4 DEF ThreadInv
<1>4. CASE PthreadExit
  <2>1. TidInv'
    BY <1>4 DEF ThreadInv, TidInv, KillHasTid, PthreadExit, At, Load
  <2>2. ExitInv'
    BY <1>4 DEF ThreadInv, TidInv, ExitInv, Leaving, PthreadExit, At, Load
  <2>3. ResultInv'
    BY <1>4 DEF ThreadInv, TidInv, ExitInv, ResultInv, Leaving, PthreadExit, At, Load
  <2>4. JoinInv'
    BY <1>4 DEF ThreadInv, TidInv, ExitInv, ResultInv, JoinInv, JoinGetsResult, Leaving, PthreadExit, At, Load
  <2> QED
    BY <2>1, <2>2, <2>3, <2>4 DEF ThreadInv
<1>5. CASE TestCancel
  <2>1. TidInv'
    BY <1>5 DEF ThreadInv, TidInv, KillHasTid, TestCancel, At, __mlibc_do_cancel, Exit
  <2>2. ExitInv'
    BY <1>5 DEF ThreadInv, TidInv, ExitInv, Leaving, TestCancel, At, __mlibc_do_cancel, Exit
  <2>3. ResultInv'
    BY <1>5 DEF ThreadInv, TidInv, ExitInv, ResultInv, Leaving, TestCancel, At, __mlibc_do_cancel, Exit
  <2>4. JoinInv'
    BY <1>5 DEF ThreadInv, TidInv, ExitInv, ResultInv, JoinInv, JoinGetsResult, Leaving, TestCancel, At, __mlibc_do_cancel, Exit
  <2> QED
    BY <2>1, <2>2, <2>3, <2>4 DEF ThreadInv
<1>6. CASE CpEnter
  <2>1. TidInv'
    BY <1>6 DEF ThreadInv, TidInv, KillHasTid, CpEnter, At, Goto, __mlibc_do_cancel, Exit
  <2>2. ExitInv'
    BY <1>6 DEF ThreadInv, TidInv, ExitInv, Leaving, CpEnter, At, Goto, __mlibc_do_cancel, Exit
  <2>3. ResultInv'
    BY <1>6 DEF ThreadInv, TidInv, ExitInv, ResultInv, Leaving, CpEnter, At, Goto, __mlibc_do_cancel, Exit
  <2>4. JoinInv'
    BY <1>6 DEF ThreadInv, TidInv, ExitInv, ResultInv, JoinInv, JoinGetsResult, Leaving, CpEnter, At, Goto, __mlibc_do_cancel, Exit
  <2> QED
    BY <2>1, <2>2, <2>3, <2>4 DEF ThreadInv
<1>7. CASE CpReturn
  <2>1. TidInv'
    BY <1>7 DEF ThreadInv, TidInv, KillHasTid, CpReturn, At, Goto, __mlibc_do_cancel, Exit
  <2>2. ExitInv'
    BY <1>7 DEF ThreadInv, TidInv, ExitInv, Leaving, CpReturn, At, Goto, __mlibc_do_cancel, Exit
  <2>3. ResultInv'
    BY <1>7 DEF ThreadInv, TidInv, ExitInv, ResultInv, Leaving, CpReturn, At, Goto, __mlibc_do_cancel, Exit
  <2>4. JoinInv'
    BY <1>7 DEF ThreadInv, TidInv, ExitInv, ResultInv, JoinInv, JoinGetsResult, Leaving, CpReturn, At, Goto, __mlibc_do_cancel, Exit
  <2> QED
    BY <2>1, <2>2, <2>3, <2>4 DEF ThreadInv
<1>8. CASE CancelSelf
  <2>1. TidInv'
    BY <1>8 DEF ThreadInv, TidInv, KillHasTid, CancelSelf, At
  <2>2. ExitInv'
    BY <1>8 DEF ThreadInv, TidInv, ExitInv, Leaving, CancelSelf, At
  <2>3. ResultInv'
    BY <1>8 DEF ThreadInv, TidInv, ExitInv, ResultInv, Leaving, CancelSelf, At
  <2>4. JoinInv'
    BY <1>8 DEF ThreadInv, TidInv, ExitInv, ResultInv, JoinInv, JoinGetsResult, Leaving, CancelSelf, At
  <2> QED
    BY <2>1, <2>2, <2>3, <2>4 DEF ThreadInv
<1> QED
  BY <1>1, <1>2, <1>3, <1>4, <1>5, <1>6, <1>7, <1>8

(* The functions that change the cancellation bits, and the signal.        *)
LEMMA BitsInv ==
  ASSUME ThreadInv,
         StateCas \/ StateMask \/ TypeCas \/ ExitCas \/ CpBlock \/ Deliver \/ HandlerCas
  PROVE  ThreadInv'
<1> USE DEF target, signal, create, join, cancel
<1>1. CASE StateCas
  <2>1. TidInv'
    BY <1>1 DEF ThreadInv, TidInv, KillHasTid, StateCas, At, NewValue
  <2>2. ExitInv'
    BY <1>1 DEF ThreadInv, TidInv, ExitInv, Leaving, StateCas, At, NewValue
  <2>3. ResultInv'
    BY <1>1 DEF ThreadInv, TidInv, ExitInv, ResultInv, Leaving, StateCas, At, NewValue
  <2>4. JoinInv'
    BY <1>1 DEF ThreadInv, TidInv, ExitInv, ResultInv, JoinInv, JoinGetsResult, Leaving, StateCas, At, NewValue
  <2> QED
    BY <2>1, <2>2, <2>3, <2>4 DEF ThreadInv
<1>2. CASE StateMask
  <2>1. TidInv'
    BY <1>2 DEF ThreadInv, TidInv, KillHasTid, StateMask, At
  <2>2. ExitInv'
    BY <1>2 DEF ThreadInv, TidInv, ExitInv, Leaving, StateMask, At
  <2>3. ResultInv'
    BY <1>2 DEF ThreadInv, TidInv, ExitInv, ResultInv, Leaving, StateMask, At
  <2>4. JoinInv'
    BY <1>2 DEF ThreadInv, TidInv, ExitInv, ResultInv, JoinInv, JoinGetsResult, Leaving, StateMask, At
  <2> QED
    BY <2>1, <2>2, <2>3, <2>4 DEF ThreadInv
<1>3. CASE TypeCas
  <2>1. TidInv'
    BY <1>3 DEF ThreadInv, TidInv, KillHasTid, TypeCas, At, NewValue
  <2>2. ExitInv'
    BY <1>3 DEF ThreadInv, TidInv, ExitInv, Leaving, TypeCas, At, NewValue
  <2>3. ResultInv'
    BY <1>3 DEF ThreadInv, TidInv, ExitInv, ResultInv, Leaving, TypeCas, At, NewValue
  <2>4. JoinInv'
    BY <1>3 DEF ThreadInv, TidInv, ExitInv, ResultInv, JoinInv, JoinGetsResult, Leaving, TypeCas, At, NewValue
  <2> QED
    BY <2>1, <2>2, <2>3, <2>4 DEF ThreadInv
<1>4. CASE ExitCas
  <2>1. TidInv'
    BY <1>4 DEF ThreadInv, TidInv, KillHasTid, ExitCas, At, NewValue, Exit
  <2>2. ExitInv'
    BY <1>4 DEF ThreadInv, TidInv, ExitInv, Leaving, ExitCas, At, NewValue, Exit
  <2>3. ResultInv'
    BY <1>4 DEF ThreadInv, TidInv, ExitInv, ResultInv, Leaving, ExitCas, At, NewValue, Exit
  <2>4. JoinInv'
    BY <1>4 DEF ThreadInv, TidInv, ExitInv, ResultInv, JoinInv, JoinGetsResult, Leaving, ExitCas, At, NewValue, Exit
  <2> QED
    BY <2>1, <2>2, <2>3, <2>4 DEF ThreadInv
<1>5. CASE CpBlock
  <2>1. TidInv'
    BY <1>5 DEF ThreadInv, TidInv, KillHasTid, CpBlock, At, Goto
  <2>2. ExitInv'
    BY <1>5 DEF ThreadInv, TidInv, ExitInv, Leaving, CpBlock, At, Goto
  <2>3. ResultInv'
    BY <1>5 DEF ThreadInv, TidInv, ExitInv, ResultInv, Leaving, CpBlock, At, Goto
  <2>4. JoinInv'
    BY <1>5 DEF ThreadInv, TidInv, ExitInv, ResultInv, JoinInv, JoinGetsResult, Leaving, CpBlock, At, Goto
  <2> QED
    BY <2>1, <2>2, <2>3, <2>4 DEF ThreadInv
<1>6. CASE Deliver
  <2>1. TidInv'
    BY <1>6 DEF ThreadInv, TidInv, KillHasTid, Deliver
  <2>2. ExitInv'
    BY <1>6 DEF ThreadInv, TidInv, ExitInv, Leaving, Deliver
  <2>3. ResultInv'
    BY <1>6 DEF ThreadInv, TidInv, ExitInv, ResultInv, Leaving, Deliver
  <2>4. JoinInv'
    BY <1>6 DEF ThreadInv, TidInv, ExitInv, ResultInv, JoinInv, JoinGetsResult, Leaving, Deliver
  <2> QED
    BY <2>1, <2>2, <2>3, <2>4 DEF ThreadInv
<1>7. CASE HandlerCas
  <2>1. TidInv'
    BY <1>7 DEF ThreadInv, TidInv, KillHasTid, HandlerCas
  <2>2. ExitInv'
    <3>1. CASE handler' = "none" /\ UNCHANGED <<bits, pc, want>>
      BY <3>1 DEF ThreadInv, ExitInv
    <3>2. CASE handler' = "cas" /\ hold' = bits /\ UNCHANGED <<bits, pc, want>>
      BY <3>2 DEF ThreadInv, ExitInv
    <3>3. CASE /\ "exiting" \notin hold /\ bits = hold
               /\ bits' = hold \cup {"trigger", "canceling"}
               /\ pc' = "x_load" /\ want' = {} /\ handler' = "none"
      <4>1. "exiting" \notin bits' /\ pc' \notin Leaving
        BY <3>3 DEF Leaving
      <4> QED
        BY <3>3, <4>1 DEF ExitInv
    <3> QED
      BY <1>7, <3>1, <3>2, <3>3 DEF HandlerCas
  <2>3. ResultInv'
    BY <1>7 DEF ThreadInv, TidInv, ExitInv, ResultInv, Leaving, HandlerCas
  <2>4. JoinInv'
    BY <1>7 DEF ThreadInv, TidInv, ExitInv, ResultInv, JoinInv, JoinGetsResult, Leaving, HandlerCas
  <2> QED
    BY <2>1, <2>2, <2>3, <2>4 DEF ThreadInv
<1> QED
  BY <1>1, <1>2, <1>3, <1>4, <1>5, <1>6, <1>7

(* thread_exit.                                                            *)
LEMMA ThreadExitInv ==
  ASSUME ThreadInv,
         XLoad \/ XOr \/ XHandlers \/ XKeys \/ XAgain \/ XStore \/ XDid \/ XWake
  PROVE  ThreadInv'
<1> USE DEF target, signal, create, join, cancel
<1>1. CASE XLoad
  <2>1. TidInv'
    BY <1>1 DEF ThreadInv, TidInv, KillHasTid, XLoad, At, Goto
  <2>2. ExitInv'
    BY <1>1 DEF ThreadInv, TidInv, ExitInv, Leaving, XLoad, At, Goto
  <2>3. ResultInv'
    BY <1>1 DEF ThreadInv, TidInv, ExitInv, ResultInv, Leaving, XLoad, At, Goto
  <2>4. JoinInv'
    BY <1>1 DEF ThreadInv, TidInv, ExitInv, ResultInv, JoinInv, JoinGetsResult, Leaving, XLoad, At, Goto
  <2> QED
    BY <2>1, <2>2, <2>3, <2>4 DEF ThreadInv
<1>2. CASE XOr
  <2>1. TidInv'
    BY <1>2 DEF ThreadInv, TidInv, KillHasTid, XOr, At
  <2>2. ExitInv'
    BY <1>2 DEF ThreadInv, TidInv, ExitInv, Leaving, XOr, At
  <2>3. ResultInv'
    BY <1>2 DEF ThreadInv, TidInv, ExitInv, ResultInv, Leaving, XOr, At
  <2>4. JoinInv'
    BY <1>2 DEF ThreadInv, TidInv, ExitInv, ResultInv, JoinInv, JoinGetsResult, Leaving, XOr, At
  <2> QED
    BY <2>1, <2>2, <2>3, <2>4 DEF ThreadInv
<1>3. CASE XHandlers
  <2>1. TidInv'
    BY <1>3 DEF ThreadInv, TidInv, KillHasTid, XHandlers, At, Goto
  <2>2. ExitInv'
    BY <1>3 DEF ThreadInv, TidInv, ExitInv, Leaving, XHandlers, At, Goto
  <2>3. ResultInv'
    BY <1>3 DEF ThreadInv, TidInv, ExitInv, ResultInv, Leaving, XHandlers, At, Goto
  <2>4. JoinInv'
    BY <1>3 DEF ThreadInv, TidInv, ExitInv, ResultInv, JoinInv, JoinGetsResult, Leaving, XHandlers, At, Goto
  <2> QED
    BY <2>1, <2>2, <2>3, <2>4 DEF ThreadInv
<1>4. CASE XKeys
  <2>1. TidInv'
    BY <1>4 DEF ThreadInv, TidInv, KillHasTid, XKeys, At, Goto
  <2>2. ExitInv'
    BY <1>4 DEF ThreadInv, TidInv, ExitInv, Leaving, XKeys, At, Goto
  <2>3. ResultInv'
    BY <1>4 DEF ThreadInv, TidInv, ExitInv, ResultInv, Leaving, XKeys, At, Goto
  <2>4. JoinInv'
    BY <1>4 DEF ThreadInv, TidInv, ExitInv, ResultInv, JoinInv, JoinGetsResult, Leaving, XKeys, At, Goto
  <2> QED
    BY <2>1, <2>2, <2>3, <2>4 DEF ThreadInv
<1>5. CASE XAgain
  <2>1. TidInv'
    BY <1>5 DEF ThreadInv, TidInv, KillHasTid, XAgain, At, Goto
  <2>2. ExitInv'
    BY <1>5 DEF ThreadInv, TidInv, ExitInv, Leaving, XAgain, At, Goto
  <2>3. ResultInv'
    BY <1>5 DEF ThreadInv, TidInv, ExitInv, ResultInv, Leaving, XAgain, At, Goto
  <2>4. JoinInv'
    BY <1>5 DEF ThreadInv, TidInv, ExitInv, ResultInv, JoinInv, JoinGetsResult, Leaving, XAgain, At, Goto
  <2> QED
    BY <2>1, <2>2, <2>3, <2>4 DEF ThreadInv
<1>6. CASE XStore
  <2>1. TidInv'
    BY <1>6 DEF ThreadInv, TidInv, KillHasTid, XStore, At
  <2>2. ExitInv'
    BY <1>6 DEF ThreadInv, TidInv, ExitInv, Leaving, XStore, At
  <2>3. ResultInv'
    BY <1>6 DEF ThreadInv, TidInv, ExitInv, ResultInv, Leaving, XStore, At
  <2>4. JoinInv'
    BY <1>6 DEF ThreadInv, TidInv, ExitInv, ResultInv, JoinInv, JoinGetsResult, Leaving, XStore, At
  <2> QED
    BY <2>1, <2>2, <2>3, <2>4 DEF ThreadInv
<1>7. CASE XDid
  <2>1. TidInv'
    BY <1>7 DEF ThreadInv, TidInv, KillHasTid, XDid, At
  <2>2. ExitInv'
    BY <1>7 DEF ThreadInv, TidInv, ExitInv, Leaving, XDid, At
  <2>3. ResultInv'
    BY <1>7 DEF ThreadInv, TidInv, ExitInv, ResultInv, Leaving, XDid, At
  <2>4. JoinInv'
    BY <1>7 DEF ThreadInv, TidInv, ExitInv, ResultInv, JoinInv, JoinGetsResult, Leaving, XDid, At
  <2> QED
    BY <2>1, <2>2, <2>3, <2>4 DEF ThreadInv
<1>8. CASE XWake
  <2>1. TidInv'
    BY <1>8 DEF ThreadInv, TidInv, KillHasTid, XWake, At, Goto
  <2>2. ExitInv'
    BY <1>8 DEF ThreadInv, TidInv, ExitInv, Leaving, XWake, At, Goto
  <2>3. ResultInv'
    BY <1>8 DEF ThreadInv, TidInv, ExitInv, ResultInv, Leaving, XWake, At, Goto
  <2>4. JoinInv'
    BY <1>8 DEF ThreadInv, TidInv, ExitInv, ResultInv, JoinInv, JoinGetsResult, Leaving, XWake, At, Goto
  <2> QED
    BY <2>1, <2>2, <2>3, <2>4 DEF ThreadInv
<1> QED
  BY <1>1, <1>2, <1>3, <1>4, <1>5, <1>6, <1>7, <1>8

(* thread_join and thread_detach.                                          *)
LEMMA JoinersInv ==
  ASSUME ThreadInv,
         JoinEnter \/ JoinLoad \/ JoinFutexWait \/ JoinInterrupted \/ JoinRead \/ Detach
  PROVE  ThreadInv'
<1> USE DEF target, signal, create, join, cancel
<1>1. CASE JoinEnter
  <2>1. TidInv'
    BY <1>1 DEF ThreadInv, TidInv, KillHasTid, JoinEnter
  <2>2. ExitInv'
    BY <1>1 DEF ThreadInv, TidInv, ExitInv, Leaving, JoinEnter
  <2>3. ResultInv'
    BY <1>1 DEF ThreadInv, TidInv, ExitInv, ResultInv, Leaving, JoinEnter
  <2>4. JoinInv'
    BY <1>1 DEF ThreadInv, TidInv, ExitInv, ResultInv, JoinInv, JoinGetsResult, Leaving, JoinEnter
  <2> QED
    BY <2>1, <2>2, <2>3, <2>4 DEF ThreadInv
<1>2. CASE JoinLoad
  <2>1. TidInv'
    BY <1>2 DEF ThreadInv, TidInv, KillHasTid, JoinLoad
  <2>2. ExitInv'
    BY <1>2 DEF ThreadInv, TidInv, ExitInv, Leaving, JoinLoad
  <2>3. ResultInv'
    BY <1>2 DEF ThreadInv, TidInv, ExitInv, ResultInv, Leaving, JoinLoad
  <2>4. JoinInv'
    BY <1>2 DEF ThreadInv, TidInv, ExitInv, ResultInv, JoinInv, JoinGetsResult, Leaving, JoinLoad
  <2> QED
    BY <2>1, <2>2, <2>3, <2>4 DEF ThreadInv
<1>3. CASE JoinFutexWait
  <2>1. TidInv'
    BY <1>3 DEF ThreadInv, TidInv, KillHasTid, JoinFutexWait
  <2>2. ExitInv'
    BY <1>3 DEF ThreadInv, TidInv, ExitInv, Leaving, JoinFutexWait
  <2>3. ResultInv'
    BY <1>3 DEF ThreadInv, TidInv, ExitInv, ResultInv, Leaving, JoinFutexWait
  <2>4. JoinInv'
    BY <1>3 DEF ThreadInv, TidInv, ExitInv, ResultInv, JoinInv, JoinGetsResult, Leaving, JoinFutexWait
  <2> QED
    BY <2>1, <2>2, <2>3, <2>4 DEF ThreadInv
<1>4. CASE JoinInterrupted
  <2>1. TidInv'
    BY <1>4 DEF ThreadInv, TidInv, KillHasTid, JoinInterrupted
  <2>2. ExitInv'
    BY <1>4 DEF ThreadInv, TidInv, ExitInv, Leaving, JoinInterrupted
  <2>3. ResultInv'
    BY <1>4 DEF ThreadInv, TidInv, ExitInv, ResultInv, Leaving, JoinInterrupted
  <2>4. JoinInv'
    BY <1>4 DEF ThreadInv, TidInv, ExitInv, ResultInv, JoinInv, JoinGetsResult, Leaving, JoinInterrupted
  <2> QED
    BY <2>1, <2>2, <2>3, <2>4 DEF ThreadInv
<1>5. CASE JoinRead
  <2>1. TidInv'
    BY <1>5 DEF ThreadInv, TidInv, KillHasTid, JoinRead
  <2>2. ExitInv'
    BY <1>5 DEF ThreadInv, TidInv, ExitInv, Leaving, JoinRead
  <2>3. ResultInv'
    BY <1>5 DEF ThreadInv, TidInv, ExitInv, ResultInv, Leaving, JoinRead
  <2>4. JoinInv'
    BY <1>5 DEF ThreadInv, TidInv, ExitInv, ResultInv, JoinInv, JoinGetsResult, Leaving, JoinRead
  <2> QED
    BY <2>1, <2>2, <2>3, <2>4 DEF ThreadInv
<1>6. CASE Detach
  <2>1. TidInv'
    BY <1>6 DEF ThreadInv, TidInv, KillHasTid, Detach
  <2>2. ExitInv'
    BY <1>6 DEF ThreadInv, TidInv, ExitInv, Leaving, Detach
  <2>3. ResultInv'
    BY <1>6 DEF ThreadInv, TidInv, ExitInv, ResultInv, Leaving, Detach
  <2>4. JoinInv'
    BY <1>6 DEF ThreadInv, TidInv, ExitInv, ResultInv, JoinInv, JoinGetsResult, Leaving, Detach
  <2> QED
    BY <2>1, <2>2, <2>3, <2>4 DEF ThreadInv
<1> QED
  BY <1>1, <1>2, <1>3, <1>4, <1>5, <1>6

(* The destructor loop of thread_exit.                                     *)
LEMMA KeyStepsInv ==
  ASSUME ThreadInv,
         XKeyGet \/ XKeyDtor \/ XKeyCall
  PROVE  ThreadInv'
<1> USE DEF target, signal, create, join, cancel
<1>1. CASE XKeyGet
  <2>1. TidInv'
    BY <1>1 DEF ThreadInv, TidInv, KillHasTid, XKeyGet, At, Goto, others
  <2>2. ExitInv'
    BY <1>1 DEF ThreadInv, TidInv, ExitInv, Leaving, XKeyGet, At, Goto, others
  <2>3. ResultInv'
    BY <1>1 DEF ThreadInv, TidInv, ExitInv, ResultInv, Leaving, XKeyGet, At, Goto, others
  <2>4. JoinInv'
    BY <1>1 DEF ThreadInv, TidInv, ExitInv, ResultInv, JoinInv, JoinGetsResult, Leaving, XKeyGet, At, Goto, others
  <2> QED
    BY <2>1, <2>2, <2>3, <2>4 DEF ThreadInv
<1>2. CASE XKeyDtor
  <2>1. TidInv'
    BY <1>2 DEF ThreadInv, TidInv, KillHasTid, XKeyDtor, At, Goto, others
  <2>2. ExitInv'
    BY <1>2 DEF ThreadInv, TidInv, ExitInv, Leaving, XKeyDtor, At, Goto, others
  <2>3. ResultInv'
    BY <1>2 DEF ThreadInv, TidInv, ExitInv, ResultInv, Leaving, XKeyDtor, At, Goto, others
  <2>4. JoinInv'
    BY <1>2 DEF ThreadInv, TidInv, ExitInv, ResultInv, JoinInv, JoinGetsResult, Leaving, XKeyDtor, At, Goto, others
  <2> QED
    BY <2>1, <2>2, <2>3, <2>4 DEF ThreadInv
<1>3. CASE XKeyCall
  <2>1. TidInv'
    BY <1>3 DEF ThreadInv, TidInv, KillHasTid, XKeyCall, At, Goto, others
  <2>2. ExitInv'
    BY <1>3 DEF ThreadInv, TidInv, ExitInv, Leaving, XKeyCall, At, Goto, others
  <2>3. ResultInv'
    BY <1>3 DEF ThreadInv, TidInv, ExitInv, ResultInv, Leaving, XKeyCall, At, Goto, others
  <2>4. JoinInv'
    BY <1>3 DEF ThreadInv, TidInv, ExitInv, ResultInv, JoinInv, JoinGetsResult, Leaving, XKeyCall, At, Goto, others
  <2> QED
    BY <2>1, <2>2, <2>3, <2>4 DEF ThreadInv
<1> QED
  BY <1>1, <1>2, <1>3

(* pthread_cancel by another thread.                                       *)
LEMMA CancelInv ==
  ASSUME ThreadInv, NEW c \in Cancellers, CancelLoad(c) \/ CancelStep(c)
  PROVE  ThreadInv'
<1> USE DEF target, signal, create, join, cancel
<1>1. CASE CancelLoad(c)
  <2>1. TidInv'
    BY <1>1 DEF ThreadInv, TidInv, KillHasTid, CancelLoad
  <2>2. ExitInv'
    BY <1>1 DEF ThreadInv, TidInv, ExitInv, Leaving, CancelLoad
  <2>3. ResultInv'
    BY <1>1 DEF ThreadInv, TidInv, ExitInv, ResultInv, Leaving, CancelLoad
  <2>4. JoinInv'
    BY <1>1 DEF ThreadInv, TidInv, ExitInv, ResultInv, JoinInv, JoinGetsResult, Leaving, CancelLoad
  <2> QED
    BY <2>1, <2>2, <2>3, <2>4 DEF ThreadInv
<1>2. CASE CancelCas(c)
  <2>1. TidInv'
    BY <1>2 DEF ThreadInv, TidInv, KillHasTid, CancelCas
  <2>2. ExitInv'
    BY <1>2 DEF ThreadInv, TidInv, ExitInv, Leaving, CancelCas
  <2>3. ResultInv'
    BY <1>2 DEF ThreadInv, TidInv, ExitInv, ResultInv, Leaving, CancelCas
  <2>4. JoinInv'
    BY <1>2 DEF ThreadInv, TidInv, ExitInv, ResultInv, JoinInv, JoinGetsResult, Leaving, CancelCas
  <2> QED
    BY <2>1, <2>2, <2>3, <2>4 DEF ThreadInv
<1>3. CASE CancelKill(c)
  <2>1. TidInv'
    BY <1>3 DEF ThreadInv, TidInv, KillHasTid, CancelKill
  <2>2. ExitInv'
    BY <1>3 DEF ThreadInv, TidInv, ExitInv, Leaving, CancelKill
  <2>3. ResultInv'
    BY <1>3 DEF ThreadInv, TidInv, ExitInv, ResultInv, Leaving, CancelKill
  <2>4. JoinInv'
    BY <1>3 DEF ThreadInv, TidInv, ExitInv, ResultInv, JoinInv, JoinGetsResult, Leaving, CancelKill
  <2> QED
    BY <2>1, <2>2, <2>3, <2>4 DEF ThreadInv
<1>4. CASE CancelCheck(c)
  <2>1. TidInv'
    BY <1>4 DEF ThreadInv, TidInv, KillHasTid, CancelCheck
  <2>2. ExitInv'
    BY <1>4 DEF ThreadInv, TidInv, ExitInv, Leaving, CancelCheck
  <2>3. ResultInv'
    BY <1>4 DEF ThreadInv, TidInv, ExitInv, ResultInv, Leaving, CancelCheck
  <2>4. JoinInv'
    BY <1>4 DEF ThreadInv, TidInv, ExitInv, ResultInv, JoinInv, JoinGetsResult, Leaving, CancelCheck
  <2> QED
    BY <2>1, <2>2, <2>3, <2>4 DEF ThreadInv
<1> QED
  BY <1>1, <1>2, <1>3, <1>4 DEF CancelStep

(* Every step keeps the invariant of the thread.                           *)
LEMMA ThreadStep == ThreadInv /\ [KeysNext]_allVars => ThreadInv'
<1> SUFFICES ASSUME ThreadInv, [KeysNext]_allVars PROVE ThreadInv'
  OBVIOUS
<1>1. CASE UNCHANGED vars
  BY <1>1 DEF vars, target, signal, create, join, cancel, ThreadInv, TidInv, ExitInv, ResultInv, JoinInv, KillHasTid, JoinGetsResult, Leaving
<1>2. CASE TargetStep
  BY <1>2, CreateInv, BitsInv, ThreadExitInv DEF TargetStep
<1>3. CASE XKeyGet \/ XKeyDtor \/ XKeyCall
  BY <1>3, KeyStepsInv
<1>4. CASE Others
  BY <1>4, CreateInv, ChoiceInv, BitsInv, JoinersInv, CancelInv
  DEF Others, CreateStep, TargetChoice, JoinStep
<1> QED
  BY <1>1, <1>2, <1>3, <1>4
  DEF KeysNext, TargetKeyStep, thread_key_create, thread_key_delete, thread_key_set, allVars

(* Every step keeps the invariant of the key and its slot.                 *)
LEMMA KeyStep == KeyInv /\ [KeysNext]_allVars => KeyInv'
<1> SUFFICES ASSUME KeyInv, [KeysNext]_allVars PROVE KeyInv'
  OBVIOUS
<1>1. CASE UNCHANGED keyVars
  BY <1>1 DEF keyVars, KeyInv
<1>2. CASE thread_key_create
  BY <1>2 DEF thread_key_create, KeyInv
<1>3. CASE thread_key_delete
  BY <1>3 DEF thread_key_delete, KeyInv
<1>4. CASE thread_key_set
  BY <1>4 DEF thread_key_set, KeyInv
<1>5. CASE XKeyGet
  BY <1>5 DEF XKeyGet, thread_key_get, KeyInv
<1>6. CASE XKeyCall
  BY <1>6 DEF XKeyCall, KeyInv
<1> QED
  BY <1>1, <1>2, <1>3, <1>4, <1>5, <1>6 DEF KeysNext, TargetKeyStep, XKeyDtor, allVars

(* Only the first read of the loop hands out a value, and thread_key_get   *)
(* has by then replaced a value of an earlier generation.                  *)
LEMMA ValueStep ==
  KeyInv /\ [KeysNext]_allVars => [v' # 0 /\ v' # v => v' = key.generation + 1]_allVars
<1> SUFFICES ASSUME KeyInv, [KeysNext]_allVars, v' # 0, v' # v PROVE v' = key.generation + 1
  OBVIOUS
<1>1. CASE XKeyGet
  BY <1>1 DEF XKeyGet, thread_key_get, KeyInv
<1>2. CASE XKeyCall
  BY <1>2 DEF XKeyCall
<1> QED
  BY <1>1, <1>2
  DEF KeysNext, TargetKeyStep, XKeyDtor, thread_key_create, thread_key_delete, thread_key_set,
      keyVars, allVars

(* The two invariants hold throughout.                                     *)
THEOREM Invariance == KeysSpec => [](ThreadInv /\ KeyInv)
<1>1. ThreadInv /\ KeyInv /\ [KeysNext]_allVars => (ThreadInv /\ KeyInv)'
  BY ThreadStep, KeyStep
<1> QED
  BY <1>1, InitInv, PTL DEF KeysSpec

(* pthread_cancel never signals a thread whose tid is not stored yet.      *)
THEOREM KillHasTidHolds == KeysSpec => []KillHasTid
<1>1. ThreadInv => KillHasTid
  BY DEF ThreadInv, TidInv
<1> QED
  BY <1>1, Invariance, PTL

(* thread_join returns the argument of the thread's own thread_exit call,  *)
(* whatever cancellations race with it.                                    *)
THEOREM JoinGetsResultHolds == KeysSpec => []JoinGetsResult
<1>1. ThreadInv => JoinGetsResult
  BY DEF ThreadInv, JoinInv
<1> QED
  BY <1>1, Invariance, PTL

(* A value of a deleted key is never taken for one of the key that has its *)
(* place in the table.                                                     *)
THEOREM ValueOfItsKeyHolds == KeysSpec => ValueOfItsKey
<1>1. KeysSpec => [][KeysNext]_allVars
  BY PTL DEF KeysSpec
<1>2. KeysSpec => []KeyInv
  BY Invariance, PTL
<1> QED
  BY <1>1, <1>2, ValueStep, PTL DEF ValueOfItsKey
=============================================================================
