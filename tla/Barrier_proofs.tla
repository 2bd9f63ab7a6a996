---------------------------- MODULE Barrier_proofs ----------------------------
(***************************************************************************)
(* Destroying a barrier, for any finite set of threads, any count and any  *)
(* number of calls: pthread_barrier_destroy returns only when no thread    *)
(* will touch the barrier again.                                           *)
(***************************************************************************)
EXTENDS Barrier, FiniteSetTheorems, TLAPS

(* The threads between the increment and the decrement of __mlibc_inside.  *)
Inside == {t \in Threads : pc[t] \notin {"out", "leave_wake"}}

Inv ==
    /\ pc \in [Threads -> PCs]
    /\ Cardinality(Inside) = inside
    /\ destroyer \in {"none", "load", "sleep", "done"}
    /\ destroyer = "done" => inside = 0

-----------------------------------------------------------------------------
(* The set is finite; inside is its size, so that it is positive when a    *)
(* thread is inside.                                                       *)
LEMMA InsideFacts ==
  ASSUME Inv
  PROVE  IsFiniteSet(Inside) /\ inside \in Nat /\ (inside = 0 <=> Inside = {})
<1>1. IsFiniteSet(Inside)
  BY BarrierAssumption, FS_Subset DEF Inside
<1> QED
  BY <1>1, FS_CardinalityType, FS_EmptySet DEF Inv

(* A step that changes neither inside nor who is inside.                   *)
LEMMA InsideKept ==
  ASSUME Inv, pc' \in [Threads -> PCs], inside' = inside, destroyer' = destroyer,
         \A u \in Threads : pc'[u] \in {"out", "leave_wake"} <=> pc[u] \in {"out", "leave_wake"}
  PROVE  Inv'
<1>1. Inside' = Inside
  BY DEF Inside
<1> QED
  BY <1>1 DEF Inv

(* pthread_barrier_wait begins; nobody enters once destroy has.            *)
LEMMA EnterInv == ASSUME Inv, NEW t \in Threads, Enter(t) PROVE Inv'
<1>1. t \notin Inside /\ Inside' = Inside \cup {t}
  BY DEF Inv, Inside, Enter, Goto
<1>2. Cardinality(Inside') = inside + 1
  BY <1>1, InsideFacts, FS_AddElement DEF Inv
<1> QED
  BY <1>2 DEF Inv, Enter, Goto, PCs

(* leave(): the thread was counted.                                        *)
LEMMA LeaveInv == ASSUME Inv, NEW t \in Threads, Leave(t) PROVE Inv'
<1>1. t \in Inside /\ Inside' = Inside \ {t}
  BY DEF Inv, Inside, Leave, Goto
<1>2. Cardinality(Inside') = inside - 1
  BY <1>1, InsideFacts, FS_RemoveElement DEF Inv
<1>3. inside # 0
  BY <1>1, InsideFacts
<1> QED
  BY <1>2, <1>3 DEF Inv, Leave, Goto, PCs

(* Every step keeps the invariant.                                         *)
LEMMA NextInv == Inv /\ [Next]_vars => Inv'
<1> SUFFICES ASSUME Inv, [Next]_vars PROVE Inv'
  OBVIOUS
<1>1. CASE UNCHANGED vars
  BY <1>1, InsideKept DEF vars, Inv
<1>2. ASSUME NEW t \in Threads, Enter(t) \/ Leave(t) PROVE Inv'
  BY <1>2, EnterInv, LeaveInv
<1>3. ASSUME NEW t \in Threads, Load(t) \/ CasLast(t) \/ Store(t) \/ CasWait(t) \/ Check(t)
      PROVE  Inv'
  BY <1>3, InsideKept DEF Inv, PCs, Goto, Load, CasLast, Store, CasWait, Check
<1>4. ASSUME NEW t \in Threads, Wake(t) \/ FutexWait(t) \/ Interrupted(t) PROVE Inv'
  BY <1>4, InsideKept DEF Inv, PCs, Goto, Wake, FutexWait, Interrupted
<1>5. ASSUME NEW t \in Threads, LeaveWake(t) PROVE Inv'
  <2>1. Inside' = Inside
    BY <1>5 DEF Inv, Inside, LeaveWake, Goto
  <2> QED
    BY <1>5, <2>1 DEF Inv, PCs, LeaveWake, Goto
<1>6. CASE DestroyEnter \/ DestroyLoad \/ DestroyInterrupted
  <2>1. Inside' = Inside
    BY <1>6 DEF Inside, DestroyEnter, DestroyLoad, DestroyInterrupted
  <2> QED
    BY <1>6, <2>1 DEF Inv, DestroyEnter, DestroyLoad, DestroyInterrupted
<1> QED
  BY <1>1, <1>2, <1>3, <1>4, <1>5, <1>6 DEF Next, Step

(* When pthread_barrier_destroy has returned, no thread reads or writes    *)
(* the barrier any more.                                                   *)
THEOREM DestroySafeHolds == Spec => []DestroySafe
<1>1. Init => Inv
  <2> SUFFICES ASSUME Init PROVE Inv
    OBVIOUS
  <2>1. Inside = {}
    BY DEF Init, Inside
  <2> QED
    BY <2>1, FS_EmptySet DEF Init, Inv, PCs
<1>2. Inv => DestroySafe
  BY InsideFacts DEF Inv, Inside, DestroySafe
<1> QED
  BY <1>1, <1>2, NextInv, PTL DEF Spec
=============================================================================
