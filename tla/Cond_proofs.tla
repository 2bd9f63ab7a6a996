----------------------------- MODULE Cond_proofs -----------------------------
(***************************************************************************)
(* The condition variable under the monitor, for any threads, producers    *)
(* and bounds, as long as the sequence number does not wrap: a broadcast   *)
(* leaves no earlier waiter asleep, and the assertion that a refused       *)
(* FutexWait means a newer sequence number holds.                          *)
(***************************************************************************)
EXTENDS CondMonitor, TLAPS

(* Fewer notifications than __mlibc_seq has values.                        *)
NoWrap == MaxNotify < SeqMod

(* The sequence number counts the notifications; what threads remember of  *)
(* it is not ahead of it.                                                  *)
SeqInv ==
    /\ notified \in 0..MaxNotify /\ seq = notified
    /\ swept \in Nat /\ swept <= seq
    /\ pc \in [Threads -> PCs] /\ err \in [Threads -> Errs]
    /\ wseq \in [Threads -> Nat]
    /\ \A t \in Threads : wseq[t] <= seq

(* The assertion at the end of timedwait: whoever FutexWait refused finds  *)
(* a newer sequence number.                                                *)
AssertionHolds == \A t \in Threads :
    /\ pc[t] # "panic"
    /\ pc[t] \in {"relock", "result"} /\ err[t] = "EAGAIN" => seq > wseq[t]

Inv == SeqInv /\ BroadcastWakesAll /\ AssertionHolds

-----------------------------------------------------------------------------
(* The waiter's steps.                                                     *)
LEMMA WaitInv ==
  ASSUME Inv, NEW t \in Threads,
         \/ WaitEnter(t) \/ WaitUnlock(t) \/ WaitFutex(t) \/ WaitRelock(t) \/ WaitResult(t)
         \/ WaitDisturbed(t)
  PROVE  Inv'
<1> USE DEF Inv, WaitEnter, WaitUnlock, WaitFutex, WaitRelock, WaitResult, WaitDisturbed, Goto
<1>1. SeqInv'
  BY DEF SeqInv, PCs, Errs
<1>2. BroadcastWakesAll'
  BY DEF SeqInv, BroadcastWakesAll, Sleepers
<1>3. AssertionHolds'
  BY DEF SeqInv, AssertionHolds
<1> QED
  BY <1>1, <1>2, <1>3

(* A signal or broadcast advances the sequence number.                     *)
LEMMA NotifyInv ==
  ASSUME NoWrap, Inv, NEW t \in Threads, Signal(t) \/ Broadcast(t)
  PROVE  Inv'
<1> USE CondAssumption DEF Inv, Signal, Broadcast, Notify, Goto
<1>1. notified' = notified + 1 /\ notified' <= MaxNotify /\ notified \in Nat /\ notified' < SeqMod
  BY DEF SeqInv, NoWrap
<1>2. seq' = seq + 1
  <2>1. seq + 1 \in 0..(SeqMod - 1) /\ seq' = (seq + 1) % SeqMod
    BY <1>1 DEF SeqInv
  <2> QED
    BY <2>1
<1>3. SeqInv'
  BY <1>1, <1>2 DEF SeqInv, PCs
<1>4. BroadcastWakesAll'
  BY DEF SeqInv, BroadcastWakesAll, Sleepers
<1>5. AssertionHolds'
  BY <1>2 DEF SeqInv, AssertionHolds
<1> QED
  BY <1>3, <1>4, <1>5

(* The wake of a signal or broadcast; after that of a broadcast nobody is  *)
(* asleep.                                                                 *)
LEMMA WakeInv ==
  ASSUME Inv, NEW t \in Threads, SignalWake(t) \/ BroadcastWake(t)
  PROVE  Inv'
<1> USE DEF Inv, SignalWake, BroadcastWake, Wake
<1>1. SeqInv'
  BY DEF SeqInv, PCs, Errs
<1>2. BroadcastWakesAll'
  <2>1. CASE SignalWake(t)
    BY <2>1 DEF SeqInv, BroadcastWakesAll, Sleepers
  <2>2. CASE BroadcastWake(t)
    <3>1. Sleepers' = {}
      BY <2>2 DEF SeqInv, Sleepers
    <3> QED
      BY <3>1 DEF BroadcastWakesAll
  <2> QED
    BY <2>1, <2>2
<1>3. AssertionHolds'
  BY DEF SeqInv, AssertionHolds, Sleepers
<1> QED
  BY <1>1, <1>2, <1>3

(* Steps that leave the condition variable alone.                          *)
LEMMA FrameInv ==
  ASSUME Inv, UNCHANGED <<seq, pc, wseq, err, notified, swept>>
  PROVE  Inv'
  BY DEF Inv, SeqInv, BroadcastWakesAll, AssertionHolds, Sleepers

(* Every step keeps the invariant.                                         *)
LEMMA NextInv == ASSUME NoWrap, Inv, [Next]_vars PROVE Inv'
<1>1. CASE UNCHANGED vars
  BY <1>1, FrameInv DEF vars, condvars
<1>2. ASSUME NEW t \in Threads, Inside(t) \/ Disturbed(t) PROVE Inv'
  BY <1>2, WaitInv, WakeInv, FrameInv DEF Inside, Disturbed, Step, CancelCleanup
<1>3. ASSUME NEW c \in Consumers, Enter(c) \/ Take(c) \/ WaitForItem(c) PROVE Inv'
  BY <1>3, WaitInv, FrameInv DEF Consumers, Enter, Lock, Take, WaitForItem
<1>4. ASSUME NEW p \in Producers, Add(p) \/ Announce(p) \/ Leave(p) PROVE Inv'
  BY <1>4, MonitorAssumption, NotifyInv, FrameInv DEF Add, Lock, Announce, Leave, Unlock
<1> QED
  BY <1>1, <1>2, <1>3, <1>4 DEF Next

(* The condition variable is created in a state that satisfies it.         *)
LEMMA InitInv == Init => Inv
  BY CondAssumption
  DEF Init, CondInit, Inv, SeqInv, BroadcastWakesAll, AssertionHolds, Sleepers, PCs, Errs

(* Below the wrap the invariant holds throughout.                          *)
THEOREM Invariance == ASSUME NoWrap PROVE Spec => []Inv
<1>1. Inv /\ [Next]_vars => Inv'
  BY NextInv
<1> QED
  BY <1>1, InitInv, PTL DEF Spec

(* When a broadcast has returned, no thread that began to wait before it   *)
(* is asleep, signals, timeouts and cancellations notwithstanding.         *)
THEOREM BroadcastWakesAllHolds == ASSUME NoWrap PROVE Spec => []BroadcastWakesAll
<1>1. Inv => BroadcastWakesAll
  BY DEF Inv
<1> QED
  BY <1>1, Invariance, PTL

(* The assertion after EAGAIN never fails below the wrap.                  *)
THEOREM AssertionHoldsBelowWrap == ASSUME NoWrap PROVE Spec => []AssertionHolds
<1>1. Inv => AssertionHolds
  BY DEF Inv
<1> QED
  BY <1>1, Invariance, PTL
=============================================================================
