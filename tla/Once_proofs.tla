----------------------------- MODULE Once_proofs -----------------------------
(***************************************************************************)
(* thread_once, for any number of threads: the initialiser is entered at   *)
(* most once, nobody returns before it has, and no sleeper is forgotten.   *)
(***************************************************************************)
EXTENDS Once, TLAPS

(* The thread elected by the exchange, until it wakes the others.          *)
Elected(t) == pc[t] \in {"func", "lost", "complete"}

(* What the word says of the initialiser.                                  *)
WordInv ==
    /\ done = "0" =>
          started = 0 /\ \A t \in Threads : ~Elected(t) /\ pc[t] \notin {"wake", "sleep", "returned"}
    /\ done = "onceLocked" =>
          started = 1 /\ (\E t \in Threads : Elected(t)) /\ \A t \in Threads : pc[t] \notin {"wake", "returned"}
    /\ done = "onceComplete" =>
          started = 1 /\ \A t \in Threads : ~Elected(t)

(* The exchange elects one thread.                                         *)
ElectedUnique == \A t, u \in Threads : Elected(t) /\ Elected(u) => t = u

(* A copy of the word is never ahead of it.                                *)
ExpectedInv ==
    \A t \in Threads :
        /\ expected[t] = "onceComplete" => done = "onceComplete"
        /\ expected[t] = "onceLocked" => done # "0"

(* A sleeper went to sleep on a locked word.                               *)
SleepInv ==
    \A t \in Threads : pc[t] = "sleep" =>
        done = "onceLocked" \/ \E u \in Threads : pc[u] = "wake"

Inv == TypeOK /\ WordInv /\ ElectedUnique /\ ExpectedInv /\ SleepInv

-----------------------------------------------------------------------------
(* Before any call the word is "0" and nobody is in thread_once.           *)
LEMMA InitInv == Init => Inv
  BY DEF Init, Inv, TypeOK, WordInv, ElectedUnique, ExpectedInv, SleepInv, Elected, Flags, PCs

(* A new call copies the word; the invariant is kept.                      *)
LEMMA EnterInv == ASSUME Inv, NEW t \in Threads, Enter(t) PROVE Inv'
<1> USE DEF Inv, Enter, Goto
<1>1. TypeOK'
  BY DEF TypeOK, Flags, PCs
<1>2. WordInv'
  BY <1>1 DEF TypeOK, WordInv, ElectedUnique, ExpectedInv, Elected, Flags
<1>3. ElectedUnique'
  BY DEF TypeOK, WordInv, ElectedUnique, Elected
<1>4. ExpectedInv'
  BY DEF TypeOK, WordInv, ExpectedInv, Flags
<1>5. SleepInv'
  BY DEF TypeOK, WordInv, SleepInv, Elected
<1> QED
  BY <1>1, <1>2, <1>3, <1>4, <1>5

(* A call that finds the word complete returns; the invariant is kept.     *)
LEMMA FastPathInv == ASSUME Inv, NEW t \in Threads, FastPath(t) PROVE Inv'
<1> USE DEF Inv, FastPath, Goto
<1>1. TypeOK'
  BY DEF TypeOK, Flags, PCs
<1>2. WordInv'
  BY <1>1 DEF TypeOK, WordInv, ElectedUnique, ExpectedInv, Elected, Flags
<1>3. ElectedUnique'
  BY DEF TypeOK, WordInv, ElectedUnique, Elected
<1>4. ExpectedInv'
  BY DEF TypeOK, WordInv, ExpectedInv, Flags
<1>5. SleepInv'
  BY DEF TypeOK, WordInv, SleepInv, Elected
<1> QED
  BY <1>1, <1>2, <1>3, <1>4, <1>5

(* The exchange elects one thread; the invariant is kept.                  *)
LEMMA AcquireInv == ASSUME Inv, NEW t \in Threads, Acquire(t) PROVE Inv'
<1> USE DEF Inv, Acquire, Goto
<1>1. TypeOK'
  BY DEF TypeOK, Flags, PCs
<1>2. WordInv'
  BY <1>1 DEF TypeOK, WordInv, ElectedUnique, ExpectedInv, Elected, Flags
<1>3. ElectedUnique'
  BY DEF TypeOK, WordInv, ElectedUnique, Elected
<1>4. ExpectedInv'
  BY DEF TypeOK, WordInv, ExpectedInv, Flags
<1>5. SleepInv'
  BY DEF TypeOK, WordInv, SleepInv, Elected
<1> QED
  BY <1>1, <1>2, <1>3, <1>4, <1>5

(* func returns; the invariant is kept.                                    *)
LEMMA FuncReturnsInv == ASSUME Inv, NEW t \in Threads, FuncReturns(t) PROVE Inv'
<1> USE DEF Inv, FuncReturns, Goto
<1>1. TypeOK'
  BY DEF TypeOK, Flags, PCs
<1>2. WordInv'
  BY <1>1 DEF TypeOK, WordInv, ElectedUnique, ExpectedInv, Elected, Flags
<1>3. ElectedUnique'
  BY DEF TypeOK, WordInv, ElectedUnique, Elected
<1>4. ExpectedInv'
  BY DEF TypeOK, WordInv, ExpectedInv, Flags
<1>5. SleepInv'
  BY DEF TypeOK, WordInv, SleepInv, Elected
<1> QED
  BY <1>1, <1>2, <1>3, <1>4, <1>5

(* func ends its thread; the invariant is kept.                            *)
LEMMA FuncExitsInv == ASSUME Inv, NEW t \in Threads, FuncExits(t) PROVE Inv'
<1> USE DEF Inv, FuncExits, Goto
<1>1. TypeOK'
  BY DEF TypeOK, Flags, PCs
<1>2. WordInv'
  BY <1>1 DEF TypeOK, WordInv, ElectedUnique, ExpectedInv, Elected, Flags
<1>3. ElectedUnique'
  BY DEF TypeOK, WordInv, ElectedUnique, Elected
<1>4. ExpectedInv'
  BY DEF TypeOK, WordInv, ExpectedInv, Flags
<1>5. SleepInv'
  BY DEF TypeOK, WordInv, SleepInv, Elected
<1> QED
  BY <1>1, <1>2, <1>3, <1>4, <1>5

(* The elected thread completes the word; the invariant is kept.           *)
LEMMA CompleteInv == ASSUME Inv, NEW t \in Threads, Complete(t) PROVE Inv'
<1> USE DEF Inv, Complete, Goto
<1>1. TypeOK'
  BY DEF TypeOK, Flags, PCs
<1>2. WordInv'
  BY <1>1 DEF TypeOK, WordInv, ElectedUnique, ExpectedInv, Elected, Flags
<1>3. ElectedUnique'
  BY DEF TypeOK, WordInv, ElectedUnique, Elected
<1>4. ExpectedInv'
  BY DEF TypeOK, WordInv, ExpectedInv, Flags
<1>5. SleepInv'
  BY DEF TypeOK, WordInv, SleepInv, Elected
<1> QED
  BY <1>1, <1>2, <1>3, <1>4, <1>5

(* FutexWake empties the queue; the invariant is kept.                     *)
LEMMA WakeInv == ASSUME Inv, NEW t \in Threads, Wake(t) PROVE Inv'
<1> USE DEF Inv, Wake, Goto
<1>1. TypeOK'
  BY DEF TypeOK, Flags, PCs
<1>2. WordInv'
  BY <1>1 DEF TypeOK, WordInv, ElectedUnique, ExpectedInv, Elected, Flags
<1>3. ElectedUnique'
  BY DEF TypeOK, WordInv, ElectedUnique, Elected
<1>4. ExpectedInv'
  BY DEF TypeOK, WordInv, ExpectedInv, Flags
<1>5. SleepInv'
  BY DEF TypeOK, WordInv, SleepInv, Elected
<1> QED
  BY <1>1, <1>2, <1>3, <1>4, <1>5

(* FutexWait enqueues only on a locked word; the invariant is kept.        *)
LEMMA WaitInv == ASSUME Inv, NEW t \in Threads, Wait(t) PROVE Inv'
<1> USE DEF Inv, Wait, Goto
<1>1. TypeOK'
  BY DEF TypeOK, Flags, PCs
<1>2. WordInv'
  BY <1>1 DEF TypeOK, WordInv, ElectedUnique, ExpectedInv, Elected, Flags
<1>3. ElectedUnique'
  BY DEF TypeOK, WordInv, ElectedUnique, Elected
<1>4. ExpectedInv'
  BY DEF TypeOK, WordInv, ExpectedInv, Flags
<1>5. SleepInv'
  BY DEF TypeOK, WordInv, SleepInv, Elected
<1> QED
  BY <1>1, <1>2, <1>3, <1>4, <1>5

(* A signal ends a wait; the invariant is kept.                            *)
LEMMA InterruptedInv == ASSUME Inv, NEW t \in Threads, Interrupted(t) PROVE Inv'
<1> USE DEF Inv, Interrupted, Goto
<1>1. TypeOK'
  BY DEF TypeOK, Flags, PCs
<1>2. WordInv'
  BY <1>1 DEF TypeOK, WordInv, ElectedUnique, ExpectedInv, Elected, Flags
<1>3. ElectedUnique'
  BY DEF TypeOK, WordInv, ElectedUnique, Elected
<1>4. ExpectedInv'
  BY DEF TypeOK, WordInv, ExpectedInv, Flags
<1>5. SleepInv'
  BY DEF TypeOK, WordInv, SleepInv, Elected
<1> QED
  BY <1>1, <1>2, <1>3, <1>4, <1>5

(* A woken thread copies the word again; the invariant is kept.            *)
LEMMA ReloadInv == ASSUME Inv, NEW t \in Threads, Reload(t) PROVE Inv'
<1> USE DEF Inv, Reload, Goto
<1>1. TypeOK'
  BY DEF TypeOK, Flags, PCs
<1>2. WordInv'
  BY <1>1 DEF TypeOK, WordInv, ElectedUnique, ExpectedInv, Elected, Flags
<1>3. ElectedUnique'
  BY DEF TypeOK, WordInv, ElectedUnique, Elected
<1>4. ExpectedInv'
  BY DEF TypeOK, WordInv, ExpectedInv, Flags
<1>5. SleepInv'
  BY DEF TypeOK, WordInv, SleepInv, Elected
<1> QED
  BY <1>1, <1>2, <1>3, <1>4, <1>5

(* Every step keeps the invariant.                                         *)
LEMMA NextInv == Inv /\ [Next]_vars => Inv'
<1> SUFFICES ASSUME Inv, [Next]_vars PROVE Inv'
  OBVIOUS
<1>1. CASE UNCHANGED vars
  BY <1>1 DEF vars, Inv, TypeOK, WordInv, ElectedUnique, ExpectedInv, SleepInv, Elected
<1>2. ASSUME NEW t \in Threads, Step(t) \/ Enter(t) \/ FuncExits(t) \/ Interrupted(t)
      PROVE Inv'
  BY <1>2, EnterInv, FastPathInv, AcquireInv, FuncReturnsInv, FuncExitsInv, CompleteInv, WakeInv, WaitInv, InterruptedInv, ReloadInv DEF Step
<1> QED
  BY <1>1, <1>2 DEF Next

(* Inv is an invariant of thread_once, for any set of threads.             *)
THEOREM Invariance == Spec => []Inv
<1>1. Init => Inv
  BY InitInv
<1>2. Inv /\ [Next]_vars => Inv'
  BY NextInv
<1> QED
  BY <1>1, <1>2, PTL DEF Spec

(* The initialiser is entered at most once, for any number of callers and  *)
(* also when its thread ends inside it.                                    *)
THEOREM AtMostOnceHolds == Spec => []AtMostOnce
<1>1. Inv => AtMostOnce
  BY DEF Inv, TypeOK, WordInv, AtMostOnce, Flags
<1> QED
  BY <1>1, Invariance, PTL

(* A call returns only after the initialiser has returned.                 *)
THEOREM ReturnsAfterInitHolds == Spec => []ReturnsAfterInit
<1>1. Inv => ReturnsAfterInit
  BY DEF Inv, TypeOK, WordInv, ReturnsAfterInit, Elected, Flags
<1> QED
  BY <1>1, Invariance, PTL

(* A sleeping caller always has a thread that will wake it.                *)
THEOREM NoLostWakeupHolds == Spec => []NoLostWakeup
<1>1. Inv => NoLostWakeup
  BY DEF Inv, TypeOK, WordInv, SleepInv, NoLostWakeup, Elected, Flags
<1> QED
  BY <1>1, Invariance, PTL
=============================================================================
