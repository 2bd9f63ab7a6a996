--------------------------- MODULE FutexLock_proofs ---------------------------
(***************************************************************************)
(* FutexLock is safe for any number of threads and any nesting depth.      *)
(***************************************************************************)
EXTENDS FutexLock, TLAPS

(* The inductive invariant, in named parts.                                *)

TidsDistinct ==
    \A t, u \in Threads : Alive(t) /\ Alive(u) /\ tid[t] = tid[u] => t = u

(* The word names the owner, and nobody but a live owner.                  *)
OwnerInv ==
    /\ \A t \in Threads : Owns(t) <=> Alive(t) /\ state.owner = tid[t]
    /\ state.owner # NoTid => \E t \in Threads : Owns(t)
    /\ state.waiters => state.owner # NoTid

HeldInv ==
    \A t \in Threads :
        /\ held[t] > 0 => pc[t] \in {"idle", "lock"}
        /\ ~Recursive /\ held[t] > 0 => pc[t] = "idle" /\ held[t] = 1
        /\ pc[t] \in {"lock_rec", "try_rec"} => Recursive

(* A stale value in expected never names the reader by mistake.            *)
ExpectedInv ==
    \A t \in Threads :
        pc[t] = "lock" /\ expected[t].owner # NoTid =>
            (expected[t].owner = tid[t] <=> held[t] > 0)

RecursionInv ==
    Recursive =>
        /\ \A t \in Threads : Owns(t) => recursion = held[t]
        /\ (\A t \in Threads : ~Owns(t)) => recursion = 0

Inv ==
    /\ TypeOK
    /\ TidsDistinct
    /\ OwnerInv
    /\ HeldInv
    /\ ExpectedInv
    /\ RecursionInv
    /\ NoLostWakeup
    /\ NoPanic

(* The words the code stores are lock words.                               *)
LEMMA WordTypes ==
    /\ Unlocked \in Word
    /\ \A i \in Tids : OwnedBy(i) \in Word
    /\ \A w \in Word : WithWaiters(w) \in Word
BY DEF Word, Unlocked, OwnedBy, WithWaiters

THEOREM InitInv == Init => Inv
BY ConstantsAssumption DEF Init, Inv, TypeOK, TidsDistinct, OwnerInv, HeldInv, ExpectedInv, RecursionInv, NoLostWakeup, NoPanic, Owns, Alive, Goto, Acquired, Word, Unlocked, OwnedBy, WithWaiters, PCs

LEMMA LockEnterInv ==
    ASSUME Inv, NEW t \in Threads, LockEnter(t)
    PROVE  Inv'
<1>1. TypeOK'
    BY WordTypes DEF Inv, TypeOK, LockEnter, Goto, Acquired, PCs
<1> USE ConstantsAssumption DEF LockEnter, Inv, Owns, Alive, Goto, Acquired, Word, Unlocked, OwnedBy, WithWaiters, PCs
<1>2. TidsDistinct'
    BY DEF TypeOK, TidsDistinct, OwnerInv, HeldInv, ExpectedInv, RecursionInv, NoLostWakeup, NoPanic
<1>3. OwnerInv'
    BY DEF TypeOK, TidsDistinct, OwnerInv, HeldInv, ExpectedInv, RecursionInv, NoLostWakeup, NoPanic
<1>4. HeldInv'
    BY DEF TypeOK, TidsDistinct, OwnerInv, HeldInv, ExpectedInv, RecursionInv, NoLostWakeup, NoPanic
<1>5. ExpectedInv'
    BY DEF TypeOK, TidsDistinct, OwnerInv, HeldInv, ExpectedInv, RecursionInv, NoLostWakeup, NoPanic
<1>6. RecursionInv'
    BY DEF TypeOK, TidsDistinct, OwnerInv, HeldInv, ExpectedInv, RecursionInv, NoLostWakeup, NoPanic
<1>7. NoLostWakeup'
    BY DEF TypeOK, TidsDistinct, OwnerInv, HeldInv, ExpectedInv, RecursionInv, NoLostWakeup, NoPanic
<1>8. NoPanic'
    BY DEF TypeOK, TidsDistinct, OwnerInv, HeldInv, ExpectedInv, RecursionInv, NoLostWakeup, NoPanic
<1> QED
    BY <1>1, <1>2, <1>3, <1>4, <1>5, <1>6, <1>7, <1>8

LEMMA LockCasInv ==
    ASSUME Inv, NEW t \in Threads, LockCas(t)
    PROVE  Inv'
<1>1. TypeOK'
  <2>1. CASE state = Unlocked /\ Recursive
    BY WordTypes, <2>1 DEF Inv, TypeOK, LockCas, Goto, Acquired, PCs
  <2>2. CASE state = Unlocked /\ ~Recursive
    BY WordTypes, <2>2 DEF Inv, TypeOK, LockCas, Goto, Acquired, PCs
  <2>3. CASE state # Unlocked
    BY WordTypes, <2>3 DEF Inv, TypeOK, LockCas, Goto, Acquired, PCs
  <2> QED
    BY <2>1, <2>2, <2>3
<1> USE ConstantsAssumption DEF LockCas, Inv, Owns, Alive, Goto, Acquired, Word, Unlocked, OwnedBy, WithWaiters, PCs
<1>2. TidsDistinct'
    BY DEF TypeOK, TidsDistinct, OwnerInv, HeldInv, ExpectedInv, RecursionInv, NoLostWakeup, NoPanic
<1>3. OwnerInv'
    BY DEF TypeOK, TidsDistinct, OwnerInv, HeldInv, ExpectedInv, RecursionInv, NoLostWakeup, NoPanic
<1>4. HeldInv'
    BY DEF TypeOK, TidsDistinct, OwnerInv, HeldInv, ExpectedInv, RecursionInv, NoLostWakeup, NoPanic
<1>5. ExpectedInv'
    BY DEF TypeOK, TidsDistinct, OwnerInv, HeldInv, ExpectedInv, RecursionInv, NoLostWakeup, NoPanic
<1>6. RecursionInv'
    BY DEF TypeOK, TidsDistinct, OwnerInv, HeldInv, ExpectedInv, RecursionInv, NoLostWakeup, NoPanic
<1>7. NoLostWakeup'
    BY DEF TypeOK, TidsDistinct, OwnerInv, HeldInv, ExpectedInv, RecursionInv, NoLostWakeup, NoPanic
<1>8. NoPanic'
    BY DEF TypeOK, TidsDistinct, OwnerInv, HeldInv, ExpectedInv, RecursionInv, NoLostWakeup, NoPanic
<1> QED
    BY <1>1, <1>2, <1>3, <1>4, <1>5, <1>6, <1>7, <1>8

LEMMA LockFirstInv ==
    ASSUME Inv, NEW t \in Threads, LockFirst(t)
    PROVE  Inv'
<1>1. TypeOK'
    BY WordTypes DEF Inv, TypeOK, LockFirst, Goto, Acquired, PCs
<1> USE ConstantsAssumption DEF LockFirst, Inv, Owns, Alive, Goto, Acquired, Word, Unlocked, OwnedBy, WithWaiters, PCs
<1>2. TidsDistinct'
    BY DEF TypeOK, TidsDistinct, OwnerInv, HeldInv, ExpectedInv, RecursionInv, NoLostWakeup, NoPanic
<1>3. OwnerInv'
    BY DEF TypeOK, TidsDistinct, OwnerInv, HeldInv, ExpectedInv, RecursionInv, NoLostWakeup, NoPanic
<1>4. HeldInv'
    BY DEF TypeOK, TidsDistinct, OwnerInv, HeldInv, ExpectedInv, RecursionInv, NoLostWakeup, NoPanic
<1>5. ExpectedInv'
    BY DEF TypeOK, TidsDistinct, OwnerInv, HeldInv, ExpectedInv, RecursionInv, NoLostWakeup, NoPanic
<1>6. RecursionInv'
    BY DEF TypeOK, TidsDistinct, OwnerInv, HeldInv, ExpectedInv, RecursionInv, NoLostWakeup, NoPanic
<1>7. NoLostWakeup'
    BY DEF TypeOK, TidsDistinct, OwnerInv, HeldInv, ExpectedInv, RecursionInv, NoLostWakeup, NoPanic
<1>8. NoPanic'
    BY DEF TypeOK, TidsDistinct, OwnerInv, HeldInv, ExpectedInv, RecursionInv, NoLostWakeup, NoPanic
<1> QED
    BY <1>1, <1>2, <1>3, <1>4, <1>5, <1>6, <1>7, <1>8

LEMMA LockOwnedInv ==
    ASSUME Inv, NEW t \in Threads, LockOwned(t)
    PROVE  Inv'
<1>1. TypeOK'
  <2>1. CASE Recursive
    BY WordTypes, <2>1 DEF Inv, TypeOK, LockOwned, Goto, Acquired, PCs
  <2>2. CASE ~Recursive
    BY WordTypes, <2>2 DEF Inv, TypeOK, LockOwned, Goto, Acquired, PCs
  <2> QED
    BY <2>1, <2>2
<1> USE ConstantsAssumption DEF LockOwned, Inv, Owns, Alive, Goto, Acquired, Word, Unlocked, OwnedBy, WithWaiters, PCs
<1>2. TidsDistinct'
    BY DEF TypeOK, TidsDistinct, OwnerInv, HeldInv, ExpectedInv, RecursionInv, NoLostWakeup, NoPanic
<1>3. OwnerInv'
    BY DEF TypeOK, TidsDistinct, OwnerInv, HeldInv, ExpectedInv, RecursionInv, NoLostWakeup, NoPanic
<1>4. HeldInv'
    BY DEF TypeOK, TidsDistinct, OwnerInv, HeldInv, ExpectedInv, RecursionInv, NoLostWakeup, NoPanic
<1>5. ExpectedInv'
    BY DEF TypeOK, TidsDistinct, OwnerInv, HeldInv, ExpectedInv, RecursionInv, NoLostWakeup, NoPanic
<1>6. RecursionInv'
    BY DEF TypeOK, TidsDistinct, OwnerInv, HeldInv, ExpectedInv, RecursionInv, NoLostWakeup, NoPanic
<1>7. NoLostWakeup'
    BY DEF TypeOK, TidsDistinct, OwnerInv, HeldInv, ExpectedInv, RecursionInv, NoLostWakeup, NoPanic
<1>8. NoPanic'
    BY DEF TypeOK, TidsDistinct, OwnerInv, HeldInv, ExpectedInv, RecursionInv, NoLostWakeup, NoPanic
<1> QED
    BY <1>1, <1>2, <1>3, <1>4, <1>5, <1>6, <1>7, <1>8

LEMMA LockSetWaitersInv ==
    ASSUME Inv, NEW t \in Threads, LockSetWaiters(t)
    PROVE  Inv'
<1>1. TypeOK'
  <2>1. CASE state = expected[t]
    BY WordTypes, <2>1 DEF Inv, TypeOK, LockSetWaiters, Goto, Acquired, PCs
  <2>2. CASE state # expected[t]
    BY WordTypes, <2>2 DEF Inv, TypeOK, LockSetWaiters, Goto, Acquired, PCs
  <2> QED
    BY <2>1, <2>2
<1> USE ConstantsAssumption DEF LockSetWaiters, Inv, Owns, Alive, Goto, Acquired, Word, Unlocked, OwnedBy, WithWaiters, PCs
<1>2. TidsDistinct'
    BY DEF TypeOK, TidsDistinct, OwnerInv, HeldInv, ExpectedInv, RecursionInv, NoLostWakeup, NoPanic
<1>3. OwnerInv'
    BY DEF TypeOK, TidsDistinct, OwnerInv, HeldInv, ExpectedInv, RecursionInv, NoLostWakeup, NoPanic
<1>4. HeldInv'
    BY DEF TypeOK, TidsDistinct, OwnerInv, HeldInv, ExpectedInv, RecursionInv, NoLostWakeup, NoPanic
<1>5. ExpectedInv'
    BY DEF TypeOK, TidsDistinct, OwnerInv, HeldInv, ExpectedInv, RecursionInv, NoLostWakeup, NoPanic
<1>6. RecursionInv'
    BY DEF TypeOK, TidsDistinct, OwnerInv, HeldInv, ExpectedInv, RecursionInv, NoLostWakeup, NoPanic
<1>7. NoLostWakeup'
    BY DEF TypeOK, TidsDistinct, OwnerInv, HeldInv, ExpectedInv, RecursionInv, NoLostWakeup, NoPanic
<1>8. NoPanic'
    BY DEF TypeOK, TidsDistinct, OwnerInv, HeldInv, ExpectedInv, RecursionInv, NoLostWakeup, NoPanic
<1> QED
    BY <1>1, <1>2, <1>3, <1>4, <1>5, <1>6, <1>7, <1>8

LEMMA LockFutexWaitInv ==
    ASSUME Inv, NEW t \in Threads, LockFutexWait(t)
    PROVE  Inv'
<1>1. TypeOK'
  <2>1. CASE state = expected[t]
    BY WordTypes, <2>1 DEF Inv, TypeOK, LockFutexWait, Goto, Acquired, PCs
  <2>2. CASE state # expected[t]
    BY WordTypes, <2>2 DEF Inv, TypeOK, LockFutexWait, Goto, Acquired, PCs
  <2> QED
    BY <2>1, <2>2
<1> USE ConstantsAssumption DEF LockFutexWait, Inv, Owns, Alive, Goto, Acquired, Word, Unlocked, OwnedBy, WithWaiters, PCs
<1>2. TidsDistinct'
    BY DEF TypeOK, TidsDistinct, OwnerInv, HeldInv, ExpectedInv, RecursionInv, NoLostWakeup, NoPanic
<1>3. OwnerInv'
    BY DEF TypeOK, TidsDistinct, OwnerInv, HeldInv, ExpectedInv, RecursionInv, NoLostWakeup, NoPanic
<1>4. HeldInv'
    BY DEF TypeOK, TidsDistinct, OwnerInv, HeldInv, ExpectedInv, RecursionInv, NoLostWakeup, NoPanic
<1>5. ExpectedInv'
    BY DEF TypeOK, TidsDistinct, OwnerInv, HeldInv, ExpectedInv, RecursionInv, NoLostWakeup, NoPanic
<1>6. RecursionInv'
    BY DEF TypeOK, TidsDistinct, OwnerInv, HeldInv, ExpectedInv, RecursionInv, NoLostWakeup, NoPanic
<1>7. NoLostWakeup'
    BY DEF TypeOK, TidsDistinct, OwnerInv, HeldInv, ExpectedInv, RecursionInv, NoLostWakeup, NoPanic
<1>8. NoPanic'
    BY DEF TypeOK, TidsDistinct, OwnerInv, HeldInv, ExpectedInv, RecursionInv, NoLostWakeup, NoPanic
<1> QED
    BY <1>1, <1>2, <1>3, <1>4, <1>5, <1>6, <1>7, <1>8

LEMMA LockInterruptedInv ==
    ASSUME Inv, NEW t \in Threads, LockInterrupted(t)
    PROVE  Inv'
<1>1. TypeOK'
    BY WordTypes DEF Inv, TypeOK, LockInterrupted, Goto, Acquired, PCs
<1> USE ConstantsAssumption DEF LockInterrupted, Inv, Owns, Alive, Goto, Acquired, Word, Unlocked, OwnedBy, WithWaiters, PCs
<1>2. TidsDistinct'
    BY DEF TypeOK, TidsDistinct, OwnerInv, HeldInv, ExpectedInv, RecursionInv, NoLostWakeup, NoPanic
<1>3. OwnerInv'
    BY DEF TypeOK, TidsDistinct, OwnerInv, HeldInv, ExpectedInv, RecursionInv, NoLostWakeup, NoPanic
<1>4. HeldInv'
    BY DEF TypeOK, TidsDistinct, OwnerInv, HeldInv, ExpectedInv, RecursionInv, NoLostWakeup, NoPanic
<1>5. ExpectedInv'
    BY DEF TypeOK, TidsDistinct, OwnerInv, HeldInv, ExpectedInv, RecursionInv, NoLostWakeup, NoPanic
<1>6. RecursionInv'
    BY DEF TypeOK, TidsDistinct, OwnerInv, HeldInv, ExpectedInv, RecursionInv, NoLostWakeup, NoPanic
<1>7. NoLostWakeup'
    BY DEF TypeOK, TidsDistinct, OwnerInv, HeldInv, ExpectedInv, RecursionInv, NoLostWakeup, NoPanic
<1>8. NoPanic'
    BY DEF TypeOK, TidsDistinct, OwnerInv, HeldInv, ExpectedInv, RecursionInv, NoLostWakeup, NoPanic
<1> QED
    BY <1>1, <1>2, <1>3, <1>4, <1>5, <1>6, <1>7, <1>8

LEMMA TryLoadInv ==
    ASSUME Inv, NEW t \in Threads, TryLoad(t)
    PROVE  Inv'
<1>1. TypeOK'
    BY WordTypes DEF Inv, TypeOK, TryLoad, Goto, Acquired, PCs
<1> USE ConstantsAssumption DEF TryLoad, Inv, Owns, Alive, Goto, Acquired, Word, Unlocked, OwnedBy, WithWaiters, PCs
<1>2. TidsDistinct'
    BY DEF TypeOK, TidsDistinct, OwnerInv, HeldInv, ExpectedInv, RecursionInv, NoLostWakeup, NoPanic
<1>3. OwnerInv'
    BY DEF TypeOK, TidsDistinct, OwnerInv, HeldInv, ExpectedInv, RecursionInv, NoLostWakeup, NoPanic
<1>4. HeldInv'
    BY DEF TypeOK, TidsDistinct, OwnerInv, HeldInv, ExpectedInv, RecursionInv, NoLostWakeup, NoPanic
<1>5. ExpectedInv'
    BY DEF TypeOK, TidsDistinct, OwnerInv, HeldInv, ExpectedInv, RecursionInv, NoLostWakeup, NoPanic
<1>6. RecursionInv'
    BY DEF TypeOK, TidsDistinct, OwnerInv, HeldInv, ExpectedInv, RecursionInv, NoLostWakeup, NoPanic
<1>7. NoLostWakeup'
    BY DEF TypeOK, TidsDistinct, OwnerInv, HeldInv, ExpectedInv, RecursionInv, NoLostWakeup, NoPanic
<1>8. NoPanic'
    BY DEF TypeOK, TidsDistinct, OwnerInv, HeldInv, ExpectedInv, RecursionInv, NoLostWakeup, NoPanic
<1> QED
    BY <1>1, <1>2, <1>3, <1>4, <1>5, <1>6, <1>7, <1>8

LEMMA TryCasInv ==
    ASSUME Inv, NEW t \in Threads, TryCas(t)
    PROVE  Inv'
<1>1. TypeOK'
  <2>1. CASE state = Unlocked /\ Recursive
    BY WordTypes, <2>1 DEF Inv, TypeOK, TryCas, Goto, Acquired, PCs
  <2>2. CASE state = Unlocked /\ ~Recursive
    BY WordTypes, <2>2 DEF Inv, TypeOK, TryCas, Goto, Acquired, PCs
  <2>3. CASE state # Unlocked
    BY WordTypes, <2>3 DEF Inv, TypeOK, TryCas, Goto, Acquired, PCs
  <2> QED
    BY <2>1, <2>2, <2>3
<1> USE ConstantsAssumption DEF TryCas, Inv, Owns, Alive, Goto, Acquired, Word, Unlocked, OwnedBy, WithWaiters, PCs
<1>2. TidsDistinct'
    BY DEF TypeOK, TidsDistinct, OwnerInv, HeldInv, ExpectedInv, RecursionInv, NoLostWakeup, NoPanic
<1>3. OwnerInv'
    BY DEF TypeOK, TidsDistinct, OwnerInv, HeldInv, ExpectedInv, RecursionInv, NoLostWakeup, NoPanic
<1>4. HeldInv'
    BY DEF TypeOK, TidsDistinct, OwnerInv, HeldInv, ExpectedInv, RecursionInv, NoLostWakeup, NoPanic
<1>5. ExpectedInv'
    BY DEF TypeOK, TidsDistinct, OwnerInv, HeldInv, ExpectedInv, RecursionInv, NoLostWakeup, NoPanic
<1>6. RecursionInv'
    BY DEF TypeOK, TidsDistinct, OwnerInv, HeldInv, ExpectedInv, RecursionInv, NoLostWakeup, NoPanic
<1>7. NoLostWakeup'
    BY DEF TypeOK, TidsDistinct, OwnerInv, HeldInv, ExpectedInv, RecursionInv, NoLostWakeup, NoPanic
<1>8. NoPanic'
    BY DEF TypeOK, TidsDistinct, OwnerInv, HeldInv, ExpectedInv, RecursionInv, NoLostWakeup, NoPanic
<1> QED
    BY <1>1, <1>2, <1>3, <1>4, <1>5, <1>6, <1>7, <1>8

LEMMA TryFirstInv ==
    ASSUME Inv, NEW t \in Threads, TryFirst(t)
    PROVE  Inv'
<1>1. TypeOK'
    BY WordTypes DEF Inv, TypeOK, TryFirst, Goto, Acquired, PCs
<1> USE ConstantsAssumption DEF TryFirst, Inv, Owns, Alive, Goto, Acquired, Word, Unlocked, OwnedBy, WithWaiters, PCs
<1>2. TidsDistinct'
    BY DEF TypeOK, TidsDistinct, OwnerInv, HeldInv, ExpectedInv, RecursionInv, NoLostWakeup, NoPanic
<1>3. OwnerInv'
    BY DEF TypeOK, TidsDistinct, OwnerInv, HeldInv, ExpectedInv, RecursionInv, NoLostWakeup, NoPanic
<1>4. HeldInv'
    BY DEF TypeOK, TidsDistinct, OwnerInv, HeldInv, ExpectedInv, RecursionInv, NoLostWakeup, NoPanic
<1>5. ExpectedInv'
    BY DEF TypeOK, TidsDistinct, OwnerInv, HeldInv, ExpectedInv, RecursionInv, NoLostWakeup, NoPanic
<1>6. RecursionInv'
    BY DEF TypeOK, TidsDistinct, OwnerInv, HeldInv, ExpectedInv, RecursionInv, NoLostWakeup, NoPanic
<1>7. NoLostWakeup'
    BY DEF TypeOK, TidsDistinct, OwnerInv, HeldInv, ExpectedInv, RecursionInv, NoLostWakeup, NoPanic
<1>8. NoPanic'
    BY DEF TypeOK, TidsDistinct, OwnerInv, HeldInv, ExpectedInv, RecursionInv, NoLostWakeup, NoPanic
<1> QED
    BY <1>1, <1>2, <1>3, <1>4, <1>5, <1>6, <1>7, <1>8

LEMMA UnlockEnterInv ==
    ASSUME Inv, NEW t \in Threads, UnlockEnter(t)
    PROVE  Inv'
<1>1. TypeOK'
    BY WordTypes DEF Inv, TypeOK, UnlockEnter, Goto, Acquired, PCs
<1> USE ConstantsAssumption DEF UnlockEnter, Inv, Owns, Alive, Goto, Acquired, Word, Unlocked, OwnedBy, WithWaiters, PCs
<1>2. TidsDistinct'
    BY DEF TypeOK, TidsDistinct, OwnerInv, HeldInv, ExpectedInv, RecursionInv, NoLostWakeup, NoPanic
<1>3. OwnerInv'
    BY DEF TypeOK, TidsDistinct, OwnerInv, HeldInv, ExpectedInv, RecursionInv, NoLostWakeup, NoPanic
<1>4. HeldInv'
    BY DEF TypeOK, TidsDistinct, OwnerInv, HeldInv, ExpectedInv, RecursionInv, NoLostWakeup, NoPanic
<1>5. ExpectedInv'
    BY DEF TypeOK, TidsDistinct, OwnerInv, HeldInv, ExpectedInv, RecursionInv, NoLostWakeup, NoPanic
<1>6. RecursionInv'
    BY DEF TypeOK, TidsDistinct, OwnerInv, HeldInv, ExpectedInv, RecursionInv, NoLostWakeup, NoPanic
<1>7. NoLostWakeup'
    BY DEF TypeOK, TidsDistinct, OwnerInv, HeldInv, ExpectedInv, RecursionInv, NoLostWakeup, NoPanic
<1>8. NoPanic'
    BY DEF TypeOK, TidsDistinct, OwnerInv, HeldInv, ExpectedInv, RecursionInv, NoLostWakeup, NoPanic
<1> QED
    BY <1>1, <1>2, <1>3, <1>4, <1>5, <1>6, <1>7, <1>8

LEMMA UnlockExchangeInv ==
    ASSUME Inv, NEW t \in Threads, UnlockExchange(t)
    PROVE  Inv'
<1>1. TypeOK'
    BY WordTypes DEF Inv, TypeOK, UnlockExchange, Goto, Acquired, PCs
<1> USE ConstantsAssumption DEF UnlockExchange, Inv, Owns, Alive, Goto, Acquired, Word, Unlocked, OwnedBy, WithWaiters, PCs
<1>2. TidsDistinct'
    BY DEF TypeOK, TidsDistinct, OwnerInv, HeldInv, ExpectedInv, RecursionInv, NoLostWakeup, NoPanic
<1>3. OwnerInv'
    BY DEF TypeOK, TidsDistinct, OwnerInv, HeldInv, ExpectedInv, RecursionInv, NoLostWakeup, NoPanic
<1>4. HeldInv'
    BY DEF TypeOK, TidsDistinct, OwnerInv, HeldInv, ExpectedInv, RecursionInv, NoLostWakeup, NoPanic
<1>5. ExpectedInv'
    BY DEF TypeOK, TidsDistinct, OwnerInv, HeldInv, ExpectedInv, RecursionInv, NoLostWakeup, NoPanic
<1>6. RecursionInv'
    BY DEF TypeOK, TidsDistinct, OwnerInv, HeldInv, ExpectedInv, RecursionInv, NoLostWakeup, NoPanic
<1>7. NoLostWakeup'
    BY DEF TypeOK, TidsDistinct, OwnerInv, HeldInv, ExpectedInv, RecursionInv, NoLostWakeup, NoPanic
<1>8. NoPanic'
    BY DEF TypeOK, TidsDistinct, OwnerInv, HeldInv, ExpectedInv, RecursionInv, NoLostWakeup, NoPanic
<1> QED
    BY <1>1, <1>2, <1>3, <1>4, <1>5, <1>6, <1>7, <1>8

LEMMA UnlockWakeInv ==
    ASSUME Inv, NEW t \in Threads, UnlockWake(t)
    PROVE  Inv'
<1>1. TypeOK'
    BY WordTypes DEF Inv, TypeOK, UnlockWake, Goto, Acquired, PCs
<1> USE ConstantsAssumption DEF UnlockWake, Inv, Owns, Alive, Goto, Acquired, Word, Unlocked, OwnedBy, WithWaiters, PCs
<1>2. TidsDistinct'
    BY DEF TypeOK, TidsDistinct, OwnerInv, HeldInv, ExpectedInv, RecursionInv, NoLostWakeup, NoPanic
<1>3. OwnerInv'
    BY DEF TypeOK, TidsDistinct, OwnerInv, HeldInv, ExpectedInv, RecursionInv, NoLostWakeup, NoPanic
<1>4. HeldInv'
    BY DEF TypeOK, TidsDistinct, OwnerInv, HeldInv, ExpectedInv, RecursionInv, NoLostWakeup, NoPanic
<1>5. ExpectedInv'
    BY DEF TypeOK, TidsDistinct, OwnerInv, HeldInv, ExpectedInv, RecursionInv, NoLostWakeup, NoPanic
<1>6. RecursionInv'
    BY DEF TypeOK, TidsDistinct, OwnerInv, HeldInv, ExpectedInv, RecursionInv, NoLostWakeup, NoPanic
<1>7. NoLostWakeup'
    BY DEF TypeOK, TidsDistinct, OwnerInv, HeldInv, ExpectedInv, RecursionInv, NoLostWakeup, NoPanic
<1>8. NoPanic'
    BY DEF TypeOK, TidsDistinct, OwnerInv, HeldInv, ExpectedInv, RecursionInv, NoLostWakeup, NoPanic
<1> QED
    BY <1>1, <1>2, <1>3, <1>4, <1>5, <1>6, <1>7, <1>8

LEMMA ForkInv ==
    ASSUME Inv, NEW t \in Threads, NEW new \in Tids, Fork(t, new)
    PROVE  Inv'
<1>1. TypeOK'
    BY WordTypes DEF Inv, TypeOK, Fork, RebindAfterFork, ResetAfterFork, Goto, PCs
<1> USE ConstantsAssumption DEF Fork, RebindAfterFork, ResetAfterFork, Inv, Owns, Alive, Goto, Word, Unlocked, OwnedBy, PCs
<1>2. TidsDistinct'
    BY DEF TypeOK, TidsDistinct, OwnerInv, HeldInv, ExpectedInv, RecursionInv, NoLostWakeup, NoPanic
<1>3. OwnerInv'
    BY DEF TypeOK, TidsDistinct, OwnerInv, HeldInv, ExpectedInv, RecursionInv, NoLostWakeup, NoPanic
<1>4. HeldInv'
    BY DEF TypeOK, TidsDistinct, OwnerInv, HeldInv, ExpectedInv, RecursionInv, NoLostWakeup, NoPanic
<1>5. ExpectedInv'
    BY DEF TypeOK, TidsDistinct, OwnerInv, HeldInv, ExpectedInv, RecursionInv, NoLostWakeup, NoPanic
<1>6. RecursionInv'
    BY DEF TypeOK, TidsDistinct, OwnerInv, HeldInv, ExpectedInv, RecursionInv, NoLostWakeup, NoPanic
<1>7. NoLostWakeup'
    BY DEF TypeOK, TidsDistinct, OwnerInv, HeldInv, ExpectedInv, RecursionInv, NoLostWakeup, NoPanic
<1>8. NoPanic'
    BY DEF TypeOK, TidsDistinct, OwnerInv, HeldInv, ExpectedInv, RecursionInv, NoLostWakeup, NoPanic
<1> QED
    BY <1>1, <1>2, <1>3, <1>4, <1>5, <1>6, <1>7, <1>8

LEMMA SpawnInv ==
    ASSUME Inv, NEW t \in Threads, NEW new \in Tids, Spawn(t, new)
    PROVE  Inv'
<1>1. TypeOK'
    BY WordTypes DEF Inv, TypeOK, Spawn, Goto, PCs
<1> USE ConstantsAssumption DEF Spawn, Inv, Owns, Alive, Goto, Word, Unlocked, OwnedBy, PCs
<1>2. TidsDistinct'
    BY DEF TypeOK, TidsDistinct, OwnerInv, HeldInv, ExpectedInv, RecursionInv, NoLostWakeup, NoPanic
<1>3. OwnerInv'
    BY DEF TypeOK, TidsDistinct, OwnerInv, HeldInv, ExpectedInv, RecursionInv, NoLostWakeup, NoPanic
<1>4. HeldInv'
    BY DEF TypeOK, TidsDistinct, OwnerInv, HeldInv, ExpectedInv, RecursionInv, NoLostWakeup, NoPanic
<1>5. ExpectedInv'
    BY DEF TypeOK, TidsDistinct, OwnerInv, HeldInv, ExpectedInv, RecursionInv, NoLostWakeup, NoPanic
<1>6. RecursionInv'
    BY DEF TypeOK, TidsDistinct, OwnerInv, HeldInv, ExpectedInv, RecursionInv, NoLostWakeup, NoPanic
<1>7. NoLostWakeup'
    BY DEF TypeOK, TidsDistinct, OwnerInv, HeldInv, ExpectedInv, RecursionInv, NoLostWakeup, NoPanic
<1>8. NoPanic'
    BY DEF TypeOK, TidsDistinct, OwnerInv, HeldInv, ExpectedInv, RecursionInv, NoLostWakeup, NoPanic
<1> QED
    BY <1>1, <1>2, <1>3, <1>4, <1>5, <1>6, <1>7, <1>8

LEMMA StutterInv ==
    ASSUME Inv, UNCHANGED vars
    PROVE  Inv'
BY DEF vars, Inv, TypeOK, TidsDistinct, OwnerInv, HeldInv, ExpectedInv, RecursionInv,
       NoLostWakeup, NoPanic, Owns, Alive

(* Every step of Next preserves the invariant.                             *)
THEOREM NextInv == Inv /\ [Next]_vars => Inv'
<1> SUFFICES ASSUME Inv, [Next]_vars
             PROVE  Inv'
    OBVIOUS
<1>1. CASE UNCHANGED vars
    BY <1>1, StutterInv
<1>2. CASE Next
  <2>1. PICK t \in Threads :
            \/ Step(t) \/ Call(t) \/ LockInterrupted(t)
            \/ \E new \in Tids : Fork(t, new) \/ Spawn(t, new)
    BY <1>2 DEF Next
  <2>2. CASE Step(t)
    BY <2>2, LockCasInv, LockFirstInv, LockOwnedInv, LockSetWaitersInv, LockFutexWaitInv,
       TryCasInv, TryFirstInv, UnlockExchangeInv, UnlockWakeInv DEF Step
  <2>3. CASE Call(t)
    BY <2>3, LockEnterInv, TryLoadInv, UnlockEnterInv DEF Call
  <2>4. CASE LockInterrupted(t)
    BY <2>4, LockInterruptedInv
  <2>5. CASE \E new \in Tids : Fork(t, new) \/ Spawn(t, new)
    BY <2>5, ForkInv, SpawnInv
  <2> QED
    BY <2>1, <2>2, <2>3, <2>4, <2>5
<1> QED
    BY <1>1, <1>2

THEOREM Invariance == Spec => []Inv
BY InitInv, NextInv, PTL DEF Spec

LEMMA InvSafe == Inv => MutualExclusion /\ RecursionMatches
BY DEF Inv, TypeOK, OwnerInv, TidsDistinct, RecursionInv, MutualExclusion, RecursionMatches, Owns

(* Only one thread at a time is between the compare-exchange and the       *)
(* exchange of lock.hpp, for any number of threads and any nesting.        *)
THEOREM MutualExclusionHolds == Spec => []MutualExclusion
BY Invariance, InvSafe, PTL

(* A sleeper in lock() always has a waker, for any number of threads.      *)
THEOREM NoLostWakeupHolds == Spec => []NoLostWakeup
<1>1. Inv => NoLostWakeup
    BY DEF Inv
<1> QED
    BY <1>1, Invariance, PTL

(* No __ensure of lock.hpp fails under legal use, forks included.          *)
THEOREM NoPanicHolds == Spec => []NoPanic
<1>1. Inv => NoPanic
    BY DEF Inv
<1> QED
    BY <1>1, Invariance, PTL

(* _recursion is the owner's nesting depth.                                *)
THEOREM RecursionMatchesHolds == Spec => []RecursionMatches
BY Invariance, InvSafe, PTL

-----------------------------------------------------------------------------
(* FutexLock implements AbstractLock.                                      *)

HolderIsOwner ==
    /\ \A t \in Threads : Owns(t) <=> Holder = t
    /\ Holder = NoThread <=> \A t \in Threads : ~Owns(t)

DepthOfOwner ==
    /\ \A t \in Threads : Owns(t) => Depth = held[t] + Transit(t)
    /\ (\A t \in Threads : ~Owns(t)) => Depth = 0

(* A step of the abstract lock or a stutter.                               *)
AbstractStep == [Abstract!ANext]_(Abstract!avars)

(* The mapping in terms of the thread that owns the word.                  *)
LEMMA Mapping == Inv => HolderIsOwner /\ DepthOfOwner
<1> SUFFICES ASSUME Inv
             PROVE  HolderIsOwner /\ DepthOfOwner
    OBVIOUS
<1>1. \A t, u \in Threads : Owns(t) /\ Owns(u) => t = u
    BY InvSafe DEF MutualExclusion
<1>2. HolderIsOwner
  <2>1. CASE \E t \in Threads : Owns(t)
    <3>1. Holder \in Threads /\ Owns(Holder)
        BY <2>1 DEF Holder
    <3> QED
        BY <1>1, <3>1, ConstantsAssumption DEF HolderIsOwner
  <2>2. CASE \A t \in Threads : ~Owns(t)
    BY <2>2, ConstantsAssumption DEF Holder, HolderIsOwner
  <2> QED
    BY <2>1, <2>2
<1>3. DepthOfOwner
    BY <1>2, ConstantsAssumption DEF HolderIsOwner, DepthOfOwner, Depth
<1> QED
    BY <1>2, <1>3

LEMMA MappingNext == Inv' => HolderIsOwner' /\ DepthOfOwner'
BY Mapping, PTL

(* A step that changes nobody's ownership or count is a stutter.           *)
LEMMA QuietStep ==
    ASSUME Inv, Inv',
           \A t \in Threads : Owns(t)' <=> Owns(t),
           \A t \in Threads : Owns(t) => held'[t] + Transit(t)' = held[t] + Transit(t)
    PROVE  UNCHANGED Abstract!avars
<1>1. Holder' = Holder
    BY Mapping, MappingNext DEF HolderIsOwner
<1>2. Depth' = Depth
    BY Mapping, MappingNext DEF DepthOfOwner
<1> QED
    BY <1>1, <1>2 DEF Abstract!avars

LEMMA AcquireStep ==
    ASSUME Inv, Inv', NEW t \in Threads,
           \A u \in Threads : ~Owns(u),
           Owns(t)', held'[t] + Transit(t)' = 1
    PROVE  AbstractStep
<1>1. Abstract!Acquire(t)
    BY Mapping, MappingNext DEF HolderIsOwner, DepthOfOwner, Abstract!Acquire
<1> QED
    BY <1>1 DEF AbstractStep, Abstract!ANext

LEMMA ReacquireStep ==
    ASSUME Inv, Inv', NEW t \in Threads, Recursive,
           Owns(t), Owns(t)', held'[t] + Transit(t)' = held[t] + Transit(t) + 1
    PROVE  AbstractStep
<1>1. Abstract!Reacquire(t)
    BY Mapping, MappingNext DEF HolderIsOwner, DepthOfOwner, Abstract!Reacquire
<1> QED
    BY <1>1 DEF AbstractStep, Abstract!ANext

LEMMA PartialReleaseStep ==
    ASSUME Inv, Inv', NEW t \in Threads,
           Owns(t), Owns(t)', held[t] + Transit(t) # 1,
           held'[t] + Transit(t)' = held[t] + Transit(t) - 1
    PROVE  AbstractStep
<1>1. held[t] \in Nat /\ Transit(t) \in Nat
    BY DEF Inv, TypeOK, Transit
<1>2. Abstract!Release(t)
    BY <1>1, Mapping, MappingNext DEF HolderIsOwner, DepthOfOwner, Abstract!Release
<1> QED
    BY <1>2 DEF AbstractStep, Abstract!ANext

LEMMA LastReleaseStep ==
    ASSUME Inv, Inv', NEW t \in Threads,
           Owns(t), held[t] + Transit(t) = 1,
           \A u \in Threads : ~Owns(u)'
    PROVE  AbstractStep
<1>1. Abstract!Release(t)
    BY Mapping, MappingNext DEF HolderIsOwner, DepthOfOwner, Abstract!Release
<1> QED
    BY <1>1 DEF AbstractStep, Abstract!ANext

LEMMA InheritStep ==
    ASSUME Inv, Inv', NEW t \in Threads, ~Owns(t),
           \A u \in Threads : ~Owns(u)'
    PROVE  AbstractStep
<1>1. Abstract!Inherit(t)
    BY Mapping, MappingNext DEF HolderIsOwner, DepthOfOwner, Abstract!Inherit
<1> QED
    BY <1>1 DEF AbstractStep, Abstract!ANext

LEMMA LockEnterMaps ==
    ASSUME Inv, Inv', NEW t \in Threads, LockEnter(t)
    PROVE  AbstractStep
<1> USE ConstantsAssumption DEF LockEnter, Inv, TypeOK, OwnerInv, TidsDistinct, HeldInv, ExpectedInv, RecursionInv, NoPanic, Owns, Alive, Transit, Goto, Acquired, Unlocked, OwnedBy, WithWaiters, PCs, Word
<1>1. \A u \in Threads : Owns(u)' <=> Owns(u)
    OBVIOUS
<1>2. \A u \in Threads : Owns(u) => held'[u] + Transit(u)' = held[u] + Transit(u)
    OBVIOUS
<1> QED
    BY <1>1, <1>2, QuietStep DEF AbstractStep

LEMMA LockFirstMaps ==
    ASSUME Inv, Inv', NEW t \in Threads, LockFirst(t)
    PROVE  AbstractStep
<1> USE ConstantsAssumption DEF LockFirst, Inv, TypeOK, OwnerInv, TidsDistinct, HeldInv, ExpectedInv, RecursionInv, NoPanic, Owns, Alive, Transit, Goto, Acquired, Unlocked, OwnedBy, WithWaiters, PCs, Word
<1>1. \A u \in Threads : Owns(u)' <=> Owns(u)
    OBVIOUS
<1>2. \A u \in Threads : Owns(u) => held'[u] + Transit(u)' = held[u] + Transit(u)
    OBVIOUS
<1> QED
    BY <1>1, <1>2, QuietStep DEF AbstractStep

LEMMA LockSetWaitersMaps ==
    ASSUME Inv, Inv', NEW t \in Threads, LockSetWaiters(t)
    PROVE  AbstractStep
<1> USE ConstantsAssumption DEF LockSetWaiters, Inv, TypeOK, OwnerInv, TidsDistinct, HeldInv, ExpectedInv, RecursionInv, NoPanic, Owns, Alive, Transit, Goto, Acquired, Unlocked, OwnedBy, WithWaiters, PCs, Word
<1>1. \A u \in Threads : Owns(u)' <=> Owns(u)
    OBVIOUS
<1>2. \A u \in Threads : Owns(u) => held'[u] + Transit(u)' = held[u] + Transit(u)
    OBVIOUS
<1> QED
    BY <1>1, <1>2, QuietStep DEF AbstractStep

LEMMA LockFutexWaitMaps ==
    ASSUME Inv, Inv', NEW t \in Threads, LockFutexWait(t)
    PROVE  AbstractStep
<1> USE ConstantsAssumption DEF LockFutexWait, Inv, TypeOK, OwnerInv, TidsDistinct, HeldInv, ExpectedInv, RecursionInv, NoPanic, Owns, Alive, Transit, Goto, Acquired, Unlocked, OwnedBy, WithWaiters, PCs, Word
<1>1. \A u \in Threads : Owns(u)' <=> Owns(u)
    OBVIOUS
<1>2. \A u \in Threads : Owns(u) => held'[u] + Transit(u)' = held[u] + Transit(u)
    OBVIOUS
<1> QED
    BY <1>1, <1>2, QuietStep DEF AbstractStep

LEMMA LockInterruptedMaps ==
    ASSUME Inv, Inv', NEW t \in Threads, LockInterrupted(t)
    PROVE  AbstractStep
<1> USE ConstantsAssumption DEF LockInterrupted, Inv, TypeOK, OwnerInv, TidsDistinct, HeldInv, ExpectedInv, RecursionInv, NoPanic, Owns, Alive, Transit, Goto, Acquired, Unlocked, OwnedBy, WithWaiters, PCs, Word
<1>1. \A u \in Threads : Owns(u)' <=> Owns(u)
    OBVIOUS
<1>2. \A u \in Threads : Owns(u) => held'[u] + Transit(u)' = held[u] + Transit(u)
    OBVIOUS
<1> QED
    BY <1>1, <1>2, QuietStep DEF AbstractStep

LEMMA TryFirstMaps ==
    ASSUME Inv, Inv', NEW t \in Threads, TryFirst(t)
    PROVE  AbstractStep
<1> USE ConstantsAssumption DEF TryFirst, Inv, TypeOK, OwnerInv, TidsDistinct, HeldInv, ExpectedInv, RecursionInv, NoPanic, Owns, Alive, Transit, Goto, Acquired, Unlocked, OwnedBy, WithWaiters, PCs, Word
<1>1. \A u \in Threads : Owns(u)' <=> Owns(u)
    OBVIOUS
<1>2. \A u \in Threads : Owns(u) => held'[u] + Transit(u)' = held[u] + Transit(u)
    OBVIOUS
<1> QED
    BY <1>1, <1>2, QuietStep DEF AbstractStep

LEMMA UnlockWakeMaps ==
    ASSUME Inv, Inv', NEW t \in Threads, UnlockWake(t)
    PROVE  AbstractStep
<1> USE ConstantsAssumption DEF UnlockWake, Inv, TypeOK, OwnerInv, TidsDistinct, HeldInv, ExpectedInv, RecursionInv, NoPanic, Owns, Alive, Transit, Goto, Acquired, Unlocked, OwnedBy, WithWaiters, PCs, Word
<1>1. \A u \in Threads : Owns(u)' <=> Owns(u)
    OBVIOUS
<1>2. \A u \in Threads : Owns(u) => held'[u] + Transit(u)' = held[u] + Transit(u)
    OBVIOUS
<1> QED
    BY <1>1, <1>2, QuietStep DEF AbstractStep

LEMMA SpawnMaps ==
    ASSUME Inv, Inv', NEW t \in Threads, NEW new \in Tids, Spawn(t, new)
    PROVE  AbstractStep
<1> USE ConstantsAssumption DEF Spawn, Inv, TypeOK, OwnerInv, TidsDistinct, HeldInv, ExpectedInv, RecursionInv, NoPanic, Owns, Alive, Transit, Goto, Acquired, Unlocked, OwnedBy, WithWaiters, PCs, Word
<1>1. \A u \in Threads : Owns(u)' <=> Owns(u)
    OBVIOUS
<1>2. \A u \in Threads : Owns(u) => held'[u] + Transit(u)' = held[u] + Transit(u)
    OBVIOUS
<1> QED
    BY <1>1, <1>2, QuietStep DEF AbstractStep

LEMMA LockCasMaps ==
    ASSUME Inv, Inv', NEW t \in Threads, LockCas(t)
    PROVE  AbstractStep
<1> USE ConstantsAssumption DEF LockCas, Inv, TypeOK, OwnerInv, TidsDistinct, HeldInv, ExpectedInv, RecursionInv, NoPanic, Owns, Alive, Transit, Goto, Acquired, Unlocked, OwnedBy, PCs, Word
<1>1. CASE state = Unlocked
  <2>1. \A u \in Threads : ~Owns(u)
    BY <1>1
  <2>2. Owns(t)' /\ held'[t] + Transit(t)' = 1
    BY <1>1, <2>1
  <2> QED
    BY <2>1, <2>2, AcquireStep
<1>2. CASE state # Unlocked
  <2>1. \A u \in Threads : Owns(u)' <=> Owns(u)
    BY <1>2
  <2>2. \A u \in Threads : Owns(u) => held'[u] + Transit(u)' = held[u] + Transit(u)
    BY <1>2
  <2> QED
    BY <2>1, <2>2, QuietStep DEF AbstractStep
<1> QED
    BY <1>1, <1>2

LEMMA TryCasMaps ==
    ASSUME Inv, Inv', NEW t \in Threads, TryCas(t)
    PROVE  AbstractStep
<1> USE ConstantsAssumption DEF TryCas, Inv, TypeOK, OwnerInv, TidsDistinct, HeldInv, ExpectedInv, RecursionInv, NoPanic, Owns, Alive, Transit, Goto, Acquired, Unlocked, OwnedBy, PCs, Word
<1>1. CASE state = Unlocked
  <2>1. \A u \in Threads : ~Owns(u)
    BY <1>1
  <2>2. Owns(t)' /\ held'[t] + Transit(t)' = 1
    BY <1>1, <2>1
  <2> QED
    BY <2>1, <2>2, AcquireStep
<1>2. CASE state # Unlocked
  <2>1. \A u \in Threads : Owns(u)' <=> Owns(u)
    BY <1>2
  <2>2. \A u \in Threads : Owns(u) => held'[u] + Transit(u)' = held[u] + Transit(u)
    BY <1>2
  <2> QED
    BY <2>1, <2>2, QuietStep DEF AbstractStep
<1> QED
    BY <1>1, <1>2

LEMMA LockOwnedMaps ==
    ASSUME Inv, Inv', NEW t \in Threads, LockOwned(t)
    PROVE  AbstractStep
<1> USE ConstantsAssumption DEF LockOwned, Inv, TypeOK, OwnerInv, TidsDistinct, HeldInv, ExpectedInv, RecursionInv, NoPanic, Owns, Alive, Transit, Goto, Acquired, Unlocked, OwnedBy, PCs, Word
<1>1. Recursive /\ Owns(t)
    OBVIOUS
<1>2. Owns(t)' /\ held'[t] + Transit(t)' = held[t] + Transit(t) + 1
    BY <1>1
<1> QED
    BY <1>1, <1>2, ReacquireStep

LEMMA TryLoadMaps ==
    ASSUME Inv, Inv', NEW t \in Threads, TryLoad(t)
    PROVE  AbstractStep
<1> USE ConstantsAssumption DEF TryLoad, Inv, TypeOK, OwnerInv, TidsDistinct, HeldInv, ExpectedInv, RecursionInv, NoPanic, Owns, Alive, Transit, Goto, Acquired, Unlocked, OwnedBy, PCs, Word
<1>1. CASE state.owner = tid[t] /\ Recursive
  <2>1. Owns(t) /\ Owns(t)' /\ held'[t] + Transit(t)' = held[t] + Transit(t) + 1
    BY <1>1
  <2> QED
    BY <1>1, <2>1, ReacquireStep
<1>2. CASE ~(state.owner = tid[t] /\ Recursive)
  <2>1. \A u \in Threads : Owns(u)' <=> Owns(u)
    BY <1>2
  <2>2. \A u \in Threads : Owns(u) => held'[u] + Transit(u)' = held[u] + Transit(u)
    BY <1>2
  <2> QED
    BY <2>1, <2>2, QuietStep DEF AbstractStep
<1> QED
    BY <1>1, <1>2

LEMMA UnlockEnterMaps ==
    ASSUME Inv, Inv', NEW t \in Threads, UnlockEnter(t)
    PROVE  AbstractStep
<1> USE ConstantsAssumption DEF UnlockEnter, Inv, TypeOK, OwnerInv, TidsDistinct, HeldInv, ExpectedInv, RecursionInv, NoPanic, Owns, Alive, Transit, Goto, Acquired, Unlocked, OwnedBy, PCs, Word
<1>1. CASE Recursive /\ recursion # 1
  <2>1. Owns(t) /\ Owns(t)' /\ held[t] + Transit(t) # 1
    BY <1>1
  <2>2. held'[t] + Transit(t)' = held[t] + Transit(t) - 1
    BY <1>1
  <2> QED
    BY <2>1, <2>2, PartialReleaseStep
<1>2. CASE ~(Recursive /\ recursion # 1)
  <2>1. \A u \in Threads : Owns(u)' <=> Owns(u)
    BY <1>2
  <2>2. \A u \in Threads : Owns(u) => held'[u] + Transit(u)' = held[u] + Transit(u)
    BY <1>2
  <2> QED
    BY <2>1, <2>2, QuietStep DEF AbstractStep
<1> QED
    BY <1>1, <1>2

LEMMA UnlockExchangeMaps ==
    ASSUME Inv, Inv', NEW t \in Threads, UnlockExchange(t)
    PROVE  AbstractStep
<1> USE ConstantsAssumption DEF UnlockExchange, Inv, TypeOK, OwnerInv, TidsDistinct, HeldInv, ExpectedInv, RecursionInv, NoPanic, Owns, Alive, Transit, Goto, Acquired, Unlocked, OwnedBy, PCs, Word
<1>1. Owns(t) /\ held[t] + Transit(t) = 1
    OBVIOUS
<1>2. \A u \in Threads : ~Owns(u)'
    OBVIOUS
<1> QED
    BY <1>1, <1>2, LastReleaseStep

LEMMA ForkMaps ==
    ASSUME Inv, Inv', NEW t \in Threads, NEW new \in Tids, Fork(t, new)
    PROVE  AbstractStep
<1> USE ConstantsAssumption DEF Fork, RebindAfterFork, ResetAfterFork, Inv, TypeOK, OwnerInv, TidsDistinct, HeldInv, ExpectedInv, RecursionInv, NoPanic, Owns, Alive, Transit, Goto, Acquired, Unlocked, OwnedBy, PCs, Word
<1>1. CASE Owns(t)
  <2>1. \A u \in Threads : Owns(u)' <=> Owns(u)
    BY <1>1
  <2>2. \A u \in Threads : Owns(u) => held'[u] + Transit(u)' = held[u] + Transit(u)
    BY <1>1
  <2> QED
    BY <2>1, <2>2, QuietStep DEF AbstractStep
<1>2. CASE ~Owns(t)
  <2>1. \A u \in Threads : ~Owns(u)'
    BY <1>2
  <2> QED
    BY <1>2, <2>1, InheritStep
<1> QED
    BY <1>1, <1>2

LEMMA InitMaps == Init => Abstract!AInit
<1> SUFFICES ASSUME Init
             PROVE  Abstract!AInit
    OBVIOUS
<1>1. \A t \in Threads : ~Owns(t)
    BY DEF Init, Owns
<1> QED
    BY <1>1, ConstantsAssumption, InitInv, Mapping DEF HolderIsOwner, DepthOfOwner, Abstract!AInit

LEMMA StutterMaps ==
    ASSUME Inv, Inv', UNCHANGED vars
    PROVE  AbstractStep
<1>1. \A u \in Threads : Owns(u)' <=> Owns(u)
    BY DEF vars, Owns
<1>2. \A u \in Threads : Owns(u) => held'[u] + Transit(u)' = held[u] + Transit(u)
    BY DEF vars, Transit
<1> QED
    BY <1>1, <1>2, QuietStep DEF AbstractStep

LEMMA NextMaps == Inv /\ Inv' /\ [Next]_vars => AbstractStep
<1> SUFFICES ASSUME Inv, Inv', [Next]_vars
             PROVE  AbstractStep
    OBVIOUS
<1>1. CASE UNCHANGED vars
    BY <1>1, StutterMaps
<1>2. CASE Next
  <2>1. PICK t \in Threads :
            \/ Step(t) \/ Call(t) \/ LockInterrupted(t)
            \/ \E new \in Tids : Fork(t, new) \/ Spawn(t, new)
    BY <1>2 DEF Next
  <2>2. CASE Step(t)
    BY <2>2, LockCasMaps, LockFirstMaps, LockOwnedMaps, LockSetWaitersMaps, LockFutexWaitMaps,
       TryCasMaps, TryFirstMaps, UnlockExchangeMaps, UnlockWakeMaps DEF Step
  <2>3. CASE Call(t)
    BY <2>3, LockEnterMaps, TryLoadMaps, UnlockEnterMaps DEF Call
  <2>4. CASE LockInterrupted(t)
    BY <2>4, LockInterruptedMaps
  <2>5. CASE \E new \in Tids : Fork(t, new) \/ Spawn(t, new)
    BY <2>5, ForkMaps, SpawnMaps
  <2> QED
    BY <2>1, <2>2, <2>3, <2>4, <2>5
<1> QED
    BY <1>1, <1>2

(* lock.hpp implements the abstract lock: one holder, nested acquisitions  *)
(* released one by one, ownership kept across a fork.                      *)
THEOREM Refinement == Spec => ImplementsLock
<1>1. Inv /\ Inv' /\ [Next]_vars => [Abstract!ANext]_(Abstract!avars)
    BY NextMaps DEF AbstractStep
<1> QED
    BY <1>1, InitMaps, Invariance, PTL DEF Spec, ImplementsLock, Abstract!ASpec

=============================================================================
