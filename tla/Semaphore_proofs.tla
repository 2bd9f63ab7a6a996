--------------------------- MODULE Semaphore_proofs ---------------------------
(***************************************************************************)
(* The semaphore, for any number of threads, any initial count and any     *)
(* SEM_VALUE_MAX: tokens are conserved and no sleeper is forgotten.        *)
(***************************************************************************)
EXTENDS Semaphore, TLAPS

(* A copy with a token to take, or with room for one, is in range.         *)
LocalInv == \A t \in Threads : pc[t] = "try" => local[t].count > 0

(* A thread about to sleep has published the waiters bit, which stays; it  *)
(* sleeps on a word without tokens.                                        *)
PublishedInv ==
    \A t \in Threads : pc[t] \in {"fwait", "sleep"} => word.waiters /\ local[t].count = 0

Inv == TypeOK /\ TokensConserved /\ LocalInv /\ PublishedInv /\ NoLostWakeup

-----------------------------------------------------------------------------
(* The records of Word, so that the steps below need not open the set.     *)
LEMMA WordFacts ==
    /\ \A w \in Word : w.count \in 0..SemValueMax /\ w.waiters \in BOOLEAN
    /\ Zero \in Word /\ HasWaiters \in Word
    /\ Zero.count = 0 /\ HasWaiters.count = 0 /\ HasWaiters.waiters
    /\ \A w \in Word : w.count > 0 =>
          Minus(w) \in Word /\ Minus(w).count = w.count - 1 /\ Minus(w).waiters = w.waiters
    /\ \A w \in Word : w.count + 1 <= SemValueMax =>
          Plus(w) \in Word /\ Plus(w).count = w.count + 1 /\ Plus(w).waiters = w.waiters
  BY SemAssumption DEF Word, Zero, HasWaiters, Minus, Plus

(* sem_init establishes the invariant.                                     *)
LEMMA InitInv == Init => Inv
  BY SemAssumption, WordFacts
  DEF Init, Inv, TypeOK, TokensConserved, LocalInv, PublishedInv, NoLostWakeup, Word, PCs, Times

(* A call begins.                                                          *)
LEMMA WaitEnterInv == ASSUME Inv, NEW t \in Threads, WaitEnter(t) PROVE Inv'
<1> USE SemAssumption, WordFacts DEF Inv, WaitEnter, Return, Continue
<1>1. TypeOK'
  BY DEF TypeOK, LocalInv, PCs, Times
<1>2. TokensConserved'
  BY <1>1 DEF TypeOK, LocalInv, TokensConserved
<1>3. LocalInv'
  BY DEF TypeOK, LocalInv
<1>4. PublishedInv'
  BY DEF TypeOK, LocalInv, PublishedInv
<1>5. NoLostWakeup'
  BY DEF TypeOK, LocalInv, PublishedInv, NoLostWakeup
<1> QED
  BY <1>1, <1>2, <1>3, <1>4, <1>5

(* The waiters bit is published or the word reloaded.                      *)
LEMMA WaitPublishInv == ASSUME Inv, NEW t \in Threads, WaitPublish(t) PROVE Inv'
<1> USE SemAssumption, WordFacts DEF Inv, WaitPublish, Return, Continue
<1>1. TypeOK'
  BY DEF TypeOK, LocalInv, PCs, Times
<1>2. TokensConserved'
  BY <1>1 DEF TypeOK, LocalInv, TokensConserved
<1>3. LocalInv'
  BY DEF TypeOK, LocalInv
<1>4. PublishedInv'
  BY DEF TypeOK, LocalInv, PublishedInv
<1>5. NoLostWakeup'
  BY DEF TypeOK, LocalInv, PublishedInv, NoLostWakeup
<1> QED
  BY <1>1, <1>2, <1>3, <1>4, <1>5

(* A token is taken by exchange.                                           *)
LEMMA WaitTakeInv == ASSUME Inv, NEW t \in Threads, WaitTake(t) PROVE Inv'
<1> USE SemAssumption, WordFacts DEF Inv, WaitTake, Return, Continue
<1>1. TypeOK'
  BY DEF TypeOK, LocalInv, PCs, Times
<1>2. TokensConserved'
  <2>1. word'.count + taken' = Initial + posted'
    BY DEF TypeOK, LocalInv, TokensConserved
  <2>2. word'.count <= SemValueMax
    BY <1>1 DEF TypeOK
  <2> QED
    BY <2>1, <2>2 DEF TokensConserved
<1>3. LocalInv'
  BY DEF TypeOK, LocalInv
<1>4. PublishedInv'
  BY DEF TypeOK, LocalInv, PublishedInv
<1>5. NoLostWakeup'
  BY DEF TypeOK, LocalInv, PublishedInv, NoLostWakeup
<1> QED
  BY <1>1, <1>2, <1>3, <1>4, <1>5

(* FutexWait enqueues only on the word with the bit and no token.          *)
LEMMA WaitFutexInv == ASSUME Inv, NEW t \in Threads, WaitFutex(t) PROVE Inv'
<1> USE SemAssumption, WordFacts DEF Inv, WaitFutex, Return, Continue
<1>1. TypeOK'
  BY DEF TypeOK, LocalInv, PCs, Times
<1>2. TokensConserved'
  BY <1>1 DEF TypeOK, LocalInv, TokensConserved
<1>3. LocalInv'
  BY DEF TypeOK, LocalInv
<1>4. PublishedInv'
  BY DEF TypeOK, LocalInv, PublishedInv
<1>5. NoLostWakeup'
  BY DEF TypeOK, LocalInv, PublishedInv, NoLostWakeup
<1> QED
  BY <1>1, <1>2, <1>3, <1>4, <1>5

(* A wait ends early.                                                      *)
LEMMA WaitDisturbedInv == ASSUME Inv, NEW t \in Threads, WaitDisturbed(t) PROVE Inv'
<1> USE SemAssumption, WordFacts DEF Inv, WaitDisturbed, Return, Continue
<1>1. TypeOK'
  BY DEF TypeOK, LocalInv, PCs, Times
<1>2. TokensConserved'
  BY <1>1 DEF TypeOK, LocalInv, TokensConserved
<1>3. LocalInv'
  BY DEF TypeOK, LocalInv
<1>4. PublishedInv'
  BY DEF TypeOK, LocalInv, PublishedInv
<1>5. NoLostWakeup'
  BY DEF TypeOK, LocalInv, PublishedInv, NoLostWakeup
<1> QED
  BY <1>1, <1>2, <1>3, <1>4, <1>5

(* sem_post copies the word.                                               *)
LEMMA PostLoadInv == ASSUME Inv, NEW t \in Threads, PostLoad(t) PROVE Inv'
<1> USE SemAssumption, WordFacts DEF Inv, PostLoad, Return, Continue
<1>1. TypeOK'
  BY DEF TypeOK, LocalInv, PCs, Times
<1>2. TokensConserved'
  BY <1>1 DEF TypeOK, LocalInv, TokensConserved
<1>3. LocalInv'
  BY DEF TypeOK, LocalInv
<1>4. PublishedInv'
  BY DEF TypeOK, LocalInv, PublishedInv
<1>5. NoLostWakeup'
  BY DEF TypeOK, LocalInv, PublishedInv, NoLostWakeup
<1> QED
  BY <1>1, <1>2, <1>3, <1>4, <1>5

(* A token is added by exchange, and a wake owed if the bit is set.        *)
LEMMA PostCasInv == ASSUME Inv, NEW t \in Threads, PostCas(t) PROVE Inv'
<1> USE SemAssumption, WordFacts DEF Inv, PostCas, Return, Continue
<1>1. TypeOK'
  BY DEF TypeOK, LocalInv, PCs, Times
<1>2. TokensConserved'
  <2>1. CASE local[t].count + 1 > SemValueMax \/ word # local[t]
    BY <2>1 DEF TypeOK, TokensConserved
  <2>2. CASE local[t].count + 1 <= SemValueMax /\ word = local[t]
    <3>1. word \in Word /\ word.count \in Nat /\ taken \in Nat /\ posted \in Nat /\ Initial \in Nat
      BY DEF TypeOK
    <3>2. /\ word'.count = word.count + 1 /\ word'.count <= SemValueMax
          /\ posted' = posted + 1 /\ taken' = taken
      BY <2>2, <3>1
    <3> QED
      BY ONLY <3>1, <3>2, TokensConserved DEF TokensConserved
  <2> QED
    BY <2>1, <2>2 DEF TypeOK
<1>3. LocalInv'
  BY DEF TypeOK, LocalInv
<1>4. PublishedInv'
  BY DEF TypeOK, LocalInv, PublishedInv
<1>5. NoLostWakeup'
  BY DEF TypeOK, LocalInv, PublishedInv, NoLostWakeup
<1> QED
  BY <1>1, <1>2, <1>3, <1>4, <1>5

(* FutexWake empties the queue.                                            *)
LEMMA PostWakeInv == ASSUME Inv, NEW t \in Threads, PostWake(t) PROVE Inv'
<1> USE SemAssumption, WordFacts DEF Inv, PostWake, Return, Continue
<1>1. TypeOK'
  BY DEF TypeOK, LocalInv, PCs, Times
<1>2. TokensConserved'
  BY <1>1 DEF TypeOK, LocalInv, TokensConserved
<1>3. LocalInv'
  BY DEF TypeOK, LocalInv
<1>4. PublishedInv'
  BY DEF TypeOK, LocalInv, PublishedInv
<1>5. NoLostWakeup'
  <2>1. \A u \in Threads : pc'[u] # "sleep"
    BY DEF TypeOK
  <2> QED
    BY <2>1 DEF NoLostWakeup
<1> QED
  BY <1>1, <1>2, <1>3, <1>4, <1>5

(* sem_trywait copies the word.                                            *)
LEMMA TryLoadInv == ASSUME Inv, NEW t \in Threads, TryLoad(t) PROVE Inv'
<1> USE SemAssumption, WordFacts DEF Inv, TryLoad, Return, Continue, TryRefused
<1>1. TypeOK'
  BY DEF TypeOK, LocalInv, PCs, Times
<1>2. TokensConserved'
  BY <1>1 DEF TypeOK, LocalInv, TokensConserved
<1>3. LocalInv'
  BY DEF TypeOK, LocalInv
<1>4. PublishedInv'
  BY DEF TypeOK, LocalInv, PublishedInv
<1>5. NoLostWakeup'
  BY DEF TypeOK, LocalInv, PublishedInv, NoLostWakeup
<1> QED
  BY <1>1, <1>2, <1>3, <1>4, <1>5

(* sem_trywait takes a token by exchange.                                  *)
LEMMA TryCasInv == ASSUME Inv, NEW t \in Threads, TryCas(t) PROVE Inv'
<1> USE SemAssumption, WordFacts DEF Inv, TryCas, Return, Continue
<1>1. TypeOK'
  BY DEF TypeOK, LocalInv, PCs, Times
<1>2. TokensConserved'
  <2>1. word'.count + taken' = Initial + posted'
    BY DEF TypeOK, LocalInv, TokensConserved
  <2>2. word'.count <= SemValueMax
    BY <1>1 DEF TypeOK
  <2> QED
    BY <2>1, <2>2 DEF TokensConserved
<1>3. LocalInv'
  BY DEF TypeOK, LocalInv
<1>4. PublishedInv'
  BY DEF TypeOK, LocalInv, PublishedInv
<1>5. NoLostWakeup'
  BY DEF TypeOK, LocalInv, PublishedInv, NoLostWakeup
<1> QED
  BY <1>1, <1>2, <1>3, <1>4, <1>5

(* Every step keeps the invariant.                                         *)
LEMMA NextInv == Inv /\ [Next]_vars => Inv'
<1> SUFFICES ASSUME Inv, [Next]_vars PROVE Inv'
  OBVIOUS
<1>1. CASE UNCHANGED vars
  BY <1>1 DEF vars, Inv, TypeOK, TokensConserved, LocalInv, PublishedInv, NoLostWakeup
<1>2. ASSUME NEW t \in Threads,
             Step(t) \/ WaitEnter(t) \/ WaitDisturbed(t) \/ PostLoad(t) \/ TryLoad(t)
      PROVE Inv'
  BY <1>2, WaitEnterInv, WaitPublishInv, WaitTakeInv, WaitFutexInv, WaitDisturbedInv, PostLoadInv, PostCasInv, PostWakeInv, TryLoadInv, TryCasInv DEF Step
<1> QED
  BY <1>1, <1>2 DEF Next

(* Inv is an invariant of the semaphore.                                   *)
THEOREM Invariance == Spec => []Inv
<1>1. Init => Inv
  BY InitInv
<1>2. Inv /\ [Next]_vars => Inv'
  BY NextInv
<1> QED
  BY <1>1, <1>2, PTL DEF Spec

(* Overlapping sem_wait, sem_trywait and sem_post calls lose no token and  *)
(* make none up.                                                           *)
THEOREM TokensConservedHolds == Spec => []TokensConserved
<1>1. Inv => TokensConserved
  BY DEF Inv
<1> QED
  BY <1>1, Invariance, PTL

(* A thread asleep in sem_wait while there is a token has a sem_post about *)
(* to wake it.                                                             *)
THEOREM NoLostWakeupHolds == Spec => []NoLostWakeup
<1>1. Inv => NoLostWakeup
  BY DEF Inv
<1> QED
  BY <1>1, Invariance, PTL
=============================================================================
