----------------------------- MODULE Mutex_proofs -----------------------------
(***************************************************************************)
(* The mutex, for any set of threads, any of the three kinds and any       *)
(* nesting, with forks, destruction and reuse of the memory: no assertion  *)
(* fails, nobody touches a destroyed mutex, and the mutex implements the   *)
(* abstract lock.                                                          *)
(***************************************************************************)
EXTENDS Mutex, TLAPS

(* What a thread's place says about the word, the recursion level and the  *)
(* references.                                                             *)
ThreadInv == \A t \in Threads :
    /\ Owns(t) => state.owner \in {t, ParentTid}
    /\ state.owner = t => Owns(t)
    /\ pc[t] = "lock_rec" => held[t] = 0 /\ recursion = 0
    /\ held[t] > 0 /\ pc[t] # "unlock_xchg" => recursion = held[t]
    /\ pc[t] = "unlock_xchg" => held[t] = 1 /\ recursion = 0
    /\ pc[t] = "unlock_rec" => held[t] > 0
    /\ kind # "recursive" => held[t] <= 1
    /\ pc[t] = "lock" /\ expected[t].owner = t => state.owner = t /\ held[t] > 0
    /\ pc[t] \in {"lock", "lock_rec", "sleep", "try_cas"} => t \in users
    /\ pc[t] # "panic"
    /\ pc[t] = "dead" => held[t] = 0

(* There is one owner.                                                     *)
OneOwner == \A t, u \in Threads : Owns(t) /\ Owns(u) => t = u

(* The word without an owner is zero, and so is the recursion level then;  *)
(* the last reference is given up once, and a destroyed mutex is free.     *)
WordInv ==
    /\ state.owner = NoThread => state = Unlocked
    /\ state = Unlocked => recursion = 0
    /\ last # NoThread => users = {}
    /\ destroyed => users = {} /\ state = Unlocked

Inv == TypeOK /\ ThreadInv /\ OneOwner /\ WordInv

-----------------------------------------------------------------------------
(* The words, so that the steps below need not open the records.           *)
LEMMA Words ==
    /\ Unlocked \in Word /\ Unlocked.owner = NoThread
    /\ \A w \in Word : w.owner \in Threads \cup {ParentTid, NoThread}
    /\ \A w \in Word : WithWaiters(w) \in Word /\ WithWaiters(w).owner = w.owner
    /\ \A w \in Word : w.owner # NoThread => WithWaiters(w) # Unlocked
    /\ \A t \in Threads, b \in BOOLEAN :
          /\ [owner |-> t, waiters |-> b] \in Word
          /\ [owner |-> t, waiters |-> b].owner = t
          /\ [owner |-> t, waiters |-> b] # Unlocked
    /\ \A w \in Word : LET x == [w EXCEPT !.owner = ParentTid] IN
          x \in Word /\ x.owner = ParentTid /\ x # Unlocked
  BY MutexAssumption DEF Word, Unlocked, WithWaiters

(* Nobody owns a free mutex.                                               *)
LEMMA FreeFacts == ASSUME Inv, state = Unlocked PROVE \A u \in Threads : ~Owns(u)
  BY MutexAssumption, Words DEF Inv, ThreadInv

(* thread_mutex_init establishes the invariant.                            *)
LEMMA InitInv == Init => Inv
<1> SUFFICES ASSUME Init PROVE Inv
  OBVIOUS
<1> USE MutexAssumption, Words DEF Init
<1>1. TypeOK
  BY DEF TypeOK, PCs, Times
<1>2. ThreadInv /\ OneOwner /\ WordInv
  BY DEF ThreadInv, OneOwner, WordInv, Owns
<1> QED
  BY <1>1, <1>2 DEF Inv

(* A call of lock begins.                                                  *)
LEMMA LockEnterInv == ASSUME Inv, NEW t \in Threads, LockEnter(t) PROVE Inv'
<1> USE MutexAssumption, Words DEF Inv, LockEnter, MayCall, Goto
<1>1. TypeOK'
  BY DEF TypeOK, ThreadInv, PCs, Times
<1>2. ThreadInv'
  BY FreeFacts DEF TypeOK, ThreadInv, OneOwner, WordInv, Owns
<1>3. OneOwner'
  BY FreeFacts DEF TypeOK, ThreadInv, OneOwner, WordInv, Owns
<1>4. WordInv'
  BY FreeFacts DEF TypeOK, ThreadInv, WordInv, Owns
<1> QED
  BY <1>1, <1>2, <1>3, <1>4

(* The word is taken by exchange, or copied.                               *)
LEMMA LockCasInv == ASSUME Inv, NEW t \in Threads, LockCas(t) PROVE Inv'
<1> USE MutexAssumption, Words DEF Inv, LockCas, Continue, Goto, Locals
<1>1. TypeOK'
  <2>1. [owner |-> t, waiters |-> TRUE] \in Word
    BY DEF Word
  <2>2. state' \in Word
    BY <2>1 DEF TypeOK
  <2> QED
    BY <2>2 DEF TypeOK, PCs, Times
<1>2. ThreadInv'
  BY FreeFacts DEF TypeOK, ThreadInv, OneOwner, WordInv, Owns
<1>3. OneOwner'
  BY FreeFacts DEF TypeOK, ThreadInv, OneOwner, WordInv, Owns
<1>4. WordInv'
  BY FreeFacts DEF TypeOK, ThreadInv, WordInv, Owns
<1> QED
  BY <1>1, <1>2, <1>3, <1>4

(* The recursion level of a new owner.                                     *)
LEMMA LockFirstInv == ASSUME Inv, NEW t \in Threads, LockFirst(t) PROVE Inv'
<1> USE MutexAssumption, Words DEF Inv, LockFirst, Return, Continue, Goto, Acquired, Locals
<1>1. TypeOK'
  BY DEF TypeOK, ThreadInv, PCs, Times
<1>2. ThreadInv'
  BY FreeFacts DEF TypeOK, ThreadInv, OneOwner, WordInv, Owns
<1>3. OneOwner'
  BY FreeFacts DEF TypeOK, ThreadInv, OneOwner, WordInv, Owns
<1>4. WordInv'
  BY FreeFacts DEF TypeOK, ThreadInv, WordInv, Owns
<1> QED
  BY <1>1, <1>2, <1>3, <1>4

(* The caller owns the mutex already.                                      *)
LEMMA LockOwnedInv == ASSUME Inv, NEW t \in Threads, LockOwned(t) PROVE Inv'
<1> USE MutexAssumption, Words DEF Inv, LockOwned, Return, Goto, Acquired
<1>1. TypeOK'
  BY DEF TypeOK, ThreadInv, PCs, Times
<1>2. ThreadInv'
  BY FreeFacts DEF TypeOK, ThreadInv, OneOwner, WordInv, Owns
<1>3. OneOwner'
  BY FreeFacts DEF TypeOK, ThreadInv, OneOwner, WordInv, Owns
<1>4. WordInv'
  BY FreeFacts DEF TypeOK, ThreadInv, WordInv, Owns
<1> QED
  BY <1>1, <1>2, <1>3, <1>4

(* The waiters bit is published.                                           *)
LEMMA LockSetWaitersInv == ASSUME Inv, NEW t \in Threads, LockSetWaiters(t) PROVE Inv'
<1> USE MutexAssumption, Words DEF Inv, LockSetWaiters
<1>1. TypeOK'
  BY DEF TypeOK, ThreadInv, PCs, Times
<1>2. ThreadInv'
  BY FreeFacts DEF TypeOK, ThreadInv, OneOwner, WordInv, Owns
<1>3. OneOwner'
  BY FreeFacts DEF TypeOK, ThreadInv, OneOwner, WordInv, Owns
<1>4. WordInv'
  BY FreeFacts DEF TypeOK, ThreadInv, WordInv, Owns
<1> QED
  BY <1>1, <1>2, <1>3, <1>4

(* FutexWait, or a deadline that is over.                                  *)
LEMMA LockFutexWaitInv == ASSUME Inv, NEW t \in Threads, LockFutexWait(t) PROVE Inv'
<1> USE MutexAssumption, Words DEF Inv, LockFutexWait, Return, Continue, Goto, Locals
<1>1. TypeOK'
  BY DEF TypeOK, ThreadInv, PCs, Times
<1>2. ThreadInv'
  BY FreeFacts DEF TypeOK, ThreadInv, OneOwner, WordInv, Owns
<1>3. OneOwner'
  BY FreeFacts DEF TypeOK, ThreadInv, OneOwner, WordInv, Owns
<1>4. WordInv'
  BY FreeFacts DEF TypeOK, ThreadInv, WordInv, Owns
<1> QED
  BY <1>1, <1>2, <1>3, <1>4

(* A wait ends early.                                                      *)
LEMMA LockInterruptedInv == ASSUME Inv, NEW t \in Threads, LockInterrupted(t) PROVE Inv'
<1> USE MutexAssumption, Words DEF Inv, LockInterrupted, Goto
<1>1. TypeOK'
  BY DEF TypeOK, ThreadInv, PCs, Times
<1>2. ThreadInv'
  BY FreeFacts DEF TypeOK, ThreadInv, OneOwner, WordInv, Owns
<1>3. OneOwner'
  BY FreeFacts DEF TypeOK, ThreadInv, OneOwner, WordInv, Owns
<1>4. WordInv'
  BY FreeFacts DEF TypeOK, ThreadInv, WordInv, Owns
<1> QED
  BY <1>1, <1>2, <1>3, <1>4

(* The deadline passes.                                                    *)
LEMMA LockTimeoutInv == ASSUME Inv, NEW t \in Threads, LockTimeout(t) PROVE Inv'
<1> USE MutexAssumption, Words DEF Inv, LockTimeout, Return, Goto
<1>1. TypeOK'
  BY DEF TypeOK, ThreadInv, PCs, Times
<1>2. ThreadInv'
  BY FreeFacts DEF TypeOK, ThreadInv, OneOwner, WordInv, Owns
<1>3. OneOwner'
  BY FreeFacts DEF TypeOK, ThreadInv, OneOwner, WordInv, Owns
<1>4. WordInv'
  BY FreeFacts DEF TypeOK, ThreadInv, WordInv, Owns
<1> QED
  BY <1>1, <1>2, <1>3, <1>4

(* trylock looks at the word.                                              *)
LEMMA TryLoadInv == ASSUME Inv, NEW t \in Threads, TryLoad(t) PROVE Inv'
<1> USE MutexAssumption, Words DEF Inv, TryLoad, MayCall, Return, Continue, Goto, Acquired, Locals
<1>1. TypeOK'
  BY DEF TypeOK, ThreadInv, PCs, Times
<1>2. ThreadInv'
  BY FreeFacts DEF TypeOK, ThreadInv, OneOwner, WordInv, Owns
<1>3. OneOwner'
  BY FreeFacts DEF TypeOK, ThreadInv, OneOwner, WordInv, Owns
<1>4. WordInv'
  BY FreeFacts DEF TypeOK, ThreadInv, WordInv, Owns
<1> QED
  BY <1>1, <1>2, <1>3, <1>4

(* trylock takes the word by exchange.                                     *)
LEMMA TryCasInv == ASSUME Inv, NEW t \in Threads, TryCas(t) PROVE Inv'
<1> USE MutexAssumption, Words DEF Inv, TryCas, Return, Continue, Goto, Locals
<1>1. TypeOK'
  <2>1. [owner |-> t, waiters |-> FALSE] \in Word
    BY DEF Word
  <2>2. state' \in Word
    BY <2>1 DEF TypeOK
  <2> QED
    BY <2>2 DEF TypeOK, PCs, Times
<1>2. ThreadInv'
  BY FreeFacts DEF TypeOK, ThreadInv, OneOwner, WordInv, Owns
<1>3. OneOwner'
  BY FreeFacts DEF TypeOK, ThreadInv, OneOwner, WordInv, Owns
<1>4. WordInv'
  BY FreeFacts DEF TypeOK, ThreadInv, WordInv, Owns
<1> QED
  BY <1>1, <1>2, <1>3, <1>4

(* A call of unlock begins.                                                *)
LEMMA UnlockEnterInv == ASSUME Inv, NEW t \in Threads, UnlockEnter(t) PROVE Inv'
<1> USE MutexAssumption, Words DEF Inv, UnlockEnter, MayCall, Return, Continue, Goto, GiveUp, Locals
<1>1. TypeOK'
  BY DEF TypeOK, ThreadInv, PCs, Times
<1>2. ThreadInv'
  BY FreeFacts DEF TypeOK, ThreadInv, OneOwner, WordInv, Owns
<1>3. OneOwner'
  BY FreeFacts DEF TypeOK, ThreadInv, OneOwner, WordInv, Owns
<1>4. WordInv'
  BY FreeFacts DEF TypeOK, ThreadInv, WordInv, Owns
<1> QED
  BY <1>1, <1>2, <1>3, <1>4

(* The recursion level goes down.                                          *)
LEMMA UnlockRecursionInv == ASSUME Inv, NEW t \in Threads, UnlockRecursion(t) PROVE Inv'
<1> USE MutexAssumption, Words DEF Inv, UnlockRecursion, Return, Continue, Goto, Locals
<1>1. TypeOK'
  BY DEF TypeOK, ThreadInv, PCs, Times
<1>2. ThreadInv'
  BY FreeFacts DEF TypeOK, ThreadInv, OneOwner, WordInv, Owns
<1>3. OneOwner'
  BY FreeFacts DEF TypeOK, ThreadInv, OneOwner, WordInv, Owns
<1>4. WordInv'
  BY FreeFacts DEF TypeOK, ThreadInv, WordInv, Owns
<1> QED
  BY <1>1, <1>2, <1>3, <1>4

(* The word is freed.                                                      *)
LEMMA UnlockExchangeInv == ASSUME Inv, NEW t \in Threads, UnlockExchange(t) PROVE Inv'
<1> USE MutexAssumption, Words DEF Inv, UnlockExchange, Return, Continue, Goto, Locals
<1>1. TypeOK'
  BY DEF TypeOK, ThreadInv, PCs, Times
<1>2. ThreadInv'
  BY FreeFacts DEF TypeOK, ThreadInv, OneOwner, WordInv, Owns
<1>3. OneOwner'
  BY FreeFacts DEF TypeOK, ThreadInv, OneOwner, WordInv, Owns
<1>4. WordInv'
  BY FreeFacts DEF TypeOK, ThreadInv, WordInv, Owns
<1> QED
  BY <1>1, <1>2, <1>3, <1>4

(* The sleepers are woken.                                                 *)
LEMMA UnlockWakeInv == ASSUME Inv, NEW t \in Threads, UnlockWake(t) PROVE Inv'
<1> USE MutexAssumption, Words DEF Inv, UnlockWake
<1>1. TypeOK'
  BY DEF TypeOK, ThreadInv, PCs, Times
<1>2. ThreadInv'
  BY FreeFacts DEF TypeOK, ThreadInv, OneOwner, WordInv, Owns
<1>3. OneOwner'
  BY FreeFacts DEF TypeOK, ThreadInv, OneOwner, WordInv, Owns
<1>4. WordInv'
  BY FreeFacts DEF TypeOK, ThreadInv, WordInv, Owns
<1> QED
  BY <1>1, <1>2, <1>3, <1>4

(* thread_mutex_destroy.                                                   *)
LEMMA DestroyInv == ASSUME Inv, NEW t \in Threads, Destroy(t) PROVE Inv'
<1> USE MutexAssumption, Words DEF Inv, Destroy
<1>1. TypeOK'
  BY DEF TypeOK, ThreadInv, PCs, Times
<1>2. ThreadInv'
  BY FreeFacts DEF TypeOK, ThreadInv, OneOwner, WordInv, Owns
<1>3. OneOwner'
  BY FreeFacts DEF TypeOK, ThreadInv, OneOwner, WordInv, Owns
<1>4. WordInv'
  BY FreeFacts DEF TypeOK, ThreadInv, WordInv, Owns
<1> QED
  BY <1>1, <1>2, <1>3, <1>4

(* The child of a fork.                                                    *)
LEMMA ForkInv == ASSUME Inv, NEW t \in Threads, Fork(t) PROVE Inv'
<1> USE MutexAssumption, Words DEF Inv, Fork, MayCall
<1>1. TypeOK'
  BY DEF TypeOK, ThreadInv, PCs, Times
<1>2. ThreadInv'
  BY FreeFacts DEF TypeOK, ThreadInv, OneOwner, WordInv, Owns
<1>3. OneOwner'
  BY FreeFacts DEF TypeOK, ThreadInv, OneOwner, WordInv, Owns
<1>4. WordInv'
  BY FreeFacts DEF TypeOK, ThreadInv, WordInv, Owns
<1> QED
  BY <1>1, <1>2, <1>3, <1>4

(* A new thread of the child.                                              *)
LEMMA SpawnInv == ASSUME Inv, NEW t \in Threads, Spawn(t) PROVE Inv'
<1> USE MutexAssumption, Words DEF Inv, Spawn, Goto
<1>1. TypeOK'
  BY DEF TypeOK, ThreadInv, PCs, Times
<1>2. ThreadInv'
  BY FreeFacts DEF TypeOK, ThreadInv, OneOwner, WordInv, Owns
<1>3. OneOwner'
  BY FreeFacts DEF TypeOK, ThreadInv, OneOwner, WordInv, Owns
<1>4. WordInv'
  BY FreeFacts DEF TypeOK, ThreadInv, WordInv, Owns
<1> QED
  BY <1>1, <1>2, <1>3, <1>4

(* A new mutex at the same address; nobody owned the old one.              *)
LEMMA ReinitInv == ASSUME Inv, Reinit PROVE Inv'
<1> USE MutexAssumption, Words DEF Inv, Reinit
<1>1. TypeOK'
  BY DEF TypeOK
<1>2. ThreadInv' /\ OneOwner' /\ WordInv'
  BY FreeFacts DEF TypeOK, ThreadInv, OneOwner, WordInv, Owns
<1> QED
  BY <1>1, <1>2

(* Every step keeps the invariant.                                         *)
LEMMA NextInv == Inv /\ [Next]_vars => Inv'
<1> SUFFICES ASSUME Inv, [Next]_vars PROVE Inv'
  OBVIOUS
<1>1. CASE UNCHANGED vars
  BY <1>1 DEF vars, Inv, TypeOK, ThreadInv, OneOwner, WordInv, Owns
<1>2. ASSUME NEW t \in Threads,
             \/ Step(t) \/ LockEnter(t) \/ TryLoad(t) \/ UnlockEnter(t)
             \/ LockInterrupted(t) \/ LockTimeout(t)
             \/ Destroy(t) \/ Fork(t) \/ Spawn(t)
      PROVE  Inv'
  BY <1>2, LockEnterInv, LockCasInv, LockFirstInv, LockOwnedInv, LockSetWaitersInv, LockFutexWaitInv,
     LockInterruptedInv, LockTimeoutInv, TryLoadInv, TryCasInv, UnlockEnterInv, UnlockRecursionInv,
     UnlockExchangeInv, UnlockWakeInv, DestroyInv, ForkInv, SpawnInv
  DEF Step
<1> QED
  BY <1>1, <1>2, ReinitInv DEF Next

(* Inv is an invariant of the mutex.                                       *)
THEOREM Invariance == Spec => []Inv
  BY InitInv, NextInv, PTL DEF Spec

(* The checks of the recursion level in lock, trylock and unlock succeed.  *)
THEOREM NoPanicHolds == Spec => []NoPanic
<1>1. Inv => NoPanic
  BY DEF Inv, ThreadInv, NoPanic
<1> QED
  BY <1>1, Invariance, PTL

(* The word says nobody is between taking and freeing it, and nobody has a *)
(* reference left: only a FutexWake may be outstanding.                    *)
THEOREM DestroyedUntouchedHolds == Spec => []DestroyedUntouched
<1>1. Inv => DestroyedUntouched
  <2> SUFFICES ASSUME Inv, destroyed, NEW t \in Threads
               PROVE  pc[t] \in {"idle", "unlock_wake", "dead"}
    BY DEF DestroyedUntouched
  <2>1. ~Owns(t)
    BY FreeFacts DEF Inv, WordInv
  <2> QED
    BY <2>1 DEF Inv, TypeOK, ThreadInv, WordInv, Owns, PCs
<1> QED
  BY <1>1, Invariance, PTL

-----------------------------------------------------------------------------
(* The refinement.                                                         *)

(* The abstract holder is the owner, if there is one.                      *)
LEMMA HolderFacts ==
  ASSUME Inv
  PROVE  /\ \A t \in Threads : Owns(t) => Holder = t
         /\ (\A t \in Threads : ~Owns(t)) => Holder = NoThread
  BY DEF Inv, OneOwner, Holder

(* The same of the next state.                                             *)
LEMMA HolderFactsNext ==
  ASSUME Inv'
  PROVE  /\ \A t \in Threads : Owns(t)' => Holder' = t
         /\ (\A t \in Threads : ~Owns(t)') => Holder' = NoThread
  BY DEF Inv, OneOwner, Holder

(* A step that changes no owner and no level is a stutter.                 *)
LEMMA Stutter ==
  ASSUME Inv, Inv', kind' = kind, held' = held,
         \A u \in Threads : (pc'[u] = "lock_rec") <=> (pc[u] = "lock_rec")
  PROVE  UNCHANGED Abstract!avars
<1>1. \A u \in Threads : Owns(u)' <=> Owns(u)
  BY DEF Owns
<1>2. Holder' = Holder
  <2>1. CASE \E u \in Threads : Owns(u)
    BY <1>1, <2>1, HolderFacts, HolderFactsNext
  <2>2. CASE \A u \in Threads : ~Owns(u)
    BY <1>1, <2>2, HolderFacts, HolderFactsNext
  <2> QED
    BY <2>1, <2>2
<1>3. Holder \in Threads \cup {NoThread}
  BY HolderFacts
<1>4. Depth' = Depth
  BY <1>2, <1>3 DEF Depth
<1> QED
  BY <1>2, <1>4 DEF Abstract!avars

(* The exchange that takes the word is the abstract acquisition.           *)
LEMMA Taken ==
  ASSUME Inv, Inv', NEW t \in Threads, state = Unlocked, kind' = kind, held' = held,
         pc' = [pc EXCEPT ![t] = "lock_rec"]
  PROVE  Abstract!ANext
<1>1. Holder = NoThread
  BY FreeFacts, HolderFacts
<1>2. held[t] = 0 /\ pc'[t] = "lock_rec"
  BY FreeFacts DEF Inv, TypeOK, Owns
<1>3. Holder' = t
  BY <1>2, HolderFactsNext DEF Owns
<1>4. Depth' = 1
  BY <1>2, <1>3, MutexAssumption DEF Depth
<1> QED
  BY <1>1, <1>3, <1>4 DEF Abstract!ANext, Abstract!Acquire

(* The owner's level changes by one, and with it the abstract depth.       *)
LEMMA LevelUp ==
  ASSUME Inv, Inv', NEW t \in Threads, kind = "recursive", kind' = kind,
         held[t] > 0, pc[t] # "lock_rec", pc'[t] # "lock_rec",
         held' = [held EXCEPT ![t] = @ + 1]
  PROVE  Abstract!ANext
<1>1. held[t] \in Nat /\ held'[t] = held[t] + 1
  BY DEF Inv, TypeOK
<1>2. Holder = t /\ Holder' = t
  BY <1>1, HolderFacts, HolderFactsNext DEF Owns
<1>3. Depth' = Depth + 1
  BY <1>1, <1>2, MutexAssumption DEF Depth
<1> QED
  BY <1>2, <1>3 DEF Abstract!ANext, Abstract!Reacquire

(* The same when the level goes down; at zero the lock is free.            *)
LEMMA LevelDown ==
  ASSUME Inv, Inv', NEW t \in Threads, kind' = kind,
         held[t] > 0, pc[t] # "lock_rec", pc'[t] # "lock_rec",
         \A u \in Threads : u # t => pc'[u] = pc[u],
         held' = [held EXCEPT ![t] = @ - 1]
  PROVE  Abstract!ANext
<1>1. held[t] \in Nat /\ held'[t] = held[t] - 1 /\ (\A u \in Threads : u # t => held'[u] = held[u])
  BY DEF Inv, TypeOK
<1>2. Holder = t /\ Depth = held[t] /\ t # NoThread
  BY <1>1, HolderFacts, MutexAssumption DEF Depth, Owns
<1>3. CASE held[t] = 1
  <2>1. \A u \in Threads : ~Owns(u)'
    BY <1>1, <1>3 DEF Inv, OneOwner, Owns
  <2>2. Holder' = NoThread /\ Depth' = 0
    BY <2>1, HolderFactsNext DEF Depth
  <2> QED
    BY <1>2, <1>3, <2>2 DEF Abstract!ANext, Abstract!Release
<1>4. CASE held[t] # 1
  <2>1. Holder' = t
    BY <1>1, <1>4, HolderFactsNext DEF Owns
  <2>2. Depth' = held[t] - 1
    BY <1>1, <1>2, <2>1 DEF Depth
  <2> QED
    BY <1>2, <1>4, <2>1, <2>2 DEF Abstract!ANext, Abstract!Release
<1> QED
  BY <1>3, <1>4

(* Every step of the mutex is one of the abstract lock or changes nothing  *)
(* there.                                                                  *)
LEMMA StepRefines == Inv /\ Inv' /\ [Next]_vars => [Abstract!ANext]_(Abstract!avars)
<1> SUFFICES ASSUME Inv, Inv', [Next]_vars
             PROVE  Abstract!ANext \/ UNCHANGED Abstract!avars
  OBVIOUS
<1> USE DEF Goto, Return, Continue, Locals, MayCall
<1>1. CASE UNCHANGED vars
  BY <1>1, Stutter DEF vars
<1>2. ASSUME NEW t \in Threads,
             \/ LockEnter(t) \/ LockSetWaiters(t) \/ LockFutexWait(t) \/ LockInterrupted(t)
             \/ LockTimeout(t) \/ UnlockEnter(t) \/ UnlockWake(t) \/ Destroy(t) \/ Spawn(t)
      PROVE  UNCHANGED Abstract!avars
  BY <1>2, Stutter
  DEF LockEnter, LockSetWaiters, LockFutexWait, LockInterrupted, LockTimeout, UnlockEnter, UnlockWake,
      Destroy, Spawn, Inv, TypeOK
<1>3. ASSUME NEW t \in Threads, LockCas(t) \/ TryCas(t)
      PROVE  Abstract!ANext \/ UNCHANGED Abstract!avars
  <2>1. CASE state = Unlocked
    BY <1>3, <2>1, Taken DEF LockCas, TryCas
  <2>2. CASE state # Unlocked
    BY <1>3, <2>2, Stutter DEF LockCas, TryCas, Inv, TypeOK
  <2> QED
    BY <2>1, <2>2
<1>4. ASSUME NEW t \in Threads, LockFirst(t) PROVE UNCHANGED Abstract!avars
  <2>1. held[t] = 0 /\ held'[t] = 1 /\ pc'[t] = "idle"
    BY <1>4 DEF LockFirst, Acquired, Inv, TypeOK, ThreadInv
  <2>2. Holder = t /\ Holder' = t
    BY <1>4, <2>1, HolderFacts, HolderFactsNext DEF LockFirst, Owns
  <2>3. Depth = 1 /\ Depth' = 1
    BY <1>4, <2>1, <2>2, MutexAssumption DEF LockFirst, Depth
  <2> QED
    BY <1>4, <2>2, <2>3 DEF LockFirst, Abstract!avars
<1>5. ASSUME NEW t \in Threads, LockOwned(t)
      PROVE  Abstract!ANext \/ UNCHANGED Abstract!avars
  <2>1. CASE kind = "recursive"
    BY <1>5, <2>1, LevelUp DEF LockOwned, Acquired, Inv, TypeOK, ThreadInv
  <2>2. CASE kind # "recursive"
    BY <1>5, <2>2, Stutter DEF LockOwned, Inv, TypeOK
  <2> QED
    BY <2>1, <2>2
<1>6. ASSUME NEW t \in Threads, TryLoad(t)
      PROVE  Abstract!ANext \/ UNCHANGED Abstract!avars
  <2>1. CASE held' = held
    BY <1>6, <2>1, Stutter DEF TryLoad, Inv, TypeOK
  <2>2. CASE state.owner = t /\ kind = "recursive" /\ pc'[t] = "idle" /\ Acquired(t)
    BY <1>6, <2>2, LevelUp DEF TryLoad, Acquired, Inv, TypeOK, ThreadInv, Owns
  <2> QED
    BY <1>6, <2>1, <2>2 DEF TryLoad, Inv, TypeOK
<1>7. ASSUME NEW t \in Threads, UnlockRecursion(t)
      PROVE  Abstract!ANext \/ UNCHANGED Abstract!avars
  <2>1. CASE held' = held
    BY <1>7, <2>1, Stutter DEF UnlockRecursion, Inv, TypeOK
  <2>2. CASE held' = [held EXCEPT ![t] = @ - 1] /\ pc'[t] = "idle"
    BY <1>7, <2>2, LevelDown DEF UnlockRecursion, Inv, TypeOK, ThreadInv
  <2> QED
    BY <1>7, <2>1, <2>2 DEF UnlockRecursion, Inv, TypeOK
<1>8. ASSUME NEW t \in Threads, UnlockExchange(t) PROVE Abstract!ANext
  <2>1. pc'[t] # "lock_rec" /\ (\A u \in Threads : u # t => pc'[u] = pc[u])
    BY <1>8 DEF UnlockExchange, Inv, TypeOK
  <2>2. /\ held[t] > 0 /\ pc[t] # "lock_rec" /\ kind' = kind
        /\ held' = [held EXCEPT ![t] = @ - 1]
    BY <1>8 DEF UnlockExchange, Inv, ThreadInv
  <2> QED
    BY <2>1, <2>2, LevelDown
<1>9. ASSUME NEW t \in Threads, Fork(t) PROVE UNCHANGED Abstract!avars
  <2>1. \A u \in Threads : pc[u] # "lock_rec" /\ pc'[u] # "lock_rec"
    BY <1>9 DEF Fork, Inv, TypeOK, OneOwner, Owns
  <2> QED
    BY <1>9, <2>1, Stutter DEF Fork
<1>10. CASE Reinit
  <2>1. \A u \in Threads : ~Owns(u) /\ ~Owns(u)'
    BY <1>10, FreeFacts DEF Inv, WordInv, Reinit, Owns
  <2>2. Holder = NoThread /\ Holder' = NoThread
    BY <2>1, HolderFacts, HolderFactsNext
  <2>3. Depth = 0 /\ Depth' = 0
    BY <2>2 DEF Depth
  <2> QED
    BY <2>2, <2>3 DEF Abstract!ANext, Abstract!Replace
<1> QED
  BY <1>1, <1>2, <1>3, <1>4, <1>5, <1>6, <1>7, <1>8, <1>9, <1>10 DEF Next, Step

(* Every execution of the mutex is one of the abstract lock.               *)
THEOREM Refinement == Spec => ImplementsLock
<1>1. Init => Abstract!AInit
  <2> SUFFICES ASSUME Init PROVE Abstract!AInit
    OBVIOUS
  <2>1. \A t \in Threads : ~Owns(t)
    BY DEF Init, Owns
  <2>2. Holder = NoThread /\ Depth = 0
    BY <2>1, HolderFacts, InitInv DEF Depth
  <2> QED
    BY <2>2 DEF Abstract!AInit
<1> QED
  BY <1>1, InitInv, NextInv, StepRefines, PTL DEF Spec, ImplementsLock, Abstract!ASpec
=============================================================================
