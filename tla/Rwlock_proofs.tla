---------------------------- MODULE Rwlock_proofs ----------------------------
(***************************************************************************)
(* The read-write lock, for any finite set of threads and any number of    *)
(* calls: writers are alone, no assertion of the code fails, and a writer  *)
(* that waits for the readers to leave is not overtaken.                   *)
(***************************************************************************)
EXTENDS Rwlock, FiniteSetTheorems, TLAPS

ReadCalls == {"rd", "tryrd", "timedrd", "blockrd"}
WriteCalls == {"wr", "trywr", "timedwr", "blockwr"}

TypeInv ==
    /\ m \in MWords /\ rc \in RcWords /\ (rc.waiters => rc.count > 0)
    /\ alive \in BOOLEAN
    /\ pc \in [Threads -> PCs]
    /\ call \in [Threads -> ReadCalls \cup WriteCalls \cup {"none", "unlock"}]
    /\ mexp \in [Threads -> MWords]
    /\ rexp \in [Threads -> RcWords]
    /\ \A t \in Threads : rexp[t].waiters => rexp[t].count > 0
    /\ ret \in [Threads -> {"ok", "EBUSY", "ETIMEDOUT"}]
    /\ holds \in [Threads -> {"none", "read", "write"}]
    /\ calls \in [Threads -> Nat]

(* The call a thread is in, by where it is; only a writer that gives up    *)
(* releases m with an error.                                               *)
CallInv == \A t \in Threads :
    /\ holds[t] # "none" => pc[t] = "idle"
    /\ pc[t] \in {"try_load", "try_cas", "m_load", "m_loop", "m_wait", "m_sleep"} =>
          call[t] \in ReadCalls \cup WriteCalls
    /\ pc[t] = "rc_add" => call[t] \in ReadCalls
    /\ pc[t] \in {"rc_load", "rc_loop", "rc_wait", "rc_sleep"} => call[t] \in WriteCalls
    /\ pc[t] \in {"u_load", "u_cas", "rc_wake"} => call[t] = "unlock"
    /\ pc[t] \in {"m_unlock", "m_wake"} /\ call[t] \in WriteCalls => ret[t] # "ok"
    /\ pc[t] \in {"m_unlock", "m_wake"} /\ call[t] \in ReadCalls => ret[t] = "ok"
    /\ pc[t] \in {"m_unlock", "m_wake"} => call[t] # "none"
    /\ pc[t] \notin {"m_unlock", "m_wake"} => ret[t] = "ok"
    /\ pc[t] # "panic"
    /\ alive \/ (pc[t] = "idle" /\ holds[t] = "none")

(* t is counted in rc.  The call that releases the lock does not know      *)
(* which kind it has; rc tells.                                            *)
IsReader(t) ==
    \/ holds[t] = "read"
    \/ pc[t] \in {"m_unlock", "m_wake"} /\ call[t] \in ReadCalls
    \/ pc[t] = "u_cas"
    \/ pc[t] = "u_load" /\ rc.count > 0

(* t has taken m and not given it back.                                    *)
IsOwner(t) ==
    \/ holds[t] = "write"
    \/ pc[t] \in {"rc_add", "rc_load", "rc_loop", "rc_wait", "rc_sleep", "m_unlock"}
    \/ pc[t] = "u_load" /\ rc.count = 0

Readers == {t \in Threads : IsReader(t)}

(* m has one owner, or is free.                                            *)
OwnerInv ==
    /\ \A t, u \in Threads : IsOwner(t) /\ IsOwner(u) => t = u
    /\ m = Free <=> \A t \in Threads : ~IsOwner(t)

(* rc counts the readers.                                                  *)
CountInv == Cardinality(Readers) = rc.count

(* What a thread has read of rc.                                           *)
CopyInv == \A t \in Threads :
    /\ pc[t] = "rc_loop" /\ rexp[t] = NoReaders => rc.count = 0
    /\ pc[t] = "u_cas" => rexp[t].count > 0
    /\ holds[t] = "write" => rc.count = 0

Inv == TypeInv /\ CallInv /\ OwnerInv /\ CountInv /\ CopyInv

-----------------------------------------------------------------------------
(* The words, so that the steps below need not open the records.           *)
LEMMA Words ==
    /\ Free \in MWords /\ NoReaders \in RcWords
    /\ NoReaders.count = 0 /\ ~NoReaders.waiters
    /\ \A w \in RcWords : w.count \in Nat /\ w.waiters \in BOOLEAN
    /\ \A w \in RcWords : w.count = 0 /\ ~w.waiters => w = NoReaders
  BY DEF Free, NoReaders, MWords, RcWords

(* A reader more, a reader less, a waiter, for rc.                         *)
LEMMA RcUpdates ==
  ASSUME NEW w \in RcWords
  PROVE  /\ [w EXCEPT !.count = @ + 1] \in RcWords
         /\ [w EXCEPT !.count = @ + 1].count = w.count + 1
         /\ w.count > 0 => [w EXCEPT !.count = @ - 1] \in RcWords
         /\ [w EXCEPT !.count = @ - 1].count = w.count - 1
         /\ [w EXCEPT !.count = @ - 1].waiters <=> w.waiters
         /\ [w EXCEPT !.waiters = TRUE] \in RcWords
         /\ [w EXCEPT !.waiters = TRUE].count = w.count
<1>1. /\ w = [count |-> w.count, waiters |-> w.waiters]
      /\ w.count \in Nat /\ w.waiters \in BOOLEAN
  BY DEF RcWords
<1>2. [w EXCEPT !.count = @ + 1] = [count |-> w.count + 1, waiters |-> w.waiters]
  BY <1>1
<1>3. [w EXCEPT !.count = @ - 1] = [count |-> w.count - 1, waiters |-> w.waiters]
  BY <1>1
<1>4. [w EXCEPT !.waiters = TRUE] \in RcWords /\ [w EXCEPT !.waiters = TRUE].count = w.count
  BY DEF RcWords
<1>5. w.count + 1 \in Nat /\ (w.count > 0 => w.count - 1 \in Nat)
  BY <1>1
<1> QED
  BY <1>1, <1>2, <1>3, <1>4, <1>5 DEF RcWords

(* m taken, and m with a waiter, is not free.                              *)
LEMMA MUpdates ==
  ASSUME NEW e \in BOOLEAN, NEW w \in MWords
  PROVE  /\ [held |-> TRUE, excl |-> e, waiters |-> FALSE] \in MWords
         /\ [held |-> TRUE, excl |-> e, waiters |-> FALSE] # Free
         /\ [w EXCEPT !.waiters = TRUE] \in MWords
         /\ [w EXCEPT !.waiters = TRUE] # Free
<1>1. [held |-> TRUE, excl |-> e, waiters |-> FALSE].held # Free.held
  BY DEF Free
<1>2. [w EXCEPT !.waiters = TRUE].waiters # Free.waiters
  BY DEF Free, MWords
<1> QED
  BY <1>1, <1>2 DEF MWords

(* Some thread is counted only if rc is positive, and with a count of one  *)
(* no other thread is.                                                     *)
LEMMA Counted ==
  ASSUME Inv
  PROVE  /\ IsFiniteSet(Readers)
         /\ \A t \in Readers : rc.count > 0
         /\ \A t \in Readers : Cardinality(Readers \ {t}) = rc.count - 1
         /\ rc.count = 1 => \A t, u \in Readers : t = u
         /\ rc.count = 0 => Readers = {}
<1>1. IsFiniteSet(Readers)
  BY ThreadsAssumption, FS_Subset DEF Readers
<1>2. rc.count \in Nat /\ Cardinality(Readers) = rc.count
  BY Words DEF Inv, TypeInv, CountInv
<1>3. \A t \in Readers : IsFiniteSet(Readers \ {t}) /\ Cardinality(Readers \ {t}) = rc.count - 1
  BY <1>1, <1>2, FS_RemoveElement
<1>4. rc.count = 0 => Readers = {}
  BY <1>1, <1>2, FS_EmptySet
<1>5. rc.count = 1 => \A t, u \in Readers : t = u
  <2> SUFFICES ASSUME rc.count = 1, NEW t \in Readers, NEW u \in Readers PROVE t = u
    OBVIOUS
  <2>1. IsFiniteSet(Readers \ {t}) /\ Cardinality(Readers \ {t}) = 0
    BY <1>3
  <2>2. Readers \ {t} = {}
    BY <2>1, FS_EmptySet
  <2> QED
    BY <2>2
<1> QED
  BY <1>1, <1>2, <1>3, <1>4, <1>5

(* A step that changes neither rc nor who is counted.                      *)
LEMMA CountKept ==
  ASSUME CountInv, rc'.count = rc.count, \A u \in Threads : IsReader(u)' = IsReader(u)
  PROVE  CountInv'
<1>1. Readers' = Readers
  BY DEF Readers
<1> QED
  BY <1>1 DEF CountInv

(* A call that returns leaves the variables in their types.                *)
LEMMA ReturnType ==
  ASSUME TypeInv, NEW t \in Threads, NEW r, Return(t, r)
  PROVE  /\ pc' \in [Threads -> PCs]
         /\ call' \in [Threads -> ReadCalls \cup WriteCalls \cup {"none", "unlock"}]
         /\ mexp' \in [Threads -> MWords]
         /\ rexp' \in [Threads -> RcWords]
         /\ \A u \in Threads : rexp'[u].waiters => rexp'[u].count > 0
         /\ ret' \in [Threads -> {"ok", "EBUSY", "ETIMEDOUT"}]
         /\ holds' \in [Threads -> {"none", "read", "write"}]
<1> USE Words DEF TypeInv, Return, WakeAndReturn
<1>1. pc' \in [Threads -> PCs]
  BY DEF PCs
<1>2. call' \in [Threads -> ReadCalls \cup WriteCalls \cup {"none", "unlock"}]
  BY DEF Blocking, ReadCalls, WriteCalls
<1>3. mexp' \in [Threads -> MWords] /\ rexp' \in [Threads -> RcWords]
  OBVIOUS
<1>4. \A u \in Threads : rexp'[u].waiters => rexp'[u].count > 0
  OBVIOUS
<1>5. ret' \in [Threads -> {"ok", "EBUSY", "ETIMEDOUT"}]
  OBVIOUS
<1>6. holds' \in [Threads -> {"none", "read", "write"}]
  OBVIOUS
<1> QED
  BY <1>1, <1>2, <1>3, <1>4, <1>5, <1>6

(* Init establishes the invariant.                                         *)
LEMMA InitInv == Init => Inv
<1> SUFFICES ASSUME Init PROVE Inv
  OBVIOUS
<1>1. TypeInv /\ CallInv /\ OwnerInv /\ CopyInv
  BY Words DEF Init, TypeInv, CallInv, OwnerInv, CopyInv, IsOwner, PCs
<1>2. Readers = {}
  BY DEF Init, Readers, IsReader
<1> QED
  BY <1>1, <1>2, Words, FS_EmptySet DEF Inv, CountInv, Init

(* A call begins.                                                          *)
LEMMA LockInv == ASSUME Inv, NEW t \in Threads, Lock(t) PROVE Inv'
<1> USE Words DEF Inv, Lock, Goto, Trying, AllCalls
<1>1. TypeInv'
  BY CallsAssumption, Words DEF TypeInv, PCs, ReadCalls, WriteCalls
<1>2. CallInv'
  BY CallsAssumption, Words DEF TypeInv, CallInv, ReadCalls, WriteCalls
<1>3. \A u \in Threads : IsOwner(u)' = IsOwner(u)
  BY DEF TypeInv, CallInv, CopyInv, IsOwner, ReadCalls, WriteCalls
<1>4. OwnerInv'
  BY <1>3 DEF OwnerInv, TypeInv
<1>5. CountInv'
  <2>1. \A u \in Threads : IsReader(u)' = IsReader(u)
    BY DEF TypeInv, CallInv, CopyInv, IsReader, ReadCalls, WriteCalls
  <2> QED
    BY <2>1, CountKept
<1>6. CopyInv'
  BY DEF TypeInv, CallInv, CopyInv, ReadCalls, WriteCalls
<1> QED
  BY <1>1, <1>2, <1>4, <1>5, <1>6 DEF Inv

(* A release begins.                                                       *)
LEMMA UnlockInv == ASSUME Inv, NEW t \in Threads, Unlock(t) PROVE Inv'
<1> USE Words DEF Inv, Unlock, Goto
<1>1. TypeInv'
  BY DEF TypeInv, PCs, ReadCalls, WriteCalls
<1>2. CallInv'
  BY DEF TypeInv, CallInv, ReadCalls, WriteCalls
<1>a. (holds[t] = "read" => rc.count > 0) /\ (holds[t] = "write" => rc.count = 0) /\ rc.count \in Nat
  BY Counted DEF Readers, IsReader, CopyInv, TypeInv
<1>3. \A u \in Threads : IsOwner(u)' = IsOwner(u)
  BY <1>a DEF TypeInv, CallInv, IsOwner
<1>4. OwnerInv'
  BY <1>3 DEF OwnerInv
<1>5. CountInv'
  <2>1. \A u \in Threads : IsReader(u)' = IsReader(u)
    BY <1>a DEF TypeInv, CallInv, IsReader, ReadCalls, WriteCalls
  <2> QED
    BY <2>1, CountKept
<1>6. CopyInv'
  BY DEF TypeInv, CallInv, CopyInv
<1> QED
  BY <1>1, <1>2, <1>4, <1>5, <1>6 DEF Inv

(* rwlock_m_trylock looks at m.                                            *)
LEMMA TryLoadInv == ASSUME Inv, NEW t \in Threads, TryLoad(t) PROVE Inv'
<1> USE Words DEF Inv, TryLoad, Goto
<1>1. TypeInv'
  <2>1. CASE m = Free
    BY <2>1 DEF TypeInv, PCs
  <2>2. CASE m # Free
    BY <2>2, ReturnType DEF TypeInv
  <2> QED
    BY <2>1, <2>2
<1>2. CallInv'
  BY DEF TypeInv, CallInv, ReadCalls, WriteCalls, Refusal, Return, WakeAndReturn, Blocking, Writing
<1>3. \A u \in Threads : IsOwner(u)' = IsOwner(u)
  BY DEF TypeInv, CallInv, IsOwner, ReadCalls, WriteCalls, Refusal, Return, WakeAndReturn, Blocking, Writing
<1>4. OwnerInv'
  BY <1>3 DEF OwnerInv
<1>5. CountInv'
  <2>1. \A u \in Threads : IsReader(u)' = IsReader(u)
    BY DEF TypeInv, CallInv, CopyInv, IsReader, ReadCalls, WriteCalls, Refusal, Return, WakeAndReturn, Blocking, Writing
  <2> QED
    BY <2>1, CountKept
<1>6. CopyInv'
  BY DEF TypeInv, CallInv, CopyInv, ReadCalls, WriteCalls, Refusal, Return, WakeAndReturn, Blocking, Writing
<1> QED
  BY <1>1, <1>2, <1>4, <1>5, <1>6 DEF Inv

(* rwlock_m_trylock takes m.                                               *)
LEMMA TryCasInv == ASSUME Inv, NEW t \in Threads, TryCas(t) PROVE Inv'
<1> USE Words DEF Inv, TryCas, Goto
<1>a. Writing(call[t]) \in BOOLEAN /\ AfterM(t) \in PCs
  BY DEF Writing, AfterM, PCs
<1>b. m = Free => m' \in MWords /\ m' # Free
  BY <1>a, MUpdates DEF TypeInv
<1>1. TypeInv'
  <2>1. CASE m = Free
    BY <1>a, <1>b, <2>1 DEF TypeInv
  <2>2. CASE m # Free
    BY <2>2, ReturnType DEF TypeInv
  <2> QED
    BY <2>1, <2>2
<1>2. CallInv'
  BY DEF TypeInv, CallInv, ReadCalls, WriteCalls, AfterM, Refusal, Return, WakeAndReturn, Blocking, Writing
<1>4. OwnerInv'
  <2>1. CASE m = Free
    <3>1. \A u \in Threads : IsOwner(u)' <=> u = t
      BY <2>1 DEF OwnerInv, TypeInv, CallInv, IsOwner, AfterM
    <3> QED
      BY <1>b, <2>1, <3>1 DEF OwnerInv
  <2>2. CASE m # Free
    <3>1. \A u \in Threads : IsOwner(u)' = IsOwner(u)
      BY <2>2 DEF TypeInv, CallInv, IsOwner, ReadCalls, WriteCalls, AfterM, Refusal, Return, WakeAndReturn, Blocking, Writing
    <3>2. m' = m
      BY <2>2
    <3> QED
      BY <3>1, <3>2 DEF OwnerInv
  <2> QED
    BY <2>1, <2>2
<1>5. CountInv'
  <2>1. \A u \in Threads : IsReader(u)' = IsReader(u)
    BY DEF TypeInv, CallInv, CopyInv, IsReader, ReadCalls, WriteCalls, AfterM, Refusal, Return, WakeAndReturn, Blocking, Writing
  <2> QED
    BY <2>1, CountKept
<1>6. CopyInv'
  BY DEF TypeInv, CallInv, CopyInv, ReadCalls, WriteCalls, AfterM, Refusal, Return, WakeAndReturn, Blocking, Writing
<1> QED
  BY <1>1, <1>2, <1>4, <1>5, <1>6 DEF Inv

(* rwlock_m_lock copies m.                                                 *)
LEMMA MLoadInv == ASSUME Inv, NEW t \in Threads, MLoad(t) PROVE Inv'
<1> USE Words DEF Inv, MLoad, Goto
<1>1. TypeInv'
  BY Words DEF TypeInv, PCs, ReadCalls, WriteCalls
<1>2. CallInv'
  BY Words DEF TypeInv, CallInv, ReadCalls, WriteCalls
<1>3. \A u \in Threads : IsOwner(u)' = IsOwner(u)
  BY DEF TypeInv, CallInv, CopyInv, IsOwner, ReadCalls, WriteCalls
<1>4. OwnerInv'
  BY <1>3 DEF OwnerInv, TypeInv
<1>5. CountInv'
  <2>1. \A u \in Threads : IsReader(u)' = IsReader(u)
    BY DEF TypeInv, CallInv, CopyInv, IsReader, ReadCalls, WriteCalls
  <2> QED
    BY <2>1, CountKept
<1>6. CopyInv'
  BY DEF TypeInv, CallInv, CopyInv, ReadCalls, WriteCalls
<1> QED
  BY <1>1, <1>2, <1>4, <1>5, <1>6 DEF Inv

(* rwlock_m_lock takes m.                                                  *)
LEMMA MTakeInv == ASSUME Inv, NEW t \in Threads, MTake(t) PROVE Inv'
<1> USE Words DEF Inv, MTake, Goto
<1>a. Writing(call[t]) \in BOOLEAN /\ AfterM(t) \in PCs
  BY DEF Writing, AfterM, PCs
<1>b. m = Free => m' \in MWords /\ m' # Free
  BY <1>a, MUpdates DEF TypeInv
<1>1. TypeInv'
  <2>1. CASE m = Free
    BY <1>a, <1>b, <2>1 DEF TypeInv
  <2>2. CASE m # Free
    BY <2>2 DEF TypeInv
  <2> QED
    BY <2>1, <2>2
<1>2. CallInv'
  BY DEF TypeInv, CallInv, ReadCalls, WriteCalls, AfterM, Writing
<1>4. OwnerInv'
  <2>1. CASE m = Free
    <3>1. \A u \in Threads : IsOwner(u)' <=> u = t
      BY <2>1 DEF OwnerInv, TypeInv, CallInv, IsOwner, AfterM
    <3> QED
      BY <1>b, <2>1, <3>1 DEF OwnerInv
  <2>2. CASE m # Free
    <3>1. \A u \in Threads : IsOwner(u)' = IsOwner(u)
      BY <2>2 DEF TypeInv, CallInv, IsOwner, ReadCalls, WriteCalls, AfterM, Writing
    <3>2. m' = m
      BY <2>2
    <3> QED
      BY <3>1, <3>2 DEF OwnerInv
  <2> QED
    BY <2>1, <2>2
<1>5. CountInv'
  <2>1. \A u \in Threads : IsReader(u)' = IsReader(u)
    BY DEF TypeInv, CallInv, CopyInv, IsReader, ReadCalls, WriteCalls, AfterM, Writing
  <2> QED
    BY <2>1, CountKept
<1>6. CopyInv'
  BY DEF TypeInv, CallInv, CopyInv, ReadCalls, WriteCalls, AfterM, Writing
<1> QED
  BY <1>1, <1>2, <1>4, <1>5, <1>6 DEF Inv

(* rwlock_m_lock publishes a waiter.                                       *)
LEMMA MSetWaitersInv == ASSUME Inv, NEW t \in Threads, MSetWaiters(t) PROVE Inv'
<1> USE Words DEF Inv, MSetWaiters, Goto
<1>a. m' \in MWords /\ (m' = Free <=> m = Free)
  BY MUpdates DEF TypeInv
<1>1. TypeInv'
  BY <1>a DEF TypeInv, PCs
<1>2. CallInv'
  BY DEF TypeInv, CallInv
<1>3. \A u \in Threads : IsOwner(u)' = IsOwner(u)
  BY DEF TypeInv, IsOwner
<1>4. OwnerInv'
  BY <1>a, <1>3 DEF OwnerInv
<1>5. CountInv'
  <2>1. \A u \in Threads : IsReader(u)' = IsReader(u)
    BY DEF TypeInv, CallInv, CopyInv, IsReader, ReadCalls, WriteCalls
  <2> QED
    BY <2>1, CountKept
<1>6. CopyInv'
  BY DEF TypeInv, CopyInv
<1> QED
  BY <1>1, <1>2, <1>4, <1>5, <1>6 DEF Inv

(* FutexWait on m.                                                         *)
LEMMA MWaitInv == ASSUME Inv, NEW t \in Threads, MWait(t) PROVE Inv'
<1> USE Words DEF Inv, MWait, Goto
<1>1. TypeInv'
  BY Words DEF TypeInv, PCs, ReadCalls, WriteCalls
<1>2. CallInv'
  BY Words DEF TypeInv, CallInv, ReadCalls, WriteCalls
<1>3. \A u \in Threads : IsOwner(u)' = IsOwner(u)
  BY DEF TypeInv, CallInv, CopyInv, IsOwner, ReadCalls, WriteCalls
<1>4. OwnerInv'
  BY <1>3 DEF OwnerInv, TypeInv
<1>5. CountInv'
  <2>1. \A u \in Threads : IsReader(u)' = IsReader(u)
    BY DEF TypeInv, CallInv, CopyInv, IsReader, ReadCalls, WriteCalls
  <2> QED
    BY <2>1, CountKept
<1>6. CopyInv'
  BY DEF TypeInv, CallInv, CopyInv, ReadCalls, WriteCalls
<1> QED
  BY <1>1, <1>2, <1>4, <1>5, <1>6 DEF Inv

(* A wait on m ends early.                                                 *)
LEMMA MInterruptedInv == ASSUME Inv, NEW t \in Threads, MInterrupted(t) PROVE Inv'
<1> USE Words DEF Inv, MInterrupted, Goto
<1>1. TypeInv'
  BY Words DEF TypeInv, PCs, ReadCalls, WriteCalls
<1>2. CallInv'
  BY Words DEF TypeInv, CallInv, ReadCalls, WriteCalls
<1>3. \A u \in Threads : IsOwner(u)' = IsOwner(u)
  BY DEF TypeInv, CallInv, CopyInv, IsOwner, ReadCalls, WriteCalls
<1>4. OwnerInv'
  BY <1>3 DEF OwnerInv, TypeInv
<1>5. CountInv'
  <2>1. \A u \in Threads : IsReader(u)' = IsReader(u)
    BY DEF TypeInv, CallInv, CopyInv, IsReader, ReadCalls, WriteCalls
  <2> QED
    BY <2>1, CountKept
<1>6. CopyInv'
  BY DEF TypeInv, CallInv, CopyInv, ReadCalls, WriteCalls
<1> QED
  BY <1>1, <1>2, <1>4, <1>5, <1>6 DEF Inv

(* The deadline passes during a wait on m.                                 *)
LEMMA MTimeoutInv == ASSUME Inv, NEW t \in Threads, MTimeout(t) PROVE Inv'
<1> USE Words DEF Inv, MTimeout, Timed, Return, WakeAndReturn, Blocking, Writing
<1>1. TypeInv'
  BY Words DEF TypeInv, PCs, ReadCalls, WriteCalls
<1>2. CallInv'
  BY Words DEF TypeInv, CallInv, ReadCalls, WriteCalls
<1>3. \A u \in Threads : IsOwner(u)' = IsOwner(u)
  BY DEF TypeInv, CallInv, CopyInv, IsOwner, ReadCalls, WriteCalls
<1>4. OwnerInv'
  BY <1>3 DEF OwnerInv, TypeInv
<1>5. CountInv'
  <2>1. \A u \in Threads : IsReader(u)' = IsReader(u)
    BY DEF TypeInv, CallInv, CopyInv, IsReader, ReadCalls, WriteCalls
  <2> QED
    BY <2>1, CountKept
<1>6. CopyInv'
  BY DEF TypeInv, CallInv, CopyInv, ReadCalls, WriteCalls
<1> QED
  BY <1>1, <1>2, <1>4, <1>5, <1>6 DEF Inv

(* rwlock_m_unlock.                                                        *)
LEMMA MUnlockInv == ASSUME Inv, NEW t \in Threads, MUnlock(t) PROVE Inv'
<1> USE Words DEF Inv, MUnlock, Goto
<1>1. TypeInv'
  <2>1. CASE m.waiters
    BY <2>1 DEF TypeInv, PCs
  <2>2. CASE ~m.waiters
    <3>1. Return(t, ret[t])
      BY <2>2
    <3> QED
      BY <2>2, <3>1, ReturnType DEF TypeInv
  <2> QED
    BY <2>1, <2>2
<1>2. CallInv'
  BY DEF TypeInv, CallInv, ReadCalls, WriteCalls, Return, WakeAndReturn, Blocking, Writing
<1>4. OwnerInv'
  <2>1. \A u \in Threads : IsOwner(u) => u = t
    BY DEF OwnerInv, IsOwner
  <2>2. \A u \in Threads : ~IsOwner(u)'
    BY <2>1 DEF TypeInv, CallInv, IsOwner, ReadCalls, WriteCalls, Return, WakeAndReturn, Blocking, Writing
  <2> QED
    BY <2>2 DEF OwnerInv
<1>5. CountInv'
  <2>1. \A u \in Threads : IsReader(u)' = IsReader(u)
    BY DEF TypeInv, CallInv, CopyInv, IsReader, ReadCalls, WriteCalls, Return, WakeAndReturn, Blocking, Writing
  <2> QED
    BY <2>1, CountKept
<1>6. CopyInv'
  BY DEF TypeInv, CallInv, CopyInv, ReadCalls, WriteCalls, Return, WakeAndReturn, Blocking, Writing
<1> QED
  BY <1>1, <1>2, <1>4, <1>5, <1>6 DEF Inv

(* The threads that wait for m are woken.                                  *)
LEMMA MWakeInv == ASSUME Inv, NEW t \in Threads, MWake(t) PROVE Inv'
<1> USE Words DEF Inv, MWake, Return, WakeAndReturn, Blocking, Writing
<1>1. TypeInv'
  BY Words DEF TypeInv, PCs, ReadCalls, WriteCalls
<1>2. CallInv'
  BY Words DEF TypeInv, CallInv, ReadCalls, WriteCalls
<1>3. \A u \in Threads : IsOwner(u)' = IsOwner(u)
  BY DEF TypeInv, CallInv, CopyInv, IsOwner, ReadCalls, WriteCalls
<1>4. OwnerInv'
  BY <1>3 DEF OwnerInv, TypeInv
<1>5. CountInv'
  <2>1. \A u \in Threads : IsReader(u)' = IsReader(u)
    BY DEF TypeInv, CallInv, CopyInv, IsReader, ReadCalls, WriteCalls
  <2> QED
    BY <2>1, CountKept
<1>6. CopyInv'
  BY DEF TypeInv, CallInv, CopyInv, ReadCalls, WriteCalls
<1> QED
  BY <1>1, <1>2, <1>4, <1>5, <1>6 DEF Inv

(* A release looks at rc.                                                  *)
LEMMA ULoadInv == ASSUME Inv, NEW t \in Threads, ULoad(t) PROVE Inv'
<1> USE Words DEF Inv, ULoad, Goto
<1>1. TypeInv'
  BY Words DEF TypeInv, PCs, ReadCalls, WriteCalls
<1>2. CallInv'
  BY Words DEF TypeInv, CallInv, ReadCalls, WriteCalls
<1>3. \A u \in Threads : IsOwner(u)' = IsOwner(u)
  BY DEF TypeInv, CallInv, CopyInv, IsOwner, ReadCalls, WriteCalls
<1>4. OwnerInv'
  BY <1>3 DEF OwnerInv, TypeInv
<1>5. CountInv'
  <2>1. \A u \in Threads : IsReader(u)' = IsReader(u)
    BY DEF TypeInv, CallInv, CopyInv, IsReader, ReadCalls, WriteCalls
  <2> QED
    BY <2>1, CountKept
<1>6. CopyInv'
  BY DEF TypeInv, CallInv, CopyInv, ReadCalls, WriteCalls
<1> QED
  BY <1>1, <1>2, <1>4, <1>5, <1>6 DEF Inv

(* A reader leaves.                                                        *)
LEMMA UCasInv == ASSUME Inv, NEW t \in Threads, UCas(t) PROVE Inv'
<1> USE Words DEF Inv, UCas, Goto
<1>a. /\ t \in Readers /\ rc.count \in Nat /\ rc.count > 0
      /\ rexp[t].count # 0 /\ call[t] = "unlock" /\ holds[t] = "none"
  BY Counted DEF Readers, IsReader, CopyInv, TypeInv, CallInv
<1>b. rc.count = 1 => \A u \in Threads : u # t => ~IsReader(u)
  BY <1>a, Counted DEF Readers
<1>c. CASE rc # rexp[t]
  <2> USE <1>a, <1>c
  <2>1. TypeInv'
    BY DEF TypeInv
  <2>2. CallInv'
    BY DEF TypeInv, CallInv
  <2>3. \A u \in Threads : IsOwner(u)' = IsOwner(u) /\ IsReader(u)' = IsReader(u)
    BY DEF TypeInv, IsOwner, IsReader
  <2>4. OwnerInv' /\ CountInv'
    BY <2>3, CountKept DEF OwnerInv
  <2>5. CopyInv'
    BY DEF TypeInv, CopyInv
  <2> QED
    BY <2>1, <2>2, <2>4, <2>5
<1>d. CASE rc = rexp[t]
  <2>1. rc' \in RcWords /\ rc'.count = rc.count - 1 /\ (rc'.waiters => rc'.count > 0)
    <3>1. CASE rc.count = 1 /\ rc.waiters
      BY <1>a, <1>d, <3>1
    <3>2. CASE ~(rc.count = 1 /\ rc.waiters)
      <4>1. rc' = [rc EXCEPT !.count = @ - 1] /\ rc \in RcWords
        BY <1>a, <1>d, <3>2 DEF TypeInv
      <4>2. rc' \in RcWords /\ rc'.count = rc.count - 1 /\ (rc'.waiters <=> rc.waiters)
        BY <1>a, <4>1, RcUpdates
      <4> QED
        BY <1>a, <3>2, <4>2
    <3> QED
      BY <3>1, <3>2
  <2>2. /\ pc' \in [Threads -> PCs] /\ pc'[t] \in {"rc_wake", "idle"}
        /\ \A u \in Threads : u # t => pc'[u] = pc[u]
    <3>1. CASE rc.count = 1 /\ rc.waiters
      BY <1>a, <1>d, <3>1 DEF TypeInv, PCs
    <3>2. CASE ~(rc.count = 1 /\ rc.waiters)
      BY <1>a, <1>d, <3>2 DEF TypeInv, PCs, Return, WakeAndReturn, Blocking
    <3> QED
      BY <3>1, <3>2
  <2>3. /\ holds' = holds /\ call' \in [Threads -> {"none", "unlock"} \cup ReadCalls \cup WriteCalls]
        /\ \A u \in Threads : u # t => call'[u] = call[u]
        /\ pc'[t] = "rc_wake" => call'[t] = "unlock"
    BY <1>a, <1>d DEF TypeInv, Return, WakeAndReturn, Blocking
  <2>4. /\ mexp' \in [Threads -> MWords] /\ rexp' \in [Threads -> RcWords]
        /\ \A u \in Threads : u # t => rexp'[u] = rexp[u]
        /\ rexp'[t].waiters => rexp'[t].count > 0
        /\ ret' \in [Threads -> {"ok", "EBUSY", "ETIMEDOUT"}]
        /\ ret'[t] = "ok" /\ \A u \in Threads : u # t => ret'[u] = ret[u]
    <3>1. CASE rc.count = 1 /\ rc.waiters
      BY <1>a, <1>d, <3>1 DEF TypeInv, CallInv
    <3>2. CASE ~(rc.count = 1 /\ rc.waiters)
      BY <1>a, <1>d, <3>2 DEF TypeInv, CallInv, Return, WakeAndReturn
    <3> QED
      BY <3>1, <3>2
  <2>5. TypeInv'
    BY <2>1, <2>2, <2>3, <2>4 DEF TypeInv
  <2>6. CallInv'
    <3> SUFFICES ASSUME NEW u \in Threads PROVE CallInv!(u)'
      BY DEF CallInv
    <3>1. CASE u = t
      BY <1>a, <2>2, <2>3, <2>4, <3>1 DEF CallInv
    <3>2. CASE u # t
      BY <2>2, <2>3, <2>4, <3>2 DEF CallInv
    <3> QED
      BY <3>1, <3>2
  <2>7. \A u \in Threads : IsOwner(u)' = IsOwner(u)
    BY <1>a, <1>b, <2>1, <2>2, <2>3 DEF IsOwner, IsReader
  <2>8. OwnerInv'
    BY <2>7 DEF OwnerInv
  <2>9. CountInv'
    <3>1. \A u \in Threads : IsReader(u)' <=> IsReader(u) /\ u # t
      BY <1>a, <1>b, <2>1, <2>2, <2>3 DEF IsReader
    <3>2. Readers' = Readers \ {t}
      BY <3>1 DEF Readers
    <3> QED
      BY <1>a, <2>1, <3>2, Counted DEF CountInv
  <2>10. CopyInv'
    BY <1>a, <2>1, <2>2, <2>3, <2>4 DEF CopyInv
  <2> QED
    BY <2>5, <2>6, <2>8, <2>9, <2>10
<1> QED
  BY <1>c, <1>d

(* The writer that waits for the readers is woken.                         *)
LEMMA RcWakeInv == ASSUME Inv, NEW t \in Threads, RcWake(t) PROVE Inv'
<1> USE Words DEF Inv, RcWake, Return, WakeAndReturn, Blocking, Writing
<1>1. TypeInv'
  BY Words DEF TypeInv, PCs, ReadCalls, WriteCalls
<1>2. CallInv'
  BY Words DEF TypeInv, CallInv, ReadCalls, WriteCalls
<1>3. \A u \in Threads : IsOwner(u)' = IsOwner(u)
  BY DEF TypeInv, CallInv, CopyInv, IsOwner, ReadCalls, WriteCalls
<1>4. OwnerInv'
  BY <1>3 DEF OwnerInv, TypeInv
<1>5. CountInv'
  <2>1. \A u \in Threads : IsReader(u)' = IsReader(u)
    BY DEF TypeInv, CallInv, CopyInv, IsReader, ReadCalls, WriteCalls
  <2> QED
    BY <2>1, CountKept
<1>6. CopyInv'
  BY DEF TypeInv, CallInv, CopyInv, ReadCalls, WriteCalls
<1> QED
  BY <1>1, <1>2, <1>4, <1>5, <1>6 DEF Inv

(* A reader adds itself to rc.                                             *)
LEMMA RcAddInv == ASSUME Inv, NEW t \in Threads, RcAdd(t) PROVE Inv'
<1> USE Words DEF Inv, RcAdd, Goto
<1>a. /\ IsOwner(t) /\ call[t] \in ReadCalls /\ holds[t] = "none" /\ rc.count \in Nat
      /\ rc'.count = rc.count + 1 /\ rc' \in RcWords
  BY RcUpdates DEF IsOwner, CallInv, TypeInv
<1>b. \A u \in Threads : u # t => ~IsOwner(u)
  BY <1>a DEF OwnerInv
<1>1. TypeInv'
  BY <1>a DEF TypeInv, PCs
<1>2. CallInv'
  BY <1>a DEF TypeInv, CallInv, ReadCalls, WriteCalls
<1>3. \A u \in Threads : IsOwner(u)' = IsOwner(u)
  BY <1>a, <1>b DEF TypeInv, IsOwner
<1>4. OwnerInv'
  BY <1>3 DEF OwnerInv
<1>5. CountInv'
  <2>1. \A u \in Threads : IsReader(u)' <=> IsReader(u) \/ u = t
    BY <1>a, <1>b DEF TypeInv, IsReader, IsOwner
  <2>2. ~IsReader(t)
    BY <1>a DEF IsReader
  <2>3. Readers' = Readers \cup {t} /\ t \notin Readers
    BY <2>1, <2>2 DEF Readers
  <2>4. IsFiniteSet(Readers) /\ Cardinality(Readers) = rc.count
    BY Counted DEF CountInv
  <2>5. Cardinality(Readers \cup {t}) = Cardinality(Readers) + 1
    BY <2>3, <2>4, FS_AddElement
  <2> QED
    BY <1>a, <2>3, <2>4, <2>5 DEF CountInv
<1>6. CopyInv'
  BY <1>a, <1>b DEF TypeInv, CopyInv, IsOwner
<1> QED
  BY <1>1, <1>2, <1>4, <1>5, <1>6 DEF Inv

(* A writer copies rc.                                                     *)
LEMMA RcLoadInv == ASSUME Inv, NEW t \in Threads, RcLoad(t) PROVE Inv'
<1> USE Words DEF Inv, RcLoad, Goto, Trying
<1>1. TypeInv'
  BY Words DEF TypeInv, PCs, ReadCalls, WriteCalls
<1>2. CallInv'
  BY Words DEF TypeInv, CallInv, ReadCalls, WriteCalls
<1>3. \A u \in Threads : IsOwner(u)' = IsOwner(u)
  BY DEF TypeInv, CallInv, CopyInv, IsOwner, ReadCalls, WriteCalls
<1>4. OwnerInv'
  BY <1>3 DEF OwnerInv, TypeInv
<1>5. CountInv'
  <2>1. \A u \in Threads : IsReader(u)' = IsReader(u)
    BY DEF TypeInv, CallInv, CopyInv, IsReader, ReadCalls, WriteCalls
  <2> QED
    BY <2>1, CountKept
<1>6. CopyInv'
  BY DEF TypeInv, CallInv, CopyInv, ReadCalls, WriteCalls
<1> QED
  BY <1>1, <1>2, <1>4, <1>5, <1>6 DEF Inv

(* A writer has the lock.                                                  *)
LEMMA RcDoneInv == ASSUME Inv, NEW t \in Threads, RcDone(t) PROVE Inv'
<1> USE Words DEF Inv, RcDone, Return, WakeAndReturn, Blocking, Writing
<1>1. TypeInv'
  BY Words DEF TypeInv, PCs, ReadCalls, WriteCalls
<1>2. CallInv'
  BY Words DEF TypeInv, CallInv, ReadCalls, WriteCalls
<1>3. \A u \in Threads : IsOwner(u)' = IsOwner(u)
  BY DEF TypeInv, CallInv, CopyInv, IsOwner, ReadCalls, WriteCalls
<1>4. OwnerInv'
  BY <1>3 DEF OwnerInv, TypeInv
<1>5. CountInv'
  <2>1. \A u \in Threads : IsReader(u)' = IsReader(u)
    BY DEF TypeInv, CallInv, CopyInv, IsReader, ReadCalls, WriteCalls
  <2> QED
    BY <2>1, CountKept
<1>6. CopyInv'
  BY DEF TypeInv, CallInv, CopyInv, ReadCalls, WriteCalls
<1> QED
  BY <1>1, <1>2, <1>4, <1>5, <1>6 DEF Inv

(* A writer publishes that it waits.                                       *)
LEMMA RcSetWaitersInv == ASSUME Inv, NEW t \in Threads, RcSetWaiters(t) PROVE Inv'
<1> USE Words DEF Inv, RcSetWaiters, Goto
<1>a. rexp[t] \in RcWords /\ rexp[t].count # 0 /\ call[t] \in WriteCalls /\ holds[t] = "none"
  BY DEF TypeInv, CallInv
<1>b. rc' \in RcWords /\ rc'.count = rc.count /\ (rc'.waiters => rc'.count > 0)
  <2>1. CASE rc' = rc
    BY <2>1 DEF TypeInv
  <2>2. CASE rc = rexp[t] /\ rc' = [rc EXCEPT !.waiters = TRUE]
    <3>1. rc \in RcWords /\ rc.count > 0
      BY <1>a, <2>2
    <3>2. rc' \in RcWords /\ rc'.count = rc.count
      BY <2>2, <3>1, RcUpdates
    <3> QED
      BY <3>1, <3>2
  <2> QED
    BY <1>a, <2>1, <2>2
<1>1. TypeInv'
  <2>1. rexp' \in [Threads -> RcWords] /\ \A u \in Threads : rexp'[u].waiters => rexp'[u].count > 0
    BY <1>a, <1>b DEF TypeInv
  <2> QED
    BY <1>a, <1>b, <2>1 DEF TypeInv, PCs
<1>2. CallInv'
  BY <1>a DEF TypeInv, CallInv, ReadCalls, WriteCalls
<1>3. \A u \in Threads : IsOwner(u)' = IsOwner(u)
  BY <1>a, <1>b DEF TypeInv, IsOwner
<1>4. OwnerInv'
  BY <1>3 DEF OwnerInv
<1>5. CountInv'
  <2>1. \A u \in Threads : IsReader(u)' = IsReader(u)
    BY <1>a, <1>b DEF TypeInv, IsReader
  <2> QED
    BY <1>b, <2>1, CountKept
<1>6. CopyInv'
  BY <1>a, <1>b DEF TypeInv, CopyInv
<1> QED
  BY <1>1, <1>2, <1>4, <1>5, <1>6 DEF Inv

(* FutexWait on rc.                                                        *)
LEMMA RcWaitInv == ASSUME Inv, NEW t \in Threads, RcWait(t) PROVE Inv'
<1> USE Words DEF Inv, RcWait, Goto
<1>1. TypeInv'
  BY Words DEF TypeInv, PCs, ReadCalls, WriteCalls
<1>2. CallInv'
  BY Words DEF TypeInv, CallInv, ReadCalls, WriteCalls
<1>3. \A u \in Threads : IsOwner(u)' = IsOwner(u)
  BY DEF TypeInv, CallInv, CopyInv, IsOwner, ReadCalls, WriteCalls
<1>4. OwnerInv'
  BY <1>3 DEF OwnerInv, TypeInv
<1>5. CountInv'
  <2>1. \A u \in Threads : IsReader(u)' = IsReader(u)
    BY DEF TypeInv, CallInv, CopyInv, IsReader, ReadCalls, WriteCalls
  <2> QED
    BY <2>1, CountKept
<1>6. CopyInv'
  BY DEF TypeInv, CallInv, CopyInv, ReadCalls, WriteCalls
<1> QED
  BY <1>1, <1>2, <1>4, <1>5, <1>6 DEF Inv

(* A wait on rc ends early.                                                *)
LEMMA RcInterruptedInv == ASSUME Inv, NEW t \in Threads, RcInterrupted(t) PROVE Inv'
<1> USE Words DEF Inv, RcInterrupted, Goto
<1>1. TypeInv'
  BY Words DEF TypeInv, PCs, ReadCalls, WriteCalls
<1>2. CallInv'
  BY Words DEF TypeInv, CallInv, ReadCalls, WriteCalls
<1>3. \A u \in Threads : IsOwner(u)' = IsOwner(u)
  BY DEF TypeInv, CallInv, CopyInv, IsOwner, ReadCalls, WriteCalls
<1>4. OwnerInv'
  BY <1>3 DEF OwnerInv, TypeInv
<1>5. CountInv'
  <2>1. \A u \in Threads : IsReader(u)' = IsReader(u)
    BY DEF TypeInv, CallInv, CopyInv, IsReader, ReadCalls, WriteCalls
  <2> QED
    BY <2>1, CountKept
<1>6. CopyInv'
  BY DEF TypeInv, CallInv, CopyInv, ReadCalls, WriteCalls
<1> QED
  BY <1>1, <1>2, <1>4, <1>5, <1>6 DEF Inv

(* The deadline passes during a wait on rc.                                *)
LEMMA RcTimeoutInv == ASSUME Inv, NEW t \in Threads, RcTimeout(t) PROVE Inv'
<1> USE Words DEF Inv, RcTimeout, Goto, Timed
<1>1. TypeInv'
  BY Words DEF TypeInv, PCs, ReadCalls, WriteCalls
<1>2. CallInv'
  BY Words DEF TypeInv, CallInv, ReadCalls, WriteCalls
<1>3. \A u \in Threads : IsOwner(u)' = IsOwner(u)
  BY DEF TypeInv, CallInv, CopyInv, IsOwner, ReadCalls, WriteCalls
<1>4. OwnerInv'
  BY <1>3 DEF OwnerInv, TypeInv
<1>5. CountInv'
  <2>1. \A u \in Threads : IsReader(u)' = IsReader(u)
    BY DEF TypeInv, CallInv, CopyInv, IsReader, ReadCalls, WriteCalls
  <2> QED
    BY <2>1, CountKept
<1>6. CopyInv'
  BY DEF TypeInv, CallInv, CopyInv, ReadCalls, WriteCalls
<1> QED
  BY <1>1, <1>2, <1>4, <1>5, <1>6 DEF Inv

(* pthread_rwlock_destroy.                                                 *)
LEMMA DestroyInv == ASSUME Inv, NEW t \in Threads, Destroy(t) PROVE Inv'
<1> USE Words DEF Inv, Destroy, Goto, Unused
<1>a. m = Free /\ rc = NoReaders
  <2>1. \A u \in Threads : ~IsOwner(u) /\ ~IsReader(u)
    BY DEF IsOwner, IsReader
  <2>2. Readers = {}
    BY <2>1 DEF Readers
  <2>3. rc.count = 0
    BY <2>2, FS_EmptySet DEF CountInv
  <2> QED
    BY <2>1, <2>3 DEF OwnerInv, TypeInv
<1>1. pc' = pc
  BY <1>a DEF TypeInv
<1>2. TypeInv'
  BY <1>1 DEF TypeInv
<1>5. CallInv'
  BY <1>1 DEF CallInv
<1>6. CopyInv'
  BY <1>1 DEF CopyInv
<1>3. \A u \in Threads : IsOwner(u)' = IsOwner(u) /\ IsReader(u)' = IsReader(u)
  BY <1>1 DEF IsOwner, IsReader
<1>4. OwnerInv' /\ CountInv'
  BY <1>3, CountKept DEF OwnerInv
<1> QED
  BY <1>2, <1>4, <1>5, <1>6

(* A new pthread_rwlock_init: nobody uses the lock.                        *)
LEMMA ReinitInv == ASSUME Inv, Reinit PROVE Inv'
<1> USE Words DEF Inv, Reinit
<1>1. \A u \in Threads : pc[u] = "idle" /\ holds[u] = "none"
  BY DEF CallInv
<1>2. TypeInv'
  BY DEF TypeInv
<1>3. CallInv'
  BY DEF CallInv
<1>4. \A u \in Threads : ~IsOwner(u)' /\ ~IsReader(u)'
  BY <1>1 DEF IsOwner, IsReader
<1>5. OwnerInv'
  BY <1>4 DEF OwnerInv
<1>6. CountInv'
  <2>1. Readers' = {}
    BY <1>4 DEF Readers
  <2> QED
    BY <2>1, FS_EmptySet DEF CountInv
<1>7. CopyInv'
  BY <1>1 DEF CopyInv
<1> QED
  BY <1>2, <1>3, <1>5, <1>6, <1>7

(* Every step keeps the invariant.                                         *)
LEMMA NextInv == Inv /\ [Next]_vars => Inv'
<1> SUFFICES ASSUME Inv, [Next]_vars PROVE Inv'
  OBVIOUS
<1>1. CASE UNCHANGED vars
  <2>1. TypeInv' /\ CallInv' /\ CopyInv'
    BY <1>1 DEF Inv, vars, TypeInv, CallInv, CopyInv
  <2>2. \A u \in Threads : IsOwner(u)' = IsOwner(u) /\ IsReader(u)' = IsReader(u)
    BY <1>1 DEF vars, IsOwner, IsReader
  <2>3. OwnerInv' /\ CountInv'
    BY <1>1, <2>2, CountKept DEF Inv, vars, OwnerInv
  <2> QED
    BY <2>1, <2>3 DEF Inv
<1>2. CASE Reinit
  BY <1>2, ReinitInv
<1>3. ASSUME NEW t \in Threads,
             \/ Step(t) \/ Lock(t) \/ Destroy(t)
             \/ MInterrupted(t) \/ MTimeout(t) \/ RcInterrupted(t) \/ RcTimeout(t)
      PROVE  Inv'
  BY <1>3, LockInv, UnlockInv, TryLoadInv, TryCasInv, MLoadInv, MTakeInv, MSetWaitersInv, MWaitInv, MInterruptedInv,
     MTimeoutInv, MUnlockInv, MWakeInv, ULoadInv, UCasInv, RcWakeInv, RcAddInv, RcLoadInv, RcDoneInv,
     RcSetWaitersInv, RcWaitInv, RcInterruptedInv, RcTimeoutInv, DestroyInv
  DEF Step
<1> QED
  BY <1>1, <1>2, <1>3 DEF Next

(* Inv is an invariant of the lock.                                        *)
THEOREM Invariance == Spec => []Inv
  BY InitInv, NextInv, PTL DEF Spec

(* Who has the lock for writing is alone, in every interleaving of the     *)
(* nine entry points with timeouts and interruptions.                      *)
THEOREM ExclusionHolds == Spec => []Exclusion
<1>1. Inv => Exclusion
  <2> SUFFICES ASSUME Inv, NEW t \in Threads, NEW u \in Threads, holds[t] = "write", u # t
               PROVE  holds[u] = "none"
    BY DEF Exclusion
  <2>1. rc.count = 0 /\ IsOwner(t)
    BY DEF Inv, CopyInv, IsOwner
  <2>2. holds[u] # "read"
    BY <2>1, Counted DEF Readers, IsReader
  <2>3. holds[u] # "write"
    BY <2>1 DEF Inv, OwnerInv, IsOwner
  <2> QED
    BY <2>2, <2>3 DEF Inv, TypeInv
<1> QED
  BY <1>1, Invariance, PTL

(* No assertion of the lock fails, pthread_rwlock_destroy included.        *)
THEOREM NoPanicHolds == Spec => []NoPanic
<1>1. Inv => NoPanic
  BY DEF Inv, CallInv, NoPanic
<1> QED
  BY <1>1, Invariance, PTL

(* Only the owner of m adds itself to rc, and a writer that waits for the  *)
(* readers is the owner.                                                   *)
LEMMA WriterStep ==
  ASSUME Inv, [Next]_vars, NEW t \in Threads, pc[t] \in {"rc_load", "rc_loop", "rc_wait", "rc_sleep"}
  PROVE  rc'.count <= rc.count
<1>1. rc \in RcWords /\ rc.count \in Nat
  BY Words DEF Inv, TypeInv
<1>2. CASE rc' = rc
  BY <1>1, <1>2
<1>3. ASSUME NEW u \in Threads, RcAdd(u) PROVE FALSE
  BY <1>3 DEF RcAdd, Inv, OwnerInv, IsOwner
<1>4. ASSUME NEW u \in Threads, UCas(u) PROVE rc'.count <= rc.count
  <2>1. CASE rc' = NoReaders
    BY <1>1, <2>1, Words
  <2>2. CASE rc' = [rc EXCEPT !.count = @ - 1]
    BY <1>1, <2>2, RcUpdates
  <2> QED
    BY <1>2, <1>4, <2>1, <2>2 DEF UCas
<1>5. ASSUME NEW u \in Threads, RcSetWaiters(u) PROVE rc'.count <= rc.count
  <2>1. CASE rc' = [rc EXCEPT !.waiters = TRUE]
    BY <1>1, <2>1, RcUpdates
  <2> QED
    BY <1>2, <1>5, <2>1 DEF RcSetWaiters
<1>6. CASE Reinit
  BY <1>6 DEF Reinit, Inv, CallInv
<1> QED
  BY <1>2, <1>3, <1>4, <1>5, <1>6
  DEF Next, Step, vars, Lock, Unlock, TryLoad, TryCas, MLoad, MTake, MSetWaiters, MWait, MInterrupted,
      MTimeout, MUnlock, MWake, ULoad, RcWake, RcLoad, RcDone, RcWait, RcInterrupted, RcTimeout, Destroy

(* A writer that waits for the readers to leave sees no new ones.          *)
THEOREM WriterNotOvertakenHolds == Spec => WriterNotOvertaken
<1>1. Inv /\ [Next]_vars =>
        [\A t \in Threads :
            pc[t] \in {"rc_load", "rc_loop", "rc_wait", "rc_sleep"} => rc'.count <= rc.count]_vars
  BY WriterStep
<1> QED
  BY <1>1, Invariance, PTL DEF Spec, WriterNotOvertaken
=============================================================================
