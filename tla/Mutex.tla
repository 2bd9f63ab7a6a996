-------------------------------- MODULE Mutex --------------------------------
(***************************************************************************)
(* The pthread / C11 mutex of options/internal/generic/threads.cpp         *)
(* (thread_mutex_...), which pthread.cpp and ansi/generic/threads.cpp wrap. *)
(* One action per access to the mutex's fields.  The clients follow the    *)
(* reference-count idiom: the last user to leave destroys the mutex and    *)
(* its memory becomes a new mutex, while an earlier user may still be      *)
(* about to call FutexWake.                                                *)
(***************************************************************************)
EXTENDS Naturals, FiniteSets

CONSTANTS
    Threads,
    ParentTid,   \* the tid a fork child's surviving thread had in the parent
    NoThread,    \* the zero word's owner field
    Kinds,       \* the mutex types, out of "normal", "errorcheck" and "recursive"
    MaxDepth     \* bound on nested locks of one thread

ASSUME MutexAssumption ==
    /\ NoThread \notin Threads \cup {ParentTid}
    /\ ParentTid \notin Threads
    /\ Kinds \subseteq {"normal", "errorcheck", "recursive"}
    /\ MaxDepth \in Nat \ {0}

VARIABLES
    kind,        \* __mlibc_flags, set by thread_mutex_init
    state,       \* __mlibc_state: owner and mutex_waiters_bit
    recursion,   \* __mlibc_recursion
    pc,          \* pc[t]: where t is in a mutex function
    expected,    \* expected[t]: the local of thread_mutex_timedlock
    timed,       \* timed[t]: abstime is "none", a "valid" time, or one the clock refuses ("bad")
    held,        \* held[t]: locks t has taken and not released (the caller's view)
    users,       \* threads that still hold a reference to the mutex
    last,        \* the thread that gave up the last reference
    destroyed    \* thread_mutex_destroy has succeeded and the memory is not reused yet

vars == <<kind, state, recursion, pc, expected, timed, held, users, last, destroyed>>

-----------------------------------------------------------------------------
Word == [owner : Threads \cup {ParentTid, NoThread}, waiters : BOOLEAN]
Unlocked == [owner |-> NoThread, waiters |-> FALSE]
WithWaiters(w) == [owner |-> w.owner, waiters |-> TRUE]
PCs == {"dead", "idle", "lock", "lock_rec", "sleep", "try_cas",
        "unlock_rec", "unlock_xchg", "unlock_wake", "panic"}
Times == {"none", "valid", "bad"}

Goto(t, l) == pc' = [pc EXCEPT ![t] = l]

Locals == <<expected, timed>>

(* Return the error code r, which no field of the mutex records; the       *)
(* locals of the call are dead.                                            *)
Return(t, r) ==
    /\ Goto(t, "idle")
    /\ expected' = [expected EXCEPT ![t] = Unlocked]
    /\ timed' = [timed EXCEPT ![t] = "none"]

Continue(t, l) == Goto(t, l) /\ UNCHANGED Locals

Acquired(t) == held' = [held EXCEPT ![t] = @ + 1]

(* t may touch the mutex: it has a reference to it.                        *)
MayCall(t) == pc[t] = "idle" /\ t \in users /\ ~destroyed

(* thread_mutex_init                                                       *)
Init ==
    /\ kind \in Kinds
    /\ state = Unlocked
    /\ recursion = 0
    /\ pc = [t \in Threads |-> "idle"]
    /\ expected = [t \in Threads |-> Unlocked]
    /\ timed = [t \in Threads |-> "none"]
    /\ held = [t \in Threads |-> 0]
    /\ users = Threads
    /\ last = NoThread
    /\ destroyed = FALSE

-----------------------------------------------------------------------------
(* thread_mutex_timedlock; thread_mutex_lock is the case without abstime.  *)

(* A fork child that inherited the mutex does not lock it again.           *)
LockEnter(t) ==
    /\ MayCall(t)
    /\ held[t] < MaxDepth /\ (held[t] > 0 => state.owner = t)
    /\ \E a \in Times : timed' = [timed EXCEPT ![t] = a]
    /\ expected' = [expected EXCEPT ![t] = Unlocked]
    /\ Goto(t, "lock")
    /\ UNCHANGED <<kind, state, recursion, held, users, last, destroyed>>

(* The word is taken with the waiters bit already set.                     *)
LockCas(t) ==
    /\ pc[t] = "lock"
    /\ expected[t] = Unlocked
    /\ IF state = Unlocked
       THEN /\ state' = [owner |-> t, waiters |-> TRUE]
            /\ Continue(t, "lock_rec")
       ELSE /\ expected' = [expected EXCEPT ![t] = state]
            /\ UNCHANGED <<state, pc, timed>>
    /\ UNCHANGED <<kind, recursion, held, users, last, destroyed>>

(* __ensure(!recursion); recursion = 1; return 0, in lock and in trylock.  *)
LockFirst(t) ==
    /\ pc[t] = "lock_rec"
    /\ IF recursion = 0
       THEN recursion' = 1 /\ Return(t, "0") /\ Acquired(t)
       ELSE Continue(t, "panic") /\ UNCHANGED <<recursion, held>>
    /\ UNCHANGED <<kind, state, users, last, destroyed>>

LockOwned(t) ==
    /\ pc[t] = "lock"
    /\ expected[t].owner = t
    /\ IF kind = "recursive"
       THEN recursion' = recursion + 1 /\ Return(t, "0") /\ Acquired(t)
       ELSE Return(t, "EDEADLK") /\ UNCHANGED <<recursion, held>>
    /\ UNCHANGED <<kind, state, users, last, destroyed>>

LockSetWaiters(t) ==
    /\ pc[t] = "lock"
    /\ expected[t] # Unlocked /\ expected[t].owner # t
    /\ ~expected[t].waiters
    /\ IF state = expected[t]
       THEN /\ state' = WithWaiters(expected[t])
            /\ expected' = [expected EXCEPT ![t] = WithWaiters(expected[t])]
       ELSE expected' = [expected EXCEPT ![t] = state] /\ UNCHANGED state
    /\ UNCHANGED <<kind, recursion, pc, timed, held, users, last, destroyed>>

(* The absolute time does not convert (EINVAL), has passed (ETIMEDOUT), or *)
(* the thread waits: compare and enqueue, or EAGAIN and start over.        *)
LockFutexWait(t) ==
    /\ pc[t] = "lock"
    /\ expected[t] # Unlocked /\ expected[t].owner # t
    /\ expected[t].waiters
    /\ \/ timed[t] = "bad" /\ Return(t, "EINVAL")
       \/ timed[t] = "valid" /\ Return(t, "ETIMEDOUT")
       \/ timed[t] # "bad" /\ state = expected[t] /\ Continue(t, "sleep")
       \/ /\ timed[t] # "bad" /\ state # expected[t]
          /\ expected' = [expected EXCEPT ![t] = Unlocked]
          /\ UNCHANGED <<pc, timed>>
    /\ UNCHANGED <<kind, state, recursion, held, users, last, destroyed>>

LockInterrupted(t) ==
    /\ pc[t] = "sleep"
    /\ expected' = [expected EXCEPT ![t] = Unlocked]
    /\ Goto(t, "lock")
    /\ UNCHANGED <<kind, state, recursion, timed, held, users, last, destroyed>>

LockTimeout(t) ==
    /\ pc[t] = "sleep"
    /\ timed[t] = "valid"
    /\ Return(t, "ETIMEDOUT")
    /\ UNCHANGED <<kind, state, recursion, held, users, last, destroyed>>

-----------------------------------------------------------------------------
(* thread_mutex_trylock                                                    *)

TryLoad(t) ==
    /\ MayCall(t)
    /\ \/ state = Unlocked /\ Continue(t, "try_cas") /\ UNCHANGED <<recursion, held>>
       \/ /\ state.owner = t /\ kind = "recursive" /\ held[t] < MaxDepth
          /\ recursion' = recursion + 1
          /\ Return(t, "0")
          /\ Acquired(t)
       \/ /\ state # Unlocked /\ ~(state.owner = t /\ kind = "recursive")
          /\ Return(t, "EBUSY")
          /\ UNCHANGED <<recursion, held>>
    /\ UNCHANGED <<kind, state, users, last, destroyed>>

(* Mutant: a store, trusting the earlier load, where the code compares.    *)
TryCasStore(t) ==
    /\ pc[t] = "try_cas"
    /\ state' = [owner |-> t, waiters |-> FALSE]
    /\ Goto(t, "lock_rec")
    /\ UNCHANGED <<kind, recursion, expected, timed, held, users, last, destroyed>>

TryCas(t) ==
    /\ pc[t] = "try_cas"
    /\ IF state = Unlocked
       THEN state' = [owner |-> t, waiters |-> FALSE] /\ Continue(t, "lock_rec")
       ELSE Return(t, "EBUSY") /\ UNCHANGED state
    /\ UNCHANGED <<kind, recursion, held, users, last, destroyed>>

-----------------------------------------------------------------------------
(* thread_mutex_unlock.  A normal mutex is unlocked by its holder only; an *)
(* unlock by anyone else is refused on the other kinds.  The last unlock of *)
(* a thread may give up its reference.                                     *)

GiveUp(t) ==
    \/ UNCHANGED <<users, last>>
    \/ /\ held[t] = 1
       /\ users' = users \ {t}
       /\ last' = IF users = {t} THEN t ELSE last

UnlockEnter(t) ==
    /\ MayCall(t)
    /\ \/ /\ IF kind = "normal" THEN held[t] > 0 ELSE state.owner = t
          /\ Continue(t, "unlock_rec")
          /\ GiveUp(t)
       \/ /\ kind # "normal" /\ state.owner # t
          /\ Return(t, "EPERM")
          /\ UNCHANGED <<users, last>>
    /\ UNCHANGED <<kind, state, recursion, held, destroyed>>

(* Mutant: the recursion level is left for the next owner to find.         *)
UnlockRecursionKept(t) ==
    /\ pc[t] = "unlock_rec"
    /\ Goto(t, "unlock_xchg")
    /\ UNCHANGED <<kind, state, recursion, expected, timed, held, users, last, destroyed>>

UnlockRecursion(t) ==
    /\ pc[t] = "unlock_rec"
    /\ \/ /\ kind # "recursive" \/ recursion = 1
          /\ recursion' = 0
          /\ Continue(t, "unlock_xchg")
          /\ UNCHANGED held
       \/ /\ kind = "recursive" /\ recursion = 0
          /\ Continue(t, "panic")
          /\ UNCHANGED <<recursion, held>>
       \/ /\ kind = "recursive" /\ recursion > 1
          /\ recursion' = recursion - 1
          /\ held' = [held EXCEPT ![t] = @ - 1]
          /\ Return(t, "0")
    /\ UNCHANGED <<kind, state, users, last, destroyed>>

(* Mutant: free the word and return without waking anyone.                 *)
UnlockExchangeNoWake(t) ==
    /\ pc[t] = "unlock_xchg"
    /\ state' = Unlocked
    /\ held' = [held EXCEPT ![t] = @ - 1]
    /\ Return(t, "0")
    /\ UNCHANGED <<kind, recursion, users, last, destroyed>>

(* Mutant: free the word, then read it again to see whether to wake.       *)
UnlockExchangeReload(t) ==
    /\ pc[t] = "unlock_xchg"
    /\ IF held[t] = 1
       THEN state' = Unlocked /\ held' = [held EXCEPT ![t] = 0] /\ UNCHANGED <<pc, Locals>>
       ELSE /\ IF state.waiters THEN Continue(t, "unlock_wake") ELSE Return(t, "0")
            /\ UNCHANGED <<state, held>>
    /\ UNCHANGED <<kind, recursion, users, last, destroyed>>

UnlockExchange(t) ==
    /\ pc[t] = "unlock_xchg"
    /\ state' = Unlocked
    /\ held' = [held EXCEPT ![t] = @ - 1]
    /\ IF state.waiters THEN Continue(t, "unlock_wake") ELSE Return(t, "0")
    /\ UNCHANGED <<kind, recursion, users, last, destroyed>>

(* FutexWake(&state, true).  The address may belong to a new mutex by now, *)
(* whose sleepers then wake spuriously.                                    *)
UnlockWake(t) ==
    /\ pc[t] = "unlock_wake"
    /\ pc' = [u \in Threads |-> IF u = t THEN "idle"
                                ELSE IF pc[u] = "sleep" THEN "lock" ELSE pc[u]]
    /\ expected' = [u \in Threads |-> IF pc[u] = "sleep" THEN Unlocked ELSE expected[u]]
    /\ UNCHANGED <<kind, state, recursion, timed, held, users, last, destroyed>>

-----------------------------------------------------------------------------
(* thread_mutex_destroy by the thread that gave up the last reference; a   *)
(* word that is not zero is EBUSY and changes nothing.                     *)
Destroy(t) ==
    /\ pc[t] = "idle" /\ last = t /\ ~destroyed
    /\ destroyed' = (state = Unlocked)
    /\ UNCHANGED <<kind, state, recursion, pc, expected, timed, held, users, last>>

(* thread_mutex_init of a new mutex at the same address.                   *)
Reinit ==
    /\ destroyed
    /\ state' = Unlocked
    /\ recursion' = 0
    /\ users' = {t \in Threads : pc[t] # "dead"}
    /\ last' = NoThread
    /\ destroyed' = FALSE
    /\ kind' \in Kinds
    /\ UNCHANGED <<pc, expected, timed, held>>

(* The child of a fork by the holder (the pthread_atfork idiom: prepare    *)
(* locks, the child handler unlocks), followed from here on.               *)
Fork(t) ==
    /\ kind = "normal"
    /\ MayCall(t) /\ held[t] = 1
    /\ state' = [state EXCEPT !.owner = ParentTid]
    /\ pc' = [u \in Threads |-> IF u = t THEN "idle" ELSE "dead"]
    /\ expected' = [u \in Threads |-> Unlocked]
    /\ users' = {t}
    /\ UNCHANGED <<kind, recursion, timed, held, last, destroyed>>

Spawn(t) ==
    /\ pc[t] = "dead"
    /\ users # {} /\ ~destroyed
    /\ users' = users \cup {t}
    /\ Goto(t, "idle")
    /\ UNCHANGED <<kind, state, recursion, expected, timed, held, last, destroyed>>

-----------------------------------------------------------------------------
Step(t) ==
    \/ LockCas(t) \/ LockFirst(t) \/ LockOwned(t) \/ LockSetWaiters(t) \/ LockFutexWait(t)
    \/ TryCas(t)
    \/ UnlockRecursion(t) \/ UnlockExchange(t) \/ UnlockWake(t)

Next ==
    \/ \E t \in Threads :
          \/ Step(t) \/ LockEnter(t) \/ TryLoad(t) \/ UnlockEnter(t)
          \/ LockInterrupted(t) \/ LockTimeout(t)
          \/ Destroy(t) \/ Fork(t) \/ Spawn(t)
    \/ Reinit

Spec == Init /\ [][Next]_vars

-----------------------------------------------------------------------------
(* Correctness.                                                            *)

(* The values the variables take.                                          *)
TypeOK ==
    /\ kind \in Kinds
    /\ state \in Word
    /\ recursion \in Nat
    /\ pc \in [Threads -> PCs]
    /\ expected \in [Threads -> Word]
    /\ timed \in [Threads -> Times]
    /\ held \in [Threads -> Nat]
    /\ users \in SUBSET Threads
    /\ last \in Threads \cup {NoThread}
    /\ destroyed \in BOOLEAN

Owns(t) == held[t] > 0 \/ pc[t] = "lock_rec"

(* The __ensure checks of lock, trylock and unlock on the recursion level  *)
(* hold for every legal use.                                               *)
NoPanic == \A t \in Threads : pc[t] # "panic"

(* "After this point the mutex is unlocked, and therefore we cannot access *)
(* its contents": once the last user has destroyed the mutex, nobody is    *)
(* left who will read or write it; only a FutexWake may be outstanding.    *)
DestroyedUntouched ==
    destroyed => \A t \in Threads : pc[t] \in {"idle", "unlock_wake", "dead"}

(* Refinement: the mutex is an abstract lock of its threads.               *)
Holder == IF \E t \in Threads : Owns(t) THEN CHOOSE t \in Threads : Owns(t) ELSE NoThread
Depth == IF Holder = NoThread THEN 0
         ELSE held[Holder] + (IF pc[Holder] = "lock_rec" THEN 1 ELSE 0)
Abstract == INSTANCE AbstractLock
                WITH holder <- Holder, depth <- Depth, recursive <- (kind = "recursive")

(* Every execution of the mutex is one of the abstract lock.               *)
ImplementsLock == Abstract!ASpec

-----------------------------------------------------------------------------
(* Liveness: calls run, holders unlock.  Nothing is assumed of timeouts,   *)
(* signals, trylock, destroy or fork.                                      *)

LastUnlock(t) == held[t] = 1 /\ UnlockEnter(t)

Fairness ==
    \A t \in Threads :
        WF_vars(Step(t)) /\ SF_vars(UnlockEnter(t)) /\ SF_vars(LastUnlock(t))

FairSpec == Spec /\ Fairness

(* A thread asleep in lock wakes up, if holders unlock.                    *)
SleeperWoken == \A t \in Threads : pc[t] = "sleep" ~> pc[t] # "sleep"
=============================================================================
