------------------------------ MODULE FutexLock ------------------------------
(***************************************************************************)
(* FutexLockImpl<Recursive> of options/internal/include/mlibc/lock.hpp:    *)
(* the lock mlibc uses for its own state (the loader, the TLS map, stdio,  *)
(* the heap, thread keys).  One action per atomic access to _state, so     *)
(* that every interleaving of lock(), try_lock(), unlock() and of the fork *)
(* hooks is a behaviour.  The kernel's futex queue is external: the        *)
(* sleepers are the threads whose pc is "sleep".                           *)
(***************************************************************************)
EXTENDS Naturals, FiniteSets

CONSTANTS
    Threads,      \* thread slots of the process
    Tids,         \* thread ids the kernel hands out
    NoTid,        \* the zero word's owner field
    Recursive,    \* the template parameter
    Rebind,       \* TRUE: the fork child calls rebind_after_fork (loaderLock);
                  \* FALSE: reset_after_fork (runtimeTlsMapLock)
    NoThread,     \* no thread holds the lock (refinement mapping)
    MaxDepth      \* bound on nested lock() calls of one thread

ASSUME ConstantsAssumption ==
    /\ NoTid \notin Tids
    /\ NoThread \notin Threads
    /\ Recursive \in BOOLEAN
    /\ Rebind \in BOOLEAN
    /\ MaxDepth \in Nat \ {0}

VARIABLES
    state,        \* _state: the owner's tid and the waiters bit
    recursion,    \* _recursion
    tid,          \* tid[t]: mlibc::this_tid() of thread t
    pc,           \* pc[t]: where t is in lock(), try_lock() or unlock()
    expected,     \* expected[t]: the local of lock()
    held          \* held[t]: lock acquisitions t has not yet released (the caller's view)

vars == <<state, recursion, tid, pc, expected, held>>

-----------------------------------------------------------------------------
(* The lock word.                                                          *)

Word == [owner : Tids \cup {NoTid}, waiters : BOOLEAN]

Unlocked == [owner |-> NoTid, waiters |-> FALSE]

OwnedBy(i) == [owner |-> i, waiters |-> FALSE]

WithWaiters(w) == [owner |-> w.owner, waiters |-> TRUE]

PCs == {"dead", "idle", "lock", "lock_rec", "sleep", "try_cas", "try_rec",
        "unlock_xchg", "unlock_wake", "panic"}

Goto(t, l) == pc' = [pc EXCEPT ![t] = l]

Alive(t) == pc[t] # "dead"

(* Return from a successful lock() or try_lock().                          *)
Acquired(t) == held' = [held EXCEPT ![t] = @ + 1]

Init ==
    /\ state = Unlocked
    /\ recursion = 0
    /\ tid \in [Threads -> Tids]
    /\ \A t, u \in Threads : t # u => tid[t] # tid[u]
    /\ pc = [t \in Threads |-> "idle"]
    /\ expected = [t \in Threads |-> Unlocked]
    /\ held = [t \in Threads |-> 0]

-----------------------------------------------------------------------------
(* lock()                                                                  *)

(* A thread that holds the lock calls lock() again only on a recursive one. *)
LockEnter(t) ==
    /\ pc[t] = "idle"
    /\ held[t] = 0 \/ (Recursive /\ held[t] < MaxDepth)
    /\ expected' = [expected EXCEPT ![t] = Unlocked]
    /\ Goto(t, "lock")
    /\ UNCHANGED <<state, recursion, tid, held>>

LockCas(t) ==
    /\ pc[t] = "lock"
    /\ expected[t] = Unlocked
    /\ IF state = Unlocked
       THEN /\ state' = OwnedBy(tid[t])
            /\ IF Recursive
               THEN Goto(t, "lock_rec") /\ UNCHANGED held
               ELSE Goto(t, "idle") /\ Acquired(t)
            /\ UNCHANGED expected
       ELSE /\ expected' = [expected EXCEPT ![t] = state]
            /\ UNCHANGED <<state, pc, held>>
    /\ UNCHANGED <<recursion, tid>>

(* __ensure(!_recursion); _recursion = 1; return                           *)
LockFirst(t) ==
    /\ pc[t] = "lock_rec"
    /\ IF recursion = 0
       THEN recursion' = 1 /\ Goto(t, "idle") /\ Acquired(t)
       ELSE Goto(t, "panic") /\ UNCHANGED <<recursion, held>>
    /\ UNCHANGED <<state, tid, expected>>

LockOwned(t) ==
    /\ pc[t] = "lock"
    /\ expected[t].owner = tid[t]
    /\ IF Recursive
       THEN recursion' = recursion + 1 /\ Goto(t, "idle") /\ Acquired(t)
       ELSE Goto(t, "panic") /\ UNCHANGED <<recursion, held>>
    /\ UNCHANGED <<state, tid, expected>>

LockSetWaiters(t) ==
    /\ pc[t] = "lock"
    /\ expected[t] # Unlocked /\ expected[t].owner # tid[t]
    /\ ~expected[t].waiters
    /\ IF state = expected[t]
       THEN /\ state' = WithWaiters(expected[t])
            /\ expected' = [expected EXCEPT ![t] = WithWaiters(expected[t])]
       ELSE expected' = [expected EXCEPT ![t] = state] /\ UNCHANGED state
    /\ UNCHANGED <<recursion, tid, pc, held>>

(* FutexWait compares and enqueues in one step; a changed word is EAGAIN,  *)
(* after which the code starts over with expected = 0.                     *)
LockFutexWait(t) ==
    /\ pc[t] = "lock"
    /\ expected[t] # Unlocked /\ expected[t].owner # tid[t]
    /\ expected[t].waiters
    /\ IF state = expected[t]
       THEN Goto(t, "sleep") /\ UNCHANGED expected
       ELSE expected' = [expected EXCEPT ![t] = Unlocked] /\ UNCHANGED pc
    /\ UNCHANGED <<state, recursion, tid, held>>

(* EINTR, or a return of 0 with nobody having called FutexWake.            *)
LockInterrupted(t) ==
    /\ pc[t] = "sleep"
    /\ expected' = [expected EXCEPT ![t] = Unlocked]
    /\ Goto(t, "lock")
    /\ UNCHANGED <<state, recursion, tid, held>>

-----------------------------------------------------------------------------
(* try_lock()                                                              *)

TryLoad(t) ==
    /\ pc[t] = "idle"
    /\ \/ state = Unlocked /\ Goto(t, "try_cas") /\ UNCHANGED <<recursion, held>>
       \/ /\ state.owner = tid[t] /\ Recursive /\ held[t] < MaxDepth
          /\ IF recursion # 0
             THEN recursion' = recursion + 1 /\ Acquired(t) /\ UNCHANGED pc
             ELSE Goto(t, "panic") /\ UNCHANGED <<recursion, held>>
       \/ \* returns false
          /\ state # Unlocked /\ ~(Recursive /\ state.owner = tid[t])
          /\ UNCHANGED <<recursion, pc, held>>
    /\ UNCHANGED <<state, tid, expected>>

(* Mutant: a store, trusting the earlier load, where the code compares.    *)
TryCasStore(t) ==
    /\ pc[t] = "try_cas"
    /\ state' = OwnedBy(tid[t])
    /\ IF Recursive
       THEN Goto(t, "try_rec") /\ UNCHANGED held
       ELSE Goto(t, "idle") /\ Acquired(t)
    /\ UNCHANGED <<recursion, tid, expected>>

TryCas(t) ==
    /\ pc[t] = "try_cas"
    /\ IF state = Unlocked
       THEN /\ state' = OwnedBy(tid[t])
            /\ IF Recursive
               THEN Goto(t, "try_rec") /\ UNCHANGED held
               ELSE Goto(t, "idle") /\ Acquired(t)
       ELSE Goto(t, "idle") /\ UNCHANGED <<state, held>>
    /\ UNCHANGED <<recursion, tid, expected>>

TryFirst(t) ==
    /\ pc[t] = "try_rec"
    /\ recursion' = 1
    /\ Goto(t, "idle")
    /\ Acquired(t)
    /\ UNCHANGED <<state, tid, expected>>

-----------------------------------------------------------------------------
(* unlock(), called by a thread that holds the lock                        *)

(* Mutant: leave _recursion to be cleared by nobody.                       *)
UnlockEnterNoDecrement(t) ==
    /\ pc[t] = "idle"
    /\ held[t] > 0
    /\ held' = [held EXCEPT ![t] = @ - 1]
    /\ IF recursion > 1 /\ Recursive
       THEN recursion' = recursion - 1 /\ UNCHANGED pc
       ELSE Goto(t, "unlock_xchg") /\ UNCHANGED recursion
    /\ UNCHANGED <<state, tid, expected>>

UnlockEnter(t) ==
    /\ pc[t] = "idle"
    /\ held[t] > 0
    /\ IF Recursive /\ recursion = 0
       THEN Goto(t, "panic") /\ UNCHANGED <<recursion, held>>
       ELSE /\ held' = [held EXCEPT ![t] = @ - 1]
            /\ recursion' = IF Recursive THEN recursion - 1 ELSE recursion
            /\ IF Recursive /\ recursion # 1 THEN UNCHANGED pc ELSE Goto(t, "unlock_xchg")
    /\ UNCHANGED <<state, tid, expected>>

(* Mutant: a plain store loses the waiters bit set since the last load.    *)
UnlockExchangeStore(t) ==
    /\ pc[t] = "unlock_xchg"
    /\ state' = Unlocked
    /\ Goto(t, "idle")
    /\ UNCHANGED <<recursion, tid, expected, held>>

UnlockExchange(t) ==
    /\ pc[t] = "unlock_xchg"
    /\ state' = Unlocked
    /\ \/ state.owner # tid[t] /\ Goto(t, "panic")
       \/ state.owner = tid[t] /\ state.waiters /\ Goto(t, "unlock_wake")
       \/ state.owner = tid[t] /\ ~state.waiters /\ Goto(t, "idle")
    /\ UNCHANGED <<recursion, tid, expected, held>>

(* FutexWake(&_state, true): every sleeper leaves the queue and starts over *)
(* with expected = 0.                                                      *)
UnlockWake(t) ==
    /\ pc[t] = "unlock_wake"
    /\ pc' = [u \in Threads |-> IF u = t THEN "idle"
                                ELSE IF pc[u] = "sleep" THEN "lock" ELSE pc[u]]
    /\ expected' = [u \in Threads |-> IF pc[u] = "sleep" THEN Unlocked ELSE expected[u]]
    /\ UNCHANGED <<state, recursion, tid, held>>

-----------------------------------------------------------------------------
(* fork().  The behaviour goes on in the child, where only t survives with *)
(* a new tid and runs the hook before anything else; the parent's lock is  *)
(* not touched.                                                            *)

ResetAfterFork(t) ==
    /\ recursion' = 0
    /\ state' = Unlocked
    /\ pc' = [u \in Threads |-> IF u = t THEN "idle" ELSE "dead"]

RebindAfterFork(t, new) ==
    \/ state.owner # tid[t] /\ ResetAfterFork(t)
    \/ /\ state.owner = tid[t]
       /\ state' = OwnedBy(new)
       /\ pc' = [u \in Threads |-> IF u # t THEN "dead"
                                   ELSE IF Recursive /\ recursion = 0 THEN "panic"
                                   ELSE "idle"]
       /\ UNCHANGED recursion

(* A thread that holds a lock reset in the child does not fork: the TLS    *)
(* map lock is never held across a call out of the libc.                   *)
Fork(t, new) ==
    /\ pc[t] = "idle"
    /\ \A u \in Threads : Alive(u) => tid[u] # new
    /\ IF Rebind THEN RebindAfterFork(t, new) ELSE held[t] = 0 /\ ResetAfterFork(t)
    /\ tid' = [tid EXCEPT ![t] = new]
    /\ held' = [u \in Threads |-> IF u = t THEN held[t] ELSE 0]
    /\ expected' = [u \in Threads |-> Unlocked]

(* thread_create() in a process that has forked.                           *)
Spawn(t, new) ==
    /\ ~Alive(t)
    /\ \A u \in Threads : Alive(u) => tid[u] # new
    /\ \E u \in Threads : pc[u] = "idle"
    /\ tid' = [tid EXCEPT ![t] = new]
    /\ Goto(t, "idle")
    /\ UNCHANGED <<state, recursion, expected, held>>

-----------------------------------------------------------------------------

(* The steps of a call that has begun.                                     *)
Step(t) ==
    \/ LockCas(t) \/ LockFirst(t) \/ LockOwned(t) \/ LockSetWaiters(t) \/ LockFutexWait(t)
    \/ TryCas(t) \/ TryFirst(t)
    \/ UnlockExchange(t) \/ UnlockWake(t)

Call(t) == LockEnter(t) \/ TryLoad(t) \/ UnlockEnter(t)

Next ==
    \E t \in Threads :
        \/ Step(t)
        \/ Call(t)
        \/ LockInterrupted(t)
        \/ \E new \in Tids : Fork(t, new) \/ Spawn(t, new)

Spec == Init /\ [][Next]_vars

-----------------------------------------------------------------------------
(* Correctness.                                                            *)

(* The values the variables take.                                          *)
TypeOK ==
    /\ state \in Word
    /\ recursion \in Nat
    /\ tid \in [Threads -> Tids]
    /\ pc \in [Threads -> PCs]
    /\ expected \in [Threads -> Word]
    /\ held \in [Threads -> Nat]

(* t is between the compare-exchange of its first lock() and the exchange  *)
(* of its last unlock().                                                   *)
Owns(t) == held[t] > 0 \/ pc[t] \in {"lock_rec", "try_rec", "unlock_xchg"}

(* lock() and unlock() keep out every other thread, from the exchange that *)
(* takes the word to the one that frees it, also in a fork child.          *)
MutualExclusion == \A t, u \in Threads : Owns(t) /\ Owns(u) => t = u

(* No __ensure of lock.hpp fails and no thread that calls lock() legally   *)
(* reaches the deadlock panic.                                             *)
NoPanic == \A t \in Threads : pc[t] # "panic"

(* A thread asleep in lock() is never forgotten: either the word tells the *)
(* owner to wake it, or the previous owner is about to.                    *)
NoLostWakeup ==
    (\E t \in Threads : pc[t] = "sleep") =>
        state.waiters \/ \E u \in Threads : pc[u] = "unlock_wake"

(* _recursion counts the owner's unreturned acquisitions, so that the last *)
(* unlock() is the one that frees the word.                                *)
RecursionMatches ==
    Recursive => \A t \in Threads : pc[t] = "idle" /\ held[t] > 0 => recursion = held[t]

(* Refinement: the compare-exchange that takes the word is the acquisition *)
(* and the exchange that frees it the release.                             *)
Transit(t) == IF pc[t] \in {"lock_rec", "try_rec", "unlock_xchg"} THEN 1 ELSE 0

Holder == IF \E t \in Threads : Owns(t) THEN CHOOSE t \in Threads : Owns(t) ELSE NoThread

Depth == IF Holder = NoThread THEN 0 ELSE held[Holder] + Transit(Holder)

Abstract == INSTANCE AbstractLock WITH holder <- Holder, depth <- Depth, recursive <- Recursive

(* Every execution of lock(), try_lock(), unlock() and the fork hooks is   *)
(* an execution of the abstract lock.                                      *)
ImplementsLock == Abstract!ASpec

=============================================================================
