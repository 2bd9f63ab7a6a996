------------------------------- MODULE Rwlock -------------------------------
(***************************************************************************)
(* pthread_rwlock_t (options/posix/generic/pthread.cpp).  The lock is two  *)
(* words.  m is an internal mutex: a writer holds it from wrlock to unlock, *)
(* a reader only while it adds itself to the reader count rc.  A writer    *)
(* that has m waits for rc to drop to zero.  Both words have a waiters bit *)
(* that says somebody may sleep on them.                                   *)
(*                                                                         *)
(* Each step below performs one atomic access to m or rc, or one futex     *)
(* call.  A thread that sleeps on a word is one whose pc is "m_sleep" or   *)
(* "rc_sleep"; the wake calls wake all of them.  A weak exchange that      *)
(* fails for no reason reloads what it already knew and is a stutter.      *)
(***************************************************************************)
EXTENDS Naturals, FiniteSets

CONSTANTS
    Threads,
    Calls,      \* the entry points the threads use, a subset of AllCalls
    MaxCalls    \* bound: lock calls each thread makes

AllCalls == {"rd", "wr", "tryrd", "trywr", "timedrd", "timedwr"}

ASSUME CallsAssumption == Calls \subseteq AllCalls /\ MaxCalls \in Nat
ASSUME ThreadsAssumption == IsFiniteSet(Threads)

VARIABLES
    m,      \* __mlibc_m
    rc,     \* __mlibc_rc
    alive,  \* the lock is initialised
    pc,     \* where each thread is
    call,   \* the call it is in
    mexp,   \* its m_expected
    rexp,   \* its rc_expected
    ret,    \* what the call is about to return
    holds,  \* the lock the thread holds between its calls
    calls   \* how many calls it has made

vars == <<m, rc, alive, pc, call, mexp, rexp, ret, holds, calls>>

Free == [held |-> FALSE, excl |-> FALSE, waiters |-> FALSE]
NoReaders == [count |-> 0, waiters |-> FALSE]

MWords == [held : BOOLEAN, excl : BOOLEAN, waiters : BOOLEAN]
RcWords == [count : Nat, waiters : BOOLEAN]

PCs == {"idle", "try_load", "try_cas", "m_load", "m_loop", "m_wait", "m_sleep",
        "rc_add", "rc_load", "rc_loop", "rc_wait", "rc_sleep",
        "u_load", "u_cas", "rc_wake", "m_unlock", "m_wake", "panic"}

(* A timed call first tries without blocking, as "timedrd" or "timedwr",   *)
(* and becomes "blockrd" or "blockwr" when that fails with EBUSY.          *)
Writing(c) == c \in {"wr", "trywr", "timedwr", "blockwr"}
Trying(c) == c \in {"tryrd", "trywr", "timedrd", "timedwr"}
Blocking(c) == CASE c = "timedrd" -> "blockrd" [] c = "timedwr" -> "blockwr" [] OTHER -> "none"
Timed(c) == c \in {"blockrd", "blockwr"}

Goto(t, l) == pc' = [pc EXCEPT ![t] = l]

Init ==
    /\ m = Free /\ rc = NoReaders /\ alive = TRUE
    /\ pc = [t \in Threads |-> "idle"]
    /\ call = [t \in Threads |-> "none"]
    /\ mexp = [t \in Threads |-> Free]
    /\ rexp = [t \in Threads |-> NoReaders]
    /\ ret = [t \in Threads |-> "ok"]
    /\ holds = [t \in Threads |-> "none"]
    /\ calls = [t \in Threads |-> 0]

(* The call returns r, having woken the threads that sleep at `asleep`,    *)
(* which resume at `resume`.                                               *)
WakeAndReturn(t, r, asleep, resume) ==
    LET block == IF r = "EBUSY" THEN Blocking(call[t]) ELSE "none"
    IN  /\ pc' = [u \in Threads |-> IF u = t
                                     THEN IF block = "none" THEN "idle" ELSE "m_load"
                                     ELSE IF pc[u] = asleep THEN resume ELSE pc[u]]
        /\ call' = [call EXCEPT ![t] = block]
        /\ mexp' = [mexp EXCEPT ![t] = Free]
        /\ rexp' = [rexp EXCEPT ![t] = NoReaders]
        /\ ret' = [ret EXCEPT ![t] = "ok"]
        /\ holds' = [holds EXCEPT ![t] =
                       IF r # "ok" \/ call[t] = "unlock" THEN "none"
                       ELSE IF Writing(call[t]) THEN "write" ELSE "read"]

Return(t, r) == WakeAndReturn(t, r, "nobody", "nobody")

-----------------------------------------------------------------------------
(* Entering the calls.  A thread that holds the lock releases it before it *)
(* takes it again.                                                         *)

Lock(t) ==
    /\ alive /\ pc[t] = "idle" /\ holds[t] = "none" /\ calls[t] < MaxCalls
    /\ \E c \in Calls :
        /\ call' = [call EXCEPT ![t] = c]
        /\ Goto(t, IF Trying(c) THEN "try_load" ELSE "m_load")
    /\ calls' = [calls EXCEPT ![t] = @ + 1]
    /\ UNCHANGED <<m, rc, alive, mexp, rexp, ret, holds>>

Unlock(t) ==
    /\ pc[t] = "idle" /\ holds[t] # "none"
    /\ call' = [call EXCEPT ![t] = "unlock"]
    /\ holds' = [holds EXCEPT ![t] = "none"]
    /\ Goto(t, "u_load")
    /\ UNCHANGED <<m, rc, alive, mexp, rexp, ret, calls>>

-----------------------------------------------------------------------------
(* rwlock_m_trylock.                                                       *)

Refusal(t, word) ==
    IF ~Writing(call[t]) /\ ~word.excl THEN "EAGAIN" ELSE "EBUSY"

AfterM(t) == IF Writing(call[t]) THEN "rc_load" ELSE "rc_add"

TryLoad(t) ==
    /\ pc[t] = "try_load"
    /\ IF m = Free
       THEN Goto(t, "try_cas") /\ UNCHANGED <<call, mexp, rexp, ret, holds>>
       ELSE Return(t, Refusal(t, m))
    /\ UNCHANGED <<m, rc, alive, calls>>

TryCas(t) ==
    /\ pc[t] = "try_cas"
    /\ \/ /\ m = Free
          /\ m' = [held |-> TRUE, excl |-> Writing(call[t]), waiters |-> FALSE]
          /\ Goto(t, AfterM(t))
          /\ UNCHANGED <<call, mexp, rexp, ret, holds>>
       \/ /\ m # Free
          /\ Return(t, Refusal(t, m))
          /\ UNCHANGED m
    /\ UNCHANGED <<rc, alive, calls>>

-----------------------------------------------------------------------------
(* rwlock_m_lock.                                                          *)

MLoad(t) ==
    /\ pc[t] = "m_load"
    /\ mexp' = [mexp EXCEPT ![t] = m]
    /\ Goto(t, "m_loop")
    /\ UNCHANGED <<m, rc, alive, call, rexp, ret, holds, calls>>

(* The word looked free: take it.                                          *)
MTake(t) ==
    /\ pc[t] = "m_loop" /\ mexp[t] = Free
    /\ IF m = Free
       THEN /\ m' = [held |-> TRUE, excl |-> Writing(call[t]), waiters |-> FALSE]
            /\ Goto(t, AfterM(t))
            /\ UNCHANGED mexp
       ELSE /\ mexp' = [mexp EXCEPT ![t] = m]
            /\ UNCHANGED <<m, pc>>
    /\ UNCHANGED <<rc, alive, call, rexp, ret, holds, calls>>

(* It looked taken: make sure the waiters bit is set.                      *)
MSetWaiters(t) ==
    /\ pc[t] = "m_loop" /\ mexp[t] # Free
    /\ \/ /\ mexp[t].waiters
          /\ Goto(t, "m_wait")
          /\ UNCHANGED <<m, mexp>>
       \/ /\ ~mexp[t].waiters /\ m = mexp[t]
          /\ m' = [m EXCEPT !.waiters = TRUE]
          /\ mexp' = [mexp EXCEPT ![t] = m']
          /\ Goto(t, "m_wait")
       \/ /\ ~mexp[t].waiters /\ m # mexp[t]
          /\ mexp' = [mexp EXCEPT ![t] = m]
          /\ UNCHANGED <<m, pc>>
    /\ UNCHANGED <<rc, alive, call, rexp, ret, holds, calls>>

(* FutexWait compares the word with what the thread expects.               *)
MWait(t) ==
    /\ pc[t] = "m_wait"
    /\ Goto(t, IF m = mexp[t] THEN "m_sleep" ELSE "m_loop")
    /\ mexp' = [mexp EXCEPT ![t] = Free]
    /\ UNCHANGED <<m, rc, alive, call, rexp, ret, holds, calls>>

MInterrupted(t) ==
    /\ pc[t] = "m_sleep"
    /\ Goto(t, "m_loop")
    /\ UNCHANGED <<m, rc, alive, call, mexp, rexp, ret, holds, calls>>

(* The deadline of a timed call passes, before it sleeps or while it does. *)
MTimeout(t) ==
    /\ pc[t] \in {"m_wait", "m_sleep"} /\ Timed(call[t])
    /\ Return(t, "ETIMEDOUT")
    /\ UNCHANGED <<m, rc, alive, calls>>

-----------------------------------------------------------------------------
(* The two unlock paths: rwlock_m_unlock, and the read-unlock of           *)
(* pthread_rwlock_unlock.                                                  *)

MUnlock(t) ==
    /\ pc[t] = "m_unlock"
    /\ m' = Free
    /\ IF m.waiters
       THEN Goto(t, "m_wake") /\ UNCHANGED <<call, mexp, rexp, ret, holds>>
       ELSE Return(t, ret[t])
    /\ UNCHANGED <<rc, alive, calls>>

MWake(t) ==
    /\ pc[t] = "m_wake"
    /\ WakeAndReturn(t, ret[t], "m_sleep", "m_loop")
    /\ UNCHANGED <<m, rc, alive, calls>>

(* pthread_rwlock_unlock tells a write lock from a read lock by rc.        *)
ULoad(t) ==
    /\ pc[t] = "u_load"
    /\ rexp' = [rexp EXCEPT ![t] = rc]
    /\ Goto(t, IF rc = NoReaders THEN "m_unlock" ELSE "u_cas")
    /\ UNCHANGED <<m, rc, alive, call, mexp, ret, holds, calls>>

(* Mutant: the last reader leaves the waiters bit and wakes nobody.        *)
UCasSilent(t) ==
    /\ pc[t] = "u_cas"
    /\ IF rc = rexp[t]
       THEN /\ rc' = [count |-> rc.count - 1, waiters |-> rc.waiters /\ rc.count > 1]
            /\ Return(t, "ok")
       ELSE /\ rexp' = [rexp EXCEPT ![t] = rc]
            /\ UNCHANGED <<rc, pc, call, mexp, ret, holds>>
    /\ UNCHANGED <<m, alive, calls>>

(* Mutant: the last reader keeps the waiters bit.                          *)
UCasKeepBit(t) ==
    /\ pc[t] = "u_cas"
    /\ IF rc = rexp[t]
       THEN /\ rc' = [rc EXCEPT !.count = @ - 1]
            /\ IF rc.count = 1 /\ rc.waiters
               THEN Goto(t, "rc_wake") /\ UNCHANGED <<call, mexp, rexp, ret, holds>>
               ELSE Return(t, "ok")
       ELSE /\ rexp' = [rexp EXCEPT ![t] = rc]
            /\ UNCHANGED <<rc, pc, call, mexp, ret, holds>>
    /\ UNCHANGED <<m, alive, calls>>

UCas(t) ==
    /\ pc[t] = "u_cas"
    /\ IF rexp[t].count = 0
       THEN Goto(t, "panic") /\ UNCHANGED <<rc, call, mexp, rexp, ret, holds>>
       ELSE IF rc # rexp[t]
       THEN /\ rexp' = [rexp EXCEPT ![t] = rc]
            /\ UNCHANGED <<rc, pc, call, mexp, ret, holds>>
       ELSE IF rc.count = 1 /\ rc.waiters
       THEN /\ rc' = NoReaders
            /\ Goto(t, "rc_wake")
            /\ UNCHANGED <<call, mexp, rexp, ret, holds>>
       ELSE /\ rc' = [rc EXCEPT !.count = @ - 1]
            /\ Return(t, "ok")
    /\ UNCHANGED <<m, alive, calls>>

RcWake(t) ==
    /\ pc[t] = "rc_wake"
    /\ WakeAndReturn(t, "ok", "rc_sleep", "rc_load")
    /\ UNCHANGED <<m, rc, alive, calls>>

-----------------------------------------------------------------------------
(* Readers add themselves to rc while they hold m; writers wait for rc.    *)

RcAdd(t) ==
    /\ pc[t] = "rc_add"
    /\ rc' = [rc EXCEPT !.count = @ + 1]
    /\ Goto(t, "m_unlock")
    /\ UNCHANGED <<m, alive, call, mexp, rexp, ret, holds, calls>>

(* A try gives up when there are readers; the others go on to wait.        *)
RcLoad(t) ==
    /\ pc[t] = "rc_load"
    /\ IF Trying(call[t]) /\ rc # NoReaders
       THEN /\ ret' = [ret EXCEPT ![t] = "EBUSY"]
            /\ Goto(t, "m_unlock")
            /\ UNCHANGED rexp
       ELSE /\ rexp' = [rexp EXCEPT ![t] = rc]
            /\ Goto(t, "rc_loop")
            /\ UNCHANGED ret
    /\ UNCHANGED <<m, rc, alive, call, mexp, holds, calls>>

(* Mutant: a writer that has m does not wait for the readers.              *)
RcDoneEarly(t) ==
    /\ pc[t] = "rc_loop" /\ (rexp[t].count = 0 \/ rexp[t].waiters)
    /\ Return(t, "ok")
    /\ UNCHANGED <<m, rc, alive, calls>>

RcDone(t) ==
    /\ pc[t] = "rc_loop" /\ rexp[t] = NoReaders
    /\ Return(t, "ok")
    /\ UNCHANGED <<m, rc, alive, calls>>

(* Mutant: the bit is set by a store of the value read before.             *)
RcSetWaitersStore(t) ==
    /\ pc[t] = "rc_loop" /\ rexp[t] # NoReaders
    /\ rexp' = [rexp EXCEPT ![t].waiters = TRUE]
    /\ rc' = rexp'[t]
    /\ Goto(t, "rc_wait")
    /\ UNCHANGED <<m, alive, call, mexp, ret, holds, calls>>

RcSetWaiters(t) ==
    /\ pc[t] = "rc_loop" /\ rexp[t] # NoReaders
    /\ IF rexp[t].count = 0
       THEN Goto(t, "panic") /\ UNCHANGED <<rc, rexp>>
       ELSE IF rexp[t].waiters
       THEN Goto(t, "rc_wait") /\ UNCHANGED <<rc, rexp>>
       ELSE IF rc = rexp[t]
       THEN /\ rc' = [rc EXCEPT !.waiters = TRUE]
            /\ rexp' = [rexp EXCEPT ![t] = rc']
            /\ Goto(t, "rc_wait")
       ELSE /\ rexp' = [rexp EXCEPT ![t] = rc]
            /\ UNCHANGED <<rc, pc>>
    /\ UNCHANGED <<m, alive, call, mexp, ret, holds, calls>>

RcWait(t) ==
    /\ pc[t] = "rc_wait"
    /\ Goto(t, IF rc = rexp[t] THEN "rc_sleep" ELSE "rc_load")
    /\ rexp' = [rexp EXCEPT ![t] = NoReaders]
    /\ UNCHANGED <<m, rc, alive, call, mexp, ret, holds, calls>>

RcInterrupted(t) ==
    /\ pc[t] = "rc_sleep"
    /\ Goto(t, "rc_load")
    /\ UNCHANGED <<m, rc, alive, call, mexp, rexp, ret, holds, calls>>

(* The deadline passes: unlockOnError gives m back.                        *)
RcTimeout(t) ==
    /\ pc[t] \in {"rc_wait", "rc_sleep"} /\ Timed(call[t])
    /\ ret' = [ret EXCEPT ![t] = "ETIMEDOUT"]
    /\ Goto(t, "m_unlock")
    /\ UNCHANGED <<m, rc, alive, call, mexp, rexp, holds, calls>>

-----------------------------------------------------------------------------
(* pthread_rwlock_destroy, once nobody uses the lock, and a new            *)
(* pthread_rwlock_init.                                                    *)

Unused == \A t \in Threads : pc[t] = "idle" /\ holds[t] = "none"

Destroy(t) ==
    /\ alive /\ Unused
    /\ alive' = FALSE
    /\ Goto(t, IF m = Free /\ rc = NoReaders THEN "idle" ELSE "panic")
    /\ UNCHANGED <<m, rc, call, mexp, rexp, ret, holds, calls>>

Reinit ==
    /\ ~alive /\ alive' = TRUE
    /\ m' = Free /\ rc' = NoReaders
    /\ UNCHANGED <<pc, call, mexp, rexp, ret, holds, calls>>

-----------------------------------------------------------------------------

Step(t) ==
    \/ Unlock(t) \/ TryLoad(t) \/ TryCas(t)
    \/ MLoad(t) \/ MTake(t) \/ MSetWaiters(t) \/ MWait(t)
    \/ MUnlock(t) \/ MWake(t)
    \/ ULoad(t) \/ UCas(t) \/ RcWake(t)
    \/ RcAdd(t) \/ RcLoad(t) \/ RcDone(t) \/ RcSetWaiters(t) \/ RcWait(t)

Next ==
    \/ \E t \in Threads :
        \/ Step(t) \/ Lock(t) \/ Destroy(t)
        \/ MInterrupted(t) \/ MTimeout(t) \/ RcInterrupted(t) \/ RcTimeout(t)
    \/ Reinit

Spec == Init /\ [][Next]_vars

(* Every thread is scheduled and releases what it took.  Nothing makes a   *)
(* futex wait return by itself.                                            *)
FairSpec == Spec /\ \A t \in Threads : WF_vars(Step(t))

-----------------------------------------------------------------------------
(* A thread for which wrlock, trywrlock or timedwrlock returned 0 is alone *)
(* until it calls unlock: no other writer, no reader.                      *)
Exclusion ==
    \A t, u \in Threads : holds[t] = "write" /\ u # t => holds[u] = "none"

(* The assertions of the code hold: rc_expected has a reader in it         *)
(* whenever it is not zero, read-unlock finds itself counted, and destroy  *)
(* finds both words zero, whatever timeouts left behind.                   *)
NoPanic == \A t \in Threads : pc[t] # "panic"

(* A writer that has m is not overtaken: until it has the lock or gives    *)
(* up, no thread joins the readers it waits for.                           *)
WriterNotOvertaken ==
    [][\A t \in Threads :
        pc[t] \in {"rc_load", "rc_loop", "rc_wait", "rc_sleep"} => rc'.count <= rc.count]_vars

(* Every call returns, provided that who has the lock releases it.         *)
CallsReturn == \A t \in Threads : pc[t] # "idle" ~> pc[t] = "idle"
=============================================================================
