------------------------------ MODULE Semaphore ------------------------------
(***************************************************************************)
(* The POSIX semaphore of options/posix/generic/semaphore.cpp.  The word   *)
(* holds the count and the semaphoreHasWaiters bit, which nothing clears.  *)
(* One action per atomic access; sem_clockwait is sem_wait with a deadline. *)
(***************************************************************************)
EXTENDS Naturals, FiniteSets

CONSTANTS
    Threads,
    Initial,      \* sem_init's initial_count
    SemValueMax,  \* SEM_VALUE_MAX
    MaxPosts      \* bound on the successful sem_post calls of a behaviour

ASSUME SemAssumption ==
    /\ SemValueMax \in Nat
    /\ Initial \in 0..SemValueMax
    /\ MaxPosts \in Nat

VARIABLES
    word,     \* __mlibc_count
    pc,       \* pc[t]
    local,    \* local[t]: the variable "state" of the function t is in
    timed,    \* timed[t]: the call is sem_clockwait, with a "valid" or "bad" abstime, or "none"
    posted,   \* successful sem_post calls
    taken     \* successful sem_wait, sem_clockwait and sem_trywait calls

vars == <<word, pc, local, timed, posted, taken>>

-----------------------------------------------------------------------------
Word == [count : 0..SemValueMax, waiters : BOOLEAN]
Zero == [count |-> 0, waiters |-> FALSE]
HasWaiters == [count |-> 0, waiters |-> TRUE]
Plus(w) == [w EXCEPT !.count = @ + 1]
Minus(w) == [w EXCEPT !.count = @ - 1]
PCs == {"idle", "wait", "fwait", "sleep", "post", "post_wake", "try_load", "try"}
Times == {"none", "valid", "bad"}

(* Leave the call; its locals are dead.                                    *)
Return(t) ==
    /\ pc' = [pc EXCEPT ![t] = "idle"]
    /\ local' = [local EXCEPT ![t] = Zero]
    /\ timed' = [timed EXCEPT ![t] = "none"]

Continue(t, l, w) ==
    /\ pc' = [pc EXCEPT ![t] = l]
    /\ local' = [local EXCEPT ![t] = w]
    /\ UNCHANGED timed

Init ==
    /\ word = [count |-> Initial, waiters |-> FALSE]
    /\ pc = [t \in Threads |-> "idle"]
    /\ local = [t \in Threads |-> Zero]
    /\ timed = [t \in Threads |-> "none"]
    /\ posted = 0
    /\ taken = 0

-----------------------------------------------------------------------------
(* sem_wait and sem_clockwait                                              *)

WaitEnter(t) ==
    /\ pc[t] = "idle"
    /\ pc' = [pc EXCEPT ![t] = "wait"]
    /\ local' = [local EXCEPT ![t] = Zero]
    /\ \E a \in Times : timed' = [timed EXCEPT ![t] = a]
    /\ UNCHANGED <<word, posted, taken>>

(* The count looks zero: publish the waiters bit, keeping the old word to  *)
(* sleep on, or reload.                                                    *)
WaitPublish(t) ==
    /\ pc[t] = "wait"
    /\ local[t].count = 0
    /\ IF word = local[t]
       THEN word' = HasWaiters /\ Continue(t, "fwait", local[t])
       ELSE Continue(t, "wait", word) /\ UNCHANGED word
    /\ UNCHANGED <<posted, taken>>

(* Mutant: a store of the decremented copy where the code compares.        *)
WaitTakeStore(t) ==
    /\ pc[t] = "wait"
    /\ local[t].count > 0
    /\ word' = Minus(local[t]) /\ taken' = taken + 1 /\ Return(t)
    /\ UNCHANGED posted

WaitTake(t) ==
    /\ pc[t] = "wait"
    /\ local[t].count > 0
    /\ IF word = local[t]
       THEN word' = Minus(word) /\ taken' = taken + 1 /\ Return(t)
       ELSE Continue(t, "wait", word) /\ UNCHANGED <<word, taken>>
    /\ UNCHANGED posted

(* EINVAL or ETIMEDOUT for the deadline, or FutexWait: asleep if the word  *)
(* is still the one kept, else EAGAIN and another round.                   *)
WaitFutex(t) ==
    /\ pc[t] = "fwait"
    /\ \/ timed[t] # "none" /\ Return(t)
       \/ timed[t] # "bad" /\ word = local[t] /\ Continue(t, "sleep", local[t])
       \/ timed[t] # "bad" /\ word # local[t] /\ Continue(t, "wait", local[t])
    /\ UNCHANGED <<word, posted, taken>>

(* FutexWait returns 0 for no reason, or EINTR or ETIMEDOUT, which end the *)
(* call.                                                                   *)
WaitDisturbed(t) ==
    /\ pc[t] = "sleep"
    /\ Return(t) \/ Continue(t, "wait", local[t])
    /\ UNCHANGED <<word, posted, taken>>

-----------------------------------------------------------------------------
(* sem_post                                                                *)

PostLoad(t) ==
    /\ pc[t] = "idle"
    /\ posted + Cardinality({u \in Threads : pc[u] = "post"}) < MaxPosts
    /\ Continue(t, "post", word)
    /\ UNCHANGED <<word, posted, taken>>

(* Mutant: nobody is woken.                                                *)
PostCasNoWake(t) ==
    /\ pc[t] = "post"
    /\ IF local[t].count + 1 > SemValueMax
       THEN Return(t) /\ UNCHANGED <<word, posted>>
       ELSE IF word = local[t]
       THEN word' = Plus(word) /\ posted' = posted + 1 /\ Return(t)
       ELSE Continue(t, "post", word) /\ UNCHANGED <<word, posted>>
    /\ UNCHANGED taken

(* EOVERFLOW at the limit, else compare and exchange; a failed exchange    *)
(* reloads the word, the limit is tested again.                            *)
PostCas(t) ==
    /\ pc[t] = "post"
    /\ IF local[t].count + 1 > SemValueMax
       THEN Return(t) /\ UNCHANGED <<word, posted>>
       ELSE IF word = local[t]
       THEN /\ word' = Plus(word)
            /\ posted' = posted + 1
            /\ IF word.waiters THEN Continue(t, "post_wake", Zero) ELSE Return(t)
       ELSE Continue(t, "post", word) /\ UNCHANGED <<word, posted>>
    /\ UNCHANGED taken

(* FutexWake(true): every sleeper goes round its loop with the word it     *)
(* slept on.                                                               *)
PostWake(t) ==
    /\ pc[t] = "post_wake"
    /\ pc' = [u \in Threads |-> IF u = t THEN "idle"
                                ELSE IF pc[u] = "sleep" THEN "wait" ELSE pc[u]]
    /\ UNCHANGED <<word, local, timed, posted, taken>>

-----------------------------------------------------------------------------
(* sem_trywait                                                             *)

TryRefused == word.waiters \/ word.count = 0

TryLoad(t) ==
    /\ pc[t] \in {"idle", "try_load"}
    /\ IF TryRefused THEN Return(t) ELSE Continue(t, "try", word)
    /\ UNCHANGED <<word, posted, taken>>

TryCas(t) ==
    /\ pc[t] = "try"
    /\ IF word = local[t]
       THEN word' = Minus(word) /\ taken' = taken + 1 /\ Return(t)
       ELSE Continue(t, "try_load", Zero) /\ UNCHANGED <<word, taken>>
    /\ UNCHANGED posted

-----------------------------------------------------------------------------
Step(t) ==
    \/ WaitPublish(t) \/ WaitTake(t) \/ WaitFutex(t)
    \/ PostCas(t) \/ PostWake(t)
    \/ pc[t] # "idle" /\ TryLoad(t)
    \/ TryCas(t)

Next ==
    \E t \in Threads :
        Step(t) \/ WaitEnter(t) \/ WaitDisturbed(t) \/ PostLoad(t) \/ TryLoad(t)

Spec == Init /\ [][Next]_vars

-----------------------------------------------------------------------------
(* Correctness.                                                            *)

(* The values the variables take; the count never exceeds SEM_VALUE_MAX.   *)
TypeOK ==
    /\ word \in Word
    /\ pc \in [Threads -> PCs]
    /\ local \in [Threads -> Word]
    /\ timed \in [Threads -> Times]
    /\ posted \in Nat
    /\ taken \in Nat

(* No token is lost or made up, whatever calls of sem_wait, sem_clockwait, *)
(* sem_trywait and sem_post overlap: the count is what was put in less     *)
(* what was taken out, and sem_post calls that race at SEM_VALUE_MAX do    *)
(* not push it into the waiters bit.                                       *)
TokensConserved ==
    /\ word.count + taken = Initial + posted
    /\ word.count <= SemValueMax

(* A thread asleep in sem_wait has published the waiters bit, and if there *)
(* is a token for it then some sem_post is about to call FutexWake.        *)
NoLostWakeup ==
    (\E t \in Threads : pc[t] = "sleep") =>
        /\ word.waiters
        /\ word.count > 0 => \E u \in Threads : pc[u] = "post_wake"

(* tests/posix/semaphore.c asserts that sem_trywait takes a token whenever *)
(* sem_getvalue reports one and nobody else uses the semaphore.            *)
TryWaitTakesToken ==
    word.count > 0 /\ (\A t \in Threads : pc[t] = "idle") => ~TryRefused

-----------------------------------------------------------------------------
(* Liveness: a call under way runs on; nothing is assumed of deadlines and *)
(* signals, or of calls to come.                                           *)
Fairness == \A t \in Threads : WF_vars(Step(t))

FairSpec == Spec /\ Fairness

(* A thread in sem_wait with a token available returns, unless the token   *)
(* goes to another thread.                                                 *)
WaiterServed ==
    \A t \in Threads :
        pc[t] \in {"wait", "fwait", "sleep"} /\ word.count > 0 ~> pc[t] = "idle" \/ word.count = 0
=============================================================================
