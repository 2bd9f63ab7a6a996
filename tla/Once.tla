--------------------------------- MODULE Once ---------------------------------
(***************************************************************************)
(* thread_once of options/internal/generic/threads.cpp (pthread_once and   *)
(* call_once): one action per access to __mlibc_done.  A thread may be     *)
(* cancelled, or exit, inside the initialiser: the word then stays locked.  *)
(***************************************************************************)
EXTENDS Naturals

CONSTANT Threads

VARIABLES
    done,      \* __mlibc_done: "0", "onceLocked" or "onceComplete"
    pc,        \* pc[t]: where t is in its call
    expected,  \* expected[t]: the local of thread_once
    started    \* number of times func has been entered

vars == <<done, pc, expected, started>>

Flags == {"0", "onceLocked", "onceComplete"}
PCs == {"out", "loop", "func", "complete", "wake", "sleep", "reload", "returned", "lost"}

Goto(t, l) == pc' = [pc EXCEPT ![t] = l]

Init ==
    /\ done = "0"
    /\ pc = [t \in Threads |-> "out"]
    /\ expected = [t \in Threads |-> "0"]
    /\ started = 0

-----------------------------------------------------------------------------
Enter(t) ==
    /\ pc[t] \in {"out", "returned"}
    /\ expected' = [expected EXCEPT ![t] = done]
    /\ Goto(t, "loop")
    /\ UNCHANGED <<done, started>>

FastPath(t) ==
    /\ pc[t] = "loop" /\ expected[t] = "onceComplete"
    /\ Goto(t, "returned")
    /\ UNCHANGED <<done, expected, started>>

(* Mutant: the first thread stores the flag without comparing.             *)
AcquireStore(t) ==
    /\ pc[t] = "loop" /\ expected[t] = "0"
    /\ done' = "onceLocked" /\ started' = started + 1 /\ Goto(t, "func")
    /\ UNCHANGED expected

(* The exchange that elects the thread to run func.                        *)
Acquire(t) ==
    /\ pc[t] = "loop" /\ expected[t] = "0"
    /\ IF done = "0"
       THEN done' = "onceLocked" /\ started' = started + 1 /\ Goto(t, "func") /\ UNCHANGED expected
       ELSE expected' = [expected EXCEPT ![t] = done] /\ UNCHANGED <<done, pc, started>>

(* func returns.                                                           *)
FuncReturns(t) ==
    /\ pc[t] = "func"
    /\ Goto(t, "complete")
    /\ UNCHANGED <<done, expected, started>>

(* func ends the thread; nothing resets __mlibc_done.                      *)
FuncExits(t) ==
    /\ pc[t] = "func"
    /\ Goto(t, "lost")
    /\ UNCHANGED <<done, expected, started>>

Complete(t) ==
    /\ pc[t] = "complete"
    /\ done' = "onceComplete"
    /\ Goto(t, "wake")
    /\ UNCHANGED <<expected, started>>

(* Mutant: return without waking.                                          *)
WakeNobody(t) ==
    /\ pc[t] = "wake"
    /\ Goto(t, "returned")
    /\ UNCHANGED <<done, expected, started>>

Wake(t) ==
    /\ pc[t] = "wake"
    /\ pc' = [u \in Threads |-> IF u = t THEN "returned"
                                ELSE IF pc[u] = "sleep" THEN "reload" ELSE pc[u]]
    /\ UNCHANGED <<done, expected, started>>

(* __ensure(expected == onceLocked) and FutexWait on that value; EAGAIN if *)
(* the word has changed.                                                   *)
Wait(t) ==
    /\ pc[t] = "loop" /\ expected[t] = "onceLocked"
    /\ Goto(t, IF done = "onceLocked" THEN "sleep" ELSE "reload")
    /\ UNCHANGED <<done, expected, started>>

Interrupted(t) ==
    /\ pc[t] = "sleep"
    /\ Goto(t, "reload")
    /\ UNCHANGED <<done, expected, started>>

(* Mutant: a thread that was woken takes it that the initialiser is done.  *)
ReloadAssume(t) ==
    /\ pc[t] = "reload"
    /\ Goto(t, "returned")
    /\ UNCHANGED <<done, expected, started>>

Reload(t) ==
    /\ pc[t] = "reload"
    /\ expected' = [expected EXCEPT ![t] = done]
    /\ Goto(t, "loop")
    /\ UNCHANGED <<done, started>>

Step(t) ==
    \/ FastPath(t) \/ Acquire(t) \/ FuncReturns(t) \/ Complete(t) \/ Wake(t) \/ Wait(t) \/ Reload(t)

Next == \E t \in Threads : Step(t) \/ Enter(t) \/ FuncExits(t) \/ Interrupted(t)

Spec == Init /\ [][Next]_vars

-----------------------------------------------------------------------------
(* Correctness.                                                            *)

(* The values the variables take.                                          *)
TypeOK ==
    /\ done \in Flags
    /\ pc \in [Threads -> PCs]
    /\ expected \in [Threads -> Flags]
    /\ started \in Nat

(* The initialiser is entered at most once, whoever calls and whenever;    *)
(* a thread lost inside it does not let another one in.                    *)
AtMostOnce == started <= 1

(* Nobody returns from thread_once before the initialiser has returned.    *)
ReturnsAfterInit ==
    \A t \in Threads : pc[t] = "returned" =>
        started = 1 /\ done = "onceComplete" /\ \A u \in Threads : pc[u] \notin {"func", "lost"}

(* A sleeper will be woken: the initialiser is still running (or its       *)
(* thread is lost) or its thread is about to call FutexWake.               *)
NoLostWakeup ==
    (\E t \in Threads : pc[t] = "sleep") =>
        \E u \in Threads : pc[u] \in {"func", "lost", "complete", "wake"}

(* Liveness: calls run on, and so does the initialiser.                    *)
Fairness == \A t \in Threads : WF_vars(Step(t))

FairSpec == Spec /\ Fairness

(* Every call returns, unless the initialiser ended its thread.            *)
CallsReturn ==
    \A t \in Threads :
        pc[t] \notin {"out", "returned"} ~> pc[t] = "returned" \/ \E u \in Threads : pc[u] = "lost"
=============================================================================
