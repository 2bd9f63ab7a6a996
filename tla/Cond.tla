--------------------------------- MODULE Cond ---------------------------------
(***************************************************************************)
(* The condition variable of options/internal/generic/threads.cpp:         *)
(* thread_cond_signal, thread_cond_broadcast and thread_cond_timedwait     *)
(* (thread_cond_wait is the case without abstime).  The mutex is the       *)
(* abstract lock that Mutex implements, taken and released in one step.    *)
(* FutexWake(false) wakes any one sleeper: the kernel promises no order.   *)
(***************************************************************************)
EXTENDS Naturals, FiniteSets

CONSTANTS
    Threads,
    NoThread,    \* the mutex is free
    SeqMod,      \* 2^(width of __mlibc_seq): 2^32 in the code
    MaxNotify,   \* bound on the number of signals and broadcasts
    MaxNoise     \* bound on interruptions, spurious wakeups and timeouts

ASSUME CondAssumption ==
    /\ NoThread \notin Threads
    /\ SeqMod \in Nat \ {0, 1}
    /\ MaxNotify \in Nat
    /\ MaxNoise \in Nat

VARIABLES
    seq,       \* __mlibc_seq
    mutex,     \* the holder of the mutex passed to wait
    pc,        \* pc[t]
    wseq,      \* wseq[t]: the local seq of timedwait
    err,       \* err[t]: what FutexWait returned to t
    notified,  \* number of signals and broadcasts so far
    noise,     \* number of interruptions, spurious wakeups and timeouts so far
    swept      \* the value of seq set by the last broadcast that has returned

condvars == <<seq, mutex, pc, wseq, err, notified, noise, swept>>

PCs == {"out", "unlock", "fwait", "sleep", "relock", "result",
        "sig_wake", "bcast_wake", "cancelled", "panic"}
Errs == {"0", "EAGAIN", "EINTR", "ETIMEDOUT"}

Goto(t, l) == pc' = [pc EXCEPT ![t] = l]

CondInit ==
    /\ seq = 0
    /\ mutex = NoThread
    /\ pc = [t \in Threads |-> "out"]
    /\ wseq = [t \in Threads |-> 0]
    /\ err = [t \in Threads |-> "0"]
    /\ notified = 0
    /\ noise = 0
    /\ swept = 0

-----------------------------------------------------------------------------
(* The mutex as the caller uses it.                                        *)

Lock(t) ==
    /\ pc[t] = "out" /\ mutex = NoThread
    /\ mutex' = t
    /\ UNCHANGED <<seq, pc, wseq, err, notified, noise, swept>>

Unlock(t) ==
    /\ pc[t] = "out" /\ mutex = t
    /\ mutex' = NoThread
    /\ UNCHANGED <<seq, pc, wseq, err, notified, noise, swept>>

-----------------------------------------------------------------------------
(* thread_cond_timedwait                                                   *)

WaitEnter(t) ==
    /\ pc[t] = "out" /\ mutex = t
    /\ wseq' = [wseq EXCEPT ![t] = seq]
    /\ Goto(t, "unlock")
    /\ UNCHANGED <<seq, mutex, err, notified, noise, swept>>

WaitUnlock(t) ==
    /\ pc[t] = "unlock"
    /\ mutex' = NoThread
    /\ Goto(t, "fwait")
    /\ UNCHANGED <<seq, wseq, err, notified, noise, swept>>

WaitFutex(t) ==
    /\ pc[t] = "fwait"
    /\ IF seq = wseq[t]
       THEN Goto(t, "sleep") /\ UNCHANGED err
       ELSE Goto(t, "relock") /\ err' = [err EXCEPT ![t] = "EAGAIN"]
    /\ UNCHANGED <<seq, mutex, wseq, notified, noise, swept>>

(* abstime does not convert or has passed, before FutexWait (EINVAL is     *)
(* treated like ETIMEDOUT), or passes during it; a signal is caught; or    *)
(* FutexWait returns 0 for no reason.                                      *)
WaitDisturbed(t) ==
    /\ noise < MaxNoise
    /\ \/ pc[t] = "fwait" /\ err' = [err EXCEPT ![t] = "ETIMEDOUT"]
       \/ pc[t] = "sleep" /\ \E e \in {"0", "EINTR", "ETIMEDOUT"} : err' = [err EXCEPT ![t] = e]
    /\ noise' = noise + 1
    /\ Goto(t, "relock")
    /\ UNCHANGED <<seq, mutex, wseq, notified, swept>>

WaitRelock(t) ==
    /\ pc[t] = "relock" /\ mutex = NoThread
    /\ mutex' = t
    /\ Goto(t, "result")
    /\ UNCHANGED <<seq, wseq, err, notified, noise, swept>>

(* The four cases after the mutex is locked again.  EINTR runs             *)
(* thread_testcancel, which ends the thread if it has been cancelled.      *)
WaitResult(t) ==
    /\ pc[t] = "result"
    /\ \/ err[t] = "0" /\ Goto(t, IF seq > wseq[t] THEN "out" ELSE "unlock")
       \/ err[t] = "EAGAIN" /\ Goto(t, IF seq > wseq[t] THEN "out" ELSE "panic")
       \/ err[t] = "EINTR" /\ (Goto(t, "unlock") \/ Goto(t, "cancelled"))
       \/ err[t] = "ETIMEDOUT" /\ Goto(t, "out")
    /\ UNCHANGED <<seq, mutex, wseq, err, notified, noise, swept>>

(* The cleanup handlers of a cancelled waiter release the mutex, which     *)
(* timedwait has locked again.                                             *)
CancelCleanup(t) ==
    /\ pc[t] = "cancelled" /\ mutex = t
    /\ mutex' = NoThread
    /\ UNCHANGED <<seq, pc, wseq, err, notified, noise, swept>>

-----------------------------------------------------------------------------
(* thread_cond_signal and thread_cond_broadcast, with or without the mutex *)

(* Mutant: wake without advancing the sequence number.                     *)
NotifyNoSeq(t, l) ==
    /\ pc[t] = "out" /\ notified < MaxNotify
    /\ notified' = notified + 1
    /\ Goto(t, l)
    /\ UNCHANGED <<seq, mutex, wseq, err, noise, swept>>

Notify(t, l) ==
    /\ pc[t] = "out" /\ notified < MaxNotify
    /\ seq' = (seq + 1) % SeqMod
    /\ notified' = notified + 1
    /\ Goto(t, l)
    /\ UNCHANGED <<mutex, wseq, err, noise, swept>>

Signal(t) == Notify(t, "sig_wake")

Broadcast(t) == Notify(t, "bcast_wake")

Sleepers == {t \in Threads : pc[t] = "sleep"}

(* The threads of W leave the futex queue with result 0; t returns.        *)
Wake(t, W) ==
    /\ pc' = [u \in Threads |-> IF u = t THEN "out" ELSE IF u \in W THEN "relock" ELSE pc[u]]
    /\ err' = [u \in Threads |-> IF u \in W THEN "0" ELSE err[u]]

SignalWake(t) ==
    /\ pc[t] = "sig_wake"
    /\ IF Sleepers = {} THEN Wake(t, {}) ELSE \E u \in Sleepers : Wake(t, {u})
    /\ UNCHANGED <<seq, mutex, wseq, notified, noise, swept>>

(* Mutant: wake one thread only.                                           *)
BroadcastWakeOne(t) ==
    /\ pc[t] = "bcast_wake"
    /\ IF Sleepers = {} THEN Wake(t, {}) ELSE \E u \in Sleepers : Wake(t, {u})
    /\ swept' = seq
    /\ UNCHANGED <<seq, mutex, wseq, notified, noise>>

(* swept remembers a value of seq no older than the one this broadcast set. *)
BroadcastWake(t) ==
    /\ pc[t] = "bcast_wake"
    /\ Wake(t, Sleepers)
    /\ swept' = seq
    /\ UNCHANGED <<seq, mutex, wseq, notified, noise>>

-----------------------------------------------------------------------------
Step(t) ==
    \/ WaitUnlock(t) \/ WaitFutex(t) \/ WaitRelock(t) \/ WaitResult(t)
    \/ CancelCleanup(t) \/ SignalWake(t) \/ BroadcastWake(t)

-----------------------------------------------------------------------------
(* Correctness.                                                            *)

(* The values the variables take.                                          *)
CondTypeOK ==
    /\ seq \in 0..(SeqMod - 1)
    /\ mutex \in Threads \cup {NoThread}
    /\ pc \in [Threads -> PCs]
    /\ wseq \in [Threads -> 0..(SeqMod - 1)]
    /\ err \in [Threads -> Errs]
    /\ notified \in 0..MaxNotify
    /\ noise \in 0..MaxNoise
    /\ swept \in 0..(SeqMod - 1)

(* No thread that began to wait before a broadcast is still asleep when    *)
(* the broadcast has returned.                                             *)
BroadcastWakesAll == \A t \in Sleepers : wseq[t] >= swept
=============================================================================
