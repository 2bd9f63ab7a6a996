-------------------------------- MODULE Barrier --------------------------------
(***************************************************************************)
(* pthread_barrier_wait and pthread_barrier_destroy of                     *)
(* options/posix/generic/pthread.cpp, one action per atomic access.  The   *)
(* word "waiting" packs the generation above the number of arrived threads;*)
(* both it and seq are unsigned integers of WordBits bits (32 in the code).*)
(***************************************************************************)
EXTENDS Integers, FiniteSets

CONSTANTS
    Threads,
    Count,       \* the count passed to pthread_barrier_init
    WordBits,
    MaxArrivals  \* bound on the number of pthread_barrier_wait calls

ASSUME BarrierAssumption ==
    /\ IsFiniteSet(Threads)
    /\ Count \in Nat \ {0}
    /\ WordBits \in Nat \ {0}
    /\ MaxArrivals \in Nat

VARIABLES
    inside,     \* __mlibc_inside
    waiting,    \* __mlibc_waiting
    seq,        \* __mlibc_seq
    pc,
    old,        \* old[t]: the local copy of waiting
    gen,        \* gen[t]: the generation t belongs to
    cur,        \* cur[t]: the local current_seq, or the expected of destroy
    entered,    \* calls of pthread_barrier_wait so far
    arrived,    \* threads counted in waiting so far
    returned,   \* calls that have got past the barrier
    destroyer   \* "none", or where pthread_barrier_destroy is

vars == <<inside, waiting, seq, pc, old, gen, cur, entered, arrived, returned, destroyer>>

-----------------------------------------------------------------------------
Modulus == 2 ^ WordBits

(* frg::ceil_log2(count)                                                   *)
GenShift == CHOOSE s \in 0..WordBits : 2^s >= Count /\ \A r \in 0..(s - 1) : 2^r < Count
GenUnit == 2 ^ GenShift

Generation(w) == w \div GenUnit
Waiters(w) == w % GenUnit

(* (int)(a - b) > 0                                                        *)
Later(a, b) == (a - b) % Modulus \in 1..(Modulus \div 2 - 1)

PCs == {"out", "load", "cas", "store", "wake", "check", "fwait", "sleep", "leave", "leave_wake"}

Goto(t, l) == pc' = [pc EXCEPT ![t] = l]

Init ==
    /\ inside = 0 /\ waiting = 0 /\ seq = 0
    /\ pc = [t \in Threads |-> "out"]
    /\ old = [t \in Threads |-> 0]
    /\ gen = [t \in Threads |-> 0]
    /\ cur = [t \in Threads |-> 0]
    /\ entered = 0 /\ arrived = 0 /\ returned = 0
    /\ destroyer = "none"

-----------------------------------------------------------------------------
(* pthread_barrier_wait                                                    *)

Enter(t) ==
    /\ pc[t] = "out" /\ destroyer = "none" /\ entered < MaxArrivals
    /\ inside' = inside + 1
    /\ entered' = entered + 1
    /\ Goto(t, "load")
    /\ UNCHANGED <<waiting, seq, old, gen, cur, arrived, returned, destroyer>>

Load(t) ==
    /\ pc[t] = "load"
    /\ old' = [old EXCEPT ![t] = waiting]
    /\ Goto(t, "cas")
    /\ UNCHANGED <<inside, waiting, seq, gen, cur, entered, arrived, returned, destroyer>>

(* The last thread of a generation opens the next one.                     *)
CasLast(t) ==
    /\ pc[t] = "cas" /\ Waiters(old[t]) + 1 = Count
    /\ IF waiting = old[t]
       THEN /\ waiting' = ((Generation(old[t]) + 1) * GenUnit) % Modulus
            /\ gen' = [gen EXCEPT ![t] = Generation(old[t])]
            /\ arrived' = arrived + 1
            /\ Goto(t, "store")
            /\ UNCHANGED old
       ELSE old' = [old EXCEPT ![t] = waiting] /\ UNCHANGED <<waiting, gen, arrived, pc>>
    /\ UNCHANGED <<inside, seq, cur, entered, returned, destroyer>>

Store(t) ==
    /\ pc[t] = "store"
    /\ seq' = (gen[t] + 1) % Modulus
    /\ Goto(t, "wake")
    /\ UNCHANGED <<inside, waiting, old, gen, cur, entered, arrived, returned, destroyer>>

Past(t) ==
    /\ returned' = returned + 1
    /\ old' = [old EXCEPT ![t] = 0]
    /\ gen' = [gen EXCEPT ![t] = 0]
    /\ cur' = [cur EXCEPT ![t] = 0]

(* Mutant: nobody is woken.                                                *)
WakeNone(t) ==
    /\ pc[t] = "wake"
    /\ Goto(t, "leave")
    /\ Past(t)
    /\ UNCHANGED <<inside, waiting, seq, entered, arrived, destroyer>>

Wake(t) ==
    /\ pc[t] = "wake"
    /\ pc' = [u \in Threads |-> IF u = t THEN "leave" ELSE IF pc[u] = "sleep" THEN "check" ELSE pc[u]]
    /\ Past(t)
    /\ UNCHANGED <<inside, waiting, seq, entered, arrived, destroyer>>

CasWait(t) ==
    /\ pc[t] = "cas" /\ Waiters(old[t]) + 1 # Count
    /\ IF waiting = old[t]
       THEN /\ waiting' = waiting + 1
            /\ gen' = [gen EXCEPT ![t] = Generation(old[t])]
            /\ arrived' = arrived + 1
            /\ Goto(t, "check")
            /\ UNCHANGED old
       ELSE old' = [old EXCEPT ![t] = waiting] /\ UNCHANGED <<waiting, gen, arrived, pc>>
    /\ UNCHANGED <<inside, seq, cur, entered, returned, destroyer>>

Check(t) ==
    /\ pc[t] = "check"
    /\ IF Later(seq, gen[t])
       THEN Goto(t, "leave") /\ Past(t)
       ELSE /\ cur' = [cur EXCEPT ![t] = seq]
            /\ Goto(t, "fwait")
            /\ UNCHANGED <<returned, old, gen>>
    /\ UNCHANGED <<inside, waiting, seq, entered, arrived, destroyer>>

(* Compare and enqueue; EAGAIN checks again.                               *)
FutexWait(t) ==
    /\ pc[t] = "fwait"
    /\ Goto(t, IF seq = cur[t] THEN "sleep" ELSE "check")
    /\ UNCHANGED <<inside, waiting, seq, old, gen, cur, entered, arrived, returned, destroyer>>

(* Mutant: an interrupted wait is taken for the end of the generation.     *)
InterruptedTrust(t) ==
    /\ pc[t] = "sleep"
    /\ Goto(t, "leave") /\ Past(t)
    /\ UNCHANGED <<inside, waiting, seq, entered, arrived, destroyer>>

Interrupted(t) ==
    /\ pc[t] = "sleep"
    /\ Goto(t, "check")
    /\ UNCHANGED <<inside, waiting, seq, old, gen, cur, entered, arrived, returned, destroyer>>

(* leave(): the thread that takes inside to zero wakes the destroyer.      *)
Leave(t) ==
    /\ pc[t] = "leave"
    /\ inside' = inside - 1
    /\ Goto(t, IF inside = 1 THEN "leave_wake" ELSE "out")
    /\ UNCHANGED <<waiting, seq, old, gen, cur, entered, arrived, returned, destroyer>>

(* Mutant: the destroyer is not woken.                                     *)
LeaveWakeNobody(t) ==
    /\ pc[t] = "leave_wake"
    /\ Goto(t, "out")
    /\ UNCHANGED <<inside, waiting, seq, old, gen, cur, entered, arrived, returned, destroyer>>

LeaveWake(t) ==
    /\ pc[t] = "leave_wake"
    /\ Goto(t, "out")
    /\ destroyer' = IF destroyer = "sleep" THEN "load" ELSE destroyer
    /\ UNCHANGED <<inside, waiting, seq, old, gen, cur, entered, arrived, returned>>

-----------------------------------------------------------------------------
(* pthread_barrier_destroy, called when every call has been let through    *)
(* and possibly before all of them have returned.                          *)

DestroyEnter ==
    /\ destroyer = "none" /\ returned > 0
    /\ arrived = entered /\ arrived % Count = 0
    /\ destroyer' = "load"
    /\ UNCHANGED <<inside, waiting, seq, pc, old, gen, cur, entered, arrived, returned>>

(* Mutant: destroy does not wait for the threads on their way out.         *)
DestroyLoadAnyway ==
    /\ destroyer = "load"
    /\ destroyer' = "done"
    /\ UNCHANGED <<inside, waiting, seq, pc, old, gen, cur, entered, arrived, returned>>

(* The load and the FutexWait on the value loaded: another round if the    *)
(* value changes in between.                                               *)
DestroyLoad ==
    /\ destroyer = "load"
    /\ destroyer' = IF inside = 0 THEN "done" ELSE "sleep"
    /\ UNCHANGED <<inside, waiting, seq, pc, old, gen, cur, entered, arrived, returned>>

DestroyInterrupted ==
    /\ destroyer = "sleep"
    /\ destroyer' = "load"
    /\ UNCHANGED <<inside, waiting, seq, pc, old, gen, cur, entered, arrived, returned>>

-----------------------------------------------------------------------------
Step(t) ==
    \/ Load(t) \/ CasLast(t) \/ Store(t) \/ Wake(t) \/ CasWait(t) \/ Check(t) \/ FutexWait(t)
    \/ Leave(t) \/ LeaveWake(t)

Next ==
    \/ \E t \in Threads : Step(t) \/ Enter(t) \/ Interrupted(t)
    \/ DestroyEnter \/ DestroyLoad \/ DestroyInterrupted

Spec == Init /\ [][Next]_vars

-----------------------------------------------------------------------------
(* Correctness.                                                            *)

Words == 0..(Modulus - 1)

(* The values the variables take; the count of a generation stays below    *)
(* Count, so that it does not run into the generation.                     *)
TypeOK ==
    /\ {waiting, seq} \subseteq Words
    /\ Waiters(waiting) < Count
    /\ pc \in [Threads -> PCs]
    /\ {old, gen, cur} \subseteq [Threads -> Words]
    /\ {inside, entered, arrived, returned} \subseteq 0..MaxArrivals
    /\ destroyer \in {"none", "load", "sleep", "done"}

(* Nobody gets past the barrier before Count threads have arrived, in      *)
(* every generation and also when fast threads are already in the next.    *)
BarrierHolds == returned <= Count * (arrived \div Count)

(* When pthread_barrier_destroy has returned, no thread reads or writes    *)
(* the barrier any more; a FutexWake may be outstanding.                   *)
DestroySafe == destroyer = "done" => \A t \in Threads : pc[t] \in {"out", "leave_wake"}

-----------------------------------------------------------------------------
(* Liveness: calls run on.  Nothing is assumed of further calls.           *)
Fairness == (\A t \in Threads : WF_vars(Step(t))) /\ WF_vars(DestroyLoad)

FairSpec == Spec /\ Fairness

(* The store of seq is not part of the exchange that completes the         *)
(* generation: the last thread of one generation may store after that of   *)
(* the next, and seq then stays behind the generations completed.          *)
TakenBack == seq < Generation(waiting) /\ \A t \in Threads : pc[t] # "store"

(* A thread whose generation is complete leaves, unless a late store has   *)
(* taken seq back; that is the only way for it to stay.                    *)
GenerationLeaves ==
    \A n \in 0..(MaxArrivals \div Count) : arrived >= n * Count ~> returned >= n * Count \/ TakenBack

(* pthread_barrier_destroy returns, with the same exception.               *)
DestroyReturns == destroyer # "none" ~> destroyer = "done" \/ TakenBack
=============================================================================
