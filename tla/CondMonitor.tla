----------------------------- MODULE CondMonitor -----------------------------
(***************************************************************************)
(* Threads that share a counter of items behind a mutex and a condition    *)
(* variable, the way pthread_cond_wait is meant to be used: a consumer     *)
(* waits in a loop until there is an item, a producer adds one under the   *)
(* mutex and notifies before or after releasing it.  A lost notification   *)
(* shows as an item nobody will take.                                      *)
(***************************************************************************)
EXTENDS Cond

CONSTANT Producers      \* the threads that produce; the others consume

ASSUME MonitorAssumption == Producers \subseteq Threads

VARIABLES
    items,
    owed        \* owed[p]: p has added an item and not yet notified

vars == <<condvars, items, owed>>

Consumers == Threads \ Producers

Init ==
    /\ CondInit
    /\ items = 0
    /\ owed = [p \in Producers |-> FALSE]

Take(c) ==
    /\ pc[c] = "out" /\ mutex = c /\ items > 0
    /\ items' = items - 1
    /\ mutex' = NoThread
    /\ UNCHANGED <<seq, pc, wseq, err, notified, noise, swept, owed>>

WaitForItem(c) ==
    /\ items = 0
    /\ WaitEnter(c)
    /\ UNCHANGED <<items, owed>>

(* Lock the mutex and add an item; the notification comes before or after  *)
(* Leave.                                                                  *)
Add(p) ==
    /\ ~owed[p]
    /\ notified + Cardinality({q \in Producers : owed[q]}) < MaxNotify
    /\ Lock(p)
    /\ items' = items + 1
    /\ owed' = [owed EXCEPT ![p] = TRUE]

Announce(p) ==
    /\ owed[p]
    /\ Broadcast(p) \/ Signal(p)
    /\ owed' = [owed EXCEPT ![p] = FALSE]
    /\ UNCHANGED items

Inside(t) == Step(t) /\ UNCHANGED <<items, owed>>

Enter(c) == Lock(c) /\ UNCHANGED <<items, owed>>

Leave(p) == Unlock(p) /\ UNCHANGED <<items, owed>>

Disturbed(t) == WaitDisturbed(t) /\ UNCHANGED <<items, owed>>

Next ==
    \/ \E t \in Threads : Inside(t) \/ Disturbed(t)
    \/ \E c \in Consumers : Enter(c) \/ Take(c) \/ WaitForItem(c)
    \/ \E p \in Producers : Add(p) \/ Announce(p) \/ Leave(p)

Spec == Init /\ [][Next]_vars

-----------------------------------------------------------------------------
(* Correctness.                                                            *)

Notifying == {p \in Producers : owed[p] \/ pc[p] \in {"sig_wake", "bcast_wake"}}

(* Consumers that will look at the counter without being woken again.      *)
Awake == {c \in Consumers : pc[c] \notin {"sleep", "cancelled"}}

Fairness ==
    /\ \A t \in Threads : WF_vars(Inside(t))
    /\ \A p \in Producers : WF_vars(Announce(p)) /\ WF_vars(Leave(p))
    /\ \A c \in Consumers : WF_vars(Take(c)) /\ WF_vars(WaitForItem(c)) /\ WF_vars(Enter(c))

FairSpec == Spec /\ Fairness

(* Every item is taken in the end, as long as a consumer is left.          *)
ItemsTaken ==
    items > 0 ~> items = 0 \/ \A c \in Consumers : pc[c] = "cancelled"
=============================================================================
