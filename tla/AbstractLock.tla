----------------------------- MODULE AbstractLock -----------------------------
(***************************************************************************)
(* What a lock promises its users: one holder at a time, who may hold it   *)
(* several times if the lock is recursive, and who keeps it across a fork. *)
(***************************************************************************)
EXTENDS Naturals

CONSTANTS Threads, NoThread

VARIABLES holder, depth, recursive

avars == <<holder, depth, recursive>>

AInit == holder = NoThread /\ depth = 0 /\ recursive \in BOOLEAN

Acquire(t) ==
    /\ holder = NoThread
    /\ holder' = t
    /\ depth' = 1
    /\ UNCHANGED recursive

Reacquire(t) ==
    /\ recursive
    /\ holder = t
    /\ depth' = depth + 1
    /\ UNCHANGED <<holder, recursive>>

Release(t) ==
    /\ holder = t
    /\ depth' = depth - 1
    /\ holder' = IF depth = 1 THEN NoThread ELSE t
    /\ UNCHANGED recursive

(* The child of a fork by t: nobody but t may still hold the lock.         *)
Inherit(t) ==
    /\ holder # t
    /\ holder' = NoThread
    /\ depth' = 0
    /\ UNCHANGED recursive

(* A free lock is destroyed and another one made in its place.             *)
Replace ==
    /\ holder = NoThread
    /\ recursive' \in BOOLEAN
    /\ UNCHANGED <<holder, depth>>

ANext ==
    \/ \E t \in Threads : Acquire(t) \/ Reacquire(t) \/ Release(t) \/ Inherit(t)
    \/ Replace

ASpec == AInit /\ [][ANext]_avars
=============================================================================
