-------------------------------- MODULE Keys --------------------------------
(***************************************************************************)
(* Thread-specific data: one slot of the table of keys, which other        *)
(* threads delete and create again, the value the thread of module Thread  *)
(* keeps under it, and the destructor loop of thread_exit, which refines   *)
(* that module's step XKeys (options/internal/generic/threads.cpp).  Each  *)
(* function is one critical section of key_mutex_; the loop reads the      *)
(* value and the destructor in two of them.                                *)
(*                                                                         *)
(* A value is a number: 0 is the null pointer, g + 1 one that was stored   *)
(* when the key had the generation g.                                      *)
(***************************************************************************)
EXTENDS Thread

CONSTANTS
    Iterations,  \* __MLIBC_THREAD_DESTRUCTOR_ITERATIONS
    MaxDeletes   \* bound: deletions of the key

VARIABLES
    key,         \* key_globals_[0]
    slot,        \* the thread's localKeys[0]
    v,           \* the local v of the loop
    iter         \* iterations of the loop that have begun

keyVars == <<key, slot, v, iter>>
allVars == <<vars, keyVars>>
others == <<create, signal, join, cancel>>

KeysInit ==
    /\ Init
    /\ key = [in_use |-> TRUE, dtor |-> TRUE, generation |-> 0]
    /\ slot = [value |-> 0, generation |-> 0]
    /\ v = 0 /\ iter = 0

-----------------------------------------------------------------------------
(* With every slot of the table in use the call fails with EAGAIN.         *)
thread_key_create ==
    /\ ~key.in_use
    /\ \E d \in BOOLEAN : key' = [key EXCEPT !.in_use = TRUE, !.dtor = d]
    /\ UNCHANGED <<vars, slot, v, iter>>

thread_key_delete ==
    /\ key.in_use /\ key.generation < MaxDeletes
    /\ key' = [in_use |-> FALSE, dtor |-> FALSE, generation |-> key.generation + 1]
    /\ UNCHANGED <<vars, slot, v, iter>>

(* Mutant: the generations are not compared.                               *)
KeyGetUnchecked == slot

(* What thread_key_get leaves in the slot, and returns from it.            *)
thread_key_get ==
    IF key.in_use /\ key.generation > slot.generation
    THEN [value |-> 0, generation |-> key.generation] ELSE slot

(* The thread stores a value; for a deleted key the call fails.            *)
thread_key_set ==
    /\ At("run") /\ key.in_use
    /\ slot' = [value |-> key.generation + 1, generation |-> key.generation]
    /\ UNCHANGED <<vars, key, v, iter>>

-----------------------------------------------------------------------------
(* thread_exit: the value, the destructor, and the call.                   *)
XKeyGet ==
    /\ At("x_keys") /\ iter < Iterations
    /\ iter' = iter + 1
    /\ slot' = thread_key_get
    /\ v' = IF key.in_use THEN slot'.value ELSE 0
    /\ Goto(IF v' # 0 THEN "x_dtor" ELSE "x_keys")
    /\ UNCHANGED <<key, bits, others>>

XKeyDtor ==
    /\ At("x_dtor")
    /\ Goto(IF key.dtor THEN "x_call" ELSE "x_keys")
    /\ UNCHANGED <<keyVars, bits, others>>

(* The destructor may store a value itself, which the loop then clears, or *)
(* meet a cancellation point.                                              *)
XKeyCall ==
    /\ At("x_call")
    /\ \/ /\ \E g \in {slot.generation} \cup (IF key.in_use THEN {key.generation} ELSE {}) :
                slot' = [value |-> 0, generation |-> g]
          /\ v' = 0
          /\ Goto("x_keys")
       \/ /\ tcb_cancelled(bits)
          /\ pc' = "x_again" /\ arg' = "PTHREAD_CANCELED"
          /\ UNCHANGED <<old, want, retval, exits, didExit, slot, v>>
    /\ UNCHANGED <<key, iter, bits, others>>

TargetKeyStep ==
    \/ TargetStep /\ (At("x_keys") => iter = Iterations) /\ UNCHANGED keyVars
    \/ XKeyGet \/ XKeyDtor \/ XKeyCall

KeysNext ==
    \/ TargetKeyStep
    \/ Others /\ UNCHANGED keyVars
    \/ thread_key_create \/ thread_key_delete \/ thread_key_set

(* As in Thread; the steps of the loop are library code.                   *)
KeysSpec ==
    /\ KeysInit /\ [][KeysNext]_allVars
    /\ WF_allVars(TargetKeyStep)
    /\ WF_allVars(CreateStep /\ UNCHANGED keyVars) /\ WF_allVars(Deliver /\ UNCHANGED keyVars)
    /\ WF_allVars(JoinStep /\ UNCHANGED keyVars)
    /\ \A c \in Cancellers : WF_allVars(CancelStep(c) /\ UNCHANGED keyVars)

-----------------------------------------------------------------------------
(* A value that was stored before the key was deleted is never handed out  *)
(* under the key that takes its place, though no thread's slot is cleared  *)
(* when a key is deleted.                                                  *)
ValueOfItsKey == [][v' # 0 /\ v' # v => v' = key.generation + 1]_allVars

=============================================================================
