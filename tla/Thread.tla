-------------------------------- MODULE Thread --------------------------------
(***************************************************************************)
(* The life of one thread: thread_create, its entry function, cancellation *)
(* by other threads, thread_exit, thread_join and thread_detach, from      *)
(* options/internal/generic/threads.cpp, options/posix/generic/pthread.cpp *)
(* and sysdeps/linux/generic/thread.cpp.  cancelBits is a set of flags.    *)
(* The SIGCANCEL handler runs on top of whatever the thread is doing.      *)
(***************************************************************************)
EXTENDS Naturals

CONSTANT Cancellers    \* threads that call pthread_cancel on the thread

VARIABLES
    creator,     \* where thread_create is
    published,   \* *thread has been stored, so that others can name the thread
    tid,         \* tcb->tid is stored
    bits,        \* tcb->cancelBits
    pc,          \* the thread's program counter
    old,         \* the local old_value of the function the thread is in
    want,        \* the bits a setcancelstate, setcanceltype or pthread_exit call is to write
    handler,     \* "none", or the SIGCANCEL handler's exchange loop
    hold,        \* the handler's local old_value
    pending,     \* a SIGCANCEL has been sent and not delivered
    masked,      \* SIGCANCEL is blocked
    arg,         \* the argument of thread_exit
    retval,      \* tcb->returnValue
    exits,       \* number of times the exit procedure has been started
    didExit,     \* tcb->didExit
    joinable,    \* tcb->isJoinable
    jpc,         \* where thread_join is
    joined,      \* what thread_join stored for its caller
    cpc,         \* cpc[c]: where the pthread_cancel of c is
    cold,        \* cold[c]: its local old_value
    killed       \* killed[c]: what Tgkill returned

target == <<pc, old, want, arg, retval, exits, didExit>>
signal == <<handler, hold, pending, masked>>
create == <<creator, published, tid>>
join == <<joinable, jpc, joined>>
cancel == <<cpc, cold, killed>>
vars == <<create, bits, target, signal, join, cancel>>

-----------------------------------------------------------------------------
Flags == {"enable", "async", "trigger", "canceling", "exiting"}

tcb_async_cancelled(b) == {"enable", "async", "trigger"} \subseteq b
tcb_async_cancel(b) == {"enable", "async"} \subseteq b
tcb_cancelled(b) == {"enable", "trigger"} \subseteq b

PCs == {"unborn", "start", "start_sleep", "run", "state_cas", "state_mask", "type_cas",
        "cp", "blocked", "exit_cas", "x_load", "x_or", "x_handlers", "x_keys", "x_dtor",
        "x_call", "x_store", "x_did", "x_wake", "gone", "x_again", "cut"}

(* The thread runs code of its own: it exists and is not in the handler.   *)
At(l) == pc = l /\ handler = "none"
Gone == pc \in {"gone", "cut"}
Goto(l) == pc' = l /\ UNCHANGED <<old, want, arg, retval, exits, didExit>>

(* The jump to thread_exit(a).                                             *)
Exit(a) ==
    /\ pc' = "x_load"
    /\ arg' = a
    /\ old' = {} /\ want' = {}
    /\ UNCHANGED <<retval, exits, didExit>>

__mlibc_do_cancel == Exit("PTHREAD_CANCELED")

Init ==
    /\ creator = "idle" /\ published = FALSE /\ tid = FALSE
    /\ bits = {}
    /\ pc = "unborn" /\ old = {} /\ want = {}
    /\ handler = "none" /\ hold = {} /\ pending = FALSE /\ masked = FALSE
    /\ arg = "none" /\ retval = "none" /\ exits = 0 /\ didExit = FALSE
    /\ joinable = TRUE /\ jpc = "idle" /\ joined = "none"
    /\ cpc = [c \in Cancellers |-> "idle"]
    /\ cold = [c \in Cancellers |-> {}]
    /\ killed = [c \in Cancellers |-> "none"]

-----------------------------------------------------------------------------
(* thread_create, with and without the detached attribute                  *)

CreateClone ==
    /\ creator = "idle"
    /\ creator' = "publish"
    /\ joinable' \in BOOLEAN
    /\ pc' = "start"
    /\ UNCHANGED <<published, tid, bits, old, want, arg, retval, exits, didExit, signal,
                   jpc, joined, cancel>>

CreatePublish ==
    /\ creator = "publish"
    /\ creator' = "tid" /\ published' = TRUE
    /\ UNCHANGED <<tid, bits, target, signal, join, cancel>>

CreateTid ==
    /\ creator = "tid"
    /\ creator' = "wake" /\ tid' = TRUE
    /\ UNCHANGED <<published, bits, target, signal, join, cancel>>

CreateWake ==
    /\ creator = "wake"
    /\ creator' = "done"
    /\ Goto(IF pc = "start_sleep" THEN "start" ELSE pc)
    /\ UNCHANGED <<published, tid, bits, signal, join, cancel>>

(* __mlibc_enter_thread: wait for the tid, then enable cancellation.       *)
(* Mutant: enable cancellation first.                                      *)
StartEnableEarly ==
    /\ At("start")
    /\ bits' = bits \cup {"enable"}
    /\ IF tid THEN Goto("run") ELSE Goto("start_sleep") \/ Goto("start")
    /\ UNCHANGED <<create, signal, join, cancel>>

Start ==
    /\ At("start")
    /\ IF tid
       THEN bits' = bits \cup {"enable"} /\ Goto("run")
       ELSE UNCHANGED bits /\ (Goto("start_sleep") \/ Goto("start"))
    /\ UNCHANGED <<create, signal, join, cancel>>

(* The thread function returns.                                            *)
FunctionReturns ==
    /\ At("run")
    /\ pc' = "x_load" /\ arg' = "value" /\ retval' = "value"
    /\ UNCHANGED <<old, want, exits, didExit, create, bits, signal, join, cancel>>

-----------------------------------------------------------------------------
(* pthread_setcancelstate, pthread_setcanceltype, pthread_exit             *)

Load(l, b, a) ==
    /\ At("run")
    /\ pc' = l /\ old' = bits /\ want' = b /\ arg' = a
    /\ UNCHANGED <<retval, exits, didExit, create, bits, signal, join, cancel>>

SetState == \E b \in SUBSET {"enable"} : Load("state_cas", b, "none")
SetType == \E b \in SUBSET {"async"} : Load("type_cas", b, "none")
PthreadExit == Load("exit_cas", {}, "value")

(* The value to write for the flags f.                                     *)
NewValue(f) == (old \ f) \cup want

StateCas ==
    /\ At("state_cas")
    /\ LET new == NewValue({"enable"}) IN
       \/ old = new /\ pc' = "run" /\ old' = {} /\ want' = {} /\ UNCHANGED <<bits, arg>>
       \/ /\ old # new /\ bits = old
          /\ bits' = new
          /\ IF tcb_async_cancelled(new)
             THEN pc' = "x_load" /\ arg' = "PTHREAD_CANCELED" /\ old' = {} /\ want' = {}
             ELSE pc' = "state_mask" /\ UNCHANGED <<arg, old, want>>
       \/ old # new /\ bits # old /\ old' = bits /\ UNCHANGED <<bits, pc, want, arg>>
    /\ UNCHANGED <<retval, exits, didExit, create, signal, join, cancel>>

(* sigprocmask for SIGCANCEL                                               *)
StateMask ==
    /\ At("state_mask")
    /\ masked' = (want = {})
    /\ pc' = "run" /\ old' = {} /\ want' = {}
    /\ UNCHANGED <<arg, retval, exits, didExit, handler, hold, pending, create, bits, join, cancel>>

TypeCas ==
    /\ At("type_cas")
    /\ LET new == NewValue({"async"}) IN
       \/ old = new /\ pc' = "run" /\ old' = {} /\ want' = {} /\ UNCHANGED <<bits, arg>>
       \/ /\ old # new /\ bits = old
          /\ bits' = new
          /\ old' = {} /\ want' = {}
          /\ IF tcb_async_cancelled(new)
             THEN pc' = "x_load" /\ arg' = "PTHREAD_CANCELED"
             ELSE pc' = "run" /\ UNCHANGED arg
       \/ old # new /\ bits # old /\ old' = bits /\ UNCHANGED <<bits, pc, want, arg>>
    /\ UNCHANGED <<retval, exits, didExit, create, signal, join, cancel>>

(* pthread_exit switches cancellation off before thread_exit.              *)
ExitCas ==
    /\ At("exit_cas")
    /\ LET new == NewValue({"enable", "async"}) IN
       \/ old = new /\ Exit(arg) /\ UNCHANGED bits
       \/ old # new /\ bits = old /\ bits' = new /\ Exit(arg)
       \/ /\ old # new /\ bits # old
          /\ old' = bits
          /\ UNCHANGED <<bits, pc, want, arg, retval, exits, didExit>>
    /\ UNCHANGED <<create, signal, join, cancel>>

-----------------------------------------------------------------------------
(* Cancellation points: thread_testcancel and the cancellable system call, *)
(* whose window from the test of a copy of the bits to the end of the      *)
(* system call the handler recognises (BeforeCancellableSyscall).          *)

TestCancel ==
    /\ At("run") /\ tcb_cancelled(bits)
    /\ __mlibc_do_cancel
    /\ UNCHANGED <<create, bits, signal, join, cancel>>

CpEnter ==
    /\ At("run")
    /\ IF tcb_cancelled(bits) THEN __mlibc_do_cancel ELSE Goto("cp")
    /\ UNCHANGED <<create, bits, signal, join, cancel>>

CpBlock ==
    /\ At("cp")
    /\ Goto("blocked")
    /\ UNCHANGED <<create, bits, signal, join, cancel>>

(* The system call returns; with EINTR do_cp_syscall looks at the bits.    *)
CpReturn ==
    /\ At("blocked")
    /\ \/ Goto("run")
       \/ tcb_cancelled(bits) /\ __mlibc_do_cancel
    /\ UNCHANGED <<create, bits, signal, join, cancel>>

(* pthread_cancel(pthread_self()); only other cancellers, which set the    *)
(* same flag, can make its exchange fail.                                  *)
CancelSelf ==
    /\ At("run") /\ "trigger" \notin bits
    /\ bits' = bits \cup {"trigger"}
    /\ IF tcb_async_cancel(bits)
       THEN /\ pc' = "exit_cas" /\ old' = bits' /\ arg' = "PTHREAD_CANCELED"
            /\ UNCHANGED <<want, retval, exits, didExit>>
       ELSE UNCHANGED target
    /\ UNCHANGED <<create, signal, join, cancel>>


(* Signal delivery and sigcancel_handler.  The signal is blocked while the *)
(* handler runs and stays so when the handler ends in thread_exit.         *)
Deliver ==
    /\ pending /\ ~masked /\ handler = "none"
    /\ pc \notin {"unborn", "gone", "cut"}
    /\ pending' = FALSE
    /\ IF "async" \notin bits /\ pc \notin {"cp", "blocked"}
       THEN UNCHANGED <<handler, hold, masked>>
       ELSE handler' = "cas" /\ hold' = bits /\ masked' = TRUE
    /\ UNCHANGED <<create, bits, target, join, cancel>>

HandlerCas ==
    /\ handler = "cas"
    /\ LET new == hold \cup {"trigger", "canceling"} IN
       IF hold = new \/ "exiting" \in hold
       THEN handler' = "none" /\ hold' = {} /\ masked' = FALSE /\ UNCHANGED <<bits, target>>
       ELSE IF bits = hold
       THEN /\ bits' = new
            /\ retval' = "PTHREAD_CANCELED"
            /\ pc' = "x_load" /\ arg' = "PTHREAD_CANCELED" /\ old' = {} /\ want' = {}
            /\ handler' = "none" /\ hold' = {}
            /\ UNCHANGED <<exits, didExit, masked>>
       ELSE hold' = bits /\ UNCHANGED <<bits, target, handler, masked>>
    /\ UNCHANGED <<pending, create, join, cancel>>

-----------------------------------------------------------------------------
(* thread_exit                                                             *)

XLoad ==
    /\ At("x_load")
    /\ Goto(IF "exiting" \in bits THEN "gone" ELSE "x_or")
    /\ UNCHANGED <<create, bits, signal, join, cancel>>

XOr ==
    /\ At("x_or")
    /\ bits' = bits \cup {"exiting"}
    /\ exits' = exits + 1
    /\ pc' = "x_handlers"
    /\ UNCHANGED <<old, want, arg, retval, didExit, create, signal, join, cancel>>

(* The thread-local destructors and the cleanup handlers run to their end, *)
(* or one of them meets a cancellation point.                              *)
XHandlers ==
    /\ At("x_handlers")
    /\ \/ Goto("x_keys")
       \/ /\ tcb_cancelled(bits)
          /\ pc' = "x_again" /\ arg' = "PTHREAD_CANCELED"
          /\ UNCHANGED <<old, want, retval, exits, didExit>>
    /\ UNCHANGED <<create, bits, signal, join, cancel>>

(* The loop over the keys, which module Keys refines, is over.             *)
XKeys ==
    /\ At("x_keys")
    /\ Goto("x_store")
    /\ UNCHANGED <<create, bits, signal, join, cancel>>

(* thread_exit, called a second time by __mlibc_do_cancel.                 *)
XAgain ==
    /\ At("x_again")
    /\ Goto(IF "exiting" \in bits THEN "cut" ELSE "x_or")
    /\ UNCHANGED <<create, bits, signal, join, cancel>>

XStore ==
    /\ At("x_store")
    /\ retval' = arg /\ pc' = "x_did"
    /\ UNCHANGED <<old, want, arg, exits, didExit, create, bits, signal, join, cancel>>

XDid ==
    /\ At("x_did")
    /\ didExit' = TRUE /\ pc' = "x_wake"
    /\ UNCHANGED <<old, want, arg, retval, exits, create, bits, signal, join, cancel>>

(* Mutant: the thread ends without waking whoever joins it.                *)
XWakeNobody ==
    /\ At("x_wake")
    /\ Goto("gone")
    /\ UNCHANGED <<create, bits, signal, join, cancel>>

XWake ==
    /\ At("x_wake")
    /\ Goto("gone")
    /\ jpc' = IF jpc = "sleep" THEN "load" ELSE jpc
    /\ UNCHANGED <<create, bits, signal, joinable, joined, cancel>>

-----------------------------------------------------------------------------
(* thread_join and thread_detach                                           *)

JoinEnter ==
    /\ jpc = "idle" /\ published
    /\ jpc' = IF joinable THEN "load" ELSE "EINVAL"
    /\ UNCHANGED <<joinable, joined, create, bits, target, signal, cancel>>

JoinLoad ==
    /\ jpc = "load"
    /\ jpc' = IF didExit THEN "read" ELSE "fwait"
    /\ UNCHANGED <<joinable, joined, create, bits, target, signal, cancel>>

JoinFutexWait ==
    /\ jpc = "fwait"
    /\ jpc' = IF didExit THEN "load" ELSE "sleep"
    /\ UNCHANGED <<joinable, joined, create, bits, target, signal, cancel>>

(* Mutant: a wait that ends is taken for the thread's end.                 *)
JoinInterruptedReads ==
    /\ jpc = "sleep"
    /\ jpc' = "read"
    /\ UNCHANGED <<joinable, joined, create, bits, target, signal, cancel>>

JoinInterrupted ==
    /\ jpc = "sleep"
    /\ jpc' = "load"
    /\ UNCHANGED <<joinable, joined, create, bits, target, signal, cancel>>

JoinRead ==
    /\ jpc = "read"
    /\ jpc' = "done" /\ joined' = retval
    /\ UNCHANGED <<joinable, create, bits, target, signal, cancel>>

Detach ==
    /\ published /\ joinable
    /\ joinable' = FALSE
    /\ UNCHANGED <<jpc, joined, create, bits, target, signal, cancel>>

-----------------------------------------------------------------------------
(* pthread_cancel by another thread                                        *)

CancelLoad(c) ==
    /\ cpc[c] = "idle" /\ published
    /\ cpc' = [cpc EXCEPT ![c] = "cas"]
    /\ cold' = [cold EXCEPT ![c] = bits]
    /\ UNCHANGED <<killed, create, bits, target, signal, join>>

CancelCas(c) ==
    /\ cpc[c] = "cas"
    /\ LET new == cold[c] \cup {"trigger"} IN
       IF cold[c] = new
       THEN cpc' = [cpc EXCEPT ![c] = "idle"] /\ cold' = [cold EXCEPT ![c] = {}] /\ UNCHANGED bits
       ELSE IF bits = cold[c]
       THEN /\ bits' = new
            /\ cpc' = [cpc EXCEPT ![c] = IF "enable" \in new THEN "kill" ELSE "idle"]
            /\ cold' = [cold EXCEPT ![c] = {}]
       ELSE cold' = [cold EXCEPT ![c] = bits] /\ UNCHANGED <<bits, cpc>>
    /\ UNCHANGED <<killed, create, target, signal, join>>

(* Tgkill: ESRCH once the thread is gone.                                  *)
CancelKill(c) ==
    /\ cpc[c] = "kill"
    /\ cpc' = [cpc EXCEPT ![c] = "check"]
    /\ killed' = [killed EXCEPT ![c] = IF Gone THEN "ESRCH" ELSE "0"]
    /\ pending' = (~Gone \/ pending)
    /\ UNCHANGED <<cold, create, bits, target, handler, hold, masked, join>>

(* ESRCH is forgiven if the thread is exiting.                             *)
CancelCheck(c) ==
    /\ cpc[c] = "check"
    /\ cpc' = [cpc EXCEPT ![c] =
                  IF killed[c] = "ESRCH" /\ "exiting" \notin bits THEN "failed" ELSE "idle"]
    /\ killed' = [killed EXCEPT ![c] = "none"]
    /\ UNCHANGED <<cold, create, bits, target, signal, join>>

-----------------------------------------------------------------------------
(* What the thread does on its own once it is in a library function.       *)
TargetStep ==
    \/ Start \/ StateCas \/ StateMask \/ TypeCas \/ ExitCas \/ CpBlock \/ HandlerCas
    \/ XLoad \/ XOr \/ XHandlers \/ XKeys \/ XAgain \/ XStore \/ XDid \/ XWake

(* What its program chooses to do.                                         *)
TargetChoice ==
    \/ FunctionReturns \/ SetState \/ SetType \/ PthreadExit
    \/ TestCancel \/ CpEnter \/ CpReturn \/ CancelSelf

CreateStep == CreatePublish \/ CreateTid \/ CreateWake

JoinStep == JoinLoad \/ JoinFutexWait \/ JoinRead

CancelStep(c) == CancelCas(c) \/ CancelKill(c) \/ CancelCheck(c)

(* Everything but the library code of the thread itself.                   *)
Others ==
    \/ CreateClone \/ CreateStep \/ TargetChoice \/ Deliver
    \/ JoinEnter \/ JoinStep \/ JoinInterrupted \/ Detach
    \/ \E c \in Cancellers : CancelLoad(c) \/ CancelStep(c)

Next == TargetStep \/ Others

Spec == Init /\ [][Next]_vars

-----------------------------------------------------------------------------
(* Correctness.                                                            *)

Results == {"none", "value", "PTHREAD_CANCELED"}

(* The values the variables take.                                          *)
TypeOK ==
    /\ creator \in {"idle", "publish", "tid", "wake", "done"}
    /\ {published, tid, pending, masked, didExit, joinable} \subseteq BOOLEAN
    /\ {bits, old, want, hold} \subseteq SUBSET Flags
    /\ pc \in PCs
    /\ handler \in {"none", "cas"}
    /\ {arg, retval, joined} \subseteq Results
    /\ exits \in Nat
    /\ jpc \in {"idle", "load", "fwait", "sleep", "read", "done", "EINVAL"}
    /\ cpc \in [Cancellers -> {"idle", "cas", "kill", "check", "failed"}]
    /\ cold \in [Cancellers -> SUBSET Flags]
    /\ killed \in [Cancellers -> {"none", "0", "ESRCH"}]

(* pthread_cancel signals the thread only when its tid is stored, although *)
(* the handle is published before: cancellation is enabled last.           *)
KillHasTid == \A c \in Cancellers : cpc[c] = "kill" => tid

(* thread_join returns what the thread passed to thread_exit, or           *)
(* PTHREAD_CANCELED, and never the value a cancelled function left behind. *)
JoinGetsResult == jpc = "done" => didExit /\ joined = arg /\ joined # "none"

-----------------------------------------------------------------------------
(* Liveness: library code runs on, signals are delivered.  Nothing is      *)
(* assumed of what programs choose to do or of system calls returning.     *)
Fairness ==
    /\ WF_vars(CreateStep) /\ WF_vars(TargetStep) /\ WF_vars(Deliver) /\ WF_vars(JoinStep)
    /\ \A c \in Cancellers : WF_vars(CancelStep(c))

FairSpec == Spec /\ Fairness


(* A thread that joins an exiting thread returns, unless a cancellation    *)
(* point in a cleanup handler or destructor made thread_exit end the       *)
(* thread before it could announce itself ("cut").                         *)
JoinReturns == jpc \in {"load", "fwait", "sleep", "read"} /\ exits > 0
                   ~> jpc = "done" \/ pc = "cut"

=============================================================================
