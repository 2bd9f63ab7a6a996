-------------------------------- MODULE Aio --------------------------------
(***************************************************************************)
(* POSIX asynchronous I/O on io_uring: options/posix/generic/aio.cpp over  *)
(* sysdeps/linux/generic/posix/aio.cpp.  Threads of the program put        *)
(* requests into a queue that a worker thread moves into the ring; the     *)
(* worker publishes each completion in the control block (struct aiocb)    *)
(* and wakes aio_suspend, lio_listio and aio_cancel, which sleep on        *)
(* futexes.  A section the program's threads run under aioWorker.lock is   *)
(* one step; the worker's own section (handle_cqe) is several, because     *)
(* aio_suspend, aio_return and lio_listio look at its effects without the  *)
(* lock.  Objects of the heap are addresses that are allocated and freed.  *)
(***************************************************************************)
EXTENDS Naturals, Sequences, FiniteSets, SequencesExt, FiniteSetsExt

CONSTANTS
    Threads,      \* the program's threads
    Cbs,          \* control blocks, all for one file descriptor
    Arrays,       \* the lists of control blocks the program passes to a call
    Submitters,   \* the threads that submit requests and take their results
    Watchers,     \* the threads that suspend and cancel
    MaxContexts,  \* bound: addresses of AioContext objects
    MaxLists,     \* bound: addresses of AioListioContext objects
    MaxCalls      \* bound: MaxCalls[t] calls of thread t in a behaviour

ASSUME AioAssumption ==
    /\ Arrays \subseteq Seq(Cbs) \ {<<>>}
    /\ Submitters \subseteq Threads
    /\ Watchers \subseteq Threads
    /\ MaxContexts \in Nat
    /\ MaxLists \in Nat
    /\ MaxCalls \in [Threads -> Nat]

VARIABLES
    cb,           \* cb[c]: __state and __ctx
    ctx,          \* the AioContext at each address
    lio,          \* the AioListioContext at each address
    queue,        \* aioWorker.queue
    inFlight,     \* aioWorker.inFlight
    subFd,        \* submissionFd is readable
    initialized,  \* aioWorker.initialized
    locked,       \* the worker holds aioWorker.lock
    w,            \* the worker: its step, the events left, what handle_cqe holds
    thr,          \* thr[t]: the call t is in, with its locals
    calls,        \* calls[t]: calls t has made
    ring,         \* the kernel: requests it works on
    cq,           \* the kernel: the completion queue
    ringFd        \* the kernel: ringFd is readable

kernel == <<ring, cq, ringFd>>
worker == <<inFlight, locked, w>>
vars == <<cb, ctx, lio, queue, subFd, initialized, thr, calls, worker, kernel>>

-----------------------------------------------------------------------------
Contexts == 1..MaxContexts
Lists == 1..MaxLists
Null == 0
Free == [free |-> TRUE]

Alive(heap) == {a \in DOMAIN heap : heap[a] # Free}

(* The allocator reuses the lowest address that is free; addresses are     *)
(* only compared with each other.                                          *)
Fresh(heap) == Min(DOMAIN heap \ Alive(heap))

Request(c, l) == [kind |-> "op", parent |-> c, list |-> l, target |-> Null]
CancelOne(t, x) == [kind |-> "cancel", sync |-> t, target |-> {x}, list |-> Null]
CancelFd(t) == [kind |-> "cancel", sync |-> t, target |-> Contexts, list |-> Null]

Idle == [pc |-> "idle", call |-> "none", cbs |-> <<>>, todo |-> <<>>,
         list |-> Null, x |-> Null, exp |-> 0, sync |-> "none"]

Goto(t, l) == thr' = [thr EXCEPT ![t].pc = l]
Leave(t) == thr' = [thr EXCEPT ![t] = Idle]
At(t, l) == thr[t].pc = l

(* The futex: every thread of ts that sleeps at step "from" goes on at     *)
(* step l.                                                                 *)
Woken(from, l, ts) ==
    [t \in Threads |-> IF t \in ts /\ At(t, from) THEN [thr[t] EXCEPT !.pc = l] ELSE thr[t]]

Init ==
    /\ cb = [c \in Cbs |-> [state |-> "invalid", ctx |-> Null]]
    /\ ctx = [x \in Contexts |-> Free]
    /\ lio = [l \in Lists |-> Free]
    /\ queue = <<>>
    /\ inFlight = {}
    /\ subFd = FALSE
    /\ initialized = FALSE
    /\ locked = FALSE
    /\ w = [pc |-> "off", events |-> {}, x |-> Null, owned |-> FALSE]
    /\ thr = [t \in Threads |-> Idle]
    /\ calls = [t \in Threads |-> 0]
    /\ ring = {}
    /\ cq = <<>>
    /\ ringFd = FALSE

-----------------------------------------------------------------------------
(* What the program may do: a control block is not handed to a call, nor   *)
(* its result taken, while another call still uses it, and aio_suspend     *)
(* lists requests whose result nobody has taken.  aio_cancel may come at   *)
(* any time.                                                               *)

Uses(t, c) == \E i \in DOMAIN thr[t].cbs : thr[t].cbs[i] = c
Unused(c) == \A t \in Threads : ~Uses(t, c)
Done(c) == cb[c].state \in {"success", "cancelled"}

Entries(a, valid) == [i \in DOMAIN a |-> [cb |-> a[i], valid |-> a[i] \in valid]]

-----------------------------------------------------------------------------
(* aio_read, aio_write, aio_fsync, lio_listio                              *)

Submit(t, a) ==
    /\ At(t, "idle")
    /\ Len(a) = 1
    /\ Unused(a[1])
    /\ cb[a[1]].state # "in_progress"
    /\ thr' = [thr EXCEPT ![t] = [Idle EXCEPT !.pc = "entry", !.call = "one", !.cbs = a,
                                              !.todo = Entries(a, ToSet(a))]]
    /\ UNCHANGED <<cb, ctx, lio, queue, subFd, initialized, worker, kernel>>

(* aio_fsync of a descriptor that is not open.                             *)
FsyncRefused(t, a) ==
    /\ At(t, "idle")
    /\ Len(a) = 1
    /\ Unused(a[1])
    /\ cb[a[1]].state # "in_progress"
    /\ cb' = [cb EXCEPT ![a[1]].state = "success"]
    /\ UNCHANGED <<ctx, lio, queue, subFd, initialized, thr, worker, kernel>>

(* Mutant: the entries lio_listio will refuse are counted too.             *)
ValidOpcodesAll(a, valid) == Len(a)

(* The requests lio_listio will submit.                                    *)
ValidOpcodes(a, valid) == Cardinality(valid)

(* lio_listio with the entries of "a", of which those in "valid" have a    *)
(* valid opcode and size.  Mode "wait" is LIO_WAIT, "notify" and "silent"  *)
(* are LIO_NOWAIT with and without a notification to send.                 *)
ListioStart(t, mode, a, valid) ==
    /\ At(t, "idle")
    /\ \A i \in DOMAIN a : Unused(a[i]) /\ cb[a[i]].state # "in_progress"
    /\ IF valid = {}
       THEN UNCHANGED <<lio, thr>>
       ELSE LET needed == mode # "silent"
                l == IF needed THEN Fresh(lio) ELSE Null
            IN /\ needed => Alive(lio) # Lists
               /\ thr' = [thr EXCEPT ![t] = [Idle EXCEPT !.pc = "entry", !.call = mode, !.cbs = a,
                                                         !.todo = Entries(a, valid), !.list = l]]
               /\ lio' = IF needed
                         THEN [lio EXCEPT ![l] = [pending |-> ValidOpcodes(a, valid),
                                                  owned |-> mode = "notify"]]
                         ELSE lio
    /\ UNCHANGED <<cb, ctx, queue, subFd, initialized, worker, kernel>>

AfterEntry(r) ==
    LET rest == Tail(r.todo)
    IN CASE rest # <<>> -> [r EXCEPT !.todo = rest, !.pc = "entry"]
         [] rest = <<>> /\ r.call = "wait" -> [r EXCEPT !.todo = <<>>, !.pc = "lio_load"]
         [] OTHER -> Idle

(* An entry lio_listio refuses.                                            *)
Reject(t) ==
    LET e == Head(thr[t].todo)
    IN /\ At(t, "entry")
       /\ ~e.valid
       /\ cb' = [cb EXCEPT ![e.cb].state = "success"]
       /\ thr' = [thr EXCEPT ![t] = AfterEntry(@)]
       /\ UNCHANGED <<ctx, lio, queue, subFd, initialized, worker, kernel>>

(* setupObserverThread: where its test without the lock leads.             *)
SetupThen(l) == IF initialized THEN l ELSE "setup_lock"

(* The context of a request is built, the control block says that it is in *)
(* progress, and enqueueWorkerRequest looks whether there is a worker.     *)
Prepare(t) ==
    LET e == Head(thr[t].todo)
        x == Fresh(ctx)
    IN /\ At(t, "entry")
       /\ e.valid
       /\ Alive(ctx) # Contexts
       /\ ctx' = [ctx EXCEPT ![x] = Request(e.cb, thr[t].list)]
       /\ cb' = [cb EXCEPT ![e.cb] = [state |-> "in_progress", ctx |-> x]]
       /\ thr' = [thr EXCEPT ![t].pc = SetupThen("push"), ![t].x = x]
       /\ UNCHANGED <<lio, queue, subFd, initialized, worker, kernel>>

(* The rest of setupObserverThread, under the lock.                        *)
SetupLocked(t) ==
    /\ At(t, "setup_lock")
    /\ ~locked
    /\ w' = IF initialized THEN w ELSE [w EXCEPT !.pc = "loop"]
    /\ initialized' = TRUE
    /\ Goto(t, IF thr[t].call = "cancel" THEN "cancel" ELSE "push")
    /\ UNCHANGED <<cb, ctx, lio, queue, subFd, inFlight, locked, kernel>>

(* enqueueWorkerRequest: the queue under the lock, then the eventfd.       *)
Push(t) ==
    /\ At(t, "push")
    /\ ~locked
    /\ queue' = Append(queue, thr[t].x)
    /\ Goto(t, "bell")
    /\ UNCHANGED <<cb, ctx, lio, subFd, initialized, worker, kernel>>

Bell(t) ==
    /\ At(t, "bell")
    /\ subFd' = TRUE
    /\ thr' = [thr EXCEPT ![t] = IF @.call = "cancel" THEN [@ EXCEPT !.pc = "cancel_wait"]
                                 ELSE AfterEntry([@ EXCEPT !.x = Null])]
    /\ UNCHANGED <<cb, ctx, lio, queue, initialized, worker, kernel>>

-----------------------------------------------------------------------------
(* lio_listio(LIO_WAIT) waits for "pending" to become zero.                *)

LioLoad(t) ==
    LET n == lio[thr[t].list].pending
    IN /\ At(t, "lio_load")
       /\ thr' = [thr EXCEPT ![t].exp = n, ![t].pc = IF n = 0 THEN "lio_done" ELSE "lio_wait"]
       /\ UNCHANGED <<cb, ctx, lio, queue, subFd, initialized, worker, kernel>>

(* Mutant: "expected" is read again for the call, so that it always fits.  *)
LioWaitFresh(t) ==
    /\ At(t, "lio_wait")
    /\ Goto(t, "lio_sleep")
    /\ UNCHANGED <<cb, ctx, lio, queue, subFd, initialized, worker, kernel>>

LioWait(t) ==
    /\ At(t, "lio_wait")
    /\ Goto(t, IF lio[thr[t].list].pending = thr[t].exp THEN "lio_sleep" ELSE "lio_load")
    /\ UNCHANGED <<cb, ctx, lio, queue, subFd, initialized, worker, kernel>>


(* A signal: the call returns EINTR and nobody frees the AioListioContext. *)
LioInterrupted(t) ==
    /\ At(t, "lio_sleep")
    /\ Leave(t)
    /\ UNCHANGED <<cb, ctx, lio, queue, subFd, initialized, worker, kernel>>

LioDone(t) ==
    /\ At(t, "lio_done")
    /\ lio' = [lio EXCEPT ![thr[t].list] = Free]
    /\ Leave(t)
    /\ UNCHANGED <<cb, ctx, queue, subFd, initialized, worker, kernel>>

-----------------------------------------------------------------------------
(* aio_suspend                                                             *)

Suspend(t, a) ==
    /\ At(t, "idle")
    /\ \A i \in DOMAIN a :
          /\ cb[a[i]].state # "invalid"
          /\ \A u \in Threads : Uses(u, a[i]) => thr[u].call \in {"suspend", "cancel"}
    /\ thr' = [thr EXCEPT ![t] = [Idle EXCEPT !.pc = "scan", !.call = "suspend", !.cbs = a, !.todo = a]]
    /\ UNCHANGED <<cb, ctx, lio, queue, subFd, initialized, worker, kernel>>

(* One element of the list; a request that is neither in progress nor      *)
(* done ends the process.                                                  *)
Scan(t) ==
    LET s == cb[Head(thr[t].todo)].state
    IN /\ At(t, "scan")
       /\ thr' = [thr EXCEPT ![t] =
             CASE s \in {"success", "cancelled"} -> Idle
               [] s = "invalid" -> [@ EXCEPT !.pc = "panic"]
               [] OTHER -> [@ EXCEPT !.todo = Tail(@),
                                     !.pc = IF Len(thr[t].todo) = 1 THEN "waitv" ELSE "scan"]]
       /\ UNCHANGED <<cb, ctx, lio, queue, subFd, initialized, worker, kernel>>

Rescan(r) == [r EXCEPT !.pc = "scan", !.todo = r.cbs]

(* futex_waitv sleeps only while every word still says in progress.        *)
WaitV(t) ==
    /\ At(t, "waitv")
    /\ thr' = [thr EXCEPT ![t] = IF \A i \in DOMAIN @.cbs : cb[@.cbs[i]].state = "in_progress"
                                 THEN [@ EXCEPT !.pc = "waitv_sleep"] ELSE Rescan(@)]
    /\ UNCHANGED <<cb, ctx, lio, queue, subFd, initialized, worker, kernel>>

(* The timeout (EAGAIN) or a signal (EINTR).                               *)
SuspendDisturbed(t) ==
    /\ At(t, "waitv_sleep")
    /\ Leave(t)
    /\ UNCHANGED <<cb, ctx, lio, queue, subFd, initialized, worker, kernel>>

-----------------------------------------------------------------------------
(* aio_cancel of one control block or of the descriptor                    *)

Cancel(t, a) ==
    /\ At(t, "idle")
    /\ thr' = [thr EXCEPT ![t] = [Idle EXCEPT !.pc = SetupThen("cancel"), !.call = "cancel",
                                              !.cbs = IF Len(a) = 1 THEN a ELSE <<>>]]
    /\ UNCHANGED <<cb, ctx, lio, queue, subFd, initialized, worker, kernel>>

CancelQueue(t) ==
    LET c == Head(thr[t].cbs)
        x == Fresh(ctx)
    IN /\ At(t, "cancel")
       /\ ~locked
       /\ IF thr[t].cbs # <<>> /\ (cb[c].state # "in_progress" \/ cb[c].ctx = Null)
          THEN /\ Leave(t)     \* AIO_ALLDONE
               /\ UNCHANGED <<ctx, queue>>
          ELSE /\ Alive(ctx) # Contexts
               /\ ctx' = [ctx EXCEPT ![x] = IF thr[t].cbs = <<>> THEN CancelFd(t)
                                            ELSE CancelOne(t, cb[c].ctx)]
               /\ queue' = Append(queue, x)
               /\ thr' = [thr EXCEPT ![t].pc = "bell", ![t].sync = "pending"]
       /\ UNCHANGED <<cb, lio, subFd, initialized, worker, kernel>>

CancelWait(t) ==
    /\ At(t, "cancel_wait")
    /\ Goto(t, IF thr[t].sync = "pending" THEN "cancel_sleep" ELSE "cancel_load")
    /\ UNCHANGED <<cb, ctx, lio, queue, subFd, initialized, worker, kernel>>


CancelInterrupted(t) ==
    /\ At(t, "cancel_sleep")
    /\ Goto(t, "cancel_wait")
    /\ UNCHANGED <<cb, ctx, lio, queue, subFd, initialized, worker, kernel>>

CancelLoad(t) ==
    /\ At(t, "cancel_load")
    /\ Leave(t)
    /\ UNCHANGED <<cb, ctx, lio, queue, subFd, initialized, worker, kernel>>

-----------------------------------------------------------------------------
(* aio_return: the state is read, then the result is taken.                *)

Return(t, c) ==
    /\ At(t, "idle")
    /\ Unused(c)
    /\ Done(c)
    /\ thr' = [thr EXCEPT ![t] = [Idle EXCEPT !.pc = "return", !.call = "return", !.cbs = <<c>>]]
    /\ UNCHANGED <<cb, ctx, lio, queue, subFd, initialized, worker, kernel>>

ReturnTake(t) ==
    /\ At(t, "return")
    /\ cb' = [cb EXCEPT ![Head(thr[t].cbs)].state = "invalid"]
    /\ Leave(t)
    /\ UNCHANGED <<ctx, lio, queue, subFd, initialized, worker, kernel>>

-----------------------------------------------------------------------------
(* aioWorkerThread                                                         *)

Ready == (IF subFd THEN {"sub"} ELSE {}) \cup (IF ringFd THEN {"ring"} ELSE {})

(* epoll_wait reports the descriptors that are readable, in any order; the *)
(* eventfd of an event is cleared before what it announces is looked at.   *)
Event ==
    /\ w.pc = "loop"
    /\ LET events == IF w.events = {} THEN Ready ELSE w.events
       IN \E e \in events :
             /\ w' = [w EXCEPT !.events = events \ {e}, !.pc = IF e = "sub" THEN "drain" ELSE "take"]
             /\ subFd' = (subFd /\ e # "sub")
             /\ ringFd' = (ringFd /\ e # "ring")
    /\ UNCHANGED <<cb, ctx, lio, queue, initialized, thr, inFlight, locked, ring, cq>>

Post(entries) ==
    /\ cq' = cq \o entries
    /\ ringFd' = TRUE

Cqe(x, r) == [ctx |-> x, res |-> r]

(* io_uring_instance::enqueue.  The kernel starts a request; it carries    *)
(* out a cancellation at once, for those of its targets that it can still  *)
(* stop.                                                                   *)
Enqueue(x) ==
    \/ /\ ctx[x].kind = "op"
       /\ ring' = ring \cup {x}
       /\ UNCHANGED <<cq, ringFd>>
    \/ /\ ctx[x].kind = "cancel"
       /\ LET targets == ring \cap ctx[x].target
          IN \E S \in SUBSET targets :
                /\ ring' = ring \ S
                /\ LET r == IF targets = {} THEN "enoent" ELSE IF S = {} THEN "ealready" ELSE "ok"
                   IN Post([i \in 1..Cardinality(S) |-> Cqe(SetToSeq(S)[i], "ecanceled")]
                             \o <<Cqe(x, r)>>)

(* drainQueue: the next request goes into the ring.                        *)
Drain ==
    /\ w.pc = "drain"
    /\ queue # <<>>
    /\ queue' = Tail(queue)
    /\ inFlight' = inFlight \cup {Head(queue)}
    /\ Enqueue(Head(queue))
    /\ UNCHANGED <<cb, ctx, lio, subFd, initialized, thr, locked, w>>

Drained ==
    /\ w.pc = "drain" /\ queue = <<>>
    /\ w' = [w EXCEPT !.pc = "loop"]
    /\ UNCHANGED <<cb, ctx, lio, queue, subFd, initialized, thr, inFlight, locked, kernel>>

(* The kernel finishes a request; whether well or not is left out.         *)
Complete(x) ==
    /\ x \in ring
    /\ ring' = ring \ {x}
    /\ Post(<<Cqe(x, "ok")>>)
    /\ UNCHANGED <<cb, ctx, lio, queue, subFd, initialized, thr, worker>>

-----------------------------------------------------------------------------
(* handle_cqe, for each completion that drainIoUring finds                 *)

Answer(r) == CASE r = "enoent" -> "alldone" [] r = "ok" -> "canceled" [] OTHER -> "notcanceled"

NoMoreCqes ==
    /\ w.pc = "take"
    /\ cq = <<>>
    /\ w' = [w EXCEPT !.pc = "loop"]
    /\ UNCHANGED <<cb, ctx, lio, queue, subFd, initialized, thr, inFlight, locked, kernel>>

(* The answer to a cancellation goes into the caller's syncRes.            *)
TakeCancel ==
    LET x == Head(cq).ctx
    IN /\ w.pc = "take"
       /\ cq # <<>>
       /\ ctx[x].kind = "cancel"
       /\ thr' = [thr EXCEPT ![ctx[x].sync].sync = Answer(Head(cq).res)]
       /\ w' = [w EXCEPT !.pc = "cancel_wake", !.x = x]
       /\ locked' = TRUE
       /\ cq' = Tail(cq)
       /\ UNCHANGED <<cb, ctx, lio, queue, subFd, initialized, inFlight, ring, ringFd>>

CancelWake ==
    /\ w.pc = "cancel_wake"
    /\ thr' = Woken("cancel_sleep", "cancel_load", {ctx[w.x].sync})
    /\ inFlight' = inFlight \ {w.x}
    /\ ctx' = [ctx EXCEPT ![w.x] = Free]
    /\ locked' = FALSE
    /\ w' = [w EXCEPT !.pc = "take", !.x = Null]
    /\ UNCHANGED <<cb, lio, queue, subFd, initialized, kernel>>

(* The result of a request and its state: the state is stored last, with   *)
(* release order, and the other fields are read only after it.             *)
TakeRequest ==
    LET x == Head(cq).ctx
        c == ctx[x].parent
    IN /\ w.pc = "take"
       /\ cq # <<>>
       /\ ctx[x].kind = "op"
       /\ cb' = [cb EXCEPT ![c] = [ctx |-> Null,
             state |-> IF @.state # "in_progress" THEN @.state
                       ELSE IF Head(cq).res = "ecanceled" THEN "cancelled" ELSE "success"]]
       /\ inFlight' = inFlight \ {x}
       /\ w' = [w EXCEPT !.pc = "wake", !.x = x]
       /\ locked' = TRUE
       /\ cq' = Tail(cq)
       /\ UNCHANGED <<ctx, lio, queue, subFd, initialized, thr, ring, ringFd>>

(* The end of handle_cqe: the context is freed and the lock released.      *)
Release ==
    /\ ctx' = [ctx EXCEPT ![w.x] = Free]
    /\ locked' = FALSE
    /\ w' = [w EXCEPT !.pc = "take", !.x = Null, !.owned = FALSE]

Wake ==
    /\ w.pc = "wake"
    /\ thr' = [t \in Threads |-> IF thr[t].pc = "waitv_sleep" /\ Uses(t, ctx[w.x].parent)
                                 THEN Rescan(thr[t]) ELSE thr[t]]
    /\ IF ctx[w.x].list = Null THEN Release
       ELSE w' = [w EXCEPT !.pc = "count"] /\ UNCHANGED <<ctx, locked>>
    /\ UNCHANGED <<cb, lio, queue, subFd, initialized, inFlight, kernel>>

(* sevp and ownedByContext are read before the request is counted off.     *)
Count ==
    LET l == ctx[w.x].list
    IN /\ w.pc = "count"
       /\ lio' = [lio EXCEPT ![l].pending = @ - 1]
       /\ IF lio[l].pending = 1
          THEN /\ w' = [w EXCEPT !.pc = "last", !.owned = lio[l].owned]
               /\ UNCHANGED <<ctx, locked>>
          ELSE Release
       /\ UNCHANGED <<cb, queue, subFd, initialized, thr, inFlight, kernel>>

(* The last request of a list: the notification, the wakeup, the object.   *)
LastOne ==
    LET l == ctx[w.x].list
    IN /\ w.pc = "last"
       /\ thr' = Woken("lio_sleep", "lio_load", {t \in Threads : thr[t].list = l})
       /\ lio' = IF w.owned THEN [lio EXCEPT ![l] = Free] ELSE lio
       /\ Release
       /\ UNCHANGED <<cb, queue, subFd, initialized, inFlight, kernel>>

-----------------------------------------------------------------------------
WorkerStep ==
    \/ Event \/ Drain \/ Drained \/ NoMoreCqes
    \/ TakeCancel \/ CancelWake
    \/ TakeRequest \/ Wake \/ Count \/ LastOne

(* A thread goes on with its call.                                         *)
Proceed(t) ==
    \/ Reject(t) \/ Prepare(t) \/ SetupLocked(t) \/ Push(t) \/ Bell(t)
    \/ LioLoad(t) \/ LioWait(t) \/ LioDone(t)
    \/ Scan(t) \/ WaitV(t)
    \/ CancelQueue(t) \/ CancelWait(t) \/ CancelLoad(t)
    \/ ReturnTake(t)

(* A signal or a timeout.                                                  *)
Disturbed(t) == LioInterrupted(t) \/ SuspendDisturbed(t) \/ CancelInterrupted(t)

Call(t) ==
    \/ /\ t \in Submitters
       /\ \/ \E a \in Arrays :
                \/ Submit(t, a) \/ FsyncRefused(t, a)
                \/ \E mode \in {"wait", "notify", "silent"}, valid \in SUBSET ToSet(a) :
                      Len(a) > 1 /\ ListioStart(t, mode, a, valid)
          \/ \E c \in Cbs : Return(t, c)
    \/ /\ t \in Watchers
       /\ \E a \in Arrays : Cancel(t, a) \/ Suspend(t, a)

Next ==
    \/ WorkerStep /\ UNCHANGED calls
    \/ \E x \in Contexts : Complete(x) /\ UNCHANGED calls
    \/ \E t \in Threads : (Proceed(t) \/ Disturbed(t)) /\ UNCHANGED calls
    \/ \E t \in Threads : Call(t) /\ calls[t] < MaxCalls[t] /\ calls' = [calls EXCEPT ![t] = @ + 1]

Spec == Init /\ [][Next]_vars

-----------------------------------------------------------------------------
(* Properties                                                              *)

OnTheWay(t) == thr[t].pc \in {"setup_lock", "push"} /\ thr[t].x # Null


(* AioListioContext::pending is the number of the list's requests that     *)
(* are not finished, those lio_listio has still to submit included: the    *)
(* notification is sent and LIO_WAIT ends after the last one and not       *)
(* before, however the completions overlap with the submissions.           *)
Outstanding(l) ==
    {x \in Alive(ctx) : ctx[x].list = l /\ ~(w.x = x /\ w.pc = "last")}

ToSubmit(l) ==
    UNION {{<<t, i>> : i \in {j \in DOMAIN thr[t].todo :
                                /\ thr[t].todo[j].valid
                                /\ j = 1 => thr[t].pc = "entry"}}
           : t \in {u \in Threads : thr[u].list = l}}

PendingCounts ==
    \A l \in Alive(lio) : lio[l].pending = Cardinality(Outstanding(l)) + Cardinality(ToSubmit(l))


(* Nothing is forgotten: a request in progress is on its way to the queue, *)
(* in the queue or in flight; a non-empty queue or completion queue has    *)
(* its eventfd set, or is being drained, or the submitter has yet to write *)
(* to the eventfd; and nobody sleeps in aio_suspend, lio_listio or         *)
(* aio_cancel on a futex whose value says that the wait is over, unless    *)
(* the worker is about to wake them.                                       *)
NoLostWakeup ==
    /\ \A c \in Cbs : cb[c].state = "in_progress" =>
          cb[c].ctx \in ToSet(queue) \cup inFlight \cup {thr[t].x : t \in Threads}
    /\ queue # <<>> => subFd \/ w.pc = "drain" \/ \E t \in Threads : At(t, "bell")
    /\ cq # <<>> => ringFd \/ w.pc \notin {"loop", "drain"}
    /\ \A t \in Threads :
          /\ At(t, "waitv_sleep") => \A i \in DOMAIN thr[t].cbs :
                \/ cb[thr[t].cbs[i]].state = "in_progress"
                \/ w.pc = "wake" /\ ctx[w.x].parent = thr[t].cbs[i]
          /\ At(t, "lio_sleep") =>
                \/ lio[thr[t].list].pending > 0
                \/ w.pc = "last" /\ ctx[w.x].list = thr[t].list
          /\ At(t, "cancel_sleep") =>
                \/ thr[t].sync = "pending"
                \/ w.pc = "cancel_wake" /\ ctx[w.x].sync = t
=============================================================================
