-------------------------------- MODULE Exit --------------------------------
(***************************************************************************)
(* The end of a process, composed with the life of its shared objects:     *)
(* exit() runs the handlers of atexit, then, under the loader lock, the    *)
(* destructors of every object and the handlers registered for it, and     *)
(* flushes the streams (options/ansi/generic/stdlib.cpp,                   *)
(* options/lsb/generic/dso_exit.cpp, options/rtld/generic/linker.cpp).     *)
(* Handlers and destructors are user code: they may register handlers,     *)
(* call dlopen or fork, while other threads go on.                         *)
(*                                                                         *)
(* Calling exit() from a constructor or from a handler is left out: C      *)
(* leaves a second call by the exiting thread undefined, and a constructor *)
(* holds the loader lock that the first exiting thread needs.  So is a     *)
(* fork while another thread exits, whose child finds exit_mutex locked.   *)
(***************************************************************************)
EXTENDS Linker

CONSTANTS
  Openable,      \* the objects the program opens by name
  MaxHandlers    \* bound: handlers registered

VARIABLES
  exitQueue,     \* registered handlers: the object they belong to, and whether
                 \* the function pointer is still set
  runs,          \* history: how often each handler was called
  destroyed,     \* wasDestroyed
  exitMutex,     \* the thread id that holds exit_mutex
  registered,    \* history: handlers registered when exit() began
  dead           \* the process has ended

exitVars == <<exitQueue, runs, destroyed, exitMutex,
              registered, dead>>
vars == <<linkerVars, exitVars>>

Exiting(t) == \E i \in DOMAIN stack[t] : stack[t][i].kind = "exit"
InFrame(t, kind) == t \in alive /\ stack[t] # <<>> /\ Top(t).kind = kind

Push(t, fr) == stack' = [stack EXCEPT ![t] = Append(@, fr)]

unchangedLinker == UNCHANGED <<repoVars, lockVars, scheduled, initialized,
                               destructQueue, rtsCounter, handles>>
-----------------------------------------------------------------------------
\* The object whose code t runs: the one being constructed or destroyed, or
\* the executable.
RunsObject(fr) == fr.kind = "open" \/ (fr.kind = "exit" /\ fr.step = "fini")
CodeOf(t) == IF stack[t] # <<>> /\ RunsObject(Top(t)) THEN Top(t).cur ELSE Exe

\* atexit registers for the process, a static C++ object for its own object.
__cxa_atexit(t, dso) ==
  /\ UserCode(t)
  /\ Len(exitQueue) < MaxHandlers
  /\ exitQueue' = Append(exitQueue, [dso |-> dso, set |-> TRUE])
  /\ runs' = Append(runs, 0)
  /\ UNCHANGED <<stack, destroyed, exitMutex, registered, dead>>
  /\ unchangedLinker

-----------------------------------------------------------------------------

exit(t) ==
  /\ t \in alive /\ stack[t] = <<>>
  /\ exitMutex = None
  /\ exitMutex' = Tid(t)
  /\ registered' = Len(exitQueue)
  /\ Push(t, [kind |-> "exit", step |-> "handlers", i |-> Len(exitQueue),
             size |-> 0, cur |-> None])
  /\ UNCHANGED <<exitQueue, runs, destroyed, dead>>
  /\ unchangedLinker

\* The handlers a loop downwards from i still finds: set, and of the kind it
\* runs (dso = None for the loop of __mlibc_do_finalize).
Found(i, dso) == {j \in 1..i : exitQueue[j].set /\ exitQueue[j].dso = dso}
Greatest(S) == CHOOSE j \in S : \A k \in S : k <= j

CallHandler(t, dso) ==
  LET j == Greatest(Found(Top(t).i, dso))
  IN  /\ Top(t).cur = None
      /\ Found(Top(t).i, dso) # {}
      /\ stack' = SetTop(t, [Top(t) EXCEPT !.i = j - 1, !.cur = j,
                                       !.size = Len(exitQueue)])
      /\ runs' = [runs EXCEPT ![j] = @ + 1]
      /\ UNCHANGED <<exitQueue, destroyed, exitMutex, registered, dead>>
      /\ unchangedLinker

\* The function pointer is cleared through a reference taken before the call;
\* when the queue grew meanwhile that may be the old storage.
ClearHandler(t) ==
  LET j == Top(t).cur
  IN  /\ j # None
      /\ \E set \in IF Len(exitQueue) > Top(t).size THEN BOOLEAN ELSE {FALSE} :
           exitQueue' = [exitQueue EXCEPT ![j].set = set]
      /\ stack' = SetTop(t, [Top(t) EXCEPT !.cur = None])
      /\ UNCHANGED <<runs, destroyed, exitMutex, registered, dead>>
      /\ unchangedLinker

HandlerCall(t) == InFrame(t, "exit") /\ Top(t).step = "handlers" /\ CallHandler(t, None)
HandlerReturn(t) == InFrame(t, "exit") /\ Top(t).step = "handlers" /\ ClearHandler(t)

\* __dlapi_exit waits for the loader lock.
HandlersDone(t) ==
  /\ InFrame(t, "exit") /\ Top(t).step = "handlers" /\ Top(t).cur = None
  /\ Found(Top(t).i, None) = {}
  /\ MayLock(t)
  /\ loaderLock' = Locked(t)
  /\ stack' = SetTop(t, [Top(t) EXCEPT !.step = "fini"])
  /\ UNCHANGED <<exitVars, repoVars, generation, alive, scheduled, initialized,
                 destructQueue, rtsCounter, handles>>

\* destructObjects pops the object; doDestruct marks it before it runs it.
DtorCall(t) ==
  /\ InFrame(t, "exit") /\ Top(t).step = "fini" /\ Top(t).cur = None
  /\ destructQueue # <<>>
  /\ destructQueue' = Front(destructQueue)
  /\ LET o == Last(destructQueue)
         skip == o \notin initialized \/ o \in destroyed
     IN  /\ destroyed' = destroyed \cup (IF skip THEN {} ELSE {o})
         /\ stack' = SetTop(t, [Top(t) EXCEPT !.cur = IF skip THEN None ELSE o])
  /\ UNCHANGED <<exitQueue, runs, exitMutex, registered, dead,
                 repoVars, lockVars, scheduled, initialized, rtsCounter, handles>>

\* The last function of an object's fini array calls __cxa_finalize for it.
DtorReturn(t) ==
  /\ InFrame(t, "exit") /\ Top(t).step = "fini" /\ Top(t).cur # None
  /\ stack' = [stack EXCEPT ![t] = Append(Front(@), [Top(t) EXCEPT !.cur = None]) \o
                 <<[kind |-> "finalize", dso |-> Top(t).cur, size |-> 0,
                    i |-> Len(exitQueue), cur |-> None]>>]
  /\ UNCHANGED exitVars
  /\ unchangedLinker

FinalizeCall(t) == InFrame(t, "finalize") /\ CallHandler(t, Top(t).dso)
FinalizeReturn(t) == InFrame(t, "finalize") /\ ClearHandler(t)
FinalizeDone(t) ==
  /\ InFrame(t, "finalize") /\ Top(t).cur = None
  /\ Found(Top(t).i, Top(t).dso) = {}
  /\ stack' = [stack EXCEPT ![t] = Pop(t)]
  /\ UNCHANGED exitVars
  /\ unchangedLinker

DtorsDone(t) ==
  /\ InFrame(t, "exit") /\ Top(t).step = "fini" /\ Top(t).cur = None
  /\ destructQueue = <<>>
  /\ loaderLock' = Unlocked
  /\ stack' = SetTop(t, [Top(t) EXCEPT !.step = "flush"])
  /\ UNCHANGED <<exitVars, repoVars, generation, alive, scheduled, initialized,
                 destructQueue, rtsCounter, handles>>

\* The streams are flushed and the process ends.
Terminate(t) ==
  /\ InFrame(t, "exit") /\ Top(t).step = "flush"
  /\ dead' = TRUE
  /\ UNCHANGED <<exitQueue, runs, destroyed, exitMutex, registered, stack>>
  /\ unchangedLinker

-----------------------------------------------------------------------------
Init ==
  /\ LinkerInit
  /\ exitQueue = <<>> /\ runs = <<>>
  /\ destroyed = {}
  /\ exitMutex = None
  /\ registered = 0
  /\ dead = FALSE

\* What the program may do next, of its own choice.
Choose(t) ==
  \/ /\ \/ \E o \in Openable : DlOpenPromote(t, o) \/ DlOpenNoload(t, o)
        \/ \E o \in Openable, global \in BOOLEAN : DlOpenLoad(t, o, global)
        \/ exitMutex \in {None, Tid(t)} /\ Fork(t)
     /\ UNCHANGED exitVars
  \/ \E dso \in {None, CodeOf(t)} : __cxa_atexit(t, dso)
  \/ exit(t)

\* The steps of the library, and the return of callbacks.
Step(t) ==
  \/ (CtorCall(t) \/ CtorReturn(t) \/ DlOpenReturn(t)) /\ UNCHANGED exitVars
  \/ HandlerCall(t) \/ HandlerReturn(t) \/ HandlersDone(t)
  \/ DtorCall(t) \/ DtorReturn(t) \/ DtorsDone(t)
  \/ FinalizeCall(t) \/ FinalizeReturn(t) \/ FinalizeDone(t)
  \/ Terminate(t)

Next == ~dead /\ \E t \in Threads : Choose(t) \/ Step(t)

\* The scheduler runs every thread, and callbacks return.
Spec == Init /\ [][Next]_vars /\ \A t \in Threads : WF_vars(~dead /\ Step(t))
-----------------------------------------------------------------------------
(***************************************************************************)
(* Properties                                                              *)
(***************************************************************************)
RECURSIVE Closure(_, _)
Closure(S, n) == IF n = 0 THEN S
                 ELSE Closure(S \cup UNION {ToSet(needed[o]) : o \in S}, n - 1)
Reach(o) == Closure({o}, Cardinality(Objs))

Frames(t, kind) == {i \in DOMAIN stack[t] : stack[t][i].kind = kind}

\* Constructors run once, and behind those of the dependencies ("every object
\* is initialized *after* its dependencies"), save for cycles and for a
\* dependency whose turn in an enclosing dlopen of the same thread is to come.
InitOrder ==
  \A t \in alive : \A i \in Frames(t, "open") :
    LET o == stack[t][i].cur
    IN  o # None =>
          /\ o \notin initialized
          /\ \A d \in ToSet(needed[o]) :
               \/ d \in initialized
               \/ o \in Reach(d)
               \/ \E j \in Frames(t, "open") :
                    /\ j < i
                    /\ d = stack[t][j].cur \/ Contains(stack[t][j].queue, d)



\* The loader lock is held by a thread that exists, once for every dlopen of it
\* that is under way and once for the destructors: also in the child of a fork,
\* where a forgotten owner would block every later dlopen and exit.
LoaderLockHeld ==
  LET Holds(fr) == (fr.kind = "open" /\ fr.locked) \/ (fr.kind = "exit" /\ fr.step = "fini")
      depth(t) == Cardinality({i \in DOMAIN stack[t] : Holds(stack[t][i])})
  IN  /\ loaderLock.owner = None <=> loaderLock.depth = 0
      /\ \A t \in Threads : IF loaderLock.owner = Tid(t)
                            THEN t \in alive /\ loaderLock.depth = depth(t)
                            ELSE depth(t) = 0
      /\ loaderLock.owner = None \/ \E t \in alive : loaderLock.owner = Tid(t)


\* A process in which a thread called exit() ends, though it may have to wait
\* for the dlopen of another thread.
ExitTerminates == \A t \in Threads : (t \in alive /\ Exiting(t)) ~> dead
=============================================================================
