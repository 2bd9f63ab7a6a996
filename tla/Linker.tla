------------------------------- MODULE Linker -------------------------------
(***************************************************************************)
(* The life of shared objects in the dynamic linker: dlopen discovers the  *)
(* dependencies of an object, adds them to a scope, binds their symbols    *)
(* and runs their constructors (options/rtld/generic/main.cpp, linker.cpp),*)
(* all under the recursive loader lock.  Constructors are user code: they  *)
(* may call dlopen again while the outer call is still going on.           *)
(*                                                                         *)
(* A thread is the stack of its calls that are under way.  A frame "open"  *)
(* is a dlopen (or the linking at program start) that runs the             *)
(* constructors of its init queue; cur is the callback it is waiting for.  *)
(* ELF parsing, relocation and thread-local storage are left out; what a   *)
(* relocation can see, the search order of symbols, is kept.               *)
(***************************************************************************)
EXTENDS Naturals, Sequences, SequencesExt, FiniteSets

CONSTANTS
  Objs, Exe,       \* the objects, among them the executable
  Graphs,          \* DT_NEEDED lists: functions from Objs to sequences of Objs
  Threads, Main,
  MaxRts,          \* bound: the last timestamp a dlopen may take
  None

VARIABLES
  needed,          \* the graph: what each object depends on, in order
  loaded,          \* loadedObjects
  objectRts,       \* timestamp of the dlopen that loaded an object
  globalRts,       \* timestamp at which it entered the global scope, 0 if not
  localScope,      \* the scope an object was loaded into
  scopes,          \* the objects of each scope, in order
  bound,           \* the objects searched when an object was relocated
  scheduled,       \* scheduledForInit
  initialized,     \* wasInitialized
  destructQueue,   \* _destructQueue, a stack
  rtsCounter,
  loaderLock,      \* owner (a thread id) and recursion depth
  generation,      \* thread ids change in the child of a fork
  alive,           \* threads that exist
  stack,           \* the calls under way in each thread
  handles          \* the objects dlopen returned to a thread

repoVars == <<needed, loaded, objectRts, globalRts, localScope, scopes, bound>>
lockVars == <<loaderLock, generation, alive>>
linkerVars == <<repoVars, lockVars, scheduled, initialized, destructQueue,
                rtsCounter, stack, handles>>

Tid(t) == <<t, generation>>
Top(t) == Last(stack[t])
Pop(t) == Front(stack[t])
SetTop(t, fr) == [stack EXCEPT ![t] = Append(Front(@), fr)]

\* t is in the program's own code: outside every call, or in a callback.
UserCode(t) == /\ t \in alive
               /\ stack[t] # <<>> => Top(t).cur # None

MayLock(t) == loaderLock.owner \in {None, Tid(t)}
Locked(t) == [owner |-> Tid(t), depth |-> loaderLock.depth + 1]

\* Mutant: the last unlock leaves the owner in place.
ReleaseNever(lk) == [lk EXCEPT !.depth = @ - 1]

Release(lk) == [owner |-> IF lk.depth = 1 THEN None ELSE lk.owner, depth |-> lk.depth - 1]
Unlocked == Release(loaderLock)
-----------------------------------------------------------------------------
(***************************************************************************)
(* The breadth-first order of an object and its dependencies, the search   *)
(* of symbols in scopes, and the queue of constructors.                    *)
(***************************************************************************)
RECURSIVE BfsFrom(_, _, _)
BfsFrom(queue, seen, i) ==
  IF i > Len(queue) THEN queue
  ELSE LET new == SelectSeq(needed[queue[i]], LAMBDA d : d \notin seen)
       IN  BfsFrom(queue \o new, seen \cup ToSet(new), i + 1)

\* The root is not entered in the set of visited objects.
LinkBfs(root) == BfsFrom(<<root>>, {}, 1)

AppendObjects(scope, objects) ==
  FoldLeft(LAMBDA s, o : IF Contains(s, o) THEN s ELSE Append(s, o), scope, objects)


\* Scope::resolveSymbol: the objects that became global after rts are passed
\* over; in the global scope the search stops at the first of them.
Visible(scope, isGlobal, rts, gRts) ==
  LET late == {i \in DOMAIN scope : gRts[scope[i]] > rts}
      stop == CHOOSE i \in late : \A j \in late : i <= j
  IN  IF isGlobal
      THEN IF late = {} THEN scope ELSE SubSeq(scope, 1, stop - 1)
      ELSE SelectSeq(scope, LAMBDA o : gRts[o] <= rts)

resolveGlobalOrLocal(scp, scope, rts, gRts) ==
  Visible(scp["global"], TRUE, rts, gRts) \o
  Visible(scp[scope], scope = "global", rts, gRts)

RECURSIVE ScheduleInit(_, _)
ScheduleInit(o, st) ==
  LET deps == FoldLeft(LAMBDA s, d : IF d \in s.scheduled THEN s ELSE ScheduleInit(d, s),
                       [st EXCEPT !.scheduled = @ \cup {o}], needed[o])
  IN  [deps EXCEPT !.queue = Append(@, o)]

\* Mutant: the breadth-first order is kept.
InitQueueBfs(bfs, done) ==
  [scheduled |-> done \cup ToSet(bfs), queue |-> SelectSeq(bfs, LAMBDA o : o \notin done)]

InitQueue(bfs, done) ==
  FoldLeft(LAMBDA s, o : IF o \in s.scheduled THEN s ELSE ScheduleInit(o, s),
           [scheduled |-> done, queue |-> <<>>], bfs)
-----------------------------------------------------------------------------
(***************************************************************************)
(* dlopen.  The counter ticks whatever comes of the call.                  *)
(***************************************************************************)
OpenFrame(root, queue, locked) ==
  [kind |-> "open", root |-> root, queue |-> queue, locked |-> locked, cur |-> None]

EnterOpen(t) ==
  /\ UserCode(t)
  /\ MayLock(t)
  /\ rtsCounter < MaxRts
  /\ rtsCounter' = rtsCounter + 1

\* A local object that is opened with RTLD_GLOBAL joins the global scope.
DlOpenPromote(t, o) ==
  /\ EnterOpen(t)
  /\ o \in loaded /\ globalRts[o] = 0
  /\ globalRts' = [globalRts EXCEPT ![o] = rtsCounter]
  /\ scopes' = [scopes EXCEPT !["global"] = AppendObjects(@, <<o>>)]
  /\ handles' = [handles EXCEPT ![t] = @ \cup {o}]
  /\ UNCHANGED <<needed, loaded, objectRts, localScope, bound, lockVars, scheduled,
                 initialized, destructQueue, stack>>

\* RTLD_NOLOAD returns what is loaded, ready or not.  (Without it, or when no
\* file is found, the call fails and only the counter has ticked.)
DlOpenNoload(t, o) ==
  /\ EnterOpen(t)
  /\ o \in loaded \ handles[t]
  /\ handles' = [handles EXCEPT ![t] = @ \cup {o}]
  /\ UNCHANGED <<repoVars, lockVars, scheduled, initialized, destructQueue, stack>>

(***************************************************************************)
(* The object and the dependencies that are new are loaded, into a scope   *)
(* of their own or the global one; linkObjects adds the whole breadth-     *)
(* first order to the scope of the root, binds the new objects; initObjects*)
(* schedules what is not scheduled yet.                                    *)
(***************************************************************************)
DlOpenLoad(t, o, global) ==
  /\ EnterOpen(t)
  /\ ~(global /\ o \in loaded /\ globalRts[o] = 0)
  /\ LET scope == IF o \in loaded THEN localScope[o] ELSE IF global THEN "global" ELSE o
         bfs == LinkBfs(o)
         new == ToSet(bfs) \ loaded
         gRts == [x \in Objs |-> IF scope = "global" /\ Contains(bfs, x) /\ globalRts[x] = 0
                                 THEN rtsCounter ELSE globalRts[x]]
         scp == [scopes EXCEPT ![scope] = AppendObjects(@, bfs)]
         init == InitQueue(bfs, scheduled)
     IN  /\ loaded' = loaded \cup new
         /\ objectRts' = [x \in Objs |-> IF x \in new THEN rtsCounter ELSE objectRts[x]]
         /\ localScope' = [x \in Objs |-> IF x \in new THEN scope ELSE localScope[x]]
         /\ globalRts' = gRts
         /\ scopes' = scp
         /\ bound' = [x \in Objs |->
              IF x \in new THEN resolveGlobalOrLocal(scp, scope, rtsCounter, gRts) ELSE bound[x]]
         /\ scheduled' = init.scheduled
         /\ stack' = [stack EXCEPT ![t] = Append(@, OpenFrame(o, init.queue, TRUE))]
  /\ loaderLock' = Locked(t)
  /\ UNCHANGED <<needed, generation, alive, initialized, destructQueue, handles>>

\* initObjects: the next constructor is called, and has returned.
CtorCall(t) ==
  /\ stack[t] # <<>> /\ Top(t).kind = "open" /\ Top(t).cur = None
  /\ Top(t).queue # <<>>
  /\ LET next == Head(Top(t).queue)
     IN  stack' = SetTop(t, [Top(t) EXCEPT !.queue = Tail(@),
                                           !.cur = IF next \in initialized THEN None ELSE next])
  /\ UNCHANGED <<repoVars, lockVars, scheduled, initialized, destructQueue,
                 rtsCounter, handles>>

CtorReturn(t) ==
  /\ stack[t] # <<>> /\ Top(t).kind = "open" /\ Top(t).cur # None
  /\ initialized' = initialized \cup {Top(t).cur}
  /\ destructQueue' = Append(destructQueue, Top(t).cur)
  /\ stack' = SetTop(t, [Top(t) EXCEPT !.cur = None])
  /\ UNCHANGED <<repoVars, lockVars, scheduled, rtsCounter, handles>>

\* The end of the program start lets the program create its other threads,
\* unless it has become the child of a fork, which stays single-threaded.
DlOpenReturn(t) ==
  /\ stack[t] # <<>> /\ Top(t).kind = "open" /\ Top(t).cur = None
  /\ Top(t).queue = <<>>
  /\ stack' = [stack EXCEPT ![t] = Pop(t)]
  /\ handles' = [handles EXCEPT ![t] = @ \cup {Top(t).root}]
  /\ loaderLock' = IF Top(t).locked THEN Unlocked ELSE loaderLock
  /\ alive' = IF Top(t).locked \/ generation > 0 THEN alive ELSE Threads
  /\ UNCHANGED <<repoVars, generation, scheduled, initialized, destructQueue,
                 rtsCounter>>

(***************************************************************************)
(* fork takes the loader lock; the child is left with the calling thread,  *)
(* under a new id, rebinds the lock to it and releases it.                 *)
(***************************************************************************)
\* Mutant: the child resets the lock, whoever held it.
ResetAfterFork(lk, parent, child) == [owner |-> None, depth |-> 1]

rebind_after_fork(lk, parent, child) ==
  IF lk.owner = parent THEN [lk EXCEPT !.owner = child] ELSE [owner |-> None, depth |-> 0]

Fork(t) ==
  /\ UserCode(t)
  /\ generation = 0
  /\ MayLock(t)
  /\ generation' = generation + 1
  /\ loaderLock' = Release(rebind_after_fork(Locked(t), Tid(t), <<t, generation + 1>>))
  /\ alive' = {t}
  /\ stack' = [u \in Threads |-> IF u = t THEN stack[t] ELSE <<>>]
  /\ UNCHANGED <<repoVars, scheduled, initialized, destructQueue, rtsCounter, handles>>

\* Program start: the executable is linked into the global scope without the
\* lock, before there is a second thread.
LinkerInit ==
  /\ needed \in Graphs
  /\ LET bfs == LinkBfs(Exe)
         all == ToSet(bfs)
         gRts == [x \in Objs |-> IF x \in all THEN 1 ELSE 0]
         scp == [s \in Objs \cup {"global"} |-> IF s = "global" THEN AppendObjects(<<>>, bfs) ELSE <<>>]
         init == InitQueue(bfs, {})
     IN  /\ loaded = all
         /\ objectRts = gRts
         /\ globalRts = gRts
         /\ localScope = [x \in Objs |-> IF x \in all THEN "global" ELSE None]
         /\ scopes = scp
         /\ bound = [x \in Objs |-> IF x \in all THEN resolveGlobalOrLocal(scp, "global", 1, gRts)
                                                ELSE <<>>]
         /\ scheduled = init.scheduled
         /\ stack = [t \in Threads |->
                       IF t = Main THEN <<OpenFrame(Exe, init.queue, FALSE)>> ELSE <<>>]
  /\ initialized = {}
  /\ destructQueue = <<>>
  /\ rtsCounter = 2
  /\ loaderLock = [owner |-> None, depth |-> 0]
  /\ generation = 0
  /\ alive = {Main}
  /\ handles = [t \in Threads |-> {}]
=============================================================================
