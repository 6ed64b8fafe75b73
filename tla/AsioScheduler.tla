---------------------------- MODULE AsioScheduler ----------------------------
(***************************************************************************)
(* The scheduler of a request's asynchronous code (hphp/runtime/ext/asio): *)
(* wait handles that block on one another, the parent chains along which   *)
(* finishing one unblocks the others, and the stack of contexts, one for   *)
(* each join() in progress, whose queues runUntil() works off.             *)
(*                                                                         *)
(* One thread does all of it.  What varies is the PHP code that runs at    *)
(* the bottom of the stack or inside the async function a context resumed  *)
(* (the section "User code": any such code, in any order), the order in    *)
(* which sleeps and external events complete, and timeouts.  A chain is    *)
(* unblocked one parent at a time, as AsioBlockableChain::unblock does:    *)
(* finishing a parent unblocks its own chain before the rest of this one.  *)
(*                                                                         *)
(* Async generators block and resume as async functions that are never     *)
(* fast-resumable do; AwaitAll stands for Concurrent too.                  *)
(***************************************************************************)
EXTENDS Integers, Sequences, FiniteSets, SequencesExt

CONSTANTS
  AsyncFunctions,  \* c_AsyncFunctionWaitHandle
  Jitted,          \* those whose resume address is in translated code
  AwaitAlls,       \* c_AwaitAllWaitHandle and c_ConcurrentWaitHandle
  Conditions,      \* c_ConditionWaitHandle
  Reschedules,     \* c_RescheduleWaitHandle
  Sleeps,          \* c_SleepWaitHandle
  Events,          \* c_ExternalThreadEventWaitHandle
  None,
  MaxContextDepth, \* AsioSession::MAX_CONTEXT_DEPTH
  MaxHandles,      \* bound: handles created in the request
  MaxChildren,     \* bound: children given to one AwaitAll
  MaxInterrupts    \* bound: timeouts and other C++ exceptions

Leaves == Sleeps \cup Events
Handles ==
  AsyncFunctions \cup AwaitAlls \cup Conditions \cup Reschedules \cup Leaves

ASSUME AsioAssumption ==
  /\ IsFiniteSet(Handles)
  /\ AsyncFunctions \cap (AwaitAlls \cup Conditions \cup Reschedules \cup Leaves) = {}
  /\ AwaitAlls \cap (Conditions \cup Reschedules \cup Leaves) = {}
  /\ Conditions \cap (Reschedules \cup Leaves) = {}
  /\ Reschedules \cap Leaves = {}
  /\ Jitted \subseteq AsyncFunctions
  /\ None \notin Handles
  /\ MaxContextDepth \in Nat \ {0}
  /\ MaxHandles \in Nat \ {0}
  /\ MaxChildren \in Nat \ {0}
  /\ MaxInterrupts \in Nat

VARIABLES
  state,      \* m_kind_state of each handle, "none" before it is created;
              \* SCHEDULED is the name of the queue, m_queue
  ctx,        \* m_contextIdx: 0 outside all contexts (and once finished)
  kids,       \* the handles it was blocked on; an AwaitAll's m_children
  unfinished, \* c_AwaitAllWaitHandle::m_unfinished
  parents,    \* m_parentChain: nodes <<parent, index of the child>>, last first
  contexts,   \* AsioSession::m_contexts
  chains,     \* the unblock() calls in progress: what is left of each chain
  batch,      \* leaves that processSleepEvents or processAllReceived will do
  unwinding,  \* a C++ exception leaves all contexts
  interrupts  \* how many such exceptions there were

vars == <<state, ctx, kids, unfinished, parents, contexts, chains, batch,
          unwinding, interrupts>>

Depth == Len(contexts)
Top == contexts[Depth]

\* m_runnableQueue and m_fastRunnableQueue are stacks, the priority queues
\* FIFO (all handles have one priority); the vectors of sleeps and events are
\* one set.  A context knows the join it is for, and the function it runs.
Context(target) ==
  [target |-> target, pc |-> "loop", runner |-> None,
   runnable |-> <<>>, fast |-> <<>>,
   default |-> <<>>, noPendingIO |-> <<>>, waiting |-> {}]

Finished(h) == state[h] \in {"succeeded", "failed"}
Live(h) == state[h] # "none" /\ ~Finished(h)

Queues == {"default", "noPendingIO"}
Scheduled(h) == state[h] \in Queues

-----------------------------------------------------------------------------
\* What a handle waits for, and who waits for it.

\* c_WaitableWaitHandle::getChild
getChild(h) ==
  IF state[h] # "blocked" THEN None
  ELSE IF h \in AwaitAlls THEN kids[h][unfinished[h]] ELSE kids[h][1]

\* The handles reached from those of S; next[h] are the ones next to h.
Reach(S, next) ==
  LET R[n \in 0..Cardinality(Handles)] ==
        IF n = 0 THEN S
        ELSE LET Q == R[n - 1] IN Q \cup UNION {next[h] : h \in Q}
  IN R[Cardinality(Handles)]

\* The handles from h down, stopping at a finished one.
Descent(h) == Reach({h}, [x \in Handles |-> {getChild(x)} \ {None}])

\* Mutant: only a handle that waits for itself is found.
detectSelf(h, child) == h = child

\* Would a dependency of h on child close a cycle?
detectCycle(h, child) == h \in Descent(child)

\* Mutant: of an AwaitAll only the current child.
discoverCurrent(h, c) ==
  {k \in {getChild(h)} \ {None} : Live(k) /\ ctx[k] < c}

\* EnterContext::discover and enqueue: what comes along with h into context c.
discover(h, c) ==
  {k \in ToSet(kids[h]) : state[h] = "blocked" /\ Live(k) /\ ctx[k] < c}

\* The import set of enter_context.
Discovered(root, c) ==
  IF ctx[root] >= c THEN {}
  ELSE Reach({root}, [h \in Handles |-> discover(h, c)])

\* Discovering a running function throws: it serially runs the one that asks.
CrossContextCycle(import) == \E h \in import : state[h] = "running"

isFirstUnfinishedChild(node) ==
  node[1] \in AwaitAlls => node[2] = unfinished[node[1]]

\* AsioBlockableChain::exitContext: the parents that leave context c with h.
ParentsLeaving(h, c) ==
  LET Up == [x \in Handles |->
               {p \in Handles : \E node \in ToSet(parents[x]) :
                  /\ node[1] = p
                  /\ isFirstUnfinishedChild(node)
                  /\ Live(p)
                  /\ ctx[p] = c}]
  IN Reach(Up[h], Up)

isFastResumable(f) == f \in Jitted /\ state[kids[f][1]] = "succeeded"

-----------------------------------------------------------------------------
\* The queues.

\* AsioContext::schedule or scheduleFast of a function that is ready.
ScheduleIn(cs, c, f) ==
  IF isFastResumable(f) THEN [cs EXCEPT ![c].fast = Append(@, f)]
  ELSE [cs EXCEPT ![c].runnable = Append(@, f)]

\* Mutant: in the current context rather than the function's own.
ScheduleUnblockedHere(f) ==
  IF ctx[f] = 0 THEN contexts ELSE ScheduleIn(contexts, Depth, f)

ScheduleUnblocked(f) ==
  IF ctx[f] = 0 THEN contexts ELSE ScheduleIn(contexts, ctx[f], f)

ScheduleRescheduleIn(cs, c, h, queue) ==
  [cs EXCEPT ![c][queue] = Append(@, h)]

registerTo(cs, c, h) == [cs EXCEPT ![c].waiting = @ \cup {h}]

\* unregisterFromContext, if the leaf is in a context.
unregisterFrom(cs, h) ==
  IF ctx[h] = 0 THEN cs ELSE [cs EXCEPT ![ctx[h]].waiting = @ \ {h}]

\* A chain joins those in progress unless nothing is left to unblock in it.
Pending(rest, chain) == IF chain = <<>> THEN rest ELSE Append(rest, chain)

\* h gets its result; rest is what is left of the chains being unblocked.
Finish(h, result, rest) ==
  /\ state' = [state EXCEPT ![h] = result]
  /\ ctx' = [ctx EXCEPT ![h] = 0]
  /\ parents' = [parents EXCEPT ![h] = <<>>]
  /\ chains' = Pending(rest, parents[h])

\* The contexts cs without the leaves that move to another one.
Without(cs, leaves) ==
  [c \in 1..Len(cs) |-> [cs[c] EXCEPT !.waiting = @ \ leaves]]

\* EnterContext::enter of the handles of import in context c of cs.  The import
\* set is a hash set: the order in which it is walked is arbitrary.
Enter(cs, import, c) ==
  LET InState(s) == {h \in import : state[h] = s}
      leaves == import \cap Leaves
  IN /\ ctx' = [h \in Handles |-> IF h \in import THEN c ELSE ctx[h]]
     /\ \E ready \in SetToSeqs(InState("ready")),
           default \in SetToSeqs(InState("default")),
           noPendingIO \in SetToSeqs(InState("noPendingIO")) :
          contexts' = [Without(cs, leaves) EXCEPT
                         ![c].runnable = @ \o ready,
                         ![c].default = @ \o default,
                         ![c].noPendingIO = @ \o noPendingIO,
                         ![c].waiting = @ \cup leaves]

-----------------------------------------------------------------------------
\* Unblocking (AsioBlockableChain::unblock).

Quiet == chains = <<>> /\ batch = {}

\* Mutant: parents are unblocked from the first one added.
unlinkFirst(chain) == [node |-> Head(chain), rest |-> Tail(chain)]

\* The chain is a list that starts at m_lastParent, the last one added.
unlink(chain) == [node |-> Last(chain), rest |-> Front(chain)]

\* The parent to unblock next, and the chains without it.
NextNode == unlink(Last(chains)).node
AfterNode == Pending(Front(chains), unlink(Last(chains)).rest)

asyncFunctionOnUnblocked ==
  /\ chains # <<>>
  /\ NextNode[1] \in AsyncFunctions
  /\ LET f == NextNode[1]
     IN /\ state' = [state EXCEPT ![f] = "ready"]
        /\ contexts' = ScheduleUnblocked(f)
  /\ chains' = AfterNode
  /\ UNCHANGED <<ctx, kids, unfinished, parents, batch, unwinding, interrupts>>

\* The children of AwaitAll a below index i that still have to finish.
UnfinishedBelow(a, i) == {j \in 1..(i - 1) : ~Finished(kids[a][j])}
NextUnfinished(a, i) ==
  CHOOSE j \in UnfinishedBelow(a, i) :
    \A k \in UnfinishedBelow(a, i) : k <= j

\* One of the later children finished.
awaitAllOnUnblockedLater ==
  /\ chains # <<>>
  /\ NextNode[1] \in AwaitAlls
  /\ NextNode[2] # unfinished[NextNode[1]]
  /\ chains' = AfterNode
  /\ UNCHANGED <<state, ctx, kids, unfinished, parents, contexts, batch,
                 unwinding, interrupts>>

\* The current child finished: the next one takes its place.
awaitAllOnUnblockedNext ==
  /\ chains # <<>>
  /\ NextNode[1] \in AwaitAlls
  /\ LET a == NextNode[1]
         i == NextNode[2]
         n == NextUnfinished(a, i)
     IN /\ i = unfinished[a]
        /\ UnfinishedBelow(a, i) # {}
        /\ unfinished' = [unfinished EXCEPT ![a] = n]
        /\ ~detectCycle(a, kids[a][n])
        /\ chains' = AfterNode
  /\ UNCHANGED <<state, ctx, kids, parents, contexts, batch, unwinding,
                 interrupts>>

\* The elements of s that are in S, in their order.
Only(s, S) ==
  LET Kept[n \in 0..Len(s)] ==
        IF n = 0 THEN <<>>
        ELSE IF s[n] \in S THEN Append(Kept[n - 1], s[n]) ELSE Kept[n - 1]
  IN Kept[Len(s)]

removeFromChain(chain, a) == Only(chain, {node \in ToSet(chain) : node[1] # a})

\* The next one waits for this AwaitAll (markAsFailed): it leaves the chains
\* of its unfinished children and fails.
awaitAllOnUnblockedCycle ==
  /\ chains # <<>>
  /\ NextNode[1] \in AwaitAlls
  /\ LET a == NextNode[1]
         i == NextNode[2]
         n == NextUnfinished(a, i)
     IN /\ i = unfinished[a]
        /\ UnfinishedBelow(a, i) # {}
        /\ unfinished' = [unfinished EXCEPT ![a] = n]
        /\ detectCycle(a, kids[a][n])
        /\ state' = [state EXCEPT ![a] = "failed"]
        /\ ctx' = [ctx EXCEPT ![a] = 0]
        /\ parents' = [h \in Handles |->
             IF h = a THEN <<>> ELSE removeFromChain(parents[h], a)]
        /\ chains' = Pending(AfterNode, parents[a])
  /\ UNCHANGED <<kids, contexts, batch, unwinding, interrupts>>

\* All children finished (markAsFinished).
awaitAllOnUnblockedLast ==
  /\ chains # <<>>
  /\ NextNode[1] \in AwaitAlls
  /\ NextNode[2] = unfinished[NextNode[1]]
  /\ UnfinishedBelow(NextNode[1], NextNode[2]) = {}
  /\ Finish(NextNode[1], "succeeded", AfterNode)
  /\ UNCHANGED <<kids, unfinished, contexts, batch, unwinding, interrupts>>

\* The child finished after the condition was notified, or before, which
\* fails the condition.
conditionOnUnblocked ==
  /\ chains # <<>>
  /\ NextNode[1] \in Conditions
  /\ LET c == NextNode[1]
     IN /\ kids' = [kids EXCEPT ![c] = <<>>]
        /\ IF Finished(c)
           THEN /\ chains' = AfterNode
                /\ UNCHANGED <<state, ctx, parents>>
           ELSE Finish(c, "failed", AfterNode)
  /\ UNCHANGED <<unfinished, contexts, batch, unwinding, interrupts>>

\* process() of a leaf that is done, registered in whatever context; an
\* external event may have failed.
process ==
  /\ chains = <<>>
  /\ \E h \in batch, result \in {"succeeded", "failed"} :
       /\ h \in Sleeps => result = "succeeded"
       /\ batch' = batch \ {h}
       /\ contexts' = unregisterFrom(contexts, h)
       /\ Finish(h, result, <<>>)
  /\ UNCHANGED <<kids, unfinished, unwinding, interrupts>>

\* unserialize() of an external event throws something that is not a PHP
\* exception: the event fails, its chain is unblocked, and the exception leaves
\* processAllReceived and runUntil; what is left of the batch stays received.
processThrows ==
  /\ chains = <<>>
  /\ ~unwinding /\ interrupts < MaxInterrupts
  /\ \E h \in batch \cap Events :
       /\ contexts' = [unregisterFrom(contexts, h) EXCEPT ![Depth].pc = "exit"]
       /\ Finish(h, "failed", <<>>)
  /\ batch' = {}
  /\ unwinding' = TRUE
  /\ interrupts' = interrupts + 1
  /\ UNCHANGED <<kids, unfinished>>

-----------------------------------------------------------------------------
\* User code: the main program, or the function the current context runs.

UserCode == Quiet /\ (IF Depth = 0 THEN ~unwinding ELSE Top.pc = "running")

New(h, s, c, children) ==
  /\ state[h] = "none"
  /\ Cardinality({x \in Handles : state[x] # "none"}) < MaxHandles
  /\ state' = [state EXCEPT ![h] = s]
  /\ ctx' = [ctx EXCEPT ![h] = c]
  /\ kids' = [kids EXCEPT ![h] = children]

\* initialize() of a sleep or an external event.
createLeaf ==
  /\ UserCode
  /\ \E h \in Leaves :
       /\ New(h, "waiting", Depth, <<>>)
       /\ contexts' = IF Depth = 0 THEN contexts
                      ELSE registerTo(contexts, Depth, h)
  /\ UNCHANGED <<unfinished, parents, chains, batch, unwinding, interrupts>>

createReschedule ==
  /\ UserCode
  /\ \E h \in Reschedules, queue \in Queues :
       /\ New(h, queue, Depth, <<>>)
       /\ contexts' = IF Depth = 0 THEN contexts
                      ELSE ScheduleRescheduleIn(contexts, Depth, h, queue)
  /\ UNCHANGED <<unfinished, parents, chains, batch, unwinding, interrupts>>

\* An async function called here awaits an unfinished handle for the first
\* time, or a condition is created for it.
createBlocked ==
  /\ UserCode
  /\ \E h \in AsyncFunctions \cup Conditions, child \in Handles :
       /\ Live(child)
       /\ New(h, "blocked", ctx[child], <<child>>)
       /\ parents' = [parents EXCEPT ![child] = Append(@, <<h, 1>>)]
  /\ UNCHANGED <<unfinished, contexts, chains, batch, unwinding, interrupts>>

\* The children are stored and enter the chains in the order given, the first
\* one with the highest index.
createAwaitAll ==
  /\ UserCode
  /\ \E a \in AwaitAlls, children \in BoundedSeq({h \in Handles : Live(h)},
                                                 MaxChildren) :
       /\ children # <<>>
       /\ New(a, "blocked",
              Min({ctx[children[i]] : i \in DOMAIN children}),
              Reverse(children))
       /\ unfinished' = [unfinished EXCEPT ![a] = Len(children)]
       /\ LET nodes == [i \in DOMAIN children |-> <<a, Len(children) + 1 - i>>]
              Of(h) == {nodes[i] : i \in {j \in DOMAIN children : children[j] = h}}
          IN parents' = [h \in Handles |-> parents[h] \o Only(nodes, Of(h))]
  /\ UNCHANGED <<contexts, chains, batch, unwinding, interrupts>>

\* ConditionWaitHandle::succeed and fail
notifyCondition ==
  /\ UserCode
  /\ \E c \in Conditions, result \in {"succeeded", "failed"} :
       /\ state[c] = "blocked"
       /\ Finish(c, result, <<>>)
  /\ UNCHANGED <<kids, unfinished, contexts, batch, unwinding, interrupts>>

cancel ==
  /\ UserCode
  /\ \E h \in Leaves :
       /\ state[h] = "waiting"
       /\ contexts' = unregisterFrom(contexts, h)
       /\ Finish(h, "failed", <<>>)
  /\ UNCHANGED <<kids, unfinished, batch, unwinding, interrupts>>

\* Mutant: one context too many.
enterContextOneMore == Depth <= MaxContextDepth

\* AsioSession::enterContext does not throw.
enterContext == Depth < MaxContextDepth

\* c_WaitableWaitHandle::join: enter a new context and import the handle.  If
\* there are too many contexts or if the import throws, nothing has changed.
join ==
  /\ UserCode
  /\ enterContext
  /\ \E target \in Handles :
       /\ Live(target)
       /\ LET import == Discovered(target, Depth + 1)
          IN /\ ~CrossContextCycle(import)
             /\ Enter(Append(contexts, Context(target)), import, Depth + 1)
  /\ UNCHANGED <<state, kids, unfinished, parents, chains, batch, unwinding,
                 interrupts>>

-----------------------------------------------------------------------------
\* What the running function of a context does to itself.

Runs(f) == Quiet /\ Depth > 0 /\ Top.pc = "running" /\ Top.runner = f

Suspended(cs) == [cs EXCEPT ![Depth].pc = "tail", ![Depth].runner = None]

\* prepareChild imports the child before it looks for a cycle, so a refused
\* await may have imported it all the same.
await ==
  /\ UserCode
  /\ \E f \in AsyncFunctions, child \in Handles :
       /\ Runs(f)
       /\ Live(child)
       /\ LET import == Discovered(child, ctx[f])
          IN /\ ~CrossContextCycle(import)
             /\ IF detectCycle(f, child)
                THEN /\ import # {}
                     /\ Enter(contexts, import, ctx[f])
                     /\ UNCHANGED <<state, kids, parents>>
                ELSE /\ Enter(Suspended(contexts), import, ctx[f])
                     /\ state' = [state EXCEPT ![f] = "blocked"]
                     /\ kids' = [kids EXCEPT ![f] = <<child>>]
                     /\ parents' = [parents EXCEPT
                                      ![child] = Append(@, <<f, 1>>)]
  /\ UNCHANGED <<unfinished, chains, batch, unwinding, interrupts>>

\* ret() and fail(), through the scheduler.
retOrFail ==
  /\ UserCode
  /\ \E f \in AsyncFunctions, result \in {"succeeded", "failed"} :
       /\ Runs(f)
       /\ contexts' = Suspended(contexts)
       /\ Finish(f, result, <<>>)
  /\ UNCHANGED <<kids, unfinished, batch, unwinding, interrupts>>

\* Mutant: the parent may be in another context.
CanReturnToAny(f, p) == p \in Jitted

CanReturnTo(f, p) == p \in Jitted /\ ctx[p] = ctx[f]

\* asyncFuncMaybeRetToAsyncFunc: translated code returns straight to the last
\* parent, an async function of the same context, once the other parents are
\* unblocked.
retToAsyncFunc ==
  /\ UserCode
  /\ \E f \in AsyncFunctions :
       /\ Runs(f)
       /\ parents[f] # <<>>
       /\ LET p == Last(parents[f])[1]
          IN /\ CanReturnTo(f, p)
             /\ contexts' = [contexts EXCEPT ![Depth].pc = "resume",
                                             ![Depth].runner = p]
       /\ state' = [state EXCEPT ![f] = "succeeded"]
       /\ ctx' = [ctx EXCEPT ![f] = 0]
       /\ parents' = [parents EXCEPT ![f] = <<>>]
       /\ chains' = Pending(<<>>, Front(parents[f]))
  /\ UNCHANGED <<kids, unfinished, batch, unwinding, interrupts>>

resumeParent ==
  /\ Quiet
  /\ Depth > 0
  /\ Top.pc = "resume"
  /\ state' = [state EXCEPT ![Top.runner] = "running"]
  /\ contexts' = [contexts EXCEPT ![Depth].pc = "running"]
  /\ UNCHANGED <<ctx, kids, unfinished, parents, chains, batch, unwinding,
                 interrupts>>

\* asyncSwitchCtrl: translated code goes on with a function of the fast queue
\* (maybePopFast), without a look at the other queues or at the join's target.
switchToFast ==
  /\ Quiet
  /\ Depth > 0
  /\ Top.pc = "tail"
  /\ Top.fast # <<>>
  /\ LET f == Last(Top.fast)
     IN /\ state[f] = "ready"
        /\ isFastResumable(f)
        /\ state' = [state EXCEPT ![f] = "running"]
        /\ contexts' = [contexts EXCEPT ![Depth].fast = Front(@),
                                        ![Depth].pc = "running",
                                        ![Depth].runner = f]
  /\ UNCHANGED <<ctx, kids, unfinished, parents, chains, batch, unwinding,
                 interrupts>>

\* The interpreter, or no such function: back to the scheduler.
backToScheduler ==
  /\ Quiet
  /\ Depth > 0
  /\ Top.pc = "tail"
  /\ contexts' = [contexts EXCEPT ![Depth].pc = "loop"]
  /\ UNCHANGED <<state, ctx, kids, unfinished, parents, chains, batch,
                 unwinding, interrupts>>

-----------------------------------------------------------------------------
\* AsioContext::runUntil

Loop == Quiet /\ Depth > 0 /\ Top.pc = "loop"
Unsettled == Loop /\ ~Finished(Top.target)

\* Resume a function that a queue gave, unless it ran in another context.
Resume(f, cs) ==
  IF state[f] = "ready"
  THEN /\ state' = [state EXCEPT ![f] = "running"]
       /\ contexts' = [cs EXCEPT ![Depth].pc = "running", ![Depth].runner = f]
  ELSE /\ contexts' = cs
       /\ UNCHANGED state

runRunnable ==
  /\ Unsettled
  /\ Top.runnable # <<>>
  /\ Resume(Last(Top.runnable),
            [contexts EXCEPT ![Depth].runnable = Front(@)])
  /\ UNCHANGED <<ctx, kids, unfinished, parents, chains, batch, unwinding,
                 interrupts>>

runFast ==
  /\ Unsettled
  /\ Top.runnable = <<>>
  /\ Top.fast # <<>>
  /\ Resume(Last(Top.fast), [contexts EXCEPT ![Depth].fast = Front(@)])
  /\ UNCHANGED <<ctx, kids, unfinished, parents, chains, batch, unwinding,
                 interrupts>>

NothingReady == Unsettled /\ Top.runnable = <<>> /\ Top.fast = <<>>

\* Sleeps that are over, or else events that were received, are processed,
\* whatever context they are in.  Both happen without waiting, or after a wait
\* for leaves of this context when the default queue is empty.
processLeaves ==
  /\ NothingReady
  /\ \E kind \in {Sleeps, Events} :
       \E done \in SUBSET {h \in kind : state[h] = "waiting"} :
         /\ done # {}
         /\ batch' = done
  /\ UNCHANGED <<state, ctx, kids, unfinished, parents, contexts, chains,
                 unwinding, interrupts>>

\* runSingle: the handle may have run in another context.
RunReschedule(h) ==
  IF Scheduled(h) THEN Finish(h, "succeeded", <<>>)
  ELSE UNCHANGED <<state, ctx, parents, chains>>

runDefault ==
  /\ NothingReady
  /\ Top.default # <<>>
  /\ contexts' = [contexts EXCEPT ![Depth].default = Tail(@)]
  /\ RunReschedule(Head(Top.default))
  /\ UNCHANGED <<kids, unfinished, batch, unwinding, interrupts>>

runNoPendingIO ==
  /\ NothingReady
  /\ Top.default = <<>>
  /\ Top.waiting = {}
  /\ Top.noPendingIO # <<>>
  /\ contexts' = [contexts EXCEPT ![Depth].noPendingIO = Tail(@)]
  /\ RunReschedule(Head(Top.noPendingIO))
  /\ UNCHANGED <<kids, unfinished, batch, unwinding, interrupts>>

\* The target finished: leave the loop and the context.
targetFinished ==
  /\ Loop
  /\ Finished(Top.target)
  /\ contexts' = [contexts EXCEPT ![Depth].pc = "exit"]
  /\ UNCHANGED <<state, ctx, kids, unfinished, parents, chains, batch,
                 unwinding, interrupts>>

-----------------------------------------------------------------------------
\* C++ exceptions: a request timeout seen after a wait, in the running
\* function, or in the exit hook of one that has just suspended.

MayInterrupt == Quiet /\ Depth > 0 /\ ~unwinding /\ interrupts < MaxInterrupts

interruptWait ==
  /\ MayInterrupt
  /\ Top.pc = "tail" \/ (NothingReady /\ Top.default = <<>> /\ Top.waiting # {})
  /\ contexts' = [contexts EXCEPT ![Depth].pc = "exit"]
  /\ unwinding' = TRUE
  /\ interrupts' = interrupts + 1
  /\ UNCHANGED <<state, ctx, kids, unfinished, parents, chains, batch>>

\* failCpp
interruptRunning ==
  /\ MayInterrupt
  /\ Top.pc = "running"
  /\ contexts' = [contexts EXCEPT ![Depth].pc = "exit", ![Depth].runner = None]
  /\ Finish(Top.runner, "failed", <<>>)
  /\ unwinding' = TRUE
  /\ interrupts' = interrupts + 1
  /\ UNCHANGED <<kids, unfinished, batch>>

-----------------------------------------------------------------------------
\* AsioContext::exit: every entry of every queue moves to the parent context.

Exiting == Quiet /\ Depth > 0 /\ Top.pc = "exit"

\* The handle and the parents that follow it are one context further out.
Leave(h) ==
  ctx' = [x \in Handles |-> IF x = h \/ x \in ParentsLeaving(h, Depth)
                            THEN Depth - 1 ELSE ctx[x]]

\* Mutant: a ready function is not scheduled again.
ExitFunctionUnscheduled(f, cs) ==
  /\ contexts' = cs
  /\ IF state[f] = "ready" /\ ctx[f] = Depth THEN Leave(f) ELSE UNCHANGED ctx

\* c_AsyncFunctionWaitHandle::exitContext
ExitFunction(f, cs) ==
  IF state[f] = "ready" /\ ctx[f] = Depth
  THEN /\ Leave(f)
       /\ contexts' =
            IF Depth = 1 THEN cs ELSE ScheduleIn(cs, Depth - 1, f)
  ELSE /\ contexts' = cs
       /\ UNCHANGED ctx

exitRunnable ==
  /\ Exiting
  /\ Top.runnable # <<>>
  /\ ExitFunction(Last(Top.runnable),
                  [contexts EXCEPT ![Depth].runnable = Front(@)])
  /\ UNCHANGED <<state, kids, unfinished, parents, chains, batch, unwinding,
                 interrupts>>

exitFast ==
  /\ Exiting
  /\ Top.runnable = <<>>
  /\ Top.fast # <<>>
  /\ ExitFunction(Last(Top.fast), [contexts EXCEPT ![Depth].fast = Front(@)])
  /\ UNCHANGED <<state, kids, unfinished, parents, chains, batch, unwinding,
                 interrupts>>

\* c_RescheduleWaitHandle::exitContext
ExitReschedule(h, cs) ==
  IF Scheduled(h) /\ ctx[h] = Depth
  THEN /\ Leave(h)
       /\ contexts' = IF Depth = 1 THEN cs
                      ELSE ScheduleRescheduleIn(cs, Depth - 1, h, state[h])
  ELSE /\ contexts' = cs
       /\ UNCHANGED ctx

exitQueues ==
  /\ Exiting
  /\ Top.runnable = <<>> /\ Top.fast = <<>>
  /\ \/ /\ Top.default # <<>>
        /\ ExitReschedule(Head(Top.default),
                          [contexts EXCEPT ![Depth].default = Tail(@)])
     \/ /\ Top.default = <<>>
        /\ Top.noPendingIO # <<>>
        /\ ExitReschedule(Head(Top.noPendingIO),
                          [contexts EXCEPT ![Depth].noPendingIO = Tail(@)])
  /\ UNCHANGED <<state, kids, unfinished, parents, chains, batch, unwinding,
                 interrupts>>

\* exitContext of a sleep or, once there are no more sleeps, of an event.
exitLeaves ==
  /\ Exiting
  /\ Top.runnable = <<>> /\ Top.fast = <<>>
  /\ Top.default = <<>> /\ Top.noPendingIO = <<>>
  /\ \E h \in Top.waiting :
       /\ h \in Events => Top.waiting \cap Sleeps = {}
       /\ Leave(h)
       /\ LET cs == [contexts EXCEPT ![Depth].waiting = @ \ {h}]
          IN contexts' = IF Depth = 1 THEN cs ELSE registerTo(cs, Depth - 1, h)
  /\ UNCHANGED <<state, kids, unfinished, parents, chains, batch, unwinding,
                 interrupts>>

Emptied ==
  /\ Exiting
  /\ Top.runnable = <<>> /\ Top.fast = <<>>
  /\ Top.default = <<>> /\ Top.noPendingIO = <<>> /\ Top.waiting = {}

\* AsioSession::exitContext pops the context; join() returns to its caller.
joinReturns ==
  /\ Emptied
  /\ ~unwinding
  /\ contexts' = Front(contexts)
  /\ UNCHANGED <<state, ctx, kids, unfinished, parents, chains, batch,
                 unwinding, interrupts>>

\* The exception goes on into the function that called join(), which fails
\* (failCpp), and out of the context that ran it.
joinThrows ==
  /\ Emptied
  /\ unwinding
  /\ IF Depth = 1
     THEN /\ contexts' = <<>>
          /\ unwinding' = FALSE
          /\ UNCHANGED <<state, ctx, parents, chains>>
     ELSE /\ contexts' = [Front(contexts) EXCEPT ![Depth - 1].pc = "exit",
                                                 ![Depth - 1].runner = None]
          /\ Finish(contexts[Depth - 1].runner, "failed", <<>>)
          /\ UNCHANGED unwinding
  /\ UNCHANGED <<kids, unfinished, batch, interrupts>>

-----------------------------------------------------------------------------
Init ==
  /\ state = [h \in Handles |-> "none"]
  /\ ctx = [h \in Handles |-> 0]
  /\ kids = [h \in Handles |-> <<>>]
  /\ unfinished = [a \in AwaitAlls |-> 0]
  /\ parents = [h \in Handles |-> <<>>]
  /\ contexts = <<>>
  /\ chains = <<>>
  /\ batch = {}
  /\ unwinding = FALSE
  /\ interrupts = 0

Unblock ==
  \/ asyncFunctionOnUnblocked \/ conditionOnUnblocked
  \/ awaitAllOnUnblockedLater \/ awaitAllOnUnblockedNext
  \/ awaitAllOnUnblockedCycle \/ awaitAllOnUnblockedLast

Create == createLeaf \/ createReschedule \/ createBlocked \/ createAwaitAll

\* What the thread does without being asked; a running function ends.
Proceed ==
  \/ Unblock \/ process \/ retOrFail \/ resumeParent \/ backToScheduler
  \/ runRunnable \/ runFast \/ processLeaves \/ runDefault \/ runNoPendingIO
  \/ targetFinished
  \/ exitRunnable \/ exitFast \/ exitQueues \/ exitLeaves
  \/ joinReturns \/ joinThrows

Next ==
  \/ Proceed
  \/ Create \/ notifyCondition \/ cancel \/ join
  \/ await \/ retToAsyncFunc \/ switchToFast
  \/ interruptWait \/ interruptRunning \/ processThrows

Spec == Init /\ [][Next]_vars

\* The request's thread keeps going: the scheduler and unblock() take their
\* next step, a function that runs does not run for ever, and sleeps and
\* external events complete.
Fairness == WF_vars(Proceed)

FairSpec == Spec /\ Fairness

-----------------------------------------------------------------------------
\* Types.
TypeOK ==
  /\ state \in [Handles -> {"none", "blocked", "ready", "running", "waiting",
                            "succeeded", "failed"} \cup Queues]
  /\ ctx \in [Handles -> 0..MaxContextDepth]
  /\ \A h \in Handles : ToSet(kids[h]) \subseteq Handles
  /\ \A a \in AwaitAlls : unfinished[a] \in 0..Len(kids[a])
  /\ \A h \in Handles : \A node \in ToSet(parents[h]) :
       node[1] \in Handles /\ node[2] \in 1..MaxChildren
  /\ Depth \in 0..MaxContextDepth
  /\ \A c \in 1..Depth :
       /\ contexts[c].pc \in {"loop", "running", "resume", "tail", "exit"}
       /\ contexts[c].waiting \subseteq Leaves
       /\ ToSet(contexts[c].runnable \o contexts[c].fast)
            \subseteq AsyncFunctions
       /\ ToSet(contexts[c].default \o contexts[c].noPendingIO)
            \subseteq Reschedules
  /\ batch \subseteq Leaves
  /\ unwinding \in BOOLEAN
  /\ interrupts \in 0..MaxInterrupts

\* runUntil never runs out of work while the joined handle is unfinished: the
\* "Invariant violation: queues are empty, but wait handle did not finish" at
\* its end is unreachable.
NeverStuck ==
  NothingReady => \/ Top.default # <<>> \/ Top.noPendingIO # <<>>
                  \/ Top.waiting # {}

\* While a chain is unblocked, the parent whose turn it is is blocked, or a
\* condition that was notified before; an AwaitAll has not yet gone past the
\* child (its onUnblocked asserts both).
UnblocksTheBlocked ==
  chains # <<>> =>
    LET p == NextNode[1]
    IN /\ state[p] = "blocked" \/ (p \in Conditions /\ Finished(p))
       /\ p \in AwaitAlls => NextNode[2] <= unfinished[p]

\* Between two unblockings every blocked handle waits for an unfinished child
\* that has it in its chain exactly once per edge, and every node of a chain
\* belongs to a parent that still waits for that child, or to a condition that
\* was notified.
ChainsMatchChildren ==
  chains = <<>> =>
    \A p \in Handles :
      /\ (state[p] = "blocked" /\ ~(Depth > 0 /\ Top.runner = p)) =>
           Live(getChild(p))
      /\ \A h \in Handles :
           LET Nodes == {node \in ToSet(parents[h]) : node[1] = p}
           IN /\ Live(p) => Nodes =
                   {<<p, i>> : i \in {j \in DOMAIN kids[p] :
                                        /\ state[p] = "blocked"
                                        /\ kids[p][j] = h
                                        /\ Live(h)}}
              /\ Nodes # {} => Live(p) \/ p \in Conditions
      /\ IsInjective(parents[p])

\* No lost and no stray wake-ups, also in the middle of unblock(), which rests
\* on taking the parents of a chain from the last one, and after an AwaitAll
\* has failed because of a cycle.
WakeUpsExact == UnblocksTheBlocked /\ ChainsMatchChildren

\* The handles never wait in a circle, whatever await, AwaitAll and conditions
\* the code combines: detectCycle looks only along current children, and an
\* AwaitAll looks again when it turns to its next child.
NoCycles ==
  chains = <<>> =>
    \A h \in Handles : getChild(h) # None => h \notin Descent(getChild(h))

\* What a handle of a context waits for is in that context or in one nested in
\* it, so that the context that needs it runs it (but for a context that is
\* being left, where the children may go first).
ContextsNest ==
  (chains = <<>> /\ ~Exiting) =>
    \A p \in Handles : state[p] = "blocked" =>
      \A k \in ToSet(kids[p]) : Live(k) => ctx[p] <= ctx[k]

\* A ready function, a scheduled handle and a waiting leaf are in a queue of
\* the context they are in, nothing is left in a context that is gone, and
\* until a context is left its queues hold nothing of an outer one, which is
\* why maybePopFast may assume that what it pops is of the current context.
QueuedWhereItIs ==
  /\ \A h \in Handles : Live(h) => ctx[h] <= Depth
  /\ \A h \in Handles, c \in 1..Depth :
       LET q == contexts[c]
           Listed == ToSet(q.runnable \o q.fast \o q.default \o q.noPendingIO)
       IN /\ ((state[h] = "ready" \/ Scheduled(h)) /\ ctx[h] = c) =>
               h \in Listed
          /\ (h \in Listed /\ Live(h)) => ctx[h] >= c \/ q.pc = "exit"
          /\ h \in q.waiting <=> (state[h] = "waiting" /\ ctx[h] = c)

\* A function runs in one context, the one it is in, and only when what it
\* awaited has finished.
RunsInItsContext ==
  /\ \A f \in AsyncFunctions :
       /\ state[f] = "running" =>
            /\ ctx[f] \in 1..Depth
            /\ contexts[ctx[f]].runner = f
       /\ state[f] \in {"ready", "running"} => Finished(kids[f][1])
  /\ \A c \in 1..Depth : contexts[c].runner # None =>
       \/ state[contexts[c].runner] = "running" /\ ctx[contexts[c].runner] = c
       \/ c = Depth /\ contexts[c].pc = "resume"

\* Every join comes to an end, and with it all joins nested in it.
JoinReturns == []<>(Depth = 0)
=============================================================================
