------------------------ MODULE AsioSchedulerProofs ------------------------
(***************************************************************************)
(* The contexts of the asio scheduler, and with the graph of wait handles  *)
(* (AsioGraphProofs) its safety properties, for any handles, any depth of  *)
(* joins and any number of timeouts.                                       *)
(***************************************************************************)
EXTENDS AsioGraphProofs

PCs == {"loop", "running", "resume", "tail", "exit"}
Contexts ==
  [target : Handles, pc : PCs, runner : AsyncFunctions \cup {None},
   runnable : Seq(AsyncFunctions), fast : Seq(AsyncFunctions),
   default : Seq(Reschedules), noPendingIO : Seq(Reschedules),
   waiting : SUBSET Leaves]

\* The definitions below take the states, the contexts of the handles and the
\* stack of contexts as arguments: a step may do two things one after the other.

LiveIn(st, h) == st[h] # "none" /\ st[h] \notin Ends

\* The handles in the queues of a context.
Entries(q) ==
  ToSet(q.runnable) \cup ToSet(q.fast) \cup ToSet(q.default) \cup ToSet(q.noPendingIO)

ContextsTyped(cx, cs) ==
  /\ cx \in [Handles -> 0..MaxContextDepth]
  /\ cs \in Seq(Contexts)
  /\ Len(cs) <= MaxContextDepth

\* What context c is doing, and with which function.
Control(st, cx, cs, c) ==
  /\ c < Len(cs) => cs[c].pc = "running"
  /\ cs[c].pc \in {"running", "resume"} =>
       /\ cs[c].runner \in AsyncFunctions
       /\ cx[cs[c].runner] = c
       /\ st[cs[c].runner] = IF cs[c].pc = "running" THEN "running" ELSE "blocked"
  /\ cs[c].pc \notin {"running", "resume"} => cs[c].runner = None

\* A function that runs is the one of its context.
Joins(st, cx, cs) ==
  /\ \A c \in 1..Len(cs) : Control(st, cx, cs, c)
  /\ \A f \in AsyncFunctions : st[f] = "running" =>
       cx[f] \in 1..Len(cs) /\ cs[cx[f]].runner = f

\* Where a handle is listed.
Placed(st, cx, cs, h) ==
  /\ LiveIn(st, h) => cx[h] <= Len(cs)
  /\ \A c \in 1..Len(cs) :
       /\ (st[h] \in {"ready"} \cup Queues /\ cx[h] = c) => h \in Entries(cs[c])
       /\ h \in Entries(cs[c]) =>
            /\ st[h] # "none"
            /\ LiveIn(st, h) => cx[h] >= c \/ cs[c].pc = "exit"
       /\ h \in cs[c].waiting <=> (st[h] = "waiting" /\ cx[h] = c)

Queued(st, cx, cs) == \A h \in Handles : Placed(st, cx, cs, h)

\* What a context is to run until it is finished is in it.
Aimed(st, cx, cs) ==
  \A c \in 1..Len(cs) :
    /\ st[cs[c].target] # "none"
    /\ (cs[c].pc # "exit" /\ LiveIn(st, cs[c].target)) => cx[cs[c].target] >= c

\* What a blocked handle waits for is no further out ...
Nest(st, cx, ks) ==
  \A p \in Handles : st[p] = "blocked" =>
    \A i \in DOMAIN ks[p] : LiveIn(st, ks[p][i]) => cx[p] <= cx[ks[p][i]]

\* ... but for children other than the current one of a handle of a context that
\* is being left.
Leaving ==
  \A p \in Handles : state[p] = "blocked" =>
    /\ LiveIn(state, kids[p][Current(p)]) => ctx[p] <= ctx[kids[p][Current(p)]]
    /\ \A i \in DOMAIN kids[p] : LiveIn(state, kids[p][i]) =>
         \/ ctx[p] <= ctx[kids[p][i]]
         \/ ctx[p] = Depth /\ ctx[kids[p][i]] = Depth - 1

Nested == IF Exiting THEN Leaving ELSE Nest(state, ctx, kids)

\* The leaves that are about to be processed are still waiting.
Batched ==
  /\ batch \subseteq Leaves
  /\ \A h \in batch : state[h] = "waiting"
  /\ batch # {} => Depth > 0 /\ Top.pc = "loop"

Scheduling(st, cx, cs) ==
  ContextsTyped(cx, cs) /\ Joins(st, cx, cs) /\ Queued(st, cx, cs) /\ Aimed(st, cx, cs)

Counted == unwinding \in BOOLEAN /\ interrupts \in 0..MaxInterrupts

Inv(age) ==
  Graph(age) /\ Scheduling(state, ctx, contexts) /\ Nested /\ Batched /\ Counted

\* The inductive invariant.
IInv == \E age \in [Static -> Nat] : Inv(age)

-----------------------------------------------------------------------------
\* One context of the stack changes.

\* n is cs but for context c, which is at p with function f, lists what is in T
\* and maybe not in S, and waits for the leaves of W.
Edited(cs, n, c, p, f, S, T, W) ==
  /\ n \in Seq(Contexts) /\ Len(n) = Len(cs)
  /\ \A d \in 1..Len(cs) : d # c => n[d] = cs[d]
  /\ n[c] \in Contexts /\ n[c].target = cs[c].target /\ n[c].pc = p /\ n[c].runner = f
  /\ Entries(n[c]) \cup S = T
  /\ n[c].waiting = W

\* Another record takes its place.
LEMMA UpdateEffect ==
  ASSUME NEW cs \in Seq(Contexts), NEW c \in 1..Len(cs), NEW r \in Contexts
  PROVE  /\ [cs EXCEPT ![c] = r] \in Seq(Contexts) /\ Len([cs EXCEPT ![c] = r]) = Len(cs)
         /\ [cs EXCEPT ![c] = r][c] = r
         /\ \A d \in 1..Len(cs) : d # c => [cs EXCEPT ![c] = r][d] = cs[d]
  OBVIOUS

\* It goes on elsewhere ...
LEMMA PcEffect ==
  ASSUME NEW cs \in Seq(Contexts), NEW c \in 1..Len(cs), NEW p \in PCs
  PROVE  Edited(cs, [cs EXCEPT ![c].pc = p], c,
                p, cs[c].runner, {}, Entries(cs[c]), cs[c].waiting)
  <1> DEFINE q == cs[c]
             r == [q EXCEPT !.pc = p]
  <1>1. q \in Contexts
    OBVIOUS
  <1>2. r \in Contexts
    BY <1>1, Zenon DEF Contexts
  <1>3. /\ r.target = q.target /\ r.pc = p /\ r.runner = q.runner
        /\ r.runnable = q.runnable /\ r.fast = q.fast
        /\ r.default = q.default /\ r.noPendingIO = q.noPendingIO
        /\ r.waiting = q.waiting
    BY <1>1, Zenon DEF Contexts
  <1>4. [cs EXCEPT ![c].pc = p] = [cs EXCEPT ![c] = r]
    BY Zenon
  <1> HIDE DEF r
  <1>5. Edited(cs, [cs EXCEPT ![c] = r], c,
               p, cs[c].runner, {}, Entries(cs[c]), cs[c].waiting)
    BY <1>2, <1>3, UpdateEffect DEF Edited, Entries
  <1> QED
    BY <1>4, <1>5, Zenon

\* ... with another function.
LEMMA ControlEffect ==
  ASSUME NEW cs \in Seq(Contexts), NEW c \in 1..Len(cs), NEW p \in PCs, NEW f \in AsyncFunctions \cup {None}
  PROVE  Edited(cs, [cs EXCEPT ![c].pc = p, ![c].runner = f], c,
                p, f, {}, Entries(cs[c]), cs[c].waiting)
  <1> DEFINE q == cs[c]
             r == [q EXCEPT !.pc = p, !.runner = f]
  <1>1. q \in Contexts
    OBVIOUS
  <1>2. r \in Contexts
    BY <1>1, Zenon DEF Contexts
  <1>3. /\ r.target = q.target /\ r.pc = p /\ r.runner = f
        /\ r.runnable = q.runnable /\ r.fast = q.fast
        /\ r.default = q.default /\ r.noPendingIO = q.noPendingIO
        /\ r.waiting = q.waiting
    BY <1>1, Zenon DEF Contexts
  <1>4. [cs EXCEPT ![c].pc = p, ![c].runner = f] = [cs EXCEPT ![c] = r]
    BY Zenon
  <1> HIDE DEF r
  <1>5. Edited(cs, [cs EXCEPT ![c] = r], c,
               p, f, {}, Entries(cs[c]), cs[c].waiting)
    BY <1>2, <1>3, UpdateEffect DEF Edited, Entries
  <1> QED
    BY <1>4, <1>5, Zenon

\* A handle is put in queue runnable ...
LEMMA PushRunnable ==
  ASSUME NEW cs \in Seq(Contexts), NEW c \in 1..Len(cs), NEW h \in AsyncFunctions
  PROVE  Edited(cs, [cs EXCEPT ![c].runnable = Append(@, h)], c,
                cs[c].pc, cs[c].runner, {}, Entries(cs[c]) \cup {h}, cs[c].waiting)
  <1> DEFINE q == cs[c]
             r == [q EXCEPT !.runnable = Append(q.runnable, h)]
  <1>1. q \in Contexts
    OBVIOUS
  <1>2. /\ q.runnable \in Seq(AsyncFunctions) /\ Append(q.runnable, h) \in Seq(AsyncFunctions)
        /\ ToSet(Append(q.runnable, h)) = ToSet(q.runnable) \cup {h}
    BY <1>1, AppendEffect DEF Contexts
  <1>3. r \in Contexts
    BY <1>1, <1>2, Zenon DEF Contexts
  <1>4. /\ r.target = q.target /\ r.pc = q.pc /\ r.runner = q.runner
        /\ r.runnable = Append(q.runnable, h) /\ r.fast = q.fast
        /\ r.default = q.default /\ r.noPendingIO = q.noPendingIO
        /\ r.waiting = q.waiting
    BY <1>1, Zenon DEF Contexts
  <1>5. [cs EXCEPT ![c].runnable = Append(@, h)] = [cs EXCEPT ![c] = r]
    BY Zenon
  <1> HIDE DEF r
  <1>6. Entries(r) = Entries(q) \cup {h}
    BY <1>4, <1>2 DEF Entries
  <1>7. Edited(cs, [cs EXCEPT ![c] = r], c,
               cs[c].pc, cs[c].runner, {}, Entries(cs[c]) \cup {h}, cs[c].waiting)
    BY <1>3, <1>4, <1>6, UpdateEffect DEF Edited
  <1> QED
    BY <1>5, <1>7, Zenon

\* ... or taken from it.
LEMMA PopRunnable ==
  ASSUME NEW cs \in Seq(Contexts), NEW c \in 1..Len(cs), cs[c].runnable # <<>>
  PROVE  /\ Last(cs[c].runnable) \in AsyncFunctions
         /\ Edited(cs, [cs EXCEPT ![c].runnable = Front(@)], c,
                   cs[c].pc, cs[c].runner, {Last(cs[c].runnable)}, Entries(cs[c]), cs[c].waiting)
  <1> DEFINE q == cs[c]
             r == [q EXCEPT !.runnable = Front(q.runnable)]
  <1>1. q \in Contexts
    OBVIOUS
  <1>2. /\ Front(q.runnable) \in Seq(AsyncFunctions) /\ Last(q.runnable) \in AsyncFunctions
        /\ ToSet(q.runnable) = ToSet(Front(q.runnable)) \cup {Last(q.runnable)}
    BY <1>1, FrontEffect DEF Contexts
  <1>3. r \in Contexts
    BY <1>1, <1>2, Zenon DEF Contexts
  <1>4. /\ r.target = q.target /\ r.pc = q.pc /\ r.runner = q.runner
        /\ r.runnable = Front(q.runnable) /\ r.fast = q.fast
        /\ r.default = q.default /\ r.noPendingIO = q.noPendingIO
        /\ r.waiting = q.waiting
    BY <1>1, Zenon DEF Contexts
  <1>5. [cs EXCEPT ![c].runnable = Front(@)] = [cs EXCEPT ![c] = r]
    BY Zenon
  <1> HIDE DEF r
  <1>6. Edited(cs, [cs EXCEPT ![c] = r], c,
               cs[c].pc, cs[c].runner, {Last(cs[c].runnable)}, Entries(cs[c]), cs[c].waiting)
    BY <1>3, <1>4, <1>2, UpdateEffect DEF Edited, Entries
  <1> QED
    BY <1>5, <1>6, <1>2, Zenon

\* A handle is put in queue fast ...
LEMMA PushFast ==
  ASSUME NEW cs \in Seq(Contexts), NEW c \in 1..Len(cs), NEW h \in AsyncFunctions
  PROVE  Edited(cs, [cs EXCEPT ![c].fast = Append(@, h)], c,
                cs[c].pc, cs[c].runner, {}, Entries(cs[c]) \cup {h}, cs[c].waiting)
  <1> DEFINE q == cs[c]
             r == [q EXCEPT !.fast = Append(q.fast, h)]
  <1>1. q \in Contexts
    OBVIOUS
  <1>2. /\ q.fast \in Seq(AsyncFunctions) /\ Append(q.fast, h) \in Seq(AsyncFunctions)
        /\ ToSet(Append(q.fast, h)) = ToSet(q.fast) \cup {h}
    BY <1>1, AppendEffect DEF Contexts
  <1>3. r \in Contexts
    BY <1>1, <1>2, Zenon DEF Contexts
  <1>4. /\ r.target = q.target /\ r.pc = q.pc /\ r.runner = q.runner
        /\ r.runnable = q.runnable /\ r.fast = Append(q.fast, h)
        /\ r.default = q.default /\ r.noPendingIO = q.noPendingIO
        /\ r.waiting = q.waiting
    BY <1>1, Zenon DEF Contexts
  <1>5. [cs EXCEPT ![c].fast = Append(@, h)] = [cs EXCEPT ![c] = r]
    BY Zenon
  <1> HIDE DEF r
  <1>6. Entries(r) = Entries(q) \cup {h}
    BY <1>4, <1>2 DEF Entries
  <1>7. Edited(cs, [cs EXCEPT ![c] = r], c,
               cs[c].pc, cs[c].runner, {}, Entries(cs[c]) \cup {h}, cs[c].waiting)
    BY <1>3, <1>4, <1>6, UpdateEffect DEF Edited
  <1> QED
    BY <1>5, <1>7, Zenon

\* ... or taken from it.
LEMMA PopFast ==
  ASSUME NEW cs \in Seq(Contexts), NEW c \in 1..Len(cs), cs[c].fast # <<>>
  PROVE  /\ Last(cs[c].fast) \in AsyncFunctions
         /\ Edited(cs, [cs EXCEPT ![c].fast = Front(@)], c,
                   cs[c].pc, cs[c].runner, {Last(cs[c].fast)}, Entries(cs[c]), cs[c].waiting)
  <1> DEFINE q == cs[c]
             r == [q EXCEPT !.fast = Front(q.fast)]
  <1>1. q \in Contexts
    OBVIOUS
  <1>2. /\ Front(q.fast) \in Seq(AsyncFunctions) /\ Last(q.fast) \in AsyncFunctions
        /\ ToSet(q.fast) = ToSet(Front(q.fast)) \cup {Last(q.fast)}
    BY <1>1, FrontEffect DEF Contexts
  <1>3. r \in Contexts
    BY <1>1, <1>2, Zenon DEF Contexts
  <1>4. /\ r.target = q.target /\ r.pc = q.pc /\ r.runner = q.runner
        /\ r.runnable = q.runnable /\ r.fast = Front(q.fast)
        /\ r.default = q.default /\ r.noPendingIO = q.noPendingIO
        /\ r.waiting = q.waiting
    BY <1>1, Zenon DEF Contexts
  <1>5. [cs EXCEPT ![c].fast = Front(@)] = [cs EXCEPT ![c] = r]
    BY Zenon
  <1> HIDE DEF r
  <1>6. Edited(cs, [cs EXCEPT ![c] = r], c,
               cs[c].pc, cs[c].runner, {Last(cs[c].fast)}, Entries(cs[c]), cs[c].waiting)
    BY <1>3, <1>4, <1>2, UpdateEffect DEF Edited, Entries
  <1> QED
    BY <1>5, <1>6, <1>2, Zenon

\* A handle is put in queue default ...
LEMMA PushDefault ==
  ASSUME NEW cs \in Seq(Contexts), NEW c \in 1..Len(cs), NEW h \in Reschedules
  PROVE  Edited(cs, [cs EXCEPT ![c].default = Append(@, h)], c,
                cs[c].pc, cs[c].runner, {}, Entries(cs[c]) \cup {h}, cs[c].waiting)
  <1> DEFINE q == cs[c]
             r == [q EXCEPT !.default = Append(q.default, h)]
  <1>1. q \in Contexts
    OBVIOUS
  <1>2. /\ q.default \in Seq(Reschedules) /\ Append(q.default, h) \in Seq(Reschedules)
        /\ ToSet(Append(q.default, h)) = ToSet(q.default) \cup {h}
    BY <1>1, AppendEffect DEF Contexts
  <1>3. r \in Contexts
    BY <1>1, <1>2, Zenon DEF Contexts
  <1>4. /\ r.target = q.target /\ r.pc = q.pc /\ r.runner = q.runner
        /\ r.runnable = q.runnable /\ r.fast = q.fast
        /\ r.default = Append(q.default, h) /\ r.noPendingIO = q.noPendingIO
        /\ r.waiting = q.waiting
    BY <1>1, Zenon DEF Contexts
  <1>5. [cs EXCEPT ![c].default = Append(@, h)] = [cs EXCEPT ![c] = r]
    BY Zenon
  <1> HIDE DEF r
  <1>6. Entries(r) = Entries(q) \cup {h}
    BY <1>4, <1>2 DEF Entries
  <1>7. Edited(cs, [cs EXCEPT ![c] = r], c,
               cs[c].pc, cs[c].runner, {}, Entries(cs[c]) \cup {h}, cs[c].waiting)
    BY <1>3, <1>4, <1>6, UpdateEffect DEF Edited
  <1> QED
    BY <1>5, <1>7, Zenon

\* ... or taken from it.
LEMMA PopDefault ==
  ASSUME NEW cs \in Seq(Contexts), NEW c \in 1..Len(cs), cs[c].default # <<>>
  PROVE  /\ Head(cs[c].default) \in Reschedules
         /\ Edited(cs, [cs EXCEPT ![c].default = Tail(@)], c,
                   cs[c].pc, cs[c].runner, {Head(cs[c].default)}, Entries(cs[c]), cs[c].waiting)
  <1> DEFINE q == cs[c]
             r == [q EXCEPT !.default = Tail(q.default)]
  <1>1. q \in Contexts
    OBVIOUS
  <1>2. /\ Tail(q.default) \in Seq(Reschedules) /\ Head(q.default) \in Reschedules
        /\ ToSet(q.default) = ToSet(Tail(q.default)) \cup {Head(q.default)}
    BY <1>1, TailEffect DEF Contexts
  <1>3. r \in Contexts
    BY <1>1, <1>2, Zenon DEF Contexts
  <1>4. /\ r.target = q.target /\ r.pc = q.pc /\ r.runner = q.runner
        /\ r.runnable = q.runnable /\ r.fast = q.fast
        /\ r.default = Tail(q.default) /\ r.noPendingIO = q.noPendingIO
        /\ r.waiting = q.waiting
    BY <1>1, Zenon DEF Contexts
  <1>5. [cs EXCEPT ![c].default = Tail(@)] = [cs EXCEPT ![c] = r]
    BY Zenon
  <1> HIDE DEF r
  <1>6. Edited(cs, [cs EXCEPT ![c] = r], c,
               cs[c].pc, cs[c].runner, {Head(cs[c].default)}, Entries(cs[c]), cs[c].waiting)
    BY <1>3, <1>4, <1>2, UpdateEffect DEF Edited, Entries
  <1> QED
    BY <1>5, <1>6, <1>2, Zenon

\* A handle is put in queue noPendingIO ...
LEMMA PushNoPendingIO ==
  ASSUME NEW cs \in Seq(Contexts), NEW c \in 1..Len(cs), NEW h \in Reschedules
  PROVE  Edited(cs, [cs EXCEPT ![c].noPendingIO = Append(@, h)], c,
                cs[c].pc, cs[c].runner, {}, Entries(cs[c]) \cup {h}, cs[c].waiting)
  <1> DEFINE q == cs[c]
             r == [q EXCEPT !.noPendingIO = Append(q.noPendingIO, h)]
  <1>1. q \in Contexts
    OBVIOUS
  <1>2. /\ q.noPendingIO \in Seq(Reschedules) /\ Append(q.noPendingIO, h) \in Seq(Reschedules)
        /\ ToSet(Append(q.noPendingIO, h)) = ToSet(q.noPendingIO) \cup {h}
    BY <1>1, AppendEffect DEF Contexts
  <1>3. r \in Contexts
    BY <1>1, <1>2, Zenon DEF Contexts
  <1>4. /\ r.target = q.target /\ r.pc = q.pc /\ r.runner = q.runner
        /\ r.runnable = q.runnable /\ r.fast = q.fast
        /\ r.default = q.default /\ r.noPendingIO = Append(q.noPendingIO, h)
        /\ r.waiting = q.waiting
    BY <1>1, Zenon DEF Contexts
  <1>5. [cs EXCEPT ![c].noPendingIO = Append(@, h)] = [cs EXCEPT ![c] = r]
    BY Zenon
  <1> HIDE DEF r
  <1>6. Entries(r) = Entries(q) \cup {h}
    BY <1>4, <1>2 DEF Entries
  <1>7. Edited(cs, [cs EXCEPT ![c] = r], c,
               cs[c].pc, cs[c].runner, {}, Entries(cs[c]) \cup {h}, cs[c].waiting)
    BY <1>3, <1>4, <1>6, UpdateEffect DEF Edited
  <1> QED
    BY <1>5, <1>7, Zenon

\* ... or taken from it.
LEMMA PopNoPendingIO ==
  ASSUME NEW cs \in Seq(Contexts), NEW c \in 1..Len(cs), cs[c].noPendingIO # <<>>
  PROVE  /\ Head(cs[c].noPendingIO) \in Reschedules
         /\ Edited(cs, [cs EXCEPT ![c].noPendingIO = Tail(@)], c,
                   cs[c].pc, cs[c].runner, {Head(cs[c].noPendingIO)}, Entries(cs[c]), cs[c].waiting)
  <1> DEFINE q == cs[c]
             r == [q EXCEPT !.noPendingIO = Tail(q.noPendingIO)]
  <1>1. q \in Contexts
    OBVIOUS
  <1>2. /\ Tail(q.noPendingIO) \in Seq(Reschedules) /\ Head(q.noPendingIO) \in Reschedules
        /\ ToSet(q.noPendingIO) = ToSet(Tail(q.noPendingIO)) \cup {Head(q.noPendingIO)}
    BY <1>1, TailEffect DEF Contexts
  <1>3. r \in Contexts
    BY <1>1, <1>2, Zenon DEF Contexts
  <1>4. /\ r.target = q.target /\ r.pc = q.pc /\ r.runner = q.runner
        /\ r.runnable = q.runnable /\ r.fast = q.fast
        /\ r.default = q.default /\ r.noPendingIO = Tail(q.noPendingIO)
        /\ r.waiting = q.waiting
    BY <1>1, Zenon DEF Contexts
  <1>5. [cs EXCEPT ![c].noPendingIO = Tail(@)] = [cs EXCEPT ![c] = r]
    BY Zenon
  <1> HIDE DEF r
  <1>6. Edited(cs, [cs EXCEPT ![c] = r], c,
               cs[c].pc, cs[c].runner, {Head(cs[c].noPendingIO)}, Entries(cs[c]), cs[c].waiting)
    BY <1>3, <1>4, <1>2, UpdateEffect DEF Edited, Entries
  <1> QED
    BY <1>5, <1>6, <1>2, Zenon

\* A leaf is registered ...
LEMMA RegisterEffect ==
  ASSUME NEW cs \in Seq(Contexts), NEW c \in 1..Len(cs), NEW h \in Leaves
  PROVE  Edited(cs, registerTo(cs, c, h), c,
                cs[c].pc, cs[c].runner, {}, Entries(cs[c]), cs[c].waiting \cup {h})
  <1> DEFINE q == cs[c]
             r == [q EXCEPT !.waiting = q.waiting \cup {h}]
  <1>1. q \in Contexts
    OBVIOUS
  <1>2. q.waiting \cup {h} \in SUBSET Leaves
    BY <1>1 DEF Contexts
  <1>3. r \in Contexts
    BY <1>1, <1>2, Zenon DEF Contexts
  <1>4. /\ r.target = q.target /\ r.pc = q.pc /\ r.runner = q.runner
        /\ r.runnable = q.runnable /\ r.fast = q.fast
        /\ r.default = q.default /\ r.noPendingIO = q.noPendingIO
        /\ r.waiting = q.waiting \cup {h}
    BY <1>1, Zenon DEF Contexts
  <1>5. registerTo(cs, c, h) = [cs EXCEPT ![c] = r]
    BY Zenon DEF registerTo
  <1> HIDE DEF r
  <1>6. Edited(cs, [cs EXCEPT ![c] = r], c,
               cs[c].pc, cs[c].runner, {}, Entries(cs[c]), cs[c].waiting \cup {h})
    BY <1>3, <1>4, <1>2, UpdateEffect DEF Edited, Entries
  <1> QED
    BY <1>5, <1>6, Zenon

\* ... or no longer so.
LEMMA UnregisterEffect ==
  ASSUME NEW cs \in Seq(Contexts), NEW c \in 1..Len(cs), NEW h
  PROVE  Edited(cs, [cs EXCEPT ![c].waiting = @ \ {h}], c,
                cs[c].pc, cs[c].runner, {}, Entries(cs[c]), cs[c].waiting \ {h})
  <1> DEFINE q == cs[c]
             r == [q EXCEPT !.waiting = q.waiting \ {h}]
  <1>1. q \in Contexts
    OBVIOUS
  <1>2. q.waiting \ {h} \in SUBSET Leaves
    BY <1>1 DEF Contexts
  <1>3. r \in Contexts
    BY <1>1, <1>2, Zenon DEF Contexts
  <1>4. /\ r.target = q.target /\ r.pc = q.pc /\ r.runner = q.runner
        /\ r.runnable = q.runnable /\ r.fast = q.fast
        /\ r.default = q.default /\ r.noPendingIO = q.noPendingIO
        /\ r.waiting = q.waiting \ {h}
    BY <1>1, Zenon DEF Contexts
  <1>5. [cs EXCEPT ![c].waiting = @ \ {h}] = [cs EXCEPT ![c] = r]
    BY Zenon
  <1> HIDE DEF r
  <1>6. Edited(cs, [cs EXCEPT ![c] = r], c,
               cs[c].pc, cs[c].runner, {}, Entries(cs[c]), cs[c].waiting \ {h})
    BY <1>3, <1>4, <1>2, UpdateEffect DEF Edited, Entries
  <1> QED
    BY <1>5, <1>6, Zenon

\* A function that is ready is scheduled.
LEMMA ScheduleEffect ==
  ASSUME NEW cs \in Seq(Contexts), NEW c \in 1..Len(cs), NEW f \in AsyncFunctions
  PROVE  Edited(cs, ScheduleIn(cs, c, f), c,
                cs[c].pc, cs[c].runner, {}, Entries(cs[c]) \cup {f}, cs[c].waiting)
  <1>1. CASE isFastResumable(f)
    <2>1. ScheduleIn(cs, c, f) = [cs EXCEPT ![c].fast = Append(@, f)]
      BY <1>1, Zenon DEF ScheduleIn
    <2> QED
      BY <2>1, PushFast, Zenon
  <1>2. CASE ~isFastResumable(f)
    <2>1. ScheduleIn(cs, c, f) = [cs EXCEPT ![c].runnable = Append(@, f)]
      BY <1>2, Zenon DEF ScheduleIn
    <2> QED
      BY <2>1, PushRunnable, Zenon
  <1> QED
    BY <1>1, <1>2

\* So is a reschedule.
LEMMA RescheduleEffect ==
  ASSUME NEW cs \in Seq(Contexts), NEW c \in 1..Len(cs), NEW h \in Reschedules, NEW queue \in Queues
  PROVE  Edited(cs, ScheduleRescheduleIn(cs, c, h, queue), c,
                cs[c].pc, cs[c].runner, {}, Entries(cs[c]) \cup {h}, cs[c].waiting)
  <1>1. CASE queue = "default"
    <2>1. ScheduleRescheduleIn(cs, c, h, queue) = [cs EXCEPT ![c].default = Append(@, h)]
      BY <1>1, Zenon DEF ScheduleRescheduleIn
    <2> QED
      BY <2>1, PushDefault, Zenon
  <1>2. CASE queue = "noPendingIO"
    <2>1. ScheduleRescheduleIn(cs, c, h, queue) = [cs EXCEPT ![c].noPendingIO = Append(@, h)]
      BY <1>2, Zenon DEF ScheduleRescheduleIn
    <2> QED
      BY <2>1, PushNoPendingIO, Zenon
  <1> QED
    BY <1>1, <1>2 DEF Queues

-----------------------------------------------------------------------------
\* Steps that change one handle.

\* What a step that changes handle h may do to the contexts.
Touches(h, cs, cs2) ==
  /\ cs2 \in Seq(Contexts) /\ Len(cs2) = Len(cs)
  /\ \A c \in 1..Len(cs) :
       /\ cs2[c].target = cs[c].target
       /\ Entries(cs2[c]) \ {h} = Entries(cs[c]) \ {h}
       /\ cs2[c].waiting \ {h} = cs[c].waiting \ {h}
       /\ cs[c].pc = "exit" => cs2[c].pc = "exit"
       /\ IF c < Len(cs) THEN cs2[c].pc = cs[c].pc /\ cs2[c].runner = cs[c].runner
          ELSE cs2[c].runner = cs[c].runner \/ cs[c].runner \in {None, h}

\* It changes no other handle, and no function that runs in an outer context.
Moves(h, st, cx, cs, st2, cx2) ==
  /\ \A x \in Handles : x # h => st2[x] = st[x] /\ cx2[x] = cx[x]
  /\ cx2 \in [Handles -> 0..MaxContextDepth]
  /\ st[h] = "running" => cx[h] = Len(cs)
  /\ st2[h] # "none"
  /\ (LiveIn(st2, h) /\ st[h] # "none") => LiveIn(st, h) /\ cx2[h] >= cx[h]

\* The innermost context goes on with a function that runs in it.
Fits(h, cs, st2, cx2, cs2) ==
  /\ \A c \in 1..Len(cs) : c = Len(cs) =>
       \/ cs2[c].pc = cs[c].pc /\ cs2[c].runner = cs[c].runner /\ cs[c].runner # h
       \/ Control(st2, cx2, cs2, c)
  /\ (h \in AsyncFunctions /\ st2[h] = "running") =>
       cx2[h] \in 1..Len(cs2) /\ cs2[cx2[h]].runner = h

\* Then all the others are where they should be.
LEMMA TouchStep ==
  ASSUME NEW st, NEW cx, NEW cs, NEW st2, NEW cx2, NEW cs2, NEW h \in Handles,
         Scheduling(st, cx, cs), Touches(h, cs, cs2), Moves(h, st, cx, cs, st2, cx2),
         Fits(h, cs, st2, cx2, cs2), Placed(st2, cx2, cs2, h)
  PROVE  Scheduling(st2, cx2, cs2)
  <1>1. /\ ContextsTyped(cx, cs) /\ Joins(st, cx, cs) /\ Queued(st, cx, cs) /\ Aimed(st, cx, cs)
        /\ ContextsTyped(cx2, cs2) /\ Len(cs2) = Len(cs)
        /\ AsyncFunctions \subseteq Handles /\ None \notin Handles /\ Len(cs) \in Nat
        /\ \A c \in 1..Len(cs) : cs[c] \in Contexts /\ cs2[c] \in Contexts
    BY AsioAssumption DEF Scheduling, Moves, Touches, Handles, ContextsTyped
  <1>2. ASSUME NEW c \in 1..Len(cs2)
        PROVE  Control(st2, cx2, cs2, c)
    <2>1. CASE c < Len(cs)
      <3>1. /\ cs2[c].pc = cs[c].pc /\ cs2[c].runner = cs[c].runner
            /\ cs[c].pc = "running" /\ Control(st, cx, cs, c)
        BY <1>1, <2>1 DEF Touches, Joins, Control
      <3>2. /\ cs[c].runner \in AsyncFunctions /\ cx[cs[c].runner] = c
            /\ st[cs[c].runner] = "running"
        BY <3>1 DEF Control
      <3>3. cs[c].runner # h
        BY <3>2, <1>1, <2>1 DEF Moves
      <3>4. cx2[cs[c].runner] = c /\ st2[cs[c].runner] = "running"
        BY <3>2, <3>3, <1>1 DEF Moves
      <3> QED
        BY <3>1, <3>2, <3>4, <2>1, <1>1 DEF Control
    <2>2. CASE c = Len(cs) /\ cs2[c].pc = cs[c].pc /\ cs2[c].runner = cs[c].runner /\ cs[c].runner # h
      <3>1. Control(st, cx, cs, c)
        BY <1>1, <2>2 DEF Joins
      <3>2. cs[c].runner \in AsyncFunctions =>
              cx2[cs[c].runner] = cx[cs[c].runner] /\ st2[cs[c].runner] = st[cs[c].runner]
        BY <2>2, <1>1 DEF Moves
      <3> QED
        BY <3>1, <3>2, <2>2, <1>1 DEF Control
    <2> QED
      BY <2>1, <2>2, <1>1 DEF Fits
  <1>3. ASSUME NEW f \in AsyncFunctions, st2[f] = "running"
        PROVE  cx2[f] \in 1..Len(cs2) /\ cs2[cx2[f]].runner = f
    <2>1. CASE f = h
      BY <2>1, <1>3 DEF Fits
    <2>2. CASE f # h
      <3>1. st[f] = "running" /\ cx2[f] = cx[f]
        BY <2>2, <1>3, <1>1 DEF Moves
      <3>2. cx[f] \in 1..Len(cs) /\ cs[cx[f]].runner = f
        BY <3>1, <1>1 DEF Joins
      <3>3. cs2[cx[f]].runner = f
        BY <3>2, <2>2, <1>1 DEF Touches
      <3> QED
        BY <3>1, <3>2, <3>3, <1>1
    <2> QED
      BY <2>1, <2>2
  <1>4. ASSUME NEW x \in Handles
        PROVE  Placed(st2, cx2, cs2, x)
    <2>1. CASE x = h
      BY <2>1, <1>1
    <2>2. CASE x # h
      <3>1. /\ st2[x] = st[x] /\ cx2[x] = cx[x] /\ Placed(st, cx, cs, x)
            /\ \A c \in 1..Len(cs) :
                 /\ x \in Entries(cs2[c]) <=> x \in Entries(cs[c])
                 /\ x \in cs2[c].waiting <=> x \in cs[c].waiting
                 /\ cs[c].pc = "exit" => cs2[c].pc = "exit"
        BY <2>2, <1>1 DEF Touches, Moves, Queued
      <3> QED
        BY <3>1, <1>1 DEF Placed, LiveIn
    <2> QED
      BY <2>1, <2>2
  <1>5. ASSUME NEW c \in 1..Len(cs2)
        PROVE  /\ st2[cs2[c].target] # "none"
               /\ (cs2[c].pc # "exit" /\ LiveIn(st2, cs2[c].target)) => cx2[cs2[c].target] >= c
    <2>1. /\ cs2[c].target = cs[c].target
          /\ cs[c].pc = "exit" => cs2[c].pc = "exit"
          /\ cs[c].target \in Handles
      BY <1>1 DEF Touches, Contexts
    <2>2. /\ st[cs[c].target] # "none"
          /\ (cs[c].pc # "exit" /\ LiveIn(st, cs[c].target)) => cx[cs[c].target] >= c
      BY <1>1 DEF Aimed
    <2>3. CASE cs[c].target = h
      <3>1. st2[h] # "none" /\ (LiveIn(st2, h) => LiveIn(st, h) /\ cx2[h] >= cx[h])
        BY <2>3, <2>2 DEF Moves
      <3>2. cx[h] \in Nat /\ cx2[h] \in Nat
        BY <1>1 DEF ContextsTyped
      <3>3. LiveIn(st2, h) => LiveIn(st, h) /\ cx2[h] >= cx[h]
        BY <3>1
      <3>4. (cs[c].pc # "exit" /\ LiveIn(st, h)) => cx[h] >= c
        BY <2>2, <2>3
      <3>5. c \in Nat
        BY <1>1
      <3>6. (cs2[c].pc # "exit" /\ LiveIn(st2, h)) => cx2[h] >= c
        BY <2>1, <3>2, <3>3, <3>4, <3>5
      <3> QED
        BY <2>1, <2>3, <3>1, <3>6
    <2>4. CASE cs[c].target # h
      BY <2>1, <2>2, <2>4 DEF Moves, LiveIn
    <2> QED
      BY <2>3, <2>4
  <1> QED
    BY <1>1, <1>2, <1>3, <1>4, <1>5 DEF Scheduling, Joins, Queued, Aimed

\* One context changes, as far as handle h is concerned.
LEMMA EditTouches ==
  ASSUME NEW cs \in Seq(Contexts), NEW n, NEW c \in 1..Len(cs), NEW p, NEW f, NEW S, NEW T, NEW W,
         Edited(cs, n, c, p, f, S, T, W), NEW h,
         S \subseteq {h}, T \ {h} = Entries(cs[c]) \ {h}, W \ {h} = cs[c].waiting \ {h},
         cs[c].pc = "exit" => p = "exit",
         \/ p = cs[c].pc /\ f = cs[c].runner
         \/ c = Len(cs) /\ cs[c].runner \in {None, h}
  PROVE  Touches(h, cs, n)
  <1>1. ASSUME NEW d \in 1..Len(cs), d # c
        PROVE  n[d] = cs[d]
    BY <1>1 DEF Edited
  <1>2. Entries(n[c]) \ {h} = Entries(cs[c]) \ {h}
    BY DEF Edited
  <1>3. /\ n[c].target = cs[c].target /\ n[c].waiting \ {h} = cs[c].waiting \ {h}
        /\ n[c].pc = p /\ n[c].runner = f /\ n \in Seq(Contexts) /\ Len(n) = Len(cs)
    BY DEF Edited
  <1> QED
    BY <1>1, <1>2, <1>3 DEF Touches

\* No context changes.
LEMMA NoTouch ==
  ASSUME NEW cs \in Seq(Contexts), NEW h
  PROVE  Touches(h, cs, cs)
  BY DEF Touches

\* A context changes once more.
LEMMA EditTwice ==
  ASSUME NEW cs \in Seq(Contexts), NEW m, NEW n, NEW c \in 1..Len(cs),
         NEW p, NEW f, NEW S, NEW T, NEW W, NEW p2, NEW f2,
         Edited(cs, m, c, p, f, S, T, W), Edited(m, n, c, p2, f2, {}, Entries(m[c]), m[c].waiting)
  PROVE  Edited(cs, n, c, p2, f2, S, T, W)
  BY DEF Edited

\* What a step that changes handle h may do to those that wait for it, and it for.
Nears(h, st, cx, ks, st2, cx2, ks2) ==
  /\ ks \in [Handles -> Seq(Handles)] /\ cx \in [Handles -> Nat] /\ cx2 \in [Handles -> Nat]
  /\ \A x \in Handles : x # h => st2[x] = st[x] /\ cx2[x] = cx[x] /\ ks2[x] = ks[x]
  /\ \/ ~LiveIn(st2, h)
     \/ LiveIn(st, h) /\ cx2[h] >= cx[h]
     \/ \A p \in Handles : \A i \in DOMAIN ks[p] : ks[p][i] # h
  /\ st2[h] = "blocked" =>
       \A i \in DOMAIN ks2[h] : LiveIn(st2, ks2[h][i]) => cx2[h] <= cx2[ks2[h][i]]

\* What they wait for stays in their context or further in.
LEMMA NestStep ==
  ASSUME NEW st, NEW cx, NEW ks, NEW st2, NEW cx2, NEW ks2, NEW h \in Handles,
         Nest(st, cx, ks), Nears(h, st, cx, ks, st2, cx2, ks2)
  PROVE  Nest(st2, cx2, ks2)
  <1> USE DEF Nears
  <1>1. ASSUME NEW p \in Handles, st2[p] = "blocked", p # h, NEW i \in DOMAIN ks2[p], LiveIn(st2, ks2[p][i])
        PROVE  cx2[p] <= cx2[ks2[p][i]]
    <2>1. /\ st[p] = "blocked" /\ ks2[p] = ks[p] /\ cx2[p] = cx[p] /\ i \in DOMAIN ks[p] /\ ks[p][i] \in Handles
      BY <1>1
    <2>2. LiveIn(st, ks[p][i]) /\ cx2[ks[p][i]] >= cx[ks[p][i]]
      <3>1. CASE ks[p][i] = h
        BY <3>1, <2>1, <1>1
      <3>2. CASE ks[p][i] # h
        BY <3>2, <2>1, <1>1 DEF LiveIn
      <3> QED
        BY <3>1, <3>2
    <2>3. cx[p] <= cx[ks[p][i]]
      BY <2>1, <2>2 DEF Nest
    <2> QED
      BY <2>1, <2>2, <2>3
  <1> QED
    BY <1>1 DEF Nest

-----------------------------------------------------------------------------
\* What holds in every state.

\* The facts about types and about the innermost context that nearly every
\* step needs.
LEMMA Basics ==
  ASSUME NEW age \in [Static -> Nat], Inv(age)
  PROVE  /\ state \in [Handles -> States] /\ kids \in [Handles -> Seq(Handles)]
         /\ ctx \in [Handles -> 0..MaxContextDepth] /\ ctx \in [Handles -> Nat]
         /\ contexts \in Seq(Contexts) /\ Depth \in Nat /\ Depth <= MaxContextDepth
         /\ MaxContextDepth \in Nat
         /\ \A c \in 1..Depth : contexts[c] \in Contexts
         /\ AsyncFunctions \subseteq Handles /\ Static \subseteq Handles
         /\ Reschedules \subseteq Handles /\ Leaves \subseteq Handles /\ None \notin Handles
         /\ Depth > 0 =>
              /\ Depth \in 1..Len(contexts) /\ Top \in Contexts
              /\ Control(state, ctx, contexts, Depth)
         /\ Top.pc # "resume" => Resumed = None
         /\ ~Exiting => Nest(state, ctx, kids)
  BY AsioAssumption DEF Inv, Graph, GraphTyped, Scheduling, ContextsTyped, Joins, Depth, Top,
     Handles, Static, Resumed, Nested

\* User code: nothing is being unblocked.
LEMMA UserFacts ==
  ASSUME NEW age \in [Static -> Nat], Inv(age), UserCode
  PROVE  /\ chains = <<>> /\ batch = {} /\ Resumed = None /\ Nest(state, ctx, kids)
         /\ Depth > 0 =>
              /\ Top.pc = "running" /\ Top.runner \in AsyncFunctions
              /\ state[Top.runner] = "running" /\ ctx[Top.runner] = Depth
  <1>1. /\ chains = <<>> /\ batch = {}
        /\ Depth > 0 => Top.pc = "running"
        /\ Depth \in Nat
    BY Basics DEF UserCode, Quiet
  <1>2. Resumed = None /\ ~Exiting
    BY <1>1 DEF Resumed, Exiting
  <1>3. Nest(state, ctx, kids)
    BY <1>2, Basics
  <1>4. Depth > 0 => Control(state, ctx, contexts, Depth)
    BY Basics
  <1> QED
    BY <1>1, <1>2, <1>3, <1>4 DEF Control, Top

\* The parts together.
LEMMA Conclude ==
  ASSUME NEW age \in [Static -> Nat], Graph(age)', Scheduling(state', ctx', contexts'),
         Nest(state', ctx', kids'), Batched', Counted'
  PROVE  IInv'
  <1>1. \A q \in Handles : state'[q] = "blocked" => Current(q)' \in DOMAIN kids'[q]
    BY DEF Graph, Kinds, Current, GraphTyped, Handles, Leaves, Queues, Ends
  <1>2. Leaving'
    BY <1>1 DEF Leaving, Nest, Current
  <1>3. Nested'
    BY <1>2 DEF Nested
  <1> QED
    BY <1>3 DEF IInv, Inv

-----------------------------------------------------------------------------
\* A handle finishes.

\* How the contexts stand after h has finished.
Quits(h, st, cx, cs, st2, cx2, cs2) ==
  /\ Touches(h, cs, cs2)
  /\ st[h] = "running" => cx[h] = Len(cs)
  /\ \A c \in 1..Len(cs) : h \notin cs2[c].waiting
  /\ \A c \in 1..Len(cs) : c = Len(cs) =>
       \/ cs2[c].pc = cs[c].pc /\ cs2[c].runner = cs[c].runner /\ cs[c].runner # h
       \/ Control(st2, cx2, cs2, c)

\* It leaves its context.
LEMMA FinishContexts ==
  ASSUME NEW st \in [Handles -> States], NEW cx, NEW cs, Scheduling(st, cx, cs),
         NEW h \in Handles, NEW r \in Ends,
         NEW st2, st2 = [st EXCEPT ![h] = r], NEW cx2, cx2 = [cx EXCEPT ![h] = 0],
         NEW cs2, Quits(h, st, cx, cs, st2, cx2, cs2)
  PROVE  Scheduling(st2, cx2, cs2)
  <1> USE DEF Quits
  <1>1. cx \in [Handles -> 0..MaxContextDepth] /\ MaxContextDepth \in Nat
    BY AsioAssumption DEF Scheduling, ContextsTyped
  <1>2. st2[h] = r /\ cx2[h] = 0 /\ cx2 \in [Handles -> 0..MaxContextDepth] /\ ~LiveIn(st2, h)
        /\ r \notin {"none", "running", "ready", "waiting"} \cup Queues
    BY <1>1 DEF LiveIn, Ends, Queues
  <1>3. Moves(h, st, cx, cs, st2, cx2)
    BY <1>1, <1>2 DEF Moves
  <1>4. Fits(h, cs, st2, cx2, cs2)
    BY <1>2 DEF Fits
  <1>5. Len(cs2) = Len(cs)
    BY DEF Touches
  <1>6. Placed(st2, cx2, cs2, h)
    BY <1>2, <1>5 DEF Placed
  <1> QED
    BY <1>3, <1>4, <1>6, TouchStep

\* Nobody waits for it any more.
LEMMA FinishNest ==
  ASSUME NEW st \in [Handles -> States], NEW cx \in [Handles -> Nat], NEW ks \in [Handles -> Seq(Handles)],
         Nest(st, cx, ks), NEW h \in Handles, NEW r \in Ends,
         NEW st2, st2 = [st EXCEPT ![h] = r], NEW cx2, cx2 = [cx EXCEPT ![h] = 0],
         NEW ks2, \A x \in Handles : x # h => ks2[x] = ks[x]
  PROVE  Nest(st2, cx2, ks2)
  <1>1. ~LiveIn(st2, h) /\ st2[h] # "blocked" /\ cx2 \in [Handles -> Nat]
    BY DEF LiveIn, Ends
  <1>2. Nears(h, st, cx, ks, st2, cx2, ks2)
    BY <1>1 DEF Nears
  <1> QED
    BY <1>2, NestStep

-----------------------------------------------------------------------------
\* Unblocking.

\* An AwaitAll or a condition finishes: the contexts do not know it.
LEMMA StaticFinishes ==
  ASSUME NEW age \in [Static -> Nat], Inv(age), Graph(age)', Nest(state, ctx, kids),
         NEW h \in Static, NEW r \in Ends,
         state' = [state EXCEPT ![h] = r], ctx' = [ctx EXCEPT ![h] = 0],
         \A x \in Handles : x # h => kids'[x] = kids[x],
         UNCHANGED <<contexts, batch, unwinding, interrupts>>
  PROVE  IInv'
  <1>1. /\ h \in Handles /\ h \notin Leaves /\ h \notin AsyncFunctions /\ h # None
        /\ state[h] # "running"
        /\ \A c \in 1..Depth : contexts[c] \in Contexts
        /\ contexts \in Seq(Contexts) /\ Depth = Len(contexts)
    BY Basics, AsioAssumption DEF Static, Handles, Inv, Graph, Kinds, Ends, Depth
  <1>2. Touches(h, contexts, contexts)
    BY <1>1, NoTouch
  <1>3. \A c \in 1..Depth : h \notin contexts[c].waiting /\ contexts[c].runner # h
    BY <1>1 DEF Contexts
  <1>4. Quits(h, state, ctx, contexts, state', ctx', contexts)
    BY <1>1, <1>2, <1>3 DEF Quits
  <1>5. Scheduling(state', ctx', contexts')
    BY <1>1, <1>4, FinishContexts, Basics DEF Inv
  <1>6. Nest(state', ctx', kids')
    BY <1>1, FinishNest, Basics
  <1>7. Batched'
    BY <1>1, Basics DEF Inv, Batched, Depth, Top
  <1>8. Counted'
    BY DEF Inv, Counted
  <1> QED
    BY <1>5, <1>6, <1>7, <1>8, Conclude

\* While something is being unblocked no context is being left.
LEMMA UnblockFacts ==
  ASSUME NEW age \in [Static -> Nat], Inv(age), chains # <<>>
  PROVE  Nest(state, ctx, kids)
  BY Basics DEF Exiting, Quiet

\* The steps that unblock an AwaitAll or a condition.
LEMMA UnblockStatic ==
  ASSUME NEW age \in [Static -> Nat], Inv(age),
         \/ awaitAllOnUnblockedLater \/ awaitAllOnUnblockedNext \/ awaitAllOnUnblockedCycle
         \/ awaitAllOnUnblockedLast \/ conditionOnUnblocked
  PROVE  IInv'
  <1>1. contexts' = contexts /\ Resumed' = Resumed /\ UNCHANGED <<batch, unwinding, interrupts>>
        /\ Graph(age) /\ chains # <<>>
    BY DEF awaitAllOnUnblockedLater, awaitAllOnUnblockedNext, awaitAllOnUnblockedCycle,
           awaitAllOnUnblockedLast, conditionOnUnblocked, Resumed, Depth, Top, Inv
  <1>2. Nest(state, ctx, kids)
    BY <1>1, UnblockFacts
  <1>3. ASSUME UNCHANGED <<state, ctx>>, Graph(age)',
               \A x \in Handles : kids'[x] = kids[x] \/ state[x] # "blocked"
        PROVE  IInv'
    <2>1. Scheduling(state', ctx', contexts')
      BY <1>1, <1>3 DEF Inv
    <2>2. Nest(state', ctx', kids')
      BY <1>2, <1>3 DEF Nest
    <2>3. Batched' /\ Counted'
      BY <1>1, <1>3 DEF Inv, Batched, Counted, Depth, Top
    <2> QED
      BY <1>3, <2>1, <2>2, <2>3, Conclude
  <1>4. CASE awaitAllOnUnblockedLater
    <2>1. Graph(age)'
      BY <1>4, <1>1, GraphLater DEF awaitAllOnUnblockedLater
    <2> QED
      BY <2>1, <1>3, <1>4 DEF awaitAllOnUnblockedLater
  <1>5. CASE awaitAllOnUnblockedNext
    <2>1. Graph(age)'
      BY <1>5, <1>1, GraphNext
    <2> QED
      BY <2>1, <1>3, <1>5 DEF awaitAllOnUnblockedNext
  <1>6. CASE awaitAllOnUnblockedCycle
    <2>1. Graph(age)'
      BY <1>6, <1>1, GraphCycle
    <2>2. /\ NextNode[1] \in Static /\ state' = [state EXCEPT ![NextNode[1]] = "failed"]
          /\ ctx' = [ctx EXCEPT ![NextNode[1]] = 0] /\ kids' = kids
      BY <1>6 DEF awaitAllOnUnblockedCycle, Static
    <2> HIDE DEF NextNode
    <2> QED
      BY <2>1, <2>2, <1>1, <1>2, StaticFinishes DEF Ends
  <1>7. CASE awaitAllOnUnblockedLast
    <2>1. Graph(age)'
      BY <1>7, <1>1, GraphLast
    <2>2. /\ NextNode[1] \in Static /\ state' = [state EXCEPT ![NextNode[1]] = "succeeded"]
          /\ ctx' = [ctx EXCEPT ![NextNode[1]] = 0] /\ kids' = kids
      BY <1>7 DEF awaitAllOnUnblockedLast, Static, Finish
    <2> QED
      BY <2>1, <2>2, <1>1, <1>2, StaticFinishes DEF Ends
  <1>8. CASE conditionOnUnblocked /\ ~Finished(NextNode[1])
    <2>1. Graph(age)'
      BY <1>8, <1>1, GraphConditionFails
    <2>2. /\ NextNode[1] \in Static /\ state' = [state EXCEPT ![NextNode[1]] = "failed"]
          /\ ctx' = [ctx EXCEPT ![NextNode[1]] = 0] /\ kids' = [kids EXCEPT ![NextNode[1]] = <<>>]
      BY <1>8 DEF conditionOnUnblocked, Static, Finish
    <2>3. \A x \in Handles : x # NextNode[1] => kids'[x] = kids[x]
      BY <2>2, Basics
    <2> QED
      BY <2>1, <2>2, <2>3, <1>1, <1>2, StaticFinishes DEF Ends
  <1>9. CASE conditionOnUnblocked /\ Finished(NextNode[1])
    <2>1. /\ UNCHANGED <<state, ctx, parents, unfinished>> /\ chains' = AfterNode
          /\ NextNode[1] \in Conditions /\ kids' = [kids EXCEPT ![NextNode[1]] = <<>>]
      BY <1>9 DEF conditionOnUnblocked
    <2>2. Graph(age)'
      BY <1>9, <2>1, <1>1, GraphLater
    <2>3. \A x \in Handles : kids'[x] = kids[x] \/ state[x] # "blocked"
      BY <2>1, <1>9, Basics DEF Finished
    <2> QED
      BY <2>1, <2>2, <2>3, <1>3
  <1> QED
    BY <1>4, <1>5, <1>6, <1>7, <1>8, <1>9

\* A function becomes ready, and is put in a queue of its context.
LEMMA UnblockFunction ==
  ASSUME NEW age \in [Static -> Nat], Inv(age), asyncFunctionOnUnblocked
  PROVE  IInv'
  <1> DEFINE f == NextNode[1]
  <1>1. /\ chains # <<>> /\ f \in AsyncFunctions /\ state' = [state EXCEPT ![f] = "ready"]
        /\ contexts' = ScheduleUnblocked(f) /\ chains' = AfterNode
        /\ UNCHANGED <<ctx, kids, unfinished, parents, batch, unwinding, interrupts>>
        /\ Graph(age)
    BY DEF asyncFunctionOnUnblocked, Inv
  <1>2. /\ Awaits(f, NextNode[2]) /\ Finished(kids[f][NextNode[2]]) /\ f # Resumed
        /\ AfterNode \in Seq(Seq(Nodes)) /\ WellOrdered(age, AfterNode)
        /\ PendingNodes(chains) = PendingNodes(AfterNode) \cup {NextNode}
        /\ \A x \in PendingNodes(AfterNode) : x[1] = f => x[1] \in AwaitAlls
    BY <1>1, NextNodeEffect
  <1> HIDE DEF f
  <1>3. /\ f \in Handles /\ f \notin Conditions /\ f \notin AwaitAlls /\ f # None
        /\ NextNode[1] = f
    BY <1>1, AsioAssumption, Basics DEF f
  <1>4. state[f] = "blocked" /\ NextNode[2] = 1 /\ Finished(kids[f][1])
    BY <1>1, <1>2, <1>3 DEF Awaits, Graph, Kinds
  <1>5. /\ ctx \in [Handles -> Nat] /\ ctx \in [Handles -> 0..MaxContextDepth]
        /\ contexts \in Seq(Contexts) /\ Depth = Len(contexts) /\ Depth \in Nat
        /\ state \in [Handles -> States]
        /\ \A c \in 1..Depth : c = Depth => Control(state, ctx, contexts, c)
        /\ Scheduling(state, ctx, contexts) /\ Placed(state, ctx, contexts, f)
    BY <1>3, Basics DEF Inv, Depth, Scheduling, Queued
  <1>6. \A c \in 1..Depth : c = Depth => contexts[c].runner # f
    BY <1>5, <1>4, <1>3, <1>2 DEF Control, Resumed, Top
  <1>7. state'[f] = "ready" /\ \A x \in Handles : x # f => state'[x] = state[x]
    BY <1>5, <1>1, <1>3
  <1>8. Moves(f, state, ctx, contexts, state', ctx')
    BY <1>7, <1>5, <1>4, <1>1, <1>3 DEF Moves, LiveIn, Ends
  <1>9. ctx[f] \in 0..Depth
    BY <1>5, <1>4, <1>3 DEF Placed, LiveIn, Ends
  <1>10. /\ Touches(f, contexts, contexts') /\ Placed(state', ctx', contexts', f)
         /\ \A c \in 1..Depth : contexts'[c].pc = contexts[c].pc /\ contexts'[c].runner = contexts[c].runner
         /\ Len(contexts') = Len(contexts)
    <2>1. CASE ctx[f] = 0
      <3>1. contexts' = contexts
        BY <2>1, <1>1 DEF ScheduleUnblocked
      <3>2. Touches(f, contexts, contexts)
        BY <1>5, NoTouch
      <3>3. Placed(state', ctx', contexts', f)
        BY <3>1, <2>1, <1>7, <1>5, <1>4, <1>1 DEF Placed, LiveIn, Ends, Queues
      <3> QED
        BY <3>1, <3>2, <3>3
    <2>2. CASE ctx[f] # 0
      <3> DEFINE c == ctx[f]
      <3>1. c \in 1..Len(contexts)
        BY <2>2, <1>9, <1>5
      <3>2. contexts' = ScheduleIn(contexts, c, f)
        BY <2>2, <1>1, Zenon DEF ScheduleUnblocked
      <3> HIDE DEF c
      <3>3. Edited(contexts, contexts', c, contexts[c].pc, contexts[c].runner, {},
                   Entries(contexts[c]) \cup {f}, contexts[c].waiting)
        BY <3>1, <3>2, <1>1, <1>5, ScheduleEffect, Zenon
      <3>4. Touches(f, contexts, contexts')
        BY <3>1, <3>3, <1>5, EditTouches
      <3>5. /\ Len(contexts') = Len(contexts)
            /\ \A d \in 1..Depth : d # c => contexts'[d] = contexts[d]
            /\ contexts'[c].pc = contexts[c].pc /\ contexts'[c].runner = contexts[c].runner
            /\ Entries(contexts'[c]) = Entries(contexts[c]) \cup {f}
            /\ contexts'[c].waiting = contexts[c].waiting
        BY <3>3, <1>5 DEF Edited
      <3>6. ctx'[f] = c
        BY <1>1 DEF c
      <3>7. Placed(state', ctx', contexts', f)
        <4>1. /\ LiveIn(state, f) /\ ctx[f] = c /\ state'[f] = "ready"
          BY <1>4, <1>7 DEF LiveIn, Ends, c
        <4>2. ASSUME NEW d \in 1..Depth
              PROVE  /\ d = c => f \in Entries(contexts'[d])
                     /\ f \in Entries(contexts'[d]) => c >= d \/ contexts'[d].pc = "exit"
                     /\ f \notin contexts'[d].waiting
          <5>1. /\ f \in Entries(contexts[d]) => c >= d \/ contexts[d].pc = "exit"
                /\ f \notin contexts[d].waiting
            BY <1>5, <4>1, <1>4 DEF Placed
          <5>2. CASE d = c
            BY <5>1, <5>2, <3>5, <3>1, <1>5
          <5>3. CASE d # c
            BY <5>1, <5>3, <3>5
          <5> QED
            BY <5>2, <5>3
        <4> QED
          BY <4>1, <4>2, <3>6, <3>5, <3>1, <1>5 DEF Placed, LiveIn, Queues
      <3> QED
        BY <3>4, <3>5, <3>7, <1>5
    <2> QED
      BY <2>1, <2>2
  <1>11. Fits(f, contexts, state', ctx', contexts')
    BY <1>10, <1>6, <1>7, <1>5 DEF Fits
  <1>12. Scheduling(state', ctx', contexts')
    BY <1>5, <1>8, <1>10, <1>11, <1>3, TouchStep
  <1>13. Resumed' = Resumed
    BY <1>10, <1>5 DEF Resumed, Depth, Top
  <1>14. Graph(age)'
    BY <1>1, <1>2, <1>3, <1>4, <1>13, FunctionStep
  <1>15. Nest(state', ctx', kids')
    <2>1. Nest(state, ctx, kids)
      BY <1>1, UnblockFacts
    <2>2. Nears(f, state, ctx, kids, state', ctx', kids')
      BY <1>1, <1>4, <1>5, <1>7, Basics DEF Nears, LiveIn, Ends
    <2> QED
      BY <2>1, <2>2, <1>3, NestStep
  <1>16. Batched'
    <2>1. f \notin Leaves
      BY <1>1, AsioAssumption
    <2> QED
      BY <2>1, <1>1, <1>7, <1>10, <1>5, Basics DEF Batched, Inv, Depth, Top
  <1>17. Counted'
    BY <1>1 DEF Counted, Inv
  <1> QED
    BY <1>12, <1>14, <1>15, <1>16, <1>17, Conclude

-----------------------------------------------------------------------------
\* A leaf, a reschedule, a condition or a running function finishes.

\* A waiting leaf leaves the queue of its context.
LEMMA LeafUnregistered ==
  ASSUME NEW age \in [Static -> Nat], Inv(age), NEW h \in Leaves, state[h] = "waiting",
         NEW m, m = unregisterFrom(contexts, h)
  PROVE  /\ Touches(h, contexts, m) /\ Len(m) = Len(contexts) /\ m \in Seq(Contexts)
         /\ \A c \in 1..Depth :
              /\ m[c].pc = contexts[c].pc /\ m[c].runner = contexts[c].runner
              /\ h \notin m[c].waiting
  <1>1. h \in Handles
    BY Basics
  <1>2. /\ ctx \in [Handles -> Nat] /\ contexts \in Seq(Contexts) /\ Depth = Len(contexts)
        /\ Depth \in Nat /\ Placed(state, ctx, contexts, h)
    BY <1>1, Basics DEF Inv, Depth, Scheduling, Queued
  <1>3. LiveIn(state, h)
    BY DEF LiveIn, Ends
  <1>4. /\ Touches(h, contexts, m)
        /\ \A c \in 1..Depth :
             /\ m[c].pc = contexts[c].pc /\ m[c].runner = contexts[c].runner
             /\ h \notin m[c].waiting
    <2>1. CASE ctx[h] = 0
      <3>1. m = contexts
        BY <2>1 DEF unregisterFrom
      <3>2. \A c \in 1..Depth : h \notin contexts[c].waiting
        BY <2>1, <1>2 DEF Placed
      <3> QED
        BY <3>1, <3>2, <1>2, NoTouch
    <2>2. CASE ctx[h] # 0
      <3> DEFINE c == ctx[h]
      <3>1. c \in 1..Len(contexts)
        BY <2>2, <1>1, <1>2, <1>3 DEF Placed
      <3>2. m = [contexts EXCEPT ![c].waiting = @ \ {h}]
        BY <2>2, Zenon DEF unregisterFrom
      <3>3. \A d \in 1..Depth : d # c => h \notin contexts[d].waiting
        BY <1>2 DEF Placed
      <3> HIDE DEF c
      <3>4. Edited(contexts, m, c, contexts[c].pc, contexts[c].runner, {},
                   Entries(contexts[c]), contexts[c].waiting \ {h})
        <4>1. Edited(contexts, [contexts EXCEPT ![c].waiting = @ \ {h}], c, contexts[c].pc,
                     contexts[c].runner, {}, Entries(contexts[c]), contexts[c].waiting \ {h})
          BY <3>1, <1>2, UnregisterEffect, Zenon
        <4> QED
          BY <4>1, <3>2, Zenon
      <3>5. Touches(h, contexts, m)
        BY <3>1, <3>4, <1>2, EditTouches
      <3>6. /\ \A d \in 1..Depth : d # c => m[d] = contexts[d]
            /\ m[c].pc = contexts[c].pc /\ m[c].runner = contexts[c].runner
            /\ h \notin m[c].waiting
        BY <3>4, <1>2 DEF Edited
      <3> QED
        BY <3>3, <3>5, <3>6
    <2> QED
      BY <2>1, <2>2
  <1> QED
    BY <1>4 DEF Touches

\* A leaf is processed or cancelled; the innermost context stays where it is or,
\* when an exception leaves it, turns to its exit.
LEMMA LeafFinishes ==
  ASSUME NEW age \in [Static -> Nat], Inv(age), chains = <<>>, Resumed = None,
         Nest(state, ctx, kids), NEW h \in Leaves, state[h] = "waiting", NEW r \in Ends,
         Finish(h, r, <<>>), UNCHANGED <<kids, unfinished>>,
         Touches(h, contexts, contexts'), Resumed' = None,
         \A c \in 1..Depth :
           /\ contexts'[c].runner = contexts[c].runner /\ h \notin contexts'[c].waiting
           /\ \/ contexts'[c].pc = contexts[c].pc
              \/ contexts'[c].pc = "exit" /\ c = Depth /\ contexts[c].runner = None,
         batch' \subseteq batch \ {h}, batch' # {} => Top'.pc = Top.pc,
         Counted'
  PROVE  IInv'
  <1>1. /\ h \in Handles /\ h \notin AsyncFunctions /\ h \notin AwaitAlls /\ h # None
    BY AsioAssumption, Basics
  <1>2. /\ ctx \in [Handles -> Nat] /\ contexts \in Seq(Contexts) /\ Depth = Len(contexts)
        /\ Depth \in Nat /\ state \in [Handles -> States]
        /\ Scheduling(state, ctx, contexts) /\ Graph(age)
        /\ \A c \in 1..Depth : contexts[c] \in Contexts
    BY <1>1, Basics DEF Inv, Depth
  <1>3. Live(h)
    BY DEF Live, Finished
  <1>4. state' = [state EXCEPT ![h] = r] /\ ctx' = [ctx EXCEPT ![h] = 0]
    BY DEF Finish
  <1>5. \A c \in 1..Depth : contexts[c].runner # h
    BY <1>1, <1>2 DEF Contexts
  <1>6. Len(contexts') = Len(contexts)
    BY DEF Touches
  <1>7. Quits(h, state, ctx, contexts, state', ctx', contexts')
    <2>1. ASSUME NEW c \in 1..Len(contexts), c = Len(contexts)
          PROVE  \/ /\ contexts'[c].pc = contexts[c].pc
                    /\ contexts'[c].runner = contexts[c].runner /\ contexts[c].runner # h
                 \/ Control(state', ctx', contexts', c)
      <3>1. CASE contexts'[c].pc = contexts[c].pc
        BY <3>1, <1>2, <1>5
      <3>2. CASE contexts'[c].pc = "exit" /\ contexts[c].runner = None
        BY <3>2, <2>1, <1>2, <1>6 DEF Control
      <3> QED
        BY <3>1, <3>2, <1>2
    <2> QED
      BY <2>1, <1>2 DEF Quits
  <1>8. Scheduling(state', ctx', contexts')
    BY <1>1, <1>2, <1>4, <1>7, FinishContexts
  <1>9. Nest(state', ctx', kids')
    BY <1>1, <1>2, <1>4, Basics, FinishNest
  <1>10. Graph(age)'
    BY <1>1, <1>2, <1>3, FinishQuiet
  <1>11. Batched'
    BY <1>4, <1>2, <1>6, Basics DEF Batched, Inv, Depth, Top
  <1> QED
    BY <1>8, <1>9, <1>10, <1>11, Conclude

\* process, with or without an exception, and cancel.
LEMMA StepLeaf ==
  ASSUME NEW age \in [Static -> Nat], Inv(age), process \/ processThrows \/ cancel
  PROVE  IInv'
  <1>1. ASSUME NEW h \in Leaves, state[h] = "waiting", chains = <<>>, Resumed = None,
               Nest(state, ctx, kids), NEW r \in Ends, Finish(h, r, <<>>),
               contexts' = unregisterFrom(contexts, h), batch' = batch \ {h},
               UNCHANGED <<kids, unfinished, unwinding, interrupts>>
        PROVE  IInv'
    <2>1. /\ Touches(h, contexts, contexts') /\ Len(contexts') = Len(contexts)
          /\ \A c \in 1..Depth :
               /\ contexts'[c].pc = contexts[c].pc /\ contexts'[c].runner = contexts[c].runner
               /\ h \notin contexts'[c].waiting
      BY <1>1, LeafUnregistered
    <2>2. Depth \in Nat /\ Depth = Len(contexts)
      BY Basics DEF Depth
    <2>3. Resumed' = None
      BY <1>1, <2>1, <2>2 DEF Resumed, Depth, Top
    <2>4. batch' # {} => Top'.pc = Top.pc
      BY <1>1, <2>1, <2>2 DEF Inv, Batched, Depth, Top
    <2>5. Counted'
      BY <1>1 DEF Counted, Inv
    <2> QED
      BY <1>1, <2>1, <2>3, <2>4, <2>5, LeafFinishes
  <1>2. CASE process
    <2>1. PICK h \in batch, r \in Ends :
            /\ batch' = batch \ {h} /\ contexts' = unregisterFrom(contexts, h)
            /\ Finish(h, r, <<>>)
      BY <1>2, Zenon DEF process, Ends
    <2>2. /\ chains = <<>> /\ UNCHANGED <<kids, unfinished, unwinding, interrupts>>
          /\ h \in Leaves /\ state[h] = "waiting" /\ Top.pc = "loop" /\ batch # {}
      BY <1>2 DEF process, Inv, Batched
    <2>3. Resumed = None /\ ~Exiting
      BY <2>2 DEF Resumed, Exiting, Quiet
    <2>4. Nest(state, ctx, kids)
      BY <2>3, Basics
    <2> QED
      BY <2>1, <2>2, <2>3, <2>4, <1>1
  <1>3. CASE processThrows
    <2>1. PICK h \in batch \cap Events :
            /\ contexts' = [unregisterFrom(contexts, h) EXCEPT ![Depth].pc = "exit"]
            /\ Finish(h, "failed", <<>>)
      BY <1>3, Zenon DEF processThrows
    <2>2. /\ chains = <<>> /\ UNCHANGED <<kids, unfinished>> /\ batch' = {}
          /\ h \in Leaves /\ state[h] = "waiting" /\ Top.pc = "loop" /\ Depth > 0
          /\ unwinding' = TRUE /\ interrupts < MaxInterrupts /\ interrupts' = interrupts + 1
          /\ "failed" \in Ends
      BY <1>3 DEF processThrows, Inv, Batched, Ends
    <2>3. Resumed = None /\ ~Exiting
      BY <2>2, <2>1 DEF Resumed, Exiting, Quiet
    <2>4. Nest(state, ctx, kids)
      BY <2>3, Basics
    <2> DEFINE m == unregisterFrom(contexts, h)
    <2> HIDE DEF m
    <2>5. /\ Touches(h, contexts, m) /\ Len(m) = Len(contexts) /\ m \in Seq(Contexts)
          /\ \A c \in 1..Depth :
               /\ m[c].pc = contexts[c].pc /\ m[c].runner = contexts[c].runner
               /\ h \notin m[c].waiting
      BY <2>2, LeafUnregistered DEF m
    <2>6. /\ Depth \in 1..Len(m) /\ Depth = Len(contexts) /\ Depth \in Nat /\ "exit" \in PCs
          /\ contexts[Depth].pc = "loop" /\ contexts[Depth].runner = None
      BY <2>2, <2>5, Basics DEF PCs, Depth, Top, Control
    <2>7. Edited(m, contexts', Depth, "exit", m[Depth].runner, {}, Entries(m[Depth]), m[Depth].waiting)
      <3>1. Edited(m, [m EXCEPT ![Depth].pc = "exit"], Depth, "exit", m[Depth].runner, {},
                   Entries(m[Depth]), m[Depth].waiting)
        BY <2>5, <2>6, PcEffect, Zenon
      <3> QED
        BY <3>1, <2>1, Zenon DEF m
    <2>8. /\ contexts' \in Seq(Contexts) /\ Len(contexts') = Len(contexts)
          /\ \A c \in 1..Depth :
               /\ contexts'[c].runner = m[c].runner /\ contexts'[c].target = m[c].target
               /\ Entries(contexts'[c]) = Entries(m[c]) /\ contexts'[c].waiting = m[c].waiting
               /\ contexts'[c].pc = IF c = Depth THEN "exit" ELSE m[c].pc
      BY <2>5, <2>6, <2>7 DEF Edited
    <2>9. Touches(h, contexts, contexts')
      <3> SUFFICES ASSUME NEW c \in 1..Len(contexts)
                   PROVE  /\ contexts'[c].target = contexts[c].target
                          /\ Entries(contexts'[c]) \ {h} = Entries(contexts[c]) \ {h}
                          /\ contexts'[c].waiting \ {h} = contexts[c].waiting \ {h}
                          /\ contexts[c].pc = "exit" => contexts'[c].pc = "exit"
                          /\ contexts'[c].runner = contexts[c].runner
                          /\ c < Len(contexts) => contexts'[c].pc = contexts[c].pc
        BY <2>8 DEF Touches
      <3>1. /\ m[c].target = contexts[c].target
            /\ Entries(m[c]) \ {h} = Entries(contexts[c]) \ {h}
            /\ m[c].waiting \ {h} = contexts[c].waiting \ {h}
        BY <2>5 DEF Touches
      <3>2. /\ contexts'[c].runner = m[c].runner /\ contexts'[c].target = m[c].target
            /\ Entries(contexts'[c]) = Entries(m[c]) /\ contexts'[c].waiting = m[c].waiting
            /\ contexts'[c].pc = IF c = Depth THEN "exit" ELSE m[c].pc
        BY <2>6, <2>8
      <3> QED
        BY <3>1, <3>2, <2>5, <2>6
    <2>10. Resumed' = None
      BY <2>6, <2>8 DEF Resumed, Depth, Top
    <2>11. Counted'
      BY <2>2, AsioAssumption DEF Counted, Inv
    <2>12. \A c \in 1..Depth :
             /\ contexts'[c].runner = contexts[c].runner /\ h \notin contexts'[c].waiting
             /\ \/ contexts'[c].pc = contexts[c].pc
                \/ contexts'[c].pc = "exit" /\ c = Depth /\ contexts[c].runner = None
      BY <2>5, <2>6, <2>8
    <2>13. batch' \subseteq batch \ {h} /\ (batch' # {} => Top'.pc = Top.pc)
      BY <2>2
    <2> QED
      BY <2>1, <2>2, <2>3, <2>4, <2>9, <2>10, <2>11, <2>12, <2>13, LeafFinishes
  <1>4. CASE cancel
    <2>1. PICK h \in Leaves :
            /\ state[h] = "waiting" /\ contexts' = unregisterFrom(contexts, h)
            /\ Finish(h, "failed", <<>>)
      BY <1>4, Zenon DEF cancel
    <2>2. /\ UserCode /\ UNCHANGED <<kids, unfinished, batch, unwinding, interrupts>>
      BY <1>4 DEF cancel
    <2>3. batch' = batch \ {h} /\ "failed" \in Ends
      BY <2>2, UserFacts DEF Ends
    <2> QED
      BY <2>1, <2>2, <2>3, UserFacts, <1>1
  <1> QED
    BY <1>2, <1>3, <1>4

\* A condition is notified.
LEMMA StepNotify ==
  ASSUME NEW age \in [Static -> Nat], Inv(age), notifyCondition
  PROVE  IInv'
  <1>1. PICK c \in Conditions, r \in Ends : state[c] = "blocked" /\ Finish(c, r, <<>>)
    BY Zenon DEF notifyCondition, Ends
  <1>2. UserCode /\ UNCHANGED <<kids, unfinished, contexts, batch, unwinding, interrupts>>
    BY DEF notifyCondition
  <1>3. /\ c \in Static /\ c \in Handles /\ c \notin AwaitAlls /\ Live(c)
    BY <1>1, AsioAssumption DEF Static, Handles, Live, Finished
  <1>4. Resumed' = Resumed
    BY <1>2 DEF Resumed, Depth, Top
  <1>5. Graph(age)'
    BY <1>1, <1>2, <1>3, <1>4, UserFacts, FinishQuiet DEF Inv
  <1>6. state' = [state EXCEPT ![c] = r] /\ ctx' = [ctx EXCEPT ![c] = 0]
    BY <1>1 DEF Finish
  <1> QED
    BY <1>2, <1>3, <1>5, <1>6, UserFacts, StaticFinishes

-----------------------------------------------------------------------------
\* The scheduler's own steps.

\* The graph stays as it is.
LEMMA GraphSame ==
  ASSUME NEW age, Graph(age), UNCHANGED <<state, kids, unfinished, parents, chains>>, Resumed' = Resumed
  PROVE  Graph(age)'
  <1> USE DEF Finished, Live, getChild, Current, Awaits
  <1>1. GraphTyped' /\ Kinds' /\ Created'
    BY DEF Graph, GraphTyped, Kinds, Created
  <1>2. NodesAwait' /\ AwaitedHaveNodes'
    BY DEF Graph, NodesAwait, AwaitedHaveNodes
  <1>3. PendingAwait' /\ FinishedPending' /\ ResumedIsBlocked'
    BY DEF Graph, PendingAwait, FinishedPending, ResumedIsBlocked
  <1>4. InOrder(age)'
    BY DEF Graph, InOrder
  <1>5. Child' = Child
    BY DEF Child
  <1>6. Acyclic(Child)'
    BY <1>5 DEF Graph, Acyclic
  <1> QED
    BY <1>1, <1>2, <1>3, <1>4, <1>6 DEF Graph

\* An entry of a queue that does not count any more is dropped.
Drops(h) ==
  /\ Depth > 0 /\ h \in Handles
  /\ Edited(contexts, contexts', Depth, Top.pc, Top.runner, {h}, Entries(Top), Top.waiting)
  /\ ~(state[h] \in {"ready"} \cup Queues /\ ctx[h] = Depth)
  /\ UNCHANGED <<state, ctx, kids, unfinished, parents, chains, batch, unwinding, interrupts>>

\* Dropping such an entry, of a handle that has finished, runs already or is in
\* another context, loses nothing.
LEMMA DropStep ==
  ASSUME NEW age \in [Static -> Nat], Inv(age), NEW h, Drops(h)
  PROVE  IInv'
  <1>1. /\ contexts \in Seq(Contexts) /\ Depth = Len(contexts) /\ Depth \in 1..Depth
        /\ Joins(state, ctx, contexts) /\ Queued(state, ctx, contexts)
        /\ Aimed(state, ctx, contexts) /\ ContextsTyped(ctx, contexts) /\ h \in Handles
    BY Basics DEF Inv, Scheduling, Drops, Depth
  <1>2. /\ contexts' \in Seq(Contexts) /\ Len(contexts') = Depth
        /\ Entries(contexts'[Depth]) \cup {h} = Entries(contexts[Depth])
        /\ \A c \in 1..Depth :
             /\ contexts'[c].pc = contexts[c].pc /\ contexts'[c].runner = contexts[c].runner
             /\ contexts'[c].target = contexts[c].target /\ contexts'[c].waiting = contexts[c].waiting
             /\ c # Depth => contexts'[c] = contexts[c]
    BY <1>1 DEF Drops, Edited, Top
  <1> DEFINE cs == contexts'
  <1>3. UNCHANGED <<state, ctx, kids, unfinished, parents, chains, batch, unwinding, interrupts>>
    BY DEF Drops
  <1>4. Joins(state, ctx, cs)
    BY <1>1, <1>2 DEF Joins, Control
  <1>5. Aimed(state, ctx, cs)
    BY <1>1, <1>2 DEF Aimed
  <1>6. Queued(state, ctx, cs)
    <2> SUFFICES ASSUME NEW x \in Handles
                 PROVE  Placed(state, ctx, cs, x)
      BY DEF Queued
    <2>1. Placed(state, ctx, contexts, x)
      BY <1>1 DEF Queued
    <2>2. \A c \in 1..Depth : x \in Entries(cs[c]) => x \in Entries(contexts[c])
      BY <1>2
    <2>3. ASSUME NEW c \in 1..Depth, state[x] \in {"ready"} \cup Queues, ctx[x] = c
          PROVE  x \in Entries(cs[c])
      <3>1. x \in Entries(contexts[c])
        BY <2>1, <2>3, <1>1 DEF Placed
      <3>2. c = Depth => x # h
        BY <2>3 DEF Drops
      <3> QED
        BY <3>1, <3>2, <1>2
    <2> QED
      BY <2>1, <2>2, <2>3, <1>1, <1>2 DEF Placed
  <1>7. ContextsTyped(ctx, cs)
    BY <1>1, <1>2 DEF ContextsTyped
  <1>8. Scheduling(state', ctx', contexts')
    BY <1>3, <1>4, <1>5, <1>6, <1>7 DEF Scheduling
  <1>9. Depth' = Depth /\ Top'.pc = Top.pc /\ Top'.runner = Top.runner
    BY <1>1, <1>2 DEF Depth, Top
  <1>10. Resumed' = Resumed /\ Exiting' = Exiting
    BY <1>3, <1>9 DEF Resumed, Exiting, Quiet
  <1>11. Graph(age)'
    BY <1>3, <1>10, GraphSame DEF Inv
  <1>12. Nested'
    BY <1>3, <1>9, <1>10 DEF Inv, Nested, Nest, Leaving, Current
  <1>13. Batched' /\ Counted'
    BY <1>3, <1>9 DEF Inv, Batched, Counted
  <1> QED
    BY <1>8, <1>11, <1>12, <1>13 DEF IInv, Inv

\* Between two steps of runUntil.
LEMMA LoopFacts ==
  ASSUME NEW age \in [Static -> Nat], Inv(age), Quiet, Depth > 0, Top.pc \in {"loop", "tail"}
  PROVE  /\ chains = <<>> /\ batch = {} /\ Resumed = None /\ Nest(state, ctx, kids)
         /\ Top.runner = None /\ Depth \in 1..Len(contexts) /\ Depth = Len(contexts)
  <1>1. Resumed = None /\ ~Exiting /\ chains = <<>> /\ batch = {}
    BY DEF Resumed, Exiting, Quiet
  <1>2. Nest(state, ctx, kids) /\ Depth \in 1..Len(contexts) /\ Control(state, ctx, contexts, Depth)
    BY <1>1, Basics
  <1>3. Top.runner = None
    BY <1>2 DEF Control, Top
  <1> QED
    BY <1>1, <1>2, <1>3 DEF Depth

\* A reschedule that a queue gave runs, unless it ran before.
LEMMA RescheduleRuns ==
  ASSUME NEW age \in [Static -> Nat], Inv(age), Loop, NEW h \in Reschedules,
         Edited(contexts, contexts', Depth, Top.pc, Top.runner, {h}, Entries(Top), Top.waiting),
         RunReschedule(h), UNCHANGED <<kids, unfinished, batch, unwinding, interrupts>>
  PROVE  IInv'
  <1>1. /\ h \in Handles /\ h \notin AsyncFunctions /\ h \notin AwaitAlls /\ h # None /\ h \notin Leaves
    BY AsioAssumption, Basics
  <1>2. /\ chains = <<>> /\ batch = {} /\ Resumed = None /\ Nest(state, ctx, kids) /\ Top.runner = None
        /\ Depth \in 1..Len(contexts) /\ Depth = Len(contexts) /\ Top.pc = "loop" /\ Depth > 0
    BY LoopFacts DEF Loop
  <1>3. CASE Scheduled(h)
    <2>1. Finish(h, "succeeded", <<>>) /\ "succeeded" \in Ends /\ Live(h) /\ state[h] # "blocked"
      BY <1>3, Zenon DEF RunReschedule, Ends, Scheduled, Queues, Live, Finished
    <2>2. state' = [state EXCEPT ![h] = "succeeded"] /\ ctx' = [ctx EXCEPT ![h] = 0]
      BY <2>1 DEF Finish
    <2>3. /\ state \in [Handles -> States] /\ contexts \in Seq(Contexts)
          /\ ctx \in [Handles -> Nat] /\ kids \in [Handles -> Seq(Handles)]
          /\ Scheduling(state, ctx, contexts) /\ Graph(age) /\ state[h] # "running"
      BY <1>3, Basics DEF Inv, Scheduled, Queues
    <2>4. Touches(h, contexts, contexts')
      BY <1>2, <2>3, EditTouches DEF Top
    <2>5. /\ contexts' \in Seq(Contexts) /\ Len(contexts') = Len(contexts)
          /\ contexts'[Depth].pc = Top.pc /\ contexts'[Depth].runner = Top.runner
          /\ \A c \in 1..Depth : contexts'[c] \in Contexts
      BY <1>2 DEF Edited
    <2>6. Quits(h, state, ctx, contexts, state', ctx', contexts')
      BY <1>1, <1>2, <2>3, <2>4, <2>5 DEF Quits, Contexts, Top
    <2>7. Scheduling(state', ctx', contexts')
      BY <1>1, <2>1, <2>2, <2>3, <2>6, FinishContexts
    <2>8. Nest(state', ctx', kids')
      BY <1>1, <1>2, <2>1, <2>2, <2>3, FinishNest
    <2>9. Resumed' = None
      BY <1>2, <2>5 DEF Resumed, Depth, Top
    <2>10. Graph(age)'
      BY <1>1, <1>2, <2>1, <2>3, <2>9, FinishQuiet
    <2>11. Batched' /\ Counted'
      BY <1>2 DEF Batched, Counted, Inv
    <2> QED
      BY <2>7, <2>8, <2>10, <2>11, Conclude
  <1>4. CASE ~Scheduled(h)
    <2>1. UNCHANGED <<state, ctx, parents, chains>>
      BY <1>4 DEF RunReschedule
    <2>2. state[h] # "ready"
      BY DEF Inv, Graph, Kinds, Queues, Ends
    <2>3. Drops(h)
      BY <1>1, <1>2, <1>4, <2>1, <2>2 DEF Drops, Scheduled
    <2> QED
      BY <2>3, DropStep
  <1> QED
    BY <1>3, <1>4

\* runUntil runs a reschedule handle of the default or of the no-pending-I/O
\* queue, or skips it.
LEMMA StepReschedule ==
  ASSUME NEW age \in [Static -> Nat], Inv(age), runDefault \/ runNoPendingIO
  PROVE  IInv'
  <1>1. Loop /\ contexts \in Seq(Contexts) /\ Depth \in 1..Len(contexts)
    BY Basics DEF runDefault, runNoPendingIO, NothingReady, Unsettled, Loop
  <1>2. CASE runDefault
    <2>1. /\ contexts[Depth].default # <<>>
          /\ contexts' = [contexts EXCEPT ![Depth].default = Tail(@)]
      BY <1>2, Zenon DEF runDefault, Top
    <2>2. /\ Head(Top.default) \in Reschedules
          /\ Edited(contexts, [contexts EXCEPT ![Depth].default = Tail(@)], Depth, Top.pc, Top.runner,
                    {Head(Top.default)}, Entries(Top), Top.waiting)
      BY <1>1, <2>1, PopDefault, Zenon DEF Top
    <2>3. Edited(contexts, contexts', Depth, Top.pc, Top.runner,
                 {Head(Top.default)}, Entries(Top), Top.waiting)
      BY <2>1, <2>2, Zenon
    <2>4. RunReschedule(Head(Top.default)) /\ UNCHANGED <<kids, unfinished, batch, unwinding, interrupts>>
      BY <1>2, Zenon DEF runDefault
    <2> QED
      BY <1>1, <2>2, <2>3, <2>4, RescheduleRuns, Zenon
  <1>3. CASE runNoPendingIO
    <2>1. /\ contexts[Depth].noPendingIO # <<>>
          /\ contexts' = [contexts EXCEPT ![Depth].noPendingIO = Tail(@)]
      BY <1>3, Zenon DEF runNoPendingIO, Top
    <2>2. /\ Head(Top.noPendingIO) \in Reschedules
          /\ Edited(contexts, [contexts EXCEPT ![Depth].noPendingIO = Tail(@)], Depth, Top.pc, Top.runner,
                    {Head(Top.noPendingIO)}, Entries(Top), Top.waiting)
      BY <1>1, <2>1, PopNoPendingIO, Zenon DEF Top
    <2>3. Edited(contexts, contexts', Depth, Top.pc, Top.runner,
                 {Head(Top.noPendingIO)}, Entries(Top), Top.waiting)
      BY <2>1, <2>2, Zenon
    <2>4. RunReschedule(Head(Top.noPendingIO)) /\ UNCHANGED <<kids, unfinished, batch, unwinding, interrupts>>
      BY <1>3, Zenon DEF runNoPendingIO
    <2> QED
      BY <1>1, <2>2, <2>3, <2>4, RescheduleRuns, Zenon
  <1> QED
    BY <1>2, <1>3

\* Context Depth goes on with function f, from one of its queues or straight from
\* one that f waited for.
GoesOn(f, S) ==
  /\ Quiet /\ Depth > 0 /\ f \in AsyncFunctions /\ S \subseteq {f}
  /\ \/ Top.pc \in {"loop", "tail"} /\ state[f] = "ready" /\ f \in Entries(Top)
     \/ Top.pc = "resume" /\ f = Top.runner
  /\ Edited(contexts, contexts', Depth, "running", f, S, Entries(Top), Top.waiting)
  /\ state' = [state EXCEPT ![f] = "running"]
  /\ UNCHANGED <<ctx, kids, unfinished, parents, chains, batch, unwinding, interrupts>>

\* A ready function that the innermost context resumes.
LEMMA FunctionRuns ==
  ASSUME NEW age \in [Static -> Nat], Inv(age), NEW f, NEW S, GoesOn(f, S)
  PROVE  IInv'
  <1>1. /\ Quiet /\ Depth > 0 /\ f \in AsyncFunctions /\ f \in Handles /\ S \subseteq {f} /\ f # None
        /\ f \notin Leaves
        /\ Edited(contexts, contexts', Depth, "running", f, S, Entries(Top), Top.waiting)
        /\ state' = [state EXCEPT ![f] = "running"]
        /\ UNCHANGED <<ctx, kids, unfinished, parents, chains, batch, unwinding, interrupts>>
    BY AsioAssumption, Basics DEF GoesOn
  <1>2. /\ state \in [Handles -> States] /\ contexts \in Seq(Contexts)
        /\ ctx \in [Handles -> Nat] /\ ctx \in [Handles -> 0..MaxContextDepth]
        /\ kids \in [Handles -> Seq(Handles)]
        /\ Depth \in 1..Len(contexts) /\ Depth = Len(contexts) /\ Depth \in Nat
        /\ Scheduling(state, ctx, contexts) /\ Graph(age) /\ chains = <<>> /\ batch = {}
        /\ Placed(state, ctx, contexts, f) /\ Control(state, ctx, contexts, Depth)
    BY <1>1, Basics DEF Inv, Scheduling, Queued, Depth, Quiet
  <1>3. /\ ctx[f] = Depth /\ LiveIn(state, f) /\ state[f] \in {"blocked", "ready"}
        /\ Finished(kids[f][1]) /\ Top.runner \in {None, f} /\ Top.pc # "exit"
        /\ Resumed = None \/ Resumed = f
    <2>1. CASE Top.pc \in {"loop", "tail"} /\ state[f] = "ready" /\ f \in Entries(Top)
      <3>1. LiveIn(state, f)
        BY <2>1 DEF LiveIn, Ends
      <3>2. ctx[f] >= Depth /\ ctx[f] <= Depth
        BY <2>1, <3>1, <1>2 DEF Placed, Top
      <3>3. Finished(kids[f][1])
        BY <2>1, <1>1, <1>2 DEF Graph, Kinds
      <3>4. Resumed = None /\ Top.runner = None
        BY <2>1, <1>1, LoopFacts
      <3> QED
        BY <3>1, <3>2, <3>3, <3>4, <2>1, <1>1, <1>2
    <2>2. CASE Top.pc = "resume" /\ f = Top.runner
      <3>1. Resumed = f
        BY <2>2, <1>1 DEF Resumed
      <3>2. state[f] = "blocked" /\ Finished(kids[f][1])
        BY <3>1, <1>1, <1>2 DEF Graph, ResumedIsBlocked
      <3>3. ctx[f] = Depth
        BY <2>2, <1>2 DEF Control, Top
      <3> QED
        BY <2>2, <3>1, <3>2, <3>3 DEF LiveIn, Ends
    <2> QED
      BY <2>1, <2>2 DEF GoesOn
  <1>4. /\ contexts' \in Seq(Contexts) /\ Len(contexts') = Len(contexts)
        /\ \A c \in 1..Depth : contexts'[c] \in Contexts /\ (c # Depth => contexts'[c] = contexts[c])
        /\ contexts'[Depth].pc = "running" /\ contexts'[Depth].runner = f
        /\ Entries(contexts'[Depth]) \subseteq Entries(contexts[Depth])
    <2>1. Edited(contexts, contexts', Depth, "running", f, S, Entries(contexts[Depth]), contexts[Depth].waiting)
      BY <1>1 DEF Top
    <2> QED
      BY <2>1, <1>2 DEF Edited
  <1>5. Touches(f, contexts, contexts')
    <2>1. Edited(contexts, contexts', Depth, "running", f, S, Entries(contexts[Depth]), contexts[Depth].waiting)
      BY <1>1 DEF Top
    <2>2. S \subseteq {f} /\ contexts[Depth].pc # "exit" /\ contexts[Depth].runner \in {None, f}
      BY <1>1, <1>3 DEF Top
    <2> QED
      BY <2>1, <2>2, <1>2, EditTouches
  <1>6. state'[f] = "running" /\ \A x \in Handles : x # f => state'[x] = state[x]
    BY <1>1, <1>2
  <1>7. Moves(f, state, ctx, contexts, state', ctx')
    BY <1>1, <1>2, <1>3, <1>6 DEF Moves, LiveIn, Ends
  <1>8. Fits(f, contexts, state', ctx', contexts')
    BY <1>1, <1>2, <1>3, <1>4, <1>6 DEF Fits, Control
  <1>9. Placed(state', ctx', contexts', f)
    <2>1. \A c \in 1..Depth : f \notin contexts'[c].waiting
      BY <1>1, <1>4 DEF Contexts
    <2>2. ctx'[f] = Depth
      BY <1>1, <1>3
    <2> QED
      BY <2>1, <2>2, <1>2, <1>4, <1>6 DEF Placed, Queues
  <1>10. Scheduling(state', ctx', contexts')
    BY <1>1, <1>2, <1>5, <1>7, <1>8, <1>9, TouchStep
  <1>11. Resumed' = None
    BY <1>2, <1>4 DEF Resumed, Depth, Top
  <1>12. Graph(age)'
    <2>1. chains' = <<>> /\ PendingNodes(<<>>) = {} /\ <<>> \in Seq(Seq(Nodes)) /\ WellOrdered(age, <<>>)
      BY <1>1, <1>2, NothingPending
    <2>2. (Resumed' = Resumed /\ Resumed # f) \/ (Resumed = f /\ Resumed' = None)
      BY <1>1, <1>3, <1>11
    <2> QED
      BY <2>1, <2>2, <1>1, <1>2, <1>3, FunctionStep
  <1>13. Nest(state', ctx', kids')
    <2>1. Nest(state, ctx, kids)
      BY <1>3, Basics DEF Exiting
    <2>2. Nears(f, state, ctx, kids, state', ctx', kids')
      BY <1>1, <1>2, <1>3, <1>6 DEF Nears
    <2> QED
      BY <2>1, <2>2, <1>1, NestStep
  <1>14. Batched' /\ Counted'
    BY <1>1, <1>2 DEF Batched, Counted, Inv
  <1> QED
    BY <1>10, <1>12, <1>13, <1>14, Conclude

\* runUntil takes a function from a queue.
LEMMA ResumeRuns ==
  ASSUME NEW age \in [Static -> Nat], Inv(age), Quiet, Depth > 0, Top.pc = "loop",
         NEW f \in AsyncFunctions, NEW cs,
         Edited(contexts, cs, Depth, Top.pc, Top.runner, {f}, Entries(Top), Top.waiting),
         Resume(f, cs),
         UNCHANGED <<ctx, kids, unfinished, parents, chains, batch, unwinding, interrupts>>
  PROVE  IInv'
  <1>1. contexts \in Seq(Contexts) /\ Depth \in 1..Len(contexts) /\ f \in Entries(Top) /\ f \in Handles
        /\ cs \in Seq(Contexts) /\ Depth \in 1..Len(cs) /\ AsyncFunctions \subseteq Handles
    BY Basics DEF Edited
  <1>2. CASE state[f] = "ready"
    <2>1. /\ state' = [state EXCEPT ![f] = "running"]
          /\ contexts' = [cs EXCEPT ![Depth].pc = "running", ![Depth].runner = f]
      BY <1>2, Zenon DEF Resume
    <2>2. Edited(cs, [cs EXCEPT ![Depth].pc = "running", ![Depth].runner = f], Depth, "running", f, {},
                 Entries(cs[Depth]), cs[Depth].waiting)
      <3>1. "running" \in PCs /\ f \in AsyncFunctions \cup {None}
        BY DEF PCs
      <3> QED
        BY <3>1, <1>1, ControlEffect, Zenon
    <2>3. Edited(cs, contexts', Depth, "running", f, {}, Entries(cs[Depth]), cs[Depth].waiting)
      BY <2>1, <2>2, Zenon
    <2>4. Edited(contexts, contexts', Depth, "running", f, {f}, Entries(Top), Top.waiting)
      BY <1>1, <2>3, EditTwice
    <2>5. GoesOn(f, {f})
      BY <1>1, <1>2, <2>1, <2>4 DEF GoesOn
    <2> QED
      BY <2>5, FunctionRuns
  <1>3. CASE state[f] # "ready"
    <2>1. contexts' = cs /\ UNCHANGED state
      BY <1>3 DEF Resume
    <2>2. state[f] \notin {"ready"} \cup Queues
      BY <1>3 DEF Inv, Graph, Kinds, Queues, Ends
    <2>3. Drops(f)
      BY <1>1, <2>1, <2>2 DEF Drops
    <2> QED
      BY <2>3, DropStep
  <1> QED
    BY <1>2, <1>3

\* runUntil takes a function off the runnable or the fast runnable queue, and
\* resumes it or skips it.
LEMMA StepRun ==
  ASSUME NEW age \in [Static -> Nat], Inv(age), runRunnable \/ runFast
  PROVE  IInv'
  <1>1. Quiet /\ Depth > 0 /\ Top.pc = "loop" /\ contexts \in Seq(Contexts) /\ Depth \in 1..Len(contexts)
    BY Basics DEF runRunnable, runFast, Unsettled, Loop
  <1>2. CASE runRunnable
    <2>1. contexts[Depth].runnable # <<>>
      BY <1>2, Zenon DEF runRunnable, Top
    <2>2. /\ Last(Top.runnable) \in AsyncFunctions
          /\ Edited(contexts, [contexts EXCEPT ![Depth].runnable = Front(@)], Depth, Top.pc, Top.runner,
                    {Last(Top.runnable)}, Entries(Top), Top.waiting)
      BY <1>1, <2>1, PopRunnable, Zenon DEF Top
    <2>3. /\ Resume(Last(Top.runnable), [contexts EXCEPT ![Depth].runnable = Front(@)])
          /\ UNCHANGED <<ctx, kids, unfinished, parents, chains, batch, unwinding, interrupts>>
      BY <1>2, Zenon DEF runRunnable
    <2> QED
      BY <1>1, <2>2, <2>3, ResumeRuns, Zenon DEF Loop
  <1>3. CASE runFast
    <2>1. contexts[Depth].fast # <<>>
      BY <1>3, Zenon DEF runFast, Top
    <2>2. /\ Last(Top.fast) \in AsyncFunctions
          /\ Edited(contexts, [contexts EXCEPT ![Depth].fast = Front(@)], Depth, Top.pc, Top.runner,
                    {Last(Top.fast)}, Entries(Top), Top.waiting)
      BY <1>1, <2>1, PopFast, Zenon DEF Top
    <2>3. /\ Resume(Last(Top.fast), [contexts EXCEPT ![Depth].fast = Front(@)])
          /\ UNCHANGED <<ctx, kids, unfinished, parents, chains, batch, unwinding, interrupts>>
      BY <1>3, Zenon DEF runFast
    <2> QED
      BY <1>1, <2>2, <2>3, ResumeRuns, Zenon DEF Loop
  <1> QED
    BY <1>2, <1>3

\* Translated code goes on with a function of the fast queue ...
LEMMA StepSwitch ==
  ASSUME NEW age \in [Static -> Nat], Inv(age), switchToFast
  PROVE  IInv'
  <1> DEFINE f == Last(Top.fast)
             cs == [contexts EXCEPT ![Depth].fast = Front(@)]
  <1>1. /\ Quiet /\ Depth > 0 /\ Top.pc = "tail" /\ contexts \in Seq(Contexts)
        /\ Depth \in 1..Len(contexts) /\ contexts[Depth].fast # <<>> /\ state[f] = "ready"
        /\ state' = [state EXCEPT ![f] = "running"]
        /\ UNCHANGED <<ctx, kids, unfinished, parents, chains, batch, unwinding, interrupts>>
    BY Basics, Zenon DEF switchToFast, Top
  <1>2. contexts' = [cs EXCEPT ![Depth].pc = "running", ![Depth].runner = f]
    BY Zenon DEF switchToFast
  <1>3. /\ f \in AsyncFunctions
        /\ Edited(contexts, cs, Depth, Top.pc, Top.runner, {f}, Entries(Top), Top.waiting)
    BY <1>1, PopFast, Zenon DEF Top
  <1> HIDE DEF f, cs
  <1>4. cs \in Seq(Contexts) /\ Depth \in 1..Len(cs) /\ f \in Entries(Top)
    BY <1>1, <1>3 DEF Edited
  <1>5. Edited(cs, contexts', Depth, "running", f, {}, Entries(cs[Depth]), cs[Depth].waiting)
    <2>1. "running" \in PCs /\ f \in AsyncFunctions \cup {None}
      BY <1>3 DEF PCs
    <2>2. Edited(cs, [cs EXCEPT ![Depth].pc = "running", ![Depth].runner = f], Depth, "running", f, {},
                 Entries(cs[Depth]), cs[Depth].waiting)
      BY <2>1, <1>4, ControlEffect, Zenon
    <2> QED
      BY <2>2, <1>2, Zenon
  <1>6. Edited(contexts, contexts', Depth, "running", f, {f}, Entries(Top), Top.waiting)
    BY <1>1, <1>3, <1>5, EditTwice
  <1>7. GoesOn(f, {f})
    BY <1>1, <1>3, <1>4, <1>6 DEF GoesOn
  <1> QED
    BY <1>7, FunctionRuns

\* ... or with one that waited for the function that has returned.
LEMMA StepResumeParent ==
  ASSUME NEW age \in [Static -> Nat], Inv(age), resumeParent
  PROVE  IInv'
  <1> DEFINE f == Top.runner
  <1>1. /\ Quiet /\ Depth > 0 /\ Top.pc = "resume" /\ contexts \in Seq(Contexts)
        /\ Depth \in 1..Len(contexts) /\ Control(state, ctx, contexts, Depth)
        /\ state' = [state EXCEPT ![f] = "running"]
        /\ UNCHANGED <<ctx, kids, unfinished, parents, chains, batch, unwinding, interrupts>>
    BY Basics, Zenon DEF resumeParent
  <1>2. contexts' = [contexts EXCEPT ![Depth].pc = "running"]
    BY Zenon DEF resumeParent
  <1>3. f \in AsyncFunctions
    BY <1>1 DEF Control, Top
  <1>4. Edited(contexts, contexts', Depth, "running", f, {}, Entries(Top), Top.waiting)
    <2>1. "running" \in PCs
      BY DEF PCs
    <2>2. Edited(contexts, [contexts EXCEPT ![Depth].pc = "running"], Depth, "running", Top.runner, {},
                 Entries(Top), Top.waiting)
      BY <2>1, <1>1, PcEffect, Zenon DEF Top
    <2> QED
      BY <2>2, <1>2, Zenon
  <1> HIDE DEF f
  <1>5. f = Top.runner
    BY DEF f
  <1>6. GoesOn(f, {})
    BY <1>1, <1>3, <1>4, <1>5 DEF GoesOn
  <1> QED
    BY <1>6, FunctionRuns

-----------------------------------------------------------------------------
\* The running function of a context ends, and the context goes on at p with g.

EndsAt(f, r, p, g) ==
  /\ Depth > 0 /\ Top.pc = "running" /\ f = Top.runner /\ r \in Ends /\ Quiet
  /\ state' = [state EXCEPT ![f] = r] /\ ctx' = [ctx EXCEPT ![f] = 0]
  /\ Edited(contexts, contexts', Depth, p, g, {}, Entries(Top), Top.waiting)
  /\ \/ g = None /\ p \in {"tail", "exit"}
     \/ p = "resume" /\ g \in AsyncFunctions /\ state[g] = "blocked" /\ ctx[g] = Depth
  /\ UNCHANGED <<kids, unfinished, batch>>

\* A running function that returns, fails or is interrupted leaves queues,
\* contexts and nesting in order.
LEMMA FunctionEnds ==
  ASSUME NEW age \in [Static -> Nat], Inv(age), NEW f, NEW r, NEW p, NEW g, EndsAt(f, r, p, g)
  PROVE  /\ f \in AsyncFunctions /\ state[f] = "running" /\ Resumed = None /\ chains = <<>>
         /\ Resumed' = g
         /\ Scheduling(state', ctx', contexts') /\ Nest(state', ctx', kids') /\ Batched'
  <1>1. /\ Depth > 0 /\ Top.pc = "running" /\ f = Top.runner /\ r \in Ends
        /\ Edited(contexts, contexts', Depth, p, g, {}, Entries(Top), Top.waiting)
        /\ chains = <<>> /\ batch = {} /\ batch' = batch /\ kids' = kids
    BY DEF EndsAt, Quiet
  <1>2. state' = [state EXCEPT ![f] = r] /\ ctx' = [ctx EXCEPT ![f] = 0]
    BY DEF EndsAt
  <1>3. /\ state \in [Handles -> States] /\ contexts \in Seq(Contexts)
        /\ ctx \in [Handles -> Nat] /\ kids \in [Handles -> Seq(Handles)]
        /\ Depth \in 1..Len(contexts) /\ Depth = Len(contexts) /\ Depth \in Nat
        /\ Scheduling(state, ctx, contexts) /\ Control(state, ctx, contexts, Depth)
        /\ AsyncFunctions \subseteq Handles /\ None \notin AsyncFunctions
    BY <1>1, Basics DEF Inv, Depth
  <1>4. f \in AsyncFunctions /\ state[f] = "running" /\ ctx[f] = Depth /\ f \in Handles /\ f \notin Leaves
    BY <1>1, <1>3, AsioAssumption DEF Control, Top
  <1>5. Resumed = None /\ Nest(state, ctx, kids)
    BY <1>1, Basics DEF Resumed, Exiting
  <1>6. /\ contexts' \in Seq(Contexts) /\ Len(contexts') = Len(contexts)
        /\ \A c \in 1..Depth : contexts'[c] \in Contexts
        /\ contexts'[Depth].pc = p /\ contexts'[Depth].runner = g
    BY <1>1, <1>3 DEF Edited
  <1>7. Touches(f, contexts, contexts')
    <2>1. /\ Edited(contexts, contexts', Depth, p, g, {}, Entries(contexts[Depth]), contexts[Depth].waiting)
          /\ contexts[Depth].pc # "exit" /\ contexts[Depth].runner \in {None, f}
      BY <1>1 DEF Top
    <2> DEFINE S == {}
    <2>2. S \subseteq {f}
      OBVIOUS
    <2> HIDE DEF S
    <2>3. Edited(contexts, contexts', Depth, p, g, S, Entries(contexts[Depth]), contexts[Depth].waiting)
      BY <2>1 DEF S
    <2> QED
      BY <2>1, <2>2, <2>3, <1>3, EditTouches
  <1>8. Control(state', ctx', contexts', Depth)
    <2>1. CASE g = None /\ p \in {"tail", "exit"}
      BY <2>1, <1>3, <1>6 DEF Control
    <2>2. CASE p = "resume" /\ g \in AsyncFunctions /\ state[g] = "blocked" /\ ctx[g] = Depth
      <3>1. state'[g] = "blocked" /\ ctx'[g] = Depth
        BY <2>2, <1>2, <1>3, <1>4
      <3> QED
        BY <2>2, <3>1, <1>3, <1>6 DEF Control
    <2> QED
      BY <2>1, <2>2 DEF EndsAt
  <1>9. Quits(f, state, ctx, contexts, state', ctx', contexts')
    <2>1. \A c \in 1..Depth : f \notin contexts'[c].waiting
      BY <1>4, <1>6 DEF Contexts
    <2> QED
      BY <2>1, <1>3, <1>4, <1>7, <1>8 DEF Quits
  <1>10. Scheduling(state', ctx', contexts')
    BY <1>1, <1>2, <1>3, <1>4, <1>9, FinishContexts
  <1>11. Nest(state', ctx', kids')
    BY <1>1, <1>2, <1>3, <1>4, <1>5, FinishNest
  <1>12. Resumed' = g
    BY <1>3, <1>6 DEF Resumed, Depth, Top, EndsAt
  <1>13. Batched'
    BY <1>1 DEF Batched
  <1> QED
    BY <1>1, <1>4, <1>5, <1>10, <1>11, <1>12, <1>13

\* ret() and fail() through the scheduler, and failCpp().
LEMMA StepReturn ==
  ASSUME NEW age \in [Static -> Nat], Inv(age), retOrFail \/ interruptRunning
  PROVE  IInv'
  <1>1. PICK r \in Ends, p \in {"tail", "exit"} :
          /\ Quiet /\ Depth > 0 /\ Top.pc = "running" /\ Finish(Top.runner, r, <<>>)
          /\ contexts' = [contexts EXCEPT ![Depth].pc = p, ![Depth].runner = None]
          /\ UNCHANGED <<kids, unfinished, batch>>
    <2>1. CASE retOrFail
      <3>1. PICK f \in AsyncFunctions, r \in Ends :
              Runs(f) /\ contexts' = Suspended(contexts) /\ Finish(f, r, <<>>)
        BY <2>1, Zenon DEF retOrFail, Ends
      <3>2. /\ Quiet /\ Depth > 0 /\ Top.pc = "running" /\ Top.runner = f
            /\ contexts' = [contexts EXCEPT ![Depth].pc = "tail", ![Depth].runner = None]
        BY <3>1, Zenon DEF Runs, Suspended
      <3>3. UNCHANGED <<kids, unfinished, batch>>
        BY <2>1 DEF retOrFail
      <3> QED
        BY <3>1, <3>2, <3>3, Zenon
    <2>2. CASE interruptRunning
      BY <2>2, Zenon DEF interruptRunning, MayInterrupt, Ends
    <2> QED
      BY <2>1, <2>2
  <1>2. contexts \in Seq(Contexts) /\ Depth \in 1..Len(contexts) /\ p \in PCs /\ None \in AsyncFunctions \cup {None}
    BY <1>1, Basics DEF PCs
  <1>3. Edited(contexts, [contexts EXCEPT ![Depth].pc = p, ![Depth].runner = None], Depth, p, None, {},
               Entries(contexts[Depth]), contexts[Depth].waiting)
    BY <1>2, ControlEffect, Zenon
  <1>4. Edited(contexts, contexts', Depth, p, None, {}, Entries(Top), Top.waiting)
    BY <1>1, <1>3, Zenon DEF Top
  <1> DEFINE f == Top.runner
  <1>5. state' = [state EXCEPT ![f] = r] /\ ctx' = [ctx EXCEPT ![f] = 0]
    BY <1>1, Zenon DEF Finish
  <1>6. EndsAt(f, r, p, None)
    <2>1. /\ Quiet /\ Depth > 0 /\ Top.pc = "running" /\ UNCHANGED <<kids, unfinished, batch>>
      BY <1>1
    <2> QED
      BY <1>4, <1>5, <2>1 DEF EndsAt
  <1>7. Finish(f, r, <<>>) /\ UNCHANGED <<kids, unfinished>>
    BY <1>1
  <1> HIDE DEF f
  <1>8. /\ f \in AsyncFunctions /\ state[f] = "running" /\ Resumed = None /\ chains = <<>>
        /\ Resumed' = None
        /\ Scheduling(state', ctx', contexts') /\ Nest(state', ctx', kids') /\ Batched'
    BY <1>6, FunctionEnds
  <1>9. f \in Handles /\ f \notin AwaitAlls /\ Live(f)
    BY <1>8, AsioAssumption, Basics DEF Live, Finished
  <1>10. Graph(age)'
    BY <1>7, <1>8, <1>9, FinishQuiet DEF Inv
  <1>11. Counted'
    <2>1. unwinding' \in BOOLEAN
      BY Zenon DEF retOrFail, interruptRunning, Counted, Inv
    <2>2. interrupts' = interrupts \/ (interrupts < MaxInterrupts /\ interrupts' = interrupts + 1)
      BY DEF retOrFail, interruptRunning, MayInterrupt
    <2> QED
      BY <2>1, <2>2, AsioAssumption DEF Counted, Inv
  <1> QED
    BY <1>8, <1>10, <1>11, Conclude

\* Translated code returns to the last one that waits for the function.
LEMMA StepReturnTo ==
  ASSUME NEW age \in [Static -> Nat], Inv(age), retToAsyncFunc
  PROVE  IInv'
  <1>1. PICK f \in AsyncFunctions :
          /\ Runs(f) /\ parents[f] # <<>> /\ CanReturnTo(f, Last(parents[f])[1])
          /\ contexts' = [contexts EXCEPT ![Depth].pc = "resume", ![Depth].runner = Last(parents[f])[1]]
          /\ state' = [state EXCEPT ![f] = "succeeded"] /\ ctx' = [ctx EXCEPT ![f] = 0]
          /\ parents' = [parents EXCEPT ![f] = <<>>]
          /\ chains' = Pending(<<>>, Front(parents[f]))
    BY Zenon DEF retToAsyncFunc
  <1> DEFINE g == Last(parents[f])[1]
  <1>2. /\ UNCHANGED <<kids, unfinished, batch, unwinding, interrupts>> /\ Graph(age) /\ UserCode
    BY DEF retToAsyncFunc, Inv
  <1>3. /\ Quiet /\ Depth > 0 /\ Top.pc = "running" /\ f = Top.runner /\ parents[f] # <<>>
        /\ state' = [state EXCEPT ![f] = "succeeded"] /\ ctx' = [ctx EXCEPT ![f] = 0]
        /\ parents' = [parents EXCEPT ![f] = <<>>]
        /\ chains' = Pending(<<>>, Front(parents[f]))
    BY <1>1, Zenon DEF Runs
  <1>4. g \in Jitted /\ ctx[g] = ctx[f]
    BY <1>1 DEF CanReturnTo
  <1>5. contexts' = [contexts EXCEPT ![Depth].pc = "resume", ![Depth].runner = g]
    BY <1>1, Zenon
  <1>6. g \in AsyncFunctions /\ f \in Handles
    BY <1>4, AsioAssumption DEF Handles
  <1>7. state[g] = "blocked"
    <2>1. parents[f] \in Seq(Nodes)
      BY <1>2, <1>6 DEF Graph, GraphTyped
    <2>2. Last(parents[f]) \in ToSet(parents[f])
      BY <2>1, <1>3, FrontEffect
    <2>3. Awaits(g, Last(parents[f])[2])
      BY <2>2, <1>2, <1>6 DEF Graph, NodesAwait
    <2> QED
      BY <2>3, <1>6, AsioAssumption DEF Awaits
  <1>8. ctx[f] = Depth
    BY <1>2, <1>3, UserFacts
  <1> HIDE DEF g
  <1>9. contexts \in Seq(Contexts) /\ Depth \in 1..Len(contexts) /\ "resume" \in PCs /\ g \in AsyncFunctions \cup {None}
    BY <1>3, <1>6, Basics DEF PCs
  <1>10. Edited(contexts, [contexts EXCEPT ![Depth].pc = "resume", ![Depth].runner = g], Depth, "resume", g, {},
                Entries(contexts[Depth]), contexts[Depth].waiting)
    BY <1>9, ControlEffect, Zenon
  <1>11. Edited(contexts, contexts', Depth, "resume", g, {}, Entries(Top), Top.waiting)
    BY <1>5, <1>10, Zenon DEF Top
  <1>12. EndsAt(f, "succeeded", "resume", g)
    BY <1>2, <1>3, <1>4, <1>6, <1>7, <1>8, <1>11 DEF EndsAt, Ends
  <1>13. /\ state[f] = "running" /\ Resumed = None /\ chains = <<>> /\ Resumed' = g
         /\ Scheduling(state', ctx', contexts') /\ Nest(state', ctx', kids') /\ Batched'
    BY <1>12, FunctionEnds
  <1>14. Graph(age)'
    <2>1. Last(parents[f])[1] = g
      BY DEF g
    <2> QED
      BY <2>1, <1>2, <1>3, <1>6, <1>13, FinishReturn
  <1>15. Counted'
    BY <1>2 DEF Counted, Inv
  <1> QED
    BY <1>13, <1>14, <1>15, Conclude

-----------------------------------------------------------------------------
\* The loop of a context ends, or goes on.

TurnsTo(p) ==
  /\ Quiet /\ Depth > 0 /\ Top.pc \in {"loop", "tail"} /\ p \in {"loop", "exit"}
  /\ contexts' = [contexts EXCEPT ![Depth].pc = p]
  /\ UNCHANGED <<state, ctx, kids, unfinished, parents, chains, batch>>

\* A step that only turns the innermost context to another place in runUntil.
LEMMA TurnStep ==
  ASSUME NEW age \in [Static -> Nat], Inv(age), NEW p, TurnsTo(p), Counted'
  PROVE  IInv'
  <1>1. /\ contexts \in Seq(Contexts) /\ Depth = Len(contexts) /\ Depth \in 1..Depth /\ Depth \in 1..Len(contexts)
        /\ Joins(state, ctx, contexts) /\ Queued(state, ctx, contexts)
        /\ Aimed(state, ctx, contexts) /\ ContextsTyped(ctx, contexts)
        /\ Quiet /\ Depth > 0 /\ Top.pc \in {"loop", "tail"} /\ p \in {"loop", "exit"} /\ p \in PCs
        /\ UNCHANGED <<state, ctx, kids, unfinished, parents, chains, batch>>
        /\ Graph(age)
    BY Basics DEF Inv, Scheduling, TurnsTo, Depth, PCs
  <1>2. Edited(contexts, contexts', Depth, p, contexts[Depth].runner, {}, Entries(contexts[Depth]),
               contexts[Depth].waiting)
    <2>1. contexts' = [contexts EXCEPT ![Depth].pc = p]
      BY DEF TurnsTo
    <2>2. Edited(contexts, [contexts EXCEPT ![Depth].pc = p], Depth, p, contexts[Depth].runner, {},
                 Entries(contexts[Depth]), contexts[Depth].waiting)
      BY <1>1, PcEffect, Zenon
    <2> QED
      BY <2>1, <2>2, Zenon
  <1>3. chains = <<>> /\ batch = {} /\ Resumed = None /\ Nest(state, ctx, kids) /\ Top.runner = None
    BY <1>1, LoopFacts
  <1> DEFINE cs == contexts'
  <1>4. /\ cs \in Seq(Contexts) /\ Len(cs) = Depth
        /\ \A c \in 1..Depth :
             /\ cs[c].runner = contexts[c].runner /\ Entries(cs[c]) = Entries(contexts[c])
             /\ cs[c].target = contexts[c].target /\ cs[c].waiting = contexts[c].waiting
             /\ c # Depth => cs[c] = contexts[c]
             /\ c = Depth => contexts[c].pc # "exit" /\ cs[c].pc = p
    BY <1>1, <1>2 DEF Edited, Top
  <1>5. Joins(state, ctx, cs)
    BY <1>1, <1>3, <1>4 DEF Joins, Control, Top
  <1>6. Aimed(state, ctx, cs)
    BY <1>1, <1>4 DEF Aimed
  <1>7. Queued(state, ctx, cs)
    <2> SUFFICES ASSUME NEW x \in Handles
                 PROVE  Placed(state, ctx, cs, x)
      BY DEF Queued
    <2>1. Placed(state, ctx, contexts, x)
      BY <1>1 DEF Queued
    <2> QED
      BY <2>1, <1>1, <1>4 DEF Placed
  <1>8. Scheduling(state', ctx', contexts')
    BY <1>1, <1>4, <1>5, <1>6, <1>7 DEF Scheduling, ContextsTyped
  <1>9. Resumed' = None
    BY <1>1, <1>4 DEF Resumed, Depth, Top
  <1>10. Graph(age)'
    BY <1>1, <1>3, <1>9, GraphSame
  <1>11. Nest(state', ctx', kids') /\ Batched'
    BY <1>1, <1>3 DEF Batched
  <1> QED
    BY <1>8, <1>10, <1>11, Conclude

\* The turns of the loop of runUntil that run no handle.
LEMMA StepLoop ==
  ASSUME NEW age \in [Static -> Nat], Inv(age),
         backToScheduler \/ targetFinished \/ interruptWait \/ processLeaves
  PROVE  IInv'
  <1>1. CASE backToScheduler
    <2>1. TurnsTo("loop") /\ UNCHANGED <<unwinding, interrupts>>
      BY <1>1, Zenon DEF backToScheduler, TurnsTo
    <2> QED
      BY <2>1, TurnStep DEF Inv, Counted
  <1>2. CASE targetFinished
    <2>1. TurnsTo("exit") /\ UNCHANGED <<unwinding, interrupts>>
      BY <1>2, Zenon DEF targetFinished, TurnsTo, Loop
    <2> QED
      BY <2>1, TurnStep DEF Inv, Counted
  <1>3. CASE interruptWait
    <2>1. TurnsTo("exit")
      BY <1>3, Zenon DEF interruptWait, TurnsTo, MayInterrupt, NothingReady, Unsettled, Loop
    <2>2. unwinding' = TRUE /\ interrupts < MaxInterrupts /\ interrupts' = interrupts + 1
      BY <1>3 DEF interruptWait, MayInterrupt
    <2>3. Counted'
      BY <2>2, AsioAssumption DEF Counted, Inv
    <2> QED
      BY <2>1, <2>3, TurnStep
  <1>4. CASE processLeaves
    <2>1. /\ Quiet /\ Depth > 0 /\ Top.pc = "loop"
          /\ UNCHANGED <<state, ctx, kids, unfinished, parents, contexts, chains, unwinding, interrupts>>
          /\ \A h \in batch' : h \in Leaves /\ state[h] = "waiting"
      BY <1>4 DEF processLeaves, NothingReady, Unsettled, Loop, Leaves
    <2>2. Resumed' = Resumed
      BY <2>1 DEF Resumed, Depth, Top
    <2>3. Graph(age)'
      BY <2>1, <2>2, GraphSame DEF Inv
    <2>4. Nest(state', ctx', kids')
      BY <2>1, LoopFacts
    <2>5. Batched' /\ Counted' /\ Scheduling(state', ctx', contexts')
      BY <2>1 DEF Batched, Counted, Inv, Depth, Top
    <2> QED
      BY <2>3, <2>4, <2>5, Conclude
  <1> QED
    BY <1>1, <1>2, <1>3, <1>4

-----------------------------------------------------------------------------
\* A handle is created.

\* Handle h is created in context c.
Creates(h, s, c, ks) ==
  /\ UserCode /\ h \in Handles /\ state[h] = "none"
  /\ s \notin {"none", "running"} \cup Ends /\ c \in 0..Depth
  /\ state' = [state EXCEPT ![h] = s]
  /\ ctx' = [ctx EXCEPT ![h] = c]
  /\ kids' = [kids EXCEPT ![h] = ks]
  /\ s = "blocked" => \A i \in DOMAIN ks : ks[i] \in Handles /\ (LiveIn(state, ks[i]) => c <= ctx[ks[i]])
  /\ UNCHANGED <<batch, unwinding, interrupts>>

\* The contexts, but for what lists h, stay as they are.
ListsOnly(h) ==
  /\ Touches(h, contexts, contexts')
  /\ \A d \in 1..Depth : contexts'[d].pc = contexts[d].pc /\ contexts'[d].runner = contexts[d].runner

\* A new handle, listed in at most the queue of its own context, leaves queues,
\* contexts and nesting in order.
LEMMA CreateStep ==
  ASSUME NEW age \in [Static -> Nat], Inv(age), NEW h, NEW s, NEW c, NEW ks, Creates(h, s, c, ks),
         ListsOnly(h), Placed(state', ctx', contexts', h)
  PROVE  /\ Scheduling(state', ctx', contexts') /\ Nest(state', ctx', kids') /\ Batched' /\ Counted'
         /\ Resumed = None /\ Resumed' = None
  <1>1. /\ UserCode /\ h \in Handles /\ state[h] = "none"
        /\ s \notin {"none", "running"} \cup Ends /\ c \in 0..Depth
        /\ state' = [state EXCEPT ![h] = s] /\ ctx' = [ctx EXCEPT ![h] = c]
        /\ kids' = [kids EXCEPT ![h] = ks]
        /\ UNCHANGED <<batch, unwinding, interrupts>>
    BY DEF Creates
  <1>2. /\ state \in [Handles -> States] /\ contexts \in Seq(Contexts)
        /\ ctx \in [Handles -> Nat] /\ ctx \in [Handles -> 0..MaxContextDepth]
        /\ kids \in [Handles -> Seq(Handles)]
        /\ Depth = Len(contexts) /\ Depth \in Nat /\ Depth <= MaxContextDepth /\ MaxContextDepth \in Nat
        /\ Scheduling(state, ctx, contexts) /\ None \notin Handles
        /\ \A d \in 1..Depth : d = Depth => Control(state, ctx, contexts, d)
    BY Basics DEF Inv, Depth
  <1>3. /\ chains = <<>> /\ batch = {} /\ Resumed = None /\ Nest(state, ctx, kids)
    BY <1>1, UserFacts
  <1>4. /\ state'[h] = s /\ ctx'[h] = c /\ kids'[h] = ks
        /\ ctx' \in [Handles -> 0..MaxContextDepth] /\ ctx' \in [Handles -> Nat]
        /\ \A x \in Handles : x # h => state'[x] = state[x] /\ ctx'[x] = ctx[x] /\ kids'[x] = kids[x]
    BY <1>1, <1>2
  <1>5. ASSUME NEW d \in 1..Depth, d = Depth
        PROVE  contexts[d].runner # h
    <2>1. Control(state, ctx, contexts, d) /\ h # None /\ state[h] = "none"
      BY <1>1, <1>2, <1>5
    <2> QED
      BY <2>1 DEF Control
  <1>6. Moves(h, state, ctx, contexts, state', ctx')
    BY <1>1, <1>4 DEF Moves
  <1>7. Fits(h, contexts, state', ctx', contexts')
    BY <1>1, <1>2, <1>4, <1>5 DEF Fits, ListsOnly
  <1>8. Scheduling(state', ctx', contexts')
    BY <1>1, <1>2, <1>6, <1>7, TouchStep DEF ListsOnly
  <1>9. \A p \in Handles : \A i \in DOMAIN kids[p] : kids[p][i] # h
    BY <1>1 DEF Inv, Graph, Created
  <1>10. Nears(h, state, ctx, kids, state', ctx', kids')
    <2>1. ASSUME s = "blocked", NEW i \in DOMAIN ks, LiveIn(state', ks[i])
          PROVE  ctx'[h] <= ctx'[ks[i]]
      <3>1. ks[i] \in Handles /\ (LiveIn(state, ks[i]) => c <= ctx[ks[i]])
        BY <2>1 DEF Creates
      <3>2. CASE ks[i] = h
        BY <3>2, <1>4, <1>1, <1>2
      <3>3. CASE ks[i] # h
        BY <3>1, <3>3, <2>1, <1>4 DEF LiveIn
      <3> QED
        BY <3>2, <3>3
    <2> QED
      BY <2>1, <1>2, <1>4, <1>9 DEF Nears
  <1>11. Nest(state', ctx', kids')
    BY <1>1, <1>3, <1>10, NestStep
  <1>12. Batched' /\ Counted'
    BY <1>1, <1>3 DEF Batched, Counted, Inv
  <1>13. Resumed' = None
    <2>1. Len(contexts') = Depth
      BY <1>2 DEF ListsOnly, Touches
    <2> QED
      BY <2>1, <1>2, <1>3 DEF ListsOnly, Resumed, Depth, Top
  <1> QED
    BY <1>3, <1>8, <1>11, <1>12, <1>13

\* A handle that has not been created is in no context.
LEMMA Unlisted ==
  ASSUME NEW age \in [Static -> Nat], Inv(age), NEW h \in Handles, state[h] = "none"
  PROVE  \A c \in 1..Depth : h \notin Entries(contexts[c]) /\ h \notin contexts[c].waiting
  BY DEF Inv, Scheduling, Queued, Placed, Depth

\* A live handle is in a context of the stack, or in none.
LEMMA LiveInside ==
  ASSUME NEW age \in [Static -> Nat], Inv(age), NEW h \in Handles, Live(h)
  PROVE  ctx[h] \in 0..Depth
  <1>1. Placed(state, ctx, contexts, h) /\ LiveIn(state, h) /\ ctx[h] \in Nat /\ Depth \in Nat
    BY Basics DEF Inv, Scheduling, Queued, Live, Finished, LiveIn, Ends
  <1> QED
    BY <1>1 DEF Placed, Depth

\* A sleep or external-event handle is created, in the current context.
LEMMA StepCreateLeaf ==
  ASSUME NEW age \in [Static -> Nat], Inv(age), createLeaf
  PROVE  IInv'
  <1>1. PICK h \in Leaves :
          /\ New(h, "waiting", Depth, <<>>)
          /\ contexts' = IF Depth = 0 THEN contexts ELSE registerTo(contexts, Depth, h)
    BY Zenon DEF createLeaf
  <1>2. UserCode /\ UNCHANGED <<unfinished, parents, chains, batch, unwinding, interrupts>>
    BY DEF createLeaf
  <1>3. /\ h \in Handles /\ contexts \in Seq(Contexts) /\ Depth \in Nat /\ Depth = Len(contexts)
        /\ Depth > 0 => Depth \in 1..Len(contexts)
        /\ state \in [Handles -> States] /\ ctx \in [Handles -> Nat]
    BY Basics DEF Depth
  <1>4. /\ state[h] = "none" /\ state' = [state EXCEPT ![h] = "waiting"]
        /\ ctx' = [ctx EXCEPT ![h] = Depth] /\ kids' = [kids EXCEPT ![h] = <<>>]
    BY <1>1 DEF New
  <1>5. Creates(h, "waiting", Depth, <<>>)
    BY <1>2, <1>3, <1>4 DEF Creates, Ends
  <1>6. \A c \in 1..Depth : h \notin Entries(contexts[c]) /\ h \notin contexts[c].waiting
    BY <1>3, <1>4, Unlisted
  <1>7. state'[h] = "waiting" /\ ctx'[h] = Depth
    BY <1>3, <1>4
  <1>8. ListsOnly(h) /\ Placed(state', ctx', contexts', h)
    <2>1. CASE Depth = 0
      <3>1. contexts' = contexts
        BY <2>1, <1>1, Zenon
      <3>2. Touches(h, contexts, contexts)
        BY <1>3, NoTouch
      <3> QED
        BY <3>1, <3>2, <2>1, <1>3, <1>7 DEF ListsOnly, Placed
    <2>2. CASE Depth > 0
      <3>1. contexts' = registerTo(contexts, Depth, h)
        BY <2>2, <1>1, <1>3
      <3>2. Edited(contexts, contexts', Depth, contexts[Depth].pc, contexts[Depth].runner, {},
                   Entries(contexts[Depth]), contexts[Depth].waiting \cup {h})
        BY <3>1, <2>2, <1>3, RegisterEffect, Zenon
      <3> DEFINE S == {}
                 T == Entries(contexts[Depth])
                 W == contexts[Depth].waiting \cup {h}
      <3>3. /\ S \subseteq {h} /\ T \ {h} = Entries(contexts[Depth]) \ {h}
            /\ W \ {h} = contexts[Depth].waiting \ {h}
        OBVIOUS
      <3>4. Edited(contexts, contexts', Depth, contexts[Depth].pc, contexts[Depth].runner, S, T, W)
        BY <3>2
      <3>5. Touches(h, contexts, contexts')
        <4> HIDE DEF S, T, W
        <4> QED
          BY <3>3, <3>4, <2>2, <1>3, EditTouches
      <3>6. /\ Len(contexts') = Depth
            /\ \A c \in 1..Depth :
                 /\ contexts'[c].pc = contexts[c].pc /\ contexts'[c].runner = contexts[c].runner
                 /\ Entries(contexts'[c]) = Entries(contexts[c])
                 /\ h \in contexts'[c].waiting <=> c = Depth
        BY <3>2, <2>2, <1>3, <1>6 DEF Edited
      <3> QED
        BY <3>5, <3>6, <1>6, <1>7, <1>3 DEF ListsOnly, Placed, Queues
    <2> QED
      BY <2>1, <2>2, <1>3
  <1>9. /\ Scheduling(state', ctx', contexts') /\ Nest(state', ctx', kids') /\ Batched' /\ Counted'
        /\ Resumed = None /\ Resumed' = None
    BY <1>5, <1>8, CreateStep
  <1>10. Graph(age)'
    <2>1. h \notin Reschedules
      BY AsioAssumption
    <2> QED
      BY <2>1, <1>2, <1>4, <1>9, NewStep DEF Inv
  <1> QED
    BY <1>9, <1>10, Conclude

\* A reschedule handle is created, and put on a queue of the current context.
LEMMA StepCreateReschedule ==
  ASSUME NEW age \in [Static -> Nat], Inv(age), createReschedule
  PROVE  IInv'
  <1>1. PICK h \in Reschedules, queue \in Queues :
          /\ New(h, queue, Depth, <<>>)
          /\ contexts' = IF Depth = 0 THEN contexts ELSE ScheduleRescheduleIn(contexts, Depth, h, queue)
    BY Zenon DEF createReschedule
  <1>2. UserCode /\ UNCHANGED <<unfinished, parents, chains, batch, unwinding, interrupts>>
    BY DEF createReschedule
  <1>3. /\ h \in Handles /\ contexts \in Seq(Contexts) /\ Depth \in Nat /\ Depth = Len(contexts)
        /\ Depth > 0 => Depth \in 1..Len(contexts)
        /\ state \in [Handles -> States] /\ ctx \in [Handles -> Nat]
    BY Basics DEF Depth
  <1>4. /\ state[h] = "none" /\ state' = [state EXCEPT ![h] = queue]
        /\ ctx' = [ctx EXCEPT ![h] = Depth] /\ kids' = [kids EXCEPT ![h] = <<>>]
    BY <1>1 DEF New
  <1>5. Creates(h, queue, Depth, <<>>)
    BY <1>2, <1>3, <1>4 DEF Creates, Ends, Queues
  <1>6. \A c \in 1..Depth : h \notin Entries(contexts[c]) /\ h \notin contexts[c].waiting
    BY <1>3, <1>4, Unlisted
  <1>7. state'[h] = queue /\ ctx'[h] = Depth /\ queue \notin {"none", "waiting"}
    BY <1>3, <1>4 DEF Queues
  <1>8. ListsOnly(h) /\ Placed(state', ctx', contexts', h)
    <2>1. CASE Depth = 0
      <3>1. contexts' = contexts
        BY <2>1, <1>1, Zenon
      <3>2. Touches(h, contexts, contexts)
        BY <1>3, NoTouch
      <3> QED
        BY <3>1, <3>2, <2>1, <1>3, <1>7 DEF ListsOnly, Placed
    <2>2. CASE Depth > 0
      <3>1. contexts' = ScheduleRescheduleIn(contexts, Depth, h, queue)
        BY <2>2, <1>1, <1>3
      <3>2. Edited(contexts, contexts', Depth, contexts[Depth].pc, contexts[Depth].runner, {},
                   Entries(contexts[Depth]) \cup {h}, contexts[Depth].waiting)
        BY <3>1, <2>2, <1>3, RescheduleEffect, Zenon
      <3> DEFINE S == {}
                 T == Entries(contexts[Depth]) \cup {h}
                 W == contexts[Depth].waiting
      <3>3. /\ S \subseteq {h} /\ T \ {h} = Entries(contexts[Depth]) \ {h}
            /\ W \ {h} = contexts[Depth].waiting \ {h}
        OBVIOUS
      <3>4. Edited(contexts, contexts', Depth, contexts[Depth].pc, contexts[Depth].runner, S, T, W)
        BY <3>2
      <3>5. Touches(h, contexts, contexts')
        <4> HIDE DEF S, T, W
        <4> QED
          BY <3>3, <3>4, <2>2, <1>3, EditTouches
      <3>6. /\ Len(contexts') = Depth
            /\ \A c \in 1..Depth :
                 /\ contexts'[c].pc = contexts[c].pc /\ contexts'[c].runner = contexts[c].runner
                 /\ h \in Entries(contexts'[c]) <=> c = Depth
                 /\ h \notin contexts'[c].waiting
        BY <3>2, <2>2, <1>3, <1>6 DEF Edited
      <3> QED
        BY <3>5, <3>6, <1>7, <1>3 DEF ListsOnly, Placed
    <2> QED
      BY <2>1, <2>2, <1>3
  <1>9. /\ Scheduling(state', ctx', contexts') /\ Nest(state', ctx', kids') /\ Batched' /\ Counted'
        /\ Resumed = None /\ Resumed' = None
    BY <1>5, <1>8, CreateStep
  <1>10. Graph(age)'
    <2>1. h \notin Leaves
      BY AsioAssumption
    <2> QED
      BY <2>1, <1>2, <1>4, <1>9, NewStep DEF Inv
  <1> QED
    BY <1>9, <1>10, Conclude

\* A handle that is created blocked is in no queue.
LEMMA CreateBlocks ==
  ASSUME NEW age \in [Static -> Nat], Inv(age), NEW h, NEW c, NEW ks, Creates(h, "blocked", c, ks),
         contexts' = contexts
  PROVE  /\ Scheduling(state', ctx', contexts') /\ Nest(state', ctx', kids') /\ Batched' /\ Counted'
         /\ Resumed = None /\ Resumed' = None
  <1>1. /\ h \in Handles /\ state[h] = "none" /\ c \in 0..Depth
        /\ state' = [state EXCEPT ![h] = "blocked"] /\ ctx' = [ctx EXCEPT ![h] = c]
        /\ contexts \in Seq(Contexts) /\ Depth \in Nat /\ Depth = Len(contexts)
        /\ state \in [Handles -> States] /\ ctx \in [Handles -> Nat]
    BY Basics DEF Creates, Depth
  <1>2. state'[h] = "blocked" /\ ctx'[h] = c
    BY <1>1
  <1>3. \A d \in 1..Depth : h \notin Entries(contexts[d]) /\ h \notin contexts[d].waiting
    BY <1>1, Unlisted
  <1>4. ListsOnly(h)
    BY <1>1, NoTouch DEF ListsOnly
  <1>5. Placed(state', ctx', contexts', h)
    BY <1>1, <1>2, <1>3 DEF Placed, Queues
  <1> QED
    BY <1>4, <1>5, CreateStep

\* An async function suspends for the first time, or a condition is created.
LEMMA StepCreateBlocked ==
  ASSUME NEW age \in [Static -> Nat], Inv(age), createBlocked
  PROVE  IInv'
  <1>1. PICK h \in AsyncFunctions \cup Conditions, child \in Handles :
          /\ Live(child)
          /\ New(h, "blocked", ctx[child], <<child>>)
          /\ parents' = [parents EXCEPT ![child] = Append(@, <<h, 1>>)]
    BY Zenon DEF createBlocked
  <1>2. UserCode /\ UNCHANGED <<unfinished, contexts, chains, batch, unwinding, interrupts>>
    BY DEF createBlocked
  <1>3. /\ state[h] = "none" /\ state' = [state EXCEPT ![h] = "blocked"]
        /\ ctx' = [ctx EXCEPT ![h] = ctx[child]] /\ kids' = [kids EXCEPT ![h] = <<child>>]
    BY <1>1 DEF New
  <1>4. h \in Handles /\ ctx[child] \in 0..Depth /\ ctx[child] \in Nat /\ chains = <<>>
    BY <1>1, <1>2, LiveInside, UserFacts, Basics DEF Handles
  <1>5. Creates(h, "blocked", ctx[child], <<child>>)
    BY <1>2, <1>3, <1>4 DEF Creates, Ends
  <1>6. /\ Scheduling(state', ctx', contexts') /\ Nest(state', ctx', kids') /\ Batched' /\ Counted'
        /\ Resumed = None /\ Resumed' = None
    BY <1>2, <1>5, CreateBlocks
  <1>7. PICK new \in [Static -> Nat] : Graph(new)'
    <2>1. Graph(age) /\ parents' = [parents EXCEPT ![child] = Append(@, <<h, 1>>)] /\ Live(child)
          /\ UNCHANGED <<unfinished, chains>>
      BY <1>1, <1>2 DEF Inv
    <2> QED
      BY <2>1, <1>3, <1>4, <1>6, BlockOne
  <1> QED
    BY <1>6, <1>7, Conclude

\* An AwaitAll is created.
LEMMA StepCreateAwaitAll ==
  ASSUME NEW age \in [Static -> Nat], Inv(age), createAwaitAll
  PROVE  IInv'
  <1> DEFINE Live0 == {h \in Handles : Live(h)}
             NodesOf(a, children) == [i \in DOMAIN children |-> <<a, Len(children) + 1 - i>>]
  <1>1. PICK a \in AwaitAlls, children \in BoundedSeq(Live0, MaxChildren) :
          /\ children # <<>>
          /\ New(a, "blocked", Min({ctx[children[i]] : i \in DOMAIN children}), Reverse(children))
          /\ unfinished' = [unfinished EXCEPT ![a] = Len(children)]
          /\ parents' = [h \in Handles |-> parents[h] \o
               Only(NodesOf(a, children),
                    {NodesOf(a, children)[i] : i \in {j \in DOMAIN children : children[j] = h}})]
    BY Zenon DEF createAwaitAll
  <1>2. UserCode /\ UNCHANGED <<contexts, chains, batch, unwinding, interrupts>>
    BY DEF createAwaitAll
  <1> DEFINE C == {ctx[children[i]] : i \in DOMAIN children}
             n == Len(children)
             ks == Reverse(children)
  <1>3. /\ state[a] = "none" /\ state' = [state EXCEPT ![a] = "blocked"]
        /\ ctx' = [ctx EXCEPT ![a] = Min(C)] /\ kids' = [kids EXCEPT ![a] = ks]
    BY <1>1 DEF New
  <1>4. /\ n \in Nat \ {0} /\ DOMAIN children = 1..n
        /\ \A i \in 1..n : children[i] \in Handles /\ Live(children[i])
    <2>1. PICK m \in 0..MaxChildren : children \in [1..m -> Live0]
      BY DEF BoundedSeq, SeqOf
    <2>2. children \in Seq(Live0) /\ Len(children) = m /\ m # 0 /\ DOMAIN children = 1..m
      BY <1>1, <2>1, AsioAssumption
    <2>3. \A i \in 1..m : children[i] \in Live0
      BY <2>1
    <2> QED
      BY <2>2, <2>3, AsioAssumption
  <1>5. \A i \in 1..n : ctx[children[i]] \in 0..Depth
    BY <1>4, LiveInside
  <1>6. a \in Handles /\ chains = <<>> /\ Depth \in Nat
    BY <1>2, UserFacts, Basics DEF Handles
  <1>7. C \in SUBSET Nat /\ C # {} /\ \A x \in C : x \in 0..Depth
    BY <1>4, <1>5, <1>6
  <1>8. Min(C) \in C /\ \A x \in C : Min(C) <= x
    <2> HIDE DEF C
    <2> QED
      BY <1>7, MinEffect
  <1>9. \A i \in 1..n : Min(C) <= ctx[children[i]]
    BY <1>4, <1>8
  <1>10. DOMAIN ks = 1..n /\ \A i \in 1..n : ks[i] \in Handles /\ Min(C) <= ctx[ks[i]]
    <2>1. ks = [i \in 1..n |-> children[(n - i) + 1]]
      BY DEF Reverse
    <2>2. ASSUME NEW i \in 1..n PROVE (n - i) + 1 \in 1..n /\ ks[i] = children[(n - i) + 1]
      BY <1>4, <2>1
    <2> HIDE DEF ks
    <2> QED
      BY <1>4, <1>9, <2>1, <2>2
  <1> HIDE DEF ks, C, n
  <1>11. Creates(a, "blocked", Min(C), ks)
    BY <1>2, <1>3, <1>6, <1>7, <1>8, <1>10 DEF Creates, Ends
  <1>12. /\ Scheduling(state', ctx', contexts') /\ Nest(state', ctx', kids') /\ Batched' /\ Counted'
         /\ Resumed = None /\ Resumed' = None
    BY <1>2, <1>11, CreateBlocks
  <1>13. PICK new \in [Static -> Nat] : Graph(new)'
    <2> DEFINE nodes == NodesOf(a, children)
    <2>1. nodes = [i \in DOMAIN children |-> <<a, Len(children) + 1 - i>>]
      BY Zenon
    <2>2. /\ children \in BoundedSeq({h \in Handles : Live(h)}, MaxChildren) /\ children # <<>>
          /\ kids' = [kids EXCEPT ![a] = Reverse(children)]
          /\ unfinished' = [unfinished EXCEPT ![a] = Len(children)]
          /\ Graph(age) /\ chains' = chains
      BY <1>1, <1>2, <1>3 DEF Inv, ks
    <2>3. parents' = [h \in Handles |-> parents[h] \o
            Only(nodes, {nodes[i] : i \in {j \in DOMAIN children : children[j] = h}})]
      BY <1>1, Zenon
    <2>4. /\ state[a] = "none" /\ state' = [state EXCEPT ![a] = "blocked"] /\ chains = <<>>
          /\ Resumed = None /\ Resumed' = None
      BY <1>3, <1>6, <1>12
    <2>5. Gathers(a, children, nodes)
      BY <2>1, <2>2, <2>3, <2>4, Zenon DEF Gathers
    <2> HIDE DEF nodes, Live0, NodesOf
    <2> QED
      BY <2>2, <2>4, <2>5, BlockAll
  <1> QED
    BY <1>12, <1>13, Conclude

-----------------------------------------------------------------------------
\* Handles enter a context.

\* A set is walked in some order.
LEMMA WalkEffect ==
  ASSUME NEW T, NEW S \in SUBSET T, IsFiniteSet(S), NEW s \in SetToSeqs(S)
  PROVE  s \in Seq(T) /\ ToSet(s) = S
  <1> DEFINE n == Cardinality(S)
  <1>1. n \in Nat /\ s \in [1..n -> S] /\ \A i, j \in 1..n : i # j => s[i] # s[j]
    BY FS_CardinalityType DEF SetToSeqs
  <1>2. IsFiniteSet(1..n) /\ Cardinality(1..n) = n
    <2>1. 1 \in Int /\ n \in Int
      BY <1>1
    <2>2. Cardinality(1..n) = IF 1 > n THEN 0 ELSE n - 1 + 1
      BY <2>1, FS_Interval
    <2> QED
      BY <2>1, <2>2, <1>1, FS_Interval
  <1>3. s \in Injection(1..n, S)
    BY <1>1 DEF Injection, IsInjective
  <1> HIDE DEF n
  <1>4. n = Cardinality(S)
    BY DEF n
  <1>5. s \in Surjection(1..n, S)
    BY <1>2, <1>3, <1>4, FS_Injection
  <1>6. \A x \in S : \E i \in 1..n : s[i] = x
    BY <1>5 DEF Surjection
  <1>7. s \in Seq(T) /\ DOMAIN s = 1..n
    <2>1. s \in [1..n -> T]
      BY <1>1
    <2> QED
      BY <1>1, <2>1, FunctionIsList
  <1> QED
    BY <1>1, <1>6, <1>7 DEF ToSet

\* How the contexts cs stand after the handles of I, which are in states st, have
\* entered context c.
Imported(st, cs, cs2, c, I) ==
  /\ cs2 \in Seq(Contexts) /\ Len(cs2) = Len(cs)
  /\ \A d \in 1..Len(cs) :
       /\ cs2[d].target = cs[d].target /\ cs2[d].pc = cs[d].pc /\ cs2[d].runner = cs[d].runner
       /\ Entries(cs2[d]) = Entries(cs[d]) \cup
            {h \in I : d = c /\ st[h] \in {"ready"} \cup Queues}
       /\ cs2[d].waiting = (cs[d].waiting \ I) \cup {h \in I : d = c /\ h \in Leaves}

\* EnterContext::enter does that.
LEMMA EnterEffect ==
  ASSUME NEW age \in [Static -> Nat], Graph(age), NEW cs \in Seq(Contexts), NEW c \in 1..Len(cs),
         NEW I \in SUBSET Handles, Enter(cs, I, c)
  PROVE  /\ ctx' = [h \in Handles |-> IF h \in I THEN c ELSE ctx[h]]
         /\ Imported(state, cs, contexts', c, I)
  <1> DEFINE InState(s) == {h \in I : state[h] = s}
             leaves == I \cap Leaves
             w == Without(cs, leaves)
  <1>1. PICK ready \in SetToSeqs(InState("ready")),
             default \in SetToSeqs(InState("default")),
             noPendingIO \in SetToSeqs(InState("noPendingIO")) :
          contexts' = [w EXCEPT ![c].runnable = @ \o ready, ![c].default = @ \o default,
                                ![c].noPendingIO = @ \o noPendingIO, ![c].waiting = @ \cup leaves]
    BY Zenon DEF Enter
  <1>2. /\ InState("ready") \in SUBSET AsyncFunctions
        /\ InState("default") \in SUBSET Reschedules /\ InState("noPendingIO") \in SUBSET Reschedules
    BY DEF Graph, Kinds, Handles, Leaves, Queues, Ends
  <1>3. \A s : IsFiniteSet(InState(s))
    <2>1. IsFiniteSet(Handles)
      BY AsioAssumption
    <2>2. ASSUME NEW s PROVE InState(s) \in SUBSET Handles
      OBVIOUS
    <2> HIDE DEF InState
    <2> QED
      BY <2>1, <2>2, FS_Subset
  <1>4. /\ ready \in Seq(AsyncFunctions) /\ ToSet(ready) = InState("ready")
        /\ default \in Seq(Reschedules) /\ ToSet(default) = InState("default")
        /\ noPendingIO \in Seq(Reschedules) /\ ToSet(noPendingIO) = InState("noPendingIO")
    <2> HIDE DEF InState
    <2> QED
      BY <1>1, <1>2, <1>3, WalkEffect
  <1> DEFINE v == [q \in Contexts |-> [q EXCEPT !.waiting = q.waiting \ leaves]]
  <1>5. ASSUME NEW q \in Contexts
        PROVE  /\ v[q] \in Contexts
               /\ v[q].target = q.target /\ v[q].pc = q.pc /\ v[q].runner = q.runner
               /\ v[q].runnable = q.runnable /\ v[q].fast = q.fast
               /\ v[q].default = q.default /\ v[q].noPendingIO = q.noPendingIO
               /\ v[q].waiting = q.waiting \ leaves
    <2>1. q.waiting \ leaves \in SUBSET Leaves
      BY DEF Contexts
    <2> QED
      BY <2>1, Zenon DEF Contexts
  <1>6. w = [d \in 1..Len(cs) |-> v[cs[d]]]
    <2>1. \A d \in 1..Len(cs) : cs[d] \in Contexts
      OBVIOUS
    <2>2. \A d \in 1..Len(cs) : v[cs[d]] = [cs[d] EXCEPT !.waiting = cs[d].waiting \ leaves]
      BY <2>1, Zenon
    <2> QED
      BY <2>2, Zenon DEF Without
  <1> HIDE DEF v
  <1>7. w \in Seq(Contexts) /\ Len(w) = Len(cs) /\ \A d \in 1..Len(cs) : w[d] = v[cs[d]]
    <2>1. \A d \in 1..Len(cs) : cs[d] \in Contexts
      OBVIOUS
    <2> HIDE DEF w
    <2>2. w \in [1..Len(cs) -> Contexts] /\ Len(cs) \in Nat
      BY <1>5, <1>6, <2>1
    <2> QED
      BY <1>6, <2>2, FunctionIsList
  <1> DEFINE q == w[c]
             r == [q EXCEPT !.runnable = q.runnable \o ready, !.default = q.default \o default,
                            !.noPendingIO = q.noPendingIO \o noPendingIO, !.waiting = q.waiting \cup leaves]
  <1>8. contexts' = [w EXCEPT ![c] = r]
    <2> HIDE DEF w
    <2>1. w \in Seq(Contexts) /\ c \in DOMAIN w /\ w[c] \in Contexts
      BY <1>7
    <2> QED
      BY <1>1, <2>1, Zenon DEF Contexts
  <1> HIDE DEF w
  <1>9. /\ q \in Contexts /\ q.runnable \in Seq(AsyncFunctions) /\ q.default \in Seq(Reschedules)
        /\ q.noPendingIO \in Seq(Reschedules) /\ q.waiting \in SUBSET Leaves
    <2>1. q \in Contexts
      BY <1>7
    <2> QED
      BY <2>1 DEF Contexts
  <1>10. /\ q.runnable \o ready \in Seq(AsyncFunctions)
         /\ ToSet(q.runnable \o ready) = ToSet(q.runnable) \cup InState("ready")
         /\ q.default \o default \in Seq(Reschedules)
         /\ ToSet(q.default \o default) = ToSet(q.default) \cup InState("default")
         /\ q.noPendingIO \o noPendingIO \in Seq(Reschedules)
         /\ ToSet(q.noPendingIO \o noPendingIO) = ToSet(q.noPendingIO) \cup InState("noPendingIO")
         /\ q.waiting \cup leaves \in SUBSET Leaves
    <2> HIDE DEF InState, q
    <2> QED
      BY <1>4, <1>9, ConcatEffect
  <1> HIDE DEF q
  <1>11. /\ r \in Contexts
         /\ r.target = q.target /\ r.pc = q.pc /\ r.runner = q.runner
         /\ r.runnable = q.runnable \o ready /\ r.fast = q.fast
         /\ r.default = q.default \o default /\ r.noPendingIO = q.noPendingIO \o noPendingIO
         /\ r.waiting = q.waiting \cup leaves
    BY <1>9, <1>10, Zenon DEF Contexts
  <1> HIDE DEF r
  <1>12. /\ contexts' \in Seq(Contexts) /\ Len(contexts') = Len(cs) /\ contexts'[c] = r
         /\ \A d \in 1..Len(cs) : d # c => contexts'[d] = v[cs[d]]
    BY <1>7, <1>8, <1>11
  <1>13. ASSUME NEW d \in 1..Len(cs), d # c
         PROVE  /\ contexts'[d].target = cs[d].target /\ contexts'[d].pc = cs[d].pc
                /\ contexts'[d].runner = cs[d].runner
                /\ Entries(contexts'[d]) = Entries(cs[d])
                /\ contexts'[d].waiting = cs[d].waiting \ I
    <2>1. cs[d] \in Contexts
      OBVIOUS
    <2>2. cs[d].waiting \subseteq Leaves
      BY <2>1 DEF Contexts
    <2> QED
      BY <1>5, <1>12, <1>13, <2>1, <2>2 DEF Entries
  <1>14. q = v[cs[c]] /\ cs[c] \in Contexts /\ cs[c].waiting \subseteq Leaves
    <2>1. q = v[cs[c]] /\ cs[c] \in Contexts
      BY <1>7 DEF q
    <2> QED
      BY <2>1 DEF Contexts
  <1>15. /\ r.target = cs[c].target /\ r.pc = cs[c].pc /\ r.runner = cs[c].runner
         /\ r.waiting = (cs[c].waiting \ I) \cup leaves
    BY <1>5, <1>11, <1>14
  <1>16. Entries(r) = Entries(cs[c]) \cup {h \in I : state[h] \in {"ready"} \cup Queues}
    <2>1. Entries(r) = Entries(cs[c]) \cup InState("ready") \cup InState("default") \cup InState("noPendingIO")
      <3> HIDE DEF InState
      <3> QED
        BY <1>5, <1>10, <1>11, <1>14 DEF Entries
    <2> QED
      BY <2>1 DEF Queues
  <1>17. Imported(state, cs, contexts', c, I)
    BY <1>12, <1>13, <1>15, <1>16 DEF Imported
  <1> QED
    BY <1>17 DEF Enter

\* The handles of I may enter context c, the innermost one of cs.
Enters(st, cx, cs, c, I) ==
  /\ c = Len(cs) /\ c \in 1..Len(cs) /\ I \in SUBSET Handles
  /\ ContextsTyped(cx, cs) /\ Joins(st, cx, cs) /\ Queued(st, cx, cs)
  /\ \A h \in I : LiveIn(st, h) /\ cx[h] < c /\ st[h] # "running"
  /\ \A h \in I : st[h] = "waiting" <=> h \in Leaves
  /\ \A d \in 1..Len(cs) :
       /\ st[cs[d].target] # "none"
       /\ (cs[d].pc # "exit" /\ LiveIn(st, cs[d].target)) =>
            cx[cs[d].target] >= d \/ cs[d].target \in I

\* Then they are listed there and nowhere further out.
LEMMA EntersStep ==
  ASSUME NEW st, NEW cx, NEW cs, NEW c, NEW I, Enters(st, cx, cs, c, I),
         NEW cx2, cx2 = [h \in Handles |-> IF h \in I THEN c ELSE cx[h]],
         NEW cs2, Imported(st, cs, cs2, c, I)
  PROVE  Scheduling(st, cx2, cs2)
  <1>1. /\ c = Len(cs) /\ c \in 1..Len(cs) /\ I \in SUBSET Handles
        /\ ContextsTyped(cx, cs) /\ Joins(st, cx, cs) /\ Queued(st, cx, cs)
        /\ \A h \in I : LiveIn(st, h) /\ cx[h] < c /\ st[h] # "running"
        /\ \A h \in I : st[h] = "waiting" <=> h \in Leaves
        /\ \A d \in 1..Len(cs) :
             /\ st[cs[d].target] # "none"
             /\ (cs[d].pc # "exit" /\ LiveIn(st, cs[d].target)) =>
                  cx[cs[d].target] >= d \/ cs[d].target \in I
    BY DEF Enters
  <1>2. /\ cs2 \in Seq(Contexts) /\ Len(cs2) = Len(cs)
        /\ \A d \in 1..Len(cs) :
             /\ cs2[d].target = cs[d].target /\ cs2[d].pc = cs[d].pc /\ cs2[d].runner = cs[d].runner
             /\ Entries(cs2[d]) = Entries(cs[d]) \cup {h \in I : d = c /\ st[h] \in {"ready"} \cup Queues}
             /\ cs2[d].waiting = (cs[d].waiting \ I) \cup {h \in I : d = c /\ h \in Leaves}
    BY DEF Imported
  <1>3. /\ cx \in [Handles -> 0..MaxContextDepth] /\ MaxContextDepth \in Nat /\ cs \in Seq(Contexts)
        /\ Len(cs) <= MaxContextDepth /\ Len(cs) \in Nat /\ c \in Nat /\ c \in 0..MaxContextDepth
        /\ \A d \in 1..Len(cs) : cs[d].target \in Handles
    <2>1. cx \in [Handles -> 0..MaxContextDepth] /\ MaxContextDepth \in Nat /\ cs \in Seq(Contexts)
          /\ Len(cs) <= MaxContextDepth /\ Len(cs) \in Nat
      BY <1>1, AsioAssumption DEF ContextsTyped
    <2>2. \A d \in 1..Len(cs) : cs[d] \in Contexts
      BY <2>1
    <2>3. \A d \in 1..Len(cs) : cs[d].target \in Handles
      BY <2>2 DEF Contexts
    <2> QED
      BY <2>1, <2>3, <1>1
  <1>4. /\ cx2 \in [Handles -> 0..MaxContextDepth]
        /\ \A h \in I : cx2[h] = c /\ cx[h] < c
        /\ \A h \in Handles : h \notin I => cx2[h] = cx[h]
    BY <1>1, <1>3
  <1>5. ContextsTyped(cx2, cs2)
    BY <1>2, <1>3, <1>4 DEF ContextsTyped
  <1>6. Joins(st, cx2, cs2)
    <2>1. ASSUME NEW d \in 1..Len(cs)
          PROVE  Control(st, cx2, cs2, d)
      <3>1. Control(st, cx, cs, d)
        BY <1>1 DEF Joins
      <3>2. cs[d].pc \in {"running", "resume"} => cs[d].runner \in Handles /\ cs[d].runner \notin I
        BY <3>1, <1>1, <1>3 DEF Control, Handles
      <3> QED
        BY <3>1, <3>2, <1>2, <1>3, <1>4 DEF Control
    <2>2. ASSUME NEW f \in AsyncFunctions, st[f] = "running"
          PROVE  cx2[f] \in 1..Len(cs2) /\ cs2[cx2[f]].runner = f
      <3>1. cx[f] \in 1..Len(cs) /\ cs[cx[f]].runner = f /\ f \notin I /\ f \in Handles
        BY <2>2, <1>1 DEF Joins, Handles
      <3> QED
        BY <3>1, <1>2, <1>4
    <2> QED
      BY <2>1, <2>2, <1>2 DEF Joins
  <1>7. Queued(st, cx2, cs2)
    <2> SUFFICES ASSUME NEW x \in Handles
                 PROVE  Placed(st, cx2, cs2, x)
      BY DEF Queued
    <2>1. Placed(st, cx, cs, x)
      BY <1>1 DEF Queued
    <2>2. CASE x \in I
      <3>1. /\ cx2[x] = c /\ cx[x] < c /\ LiveIn(st, x) /\ (st[x] = "waiting" <=> x \in Leaves)
            /\ cx[x] \in Nat
        BY <2>2, <1>1, <1>3, <1>4
      <3>2. \A d \in 1..Len(cs) :
              /\ x \in Entries(cs2[d]) <=>
                   x \in Entries(cs[d]) \/ (d = c /\ st[x] \in {"ready"} \cup Queues)
              /\ x \in cs2[d].waiting <=> d = c /\ x \in Leaves
        BY <2>2, <1>2
      <3>3. st[x] # "none" /\ Len(cs2) = Len(cs) /\ c = Len(cs) /\ \A d \in 1..Len(cs) : c >= d
        BY <3>1, <1>1, <1>2, <1>3 DEF LiveIn
      <3> QED
        BY <3>1, <3>2, <3>3, <1>3 DEF Placed
    <2>3. CASE x \notin I
      <3>1. /\ cx2[x] = cx[x]
            /\ \A d \in 1..Len(cs) :
                 /\ x \in Entries(cs2[d]) <=> x \in Entries(cs[d])
                 /\ x \in cs2[d].waiting <=> x \in cs[d].waiting
                 /\ cs2[d].pc = cs[d].pc
        BY <2>3, <1>2, <1>4
      <3> QED
        BY <2>1, <3>1, <1>2 DEF Placed
    <2> QED
      BY <2>2, <2>3
  <1>8. Aimed(st, cx2, cs2)
    <2> SUFFICES ASSUME NEW d \in 1..Len(cs)
                 PROVE  /\ st[cs[d].target] # "none"
                        /\ (cs[d].pc # "exit" /\ LiveIn(st, cs[d].target)) => cx2[cs[d].target] >= d
      BY <1>2 DEF Aimed
    <2>1. cs[d].target \in Handles
      BY <1>3
    <2>2. cs[d].target \in I => cx2[cs[d].target] >= d
      BY <2>1, <1>1, <1>3, <1>4
    <2>3. (cs[d].target \notin I /\ cx[cs[d].target] >= d) => cx2[cs[d].target] >= d
      BY <2>1, <1>4
    <2> QED
      BY <1>1, <2>2, <2>3
  <1> QED
    BY <1>5, <1>6, <1>7, <1>8 DEF Scheduling

\* What is discovered from a handle.
LEMMA DiscoveredEffect ==
  ASSUME NEW age \in [Static -> Nat], Inv(age), NEW root \in Handles, Live(root), NEW c \in Nat
  PROVE  /\ Discovered(root, c) \in SUBSET Handles
         /\ \A h \in Discovered(root, c) : Live(h) /\ LiveIn(state, h) /\ ctx[h] < c
         /\ \A p \in Discovered(root, c) : state[p] = "blocked" =>
              \A i \in DOMAIN kids[p] : LiveIn(state, kids[p][i]) =>
                kids[p][i] \in Discovered(root, c) \/ ctx[kids[p][i]] >= c
         /\ root \in Discovered(root, c) \/ ctx[root] >= c
         /\ \A h \in Discovered(root, c) : state[h] = "waiting" <=> h \in Leaves
  <1>1. /\ state \in [Handles -> States] /\ kids \in [Handles -> Seq(Handles)]
        /\ ctx \in [Handles -> Nat] /\ Kinds /\ Graph(age)
    BY Basics DEF Inv, Graph
  <1>2. \A h : Live(h) <=> LiveIn(state, h)
    BY DEF Live, Finished, LiveIn, Ends
  <1>3. CASE ctx[root] >= c
    BY <1>3 DEF Discovered
  <1>4. CASE ~(ctx[root] >= c)
    <2> DEFINE next == [h \in Handles |-> discover(h, c)]
               I == Reach({root}, next)
               C == {h \in Handles : Live(h) /\ ctx[h] < c}
    <2>1. Discovered(root, c) = I
      BY <1>4, Zenon DEF Discovered
    <2>2. ASSUME NEW h \in Handles
          PROVE  /\ discover(h, c) \in SUBSET Handles /\ discover(h, c) \subseteq C
                 /\ state[h] = "blocked" => \A i \in DOMAIN kids[h] :
                      (Live(kids[h][i]) /\ ctx[kids[h][i]] < c) => kids[h][i] \in discover(h, c)
      <3>1. kids[h] \in Seq(Handles)
        BY <1>1
      <3>2. ToSet(kids[h]) = {kids[h][i] : i \in DOMAIN kids[h]}
        BY DEF ToSet
      <3>3. \A i \in DOMAIN kids[h] : kids[h][i] \in Handles
        BY <3>1
      <3> QED
        BY <3>2, <3>3 DEF discover
    <2>3. {root} \in SUBSET Handles /\ next \in [Handles -> SUBSET Handles]
      BY <2>2
    <2>4. {root} \subseteq C /\ \A h \in C : next[h] \subseteq C
      BY <1>1, <1>4, <2>2
    <2>5. \A h \in Handles : next[h] = discover(h, c)
      OBVIOUS
    <2>6. C \in SUBSET Handles
      OBVIOUS
    <2> HIDE DEF next, C
    <2>7. /\ I \in SUBSET Handles /\ {root} \subseteq I /\ I \subseteq C
          /\ \A h \in I : next[h] \subseteq I
      BY <2>3, <2>4, <2>6, ReachEffect
    <2> HIDE DEF I
    <2>8. \A h \in I : h \in Handles /\ Live(h) /\ ctx[h] < c
      BY <2>7 DEF C
    <2>9. ASSUME NEW p \in I, state[p] = "blocked", NEW i \in DOMAIN kids[p], LiveIn(state, kids[p][i])
          PROVE  kids[p][i] \in I \/ ctx[kids[p][i]] >= c
      <3>1. p \in Handles /\ kids[p][i] \in Handles /\ Live(kids[p][i])
        BY <2>8, <2>9, <1>1, <1>2
      <3>2. ctx[kids[p][i]] < c => kids[p][i] \in I
        BY <3>1, <2>2, <2>5, <2>7, <2>9
      <3> QED
        BY <3>1, <3>2, <1>1
    <2>10. \A h \in I : state[h] = "waiting" <=> h \in Leaves
      BY <2>8, <1>1 DEF Kinds, Handles, Live, Finished, Ends, Queues
    <2> QED
      BY <2>1, <2>7, <2>8, <2>9, <2>10, <1>2
  <1> QED
    BY <1>3, <1>4

\* What they wait for comes along.
LEMMA EntersNest ==
  ASSUME NEW age \in [Static -> Nat], Inv(age), Nest(state, ctx, kids),
         NEW root \in Handles, Live(root), NEW c \in Nat,
         NEW cx2, cx2 = [h \in Handles |-> IF h \in Discovered(root, c) THEN c ELSE ctx[h]]
  PROVE  Nest(state, cx2, kids)
  <1> DEFINE I == Discovered(root, c)
  <1>1. /\ kids \in [Handles -> Seq(Handles)] /\ ctx \in [Handles -> Nat]
    BY Basics
  <1>2. /\ I \in SUBSET Handles /\ \A h \in I : ctx[h] < c
        /\ \A p \in I : state[p] = "blocked" =>
              \A i \in DOMAIN kids[p] : LiveIn(state, kids[p][i]) =>
                kids[p][i] \in I \/ ctx[kids[p][i]] >= c
        /\ cx2 = [h \in Handles |-> IF h \in I THEN c ELSE ctx[h]]
    BY DiscoveredEffect
  <1> HIDE DEF I
  <1> SUFFICES ASSUME NEW p \in Handles, state[p] = "blocked", NEW i \in DOMAIN kids[p],
                      LiveIn(state, kids[p][i])
               PROVE  cx2[p] <= cx2[kids[p][i]]
    BY DEF Nest
  <1>3. kids[p][i] \in Handles /\ ctx[p] <= ctx[kids[p][i]]
    BY <1>1 DEF Nest
  <1>4. CASE p \in I
    BY <1>1, <1>2, <1>3, <1>4
  <1>5. CASE p \notin I
    BY <1>1, <1>2, <1>3, <1>5
  <1> QED
    BY <1>4, <1>5

\* A context that has just been entered.
LEMMA ContextEffect ==
  ASSUME NEW target \in Handles
  PROVE  /\ Context(target) \in Contexts
         /\ Context(target).target = target /\ Context(target).pc = "loop"
         /\ Context(target).runner = None /\ Entries(Context(target)) = {}
         /\ Context(target).waiting = {}
  <1>1. /\ "loop" \in PCs /\ None \in AsyncFunctions \cup {None} /\ <<>> \in Seq(AsyncFunctions)
        /\ <<>> \in Seq(Reschedules) /\ {} \in SUBSET Leaves
    BY DEF PCs
  <1>2. Context(target) \in Contexts
    BY <1>1, Zenon DEF Context, Contexts
  <1>3. /\ Context(target).target = target /\ Context(target).pc = "loop"
        /\ Context(target).runner = None /\ Context(target).waiting = {}
        /\ Context(target).runnable = <<>> /\ Context(target).fast = <<>>
        /\ Context(target).default = <<>> /\ Context(target).noPendingIO = <<>>
    BY Zenon DEF Context
  <1>4. ToSet(<<>>) = {}
    BY DEF ToSet
  <1>5. Entries(Context(target)) = {}
    BY <1>3, <1>4 DEF Entries
  <1> QED
    BY <1>2, <1>3, <1>5

\* join() enters a context.
LEMMA StepJoin ==
  ASSUME NEW age \in [Static -> Nat], Inv(age), join
  PROVE  IInv'
  <1>1. PICK target \in Handles :
          /\ Live(target) /\ ~CrossContextCycle(Discovered(target, Depth + 1))
          /\ Enter(Append(contexts, Context(target)), Discovered(target, Depth + 1), Depth + 1)
    BY Zenon DEF join
  <1>2. /\ UserCode /\ Depth < MaxContextDepth
        /\ UNCHANGED <<state, kids, unfinished, parents, chains, batch, unwinding, interrupts>>
    BY DEF join, enterContext
  <1> DEFINE c == Depth + 1
             I == Discovered(target, c)
             cs == Append(contexts, Context(target))
  <1>3. /\ contexts \in Seq(Contexts) /\ Depth = Len(contexts) /\ Depth \in Nat /\ c \in Nat
        /\ c = Depth + 1 /\ MaxContextDepth \in Nat
        /\ ctx \in [Handles -> Nat] /\ ctx \in [Handles -> 0..MaxContextDepth]
        /\ Graph(age) /\ Scheduling(state, ctx, contexts)
        /\ None \notin AsyncFunctions
    BY Basics DEF Inv, Depth
  <1>4. /\ chains = <<>> /\ batch = {} /\ Resumed = None /\ Nest(state, ctx, kids)
        /\ Depth > 0 => Top.pc = "running"
    BY <1>2, UserFacts
  <1>5. /\ I \in SUBSET Handles /\ \A h \in I : LiveIn(state, h) /\ ctx[h] < c
        /\ target \in I \/ ctx[target] >= c
        /\ \A h \in I : state[h] = "waiting" <=> h \in Leaves
    <2> HIDE DEF c
    <2> QED
      BY <1>1, <1>3, DiscoveredEffect
  <1>6. Context(target) \in Contexts
    BY ContextEffect
  <1>7. cs \in Seq(Contexts) /\ Len(cs) = c /\ c \in 1..Len(cs) /\ c = Len(cs)
        /\ cs[c] = Context(target) /\ \A d \in 1..Depth : cs[d] = contexts[d]
    BY <1>3, <1>6
  <1>8. \A h \in I : state[h] # "running"
    BY <1>1 DEF CrossContextCycle
  <1>9. Enter(cs, I, c)
    BY <1>1
  <1> HIDE DEF I, cs, c
  <1>10. /\ ctx' = [h \in Handles |-> IF h \in I THEN c ELSE ctx[h]]
         /\ Imported(state, cs, contexts', c, I)
    BY <1>3, <1>5, <1>7, <1>9, EnterEffect
  <1>11. Joins(state, ctx, cs)
    <2>1. /\ \A d \in 1..Depth : Control(state, ctx, contexts, d)
          /\ \A f \in AsyncFunctions : state[f] = "running" =>
               ctx[f] \in 1..Depth /\ contexts[ctx[f]].runner = f
      BY <1>3 DEF Scheduling, Joins
    <2>2. ASSUME NEW d \in 1..Depth PROVE Control(state, ctx, cs, d)
      <3>1. contexts[d].pc = "running" /\ cs[d] = contexts[d]
        BY <2>1, <1>3, <1>4, <1>7 DEF Control, Top
      <3> QED
        BY <3>1, <2>1 DEF Control
    <2>3. Control(state, ctx, cs, c)
      BY <1>7, <1>3, ContextEffect DEF Control
    <2> QED
      BY <2>1, <2>2, <2>3, <1>3, <1>7 DEF Joins
  <1>12. Queued(state, ctx, cs)
    <2> SUFFICES ASSUME NEW x \in Handles
                 PROVE  Placed(state, ctx, cs, x)
      BY DEF Queued
    <2>1. Placed(state, ctx, contexts, x)
      BY <1>3 DEF Scheduling, Queued
    <2>2. LiveIn(state, x) => ctx[x] <= Depth
      BY <2>1, <1>3 DEF Placed
    <2>3. x \notin Entries(cs[c]) /\ x \notin cs[c].waiting
      BY <1>7, ContextEffect
    <2>4. (state[x] \in {"ready", "waiting"} \cup Queues) => ctx[x] # c
      BY <2>2, <1>3 DEF LiveIn, Queues, Ends
    <2>5. ASSUME NEW d \in 1..Depth
          PROVE  /\ (state[x] \in {"ready"} \cup Queues /\ ctx[x] = d) => x \in Entries(cs[d])
                 /\ x \in Entries(cs[d]) =>
                      /\ state[x] # "none"
                      /\ LiveIn(state, x) => ctx[x] >= d \/ cs[d].pc = "exit"
                 /\ x \in cs[d].waiting <=> (state[x] = "waiting" /\ ctx[x] = d)
      BY <2>1, <1>3, <1>7 DEF Placed
    <2>6. \A d \in 1..Len(cs) : d = c \/ d \in 1..Depth
      BY <1>3, <1>7
    <2>7. LiveIn(state, x) => ctx[x] <= Len(cs)
      BY <2>2, <1>3, <1>7
    <2> QED
      BY <2>3, <2>4, <2>5, <2>6, <2>7 DEF Placed
  <1>13. Enters(state, ctx, cs, c, I)
    <2>1. ContextsTyped(ctx, cs)
      BY <1>2, <1>3, <1>7 DEF ContextsTyped
    <2>2. ASSUME NEW d \in 1..Len(cs)
          PROVE  /\ state[cs[d].target] # "none"
                 /\ (cs[d].pc # "exit" /\ LiveIn(state, cs[d].target)) =>
                      ctx[cs[d].target] >= d \/ cs[d].target \in I
      <3>1. CASE d = c
        <4>1. cs[d].target = target
          BY <3>1, <1>7, ContextEffect
        <4> QED
          BY <4>1, <3>1, <1>1, <1>5 DEF Live
      <3>2. CASE d # c
        <4>1. d \in 1..Depth /\ cs[d] = contexts[d]
          BY <3>2, <1>3, <1>7
        <4> QED
          BY <4>1, <1>3 DEF Scheduling, Aimed
      <3> QED
        BY <3>1, <3>2
    <2> QED
      BY <2>1, <2>2, <1>5, <1>7, <1>8, <1>11, <1>12 DEF Enters
  <1>14. Scheduling(state, ctx', contexts')
    BY <1>10, <1>13, EntersStep
  <1>15. Nest(state, ctx', kids)
    <2>1. ctx' = [h \in Handles |-> IF h \in Discovered(target, c) THEN c ELSE ctx[h]]
      BY <1>10 DEF I
    <2> QED
      BY <2>1, <1>1, <1>3, <1>4, EntersNest
  <1>16. Resumed' = None
    <2>1. Len(contexts') = c /\ contexts'[c].pc = "loop"
      BY <1>7, <1>10, ContextEffect DEF Imported
    <2> QED
      BY <2>1 DEF Resumed, Depth, Top
  <1>17. Graph(age)'
    BY <1>2, <1>3, <1>4, <1>16, GraphSame
  <1>18. Batched' /\ Counted'
    BY <1>2, <1>4 DEF Batched, Counted, Inv
  <1>19. Scheduling(state', ctx', contexts') /\ Nest(state', ctx', kids')
    BY <1>2, <1>14, <1>15
  <1> QED
    BY <1>17, <1>18, <1>19, Conclude

\* The running function of the innermost context suspends.
LEMMA SuspendStep ==
  ASSUME NEW age \in [Static -> Nat], Inv(age), NEW f \in AsyncFunctions, Runs(f),
         NEW st, st = [state EXCEPT ![f] = "blocked"], NEW cs, cs = Suspended(contexts)
  PROVE  /\ Edited(contexts, cs, Depth, "tail", None, {}, Entries(Top), Top.waiting)
         /\ Scheduling(st, ctx, cs)
  <1>1. /\ Depth > 0 /\ Top.pc = "running" /\ Top.runner = f
        /\ state \in [Handles -> States] /\ contexts \in Seq(Contexts)
        /\ ctx \in [Handles -> Nat] /\ ctx \in [Handles -> 0..MaxContextDepth]
        /\ Depth \in 1..Len(contexts) /\ Depth = Len(contexts) /\ Depth \in Nat
        /\ Scheduling(state, ctx, contexts) /\ Placed(state, ctx, contexts, f)
        /\ Control(state, ctx, contexts, Depth)
        /\ f \in Handles /\ f \notin Leaves /\ None \notin AsyncFunctions
    BY Basics, AsioAssumption DEF Inv, Scheduling, Queued, Depth, Runs
  <1>2. state[f] = "running" /\ ctx[f] = Depth
    BY <1>1 DEF Control, Top
  <1>3. Edited(contexts, cs, Depth, "tail", None, {}, Entries(contexts[Depth]), contexts[Depth].waiting)
    <2>1. cs = [contexts EXCEPT ![Depth].pc = "tail", ![Depth].runner = None]
      BY Zenon DEF Suspended
    <2>2. "tail" \in PCs /\ None \in AsyncFunctions \cup {None}
      BY DEF PCs
    <2>3. Edited(contexts, [contexts EXCEPT ![Depth].pc = "tail", ![Depth].runner = None], Depth, "tail", None, {},
                 Entries(contexts[Depth]), contexts[Depth].waiting)
      BY <2>2, <1>1, ControlEffect, Zenon
    <2> QED
      BY <2>1, <2>3, Zenon
  <1>4. /\ cs \in Seq(Contexts) /\ Len(cs) = Depth /\ cs[Depth].pc = "tail" /\ cs[Depth].runner = None
        /\ \A c \in 1..Depth :
             /\ Entries(cs[c]) = Entries(contexts[c]) /\ cs[c].waiting = contexts[c].waiting
             /\ c # Depth => cs[c] = contexts[c]
    BY <1>1, <1>3 DEF Edited
  <1>5. Touches(f, contexts, cs)
    <2> DEFINE S == {}
    <2>1. S \subseteq {f} /\ contexts[Depth].pc # "exit" /\ contexts[Depth].runner \in {None, f}
      BY <1>1 DEF Top
    <2>2. Edited(contexts, cs, Depth, "tail", None, S, Entries(contexts[Depth]), contexts[Depth].waiting)
      BY <1>3
    <2> HIDE DEF S
    <2> QED
      BY <2>1, <2>2, <1>1, EditTouches
  <1>6. st[f] = "blocked" /\ LiveIn(st, f) /\ LiveIn(state, f)
        /\ \A x \in Handles : x # f => st[x] = state[x]
    BY <1>1, <1>2 DEF LiveIn, Ends
  <1>7. Moves(f, state, ctx, contexts, st, ctx)
    BY <1>1, <1>2, <1>6 DEF Moves
  <1>8. Fits(f, contexts, st, ctx, cs)
    <2>1. Control(st, ctx, cs, Depth)
      BY <1>1, <1>4 DEF Control
    <2> QED
      BY <2>1, <1>1, <1>6 DEF Fits
  <1>9. Placed(st, ctx, cs, f)
    BY <1>1, <1>2, <1>4, <1>6 DEF Placed, Queues
  <1>10. Scheduling(st, ctx, cs)
    BY <1>1, <1>5, <1>7, <1>8, <1>9, TouchStep
  <1> QED
    BY <1>3, <1>10 DEF Top

\* An async function awaits a handle: it is imported, and if this closes no circle
\* the function suspends.
LEMMA StepAwait ==
  ASSUME NEW age \in [Static -> Nat], Inv(age), await
  PROVE  IInv'
  <1>1. PICK f \in AsyncFunctions, child \in Handles :
          /\ Runs(f) /\ Live(child) /\ ~CrossContextCycle(Discovered(child, ctx[f]))
          /\ IF detectCycle(f, child)
             THEN /\ Enter(contexts, Discovered(child, ctx[f]), ctx[f])
                  /\ UNCHANGED <<state, kids, parents>>
             ELSE /\ Enter(Suspended(contexts), Discovered(child, ctx[f]), ctx[f])
                  /\ state' = [state EXCEPT ![f] = "blocked"]
                  /\ kids' = [kids EXCEPT ![f] = <<child>>]
                  /\ parents' = [parents EXCEPT ![child] = Append(@, <<f, 1>>)]
    BY Zenon DEF await
  <1>2. UserCode /\ UNCHANGED <<unfinished, chains, batch, unwinding, interrupts>>
    BY DEF await
  <1>3. /\ Depth > 0 /\ Top.pc = "running" /\ Top.runner = f
        /\ state \in [Handles -> States] /\ contexts \in Seq(Contexts)
        /\ kids \in [Handles -> Seq(Handles)]
        /\ ctx \in [Handles -> Nat] /\ ctx \in [Handles -> 0..MaxContextDepth]
        /\ Depth \in 1..Len(contexts) /\ Depth = Len(contexts) /\ Depth \in Nat
        /\ Scheduling(state, ctx, contexts) /\ Graph(age)
        /\ f \in Handles /\ MaxContextDepth \in Nat
    BY <1>1, Basics DEF Inv, Depth, Runs
  <1>4. /\ chains = <<>> /\ batch = {} /\ Resumed = None /\ Nest(state, ctx, kids)
        /\ state[f] = "running" /\ ctx[f] = Depth
    BY <1>2, <1>3, UserFacts
  <1> DEFINE c == Depth
             I == Discovered(child, c)
  <1>5. /\ I \in SUBSET Handles /\ \A h \in I : LiveIn(state, h) /\ ctx[h] < c
        /\ child \in I \/ ctx[child] >= c
        /\ \A h \in I : state[h] = "waiting" <=> h \in Leaves
    BY <1>1, <1>3, DiscoveredEffect
  <1>6. \A h \in I : state[h] # "running"
    BY <1>1, <1>4 DEF CrossContextCycle
  <1>7. f \notin I
    BY <1>4, <1>6
  <1> DEFINE cx == [h \in Handles |-> IF h \in I THEN c ELSE ctx[h]]
  <1>8. /\ cx = [h \in Handles |-> IF h \in Discovered(child, Depth) THEN Depth ELSE ctx[h]]
        /\ cx \in [Handles -> Nat]
        /\ cx[f] = Depth /\ cx[child] >= Depth
    BY <1>3, <1>4, <1>5, <1>7
  <1>9. Nest(state, cx, kids)
    <2> HIDE DEF cx
    <2> QED
      BY <1>1, <1>3, <1>4, <1>8, EntersNest
  <1>10. Batched' /\ Counted'
    BY <1>2, <1>4 DEF Batched, Counted, Inv
  <1>11. CASE detectCycle(f, child)
    <2>1. Enter(contexts, I, c) /\ UNCHANGED <<state, kids, parents>>
      BY <1>1, <1>4, <1>11
    <2> HIDE DEF I
    <2>2. ctx' = cx /\ Imported(state, contexts, contexts', c, I)
      <3>1. Graph(age) /\ contexts \in Seq(Contexts) /\ c \in 1..Len(contexts) /\ I \in SUBSET Handles
        BY <1>3, <1>5
      <3> QED
        BY <2>1, <3>1, EnterEffect, Zenon
    <2>3. Enters(state, ctx, contexts, c, I)
      <3>1. Aimed(state, ctx, contexts) /\ ContextsTyped(ctx, contexts)
            /\ Joins(state, ctx, contexts) /\ Queued(state, ctx, contexts)
        BY <1>3 DEF Scheduling
      <3> QED
        BY <3>1, <1>3, <1>5, <1>6 DEF Enters, Aimed
    <2>4. Scheduling(state, ctx', contexts')
      BY <2>2, <2>3, EntersStep
    <2>5. Len(contexts') = Depth /\ contexts'[Depth].pc = "running"
      BY <2>2, <1>3 DEF Imported, Top
    <2>6. Resumed' = None
      BY <2>5 DEF Resumed, Depth, Top
    <2>7. Graph(age)'
      BY <2>1, <2>6, <1>2, <1>3, <1>4, GraphSame
    <2>8. Scheduling(state', ctx', contexts') /\ Nest(state', ctx', kids')
      BY <2>1, <2>2, <2>4, <1>9
    <2> QED
      BY <2>7, <2>8, <1>10, Conclude
  <1>12. CASE ~detectCycle(f, child)
    <2> DEFINE cs == Suspended(contexts)
    <2>1. Enter(cs, I, c)
      BY <1>1, <1>4, <1>12
    <2>2. /\ state' = [state EXCEPT ![f] = "blocked"] /\ kids' = [kids EXCEPT ![f] = <<child>>]
          /\ parents' = [parents EXCEPT ![child] = Append(@, <<f, 1>>)]
      BY <1>1, <1>12, Zenon
    <2>3. /\ Edited(contexts, cs, Depth, "tail", None, {}, Entries(Top), Top.waiting)
          /\ Scheduling(state', ctx, cs)
      <3> HIDE DEF cs
      <3>1. cs = Suspended(contexts)
        BY DEF cs
      <3> QED
        BY <2>2, <3>1, <1>1, SuspendStep
    <2> HIDE DEF I, cs
    <2>4. cs \in Seq(Contexts) /\ Len(cs) = Depth /\ cs[Depth].pc = "tail"
      BY <2>3, <1>3 DEF Edited
    <2>5. ctx' = cx /\ Imported(state, cs, contexts', c, I)
      BY <2>1, <2>4, <1>3, <1>5, EnterEffect
    <2>6. state'[f] = "blocked" /\ \A x \in Handles : x # f => state'[x] = state[x]
      BY <2>2, <1>3
    <2>7. \A h \in I : h \in Handles /\ state'[h] = state[h]
      BY <2>6, <1>5, <1>7
    <2>8. Imported(state', cs, contexts', c, I)
      BY <2>5, <2>7 DEF Imported
    <2>9. Enters(state', ctx, cs, c, I)
      <3>1. Aimed(state', ctx, cs) /\ ContextsTyped(ctx, cs) /\ Joins(state', ctx, cs) /\ Queued(state', ctx, cs)
        BY <2>3 DEF Scheduling
      <3>2. \A h \in I : LiveIn(state', h) /\ ctx[h] < c /\ state'[h] # "running"
        BY <2>7, <1>5, <1>6 DEF LiveIn
      <3>3. \A h \in I : state'[h] = "waiting" <=> h \in Leaves
        BY <2>7, <1>5
      <3> QED
        BY <3>1, <3>2, <3>3, <2>4, <1>3, <1>5 DEF Enters, Aimed
    <2>10. Scheduling(state', ctx', contexts')
      BY <2>5, <2>8, <2>9, EntersStep
    <2>11. Nest(state', ctx', kids')
      <3>1. /\ kids'[f] = <<child>> /\ \A x \in Handles : x # f => kids'[x] = kids[x]
        BY <2>2, <1>3
      <3>2. \A i \in DOMAIN kids'[f] : kids'[f][i] = child
        BY <3>1
      <3>3. cx[f] <= cx[child]
        BY <1>8, <1>3
      <3> HIDE DEF cx
      <3>4. LiveIn(state, f)
        BY <1>4 DEF LiveIn, Ends
      <3>5. Nears(f, state, cx, kids, state', cx, kids')
        BY <3>1, <3>2, <3>3, <3>4, <2>6, <1>3, <1>8 DEF Nears
      <3> QED
        BY <3>5, <2>5, <1>3, <1>9, NestStep
    <2>12. Resumed' = None
      <3>1. Len(contexts') = Depth /\ contexts'[Depth].pc = "tail"
        BY <2>4, <2>8, <1>3 DEF Imported
      <3> QED
        BY <3>1 DEF Resumed, Depth, Top
    <2>13. PICK new \in [Static -> Nat] : Graph(new)'
      <3>1. Live(child) /\ UNCHANGED <<unfinished, chains>>
        BY <1>1, <1>2
      <3> QED
        BY <3>1, <2>2, <2>12, <1>3, <1>4, <1>12, BlockOne
    <2> QED
      BY <2>10, <2>11, <2>13, <1>10, Conclude
  <1> QED
    BY <1>11, <1>12

-----------------------------------------------------------------------------
\* A context is left.

\* Those that leave context c with handle h are blocked there, and with each of
\* them everyone who is blocked on it.
LEMMA ParentsLeavingEffect ==
  ASSUME NEW age \in [Static -> Nat], Inv(age), NEW h \in Handles, NEW c
  PROVE  /\ ParentsLeaving(h, c) \in SUBSET Handles
         /\ \A p \in ParentsLeaving(h, c) : state[p] = "blocked" /\ ctx[p] = c
         /\ \A p \in Handles :
              (/\ state[p] = "blocked" /\ ctx[p] = c
               /\ kids[p][Current(p)] \in {h} \cup ParentsLeaving(h, c)
               /\ LiveIn(state, kids[p][Current(p)])) => p \in ParentsLeaving(h, c)
  <1> DEFINE Up == [x \in Handles |->
               {p \in Handles : \E node \in ToSet(parents[x]) :
                  /\ node[1] = p
                  /\ isFirstUnfinishedChild(node)
                  /\ Live(p)
                  /\ ctx[p] = c}]
             P == Reach(Up[h], Up)
             C == {p \in Handles : state[p] = "blocked" /\ ctx[p] = c}
  <1>1. ParentsLeaving(h, c) = P
    BY Zenon DEF ParentsLeaving
  <1>2. Graph(age) /\ AwaitedHaveNodes /\ NodesAwait
    BY DEF Inv, Graph
  <1>3. \A p : Live(p) <=> LiveIn(state, p)
    BY DEF Live, Finished, LiveIn, Ends
  <1>4. ASSUME NEW x \in Handles
        PROVE  Up[x] \in SUBSET Handles /\ Up[x] \subseteq C
    <2>1. ASSUME NEW p \in Up[x]
          PROVE  p \in C
      <3>1. PICK node \in ToSet(parents[x]) : node[1] = p /\ Live(p) /\ ctx[p] = c
        BY <2>1
      <3>2. Awaits(p, node[2])
        BY <3>1, <1>2 DEF NodesAwait
      <3>3. state[p] = "blocked"
        BY <3>1, <3>2 DEF Awaits, Live
      <3> QED
        BY <2>1, <3>1, <3>3
    <2> QED
      BY <2>1
  <1>5. ASSUME NEW p \in Handles, state[p] = "blocked", ctx[p] = c, LiveIn(state, kids[p][Current(p)])
        PROVE  kids[p][Current(p)] \in Handles /\ p \in Up[kids[p][Current(p)]]
    <2>1. Current(p) \in DOMAIN kids[p] /\ kids[p][Current(p)] \in Handles
      BY <1>2, <1>5, GraphFacts
    <2>2. <<p, Current(p)>> \in ToSet(parents[kids[p][Current(p)]])
      BY <1>2, <1>3, <1>5, <2>1 DEF AwaitedHaveNodes
    <2>3. isFirstUnfinishedChild(<<p, Current(p)>>)
      BY DEF isFirstUnfinishedChild, Current
    <2>4. Live(p)
      BY <1>5 DEF Live, Finished
    <2> QED
      BY <2>1, <2>2, <2>3, <2>4, <1>5
  <1>6. Up \in [Handles -> SUBSET Handles] /\ Up[h] \in SUBSET Handles
    BY <1>4
  <1>7. C \in SUBSET Handles /\ Up[h] \subseteq C /\ \A x \in C : Up[x] \subseteq C
    BY <1>4
  <1> HIDE DEF Up, C
  <1>8. /\ P \in SUBSET Handles /\ Up[h] \subseteq P /\ P \subseteq C
        /\ \A x \in P : Up[x] \subseteq P
    BY <1>6, <1>7, ReachEffect
  <1> HIDE DEF P
  <1>9. \A p \in P : state[p] = "blocked" /\ ctx[p] = c
    BY <1>8 DEF C
  <1>10. ASSUME NEW p \in Handles, state[p] = "blocked", ctx[p] = c,
                kids[p][Current(p)] \in {h} \cup P, LiveIn(state, kids[p][Current(p)])
         PROVE  p \in P
    BY <1>5, <1>8, <1>10
  <1> QED
    BY <1>1, <1>8, <1>9, <1>10

\* Handle h moves to the next context further out, together with those that
\* are blocked on it.
Outwards(h) ==
  /\ Exiting /\ h \in Handles /\ state[h] \in {"ready", "waiting"} \cup Queues /\ ctx[h] = Depth
  /\ Leave(h)
  /\ ListsOnly(h)
  /\ \A d \in 1..Depth :
       /\ (state[h] # "waiting" /\ d = Depth - 1) => h \in Entries(contexts'[d])
       /\ h \in contexts'[d].waiting <=> (state[h] = "waiting" /\ d = Depth - 1)
  /\ UNCHANGED <<state, kids, unfinished, parents, chains, batch, unwinding, interrupts>>

\* Everything stays in order.
LEMMA OutwardsStep ==
  ASSUME NEW age \in [Static -> Nat], Inv(age), NEW h, Outwards(h)
  PROVE  IInv'
  <1>1. /\ Exiting /\ h \in Handles /\ state[h] \in {"ready", "waiting"} \cup Queues /\ ctx[h] = Depth
        /\ ListsOnly(h)
        /\ UNCHANGED <<state, kids, unfinished, parents, chains, batch, unwinding, interrupts>>
        /\ \A d \in 1..Depth :
             /\ (state[h] # "waiting" /\ d = Depth - 1) => h \in Entries(contexts'[d])
             /\ h \in contexts'[d].waiting <=> (state[h] = "waiting" /\ d = Depth - 1)
    BY DEF Outwards
  <1>2. /\ state \in [Handles -> States] /\ contexts \in Seq(Contexts)
        /\ kids \in [Handles -> Seq(Handles)]
        /\ ctx \in [Handles -> Nat] /\ ctx \in [Handles -> 0..MaxContextDepth]
        /\ Depth = Len(contexts) /\ Depth \in Nat /\ Depth > 0 /\ Depth <= MaxContextDepth
        /\ Depth \in 1..Depth /\ MaxContextDepth \in Nat
        /\ ContextsTyped(ctx, contexts) /\ Joins(state, ctx, contexts) /\ Queued(state, ctx, contexts)
        /\ Aimed(state, ctx, contexts) /\ Graph(age) /\ Leaving
        /\ chains = <<>> /\ batch = {} /\ contexts[Depth].pc = "exit" /\ Resumed = None
        /\ \A d \in 1..Depth : contexts[d].target \in Handles
        /\ AsyncFunctions \subseteq Handles
    <2>1. Exiting
      BY <1>1
    <2>2. \A d \in 1..Depth : contexts[d].target \in Handles
      <3>1. \A d \in 1..Depth : contexts[d] \in Contexts
        BY Basics
      <3> QED
        BY <3>1 DEF Contexts
    <2>3. Resumed = None
      BY <2>1 DEF Exiting, Resumed
    <2> QED
      BY <2>1, <2>2, <2>3, Basics DEF Inv, Scheduling, Nested, Exiting, Quiet, Depth, Top
  <1> DEFINE M == {h} \cup ParentsLeaving(h, Depth)
             cs == contexts'
             cx == ctx'
  <1>3. cx = [x \in Handles |-> IF x \in M THEN Depth - 1 ELSE ctx[x]]
    BY DEF Outwards, Leave
  <1>4. /\ M \in SUBSET Handles /\ h \in M
        /\ \A x \in M : ctx[x] = Depth /\ (x = h \/ state[x] = "blocked")
        /\ \A p \in Handles :
              (/\ state[p] = "blocked" /\ ctx[p] = Depth
               /\ kids[p][Current(p)] \in M
               /\ LiveIn(state, kids[p][Current(p)])) => p \in M
    BY <1>1, ParentsLeavingEffect
  <1> HIDE DEF M
  <1>5. /\ cx \in [Handles -> 0..MaxContextDepth]
        /\ \A x \in Handles : (x \in M /\ ctx[x] = Depth /\ cx[x] = Depth - 1) \/ (x \notin M /\ cx[x] = ctx[x])
    BY <1>2, <1>3, <1>4
  <1>6. /\ cs \in Seq(Contexts) /\ Len(cs) = Depth
        /\ \A d \in 1..Depth :
             /\ cs[d].target = contexts[d].target
             /\ cs[d].pc = contexts[d].pc /\ cs[d].runner = contexts[d].runner
             /\ Entries(cs[d]) \ {h} = Entries(contexts[d]) \ {h}
             /\ cs[d].waiting \ {h} = contexts[d].waiting \ {h}
    BY <1>1, <1>2 DEF ListsOnly, Touches
  <1>7. ContextsTyped(cx, cs)
    BY <1>2, <1>5, <1>6 DEF ContextsTyped
  <1>8. \A x \in Handles : state[x] = "running" => x \notin M
    BY <1>1, <1>4 DEF Queues
  <1>9. Joins(state, cx, cs)
    <2>1. ASSUME NEW d \in 1..Depth PROVE Control(state, cx, cs, d)
      <3>1. Control(state, ctx, contexts, d) /\ contexts[d].pc # "resume"
        BY <1>2 DEF Joins, Control
      <3>2. contexts[d].pc = "running" => contexts[d].runner \in Handles /\ cx[contexts[d].runner] = ctx[contexts[d].runner]
        BY <3>1, <1>2, <1>5, <1>8 DEF Control
      <3> QED
        BY <3>1, <3>2, <1>2, <1>6 DEF Control
    <2>2. ASSUME NEW f \in AsyncFunctions, state[f] = "running"
          PROVE  cx[f] \in 1..Len(cs) /\ cs[cx[f]].runner = f
      <3>1. ctx[f] \in 1..Depth /\ contexts[ctx[f]].runner = f /\ cx[f] = ctx[f]
        BY <2>2, <1>2, <1>5, <1>8 DEF Joins
      <3> QED
        BY <3>1, <1>6
    <2> QED
      BY <2>1, <2>2, <1>6 DEF Joins
  <1>10. Aimed(state, cx, cs)
    <2> SUFFICES ASSUME NEW d \in 1..Depth
                 PROVE  /\ state[contexts[d].target] # "none"
                        /\ (contexts[d].pc # "exit" /\ LiveIn(state, contexts[d].target)) =>
                             cx[contexts[d].target] >= d
      BY <1>6 DEF Aimed
    <2>1. /\ state[contexts[d].target] # "none"
          /\ (contexts[d].pc # "exit" /\ LiveIn(state, contexts[d].target)) => ctx[contexts[d].target] >= d
      BY <1>2 DEF Aimed
    <2>2. contexts[d].pc # "exit" => d <= Depth - 1
      BY <1>2
    <2>3. contexts[d].target \in Handles /\ ctx[contexts[d].target] \in Nat
      BY <1>2
    <2> QED
      BY <2>1, <2>2, <2>3, <1>2, <1>5
  <1>11. Queued(state, cx, cs)
    <2> SUFFICES ASSUME NEW x \in Handles
                 PROVE  Placed(state, cx, cs, x)
      BY DEF Queued
    <2>1. Placed(state, ctx, contexts, x)
      BY <1>2 DEF Queued
    <2>2. CASE x = h
      <3>1. cx[h] = Depth - 1 /\ state[h] # "none"
        BY <1>1, <1>4, <1>5 DEF Queues
      <3>2. \A d \in 1..Depth : Depth - 1 >= d \/ cs[d].pc = "exit"
        BY <1>2, <1>6
      <3>3. cx[h] <= Len(cs)
        BY <3>1, <1>2, <1>6
      <3>4. \A d \in 1..Depth : (state[h] \in {"ready"} \cup Queues /\ cx[h] = d) => h \in Entries(cs[d])
        BY <3>1, <1>1 DEF Queues
      <3>5. \A d \in 1..Depth : h \in cs[d].waiting <=> (state[h] = "waiting" /\ cx[h] = d)
        BY <3>1, <1>1
      <3> QED
        BY <2>2, <3>1, <3>2, <3>3, <3>4, <3>5, <1>6 DEF Placed
    <2>3. CASE x # h /\ x \in M
      <3>1. cx[x] = Depth - 1 /\ state[x] = "blocked" /\ ctx[x] = Depth
        BY <2>3, <1>4, <1>5
      <3>2. \A d \in 1..Depth : Depth - 1 >= d \/ cs[d].pc = "exit"
        BY <1>2, <1>6
      <3>3. \A d \in 1..Depth : x \notin cs[d].waiting
        BY <2>1, <2>3, <3>1, <1>2, <1>6 DEF Placed
      <3>4. cx[x] <= Len(cs)
        BY <3>1, <1>2, <1>6
      <3> QED
        BY <3>1, <3>2, <3>3, <3>4, <1>6 DEF Placed, Queues
    <2>4. CASE x \notin M
      <3>1. cx[x] = ctx[x] /\ x # h
        BY <2>4, <1>4, <1>5
      <3>2. \A d \in 1..Depth :
              /\ x \in Entries(cs[d]) <=> x \in Entries(contexts[d])
              /\ x \in cs[d].waiting <=> x \in contexts[d].waiting
              /\ cs[d].pc = contexts[d].pc
        BY <3>1, <1>6
      <3> QED
        BY <2>1, <3>1, <3>2, <1>2, <1>6 DEF Placed
    <2> QED
      BY <2>2, <2>3, <2>4
  <1>12. Scheduling(state', ctx', contexts')
    BY <1>1, <1>7, <1>9, <1>10, <1>11 DEF Scheduling
  <1>13. Depth' = Depth /\ Top'.pc = "exit"
    BY <1>2, <1>6 DEF Depth, Top
  <1>14. Exiting' /\ Resumed' = None
    BY <1>1, <1>2, <1>13 DEF Exiting, Quiet, Resumed
  <1>15. Graph(age)'
    BY <1>1, <1>2, <1>14, GraphSame
  <1>16. ASSUME NEW p \in Handles, state[p] = "blocked", LiveIn(state, kids[p][Current(p)])
         PROVE  cx[p] <= cx[kids[p][Current(p)]]
    <2> DEFINE k == kids[p][Current(p)]
    <2>1. k \in Handles
      BY <1>2, <1>16, GraphFacts
    <2>2. ctx[p] <= ctx[k]
      BY <1>2, <1>16 DEF Leaving
    <2>3. k \in M => (ctx[p] = Depth => p \in M)
      BY <1>4, <1>16
    <2> HIDE DEF k
    <2>4. cx[p] <= cx[k]
      BY <2>1, <2>2, <2>3, <1>2, <1>5
    <2> QED
      BY <2>4 DEF k
  <1>17. ASSUME NEW p \in Handles, state[p] = "blocked", NEW i \in DOMAIN kids[p], LiveIn(state, kids[p][i])
         PROVE  cx[p] <= cx[kids[p][i]] \/ (cx[p] = Depth /\ cx[kids[p][i]] = Depth - 1)
    <2> DEFINE k == kids[p][i]
    <2>1. k \in Handles
      BY <1>2, <1>17, GraphFacts
    <2>2. ctx[p] <= ctx[k] \/ (ctx[p] = Depth /\ ctx[k] = Depth - 1)
      BY <1>2, <1>17 DEF Leaving
    <2> HIDE DEF k
    <2>3. cx[p] <= cx[k] \/ (cx[p] = Depth /\ cx[k] = Depth - 1)
      <3>1. /\ ctx[p] \in Nat /\ ctx[k] \in Nat /\ Depth \in Nat
            /\ (ctx[p] = Depth /\ cx[p] = Depth - 1) \/ cx[p] = ctx[p]
            /\ (ctx[k] = Depth /\ cx[k] = Depth - 1) \/ cx[k] = ctx[k]
        BY <2>1, <1>2, <1>5
      <3> QED
        BY <2>2, <3>1
    <2> QED
      BY <2>3 DEF k
  <1>18. Leaving'
    BY <1>1, <1>13, <1>16, <1>17 DEF Leaving, Current
  <1>19. Nested'
    BY <1>14, <1>18 DEF Nested
  <1>20. Batched' /\ Counted'
    BY <1>1, <1>2 DEF Batched, Counted, Inv
  <1> QED
    BY <1>12, <1>15, <1>19, <1>20 DEF IInv, Inv

\* The handle is taken from the innermost context, which makes the stack cs, and
\* listed in the next one further out, unless there is none.
Passes(h, cs) ==
  /\ Exiting /\ h \in Handles /\ state[h] \in {"ready", "waiting"} \cup Queues /\ ctx[h] = Depth
  /\ Leave(h)
  /\ Edited(contexts, cs, Depth, Top.pc, Top.runner, {h}, Entries(Top) \cup {h}, Top.waiting \ {h})
  /\ IF Depth = 1 THEN contexts' = cs
     ELSE \E T, W :
            /\ Edited(cs, contexts', Depth - 1, cs[Depth - 1].pc, cs[Depth - 1].runner, {}, T, W)
            /\ \/ state[h] # "waiting" /\ T = Entries(cs[Depth - 1]) \cup {h} /\ W = cs[Depth - 1].waiting
               \/ state[h] = "waiting" /\ T = Entries(cs[Depth - 1]) /\ W = cs[Depth - 1].waiting \cup {h}
  /\ UNCHANGED <<state, kids, unfinished, parents, chains, batch, unwinding, interrupts>>

\* This is a move outwards.
LEMMA PassesStep ==
  ASSUME NEW age \in [Static -> Nat], Inv(age), NEW h, NEW cs, Passes(h, cs)
  PROVE  IInv'
  <1>1. /\ Exiting /\ h \in Handles /\ state[h] \in {"ready", "waiting"} \cup Queues /\ ctx[h] = Depth
        /\ Leave(h)
        /\ Edited(contexts, cs, Depth, contexts[Depth].pc, contexts[Depth].runner, {h},
                  Entries(contexts[Depth]) \cup {h}, contexts[Depth].waiting \ {h})
        /\ UNCHANGED <<state, kids, unfinished, parents, chains, batch, unwinding, interrupts>>
    BY DEF Passes, Top
  <1>2. /\ contexts \in Seq(Contexts) /\ Depth = Len(contexts) /\ Depth \in Nat /\ Depth > 0
        /\ Depth \in 1..Depth /\ Placed(state, ctx, contexts, h)
    BY <1>1, Basics DEF Inv, Scheduling, Queued, Exiting, Depth
  <1>3. /\ cs \in Seq(Contexts) /\ Len(cs) = Depth
        /\ \A d \in 1..Depth :
             /\ cs[d].target = contexts[d].target
             /\ cs[d].pc = contexts[d].pc /\ cs[d].runner = contexts[d].runner
             /\ Entries(cs[d]) \ {h} = Entries(contexts[d]) \ {h}
             /\ cs[d].waiting = contexts[d].waiting \ {h}
    <2>1. /\ cs \in Seq(Contexts) /\ Len(cs) = Depth /\ \A d \in 1..Depth : d # Depth => cs[d] = contexts[d]
          /\ cs[Depth].target = contexts[Depth].target
          /\ cs[Depth].pc = contexts[Depth].pc /\ cs[Depth].runner = contexts[Depth].runner
          /\ cs[Depth].waiting = contexts[Depth].waiting \ {h}
      BY <1>1, <1>2 DEF Edited
    <2>2. Entries(cs[Depth]) \ {h} = Entries(contexts[Depth]) \ {h}
      BY <1>1 DEF Edited
    <2>3. ASSUME NEW d \in 1..Depth, d # Depth
          PROVE  contexts[d].waiting = contexts[d].waiting \ {h}
      BY <2>3, <1>1, <1>2 DEF Placed
    <2> QED
      BY <2>1, <2>2, <2>3
  <1>4. /\ contexts' \in Seq(Contexts) /\ Len(contexts') = Depth
        /\ \A d \in 1..Depth :
             /\ contexts'[d].target = cs[d].target
             /\ contexts'[d].pc = cs[d].pc /\ contexts'[d].runner = cs[d].runner
             /\ Entries(contexts'[d]) \ {h} = Entries(cs[d]) \ {h}
             /\ contexts'[d].waiting \ {h} = cs[d].waiting \ {h}
             /\ (state[h] # "waiting" /\ d = Depth - 1) => h \in Entries(contexts'[d])
             /\ h \in contexts'[d].waiting <=> (state[h] = "waiting" /\ d = Depth - 1)
    <2>1. CASE Depth = 1
      <3>1. contexts' = cs
        BY <2>1 DEF Passes
      <3> QED
        BY <3>1, <2>1, <1>3
    <2>2. CASE Depth # 1
      <3> DEFINE o == Depth - 1
      <3>1. PICK T, W :
              /\ Edited(cs, contexts', o, cs[o].pc, cs[o].runner, {}, T, W)
              /\ \/ state[h] # "waiting" /\ T = Entries(cs[o]) \cup {h} /\ W = cs[o].waiting
                 \/ state[h] = "waiting" /\ T = Entries(cs[o]) /\ W = cs[o].waiting \cup {h}
        BY <2>2 DEF Passes
      <3>2. o \in 1..Depth /\ o # Depth
        BY <2>2, <1>2
      <3>3. o = Depth - 1
        OBVIOUS
      <3> HIDE DEF o
      <3>4. /\ contexts' \in Seq(Contexts) /\ Len(contexts') = Depth
            /\ \A d \in 1..Depth : d # o => contexts'[d] = cs[d]
            /\ contexts'[o].target = cs[o].target /\ contexts'[o].pc = cs[o].pc
            /\ contexts'[o].runner = cs[o].runner /\ contexts'[o].waiting = W /\ Entries(contexts'[o]) = T
        BY <3>1, <1>3 DEF Edited
      <3>5. h \notin cs[o].waiting
        BY <3>2, <1>3
      <3>6. ASSUME NEW d \in 1..Depth, d = o
            PROVE  /\ contexts'[d].target = cs[d].target
                   /\ contexts'[d].pc = cs[d].pc /\ contexts'[d].runner = cs[d].runner
                   /\ Entries(contexts'[d]) \ {h} = Entries(cs[d]) \ {h}
                   /\ contexts'[d].waiting \ {h} = cs[d].waiting \ {h}
                   /\ state[h] # "waiting" => h \in Entries(contexts'[d])
                   /\ h \in contexts'[d].waiting <=> state[h] = "waiting"
        BY <3>1, <3>4, <3>5, <3>6
      <3>7. ASSUME NEW d \in 1..Depth, d # o
            PROVE  contexts'[d] = cs[d] /\ h \notin contexts'[d].waiting
        BY <3>4, <3>7, <1>3
      <3> QED
        BY <3>3, <3>4, <3>6, <3>7
    <2> QED
      BY <2>1, <2>2
  <1>5. ListsOnly(h)
    <2>1. ASSUME NEW d \in 1..Depth
          PROVE  /\ contexts'[d].target = contexts[d].target
                 /\ contexts'[d].pc = contexts[d].pc /\ contexts'[d].runner = contexts[d].runner
                 /\ Entries(contexts'[d]) \ {h} = Entries(contexts[d]) \ {h}
                 /\ contexts'[d].waiting \ {h} = contexts[d].waiting \ {h}
      BY <1>3, <1>4
    <2> QED
      BY <2>1, <1>2, <1>4 DEF ListsOnly, Touches
  <1>6. Outwards(h)
    BY <1>1, <1>4, <1>5 DEF Outwards
  <1> QED
    BY <1>6, OutwardsStep

\* What h is taken from is one of the queues.
LEMMA PopForms ==
  ASSUME NEW age \in [Static -> Nat], Inv(age), Exiting, NEW h \in Handles, NEW cs,
         Edited(contexts, cs, Depth, Top.pc, Top.runner, {h}, Entries(Top), Top.waiting),
         h \notin Leaves
  PROVE  /\ Edited(contexts, cs, Depth, Top.pc, Top.runner, {h}, Entries(Top) \cup {h}, Top.waiting \ {h})
         /\ Depth > 1 => Depth - 1 \in 1..Len(cs)
         /\ cs \in Seq(Contexts)
  <1>1. Top \in Contexts /\ Depth = Len(contexts) /\ Depth \in Nat /\ Depth \in 1..Len(contexts)
    BY Basics DEF Exiting, Depth
  <1>2. h \notin Top.waiting
    BY <1>1 DEF Contexts
  <1>3. h \in Entries(Top)
    BY DEF Edited
  <1>4. Entries(Top) \cup {h} = Entries(Top) /\ Top.waiting \ {h} = Top.waiting
    BY <1>2, <1>3
  <1>5. Edited(contexts, cs, Depth, Top.pc, Top.runner, {h}, Entries(Top) \cup {h}, Top.waiting \ {h})
    BY <1>4
  <1> QED
    BY <1>1, <1>5 DEF Edited

\* A function leaves, unless it ran before or is in another context.
LEMMA FunctionLeaves ==
  ASSUME NEW age \in [Static -> Nat], Inv(age), Exiting, NEW f \in AsyncFunctions, NEW cs,
         Edited(contexts, cs, Depth, Top.pc, Top.runner, {f}, Entries(Top), Top.waiting),
         ExitFunction(f, cs),
         UNCHANGED <<state, kids, unfinished, parents, chains, batch, unwinding, interrupts>>
  PROVE  IInv'
  <1>1. f \in Handles /\ f \notin Leaves /\ Depth > 0 /\ Depth \in Nat
    BY Basics, AsioAssumption DEF Exiting
  <1>2. CASE ~(state[f] = "ready" /\ ctx[f] = Depth)
    <2>1. contexts' = cs /\ UNCHANGED ctx
      BY <1>2 DEF ExitFunction
    <2>2. state[f] \notin Queues
      BY DEF Inv, Graph, Kinds, Queues, Ends
    <2>3. Drops(f)
      BY <2>1, <2>2, <1>1, <1>2 DEF Drops
    <2> QED
      BY <2>3, DropStep
  <1>3. CASE state[f] = "ready" /\ ctx[f] = Depth
    <2>1. Leave(f) /\ contexts' = IF Depth = 1 THEN cs ELSE ScheduleIn(cs, Depth - 1, f)
      BY <1>3 DEF ExitFunction
    <2>2. /\ Edited(contexts, cs, Depth, Top.pc, Top.runner, {f}, Entries(Top) \cup {f}, Top.waiting \ {f})
          /\ Depth > 1 => Depth - 1 \in 1..Len(cs)
          /\ cs \in Seq(Contexts)
      BY <1>1, PopForms
    <2> DEFINE o == Depth - 1
    <2>3. Depth # 1 => Edited(cs, contexts', o, cs[o].pc, cs[o].runner, {}, Entries(cs[o]) \cup {f}, cs[o].waiting)
      <3> SUFFICES ASSUME Depth # 1
                   PROVE  Edited(cs, contexts', o, cs[o].pc, cs[o].runner, {}, Entries(cs[o]) \cup {f}, cs[o].waiting)
        OBVIOUS
      <3>1. contexts' = ScheduleIn(cs, o, f) /\ o \in 1..Len(cs)
        BY <2>1, <2>2, <1>1
      <3> QED
        BY <2>2, <3>1, ScheduleEffect, Zenon
    <2>4. Passes(f, cs)
      BY <1>1, <1>3, <2>1, <2>2, <2>3 DEF Passes
    <2> QED
      BY <2>4, PassesStep
  <1> QED
    BY <1>2, <1>3

\* So does a reschedule.
LEMMA RescheduleLeaves ==
  ASSUME NEW age \in [Static -> Nat], Inv(age), Exiting, NEW h \in Reschedules, NEW cs,
         Edited(contexts, cs, Depth, Top.pc, Top.runner, {h}, Entries(Top), Top.waiting),
         ExitReschedule(h, cs),
         UNCHANGED <<state, kids, unfinished, parents, chains, batch, unwinding, interrupts>>
  PROVE  IInv'
  <1>1. h \in Handles /\ h \notin Leaves /\ Depth > 0 /\ Depth \in Nat
    BY Basics, AsioAssumption DEF Exiting
  <1>2. CASE ~(Scheduled(h) /\ ctx[h] = Depth)
    <2>1. contexts' = cs /\ UNCHANGED ctx
      BY <1>2 DEF ExitReschedule
    <2>2. state[h] # "ready"
      BY DEF Inv, Graph, Kinds, Queues, Ends
    <2>3. Drops(h)
      BY <2>1, <2>2, <1>1, <1>2 DEF Drops, Scheduled
    <2> QED
      BY <2>3, DropStep
  <1>3. CASE Scheduled(h) /\ ctx[h] = Depth
    <2>1. Leave(h) /\ contexts' = IF Depth = 1 THEN cs ELSE ScheduleRescheduleIn(cs, Depth - 1, h, state[h])
      BY <1>3 DEF ExitReschedule
    <2>2. /\ Edited(contexts, cs, Depth, Top.pc, Top.runner, {h}, Entries(Top) \cup {h}, Top.waiting \ {h})
          /\ Depth > 1 => Depth - 1 \in 1..Len(cs)
          /\ cs \in Seq(Contexts)
      BY <1>1, PopForms
    <2>3. state[h] \in Queues /\ state[h] # "waiting"
      BY <1>3 DEF Scheduled, Queues
    <2> DEFINE o == Depth - 1
    <2>4. Depth # 1 => Edited(cs, contexts', o, cs[o].pc, cs[o].runner, {}, Entries(cs[o]) \cup {h}, cs[o].waiting)
      <3> SUFFICES ASSUME Depth # 1
                   PROVE  Edited(cs, contexts', o, cs[o].pc, cs[o].runner, {}, Entries(cs[o]) \cup {h}, cs[o].waiting)
        OBVIOUS
      <3>1. contexts' = ScheduleRescheduleIn(cs, o, h, state[h]) /\ o \in 1..Len(cs)
        BY <2>1, <2>2, <1>1
      <3> QED
        BY <2>2, <2>3, <3>1, RescheduleEffect, Zenon
    <2>5. Passes(h, cs)
      BY <1>1, <1>3, <2>1, <2>2, <2>3, <2>4 DEF Passes
    <2> QED
      BY <2>5, PassesStep
  <1> QED
    BY <1>2, <1>3

\* The queues of a context that is left.
LEMMA StepExitQueues ==
  ASSUME NEW age \in [Static -> Nat], Inv(age), exitRunnable \/ exitFast \/ exitQueues
  PROVE  IInv'
  <1>1. /\ Exiting /\ contexts \in Seq(Contexts) /\ Depth \in 1..Len(contexts)
        /\ UNCHANGED <<state, kids, unfinished, parents, chains, batch, unwinding, interrupts>>
    BY Basics DEF exitRunnable, exitFast, exitQueues, Exiting
  <1>2. CASE exitRunnable
    <2>1. contexts[Depth].runnable # <<>>
      BY <1>2 DEF exitRunnable, Top
    <2>2. /\ Last(Top.runnable) \in AsyncFunctions
          /\ Edited(contexts, [contexts EXCEPT ![Depth].runnable = Front(@)], Depth, Top.pc, Top.runner,
                    {Last(Top.runnable)}, Entries(Top), Top.waiting)
      BY <1>1, <2>1, PopRunnable, Zenon DEF Top
    <2>3. ExitFunction(Last(Top.runnable), [contexts EXCEPT ![Depth].runnable = Front(@)])
      BY <1>2, Zenon DEF exitRunnable
    <2> QED
      BY <1>1, <2>2, <2>3, FunctionLeaves, Zenon
  <1>3. CASE exitFast
    <2>1. contexts[Depth].fast # <<>>
      BY <1>3 DEF exitFast, Top
    <2>2. /\ Last(Top.fast) \in AsyncFunctions
          /\ Edited(contexts, [contexts EXCEPT ![Depth].fast = Front(@)], Depth, Top.pc, Top.runner,
                    {Last(Top.fast)}, Entries(Top), Top.waiting)
      BY <1>1, <2>1, PopFast, Zenon DEF Top
    <2>3. ExitFunction(Last(Top.fast), [contexts EXCEPT ![Depth].fast = Front(@)])
      BY <1>3, Zenon DEF exitFast
    <2> QED
      BY <1>1, <2>2, <2>3, FunctionLeaves, Zenon
  <1>4. CASE exitQueues /\ contexts[Depth].default # <<>>
    <2>1. contexts[Depth].default # <<>>
      BY <1>4
    <2>2. /\ Head(Top.default) \in Reschedules
          /\ Edited(contexts, [contexts EXCEPT ![Depth].default = Tail(@)], Depth, Top.pc, Top.runner,
                    {Head(Top.default)}, Entries(Top), Top.waiting)
      BY <1>1, <2>1, PopDefault, Zenon DEF Top
    <2>3. ExitReschedule(Head(Top.default), [contexts EXCEPT ![Depth].default = Tail(@)])
      BY <1>4, Zenon DEF exitQueues, Top
    <2> QED
      BY <1>1, <2>2, <2>3, RescheduleLeaves, Zenon
  <1>5. CASE exitQueues /\ contexts[Depth].default = <<>>
    <2>1. contexts[Depth].noPendingIO # <<>>
      BY <1>5, Zenon DEF exitQueues, Top
    <2>2. /\ Head(Top.noPendingIO) \in Reschedules
          /\ Edited(contexts, [contexts EXCEPT ![Depth].noPendingIO = Tail(@)], Depth, Top.pc, Top.runner,
                    {Head(Top.noPendingIO)}, Entries(Top), Top.waiting)
      BY <1>1, <2>1, PopNoPendingIO, Zenon DEF Top
    <2>3. ExitReschedule(Head(Top.noPendingIO), [contexts EXCEPT ![Depth].noPendingIO = Tail(@)])
      BY <1>5, Zenon DEF exitQueues, Top
    <2> QED
      BY <1>1, <2>2, <2>3, RescheduleLeaves, Zenon
  <1> QED
    BY <1>2, <1>3, <1>4, <1>5

\* Its sleeps and events.
LEMMA StepExitLeaves ==
  ASSUME NEW age \in [Static -> Nat], Inv(age), exitLeaves
  PROVE  IInv'
  <1> DEFINE Taken(h) == [contexts EXCEPT ![Depth].waiting = @ \ {h}]
  <1>1. PICK h \in Top.waiting :
          /\ Leave(h)
          /\ contexts' = IF Depth = 1 THEN Taken(h) ELSE registerTo(Taken(h), Depth - 1, h)
    BY Zenon DEF exitLeaves
  <1>2. /\ Exiting /\ contexts \in Seq(Contexts) /\ Depth \in 1..Len(contexts) /\ Top \in Contexts
        /\ Depth \in Nat /\ Depth = Len(contexts)
        /\ UNCHANGED <<state, kids, unfinished, parents, chains, batch, unwinding, interrupts>>
    BY Basics DEF exitLeaves, Exiting, Depth
  <1>3. h \in Leaves
    BY <1>1, <1>2 DEF Contexts
  <1>4. h \in Handles /\ h \notin Entries(Top)
    <2>1. /\ Top.runnable \in Seq(AsyncFunctions) /\ Top.fast \in Seq(AsyncFunctions)
          /\ Top.default \in Seq(Reschedules) /\ Top.noPendingIO \in Seq(Reschedules)
      BY <1>2 DEF Contexts
    <2>2. /\ ToSet(Top.runnable) \subseteq AsyncFunctions /\ ToSet(Top.fast) \subseteq AsyncFunctions
          /\ ToSet(Top.default) \subseteq Reschedules /\ ToSet(Top.noPendingIO) \subseteq Reschedules
      BY <2>1, EmptyEffect
    <2>3. h \notin AsyncFunctions /\ h \notin Reschedules
      BY <1>3, AsioAssumption
    <2> QED
      BY <2>2, <2>3, <1>3, Basics DEF Entries
  <1>5. state[h] = "waiting" /\ ctx[h] = Depth
    BY <1>1, <1>2, <1>4 DEF Inv, Scheduling, Queued, Placed, Top
  <1> DEFINE cs == Taken(h)
             o == Depth - 1
  <1>6. Edited(contexts, cs, Depth, Top.pc, Top.runner, {}, Entries(Top), Top.waiting \ {h})
    BY <1>2, UnregisterEffect, Zenon DEF Top
  <1>7. contexts' = IF Depth = 1 THEN cs ELSE registerTo(cs, o, h)
    BY <1>1, Zenon
  <1> HIDE DEF cs
  <1>8. /\ Edited(contexts, cs, Depth, Top.pc, Top.runner, {h}, Entries(Top) \cup {h}, Top.waiting \ {h})
        /\ cs \in Seq(Contexts) /\ Len(cs) = Len(contexts)
    BY <1>6 DEF Edited
  <1>9. Depth # 1 => Edited(cs, contexts', o, cs[o].pc, cs[o].runner, {}, Entries(cs[o]), cs[o].waiting \cup {h})
    <2> SUFFICES ASSUME Depth # 1
                 PROVE  Edited(cs, contexts', o, cs[o].pc, cs[o].runner, {}, Entries(cs[o]), cs[o].waiting \cup {h})
      OBVIOUS
    <2>1. contexts' = registerTo(cs, o, h) /\ o \in 1..Len(cs)
      BY <1>2, <1>7, <1>8
    <2> QED
      BY <1>3, <1>8, <2>1, RegisterEffect, Zenon
  <1>10. Passes(h, cs)
    BY <1>1, <1>2, <1>4, <1>5, <1>7, <1>8, <1>9 DEF Passes
  <1> QED
    BY <1>10, PassesStep

-----------------------------------------------------------------------------
\* A context without entries.

\* Who is blocked in a context waits, in the end, for something that one of its
\* queues lists: when they are empty nobody is left in it.
LEMMA NobodyLeft ==
  ASSUME NEW age \in [Static -> Nat], Inv(age), Quiet, Depth > 0, Top.pc \in {"loop", "exit"},
         Entries(Top) = {}, Top.waiting = {}
  PROVE  \A h \in Handles : LiveIn(state, h) => ctx[h] # Depth
  <1> DEFINE S == {h \in Handles : LiveIn(state, h) /\ ctx[h] = Depth}
  <1>1. /\ Graph(age) /\ chains = <<>> /\ Resumed = None /\ Depth = Len(contexts) /\ Depth \in 1..Depth
        /\ Depth \in Nat /\ ctx \in [Handles -> Nat] /\ Control(state, ctx, contexts, Depth)
        /\ Joins(state, ctx, contexts) /\ Queued(state, ctx, contexts)
        /\ AsyncFunctions \subseteq Handles /\ None \notin Handles
        /\ Nested
    BY Basics DEF Inv, Scheduling, Quiet, Resumed, Depth
  <1>2. \A h : Live(h) <=> LiveIn(state, h)
    BY DEF Live, Finished, LiveIn, Ends
  <1>3. Top.runner = None
    BY <1>1 DEF Control, Top
  <1>4. ASSUME NEW h \in S
        PROVE  state[h] = "blocked"
    <2>1. LiveIn(state, h) /\ ctx[h] = Depth /\ h \in Handles /\ Placed(state, ctx, contexts, h)
      BY <1>1 DEF Queued
    <2>2. state[h] \notin {"ready", "waiting"} \cup Queues
      BY <2>1, <1>1 DEF Placed, Top
    <2>3. state[h] # "running"
      <3> SUFFICES ASSUME state[h] = "running" PROVE FALSE
        OBVIOUS
      <3>1. h \in AsyncFunctions
        BY <2>1, <1>1 DEF Graph, Kinds, Handles, Ends, Queues
      <3>2. contexts[Depth].runner = h
        BY <3>1, <2>1, <1>1 DEF Joins
      <3> QED
        BY <3>2, <2>1, <1>1, <1>3 DEF Top
    <2>4. state[h] \in States
      BY <2>1, <1>1 DEF Graph, GraphTyped
    <2> QED
      BY <2>1, <2>2, <2>3, <2>4 DEF States, LiveIn
  <1>5. ASSUME NEW h \in S
        PROVE  Child[h] \in S
    <2>1. h \in Handles /\ state[h] = "blocked" /\ ctx[h] = Depth
      BY <1>4
    <2> DEFINE k == kids[h][Current(h)]
    <2>2. Current(h) \in DOMAIN kids[h] /\ k \in Handles /\ Child[h] = k
      BY <2>1, <1>1, GraphFacts
    <2>3. ~Finished(k)
      <3>1. PendingNodes(chains) = {}
        BY <1>1, NothingPending
      <3>2. h # Resumed
        BY <2>1, <1>1
      <3> QED
        BY <3>1, <3>2, <2>1, <1>1 DEF Graph, FinishedPending
    <2>4. state[k] # "none"
      BY <2>1, <2>2, <1>1 DEF Graph, Created
    <2>5. LiveIn(state, k) /\ Live(k)
      BY <2>3, <2>4, <1>2 DEF Live
    <2>6. ctx[h] <= ctx[k]
      BY <2>1, <2>2, <2>5, <1>1 DEF Nested, Leaving, Nest
    <2>7. ctx[k] \in 0..Depth
      BY <2>2, <2>5, LiveInside
    <2> HIDE DEF k
    <2> QED
      BY <2>1, <2>2, <2>5, <2>6, <2>7, <1>1
  <1>6. S \in SUBSET Handles
    OBVIOUS
  <1>7. S = {}
    <2> HIDE DEF S
    <2> QED
      BY <1>1, <1>5, <1>6 DEF Graph, Acyclic
  <1> QED
    BY <1>7

\* The stack without it.
LEMMA PopStep ==
  ASSUME NEW age \in [Static -> Nat], Inv(age), Emptied
  PROVE  /\ Depth \in Nat /\ Depth > 0 /\ Depth = Len(contexts)
         /\ Front(contexts) \in Seq(Contexts) /\ Len(Front(contexts)) = Depth - 1
         /\ \A c \in 1..(Depth - 1) : Front(contexts)[c] = contexts[c] /\ contexts[c].pc = "running"
         /\ Scheduling(state, ctx, Front(contexts)) /\ Nest(state, ctx, kids)
         /\ Graph(age) /\ chains = <<>> /\ batch = {} /\ Resumed = None
  <1> DEFINE cs == Front(contexts)
  <1>1. /\ contexts \in Seq(Contexts) /\ Depth = Len(contexts) /\ Depth \in Nat /\ Depth > 0
        /\ ctx \in [Handles -> Nat] /\ Exiting /\ chains = <<>> /\ batch = {} /\ Resumed = None
        /\ ContextsTyped(ctx, contexts) /\ Joins(state, ctx, contexts) /\ Queued(state, ctx, contexts)
        /\ Aimed(state, ctx, contexts) /\ Graph(age) /\ Leaving
        /\ kids \in [Handles -> Seq(Handles)] /\ MaxContextDepth \in Nat
        /\ Depth <= MaxContextDepth /\ AsyncFunctions \subseteq Handles
    <2>1. Exiting
      BY DEF Emptied
    <2> QED
      BY <2>1, Basics DEF Inv, Scheduling, Nested, Exiting, Quiet, Resumed, Depth
  <1>2. \A h \in Handles : LiveIn(state, h) => ctx[h] # Depth
    <2>1. Entries(Top) = {} /\ Top.waiting = {}
      <3>1. ToSet(<<>>) = {}
        BY DEF ToSet
      <3> QED
        BY <3>1 DEF Emptied, Entries
    <2> QED
      BY <2>1, <1>1, NobodyLeft DEF Exiting
  <1>3. /\ cs \in Seq(Contexts) /\ Len(cs) = Depth - 1
        /\ \A c \in 1..(Depth - 1) : cs[c] = contexts[c]
    <2>1. contexts # <<>>
      BY <1>1
    <2>2. /\ Front(contexts) \in Seq(Contexts) /\ Len(Front(contexts)) = Len(contexts) - 1
          /\ \A c \in 1..Len(contexts) - 1 : Front(contexts)[c] = contexts[c]
      BY <2>1, <1>1, FrontEffect, Zenon
    <2> QED
      BY <2>2, <1>1, Zenon
  <1>4. \A c \in 1..(Depth - 1) : c \in 1..Depth /\ c < Depth /\ contexts[c].pc = "running"
    <2>1. ASSUME NEW c \in 1..(Depth - 1)
          PROVE  c \in 1..Depth /\ c < Depth
      BY <1>1
    <2> QED
      BY <2>1, <1>1 DEF Joins, Control
  <1> HIDE DEF cs
  <1>5. \A h \in Handles : LiveIn(state, h) => ctx[h] <= Depth - 1
    BY <1>1, <1>2 DEF Queued, Placed
  <1>6. Joins(state, ctx, cs)
    <2>1. ASSUME NEW c \in 1..(Depth - 1) PROVE Control(state, ctx, cs, c)
      BY <1>1, <1>3, <1>4 DEF Joins, Control
    <2>2. ASSUME NEW f \in AsyncFunctions, state[f] = "running"
          PROVE  ctx[f] \in 1..(Depth - 1) /\ cs[ctx[f]].runner = f
      <3>1. ctx[f] \in 1..Depth /\ contexts[ctx[f]].runner = f /\ LiveIn(state, f)
        BY <2>2, <1>1 DEF Joins, LiveIn, Ends
      <3>2. ctx[f] \in 1..(Depth - 1)
        BY <3>1, <1>1, <1>5
      <3> QED
        BY <3>1, <3>2, <1>3
    <2> QED
      BY <2>1, <2>2, <1>3 DEF Joins
  <1>7. Queued(state, ctx, cs)
    <2> SUFFICES ASSUME NEW x \in Handles
                 PROVE  Placed(state, ctx, cs, x)
      BY DEF Queued
    <2>1. Placed(state, ctx, contexts, x)
      BY <1>1 DEF Queued
    <2> QED
      BY <2>1, <1>1, <1>3, <1>4, <1>5 DEF Placed
  <1>8. Aimed(state, ctx, cs)
    BY <1>1, <1>3, <1>4 DEF Aimed
  <1>9. ContextsTyped(ctx, cs)
    BY <1>1, <1>3 DEF ContextsTyped
  <1>10. Nest(state, ctx, kids)
    <2> SUFFICES ASSUME NEW p \in Handles, state[p] = "blocked", NEW i \in DOMAIN kids[p],
                        LiveIn(state, kids[p][i])
                 PROVE  ctx[p] <= ctx[kids[p][i]]
      BY DEF Nest
    <2>1. ctx[p] # Depth
      BY <1>2 DEF LiveIn, Ends
    <2> QED
      BY <2>1, <1>1 DEF Leaving
  <1> QED
    BY <1>1, <1>3, <1>4, <1>6, <1>7, <1>8, <1>9, <1>10 DEF Scheduling, cs

\* The context is popped and join() returns ...
LEMMA StepJoinReturns ==
  ASSUME NEW age \in [Static -> Nat], Inv(age),
         \/ joinReturns
         \/ joinThrows /\ Depth = 1
  PROVE  IInv'
  <1>1. Emptied
    BY DEF joinReturns, joinThrows
  <1>2. /\ Depth \in Nat /\ Depth > 0 /\ Depth = Len(contexts)
        /\ Front(contexts) \in Seq(Contexts) /\ Len(Front(contexts)) = Depth - 1
        /\ \A c \in 1..(Depth - 1) : Front(contexts)[c] = contexts[c] /\ contexts[c].pc = "running"
        /\ Scheduling(state, ctx, Front(contexts)) /\ Nest(state, ctx, kids)
        /\ Graph(age) /\ chains = <<>> /\ batch = {} /\ Resumed = None
    BY <1>1, PopStep
  <1>3. /\ contexts' = Front(contexts) /\ UNCHANGED <<state, ctx, kids, unfinished, parents, chains, batch, interrupts>>
        /\ unwinding' \in {unwinding, FALSE}
    <2>1. CASE joinReturns
      BY <2>1 DEF joinReturns
    <2>2. CASE joinThrows /\ Depth = 1
      <3>1. contexts' = <<>> /\ unwinding' = FALSE
        BY <2>2 DEF joinThrows
      <3>2. Front(contexts) = <<>>
        <4> DEFINE s == Front(contexts)
        <4>1. s \in Seq(Contexts) /\ Len(s) = 0
          BY <1>2, <2>2
        <4> HIDE DEF s
        <4>2. s = <<>>
          BY <4>1
        <4> QED
          BY <4>2 DEF s
      <3> QED
        BY <3>1, <3>2, <2>2 DEF joinThrows
    <2> QED
      BY <2>1, <2>2
  <1>4. Resumed' = None
    <2>1. Depth' = Depth - 1 /\ (Depth' > 0 => Top'.pc = "running")
      BY <1>2, <1>3 DEF Depth, Top
    <2> QED
      BY <2>1 DEF Resumed
  <1>5. Graph(age)'
    BY <1>2, <1>3, <1>4, GraphSame
  <1>6. Batched' /\ Counted'
    BY <1>2, <1>3 DEF Batched, Counted, Inv
  <1>7. Scheduling(state', ctx', contexts') /\ Nest(state', ctx', kids')
    BY <1>2, <1>3
  <1> QED
    BY <1>5, <1>6, <1>7, Conclude

\* ... or the exception goes on.
LEMMA StepJoinThrows ==
  ASSUME NEW age \in [Static -> Nat], Inv(age), joinThrows, Depth # 1
  PROVE  IInv'
  <1> DEFINE m == Front(contexts)
             o == Depth - 1
             r == contexts[o].runner
  <1>1. Emptied /\ UNCHANGED <<kids, unfinished, batch, unwinding, interrupts>>
        /\ Finish(r, "failed", <<>>)
        /\ contexts' = [m EXCEPT ![o].pc = "exit", ![o].runner = None]
    BY Zenon DEF joinThrows
  <1>2. /\ Depth \in Nat /\ Depth > 0 /\ Depth = Len(contexts)
        /\ m \in Seq(Contexts) /\ Len(m) = o
        /\ \A c \in 1..o : m[c] = contexts[c] /\ contexts[c].pc = "running"
        /\ Scheduling(state, ctx, m) /\ Nest(state, ctx, kids)
        /\ Graph(age) /\ chains = <<>> /\ batch = {} /\ Resumed = None
    BY <1>1, PopStep
  <1>3. /\ state \in [Handles -> States] /\ ctx \in [Handles -> Nat] /\ kids \in [Handles -> Seq(Handles)]
        /\ AsyncFunctions \subseteq Handles /\ None \notin Handles
    BY Basics
  <1>4. o \in 1..Len(m) /\ o \in 1..o /\ o > 0
    BY <1>2
  <1>5. "exit" \in PCs /\ None \in AsyncFunctions \cup {None}
    BY DEF PCs
  <1> HIDE DEF m, o
  <1>6. Edited(m, contexts', o, "exit", None, {}, Entries(m[o]), m[o].waiting)
    <2>1. contexts' = [m EXCEPT ![o].pc = "exit", ![o].runner = None]
      BY <1>1
    <2>2. Edited(m, [m EXCEPT ![o].pc = "exit", ![o].runner = None], o, "exit", None, {}, Entries(m[o]), m[o].waiting)
      BY <1>2, <1>4, <1>5, ControlEffect, Zenon
    <2> QED
      BY <2>1, <2>2, Zenon
  <1>7. r = m[o].runner /\ Control(state, ctx, m, o) /\ m[o].pc = "running"
    BY <1>2, <1>4 DEF Scheduling, Joins
  <1> HIDE DEF r
  <1>8. r \in AsyncFunctions /\ r \in Handles /\ state[r] = "running" /\ ctx[r] = o /\ r \notin Leaves /\ r \notin AwaitAlls
    BY <1>3, <1>7, AsioAssumption DEF Control
  <1>9. state' = [state EXCEPT ![r] = "failed"] /\ ctx' = [ctx EXCEPT ![r] = 0]
    BY <1>1, Zenon DEF Finish
  <1>10. /\ contexts' \in Seq(Contexts) /\ Len(contexts') = o
         /\ contexts'[o].pc = "exit" /\ contexts'[o].runner = None
         /\ \A c \in 1..o : contexts'[c] \in Contexts
    BY <1>2, <1>6 DEF Edited
  <1>11. Touches(r, m, contexts')
    <2> DEFINE S == {}
    <2>1. S \subseteq {r} /\ m[o].runner \in {None, r} /\ m[o].pc # "exit"
      BY <1>7
    <2>2. Edited(m, contexts', o, "exit", None, S, Entries(m[o]), m[o].waiting)
      BY <1>6
    <2> HIDE DEF S
    <2> QED
      BY <2>1, <2>2, <1>2, <1>4, EditTouches
  <1>12. \A c \in 1..o : r \notin contexts'[c].waiting
    BY <1>8, <1>10 DEF Contexts
  <1>13. Control(state', ctx', contexts', o)
    BY <1>10 DEF Control
  <1>14. Quits(r, state, ctx, m, state', ctx', contexts')
    BY <1>2, <1>8, <1>11, <1>12, <1>13 DEF Quits
  <1>15. "failed" \in Ends
    BY DEF Ends
  <1>16. Scheduling(state', ctx', contexts')
    BY <1>2, <1>3, <1>8, <1>9, <1>14, <1>15, FinishContexts
  <1>17. Nest(state', ctx', kids')
    <2>1. kids' = kids
      BY <1>1
    <2> QED
      BY <2>1, <1>2, <1>3, <1>8, <1>9, <1>15, FinishNest
  <1>18. Resumed' = None
    BY <1>10 DEF Resumed, Depth, Top
  <1>19. Graph(age)'
    <2>1. Live(r) /\ state[r] # "blocked" /\ Finish(r, "failed", <<>>) /\ UNCHANGED <<kids, unfinished>>
      BY <1>1, <1>8 DEF Live, Finished
    <2> QED
      BY <2>1, <1>2, <1>8, <1>15, <1>18, FinishQuiet
  <1>20. Batched' /\ Counted'
    BY <1>1, <1>2 DEF Batched, Counted, Inv
  <1> QED
    BY <1>16, <1>17, <1>19, <1>20, Conclude

-----------------------------------------------------------------------------
\* The invariant holds in every state.

\* At first there is no handle and no context.
LEMMA InitInv ==
  ASSUME Init
  PROVE  IInv
  <1> DEFINE age == [h \in Static |-> 0]
  <1>1. /\ state = [h \in Handles |-> "none"] /\ ctx = [h \in Handles |-> 0]
        /\ kids = [h \in Handles |-> <<>>] /\ unfinished = [a \in AwaitAlls |-> 0]
        /\ parents = [h \in Handles |-> <<>>] /\ contexts = <<>> /\ chains = <<>> /\ batch = {}
        /\ unwinding = FALSE /\ interrupts = 0
    BY DEF Init
  <1>2. /\ AsyncFunctions \subseteq Handles /\ AwaitAlls \subseteq Handles /\ Conditions \subseteq Handles
        /\ Reschedules \subseteq Handles /\ Leaves \subseteq Handles /\ None \notin Handles
        /\ MaxContextDepth \in Nat /\ MaxChildren \in Nat /\ MaxInterrupts \in Nat
    BY AsioAssumption DEF Handles
  <1>3. /\ Len(contexts) = 0 /\ contexts \in Seq(Contexts) /\ ToSet(<<>>) = {} /\ DOMAIN <<>> = {} /\ Len(<<>>) = 0
        /\ Depth = 0
    BY <1>1 DEF ToSet, Depth
  <1>4. GraphTyped
    <2>1. <<>> \in Seq(Nodes) /\ <<>> \in Seq(Seq(Nodes)) /\ <<>> \in Seq(Handles)
      OBVIOUS
    <2> QED
      BY <1>1, <2>1 DEF GraphTyped, States
  <1>5. Kinds
    BY <1>1, <1>2, <1>3 DEF Kinds
  <1>6. Created
    BY <1>1, <1>3 DEF Created
  <1>7. NodesAwait /\ AwaitedHaveNodes
    BY <1>1, <1>3 DEF NodesAwait, AwaitedHaveNodes
  <1>8. PendingNodes(chains) = {} /\ WellOrdered(age, chains) /\ Resumed = None
    BY <1>1, <1>3, NothingPending DEF Resumed
  <1>9. PendingAwait /\ FinishedPending /\ ResumedIsBlocked
    BY <1>1, <1>8 DEF PendingAwait, FinishedPending, ResumedIsBlocked
  <1>10. InOrder(age)
    BY <1>1, <1>2, <1>3, <1>8 DEF InOrder, Ordered, Static
  <1>11. Acyclic(Child)
    <2>1. \A h \in Handles : Child[h] = None
      BY <1>1 DEF Child, getChild
    <2> QED
      BY <2>1, <1>2 DEF Acyclic
  <1>12. Graph(age)
    BY <1>4, <1>5, <1>6, <1>7, <1>9, <1>10, <1>11 DEF Graph
  <1>13. Scheduling(state, ctx, contexts)
    <2>1. ContextsTyped(ctx, contexts)
      BY <1>1, <1>2, <1>3 DEF ContextsTyped
    <2>2. Joins(state, ctx, contexts)
      BY <1>1, <1>2, <1>3 DEF Joins
    <2>3. Queued(state, ctx, contexts)
      BY <1>1, <1>3 DEF Queued, Placed, LiveIn
    <2>4. Aimed(state, ctx, contexts)
      BY <1>3 DEF Aimed
    <2> QED
      BY <2>1, <2>2, <2>3, <2>4 DEF Scheduling
  <1>14. Nested
    <2>1. ~Exiting
      BY <1>3 DEF Exiting
    <2>2. Nest(state, ctx, kids)
      BY <1>1 DEF Nest
    <2> QED
      BY <2>1, <2>2 DEF Nested
  <1>15. Batched /\ Counted
    <2>1. Batched
      BY <1>1 DEF Batched
    <2>2. interrupts \in 0..MaxInterrupts
      BY <1>1, <1>2
    <2>3. unwinding \in BOOLEAN
      BY <1>1, Zenon
    <2> QED
      BY <2>1, <2>2, <2>3 DEF Counted
  <1>16. age \in [Static -> Nat]
    OBVIOUS
  <1> HIDE DEF age
  <1> QED
    BY <1>12, <1>13, <1>14, <1>15, <1>16 DEF IInv, Inv

\* Every step keeps it.
LEMMA NextInv ==
  ASSUME IInv, [Next]_vars
  PROVE  IInv'
  <1>1. PICK age \in [Static -> Nat] : Inv(age)
    BY DEF IInv
  <1>2. CASE Unblock
    BY <1>1, <1>2, UnblockFunction, UnblockStatic DEF Unblock
  <1>3. CASE process \/ processThrows \/ cancel
    BY <1>1, <1>3, StepLeaf
  <1>4. CASE retOrFail \/ interruptRunning
    BY <1>1, <1>4, StepReturn
  <1>5. CASE resumeParent
    BY <1>1, <1>5, StepResumeParent
  <1>6. CASE backToScheduler \/ targetFinished \/ interruptWait \/ processLeaves
    BY <1>1, <1>6, StepLoop
  <1>7. CASE runRunnable \/ runFast
    BY <1>1, <1>7, StepRun
  <1>8. CASE runDefault \/ runNoPendingIO
    BY <1>1, <1>8, StepReschedule
  <1>9. CASE exitRunnable \/ exitFast \/ exitQueues
    BY <1>1, <1>9, StepExitQueues
  <1>10. CASE exitLeaves
    BY <1>1, <1>10, StepExitLeaves
  <1>11. CASE joinReturns \/ joinThrows
    BY <1>1, <1>11, StepJoinReturns, StepJoinThrows
  <1>12. CASE Create
    BY <1>1, <1>12, StepCreateLeaf, StepCreateReschedule, StepCreateBlocked, StepCreateAwaitAll DEF Create
  <1>13. CASE notifyCondition
    BY <1>1, <1>13, StepNotify
  <1>14. CASE join
    BY <1>1, <1>14, StepJoin
  <1>15. CASE await
    BY <1>1, <1>15, StepAwait
  <1>16. CASE retToAsyncFunc
    BY <1>1, <1>16, StepReturnTo
  <1>17. CASE switchToFast
    BY <1>1, <1>17, StepSwitch
  <1>18. CASE UNCHANGED vars
    <2>1. UNCHANGED <<state, ctx, kids, unfinished, parents, contexts, chains, batch, unwinding, interrupts>>
      BY <1>18 DEF vars
    <2>2. Resumed' = Resumed /\ Exiting' = Exiting /\ Depth' = Depth
      BY <2>1 DEF Resumed, Exiting, Quiet, Depth, Top
    <2>3. Graph(age)'
      BY <1>1, <2>1, <2>2, GraphSame DEF Inv
    <2>4. Nested'
      BY <1>1, <2>1, <2>2 DEF Inv, Nested, Nest, Leaving, Current
    <2>5. Batched' /\ Counted' /\ Scheduling(state', ctx', contexts')
      BY <1>1, <2>1 DEF Inv, Batched, Counted, Depth, Top
    <2> QED
      BY <2>3, <2>4, <2>5 DEF IInv, Inv
  <1> QED
    BY <1>2, <1>3, <1>4, <1>5, <1>6, <1>7, <1>8, <1>9, <1>10, <1>11, <1>12, <1>13, <1>14, <1>15,
       <1>16, <1>17, <1>18 DEF Next, Proceed

\* The graph of wait handles and the contexts are in order in every state.
THEOREM Invariant == Spec => []IInv
  <1>1. Init => IInv
    BY InitInv
  <1>2. IInv /\ [Next]_vars => IInv'
    BY NextInv
  <1> QED
    BY <1>1, <1>2, PTL DEF Spec

-----------------------------------------------------------------------------
\* What follows from it.

\* Every variable has its type: no context beyond MAX_CONTEXT_DEPTH, and no
\* queue that holds a handle of another kind.
THEOREM TypeCorrect == Spec => []TypeOK
  <1>1. ASSUME IInv PROVE TypeOK
    <2>1. PICK age \in [Static -> Nat] : Inv(age)
      BY <1>1 DEF IInv
    <2>2. /\ state \in [Handles -> States] /\ ctx \in [Handles -> 0..MaxContextDepth]
          /\ kids \in [Handles -> Seq(Handles)] /\ parents \in [Handles -> Seq(Nodes)]
          /\ unfinished \in [AwaitAlls -> Nat] /\ contexts \in Seq(Contexts)
          /\ Depth \in 0..MaxContextDepth /\ \A c \in 1..Depth : contexts[c] \in Contexts
          /\ AwaitAlls \subseteq Handles
      <3>1. /\ state \in [Handles -> States] /\ kids \in [Handles -> Seq(Handles)]
            /\ parents \in [Handles -> Seq(Nodes)] /\ unfinished \in [AwaitAlls -> Nat]
        BY <2>1 DEF Inv, Graph, GraphTyped
      <3>2. ContextsTyped(ctx, contexts) /\ Depth = Len(contexts) /\ MaxContextDepth \in Nat
        BY <2>1, AsioAssumption DEF Inv, Scheduling, Depth
      <3>3. /\ ctx \in [Handles -> 0..MaxContextDepth] /\ contexts \in Seq(Contexts)
            /\ Depth <= MaxContextDepth
        BY <3>2 DEF ContextsTyped
      <3>4. Depth \in 0..MaxContextDepth /\ \A c \in 1..Depth : contexts[c] \in Contexts
        BY <3>2, <3>3
      <3>5. AwaitAlls \subseteq Handles
        BY DEF Handles
      <3> QED
        BY <3>1, <3>3, <3>4, <3>5
    <2>3. state \in [Handles -> {"none", "blocked", "ready", "running", "waiting",
                                 "succeeded", "failed"} \cup Queues]
      BY <2>2 DEF States, Ends
    <2>4. \A h \in Handles : ToSet(kids[h]) \subseteq Handles
      BY <2>2, EmptyEffect
    <2>5. \A a \in AwaitAlls : unfinished[a] \in 0..Len(kids[a])
      <3>1. ASSUME NEW a \in AwaitAlls
            PROVE  unfinished[a] <= Len(kids[a]) /\ unfinished[a] \in Nat /\ Len(kids[a]) \in Nat
        BY <2>1, <2>2 DEF Inv, Graph, Kinds
      <3> QED
        BY <3>1
    <2>6. \A h \in Handles : \A node \in ToSet(parents[h]) :
            node[1] \in Handles /\ node[2] \in 1..MaxChildren
      <3>1. \A h \in Handles : ToSet(parents[h]) \subseteq Nodes
        BY <2>2, EmptyEffect
      <3> QED
        BY <3>1 DEF Nodes
    <2>7. ASSUME NEW c \in 1..Depth
          PROVE  /\ contexts[c].pc \in {"loop", "running", "resume", "tail", "exit"}
                 /\ contexts[c].waiting \subseteq Leaves
                 /\ ToSet(contexts[c].runnable \o contexts[c].fast) \subseteq AsyncFunctions
                 /\ ToSet(contexts[c].default \o contexts[c].noPendingIO) \subseteq Reschedules
      <3> DEFINE q == contexts[c]
      <3>1. q \in Contexts
        BY <2>2
      <3> HIDE DEF q
      <3>2. /\ q.pc \in PCs /\ q.waiting \subseteq Leaves
            /\ q.runnable \in Seq(AsyncFunctions) /\ q.fast \in Seq(AsyncFunctions)
            /\ q.default \in Seq(Reschedules) /\ q.noPendingIO \in Seq(Reschedules)
        BY <3>1 DEF Contexts
      <3>3. q.runnable \o q.fast \in Seq(AsyncFunctions) /\ q.default \o q.noPendingIO \in Seq(Reschedules)
        BY <3>2, ConcatEffect
      <3>4. /\ ToSet(q.runnable \o q.fast) \subseteq AsyncFunctions
            /\ ToSet(q.default \o q.noPendingIO) \subseteq Reschedules
        <4> DEFINE s == q.runnable \o q.fast
                   t == q.default \o q.noPendingIO
        <4>1. s \in Seq(AsyncFunctions) /\ t \in Seq(Reschedules)
          BY <3>3
        <4> HIDE DEF s, t
        <4>2. ToSet(s) \subseteq AsyncFunctions /\ ToSet(t) \subseteq Reschedules
          BY <4>1, EmptyEffect
        <4> QED
          BY <4>2 DEF s, t
      <3> QED
        BY <3>2, <3>4 DEF PCs, q
    <2>8. batch \subseteq Leaves /\ unwinding \in BOOLEAN /\ interrupts \in 0..MaxInterrupts
      BY <2>1 DEF Inv, Batched, Counted
    <2> QED
      BY <2>2, <2>3, <2>4, <2>5, <2>6, <2>7, <2>8 DEF TypeOK
  <1> QED
    BY <1>1, Invariant, PTL

\* A function runs in the context it is in, in one context at a time, and only
\* when what it awaited has finished.
THEOREM RunsWhereItIs == Spec => []RunsInItsContext
  <1>1. ASSUME IInv PROVE RunsInItsContext
    <2>1. PICK age \in [Static -> Nat] : Inv(age)
      BY <1>1 DEF IInv
    <2>2. Joins(state, ctx, contexts) /\ Kinds /\ Depth = Len(contexts) /\ Depth \in Nat
      BY <2>1, Basics DEF Inv, Scheduling, Graph, Depth
    <2>3. ASSUME NEW f \in AsyncFunctions
          PROVE  /\ state[f] = "running" => ctx[f] \in 1..Depth /\ contexts[ctx[f]].runner = f
                 /\ state[f] \in {"ready", "running"} => Finished(kids[f][1])
      BY <2>2 DEF Joins, Kinds
    <2>4. ASSUME NEW c \in 1..Depth, contexts[c].runner # None
          PROVE  \/ state[contexts[c].runner] = "running" /\ ctx[contexts[c].runner] = c
                 \/ c = Depth /\ contexts[c].pc = "resume"
      <3>1. Control(state, ctx, contexts, c)
        BY <2>2 DEF Joins
      <3> QED
        BY <3>1, <2>2, <2>4 DEF Control
    <2> QED
      BY <2>3, <2>4 DEF RunsInItsContext
  <1> QED
    BY <1>1, Invariant, PTL

\* Whatever can go on is in a queue of the context it is in, and nothing is left
\* in a context that is gone.
THEOREM QueuesComplete == Spec => []QueuedWhereItIs
  <1>1. ASSUME IInv PROVE QueuedWhereItIs
    <2>1. PICK age \in [Static -> Nat] : Inv(age)
      BY <1>1 DEF IInv
    <2>2. /\ Queued(state, ctx, contexts) /\ Depth = Len(contexts)
          /\ \A c \in 1..Depth : contexts[c] \in Contexts
          /\ \A h : Live(h) <=> LiveIn(state, h)
      BY <2>1, Basics DEF Inv, Scheduling, Depth, Live, Finished, LiveIn, Ends
    <2> DEFINE Listed(q) == ToSet(q.runnable \o q.fast \o q.default \o q.noPendingIO)
    <2>3. ASSUME NEW c \in 1..Depth
          PROVE  Listed(contexts[c]) = Entries(contexts[c])
      <3> DEFINE q == contexts[c]
      <3>1. q \in Contexts
        BY <2>2
      <3> HIDE DEF q
      <3>2. /\ q.runnable \in Seq(AsyncFunctions) /\ q.fast \in Seq(AsyncFunctions)
            /\ q.default \in Seq(Reschedules) /\ q.noPendingIO \in Seq(Reschedules)
        BY <3>1 DEF Contexts
      <3>3. /\ q.runnable \in Seq(Handles) /\ q.fast \in Seq(Handles)
            /\ q.default \in Seq(Handles) /\ q.noPendingIO \in Seq(Handles)
        BY <3>2 DEF Handles
      <3> DEFINE s == q.runnable \o q.fast
                 t == s \o q.default
      <3>4. s \in Seq(Handles) /\ ToSet(s) = ToSet(q.runnable) \cup ToSet(q.fast)
        BY <3>3, ConcatEffect
      <3> HIDE DEF s
      <3>5. t \in Seq(Handles) /\ ToSet(t) = ToSet(s) \cup ToSet(q.default)
        BY <3>3, <3>4, ConcatEffect
      <3> HIDE DEF t
      <3>6. ToSet(t \o q.noPendingIO) = ToSet(t) \cup ToSet(q.noPendingIO)
        BY <3>3, <3>5, ConcatEffect
      <3>8. Listed(q) = ToSet(t \o q.noPendingIO)
        BY DEF s, t
      <3>7. Listed(q) = Entries(q)
        BY <3>4, <3>5, <3>6, <3>8 DEF Entries
      <3> QED
        BY <3>7 DEF q
    <2> HIDE DEF Listed
    <2>4. \A h \in Handles : Live(h) => ctx[h] <= Depth
      BY <2>2 DEF Queued, Placed
    <2>5. \A h \in Handles, c \in 1..Depth :
            /\ ((state[h] = "ready" \/ Scheduled(h)) /\ ctx[h] = c) => h \in Listed(contexts[c])
            /\ (h \in Listed(contexts[c]) /\ Live(h)) => ctx[h] >= c \/ contexts[c].pc = "exit"
            /\ h \in contexts[c].waiting <=> (state[h] = "waiting" /\ ctx[h] = c)
      BY <2>2, <2>3 DEF Queued, Placed, Scheduled
    <2> QED
      BY <2>4, <2>5 DEF QueuedWhereItIs, Listed
  <1> QED
    BY <1>1, Invariant, PTL

\* No wake-up is lost and none is given to a handle that does not wait for it.
THEOREM WakeUps == Spec => []WakeUpsExact
  <1>1. ASSUME IInv PROVE WakeUpsExact
    <2>1. PICK age \in [Static -> Nat] : Inv(age)
      BY <1>1 DEF IInv
    <2>2. Graph(age) /\ NodesAwait /\ AwaitedHaveNodes /\ Created /\ FinishedPending /\ InOrder(age)
          /\ GraphTyped
      BY <2>1 DEF Inv, Graph
    <2>3. UnblocksTheBlocked
      BY <2>2, NextNodeEffect DEF UnblocksTheBlocked, Awaits
    <2>4. ASSUME chains = <<>>, NEW p \in Handles, state[p] = "blocked", ~(Depth > 0 /\ Top.runner = p)
          PROVE  Live(getChild(p))
      <3>1. PendingNodes(chains) = {}
        BY <2>4, NothingPending
      <3>2. p # Resumed
        BY <2>4, AsioAssumption DEF Resumed
      <3>3. ~Finished(kids[p][Current(p)])
        BY <2>2, <2>4, <3>1, <3>2 DEF FinishedPending
      <3>4. Current(p) \in DOMAIN kids[p] /\ Child[p] = kids[p][Current(p)] /\ Child[p] = getChild(p)
        BY <2>2, <2>4, GraphFacts DEF Child
      <3> QED
        BY <2>2, <3>3, <3>4 DEF Created, Live
    <2>5. ASSUME NEW p \in Handles, NEW h \in Handles, NEW N, N = {node \in ToSet(parents[h]) : node[1] = p}
          PROVE  /\ Live(p) => N = {<<p, i>> : i \in {j \in DOMAIN kids[p] :
                                      state[p] = "blocked" /\ kids[p][j] = h /\ Live(h)}}
                 /\ N # {} => Live(p) \/ p \in Conditions
      <3>1. ASSUME NEW node \in N
            PROVE  /\ node = <<p, node[2]>> /\ node[2] \in DOMAIN kids[p] /\ kids[p][node[2]] = h
                   /\ state[p] = "blocked" \/ (p \in Conditions /\ Finished(p))
                   /\ Live(h)
        <4>1. node \in ToSet(parents[h]) /\ node[1] = p
          BY <2>5
        <4>2. node \in Nodes
          BY <4>1, <2>2, GraphFacts
        <4>3. Awaits(p, node[2]) /\ kids[p][node[2]] = h
          BY <4>1, <2>2 DEF NodesAwait
        <4>4. Live(h)
          <5>1. parents[h] # <<>>
            BY <4>1, EmptyEffect
          <5> QED
            BY <5>1, <2>2 DEF Created
        <4> QED
          BY <4>1, <4>2, <4>3, <4>4 DEF Awaits, Nodes
      <3>2. ASSUME NEW j \in DOMAIN kids[p], state[p] = "blocked", kids[p][j] = h, Live(h)
            PROVE  <<p, j>> \in N
        BY <3>2, <2>2, <2>5 DEF AwaitedHaveNodes
      <3>3. Live(p) => N = {<<p, i>> : i \in {j \in DOMAIN kids[p] :
                              state[p] = "blocked" /\ kids[p][j] = h /\ Live(h)}}
        <4> DEFINE E == {<<p, i>> : i \in {j \in DOMAIN kids[p] :
                           state[p] = "blocked" /\ kids[p][j] = h /\ Live(h)}}
        <4>1. ASSUME Live(p), NEW node \in N PROVE node \in E
          BY <4>1, <3>1 DEF Live
        <4>2. ASSUME NEW node \in E PROVE node \in N
          BY <3>2
        <4> HIDE DEF E
        <4>3. Live(p) => N = E
          BY <4>1, <4>2
        <4> QED
          BY <4>3 DEF E
      <3>4. N # {} => Live(p) \/ p \in Conditions
        BY <3>1 DEF Live, Finished
      <3> QED
        BY <3>3, <3>4
    <2>6. ASSUME NEW p \in Handles
          PROVE  IsInjective(parents[p])
      <3>1. Ordered(age, parents[p]) /\ parents[p] \in Seq(Nodes)
        BY <2>2 DEF InOrder, GraphTyped
      <3>2. \A m, n \in DOMAIN parents[p] : m < n => parents[p][m] # parents[p][n]
        BY <3>1 DEF Ordered, Older
      <3>3. \A m, n \in DOMAIN parents[p] : m < n \/ m = n \/ n < m
        BY <3>1
      <3> QED
        BY <3>2, <3>3 DEF IsInjective
    <2>7. \A p, h \in Handles :
            /\ Live(p) => {node \in ToSet(parents[h]) : node[1] = p} =
                  {<<p, i>> : i \in {j \in DOMAIN kids[p] :
                                       /\ state[p] = "blocked"
                                       /\ kids[p][j] = h
                                       /\ Live(h)}}
            /\ {node \in ToSet(parents[h]) : node[1] = p} # {} => Live(p) \/ p \in Conditions
      BY <2>5
    <2>8. ChainsMatchChildren
      BY <2>4, <2>6, <2>7, Zenon DEF ChainsMatchChildren
    <2> QED
      BY <2>3, <2>8 DEF WakeUpsExact
  <1> QED
    BY <1>1, Invariant, PTL

\* Handles never wait in a circle.
THEOREM CircleFree == Spec => []NoCycles
  <1>1. ASSUME IInv PROVE NoCycles
    <2>1. PICK age \in [Static -> Nat] : Inv(age)
      BY <1>1 DEF IInv
    <2>2. Graph(age) /\ Acyclic(Child)
      BY <2>1 DEF Inv, Graph
    <2>3. Child \in [Handles -> Handles \cup {None}]
      BY <2>2, GraphFacts
    <2>4. ASSUME NEW h \in Handles, getChild(h) # None
          PROVE  h \notin Descent(getChild(h))
      <3>1. Child[h] = getChild(h)
        BY DEF Child
      <3>2. h \notin Below(Child[h], Child)
        BY <2>2, <2>3, <2>4, <3>1, AcyclicMeansNoCycle
      <3> QED
        BY <3>1, <3>2, DescentIsBelow
    <2> QED
      BY <2>4 DEF NoCycles
  <1> QED
    BY <1>1, Invariant, PTL

\* What a handle waits for is run by the context that needs it, or further in.
THEOREM Nesting == Spec => []ContextsNest
  <1>1. ASSUME IInv PROVE ContextsNest
    <2>1. PICK age \in [Static -> Nat] : Inv(age)
      BY <1>1 DEF IInv
    <2>2. ~Exiting => Nest(state, ctx, kids)
      BY <2>1, Basics
    <2>3. \A h : Live(h) <=> LiveIn(state, h)
      BY DEF Live, Finished, LiveIn, Ends
    <2>4. \A p \in Handles : \A k \in ToSet(kids[p]) : \E i \in DOMAIN kids[p] : k = kids[p][i]
      BY DEF ToSet
    <2> QED
      BY <2>2, <2>3, <2>4 DEF ContextsNest, Nest
  <1> QED
    BY <1>1, Invariant, PTL

\* runUntil never runs out of work before what is joined has finished.
THEOREM AlwaysWork == Spec => []NeverStuck
  <1>1. ASSUME IInv PROVE NeverStuck
    <2>1. PICK age \in [Static -> Nat] : Inv(age)
      BY <1>1 DEF IInv
    <2> SUFFICES ASSUME NothingReady, Top.default = <<>>, Top.noPendingIO = <<>>, Top.waiting = {}
                 PROVE  FALSE
      BY DEF NeverStuck
    <2>2. /\ Quiet /\ Depth > 0 /\ Top.pc = "loop" /\ ~Finished(Top.target)
          /\ Top.runnable = <<>> /\ Top.fast = <<>>
      BY DEF NothingReady, Unsettled, Loop
    <2>3. Entries(Top) = {}
      BY <2>2, EmptyEffect DEF Entries
    <2>4. \A h \in Handles : LiveIn(state, h) => ctx[h] # Depth
      BY <2>1, <2>2, <2>3, NobodyLeft
    <2>5. /\ Depth = Len(contexts) /\ Depth \in 1..Depth /\ Top \in Contexts /\ ctx \in [Handles -> Nat]
          /\ Aimed(state, ctx, contexts) /\ Queued(state, ctx, contexts) /\ Depth \in Nat
      BY <2>1, <2>2, Basics DEF Inv, Scheduling, Depth
    <2>6. Top.target \in Handles
      BY <2>5 DEF Contexts
    <2>7. state[Top.target] # "none"
      BY <2>5 DEF Aimed, Top
    <2>8. LiveIn(state, Top.target)
      BY <2>2, <2>7 DEF LiveIn, Finished, Ends
    <2>9. ctx[Top.target] >= Depth
      BY <2>2, <2>5, <2>8 DEF Aimed, Top
    <2>10. ctx[Top.target] <= Depth
      BY <2>5, <2>6, <2>8 DEF Queued, Placed
    <2> QED
      BY <2>4, <2>5, <2>6, <2>8, <2>9, <2>10
  <1> QED
    BY <1>1, Invariant, PTL

=============================================================================
