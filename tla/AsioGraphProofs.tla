-------------------------- MODULE AsioGraphProofs --------------------------
(***************************************************************************)
(* The graph of wait handles: which are blocked on which, the chains that  *)
(* lead from a handle to those that wait for it, and the chains that are   *)
(* being unblocked.  Graph is an invariant of every step of the scheduler; *)
(* each kind of step that changes the graph has its lemma.                 *)
(***************************************************************************)
EXTENDS AsioSchedulerLemmas

Ends == {"succeeded", "failed"}
States == {"none", "blocked", "ready", "running", "waiting"} \cup Ends \cup Queues

GraphTyped ==
  /\ state \in [Handles -> States]
  /\ kids \in [Handles -> Seq(Handles)]
  /\ unfinished \in [AwaitAlls -> Nat]
  /\ parents \in [Handles -> Seq(Nodes)]
  /\ chains \in Seq(Seq(Nodes))

\* What a handle of each kind can be, and what it has been blocked on.
Kinds ==
  /\ \A f \in AsyncFunctions :
       /\ state[f] \in {"none", "blocked", "ready", "running"} \cup Ends
       /\ DOMAIN kids[f] \subseteq {1}
       /\ state[f] \in {"blocked", "ready", "running"} => 1 \in DOMAIN kids[f]
       /\ state[f] \in {"ready", "running"} => Finished(kids[f][1])
  /\ \A a \in AwaitAlls :
       /\ state[a] \in {"none", "blocked"} \cup Ends
       /\ unfinished[a] <= Len(kids[a])
       /\ state[a] = "blocked" => unfinished[a] \in DOMAIN kids[a]
       /\ \A i \in DOMAIN kids[a] : i > unfinished[a] => Finished(kids[a][i])
  /\ \A c \in Conditions :
       /\ state[c] \in {"none", "blocked"} \cup Ends
       /\ DOMAIN kids[c] \subseteq {1}
       /\ state[c] = "blocked" => 1 \in DOMAIN kids[c]
  /\ \A r \in Reschedules : state[r] \in {"none"} \cup Queues \cup Ends
  /\ \A l \in Leaves : state[l] \in {"none", "waiting"} \cup Ends
  /\ \A h \in Handles : Len(kids[h]) <= MaxChildren

\* Nobody knows a handle before it is created, or waits for a finished one in
\* its chain.
Created ==
  /\ \A h \in Handles : \A i \in DOMAIN kids[h] : state[kids[h][i]] # "none"
  /\ \A h \in Handles : state[h] = "none" => kids[h] = <<>>
  /\ \A h \in Handles : ~Live(h) => parents[h] = <<>>

\* Where a parent stands to a child that it has, or had, at index i.
Awaits(p, i) ==
  /\ i \in DOMAIN kids[p]
  /\ state[p] = "blocked" \/ (p \in Conditions /\ Finished(p))

\* The index of the child that getChild gives.
Current(p) == IF p \in AwaitAlls THEN unfinished[p] ELSE 1

\* The parent that translated code is about to go on with.
Resumed == IF Depth > 0 /\ Top.pc = "resume" THEN Top.runner ELSE None

\* A node of a chain stands for a parent that awaits the chain's owner.
NodesAwait ==
  \A h \in Handles : \A x \in ToSet(parents[h]) :
    Awaits(x[1], x[2]) /\ kids[x[1]][x[2]] = h

\* A blocked handle has a node with each of its unfinished children.
AwaitedHaveNodes ==
  \A p \in Handles : state[p] = "blocked" =>
    \A i \in DOMAIN kids[p] : Live(kids[p][i]) =>
      <<p, i>> \in ToSet(parents[kids[p][i]])

\* The nodes in the chains in progress are of parents that await a handle that
\* is finished; an AwaitAll has not gone past it.
PendingAwait ==
  \A x \in PendingNodes(chains) :
    /\ Awaits(x[1], x[2])
    /\ Finished(kids[x[1]][x[2]])
    /\ x[1] \in AwaitAlls => x[2] <= unfinished[x[1]]
    /\ x[1] # Resumed

\* Whoever is blocked on a finished handle is about to be unblocked ...
FinishedPending ==
  \A p \in Handles : (state[p] = "blocked" /\ Finished(kids[p][Current(p)])) =>
    p = Resumed \/ <<p, Current(p)>> \in PendingNodes(chains)

\* ... or to be resumed.
ResumedIsBlocked ==
  Resumed # None =>
    /\ Resumed \in AsyncFunctions
    /\ state[Resumed] = "blocked"
    /\ Finished(kids[Resumed][1])

\* Chains grow in the order of creation, upwards too.
InOrder(age) ==
  /\ \A h \in Handles : Ordered(age, parents[h])
  /\ \A h \in Static : \A x \in ToSet(parents[h]) :
       x[1] \in Static => age[h] > age[x[1]]
  /\ WellOrdered(age, chains)

Child == [h \in Handles |-> getChild(h)]

Graph(age) ==
  /\ GraphTyped /\ Kinds /\ Created /\ NodesAwait /\ AwaitedHaveNodes
  /\ PendingAwait /\ FinishedPending /\ ResumedIsBlocked
  /\ InOrder(age)
  /\ Acyclic(Child)

-----------------------------------------------------------------------------
\* What follows from Graph in one state.

\* Children and nodes are what they should be.
LEMMA GraphFacts ==
  ASSUME NEW age \in [Static -> Nat], Graph(age)
  PROVE  /\ \A p \in Handles : \A i \in DOMAIN kids[p] :
              kids[p][i] \in Handles /\ i \in 1..MaxChildren /\ <<p, i>> \in Nodes
         /\ \A p \in Handles : state[p] = "blocked" =>
              /\ p \in AsyncFunctions \cup Static
              /\ Current(p) \in DOMAIN kids[p]
              /\ Child[p] = kids[p][Current(p)]
         /\ \A p \in Handles : state[p] # "blocked" => Child[p] = None
         /\ \A h \in Handles : ToSet(parents[h]) \subseteq Nodes
         /\ PendingNodes(chains) \subseteq Nodes
         /\ Child \in [Handles -> Handles \cup {None}]
         /\ \A x \in Nodes : x[1] \in Handles /\ x[2] \in 1..MaxChildren /\ x = <<x[1], x[2]>>
<1>1. ASSUME NEW p \in Handles, NEW i \in DOMAIN kids[p]
      PROVE  kids[p][i] \in Handles /\ i \in 1..MaxChildren /\ <<p, i>> \in Nodes
  <2>1. kids[p] \in Seq(Handles) /\ Len(kids[p]) <= MaxChildren /\ MaxChildren \in Nat
    BY AsioAssumption DEF Graph, GraphTyped, Kinds
  <2>2. kids[p][i] \in Handles /\ i \in 1..MaxChildren
    BY <1>1, <2>1
  <2> QED
    BY <2>2 DEF Nodes
<1>2. ASSUME NEW p \in Handles, state[p] = "blocked"
      PROVE  /\ p \in AsyncFunctions \cup Static
             /\ Current(p) \in DOMAIN kids[p]
             /\ Child[p] = kids[p][Current(p)]
  <2>1. p \in AsyncFunctions \cup Static
    BY <1>2 DEF Graph, Kinds, Handles, Static, Ends, Queues
  <2>2. Current(p) \in DOMAIN kids[p]
    BY <1>2, <2>1 DEF Graph, Kinds, Current, Static
  <2>3. Child[p] = kids[p][Current(p)]
    BY <1>2 DEF Child, getChild, Current
  <2> QED
    BY <2>1, <2>2, <2>3
<1>3. ASSUME NEW p \in Handles, state[p] # "blocked" PROVE Child[p] = None
  BY <1>3 DEF Child, getChild
<1>4. \A h \in Handles : ToSet(parents[h]) \subseteq Nodes
  BY EmptyEffect DEF Graph, GraphTyped
<1>5. PendingNodes(chains) \subseteq Nodes
  <2>1. \A k \in DOMAIN chains : chains[k] \in Seq(Nodes)
    BY DEF Graph, GraphTyped
  <2>2. \A k \in DOMAIN chains : ToSet(chains[k]) \subseteq Nodes
    BY <2>1, EmptyEffect
  <2> QED
    BY <2>2 DEF PendingNodes
<1>6. Child \in [Handles -> Handles \cup {None}]
  <2>1. \A p \in Handles : Child[p] \in Handles \cup {None}
    BY <1>1, <1>2, <1>3
  <2> QED
    BY <2>1 DEF Child
<1>7. \A x \in Nodes : x[1] \in Handles /\ x[2] \in 1..MaxChildren /\ x = <<x[1], x[2]>>
  BY DEF Nodes
<1> QED
  BY <1>1, <1>2, <1>3, <1>4, <1>5, <1>6, <1>7

\* The node that is unblocked next, and what is left.
LEMMA NextNodeEffect ==
  ASSUME NEW age \in [Static -> Nat], Graph(age), chains # <<>>
  PROVE  /\ NextNode \in Nodes
         /\ NextNode[1] \in Handles /\ NextNode[2] \in Nat /\ NextNode = <<NextNode[1], NextNode[2]>>
         /\ AfterNode \in Seq(Seq(Nodes)) /\ WellOrdered(age, AfterNode)
         /\ PendingNodes(chains) = PendingNodes(AfterNode) \cup {NextNode}
         /\ PendingNodes(AfterNode) \subseteq Nodes
         /\ Awaits(NextNode[1], NextNode[2])
         /\ Finished(kids[NextNode[1]][NextNode[2]])
         /\ NextNode[1] \in AwaitAlls => NextNode[2] <= unfinished[NextNode[1]]
         /\ NextNode[1] # Resumed
         /\ \A x \in PendingNodes(AfterNode) :
              /\ x # NextNode
              /\ x[1] = NextNode[1] => x[1] \in AwaitAlls /\ x[2] > NextNode[2]
              /\ (x[1] \in Static /\ NextNode[1] \in Static /\ x[1] # NextNode[1]) =>
                    age[x[1]] > age[NextNode[1]]
<1>1. NextNode = Last(Last(chains)) /\ AfterNode = Pending(Front(chains), Front(Last(chains)))
  BY DEF NextNode, AfterNode, unlink
<1>2. chains \in Seq(Seq(Nodes)) /\ WellOrdered(age, chains)
  BY DEF Graph, GraphTyped, InOrder
<1>3. /\ NextNode \in Nodes /\ AfterNode \in Seq(Seq(Nodes)) /\ WellOrdered(age, AfterNode)
      /\ PendingNodes(chains) = PendingNodes(AfterNode) \cup {NextNode}
      /\ \A x \in PendingNodes(AfterNode) : Older(age, x, NextNode)
  BY <1>1, <1>2, Unlinking
<1>4. NextNode \in PendingNodes(chains) /\ PendingNodes(chains) \subseteq Nodes
  BY <1>3, GraphFacts
<1>5. /\ NextNode[1] \in Handles /\ NextNode[2] \in Nat /\ NextNode = <<NextNode[1], NextNode[2]>>
  BY <1>3, GraphFacts, AsioAssumption
<1>6. \A x \in PendingNodes(chains) :
        /\ Awaits(x[1], x[2]) /\ Finished(kids[x[1]][x[2]])
        /\ x[1] \in AwaitAlls => x[2] <= unfinished[x[1]]
        /\ x[1] # Resumed
  BY DEF Graph, PendingAwait
<1>7. ASSUME NEW x \in PendingNodes(AfterNode)
      PROVE  /\ x # NextNode
             /\ x[1] = NextNode[1] => x[1] \in AwaitAlls /\ x[2] > NextNode[2]
             /\ (x[1] \in Static /\ NextNode[1] \in Static /\ x[1] # NextNode[1]) =>
                   age[x[1]] > age[NextNode[1]]
  <2>1. x # NextNode /\ x \in Nodes /\ x = <<x[1], x[2]>> /\ x[1] \in Handles /\ x \in PendingNodes(chains)
    BY <1>3, <1>4, GraphFacts DEF Older
  <2>2. ASSUME x[1] = NextNode[1], x[1] \notin AwaitAlls PROVE FALSE
    <3>1. x[2] \in DOMAIN kids[x[1]] /\ NextNode[2] \in DOMAIN kids[x[1]]
      BY <1>4, <1>6, <2>1, <2>2 DEF Awaits
    <3>2. DOMAIN kids[x[1]] \subseteq {1}
      <4>1. state[x[1]] = "blocked" \/ x[1] \in Conditions
        BY <1>6, <2>1 DEF Awaits
      <4>2. x[1] \in AsyncFunctions \cup Conditions
        BY <2>1, <2>2, <4>1, GraphFacts DEF Static
      <4> QED
        BY <4>2 DEF Graph, Kinds
    <3> QED
      BY <1>5, <2>1, <2>2, <3>1, <3>2
  <2>3. ASSUME x[1] = NextNode[1], x[1] \in AwaitAlls PROVE x[2] > NextNode[2]
    <3>1. age[x[1]] \in Nat /\ x[1] \in Static
      BY <2>3 DEF Static
    <3> QED
      BY <1>3, <2>3, <3>1 DEF Older
  <2> QED
    BY <1>3, <2>1, <2>2, <2>3 DEF Older
<1> QED
  BY <1>3, <1>4, <1>5, <1>6, <1>7

-----------------------------------------------------------------------------
\* A handle finishes.

\* What is left of the chains in progress when h finishes, which was next ...
LeftOver(age, h, rest) ==
  /\ rest \in Seq(Seq(Nodes)) /\ WellOrdered(age, rest)
  /\ PendingNodes(rest) \subseteq PendingNodes(chains)
  /\ \A x \in PendingNodes(rest) :
       x[1] # h /\ h \in Static /\ (x[1] \in Static => age[x[1]] > age[h])
  /\ \A x \in PendingNodes(chains) : x \in PendingNodes(rest) \/ x[1] = h

\* ... and the nodes that follow.
Follows(h, chain) ==
  chain \in Seq(Nodes) /\ Sublist(chain, parents[h]) /\ ToSet(chain) \subseteq ToSet(parents[h])

\* What waits for a handle that finishes is unblocked before the rest.
LEMMA FinishChains ==
  ASSUME NEW age \in [Static -> Nat], Graph(age), NEW h \in Handles, Live(h),
         NEW rest, LeftOver(age, h, rest), NEW chain, Follows(h, chain)
  PROVE  /\ \A x \in ToSet(parents[h]) : x[1] # h
         /\ Pending(rest, chain) \in Seq(Seq(Nodes)) /\ WellOrdered(age, Pending(rest, chain))
         /\ PendingNodes(Pending(rest, chain)) = PendingNodes(rest) \cup ToSet(chain)
<1>a. /\ rest \in Seq(Seq(Nodes)) /\ WellOrdered(age, rest)
      /\ PendingNodes(rest) \subseteq PendingNodes(chains)
      /\ \A x \in PendingNodes(rest) :
           x[1] # h /\ h \in Static /\ (x[1] \in Static => age[x[1]] > age[h])
      /\ chain \in Seq(Nodes) /\ Sublist(chain, parents[h]) /\ ToSet(chain) \subseteq ToSet(parents[h])
  BY DEF LeftOver, Follows
<1> USE <1>a
<1>0. None \notin Handles /\ \A y \in AsyncFunctions : y \in Handles /\ y \notin Static /\ y \notin Leaves
  BY AsioAssumption DEF Handles, Static
<1>5. \A x \in ToSet(parents[h]) : Awaits(x[1], x[2]) /\ kids[x[1]][x[2]] = h
  BY DEF Graph, NodesAwait
<1>6. \A x \in PendingNodes(chains) :
        /\ Awaits(x[1], x[2]) /\ Finished(kids[x[1]][x[2]])
        /\ x[1] \in AwaitAlls => x[2] <= unfinished[x[1]]
        /\ x[1] # Resumed
  BY DEF Graph, PendingAwait
<1>7. ~Finished(h)
  BY DEF Live
\* The handle does not wait for itself.
<1>8. \A x \in ToSet(parents[h]) : x[1] # h
  <2> SUFFICES ASSUME NEW x \in ToSet(parents[h]), x[1] = h PROVE FALSE
    OBVIOUS
  <2>1. state[h] = "blocked" /\ x[2] \in DOMAIN kids[h] /\ kids[h][x[2]] = h
    BY <1>5, <1>7 DEF Awaits
  <2>2. CASE h \in AsyncFunctions
    <3>0. DOMAIN kids[h] \subseteq {1} /\ Current(h) = 1
      BY <1>0, <2>2 DEF Graph, Kinds, Current, Static
    <3>1. Child[h] = kids[h][1] /\ x[2] = 1
      BY <2>1, <3>0, GraphFacts
    <3> DEFINE S == {h}
    <3>2. S \in SUBSET Handles /\ S # {} /\ \A y \in S : Child[y] \in S
      BY <2>1, <3>1
    <3> HIDE DEF S
    <3> QED
      BY <3>2 DEF Graph, Acyclic
  <2>3. CASE h \in Static
    <3>1. age[h] > age[h] /\ age[h] \in Nat
      BY <2>3 DEF Graph, InOrder
    <3> QED
      BY <3>1
  <2> QED
    BY <2>1, <2>2, <2>3, GraphFacts
<1>9. Ordered(age, parents[h]) /\ Ordered(age, chain)
  <2>1. Ordered(age, parents[h]) /\ parents[h] \in Seq(Nodes)
    BY DEF Graph, InOrder, GraphTyped
  <2> QED
    BY <2>1, SublistOrdered
<1>10. \A x \in PendingNodes(rest), y \in ToSet(chain) : Earlier(age, x, y)
  <2> SUFFICES ASSUME NEW x \in PendingNodes(rest), NEW y \in ToSet(chain) PROVE Earlier(age, x, y)
    OBVIOUS
  <2>1. x \in PendingNodes(chains) /\ y \in ToSet(parents[h])
    OBVIOUS
  <2>2. x # y
    <3>1. kids[y[1]][y[2]] = h /\ Finished(kids[x[1]][x[2]])
      BY <1>5, <1>6, <2>1
    <3> QED
      BY <1>7, <3>1
  <2>3. ASSUME x[1] \in Static, y[1] \in Static PROVE age[x[1]] > age[y[1]]
    <3>1. h \in Static /\ age[x[1]] > age[h] /\ age[h] > age[y[1]]
      BY <2>1, <2>3 DEF Graph, InOrder
    <3>2. age[x[1]] \in Nat /\ age[h] \in Nat /\ age[y[1]] \in Nat
      BY <2>3, <3>1
    <3> QED
      BY <3>1, <3>2
  <2> QED
    BY <2>2, <2>3 DEF Earlier
<1>11. /\ Pending(rest, chain) \in Seq(Seq(Nodes)) /\ WellOrdered(age, Pending(rest, chain))
       /\ PendingNodes(Pending(rest, chain)) = PendingNodes(rest) \cup ToSet(chain)
  BY <1>9, <1>10, Pushing
<1> QED
  BY <1>8, <1>11

\* An AwaitAll that fails takes its nodes out of the chains of its children, a
\* condition may leave its own; of another handle there are none.
Detached(h) ==
  /\ parents' \in [Handles -> Seq(Nodes)] /\ parents'[h] = <<>>
  /\ \A y \in Handles : y # h =>
       /\ Sublist(parents'[y], parents[y])
       /\ ToSet(parents'[y]) \subseteq ToSet(parents[y])
       /\ \A x \in ToSet(parents[y]) : x[1] # h => x \in ToSet(parents'[y])
       /\ \A x \in ToSet(parents'[y]) : x[1] = h => h \in Conditions /\ kids'[h] = kids[h]
  /\ kids' \in [Handles -> Seq(Handles)]
  /\ \A y \in Handles : y # h => kids'[y] = kids[y]
  /\ kids'[h] = kids[h] \/ (h \in Conditions /\ kids'[h] = <<>>)
  /\ unfinished' \in [AwaitAlls -> Nat]
  /\ \A a \in AwaitAlls : a # h => unfinished'[a] = unfinished[a]
  /\ h \in AwaitAlls =>
       /\ unfinished'[h] <= Len(kids[h])
       /\ \A i \in DOMAIN kids[h] : i > unfinished'[h] => Finished(kids[h][i])

\* The nodes that follow are those of h but for one that translated code resumes.
Resumes(h, chain) ==
  \/ Resumed' = Resumed /\ ToSet(chain) = ToSet(parents[h])
  \/ /\ Resumed = None /\ Resumed' \in AsyncFunctions
     /\ <<Resumed', 1>> \in ToSet(parents[h])
     /\ ToSet(chain) = ToSet(parents[h]) \ {<<Resumed', 1>>}

\* A handle finishes.
LEMMA FinishStep ==
  ASSUME NEW age \in [Static -> Nat], Graph(age), NEW h \in Handles, Live(h), NEW r \in Ends,
         Resumed # h,
         NEW rest, LeftOver(age, h, rest), NEW chain, Follows(h, chain),
         state' = [state EXCEPT ![h] = r], Detached(h), Resumes(h, chain),
         chains' = Pending(rest, chain)
  PROVE  Graph(age)'
<1>p. /\ \A x \in ToSet(parents[h]) : x[1] # h
      /\ Pending(rest, chain) \in Seq(Seq(Nodes)) /\ WellOrdered(age, Pending(rest, chain))
      /\ PendingNodes(Pending(rest, chain)) = PendingNodes(rest) \cup ToSet(chain)
  BY FinishChains
<1>q. /\ chains' \in Seq(Seq(Nodes)) /\ WellOrdered(age, chains')
      /\ PendingNodes(chains') = PendingNodes(rest) \cup ToSet(chain)
  BY <1>p, Zenon
<1>a. /\ rest \in Seq(Seq(Nodes)) /\ WellOrdered(age, rest)
      /\ PendingNodes(rest) \subseteq PendingNodes(chains)
      /\ \A x \in PendingNodes(rest) :
           x[1] # h /\ h \in Static /\ (x[1] \in Static => age[x[1]] > age[h])
      /\ \A x \in PendingNodes(chains) : x \in PendingNodes(rest) \/ x[1] = h
  BY DEF LeftOver
<1>b. chain \in Seq(Nodes) /\ Sublist(chain, parents[h]) /\ ToSet(chain) \subseteq ToSet(parents[h])
  BY DEF Follows
<1>c. /\ parents' \in [Handles -> Seq(Nodes)] /\ parents'[h] = <<>>
      /\ \A y \in Handles : y # h =>
           /\ Sublist(parents'[y], parents[y])
           /\ ToSet(parents'[y]) \subseteq ToSet(parents[y])
           /\ \A x \in ToSet(parents[y]) : x[1] # h => x \in ToSet(parents'[y])
           /\ \A x \in ToSet(parents'[y]) : x[1] = h => h \in Conditions /\ kids'[h] = kids[h]
  BY DEF Detached
<1>d. /\ kids' \in [Handles -> Seq(Handles)]
      /\ \A y \in Handles : y # h => kids'[y] = kids[y]
      /\ kids'[h] = kids[h] \/ (h \in Conditions /\ kids'[h] = <<>>)
  BY DEF Detached
<1>e. /\ unfinished' \in [AwaitAlls -> Nat]
      /\ \A a \in AwaitAlls : a # h => unfinished'[a] = unfinished[a]
      /\ h \in AwaitAlls =>
           /\ unfinished'[h] <= Len(kids[h])
           /\ \A i \in DOMAIN kids[h] : i > unfinished'[h] => Finished(kids[h][i])
  BY DEF Detached
<1>f. \/ Resumed' = Resumed /\ ToSet(chain) = ToSet(parents[h])
      \/ /\ Resumed = None /\ Resumed' \in AsyncFunctions
         /\ <<Resumed', 1>> \in ToSet(parents[h])
         /\ ToSet(chain) = ToSet(parents[h]) \ {<<Resumed', 1>>}
  BY DEF Resumes
<1> USE <1>a, <1>b, <1>c, <1>d, <1>e, <1>f, <1>q
<1>0. None \notin Handles /\ \A y \in AsyncFunctions : y \in Handles /\ y \notin Static /\ y \notin Leaves
  BY AsioAssumption DEF Handles, Static
<1>1. /\ \A y \in Handles : y # h => state'[y] = state[y]
      /\ state'[h] = r /\ r \in {"succeeded", "failed"}
      /\ state[h] # "none" /\ state[h] \notin {"succeeded", "failed"}
  BY DEF Graph, GraphTyped, Live, Finished, Ends
<1>2. \A x \in Nodes : x[1] \in Handles /\ x[2] \in 1..MaxChildren /\ x = <<x[1], x[2]>>
  BY GraphFacts
<1>3. /\ ToSet(parents[h]) \subseteq Nodes /\ ToSet(chain) \subseteq ToSet(parents[h])
      /\ \A y \in Handles : y # h => ToSet(parents'[y]) \subseteq Nodes
      /\ PendingNodes(chains) \subseteq Nodes
  BY GraphFacts
<1>4. ToSet(parents'[h]) = {}
  BY EmptyEffect
<1>5. \A x \in ToSet(parents[h]) : Awaits(x[1], x[2]) /\ kids[x[1]][x[2]] = h
  BY DEF Graph, NodesAwait
<1>6. \A x \in PendingNodes(chains) :
        /\ Awaits(x[1], x[2]) /\ Finished(kids[x[1]][x[2]])
        /\ x[1] \in AwaitAlls => x[2] <= unfinished[x[1]]
        /\ x[1] # Resumed
  BY DEF Graph, PendingAwait
<1>7. ~Finished(h)
  BY <1>1 DEF Finished
<1>8. \A x \in ToSet(parents[h]) : x[1] # h
  BY <1>p
<1>12. GraphTyped'
  <2>1. state' \in [Handles -> States]
    BY DEF Graph, GraphTyped, States
  <2> QED
    BY <2>1 DEF GraphTyped
\* Its children: those it had, or none.
<1>13. \A y \in Handles : \A i \in DOMAIN kids'[y] : i \in DOMAIN kids[y] /\ kids'[y][i] = kids[y][i] /\ kids[y][i] \in Handles
  <2>1. DOMAIN <<>> = {}
    OBVIOUS
  <2> QED
    BY <2>1, GraphFacts
<1>14. \A y \in Handles : Finished(y) => y # h /\ state'[y] \in {"succeeded", "failed"}
  BY <1>1 DEF Finished
<1>15. Kinds'
  <2>1. ASSUME NEW f \in AsyncFunctions
        PROVE  /\ state'[f] \in {"none", "blocked", "ready", "running"} \cup Ends
               /\ DOMAIN kids'[f] \subseteq {1}
               /\ state'[f] \in {"blocked", "ready", "running"} => 1 \in DOMAIN kids'[f]
               /\ state'[f] \in {"ready", "running"} => Finished(kids[f][1])'
    <3>1. kids'[f] = kids[f]
      BY <1>0 DEF Static
    <3> QED
      BY <1>0, <1>1, <1>13, <1>14, <3>1 DEF Graph, Kinds, Finished, Ends
  <2>2. ASSUME NEW a \in AwaitAlls
        PROVE  /\ state'[a] \in {"none", "blocked"} \cup Ends
               /\ unfinished'[a] <= Len(kids'[a])
               /\ state'[a] = "blocked" => unfinished'[a] \in DOMAIN kids'[a]
               /\ \A i \in DOMAIN kids'[a] : i > unfinished'[a] => Finished(kids[a][i])'
    <3>1. kids'[a] = kids[a] /\ a \in Handles
      BY AsioAssumption DEF Handles
    <3>2. CASE a = h
      BY <1>1, <1>13, <1>14, <3>1, <3>2 DEF Graph, Kinds, Finished, Ends
    <3>3. CASE a # h
      BY <1>1, <1>13, <1>14, <3>1, <3>3 DEF Graph, Kinds, Finished, Ends
    <3> QED
      BY <3>2, <3>3
  <2>3. ASSUME NEW c \in Conditions
        PROVE  /\ state'[c] \in {"none", "blocked"} \cup Ends
               /\ DOMAIN kids'[c] \subseteq {1}
               /\ state'[c] = "blocked" => 1 \in DOMAIN kids'[c]
    <3>1. c \in Handles
      BY DEF Handles
    <3> QED
      BY <1>1, <1>13, <3>1 DEF Graph, Kinds, Ends
  <2>4. \A x \in Reschedules : state'[x] \in {"none"} \cup Queues \cup Ends
    BY <1>1 DEF Graph, Kinds, Ends, Handles
  <2>5. \A x \in Leaves : state'[x] \in {"none", "waiting"} \cup Ends
    BY <1>1 DEF Graph, Kinds, Ends, Handles
  <2>6. ASSUME NEW x \in Handles PROVE Len(kids'[x]) <= MaxChildren
    <3>1. Len(kids[x]) <= MaxChildren
      BY DEF Graph, Kinds
    <3>2. Len(<<>>) <= MaxChildren
      BY AsioAssumption
    <3> QED
      BY <3>1, <3>2
  <2> QED
    BY <2>1, <2>2, <2>3, <2>4, <2>5, <2>6 DEF Kinds
<1>16. Created'
  <2>1. \A y \in Handles : \A i \in DOMAIN kids'[y] : state'[kids'[y][i]] # "none"
    <3>1. \A y \in Handles : state[y] # "none" => state'[y] # "none"
      BY <1>1
    <3> QED
      <4> SUFFICES ASSUME NEW y \in Handles, NEW i \in DOMAIN kids'[y] PROVE state'[kids'[y][i]] # "none"
        OBVIOUS
      <4>1. i \in DOMAIN kids[y] /\ kids'[y][i] = kids[y][i] /\ kids[y][i] \in Handles
        BY <1>13
      <4>2. state[kids[y][i]] # "none"
        BY <4>1 DEF Graph, Created
      <4> QED
        BY <3>1, <4>1, <4>2
  <2>2. \A y \in Handles : state'[y] = "none" => kids'[y] = <<>>
    BY <1>1 DEF Graph, Created
  <2>3. ASSUME NEW y \in Handles, ~Live(y)' PROVE parents'[y] = <<>>
    <3>1. CASE y = h
      BY <3>1
    <3>2. CASE y # h
      <4>1. parents[y] = <<>>
        BY <1>1, <2>3, <3>2 DEF Graph, Created, Live, Finished
      <4>2. ToSet(parents'[y]) = {} /\ parents'[y] \in Seq(Nodes)
        BY <3>2, <4>1, EmptyEffect
      <4> QED
        BY <4>2, EmptyEffect
    <3> QED
      BY <3>1, <3>2
  <2> QED
    BY <2>1, <2>2, <2>3 DEF Created
<1>17. NodesAwait'
  <2> SUFFICES ASSUME NEW y \in Handles, NEW x \in ToSet(parents'[y])
               PROVE  Awaits(x[1], x[2])' /\ kids'[x[1]][x[2]] = y
    BY DEF NodesAwait
  <2>1. y # h /\ x \in ToSet(parents[y]) /\ x \in Nodes /\ x[1] \in Handles
    BY <1>2, <1>3, <1>4
  <2>2. Awaits(x[1], x[2]) /\ kids[x[1]][x[2]] = y
    BY <2>1 DEF Graph, NodesAwait
  <2>3. CASE x[1] = h
    <3>1. h \in Conditions /\ kids'[h] = kids[h]
      BY <2>1, <2>3
    <3> QED
      BY <1>1, <2>2, <2>3, <3>1 DEF Awaits, Finished
  <2>4. CASE x[1] # h
    BY <1>1, <2>1, <2>2, <2>4 DEF Awaits, Finished
  <2> QED
    BY <2>3, <2>4
<1>18. AwaitedHaveNodes'
  <2> SUFFICES ASSUME NEW p \in Handles, state'[p] = "blocked", NEW i \in DOMAIN kids'[p],
                      Live(kids[p][i])'
               PROVE  <<p, i>> \in ToSet(parents'[kids'[p][i]])
    BY DEF AwaitedHaveNodes
  <2>1. p # h /\ state[p] = "blocked" /\ kids'[p] = kids[p] /\ kids[p][i] \in Handles
    BY <1>1, <1>13
  <2>2. kids[p][i] # h /\ Live(kids[p][i])
    BY <1>1, <2>1 DEF Live, Finished
  <2>3. <<p, i>> \in ToSet(parents[kids[p][i]])
    BY <2>1, <2>2 DEF Graph, AwaitedHaveNodes
  <2> QED
    BY <2>1, <2>2, <2>3
<1>19. PendingAwait'
  <2> SUFFICES ASSUME NEW x \in PendingNodes(chains')
               PROVE  /\ Awaits(x[1], x[2])'
                      /\ Finished(kids[x[1]][x[2]])'
                      /\ x[1] \in AwaitAlls => x[2] <= unfinished'[x[1]]
                      /\ x[1] # Resumed'
    BY DEF PendingAwait
  <2>1. CASE x \in PendingNodes(rest)
    <3>1. x \in PendingNodes(chains) /\ x[1] # h /\ x \in Nodes /\ x[1] \in Handles
      BY <1>2, <1>3, <2>1
    <3>2. kids[x[1]][x[2]] \in Handles /\ x[2] \in DOMAIN kids[x[1]]
      BY <1>6, <3>1, GraphFacts DEF Awaits
    <3>3. x[1] # Resumed'
      <4>1. CASE Resumed' = Resumed
        BY <1>6, <3>1, <4>1
      <4>2. CASE Resumed' \in AsyncFunctions /\ <<Resumed', 1>> \in ToSet(parents[h])
        <5>1. kids[Resumed'][1] = h
          BY <1>5, <4>2
        <5>2. x[1] = Resumed' => x[2] = 1
          BY <3>2, <4>2 DEF Graph, Kinds
        <5> QED
          BY <1>6, <1>7, <3>1, <5>1, <5>2
      <4> QED
        BY <4>1, <4>2
    <3> QED
      BY <1>1, <1>6, <1>14, <3>1, <3>2, <3>3 DEF Awaits, Finished
  <2>2. CASE x \in ToSet(chain)
    <3>1. x \in ToSet(parents[h]) /\ x \in Nodes /\ x[1] \in Handles /\ x[1] # h
      BY <1>2, <1>3, <1>8, <2>2
    <3>2. Awaits(x[1], x[2]) /\ kids[x[1]][x[2]] = h
      BY <1>5, <3>1
    <3>3. x[1] \in AwaitAlls => x[2] <= unfinished[x[1]]
      <4> SUFFICES ASSUME x[1] \in AwaitAlls, ~(x[2] <= unfinished[x[1]]) PROVE FALSE
        OBVIOUS
      <4>1. x[2] \in Nat /\ unfinished[x[1]] \in Nat /\ x[2] > unfinished[x[1]]
        <5>1. x[2] \in 1..MaxChildren /\ MaxChildren \in Nat
          BY <1>2, <3>1, AsioAssumption
        <5>2. unfinished[x[1]] \in Nat
          BY DEF Graph, GraphTyped
        <5> DEFINE i == x[2]
                   u == unfinished[x[1]]
        <5>3. i \in 1..MaxChildren /\ u \in Nat /\ ~(i <= u)
          BY <5>1, <5>2
        <5> HIDE DEF i, u
        <5>4. i \in Nat /\ i > u
          BY <5>1, <5>3, SMTT(60)
        <5> QED
          BY <5>3, <5>4 DEF i, u
      <4>2. x[2] \in DOMAIN kids[x[1]]
        BY <3>2 DEF Awaits
      <4>3. Finished(kids[x[1]][x[2]])
        BY <4>1, <4>2 DEF Graph, Kinds
      <4> QED
        BY <1>7, <3>2, <4>3
    <3>4. x[1] # Resumed'
      <4>1. CASE Resumed' = Resumed
        <5>1. Resumed # None => Finished(kids[Resumed][1]) /\ Resumed \in AsyncFunctions
          BY DEF Graph, ResumedIsBlocked
        <5>2. ASSUME x[1] = Resumed PROVE FALSE
          <6>1. Resumed \in AsyncFunctions /\ x[2] = 1
            BY <1>0, <3>1, <3>2, <5>1, <5>2 DEF Graph, Kinds, Awaits
          <6> QED
            BY <1>0, <1>7, <3>1, <3>2, <5>1, <5>2, <6>1
        <5> QED
          BY <4>1, <5>2
      <4>2. CASE Resumed' \in AsyncFunctions /\ ToSet(chain) = ToSet(parents[h]) \ {<<Resumed', 1>>}
        <5>1. x[1] = Resumed' => x[2] = 1
          BY <3>2, <4>2 DEF Graph, Kinds, Awaits
        <5> QED
          BY <1>2, <2>2, <3>1, <4>2, <5>1
      <4> QED
        BY <4>1, <4>2
    <3> QED
      BY <1>1, <3>1, <3>2, <3>3, <3>4 DEF Awaits, Finished
  <2> QED
    BY <2>1, <2>2
<1>20. FinishedPending'
  <2> SUFFICES ASSUME NEW p \in Handles, state'[p] = "blocked", Finished(kids[p][Current(p)])'
               PROVE  p = Resumed' \/ <<p, Current(p)'>> \in PendingNodes(chains')
    BY DEF FinishedPending
  <2>1. p # h /\ state[p] = "blocked" /\ kids'[p] = kids[p] /\ Current(p)' = Current(p)
    BY <1>1 DEF Current
  <2>2. Current(p) \in DOMAIN kids[p] /\ kids[p][Current(p)] \in Handles
    BY <2>1, GraphFacts
  <2>3. CASE kids[p][Current(p)] = h
    <3>1. <<p, Current(p)>> \in ToSet(parents[h])
      BY <2>1, <2>2, <2>3 DEF Graph, AwaitedHaveNodes
    <3>2. <<p, Current(p)>> \in ToSet(chain) \/ <<p, Current(p)>> = <<Resumed', 1>>
      BY <3>1
    <3> QED
      BY <2>1, <3>2
  <2>4. CASE kids[p][Current(p)] # h
    <3>1. Finished(kids[p][Current(p)])
      BY <1>1, <2>1, <2>2, <2>4 DEF Finished
    <3>2. p = Resumed \/ <<p, Current(p)>> \in PendingNodes(chains)
      BY <2>1, <3>1 DEF Graph, FinishedPending
    <3>3. p # None
      BY <1>0
    <3>4. <<p, Current(p)>> \in PendingNodes(chains) => <<p, Current(p)>> \in PendingNodes(rest)
      BY <2>1
    <3> QED
      BY <2>1, <3>2, <3>3, <3>4
  <2> QED
    BY <2>3, <2>4
<1>21. ResumedIsBlocked'
  <2> SUFFICES ASSUME Resumed' # None
               PROVE  /\ Resumed' \in AsyncFunctions /\ state'[Resumed'] = "blocked"
                      /\ Finished(kids[Resumed][1])'
    BY DEF ResumedIsBlocked
  <2>1. CASE Resumed' = Resumed
    <3>1. Resumed \in AsyncFunctions /\ state[Resumed] = "blocked" /\ Finished(kids[Resumed][1])
      BY <2>1 DEF Graph, ResumedIsBlocked
    <3>2. Resumed \in Handles /\ 1 \in DOMAIN kids[Resumed] /\ kids[Resumed][1] \in Handles
      <4>1. Resumed \in Handles /\ 1 \in DOMAIN kids[Resumed]
        BY <1>0, <3>1 DEF Graph, Kinds
      <4> QED
        BY <4>1, GraphFacts
    <3>3. kids'[Resumed] = kids[Resumed] /\ state'[Resumed] = state[Resumed]
      BY <1>1, <3>2
    <3> QED
      BY <1>14, <2>1, <3>1, <3>2, <3>3 DEF Finished
  <2>2. CASE Resumed' \in AsyncFunctions /\ <<Resumed', 1>> \in ToSet(parents[h])
    <3>1. Awaits(Resumed', 1) /\ kids[Resumed'][1] = h /\ Resumed' # h
      BY <1>5, <1>8, <2>2
    <3>2. Resumed' \in Handles /\ Resumed' \notin Conditions
      BY <1>0, <2>2 DEF Static
    <3> QED
      BY <1>1, <2>2, <3>1, <3>2 DEF Awaits, Finished
  <2> QED
    BY <2>1, <2>2
<1>22. InOrder(age)'
  <2>1. ASSUME NEW y \in Handles PROVE Ordered(age, parents'[y])
    <3>1. CASE y = h
      BY <3>1 DEF Ordered
    <3>2. CASE y # h
      <4>1. parents'[y] \in Seq(Nodes) /\ parents[y] \in Seq(Nodes) /\ Ordered(age, parents[y])
        BY DEF Graph, GraphTyped, InOrder
      <4> QED
        BY <3>2, <4>1, SublistOrdered
    <3> QED
      BY <3>1, <3>2
  <2>2. ASSUME NEW y \in Static, NEW x \in ToSet(parents'[y]), x[1] \in Static
        PROVE  age[y] > age[x[1]]
    <3>1. y \in Handles /\ y # h
      BY <1>4, <2>2 DEF Static, Handles
    <3>2. x \in ToSet(parents[y])
      BY <2>2, <3>1
    <3> QED
      BY <2>2, <3>2 DEF Graph, InOrder
  <2> QED
    BY <2>1, <2>2 DEF InOrder
<1>23. Acyclic(Child)'
  <2>1. ASSUME NEW y \in Handles PROVE Child'[y] = Child[y] \/ Child'[y] = None
    <3>1. CASE state'[y] # "blocked"
      BY <3>1 DEF Child, getChild
    <3>2. CASE state'[y] = "blocked"
      <4>1. y # h
        BY <1>1, <3>2
      <4> QED
        BY <1>1, <3>2, <4>1 DEF Child, getChild
    <3> QED
      BY <3>1, <3>2
  <2>2. Child \in [Handles -> Handles \cup {None}] /\ Acyclic(Child)
    BY GraphFacts DEF Graph
  <2>3. Child' \in [Handles -> Handles \cup {None}]
    <3>1. \A y \in Handles : Child'[y] \in Handles \cup {None}
      BY <2>1, <2>2
    <3>2. Child' = [y \in Handles |-> Child'[y]]
      BY DEF Child
    <3> HIDE DEF Child
    <3> QED
      BY <3>1, <3>2
  <2> QED
    BY <2>1, <2>2, <2>3, AcyclicWithout
<1> QED
  BY <1>12, <1>15, <1>16, <1>17, <1>18, <1>19, <1>20, <1>21, <1>22, <1>23 DEF Graph

\* A leaf, a reschedule, a condition or a running function finishes.
LEMMA FinishQuiet ==
  ASSUME NEW age \in [Static -> Nat], Graph(age), chains = <<>>, NEW h \in Handles, Live(h),
         h \notin AwaitAlls, state[h] = "blocked" => h \in Conditions,
         NEW r \in Ends, Finish(h, r, <<>>), UNCHANGED <<kids, unfinished>>,
         Resumed = None, Resumed' = None
  PROVE  Graph(age)'
<1>0. None \notin Handles
  BY AsioAssumption
<1>1. /\ state' = [state EXCEPT ![h] = r] /\ parents' = [parents EXCEPT ![h] = <<>>]
      /\ chains' = Pending(<<>>, parents[h])
  BY DEF Finish
<1>2. /\ parents \in [Handles -> Seq(Nodes)] /\ kids \in [Handles -> Seq(Handles)]
      /\ unfinished \in [AwaitAlls -> Nat] /\ parents[h] \in Seq(Nodes)
  BY DEF Graph, GraphTyped
<1>3. PendingNodes(chains) = {}
  BY NothingPending
<1>4. Sublist(parents[h], parents[h]) /\ \A y \in Handles : Sublist(parents[y], parents[y])
  BY <1>2, SelfSublist
<1> DEFINE rest == <<>>
<1>5. /\ rest \in Seq(Seq(Nodes)) /\ WellOrdered(age, rest) /\ PendingNodes(rest) = {}
      /\ chains' = Pending(rest, parents[h])
  BY <1>1, NothingPending
<1> HIDE DEF rest
<1>7. ASSUME NEW y \in Handles, NEW x \in ToSet(parents[y]), x[1] = h PROVE h \in Conditions
  <2>1. Awaits(x[1], x[2])
    BY DEF Graph, NodesAwait
  <2> QED
    BY <1>7, <2>1 DEF Awaits
<1>8. /\ parents' \in [Handles -> Seq(Nodes)] /\ parents'[h] = <<>>
      /\ \A y \in Handles : y # h => parents'[y] = parents[y]
  BY <1>1, <1>2
<1>9. \A y \in Handles : y # h =>
           /\ Sublist(parents'[y], parents[y])
           /\ ToSet(parents'[y]) \subseteq ToSet(parents[y])
           /\ \A x \in ToSet(parents[y]) : x[1] # h => x \in ToSet(parents'[y])
           /\ \A x \in ToSet(parents'[y]) : x[1] = h => h \in Conditions /\ kids'[h] = kids[h]
  BY <1>4, <1>7, <1>8
<1>10. Resumed # h
  BY <1>0
<1>11. LeftOver(age, h, rest)
  BY <1>3, <1>5 DEF LeftOver
<1>12. Follows(h, parents[h])
  BY <1>2, <1>4 DEF Follows
<1>13. Detached(h)
  BY <1>2, <1>8, <1>9 DEF Detached
<1>14. Resumes(h, parents[h])
  BY DEF Resumes
<1> QED
  BY <1>1, <1>5, <1>10, <1>11, <1>12, <1>13, <1>14, FinishStep

\* A running function returns straight to the last one that waits for it.
LEMMA FinishReturn ==
  ASSUME NEW age \in [Static -> Nat], Graph(age), chains = <<>>,
         NEW f \in AsyncFunctions, state[f] = "running",
         parents[f] # <<>>, NEW p \in AsyncFunctions, Last(parents[f])[1] = p,
         state' = [state EXCEPT ![f] = "succeeded"],
         parents' = [parents EXCEPT ![f] = <<>>],
         chains' = Pending(<<>>, Front(parents[f])),
         UNCHANGED <<kids, unfinished>>,
         Resumed = None, Resumed' = p
  PROVE  Graph(age)'
<1>0. None \notin Handles /\ f \in Handles /\ f \notin Static /\ f \notin AwaitAlls /\ p \in Handles
  BY AsioAssumption DEF Handles, Static
<1>1. Live(f) /\ "succeeded" \in Ends
  BY DEF Live, Finished, Ends
<1>2. /\ parents \in [Handles -> Seq(Nodes)] /\ kids \in [Handles -> Seq(Handles)]
      /\ unfinished \in [AwaitAlls -> Nat] /\ parents[f] \in Seq(Nodes)
  BY <1>0 DEF Graph, GraphTyped
<1>3. PendingNodes(chains) = {}
  BY NothingPending
<1> DEFINE rest == <<>>
           chain == Front(parents[f])
<1>4. /\ Sublist(chain, parents[f]) /\ chain \in Seq(Nodes)
      /\ ToSet(parents[f]) = ToSet(chain) \cup {Last(parents[f])}
      /\ \A y \in Handles : Sublist(parents[y], parents[y])
  BY <1>2, SelfSublist, FrontSublist, FrontEffect
<1>5. /\ rest \in Seq(Seq(Nodes)) /\ WellOrdered(age, rest) /\ PendingNodes(rest) = {}
      /\ chains' = Pending(rest, chain)
  BY NothingPending
<1>6. Last(parents[f]) \notin ToSet(chain)
  <2> SUFFICES ASSUME Last(parents[f]) \in ToSet(chain) PROVE FALSE
    OBVIOUS
  <2>1. Ordered(age, parents[f])
    BY <1>0 DEF Graph, InOrder
  <2>2. /\ DOMAIN chain = 1..Len(parents[f]) - 1 /\ Len(parents[f]) \in Nat /\ Len(parents[f]) >= 1
        /\ \A i \in 1..Len(parents[f]) - 1 : chain[i] = parents[f][i]
        /\ DOMAIN parents[f] = 1..Len(parents[f]) /\ Last(parents[f]) = parents[f][Len(parents[f])]
    BY <1>2, FrontEffect DEF Last
  <2> HIDE DEF chain
  <2>3. PICK i \in 1..Len(parents[f]) - 1 : Last(parents[f]) = parents[f][i]
    BY <2>2 DEF ToSet
  <2>4. i \in DOMAIN parents[f] /\ Len(parents[f]) \in DOMAIN parents[f] /\ i < Len(parents[f])
    BY <2>2, <2>3
  <2>5. Older(age, parents[f][i], parents[f][Len(parents[f])])
    BY <2>1, <2>4 DEF Ordered
  <2> QED
    BY <2>2, <2>3, <2>5 DEF Older
<1> HIDE DEF rest, chain
<1>8. Last(parents[f]) = <<p, 1>>
  <2>1. Last(parents[f]) \in ToSet(parents[f])
    BY <1>4
  <2>2. Last(parents[f]) \in Nodes /\ Last(parents[f]) = <<p, Last(parents[f])[2]>>
    BY <1>0, <2>1, GraphFacts
  <2>3. Awaits(p, Last(parents[f])[2])
    BY <1>0, <2>1 DEF Graph, NodesAwait
  <2>4. Last(parents[f])[2] = 1
    BY <2>3 DEF Awaits, Graph, Kinds
  <2> QED
    BY <2>2, <2>4
<1>9. ASSUME NEW y \in Handles, NEW x \in ToSet(parents[y]) PROVE x[1] # f
  <2>1. Awaits(x[1], x[2])
    BY DEF Graph, NodesAwait
  <2> QED
    BY <1>0, <2>1 DEF Awaits, Static
<1>10. /\ parents' \in [Handles -> Seq(Nodes)] /\ parents'[f] = <<>>
       /\ \A y \in Handles : y # f => parents'[y] = parents[y]
  BY <1>0, <1>2
<1>11. \A y \in Handles : y # f =>
            /\ Sublist(parents'[y], parents[y])
            /\ ToSet(parents'[y]) \subseteq ToSet(parents[y])
            /\ \A x \in ToSet(parents[y]) : x[1] # f => x \in ToSet(parents'[y])
            /\ \A x \in ToSet(parents'[y]) : x[1] = f => f \in Conditions /\ kids'[f] = kids[f]
  BY <1>4, <1>9, <1>10
<1>12. LeftOver(age, f, rest)
  BY <1>3, <1>5 DEF LeftOver
<1>13. Follows(f, chain)
  BY <1>2, <1>4 DEF Follows
<1>14. Detached(f)
  BY <1>0, <1>2, <1>10, <1>11 DEF Detached
<1>15. Resumes(f, chain)
  BY <1>4, <1>6, <1>8 DEF Resumes
<1> QED
  BY <1>0, <1>1, <1>5, <1>12, <1>13, <1>14, <1>15, FinishStep

-----------------------------------------------------------------------------
\* An AwaitAll or a condition is unblocked.

\* Every node of h's chain is a place where its handle has h as a child, so
\* that the chain may be unblocked when h finishes.
LEMMA AllFollow ==
  ASSUME NEW age \in [Static -> Nat], Graph(age), NEW h \in Handles
  PROVE  Follows(h, parents[h])
<1>1. parents[h] \in Seq(Nodes)
  BY DEF Graph, GraphTyped
<1> QED
  BY <1>1, SelfSublist DEF Follows

\* When it is its turn, or that of its current child, it has no other node.
LEMMA NextLeft ==
  ASSUME NEW age \in [Static -> Nat], Graph(age), chains # <<>>, NextNode[1] \in Static,
         NextNode[1] \in AwaitAlls => NextNode[2] = unfinished[NextNode[1]]
  PROVE  LeftOver(age, NextNode[1], AfterNode)
<1>1. /\ AfterNode \in Seq(Seq(Nodes)) /\ WellOrdered(age, AfterNode)
      /\ PendingNodes(chains) = PendingNodes(AfterNode) \cup {NextNode}
      /\ NextNode[1] \in Handles /\ NextNode[2] \in Nat
      /\ PendingNodes(AfterNode) \subseteq Nodes
  BY NextNodeEffect
<1>2. ASSUME NEW x \in PendingNodes(AfterNode) PROVE x[1] # NextNode[1]
  <2> SUFFICES ASSUME x[1] = NextNode[1] PROVE FALSE
    OBVIOUS
  <2>1. x[1] \in AwaitAlls /\ x[2] > NextNode[2]
    BY NextNodeEffect
  <2>2. x \in PendingNodes(chains)
    BY <1>1
  <2>3. x[2] <= unfinished[x[1]]
    BY <2>1, <2>2 DEF Graph, PendingAwait
  <2>4. x[2] > unfinished[x[1]]
    BY <2>1
  <2>5. x[2] \in Nat /\ unfinished[x[1]] \in Nat
    <3>1. x[2] \in 1..MaxChildren /\ MaxChildren \in Nat
      BY <1>1, GraphFacts, AsioAssumption
    <3>2. unfinished[x[1]] \in Nat
      BY <2>1 DEF Graph, GraphTyped
    <3> QED
      BY <3>1, <3>2
  <2> QED
    BY <2>3, <2>4, <2>5
<1>3. ASSUME NEW x \in PendingNodes(AfterNode), x[1] \in Static PROVE age[x[1]] > age[NextNode[1]]
  BY <1>2, <1>3, NextNodeEffect
<1> QED
  BY <1>1, <1>2, <1>3 DEF LeftOver

\* No chain holds a node of a handle whose children are finished.
LEMMA NoNodes ==
  ASSUME NEW age \in [Static -> Nat], Graph(age), NEW p \in Handles,
         \A i \in DOMAIN kids[p] : Finished(kids[p][i])
  PROVE  \A y \in Handles : \A x \in ToSet(parents[y]) : x[1] # p
<1> SUFFICES ASSUME NEW y \in Handles, NEW x \in ToSet(parents[y]), x[1] = p PROVE FALSE
  OBVIOUS
<1>1. x[2] \in DOMAIN kids[p] /\ kids[p][x[2]] = y
  BY DEF Graph, NodesAwait, Awaits
<1>2. Finished(y)
  BY <1>1
<1>3. parents[y] = <<>>
  BY <1>2 DEF Graph, Created, Live
<1> QED
  BY <1>3, EmptyEffect

\* All its children are finished.
LEMMA GraphLast ==
  ASSUME NEW age \in [Static -> Nat], Graph(age), awaitAllOnUnblockedLast, Resumed' = Resumed
  PROVE  Graph(age)'
<1> DEFINE a == NextNode[1]
           i == NextNode[2]
<1>1. /\ chains # <<>> /\ a \in AwaitAlls /\ i = unfinished[a] /\ UnfinishedBelow(a, i) = {}
      /\ state' = [state EXCEPT ![a] = "succeeded"]
      /\ parents' = [parents EXCEPT ![a] = <<>>]
      /\ chains' = Pending(AfterNode, parents[a])
      /\ kids' = kids /\ unfinished' = unfinished
  BY DEF awaitAllOnUnblockedLast, Finish
<1>2. a \in Static /\ a \in Handles /\ a \notin Conditions
  BY <1>1, AsioAssumption DEF Static, Handles
<1>3. LeftOver(age, a, AfterNode)
  BY <1>1, <1>2, NextLeft
<1>4. Follows(a, parents[a])
  BY <1>2, AllFollow
<1>5. Awaits(a, i) /\ Finished(kids[a][i]) /\ a # Resumed /\ i \in Nat
  BY <1>1, NextNodeEffect
<1> HIDE DEF a, i
<1>6. Live(a)
  BY <1>2, <1>5 DEF Awaits, Live, Finished
<1>7. /\ parents \in [Handles -> Seq(Nodes)] /\ kids \in [Handles -> Seq(Handles)]
      /\ unfinished \in [AwaitAlls -> Nat] /\ unfinished[a] <= Len(kids[a])
      /\ \A j \in DOMAIN kids[a] : j > unfinished[a] => Finished(kids[a][j])
  BY <1>1 DEF Graph, GraphTyped, Kinds
<1>8. ASSUME NEW j \in DOMAIN kids[a] PROVE Finished(kids[a][j])
  <2>1. j \in 1..MaxChildren /\ MaxChildren \in Nat
    BY <1>2, GraphFacts, AsioAssumption
  <2>2. j \in 1..(i - 1) \/ j = i \/ j > i
    BY <1>5, <2>1
  <2>3. j \in 1..(i - 1) => Finished(kids[a][j])
    BY <1>1 DEF UnfinishedBelow
  <2> QED
    BY <1>1, <1>5, <1>7, <2>2, <2>3
<1>9. \A y \in Handles : \A x \in ToSet(parents[y]) : x[1] # a
  BY <1>2, <1>8, NoNodes
<1>10. /\ parents' \in [Handles -> Seq(Nodes)] /\ parents'[a] = <<>>
       /\ \A y \in Handles : y # a => parents'[y] = parents[y]
  BY <1>1, <1>2, <1>7
<1>11. \A y \in Handles : Sublist(parents[y], parents[y])
  BY <1>7, SelfSublist
<1>12. Detached(a)
  BY <1>1, <1>7, <1>9, <1>10, <1>11 DEF Detached
<1>13. Resumes(a, parents[a])
  BY DEF Resumes
<1>14. "succeeded" \in Ends
  BY DEF Ends
<1> QED
  BY <1>1, <1>2, <1>3, <1>4, <1>5, <1>6, <1>12, <1>13, <1>14, FinishStep

\* The next child that an AwaitAll waits for.
LEMMA NextUnfinishedEffect ==
  ASSUME NEW age \in [Static -> Nat], Graph(age), NEW a \in AwaitAlls,
         NEW i \in DOMAIN kids[a], i = unfinished[a], Finished(kids[a][i]), UnfinishedBelow(a, i) # {}
  PROVE  /\ NextUnfinished(a, i) \in DOMAIN kids[a] /\ NextUnfinished(a, i) < i
         /\ ~Finished(kids[a][NextUnfinished(a, i)])
         /\ \A j \in DOMAIN kids[a] : j > NextUnfinished(a, i) => Finished(kids[a][j])
<1>1. a \in Handles /\ kids[a] \in Seq(Handles)
  BY DEF Handles, Graph, GraphTyped
<1>2. DOMAIN kids[a] = 1..Len(kids[a]) /\ Len(kids[a]) \in Nat /\ i \in Nat /\ i >= 1 /\ i <= Len(kids[a])
  BY <1>1
<1> DEFINE T == UnfinishedBelow(a, i)
           n == NextUnfinished(a, i)
<1>3. T \in SUBSET (1..(i - 1)) /\ T # {} /\ i - 1 \in Nat
  BY <1>2 DEF UnfinishedBelow
<1>4. \E x \in T : \A y \in T : y <= x
  <2> HIDE DEF T
  <2> QED
    BY <1>3, Greatest
<1>5. n \in T /\ \A k \in T : k <= n
  BY <1>4, Zenon DEF NextUnfinished
<1>6. \A j \in 1..(i - 1) : j \in T <=> ~Finished(kids[a][j])
  BY DEF UnfinishedBelow
<1> HIDE DEF T, n
<1>7. n \in 1..(i - 1) /\ n \in DOMAIN kids[a] /\ n < i /\ ~Finished(kids[a][n])
  BY <1>2, <1>3, <1>5, <1>6
<1>8. ASSUME NEW j \in DOMAIN kids[a], j > n PROVE Finished(kids[a][j])
  <2>1. j \in 1..(i - 1) \/ j = i \/ j > i
    BY <1>2
  <2>2. CASE j \in 1..(i - 1)
    <3>1. j \notin T
      BY <1>5, <1>7, <1>8, <2>2
    <3> QED
      BY <1>6, <2>2, <3>1
  <2>3. CASE j > i
    BY <2>3 DEF Graph, Kinds
  <2> QED
    BY <2>1, <2>2, <2>3
<1> QED
  BY <1>7, <1>8 DEF n

\* It fails, because its next child waits for it.
LEMMA GraphCycle ==
  ASSUME NEW age \in [Static -> Nat], Graph(age), awaitAllOnUnblockedCycle, Resumed' = Resumed
  PROVE  Graph(age)'
<1> DEFINE a == NextNode[1]
           i == NextNode[2]
           n == NextUnfinished(a, i)
<1>1. /\ chains # <<>> /\ a \in AwaitAlls /\ i = unfinished[a] /\ UnfinishedBelow(a, i) # {}
      /\ unfinished' = [unfinished EXCEPT ![a] = n]
      /\ state' = [state EXCEPT ![a] = "failed"]
      /\ parents' = [h \in Handles |-> IF h = a THEN <<>> ELSE removeFromChain(parents[h], a)]
      /\ chains' = Pending(AfterNode, parents[a])
      /\ kids' = kids
  BY DEF awaitAllOnUnblockedCycle
<1>2. a \in Static /\ a \in Handles /\ a \notin Conditions
  BY <1>1, AsioAssumption DEF Static, Handles
<1>3. LeftOver(age, a, AfterNode)
  BY <1>1, <1>2, NextLeft
<1>4. Follows(a, parents[a])
  BY <1>2, AllFollow
<1>5. Awaits(a, i) /\ Finished(kids[a][i]) /\ a # Resumed /\ i \in Nat /\ i \in DOMAIN kids[a]
  BY <1>1, NextNodeEffect DEF Awaits
<1> HIDE DEF a, i
<1>6. Live(a)
  BY <1>2, <1>5 DEF Awaits, Live, Finished
<1>7. /\ parents \in [Handles -> Seq(Nodes)] /\ kids \in [Handles -> Seq(Handles)]
      /\ unfinished \in [AwaitAlls -> Nat] /\ unfinished[a] <= Len(kids[a])
  BY <1>1 DEF Graph, GraphTyped, Kinds
<1>8. /\ n \in DOMAIN kids[a] /\ \A j \in DOMAIN kids[a] : j > n => Finished(kids[a][j])
  BY <1>1, <1>5, NextUnfinishedEffect
<1> HIDE DEF n
<1>9. n \in Nat /\ n <= Len(kids[a])
  BY <1>2, <1>7, <1>8
<1>10. ASSUME NEW h \in Handles
       PROVE  /\ removeFromChain(parents[h], a) \in Seq(Nodes)
              /\ Sublist(removeFromChain(parents[h], a), parents[h])
              /\ ToSet(removeFromChain(parents[h], a)) = {x \in ToSet(parents[h]) : x[1] # a}
  <2> DEFINE S == {x \in ToSet(parents[h]) : x[1] # a}
  <2>1. parents[h] \in Seq(Nodes) /\ S \subseteq ToSet(parents[h])
    BY <1>7
  <2>2. removeFromChain(parents[h], a) = Only(parents[h], S)
    BY DEF removeFromChain
  <2> HIDE DEF S
  <2>3. /\ Only(parents[h], S) \in Seq(Nodes) /\ Sublist(Only(parents[h], S), parents[h])
        /\ ToSet(Only(parents[h], S)) = ToSet(parents[h]) \cap S
    BY <2>1, OnlyEffect
  <2>4. ToSet(parents[h]) \cap S = S
    BY <2>1
  <2>5. ToSet(removeFromChain(parents[h], a)) = S
    BY <2>2, <2>3, <2>4
  <2> QED
    BY <2>2, <2>3, <2>5 DEF S
<1>11. /\ parents' \in [Handles -> Seq(Nodes)] /\ parents'[a] = <<>>
       /\ \A y \in Handles : y # a => parents'[y] = removeFromChain(parents[y], a)
  <2>1. <<>> \in Seq(Nodes)
    OBVIOUS
  <2> QED
    BY <1>1, <1>2, <1>10, <2>1
<1>12. \A y \in Handles : y # a =>
         /\ Sublist(parents'[y], parents[y])
         /\ ToSet(parents'[y]) \subseteq ToSet(parents[y])
         /\ \A x \in ToSet(parents[y]) : x[1] # a => x \in ToSet(parents'[y])
         /\ \A x \in ToSet(parents'[y]) : x[1] # a
  BY <1>10, <1>11
<1>13. /\ unfinished' \in [AwaitAlls -> Nat] /\ unfinished'[a] = n
       /\ \A x \in AwaitAlls : x # a => unfinished'[x] = unfinished[x]
  BY <1>1, <1>7, <1>9
<1>14. Detached(a)
  BY <1>1, <1>7, <1>8, <1>9, <1>11, <1>12, <1>13 DEF Detached
<1>15. Resumes(a, parents[a])
  BY DEF Resumes
<1>16. "failed" \in Ends
  BY DEF Ends
<1> QED
  BY <1>1, <1>2, <1>3, <1>4, <1>5, <1>6, <1>14, <1>15, <1>16, FinishStep

\* A condition fails, because its child finished before it was notified.
LEMMA GraphConditionFails ==
  ASSUME NEW age \in [Static -> Nat], Graph(age), conditionOnUnblocked, ~Finished(NextNode[1]),
         Resumed' = Resumed
  PROVE  Graph(age)'
<1> DEFINE c == NextNode[1]
           i == NextNode[2]
<1>1. /\ chains # <<>> /\ c \in Conditions
      /\ state' = [state EXCEPT ![c] = "failed"]
      /\ parents' = [parents EXCEPT ![c] = <<>>]
      /\ chains' = Pending(AfterNode, parents[c])
      /\ kids' = [kids EXCEPT ![c] = <<>>] /\ unfinished' = unfinished
  BY DEF conditionOnUnblocked, Finish
<1>2. c \in Static /\ c \in Handles /\ c \notin AwaitAlls
  BY <1>1, AsioAssumption DEF Static, Handles
<1>3. LeftOver(age, c, AfterNode)
  BY <1>1, <1>2, NextLeft
<1>4. Follows(c, parents[c])
  BY <1>2, AllFollow
<1>5. Awaits(c, i) /\ Finished(kids[c][i]) /\ c # Resumed
  BY <1>1, NextNodeEffect
<1>6. Live(c)
  BY <1>2, <1>5 DEF Awaits, Live, Finished
<1> HIDE DEF c, i
<1>7. /\ parents \in [Handles -> Seq(Nodes)] /\ kids \in [Handles -> Seq(Handles)]
      /\ unfinished \in [AwaitAlls -> Nat] /\ DOMAIN kids[c] \subseteq {1}
  BY <1>1 DEF Graph, GraphTyped, Kinds
<1>8. \A j \in DOMAIN kids[c] : Finished(kids[c][j])
  BY <1>5, <1>7 DEF Awaits
<1>9. \A y \in Handles : \A x \in ToSet(parents[y]) : x[1] # c
  BY <1>2, <1>8, NoNodes
<1>10. /\ parents' \in [Handles -> Seq(Nodes)] /\ parents'[c] = <<>>
       /\ \A y \in Handles : y # c => parents'[y] = parents[y]
  BY <1>1, <1>2, <1>7
<1>11. \A y \in Handles : Sublist(parents[y], parents[y])
  BY <1>7, SelfSublist
<1>12. /\ kids' \in [Handles -> Seq(Handles)] /\ kids'[c] = <<>>
       /\ \A y \in Handles : y # c => kids'[y] = kids[y]
  BY <1>1, <1>2, <1>7
<1>13. Detached(c)
  BY <1>1, <1>2, <1>7, <1>9, <1>10, <1>11, <1>12 DEF Detached
<1>14. Resumes(c, parents[c])
  BY DEF Resumes
<1>15. "failed" \in Ends
  BY DEF Ends
<1> QED
  BY <1>1, <1>2, <1>3, <1>4, <1>5, <1>6, <1>13, <1>14, <1>15, FinishStep

\* A later child of an AwaitAll finished, or the child of a condition that was
\* notified before.
LEMMA GraphLater ==
  ASSUME NEW age \in [Static -> Nat], Graph(age), chains # <<>>, chains' = AfterNode,
         \/ /\ NextNode[1] \in AwaitAlls /\ NextNode[2] # unfinished[NextNode[1]]
            /\ kids' = kids
         \/ /\ NextNode[1] \in Conditions /\ Finished(NextNode[1])
            /\ kids' = [kids EXCEPT ![NextNode[1]] = <<>>],
         UNCHANGED <<state, parents, unfinished>>, Resumed' = Resumed
  PROVE  Graph(age)'
<1> DEFINE p == NextNode[1]
           i == NextNode[2]
<1>0. state' = state /\ parents' = parents /\ unfinished' = unfinished
  OBVIOUS
<1>1. /\ p \in Handles /\ NextNode = <<p, i>> /\ AfterNode \in Seq(Seq(Nodes)) /\ WellOrdered(age, AfterNode)
      /\ PendingNodes(chains) = PendingNodes(AfterNode) \cup {<<p, i>>}
      /\ PendingNodes(AfterNode) \subseteq Nodes
      /\ Awaits(p, i) /\ Finished(kids[p][i])
      /\ \A x \in PendingNodes(AfterNode) : x[1] = p => p \in AwaitAlls
  BY NextNodeEffect
<1>2. AwaitAlls \cap Conditions = {}
  BY AsioAssumption
<1>3. \A y \in Handles : kids'[y] = kids[y] \/ (y = p /\ y \in Conditions /\ Finished(p) /\ kids'[p] = <<>>)
  <2>1. kids \in [Handles -> Seq(Handles)]
    BY DEF Graph, GraphTyped
  <2> QED
    BY <1>1, <2>1
<1>4. p \in AwaitAlls => i # unfinished[p]
  BY <1>2
<1> HIDE DEF p, i
<1>5. DOMAIN <<>> = {} /\ <<>> \in Seq(Handles) /\ Len(<<>>) = 0 /\ MaxChildren \in Nat
  BY AsioAssumption
<1>6. \A y \in Handles : \A j \in DOMAIN kids'[y] : j \in DOMAIN kids[y] /\ kids'[y][j] = kids[y][j]
  BY <1>3, <1>5
<1>7. \A y \in Handles : state[y] = "blocked" => kids'[y] = kids[y]
  BY <1>3 DEF Finished
<1>8. \A y \in Handles : y \notin Conditions => kids'[y] = kids[y]
  BY <1>3
\* No chain holds a node of a condition whose child is finished.
<1>9. p \in Conditions => \A y \in Handles : \A x \in ToSet(parents[y]) : x[1] # p
  <2>1. p \in Conditions => \A j \in DOMAIN kids[p] : Finished(kids[p][j])
    BY <1>1 DEF Awaits, Graph, Kinds
  <2> QED
    BY <1>1, <2>1, NoNodes
<1>10. GraphTyped'
  <2>1. kids' \in [Handles -> Seq(Handles)]
    BY <1>5 DEF Graph, GraphTyped
  <2> QED
    BY <1>0, <1>1, <2>1 DEF Graph, GraphTyped
<1>11. Kinds'
  <2>1. ASSUME NEW f \in AsyncFunctions
        PROVE  /\ state'[f] \in {"none", "blocked", "ready", "running"} \cup Ends
               /\ DOMAIN kids'[f] \subseteq {1}
               /\ state'[f] \in {"blocked", "ready", "running"} => 1 \in DOMAIN kids'[f]
               /\ state'[f] \in {"ready", "running"} => Finished(kids[f][1])'
    <3>1. kids'[f] = kids[f]
      BY <1>8, AsioAssumption DEF Handles
    <3> QED
      BY <1>0, <3>1 DEF Graph, Kinds, Finished
  <2>2. ASSUME NEW a \in AwaitAlls
        PROVE  /\ state'[a] \in {"none", "blocked"} \cup Ends
               /\ unfinished'[a] <= Len(kids'[a])
               /\ state'[a] = "blocked" => unfinished'[a] \in DOMAIN kids'[a]
               /\ \A j \in DOMAIN kids'[a] : j > unfinished'[a] => Finished(kids[a][j])'
    <3>1. kids'[a] = kids[a]
      BY <1>8, AsioAssumption DEF Handles
    <3> QED
      BY <1>0, <3>1 DEF Graph, Kinds, Finished
  <2>3. ASSUME NEW c \in Conditions
        PROVE  /\ state'[c] \in {"none", "blocked"} \cup Ends
               /\ DOMAIN kids'[c] \subseteq {1}
               /\ state'[c] = "blocked" => 1 \in DOMAIN kids'[c]
    <3>1. c \in Handles
      BY DEF Handles
    <3> QED
      BY <1>0, <1>6, <1>7, <3>1 DEF Graph, Kinds
  <2>4. /\ \A x \in Reschedules : state'[x] \in {"none"} \cup Queues \cup Ends
        /\ \A x \in Leaves : state'[x] \in {"none", "waiting"} \cup Ends
    BY <1>0 DEF Graph, Kinds
  <2>5. \A x \in Handles : Len(kids'[x]) <= MaxChildren
    BY <1>3, <1>5 DEF Graph, Kinds
  <2> QED
    BY <2>1, <2>2, <2>3, <2>4, <2>5 DEF Kinds
<1>12. Created'
  BY <1>0, <1>3, <1>6 DEF Graph, Created, Live, Finished
<1>13. NodesAwait'
  <2> SUFFICES ASSUME NEW y \in Handles, NEW x \in ToSet(parents'[y])
               PROVE  Awaits(x[1], x[2])' /\ kids'[x[1]][x[2]] = y
    BY DEF NodesAwait
  <2>1. Awaits(x[1], x[2]) /\ kids[x[1]][x[2]] = y /\ x[1] \in Handles
    BY <1>0, GraphFacts DEF Graph, NodesAwait
  <2>2. kids'[x[1]] = kids[x[1]]
    BY <1>0, <1>3, <1>9, <2>1
  <2> QED
    BY <1>0, <2>1, <2>2 DEF Awaits, Finished
<1>14. AwaitedHaveNodes'
  BY <1>0, <1>7 DEF Graph, AwaitedHaveNodes, Live, Finished
<1>15. PendingAwait'
  <2> SUFFICES ASSUME NEW x \in PendingNodes(AfterNode)
               PROVE  /\ Awaits(x[1], x[2])'
                      /\ Finished(kids[x[1]][x[2]])'
                      /\ x[1] \in AwaitAlls => x[2] <= unfinished'[x[1]]
                      /\ x[1] # Resumed'
    BY DEF PendingAwait
  <2>1. x \in PendingNodes(chains) /\ x[1] \in Handles
    BY <1>1, GraphFacts
  <2>2. kids'[x[1]] = kids[x[1]]
    BY <1>1, <1>2, <1>3, <2>1
  <2> QED
    BY <1>0, <2>1, <2>2 DEF Graph, PendingAwait, Awaits, Finished
<1>16. FinishedPending'
  <2> SUFFICES ASSUME NEW q \in Handles, state'[q] = "blocked", Finished(kids[q][Current(q)])'
               PROVE  q = Resumed' \/ <<q, Current(q)'>> \in PendingNodes(AfterNode)
    BY DEF FinishedPending
  <2>1. state[q] = "blocked" /\ Current(q)' = Current(q) /\ kids'[q] = kids[q]
    BY <1>0, <1>7 DEF Current
  <2>2. q = Resumed \/ <<q, Current(q)>> \in PendingNodes(chains)
    BY <1>0, <2>1 DEF Graph, FinishedPending, Finished
  <2>3. <<q, Current(q)>> # <<p, i>>
    <3>1. CASE p \in AwaitAlls
      BY <1>4, <3>1 DEF Current
    <3>2. CASE p \in Conditions /\ Finished(p)
      BY <2>1, <3>2 DEF Finished
    <3> QED
      BY <3>1, <3>2 DEF p
  <2> QED
    BY <1>1, <2>1, <2>2, <2>3
<1>17. ResumedIsBlocked'
  <2> SUFFICES ASSUME Resumed # None
               PROVE  /\ Resumed \in AsyncFunctions /\ state'[Resumed] = "blocked"
                      /\ Finished(kids[Resumed][1])'
    BY DEF ResumedIsBlocked
  <2>1. Resumed \in AsyncFunctions /\ state[Resumed] = "blocked" /\ Finished(kids[Resumed][1])
    BY DEF Graph, ResumedIsBlocked
  <2>2. kids'[Resumed] = kids[Resumed]
    BY <1>7, <2>1 DEF Handles
  <2> QED
    BY <1>0, <2>1, <2>2 DEF Finished
<1>18. InOrder(age)'
  BY <1>0, <1>1 DEF Graph, InOrder
<1>19. Acyclic(Child)'
  <2>1. Child' = Child
    BY <1>0, <1>7 DEF Child, getChild
  <2> QED
    BY <2>1 DEF Graph
<1> QED
  BY <1>10, <1>11, <1>12, <1>13, <1>14, <1>15, <1>16, <1>17, <1>18, <1>19 DEF Graph

\* What detectCycle looks through.
LEMMA DescentIsBelow ==
  ASSUME NEW h
  PROVE  Descent(h) = Below(h, Child)
<1>1. [x \in Handles |-> {getChild(x)} \ {None}] = [x \in Handles |-> {Child[x]} \ {None}]
  BY DEF Child
<1> QED
  BY <1>1 DEF Descent, Below

\* The current child of an AwaitAll finished, and another takes its place.
LEMMA GraphNext ==
  ASSUME NEW age \in [Static -> Nat], Graph(age), awaitAllOnUnblockedNext, Resumed' = Resumed
  PROVE  Graph(age)'
<1> DEFINE a == NextNode[1]
           i == NextNode[2]
           n == NextUnfinished(a, i)
<1>1. /\ chains # <<>> /\ a \in AwaitAlls /\ i = unfinished[a] /\ UnfinishedBelow(a, i) # {}
      /\ unfinished' = [unfinished EXCEPT ![a] = n]
      /\ chains' = AfterNode /\ ~detectCycle(a, kids[a][n])
      /\ state' = state /\ parents' = parents /\ kids' = kids
  BY DEF awaitAllOnUnblockedNext
<1>2. a \in Static /\ a \in Handles /\ a \notin Conditions /\ a \notin AsyncFunctions
  BY <1>1, AsioAssumption DEF Static, Handles
<1>3. LeftOver(age, a, AfterNode)
  BY <1>1, <1>2, NextLeft
<1>4. Awaits(a, i) /\ Finished(kids[a][i]) /\ i \in DOMAIN kids[a] /\ a # Resumed
  BY <1>1, NextNodeEffect DEF Awaits
<1> HIDE DEF a, i
<1>5. /\ n \in DOMAIN kids[a] /\ ~Finished(kids[a][n])
      /\ \A j \in DOMAIN kids[a] : j > n => Finished(kids[a][j])
  BY <1>1, <1>4, NextUnfinishedEffect
<1> HIDE DEF n
<1>6. state[a] = "blocked"
  BY <1>2, <1>4 DEF Awaits
<1>7. n \in Nat /\ n <= Len(kids[a]) /\ kids[a][n] \in Handles
  <2>1. kids[a] \in Seq(Handles)
    BY <1>2 DEF Graph, GraphTyped
  <2> QED
    BY <1>5, <2>1
<1>8. /\ unfinished' \in [AwaitAlls -> Nat] /\ unfinished'[a] = n
      /\ \A x \in AwaitAlls : x # a => unfinished'[x] = unfinished[x]
  BY <1>1, <1>7 DEF Graph, GraphTyped
<1>9. /\ AfterNode \in Seq(Seq(Nodes)) /\ WellOrdered(age, AfterNode)
      /\ PendingNodes(AfterNode) \subseteq PendingNodes(chains)
      /\ \A x \in PendingNodes(AfterNode) : x[1] # a
      /\ \A x \in PendingNodes(chains) : x \in PendingNodes(AfterNode) \/ x[1] = a
  BY <1>3 DEF LeftOver
<1>10. GraphTyped'
  BY <1>1, <1>8, <1>9 DEF Graph, GraphTyped
<1>11. Kinds'
  <2>1. ASSUME NEW x \in AwaitAlls
        PROVE  /\ state'[x] \in {"none", "blocked"} \cup Ends
               /\ unfinished'[x] <= Len(kids'[x])
               /\ state'[x] = "blocked" => unfinished'[x] \in DOMAIN kids'[x]
               /\ \A j \in DOMAIN kids'[x] : j > unfinished'[x] => Finished(kids[x][j])'
    <3>1. CASE x = a
      BY <1>1, <1>5, <1>7, <1>8, <3>1 DEF Graph, Kinds, Finished
    <3>2. CASE x # a
      BY <1>1, <1>8, <3>2 DEF Graph, Kinds, Finished
    <3> QED
      BY <3>1, <3>2
  <2>2. /\ \A x \in Reschedules : state'[x] \in {"none"} \cup Queues \cup Ends
        /\ \A x \in Leaves : state'[x] \in {"none", "waiting"} \cup Ends
        /\ \A x \in Handles : Len(kids'[x]) <= MaxChildren
    BY <1>1 DEF Graph, Kinds
  <2>3. \A f \in AsyncFunctions :
          /\ state'[f] \in {"none", "blocked", "ready", "running"} \cup Ends
          /\ DOMAIN kids'[f] \subseteq {1}
          /\ state'[f] \in {"blocked", "ready", "running"} => 1 \in DOMAIN kids'[f]
          /\ state'[f] \in {"ready", "running"} => Finished(kids[f][1])'
    BY <1>1 DEF Graph, Kinds, Finished
  <2>4. \A c \in Conditions :
          /\ state'[c] \in {"none", "blocked"} \cup Ends
          /\ DOMAIN kids'[c] \subseteq {1}
          /\ state'[c] = "blocked" => 1 \in DOMAIN kids'[c]
    BY <1>1 DEF Graph, Kinds
  <2> QED
    BY <2>1, <2>2, <2>3, <2>4 DEF Kinds
<1>12. Created' /\ NodesAwait' /\ AwaitedHaveNodes'
  <2>1. Created'
    BY <1>1 DEF Graph, Created, Live, Finished
  <2>2. NodesAwait'
    BY <1>1 DEF Graph, NodesAwait, Awaits, Finished
  <2>3. AwaitedHaveNodes'
    BY <1>1 DEF Graph, AwaitedHaveNodes, Live, Finished
  <2> QED
    BY <2>1, <2>2, <2>3
<1>13. PendingAwait'
  <2> SUFFICES ASSUME NEW x \in PendingNodes(AfterNode)
               PROVE  /\ Awaits(x[1], x[2])'
                      /\ Finished(kids[x[1]][x[2]])'
                      /\ x[1] \in AwaitAlls => x[2] <= unfinished'[x[1]]
                      /\ x[1] # Resumed'
    BY <1>1 DEF PendingAwait
  <2>1. x \in PendingNodes(chains) /\ x[1] # a
    BY <1>9
  <2> QED
    BY <1>1, <1>8, <2>1 DEF Graph, PendingAwait, Awaits, Finished
<1>14. FinishedPending'
  <2> SUFFICES ASSUME NEW q \in Handles, state'[q] = "blocked", Finished(kids[q][Current(q)])'
               PROVE  q = Resumed' \/ <<q, Current(q)'>> \in PendingNodes(AfterNode)
    BY <1>1 DEF FinishedPending
  <2>1. q # a
    BY <1>1, <1>5, <1>8 DEF Current, Finished
  <2>2. Current(q)' = Current(q)
    BY <1>8, <2>1 DEF Current
  <2>3. q = Resumed \/ <<q, Current(q)>> \in PendingNodes(chains)
    BY <1>1, <2>2 DEF Graph, FinishedPending, Finished
  <2> QED
    BY <1>9, <2>1, <2>2, <2>3
<1>15. ResumedIsBlocked'
  BY <1>1 DEF Graph, ResumedIsBlocked, Finished
<1>16. InOrder(age)'
  BY <1>1, <1>9 DEF Graph, InOrder
<1>17. Acyclic(Child)'
  <2>1. Child'[a] = kids[a][n] /\ \A x \in Handles : x # a => Child'[x] = Child[x]
    BY <1>1, <1>2, <1>6, <1>8 DEF Child, getChild
  <2>2. Child \in [Handles -> Handles \cup {None}] /\ Acyclic(Child)
    BY GraphFacts DEF Graph
  <2>3. Child' \in [Handles -> Handles \cup {None}]
    <3>1. \A y \in Handles : Child'[y] \in Handles \cup {None}
      BY <1>7, <2>1, <2>2
    <3>2. Child' = [y \in Handles |-> Child'[y]]
      BY DEF Child
    <3> QED
      BY <3>1, <3>2
  <2>4. a \notin Below(kids[a][n], Child)
    BY <1>1, DescentIsBelow DEF detectCycle
  <2> QED
    BY <1>2, <1>7, <2>1, <2>2, <2>3, <2>4, AcyclicWith
<1> QED
  BY <1>10, <1>11, <1>12, <1>13, <1>14, <1>15, <1>16, <1>17 DEF Graph

-----------------------------------------------------------------------------
\* A function becomes ready or runs.

\* A function whose child has finished becomes ready or starts to run: no
\* pending node names it any more, and the graph stays in order.
LEMMA FunctionStep ==
  ASSUME NEW age \in [Static -> Nat], Graph(age), NEW f \in AsyncFunctions,
         state[f] \in {"blocked", "ready"}, Finished(kids[f][1]),
         NEW s \in {"ready", "running"}, state' = [state EXCEPT ![f] = s],
         UNCHANGED <<kids, unfinished, parents>>,
         chains' \in Seq(Seq(Nodes)), WellOrdered(age, chains'),
         PendingNodes(chains') \subseteq PendingNodes(chains),
         \A x \in PendingNodes(chains') : x[1] # f,
         \A x \in PendingNodes(chains) : x \in PendingNodes(chains') \/ x[1] = f,
         (Resumed' = Resumed /\ Resumed # f) \/ (Resumed = f /\ Resumed' = None)
  PROVE  Graph(age)'
<1>1. kids' = kids /\ unfinished' = unfinished /\ parents' = parents
  OBVIOUS
<1>2. f \in Handles /\ f \notin Conditions /\ f \notin AwaitAlls
  BY AsioAssumption DEF Handles
<1>3. state'[f] = s /\ \A y \in Handles : y # f => state'[y] = state[y]
  BY <1>2 DEF Graph, GraphTyped
<1>4. DOMAIN kids[f] = {1} /\ kids[f][1] \in Handles
  <2>1. DOMAIN kids[f] = {1}
    BY DEF Graph, Kinds
  <2> QED
    BY <1>2, <2>1, GraphFacts
<1>5. \A y \in Handles : \A x \in ToSet(parents[y]) : x[1] # f
  BY <1>2, <1>4, NoNodes
<1>6. \A y \in Handles : Finished(y)' <=> Finished(y)
  BY <1>3 DEF Finished
<1>7. \A y \in Handles : Live(y)' <=> Live(y)
  BY <1>3, <1>6 DEF Live, Finished
<1>8. None \notin Handles
  BY AsioAssumption
<1>9. GraphTyped'
  <2>1. state' \in [Handles -> States]
    BY DEF Graph, GraphTyped, States
  <2> QED
    BY <1>1, <2>1 DEF Graph, GraphTyped
<1>10. Kinds'
  <2>1. ASSUME NEW g \in AsyncFunctions
        PROVE  /\ state'[g] \in {"none", "blocked", "ready", "running"} \cup Ends
               /\ DOMAIN kids'[g] \subseteq {1}
               /\ state'[g] \in {"blocked", "ready", "running"} => 1 \in DOMAIN kids'[g]
               /\ state'[g] \in {"ready", "running"} => Finished(kids[g][1])'
    <3>1. g \in Handles
      BY DEF Handles
    <3>2. CASE g = f
      <4>1. Finished(kids[g][1])'
        BY <1>1, <1>3, <1>4, <3>2 DEF Finished
      <4> QED
        BY <1>1, <1>3, <1>4, <3>2, <4>1
    <3>3. CASE g # f
      <4>0. state'[g] = state[g] /\ kids'[g] = kids[g]
        BY <1>1, <1>3, <3>1, <3>3
      <4>1. /\ state[g] \in {"none", "blocked", "ready", "running"} \cup Ends
            /\ DOMAIN kids[g] \subseteq {1}
            /\ state[g] \in {"blocked", "ready", "running"} => 1 \in DOMAIN kids[g]
            /\ state[g] \in {"ready", "running"} => Finished(kids[g][1])
        BY DEF Graph, Kinds
      <4>2. 1 \in DOMAIN kids[g] => kids[g][1] \in Handles
        BY <3>1, GraphFacts
      <4>3. state[g] \in {"ready", "running"} => Finished(kids[g][1])'
        BY <1>1, <1>3, <4>1, <4>2 DEF Finished
      <4> QED
        BY <4>0, <4>1, <4>3
    <3> QED
      BY <3>2, <3>3
  <2>2. ASSUME NEW a \in AwaitAlls
        PROVE  /\ state'[a] \in {"none", "blocked"} \cup Ends
               /\ unfinished'[a] <= Len(kids'[a])
               /\ state'[a] = "blocked" => unfinished'[a] \in DOMAIN kids'[a]
               /\ \A j \in DOMAIN kids'[a] : j > unfinished'[a] => Finished(kids[a][j])'
    <3>1. a \in Handles /\ a # f
      BY <1>2 DEF Handles
    <3>2. \A j \in DOMAIN kids[a] : kids[a][j] \in Handles
      BY <3>1, GraphFacts
    <3> QED
      BY <1>1, <1>3, <3>1, <3>2 DEF Graph, Kinds, Finished
  <2>3. ASSUME NEW c \in Conditions
        PROVE  /\ state'[c] \in {"none", "blocked"} \cup Ends
               /\ DOMAIN kids'[c] \subseteq {1}
               /\ state'[c] = "blocked" => 1 \in DOMAIN kids'[c]
    <3>1. c \in Handles /\ c # f
      BY <1>2 DEF Handles
    <3> QED
      BY <1>1, <1>3, <3>1 DEF Graph, Kinds
  <2>4. /\ \A x \in Reschedules : state'[x] \in {"none"} \cup Queues \cup Ends
        /\ \A x \in Leaves : state'[x] \in {"none", "waiting"} \cup Ends
        /\ \A x \in Handles : Len(kids'[x]) <= MaxChildren
    <3>1. \A x \in Reschedules \cup Leaves : x \in Handles /\ x # f
      BY AsioAssumption DEF Handles
    <3> QED
      BY <1>1, <1>3, <3>1 DEF Graph, Kinds
  <2> QED
    BY <2>1, <2>2, <2>3, <2>4 DEF Kinds
<1>11. Created'
  <2>1. \A y \in Handles : state[y] # "none" => state'[y] # "none"
    BY <1>3
  <2>2. \A y \in Handles : state'[y] = "none" => state[y] = "none"
    BY <1>3
  <2>3. \A y \in Handles : ~Live(y)' => ~Live(y)
    BY <1>7
  <2>4. ASSUME NEW y \in Handles, NEW i \in DOMAIN kids[y] PROVE state'[kids[y][i]] # "none"
    <3>1. kids[y][i] \in Handles /\ state[kids[y][i]] # "none"
      BY <2>4, GraphFacts DEF Graph, Created
    <3> QED
      BY <2>1, <3>1
  <2>5. \A y \in Handles : state'[y] = "none" => kids[y] = <<>>
    BY <2>2 DEF Graph, Created
  <2>6. \A y \in Handles : ~Live(y)' => parents[y] = <<>>
    BY <2>3 DEF Graph, Created
  <2> QED
    BY <1>1, <2>4, <2>5, <2>6 DEF Created
<1>12. NodesAwait'
  <2> SUFFICES ASSUME NEW y \in Handles, NEW x \in ToSet(parents'[y])
               PROVE  Awaits(x[1], x[2])' /\ kids'[x[1]][x[2]] = y
    BY DEF NodesAwait
  <2>1. Awaits(x[1], x[2]) /\ kids[x[1]][x[2]] = y /\ x[1] \in Handles /\ x[1] # f
    BY <1>1, <1>5, GraphFacts DEF Graph, NodesAwait
  <2> QED
    BY <1>1, <1>3, <2>1 DEF Awaits, Finished
<1>13. AwaitedHaveNodes'
  <2> SUFFICES ASSUME NEW p \in Handles, state'[p] = "blocked", NEW i \in DOMAIN kids[p],
                      Live(kids[p][i])'
               PROVE  <<p, i>> \in ToSet(parents[kids[p][i]])
    BY <1>1 DEF AwaitedHaveNodes
  <2>1. state[p] = "blocked" /\ kids[p][i] \in Handles
    BY <1>3, GraphFacts
  <2>2. Live(kids[p][i])
    BY <1>1, <1>3, <2>1 DEF Live, Finished
  <2> QED
    BY <2>1, <2>2 DEF Graph, AwaitedHaveNodes
<1>14. PendingAwait'
  <2> SUFFICES ASSUME NEW x \in PendingNodes(chains')
               PROVE  /\ Awaits(x[1], x[2])'
                      /\ Finished(kids[x[1]][x[2]])'
                      /\ x[1] \in AwaitAlls => x[2] <= unfinished'[x[1]]
                      /\ x[1] # Resumed'
    BY DEF PendingAwait
  <2>1. x \in PendingNodes(chains) /\ x[1] # f /\ x[1] \in Handles
    BY GraphFacts
  <2>2. /\ Awaits(x[1], x[2]) /\ Finished(kids[x[1]][x[2]])
        /\ x[1] \in AwaitAlls => x[2] <= unfinished[x[1]]
        /\ x[1] # Resumed
    BY <2>1 DEF Graph, PendingAwait
  <2>3. kids[x[1]][x[2]] \in Handles
    BY <2>1, <2>2, GraphFacts DEF Awaits
  <2>4. x[1] # Resumed'
    BY <1>8, <2>1, <2>2
  <2>5. Finished(kids[x[1]][x[2]])'
    BY <1>1, <1>3, <2>2, <2>3 DEF Finished
  <2> QED
    BY <1>1, <1>3, <2>1, <2>2, <2>4, <2>5 DEF Awaits, Finished
<1>15. FinishedPending'
  <2> SUFFICES ASSUME NEW q \in Handles, state'[q] = "blocked", Finished(kids[q][Current(q)])'
               PROVE  q = Resumed' \/ <<q, Current(q)'>> \in PendingNodes(chains')
    BY DEF FinishedPending
  <2>1. q # f /\ state[q] = "blocked" /\ Current(q)' = Current(q)
    BY <1>1, <1>3 DEF Current
  <2>2. kids[q][Current(q)] \in Handles
    BY <2>1, GraphFacts
  <2>3. Finished(kids[q][Current(q)])
    BY <1>1, <1>3, <2>1, <2>2 DEF Finished
  <2>4. q = Resumed \/ <<q, Current(q)>> \in PendingNodes(chains)
    BY <2>1, <2>3 DEF Graph, FinishedPending
  <2> QED
    BY <2>1, <2>4
<1>16. ResumedIsBlocked'
  <2> SUFFICES ASSUME Resumed' # None
               PROVE  /\ Resumed' \in AsyncFunctions /\ state'[Resumed'] = "blocked"
                      /\ Finished(kids[Resumed][1])'
    BY DEF ResumedIsBlocked
  <2>1. Resumed' = Resumed /\ Resumed # f
    OBVIOUS
  <2>2. Resumed \in AsyncFunctions /\ state[Resumed] = "blocked" /\ Finished(kids[Resumed][1])
    BY <2>1 DEF Graph, ResumedIsBlocked
  <2>3. Resumed \in Handles
    BY <2>2 DEF Handles
  <2>4. Current(Resumed) = 1
    BY <2>2, AsioAssumption DEF Current
  <2>5. kids[Resumed][1] \in Handles
    BY <2>2, <2>3, <2>4, GraphFacts
  <2> QED
    BY <1>1, <1>3, <2>1, <2>2, <2>3, <2>5 DEF Finished
<1>17. InOrder(age)'
  BY <1>1 DEF Graph, InOrder
<1>18. Acyclic(Child)'
  <2>1. \A y \in Handles : Child'[y] = Child[y] \/ Child'[y] = None
    BY <1>1, <1>3 DEF Child, getChild
  <2>2. Child \in [Handles -> Handles \cup {None}] /\ Acyclic(Child)
    BY GraphFacts DEF Graph
  <2>3. Child' \in [Handles -> Handles \cup {None}]
    <3>1. \A y \in Handles : Child'[y] \in Handles \cup {None}
      BY <2>1, <2>2
    <3>2. Child' = [y \in Handles |-> Child'[y]]
      BY DEF Child
    <3> QED
      BY <3>1, <3>2
  <2> QED
    BY <2>1, <2>2, <2>3, AcyclicWithout
<1> QED
  BY <1>9, <1>10, <1>11, <1>12, <1>13, <1>14, <1>15, <1>16, <1>17, <1>18 DEF Graph

-----------------------------------------------------------------------------
\* A handle is created, or a function blocks again.

\* A leaf or a reschedule is created.
LEMMA NewStep ==
  ASSUME NEW age \in [Static -> Nat], Graph(age), NEW h \in Reschedules \cup Leaves,
         state[h] = "none",
         NEW s, h \in Reschedules => s \in Queues, h \in Leaves => s = "waiting",
         state' = [state EXCEPT ![h] = s], kids' = [kids EXCEPT ![h] = <<>>],
         UNCHANGED <<unfinished, parents, chains>>, Resumed' = Resumed
  PROVE  Graph(age)'
<1>0. h \in Handles
  BY DEF Handles
<1>1. kids' = kids /\ unfinished' = unfinished /\ parents' = parents /\ chains' = chains
  <2>1. kids[h] = <<>> /\ kids \in [Handles -> Seq(Handles)]
    BY <1>0 DEF Graph, Created, GraphTyped
  <2> QED
    BY <1>0, <2>1
<1>2. s \in {"waiting", "default", "noPendingIO"}
  BY DEF Queues
<1>3. state'[h] = s /\ \A y \in Handles : y # h => state'[y] = state[y]
  BY <1>0 DEF Graph, GraphTyped
<1>4. \A y \in Handles : Finished(y)' <=> Finished(y)
  BY <1>2, <1>3 DEF Finished
<1>5. \A y \in Handles : Finished(y) => y # h
  BY DEF Finished
<1>6. \A y \in Handles : \A i \in DOMAIN kids[y] : kids[y][i] \in Handles /\ kids[y][i] # h
  BY GraphFacts DEF Graph, Created
<1>7. \A y \in Handles : state'[y] = "blocked" <=> state[y] = "blocked"
  BY <1>2, <1>3
<1>8. GraphTyped'
  <2>1. state' \in [Handles -> States]
    BY <1>2 DEF Graph, GraphTyped, States, Queues
  <2> QED
    BY <1>1, <2>1 DEF Graph, GraphTyped
<1>9. Kinds'
  <2>1. ASSUME NEW g \in AsyncFunctions
        PROVE  /\ state'[g] \in {"none", "blocked", "ready", "running"} \cup Ends
               /\ DOMAIN kids'[g] \subseteq {1}
               /\ state'[g] \in {"blocked", "ready", "running"} => 1 \in DOMAIN kids'[g]
               /\ state'[g] \in {"ready", "running"} => Finished(kids[g][1])'
    <3>1. g \in Handles /\ g # h
      BY AsioAssumption DEF Handles
    <3>2. state'[g] = state[g] /\ kids'[g] = kids[g]
      BY <1>1, <1>3, <3>1
    <3>3. /\ state[g] \in {"none", "blocked", "ready", "running"} \cup Ends
          /\ DOMAIN kids[g] \subseteq {1}
          /\ state[g] \in {"blocked", "ready", "running"} => 1 \in DOMAIN kids[g]
          /\ state[g] \in {"ready", "running"} => Finished(kids[g][1])
      BY DEF Graph, Kinds
    <3>4. state[g] \in {"ready", "running"} => Finished(kids[g][1])'
      BY <1>1, <1>3, <1>6, <3>1, <3>3 DEF Finished
    <3> QED
      BY <3>2, <3>3, <3>4
  <2>2. ASSUME NEW a \in AwaitAlls
        PROVE  /\ state'[a] \in {"none", "blocked"} \cup Ends
               /\ unfinished'[a] <= Len(kids'[a])
               /\ state'[a] = "blocked" => unfinished'[a] \in DOMAIN kids'[a]
               /\ \A j \in DOMAIN kids'[a] : j > unfinished'[a] => Finished(kids[a][j])'
    <3>1. a \in Handles /\ a # h
      BY AsioAssumption DEF Handles
    <3> QED
      BY <1>1, <1>3, <1>6, <3>1 DEF Graph, Kinds, Finished
  <2>3. ASSUME NEW c \in Conditions
        PROVE  /\ state'[c] \in {"none", "blocked"} \cup Ends
               /\ DOMAIN kids'[c] \subseteq {1}
               /\ state'[c] = "blocked" => 1 \in DOMAIN kids'[c]
    <3>1. c \in Handles /\ c # h
      BY AsioAssumption DEF Handles
    <3> QED
      BY <1>1, <1>3, <3>1 DEF Graph, Kinds
  <2>4. \A x \in Reschedules : state'[x] \in {"none"} \cup Queues \cup Ends
    BY <1>3 DEF Graph, Kinds, Handles
  <2>5. \A x \in Leaves : state'[x] \in {"none", "waiting"} \cup Ends
    BY <1>3 DEF Graph, Kinds, Handles
  <2>6. \A x \in Handles : Len(kids'[x]) <= MaxChildren
    BY <1>1 DEF Graph, Kinds
  <2> QED
    BY <2>1, <2>2, <2>3, <2>4, <2>5, <2>6 DEF Kinds
<1>10. Created'
  <2>1. \A y \in Handles : \A i \in DOMAIN kids[y] : state'[kids[y][i]] # "none"
    BY <1>3, <1>6 DEF Graph, Created
  <2>2. \A y \in Handles : state'[y] = "none" => kids[y] = <<>>
    BY <1>2, <1>3 DEF Graph, Created
  <2>3. \A y \in Handles : ~Live(y)' => parents[y] = <<>>
    BY <1>2, <1>3 DEF Graph, Created, Live, Finished
  <2> QED
    BY <1>1, <2>1, <2>2, <2>3 DEF Created
<1>11. NodesAwait'
  <2> SUFFICES ASSUME NEW y \in Handles, NEW x \in ToSet(parents'[y])
               PROVE  Awaits(x[1], x[2])' /\ kids'[x[1]][x[2]] = y
    BY DEF NodesAwait
  <2>1. Awaits(x[1], x[2]) /\ kids[x[1]][x[2]] = y /\ x[1] \in Handles
    BY <1>1, GraphFacts DEF Graph, NodesAwait
  <2> QED
    BY <1>1, <1>3, <2>1 DEF Awaits, Finished
<1>12. AwaitedHaveNodes'
  <2> SUFFICES ASSUME NEW p \in Handles, state'[p] = "blocked", NEW i \in DOMAIN kids[p],
                      Live(kids[p][i])'
               PROVE  <<p, i>> \in ToSet(parents[kids[p][i]])
    BY <1>1 DEF AwaitedHaveNodes
  <2>1. state[p] = "blocked" /\ kids[p][i] \in Handles /\ kids[p][i] # h
    BY <1>6, <1>7
  <2>2. Live(kids[p][i])
    BY <1>1, <1>3, <2>1 DEF Live, Finished
  <2> QED
    BY <2>1, <2>2 DEF Graph, AwaitedHaveNodes
<1>13. PendingAwait'
  <2> SUFFICES ASSUME NEW x \in PendingNodes(chains)
               PROVE  /\ Awaits(x[1], x[2])'
                      /\ Finished(kids[x[1]][x[2]])'
                      /\ x[1] \in AwaitAlls => x[2] <= unfinished'[x[1]]
                      /\ x[1] # Resumed'
    BY <1>1 DEF PendingAwait
  <2>1. /\ Awaits(x[1], x[2]) /\ Finished(kids[x[1]][x[2]])
        /\ x[1] \in AwaitAlls => x[2] <= unfinished[x[1]]
        /\ x[1] # Resumed /\ x[1] \in Handles
    BY GraphFacts DEF Graph, PendingAwait
  <2>2. kids[x[1]][x[2]] \in Handles /\ kids[x[1]][x[2]] # h
    BY <1>6, <2>1 DEF Awaits
  <2> QED
    BY <1>1, <1>3, <2>1, <2>2 DEF Awaits, Finished
<1>14. FinishedPending'
  <2> SUFFICES ASSUME NEW q \in Handles, state'[q] = "blocked", Finished(kids[q][Current(q)])'
               PROVE  q = Resumed \/ <<q, Current(q)>> \in PendingNodes(chains)
    BY <1>1 DEF FinishedPending, Current
  <2>1. state[q] = "blocked" /\ Current(q)' = Current(q)
    BY <1>1, <1>7 DEF Current
  <2>2. kids[q][Current(q)] \in Handles /\ kids[q][Current(q)] # h
    BY <1>6, <2>1, GraphFacts
  <2>3. Finished(kids[q][Current(q)])
    BY <1>1, <1>3, <2>1, <2>2 DEF Finished
  <2> QED
    BY <2>1, <2>3 DEF Graph, FinishedPending
<1>15. ResumedIsBlocked'
  <2> SUFFICES ASSUME Resumed # None
               PROVE  /\ Resumed \in AsyncFunctions /\ state'[Resumed] = "blocked"
                      /\ Finished(kids[Resumed][1])'
    BY DEF ResumedIsBlocked
  <2>2. Resumed \in AsyncFunctions /\ state[Resumed] = "blocked" /\ Finished(kids[Resumed][1])
    BY DEF Graph, ResumedIsBlocked
  <2>3. Resumed \in Handles
    BY <2>2 DEF Handles
  <2>4. Current(Resumed) = 1
    BY <2>2, AsioAssumption DEF Current
  <2>5. kids[Resumed][1] \in Handles /\ kids[Resumed][1] # h
    BY <1>6, <2>2, <2>3, <2>4, GraphFacts
  <2> QED
    BY <1>1, <1>3, <2>2, <2>3, <2>5 DEF Finished
<1>16. InOrder(age)'
  BY <1>1 DEF Graph, InOrder
<1>17. Acyclic(Child)'
  <2>1. Child' = Child
    BY <1>1, <1>7 DEF Child, getChild
  <2> QED
    BY <2>1 DEF Graph
<1> QED
  BY <1>8, <1>9, <1>10, <1>11, <1>12, <1>13, <1>14, <1>15, <1>16, <1>17 DEF Graph

\* p is now blocked on the handles of ks, and is in their chains.
BlockedOn(p, ks) ==
  /\ ks \in Seq(Handles) /\ ks # <<>> /\ Len(ks) <= MaxChildren
  /\ \A i \in DOMAIN ks : Live(ks[i]) /\ ks[i] # p
  /\ p \notin AwaitAlls => DOMAIN ks = {1}
  /\ state' = [state EXCEPT ![p] = "blocked"]
  /\ kids' = [kids EXCEPT ![p] = ks]
  /\ unfinished' \in [AwaitAlls -> Nat]
  /\ \A a \in AwaitAlls : unfinished'[a] = IF a = p THEN Len(ks) ELSE unfinished[a]
  /\ parents' \in [Handles -> Seq(Nodes)]
  /\ \A y \in Handles :
       ToSet(parents'[y]) = ToSet(parents[y]) \cup {<<p, i>> : i \in {j \in DOMAIN ks : ks[j] = y}}

\* p is the youngest of its kind, if it has just been created.
Younger(age, new, p) ==
  /\ new \in [Static -> Nat]
  /\ \A x, y \in Static : (x # p /\ y # p /\ age[x] > age[y]) => new[x] > new[y]
  /\ p \in Static => \A x \in Static : x # p => new[x] > new[p]

\* A handle that has just been blocked on the children ks is younger than
\* everything that waits, so that its nodes end every chain they are put on;
\* detectCycle, for a function that already exists, keeps the graph acyclic.
LEMMA BlockStep ==
  ASSUME NEW age \in [Static -> Nat], Graph(age), chains = <<>>,
         NEW p \in AsyncFunctions \cup Static, NEW ks,
         state[p] = "none" \/ (p \in AsyncFunctions /\ state[p] = "running"),
         BlockedOn(p, ks),
         NEW new, Younger(age, new, p), \A y \in Handles : Ordered(new, parents'[y]),
         state[p] = "running" => ~detectCycle(p, ks[1]),
         Resumed = None, Resumed' = None, chains' = <<>>
  PROVE  Graph(new)'
<1>0. p \in Handles /\ None \notin Handles
  BY AsioAssumption DEF Handles, Static
<1>1. /\ ks \in Seq(Handles) /\ ks # <<>> /\ Len(ks) <= MaxChildren
      /\ \A i \in DOMAIN ks : Live(ks[i]) /\ ks[i] # p
      /\ p \notin AwaitAlls => DOMAIN ks = {1}
  BY DEF BlockedOn
<1>2. DOMAIN ks = 1..Len(ks) /\ Len(ks) \in Nat \ {0} /\ \A i \in DOMAIN ks : ks[i] \in Handles
  BY <1>1
<1>3. /\ state' = [state EXCEPT ![p] = "blocked"] /\ kids' = [kids EXCEPT ![p] = ks]
      /\ unfinished' \in [AwaitAlls -> Nat]
      /\ \A a \in AwaitAlls : unfinished'[a] = IF a = p THEN Len(ks) ELSE unfinished[a]
      /\ parents' \in [Handles -> Seq(Nodes)]
  BY DEF BlockedOn
<1>4. \A y \in Handles :
        ToSet(parents'[y]) = ToSet(parents[y]) \cup {<<p, i>> : i \in {j \in DOMAIN ks : ks[j] = y}}
  BY DEF BlockedOn
<1>5. /\ state'[p] = "blocked" /\ kids'[p] = ks
      /\ \A y \in Handles : y # p => state'[y] = state[y] /\ kids'[y] = kids[y]
  BY <1>0, <1>3 DEF Graph, GraphTyped
<1>6. PendingNodes(<<>>) = {} /\ chains' \in Seq(Seq(Nodes)) /\ WellOrdered(new, chains')
  BY NothingPending
<1>7. \A y \in Handles : Finished(y)' <=> Finished(y)
  BY <1>5 DEF Finished
<1>8. \A y \in Handles : (Finished(y) => y # p) /\ (Live(y) /\ y # p => Live(y)')
  BY <1>5 DEF Finished, Live
<1>9. \A y \in Handles : Live(y)' => Live(y) \/ y = p
  BY <1>5 DEF Finished, Live
\* No chain has a node of p yet.
<1>10. \A y \in Handles : \A x \in ToSet(parents[y]) : x[1] # p
  <2> SUFFICES ASSUME NEW y \in Handles, NEW x \in ToSet(parents[y]), x[1] = p PROVE FALSE
    OBVIOUS
  <2>1. Awaits(p, x[2])
    BY DEF Graph, NodesAwait
  <2> QED
    BY <2>1 DEF Awaits, Finished
<1>11. GraphTyped'
  <2>1. state' \in [Handles -> States]
    BY <1>3 DEF Graph, GraphTyped, States
  <2>2. kids' \in [Handles -> Seq(Handles)]
    BY <1>1, <1>3 DEF Graph, GraphTyped
  <2> QED
    BY <1>3, <1>6, <2>1, <2>2 DEF GraphTyped
<1>12. Kinds'
  <2>1. ASSUME NEW g \in AsyncFunctions
        PROVE  /\ state'[g] \in {"none", "blocked", "ready", "running"} \cup Ends
               /\ DOMAIN kids'[g] \subseteq {1}
               /\ state'[g] \in {"blocked", "ready", "running"} => 1 \in DOMAIN kids'[g]
               /\ state'[g] \in {"ready", "running"} => Finished(kids[g][1])'
    <3>1. g \in Handles /\ g \notin AwaitAlls
      BY AsioAssumption DEF Handles
    <3>2. CASE g = p
      BY <1>1, <1>5, <3>1, <3>2
    <3>3. CASE g # p
      <4>1. state'[g] = state[g] /\ kids'[g] = kids[g]
        BY <1>5, <3>1, <3>3
      <4>2. /\ state[g] \in {"none", "blocked", "ready", "running"} \cup Ends
            /\ DOMAIN kids[g] \subseteq {1}
            /\ state[g] \in {"blocked", "ready", "running"} => 1 \in DOMAIN kids[g]
            /\ state[g] \in {"ready", "running"} => Finished(kids[g][1])
        BY DEF Graph, Kinds
      <4>3. 1 \in DOMAIN kids[g] => kids[g][1] \in Handles
        BY <3>1, GraphFacts
      <4>4. state[g] \in {"ready", "running"} => Finished(kids[g][1])'
        BY <1>5, <4>1, <4>2, <4>3 DEF Finished
      <4> QED
        BY <4>1, <4>2, <4>4
    <3> QED
      BY <3>2, <3>3
  <2>2. ASSUME NEW a \in AwaitAlls
        PROVE  /\ state'[a] \in {"none", "blocked"} \cup Ends
               /\ unfinished'[a] <= Len(kids'[a])
               /\ state'[a] = "blocked" => unfinished'[a] \in DOMAIN kids'[a]
               /\ \A j \in DOMAIN kids'[a] : j > unfinished'[a] => Finished(kids[a][j])'
    <3>1. a \in Handles
      BY AsioAssumption DEF Handles
    <3>2. CASE a = p
      <4>1. kids'[a] = ks /\ unfinished'[a] = Len(ks) /\ state'[a] = "blocked"
        BY <1>3, <1>5, <3>2
      <4>2. \A j \in DOMAIN ks : ~(j > Len(ks))
        BY <1>2
      <4> QED
        BY <1>2, <4>1, <4>2
    <3>3. CASE a # p
      <4>1. state'[a] = state[a] /\ kids'[a] = kids[a] /\ unfinished'[a] = unfinished[a]
        BY <1>3, <1>5, <3>1, <3>3
      <4>2. \A j \in DOMAIN kids[a] : kids[a][j] \in Handles
        BY <3>1, GraphFacts
      <4>3. \A j \in DOMAIN kids[a] : Finished(kids[a][j]) => state'[kids[a][j]] \in {"succeeded", "failed"}
        BY <1>5, <4>2 DEF Finished
      <4> QED
        BY <4>1, <4>3 DEF Graph, Kinds, Finished
    <3> QED
      BY <3>2, <3>3
  <2>3. ASSUME NEW c \in Conditions
        PROVE  /\ state'[c] \in {"none", "blocked"} \cup Ends
               /\ DOMAIN kids'[c] \subseteq {1}
               /\ state'[c] = "blocked" => 1 \in DOMAIN kids'[c]
    <3>1. c \in Handles /\ c \notin AwaitAlls
      BY AsioAssumption DEF Handles
    <3> QED
      BY <1>1, <1>5, <3>1 DEF Graph, Kinds
  <2>4. /\ \A x \in Reschedules : state'[x] \in {"none"} \cup Queues \cup Ends
        /\ \A x \in Leaves : state'[x] \in {"none", "waiting"} \cup Ends
    <3>1. \A x \in Reschedules \cup Leaves : x \in Handles /\ x # p
      BY AsioAssumption DEF Handles, Static
    <3> QED
      BY <1>5, <3>1 DEF Graph, Kinds
  <2>5. \A x \in Handles : Len(kids'[x]) <= MaxChildren
    BY <1>1, <1>5 DEF Graph, Kinds
  <2> QED
    BY <2>1, <2>2, <2>3, <2>4, <2>5 DEF Kinds
<1>13. Created'
  <2>1. ASSUME NEW y \in Handles, NEW i \in DOMAIN kids'[y] PROVE state'[kids'[y][i]] # "none"
    <3>1. CASE y = p
      <4>1. Live(ks[i]) /\ ks[i] # p /\ ks[i] \in Handles /\ kids'[y] = ks
        BY <1>1, <1>2, <1>5, <2>1, <3>1
      <4> QED
        BY <1>5, <4>1 DEF Live
    <3>2. CASE y # p
      <4>1. kids'[y] = kids[y] /\ kids[y][i] \in Handles /\ state[kids[y][i]] # "none"
        BY <1>5, <2>1, <3>2, GraphFacts DEF Graph, Created
      <4> QED
        BY <1>5, <4>1
    <3> QED
      BY <3>1, <3>2
  <2>2. \A y \in Handles : state'[y] = "none" => kids'[y] = <<>>
    BY <1>5 DEF Graph, Created
  <2>3. ASSUME NEW y \in Handles, ~Live(y)' PROVE parents'[y] = <<>>
    <3>1. y # p /\ ~Live(y)
      BY <1>5, <2>3 DEF Live, Finished
    <3>2. parents[y] = <<>>
      BY <3>1 DEF Graph, Created
    <3>3. \A j \in DOMAIN ks : ks[j] # y
      BY <1>1, <3>1
    <3>4. ToSet(parents'[y]) = {} /\ parents'[y] \in Seq(Nodes)
      BY <1>3, <1>4, <3>2, <3>3, EmptyEffect
    <3> QED
      BY <3>4, EmptyEffect
  <2> QED
    BY <2>1, <2>2, <2>3 DEF Created
<1>14. NodesAwait'
  <2> SUFFICES ASSUME NEW y \in Handles, NEW x \in ToSet(parents'[y])
               PROVE  Awaits(x[1], x[2])' /\ kids'[x[1]][x[2]] = y
    BY DEF NodesAwait
  <2>1. CASE x \in ToSet(parents[y])
    <3>1. Awaits(x[1], x[2]) /\ kids[x[1]][x[2]] = y /\ x[1] \in Handles /\ x[1] # p
      BY <1>10, <2>1, GraphFacts DEF Graph, NodesAwait
    <3> QED
      BY <1>5, <3>1 DEF Awaits, Finished
  <2>2. CASE x \in {<<p, i>> : i \in {j \in DOMAIN ks : ks[j] = y}}
    <3>1. PICK j \in DOMAIN ks : x = <<p, j>> /\ ks[j] = y
      BY <2>2
    <3>2. x[1] = p /\ x[2] = j
      BY <3>1
    <3> QED
      BY <1>5, <3>1, <3>2 DEF Awaits
  <2> QED
    BY <1>4, <2>1, <2>2
<1>15. AwaitedHaveNodes'
  <2> SUFFICES ASSUME NEW q \in Handles, state'[q] = "blocked", NEW i \in DOMAIN kids'[q],
                      Live(kids[q][i])'
               PROVE  <<q, i>> \in ToSet(parents'[kids'[q][i]])
    BY DEF AwaitedHaveNodes
  <2>1. CASE q = p
    <3>1. kids'[q] = ks /\ i \in DOMAIN ks /\ ks[i] \in Handles
      BY <1>2, <1>5, <2>1
    <3> QED
      BY <1>4, <2>1, <3>1
  <2>2. CASE q # p
    <3>1. kids'[q] = kids[q] /\ state[q] = "blocked" /\ kids[q][i] \in Handles
      BY <1>5, <2>2, GraphFacts
    <3>2. Live(kids[q][i])
      <4>1. CASE kids[q][i] = p
        <5>1. state[p] # "none"
          BY <3>1, <4>1 DEF Graph, Created
        <5> QED
          BY <4>1, <5>1 DEF Live, Finished
      <4>2. CASE kids[q][i] # p
        BY <1>5, <3>1, <4>2 DEF Live, Finished
      <4> QED
        BY <4>1, <4>2
    <3>3. <<q, i>> \in ToSet(parents[kids[q][i]])
      BY <3>1, <3>2 DEF Graph, AwaitedHaveNodes
    <3> QED
      BY <1>4, <3>1, <3>3
  <2> QED
    BY <2>1, <2>2
<1>16. PendingAwait'
  BY <1>6 DEF PendingAwait
<1>17. Current(p)' \in DOMAIN ks /\ \A q \in Handles : q # p => Current(q)' = Current(q)
  BY <1>1, <1>2, <1>3 DEF Current
<1>18. FinishedPending'
  <2> SUFFICES ASSUME NEW q \in Handles, state'[q] = "blocked", Finished(kids[q][Current(q)])'
               PROVE  FALSE
    BY DEF FinishedPending
  <2>1. CASE q = p
    <3>1. kids'[q][Current(q)'] = ks[Current(q)'] /\ Current(q)' \in DOMAIN ks
      BY <1>5, <1>17, <2>1
    <3> DEFINE k == ks[Current(q)']
    <3>2. Live(k) /\ k # p /\ k \in Handles
      BY <1>1, <1>2, <3>1
    <3>3. state'[k] = state[k]
      BY <1>5, <3>2
    <3>4. state'[k] \in {"succeeded", "failed"}
      BY <3>1 DEF Finished
    <3> QED
      BY <3>2, <3>3, <3>4 DEF Live, Finished
  <2>2. CASE q # p
    <3>1. state[q] = "blocked" /\ kids'[q] = kids[q] /\ Current(q)' = Current(q)
      BY <1>5, <1>17, <2>2
    <3>2. kids[q][Current(q)] \in Handles
      BY <3>1, GraphFacts
    <3>3. Finished(kids[q][Current(q)])
      BY <1>5, <3>1, <3>2 DEF Finished
    <3>4. q = Resumed \/ <<q, Current(q)>> \in PendingNodes(chains)
      BY <3>1, <3>3 DEF Graph, FinishedPending
    <3> QED
      BY <1>0, <1>6, <3>4
  <2> QED
    BY <2>1, <2>2
<1>19. ResumedIsBlocked'
  BY DEF ResumedIsBlocked
<1>20. InOrder(new)'
  <2>1. ASSUME NEW h \in Static, NEW x \in ToSet(parents'[h]), x[1] \in Static PROVE new[h] > new[x[1]]
    <3>0. h \in Handles
      BY DEF Static, Handles
    <3>1. CASE x \in ToSet(parents[h])
      <4>1. x[1] # p
        BY <1>10, <3>0, <3>1
      <4>2. h # p
        <5> SUFFICES ASSUME h = p PROVE FALSE
          OBVIOUS
        <5>1. p \notin AsyncFunctions
          BY <2>1, AsioAssumption DEF Static
        <5>2. parents[p] = <<>>
          BY <1>0, <5>1 DEF Graph, Created, Live
        <5> QED
          BY <3>1, <5>2, EmptyEffect
      <4>3. age[h] > age[x[1]]
        BY <2>1, <3>1 DEF Graph, InOrder
      <4> QED
        BY <2>1, <4>1, <4>2, <4>3 DEF Younger
    <3>2. CASE x \in {<<p, i>> : i \in {j \in DOMAIN ks : ks[j] = h}}
      <4>1. PICK j \in DOMAIN ks : x = <<p, j>> /\ ks[j] = h
        BY <3>2
      <4>2. x[1] = p /\ h # p
        BY <1>1, <4>1
      <4> QED
        BY <2>1, <4>2 DEF Younger
    <3> QED
      BY <1>4, <2>1, <3>0, <3>1, <3>2
  <2> QED
    BY <1>6, <2>1 DEF InOrder
<1>21. Acyclic(Child)'
  <2>1. Child'[p] = ks[Current(p)'] /\ \A x \in Handles : x # p => Child'[x] = Child[x]
    BY <1>0, <1>3, <1>5 DEF Child, getChild, Current
  <2>2. Child \in [Handles -> Handles \cup {None}] /\ Acyclic(Child)
    BY GraphFacts DEF Graph
  <2>3. ks[Current(p)'] \in Handles /\ ks[Current(p)'] # p
    BY <1>1, <1>2, <1>17
  <2>4. Child' \in [Handles -> Handles \cup {None}]
    <3>1. \A y \in Handles : Child'[y] \in Handles \cup {None}
      BY <2>1, <2>2, <2>3
    <3>2. Child' = [y \in Handles |-> Child'[y]]
      BY DEF Child
    <3> QED
      BY <3>1, <3>2
  <2>5. CASE state[p] = "none"
    <3>1. ASSUME NEW x \in Handles PROVE Child[x] # p
      <4>1. CASE state[x] = "blocked"
        <5>1. Child[x] = kids[x][Current(x)] /\ Current(x) \in DOMAIN kids[x]
          BY <4>1, GraphFacts
        <5> QED
          BY <2>5, <5>1 DEF Graph, Created
      <4>2. CASE state[x] # "blocked"
        BY <1>0, <4>2, GraphFacts
      <4> QED
        BY <4>1, <4>2
    <3> QED
      BY <1>0, <2>1, <2>2, <2>3, <2>4, <3>1, AcyclicNew
  <2>6. CASE state[p] = "running"
    <3>1. Current(p)' = 1
      BY <2>6, AsioAssumption DEF Current
    <3>2. p \notin Below(ks[1], Child)
      BY <2>6, DescentIsBelow DEF detectCycle
    <3> QED
      BY <1>0, <2>1, <2>2, <2>3, <2>4, <3>1, <3>2, AcyclicWith
  <2> QED
    BY <2>5, <2>6
<1> QED
  BY <1>11, <1>12, <1>13, <1>14, <1>15, <1>16, <1>18, <1>19, <1>20, <1>21 DEF Graph

\* There is always an age later than all the others.
LEMMA YoungerExists ==
  ASSUME NEW age \in [Static -> Nat], NEW p
  PROVE  \E new \in [Static -> Nat] : Younger(age, new, p)
<1> DEFINE new == [x \in Static |-> IF x = p THEN 0 ELSE age[x] + 1]
<1>1. new \in [Static -> Nat]
  OBVIOUS
<1>2. \A x \in Static : new[x] = (IF x = p THEN 0 ELSE age[x] + 1) /\ age[x] \in Nat
  OBVIOUS
<1> HIDE DEF new
<1>3. Younger(age, new, p)
  BY <1>1, <1>2 DEF Younger
<1> QED
  BY <1>1, <1>3

\* The older ones keep their order.
LEMMA YoungerKeepsOrder ==
  ASSUME NEW age, NEW new, NEW p, Younger(age, new, p), NEW s \in Seq(Nodes), Ordered(age, s),
         \A x \in ToSet(s) : x[1] # p
  PROVE  Ordered(new, s)
<1> SUFFICES ASSUME NEW m \in DOMAIN s, NEW n \in DOMAIN s, m < n PROVE Older(new, s[m], s[n])
  BY DEF Ordered
<1>1. s[m][1] # p /\ s[n][1] # p
  BY DEF ToSet
<1>2. Older(age, s[m], s[n])
  BY DEF Ordered
<1> QED
  BY <1>1, <1>2 DEF Older, Younger

\* The youngest handle's nodes come last.
LEMMA YoungestLast ==
  ASSUME NEW age, NEW new, NEW p, Younger(age, new, p), NEW x, NEW y, x[1] # p, y[1] = p
  PROVE  Older(new, x, y)
  BY DEF Older, Younger

\* A function or a condition blocks on one handle.
LEMMA BlockOne ==
  ASSUME NEW age \in [Static -> Nat], Graph(age), chains = <<>>,
         NEW p \in AsyncFunctions \cup Conditions, NEW child \in Handles, Live(child),
         \/ state[p] = "none"
         \/ p \in AsyncFunctions /\ state[p] = "running" /\ ~detectCycle(p, child),
         state' = [state EXCEPT ![p] = "blocked"],
         kids' = [kids EXCEPT ![p] = <<child>>],
         parents' = [parents EXCEPT ![child] = Append(@, <<p, 1>>)],
         UNCHANGED <<unfinished, chains>>,
         Resumed = None, Resumed' = None
  PROVE  \E new \in [Static -> Nat] : Graph(new)'
<1>0. p \in Handles /\ p \notin AwaitAlls /\ p \in AsyncFunctions \cup Static
  BY AsioAssumption DEF Handles, Static
<1>1. PICK new \in [Static -> Nat] : Younger(age, new, p)
  BY YoungerExists
<1>2. p # child
  <2>1. CASE state[p] = "none"
    BY <2>1 DEF Live
  <2>2. CASE ~detectCycle(p, child)
    <3>1. child \in Below(child, Child)
      BY GraphFacts, BelowEffect
    <3> QED
      BY <2>2, <3>1, DescentIsBelow DEF detectCycle
  <2> QED
    BY <2>1, <2>2
<1>3. parents \in [Handles -> Seq(Nodes)] /\ unfinished \in [AwaitAlls -> Nat]
  BY DEF Graph, GraphTyped
<1>4. <<p, 1>> \in Nodes
  BY <1>0, AsioAssumption DEF Nodes
<1> DEFINE node == <<p, 1>>
           ks == <<child>>
<1>5. /\ ks \in Seq(Handles) /\ ks # <<>> /\ Len(ks) = 1 /\ DOMAIN ks = {1} /\ ks[1] = child
  OBVIOUS
<1>6. node \in Nodes /\ node[1] = p
  BY <1>4
<1>7. /\ parents'[child] = Append(parents[child], node)
      /\ \A y \in Handles : y # child => parents'[y] = parents[y]
      /\ parents' \in [Handles -> Seq(Nodes)]
  BY <1>3, <1>4
<1> HIDE DEF ks
<1>8. ToSet(parents'[child]) = ToSet(parents[child]) \cup {node}
  BY <1>3, <1>6, <1>7, AppendEffect
<1>9. ASSUME NEW y \in Handles
      PROVE  ToSet(parents'[y]) = ToSet(parents[y]) \cup {<<p, i>> : i \in {j \in DOMAIN ks : ks[j] = y}}
  <2>1. CASE y = child
    <3>1. {j \in DOMAIN ks : ks[j] = y} = {1}
      BY <1>5, <2>1
    <3>2. {<<p, i>> : i \in {j \in DOMAIN ks : ks[j] = y}} = {<<p, 1>>}
      BY <3>1
    <3> QED
      BY <1>8, <2>1, <3>2
  <2>2. CASE y # child
    <3>1. {j \in DOMAIN ks : ks[j] = y} = {}
      BY <1>5, <2>2
    <3>2. {<<p, i>> : i \in {j \in DOMAIN ks : ks[j] = y}} = {}
      BY <3>1
    <3> QED
      BY <1>7, <2>2, <3>2
  <2> QED
    BY <2>1, <2>2
<1>10. BlockedOn(p, ks)
  <2>1. Len(ks) <= MaxChildren
    BY <1>5, AsioAssumption
  <2>2. kids' = [kids EXCEPT ![p] = ks] /\ unfinished' = unfinished
    BY DEF ks
  <2> QED
    BY <1>0, <1>2, <1>3, <1>5, <1>7, <1>9, <2>1, <2>2 DEF BlockedOn
<1>11. \A y \in Handles : \A x \in ToSet(parents[y]) : x[1] # p
  <2> SUFFICES ASSUME NEW y \in Handles, NEW x \in ToSet(parents[y]), x[1] = p PROVE FALSE
    OBVIOUS
  <2>1. Awaits(p, x[2])
    BY DEF Graph, NodesAwait
  <2> QED
    BY <2>1, AsioAssumption DEF Awaits, Finished
<1>12. ASSUME NEW y \in Handles PROVE Ordered(new, parents'[y])
  <2>1. Ordered(new, parents[y]) /\ parents[y] \in Seq(Nodes)
    BY <1>1, <1>3, <1>11, YoungerKeepsOrder DEF Graph, InOrder
  <2>2. CASE y # child
    BY <1>7, <2>1, <2>2
  <2>3. CASE y = child
    <3> HIDE DEF node
    <3>1. \A x \in ToSet(parents[y]) : Older(new, x, node)
      BY <1>1, <1>6, <1>11, YoungestLast
    <3>2. Ordered(new, Append(parents[y], node))
      BY <1>6, <2>1, <3>1, OrderedAppend
    <3> QED
      BY <1>7, <2>3, <3>2
  <2> QED
    BY <2>2, <2>3
<1>13. state[p] = "running" => ~detectCycle(p, ks[1])
  BY <1>5
<1>14. chains' = <<>>
  OBVIOUS
<1>15. Graph(new)'
  BY <1>0, <1>1, <1>10, <1>12, <1>13, <1>14, BlockStep
<1> QED
  BY <1>15

\* An AwaitAll is created for several handles.
Gathers(a, children, nodes) ==
  /\ state[a] = "none"
  /\ children \in BoundedSeq({h \in Handles : Live(h)}, MaxChildren) /\ children # <<>>
  /\ state' = [state EXCEPT ![a] = "blocked"]
  /\ kids' = [kids EXCEPT ![a] = Reverse(children)]
  /\ unfinished' = [unfinished EXCEPT ![a] = Len(children)]
  /\ nodes = [i \in DOMAIN children |-> <<a, Len(children) + 1 - i>>]
  /\ parents' = [h \in Handles |-> parents[h] \o
                   Only(nodes, {nodes[i] : i \in {j \in DOMAIN children : children[j] = h}})]
  /\ chains' = chains

\* It is blocked on all of them.
LEMMA BlockAll ==
  ASSUME NEW age \in [Static -> Nat], Graph(age), chains = <<>>,
         NEW a \in AwaitAlls, NEW children, NEW nodes, Gathers(a, children, nodes),
         Resumed = None, Resumed' = None
  PROVE  \E new \in [Static -> Nat] : Graph(new)'
<1> SUFFICES ASSUME state[a] = "none",
                    children \in BoundedSeq({h \in Handles : Live(h)}, MaxChildren), children # <<>>,
                    state' = [state EXCEPT ![a] = "blocked"],
                    kids' = [kids EXCEPT ![a] = Reverse(children)],
                    unfinished' = [unfinished EXCEPT ![a] = Len(children)],
                    nodes = [i \in DOMAIN children |-> <<a, Len(children) + 1 - i>>],
                    parents' = [h \in Handles |-> parents[h] \o
                      Only(nodes, {nodes[i] : i \in {j \in DOMAIN children : children[j] = h}})],
                    chains' = chains
             PROVE  \E new \in [Static -> Nat] : Graph(new)'
  BY Zenon DEF Gathers
<1>0. a \in Handles /\ a \in Static /\ a \notin Conditions
  BY AsioAssumption DEF Handles, Static
<1>1. PICK new \in [Static -> Nat] : Younger(age, new, a)
  BY YoungerExists
<1> DEFINE n == Len(children)
           ks == Reverse(children)
           Live0 == {h \in Handles : Live(h)}
<1>2. /\ n \in Nat \ {0} /\ n <= MaxChildren /\ DOMAIN children = 1..n
      /\ \A i \in 1..n : children[i] \in Live0
  <2>1. PICK m \in 0..MaxChildren : children \in [1..m -> Live0]
    BY DEF BoundedSeq, SeqOf
  <2>2. children \in Seq(Live0) /\ Len(children) = m /\ m # 0 /\ DOMAIN children = 1..m
    BY <2>1, AsioAssumption
  <2> HIDE DEF Live0
  <2> QED
    BY <2>1, <2>2, AsioAssumption
<1>3. ks = [i \in 1..n |-> children[(n - i) + 1]]
  BY DEF Reverse
<1> HIDE DEF n, ks
<1>4. \A i \in 1..n : (n - i) + 1 \in 1..n /\ n + 1 - i \in 1..n /\ (n - (n + 1 - i)) + 1 = i
                      /\ n + 1 - ((n - i) + 1) = i
  BY <1>2
<1>5. DOMAIN ks = 1..n /\ \A i \in 1..n : ks[i] = children[(n - i) + 1] /\ ks[i] \in Handles /\ Live(ks[i])
  BY <1>2, <1>3, <1>4
<1>6. ks \in Seq(Handles) /\ Len(ks) = n /\ ks # <<>>
  <2>1. ks \in [1..n -> Handles]
    BY <1>3, <1>5
  <2> QED
    BY <1>2, <2>1
<1>7. DOMAIN nodes = 1..n /\ \A i \in 1..n : nodes[i] = <<a, n + 1 - i>> /\ nodes[i] \in Nodes
  <2>1. nodes = [i \in 1..n |-> <<a, n + 1 - i>>]
    BY <1>2 DEF n
  <2>2. ASSUME NEW i \in 1..n PROVE <<a, n + 1 - i>> \in Nodes
    <3>1. n + 1 - i \in 1..MaxChildren
      BY <1>2, <1>4, AsioAssumption
    <3> QED
      BY <1>0, <3>1 DEF Nodes
  <2> QED
    BY <2>1, <2>2
<1>8. nodes \in Seq(Nodes)
  <2>1. nodes \in [1..n -> Nodes]
    BY <1>2, <1>7 DEF n
  <2> QED
    BY <1>2, <2>1, FunctionIsList
<1> DEFINE Of(h) == {nodes[i] : i \in {j \in 1..n : children[j] = h}}
<1>9. ASSUME NEW h \in Handles PROVE Of(h) = {<<a, i>> : i \in {j \in DOMAIN ks : ks[j] = h}}
  <2>1. ASSUME NEW x \in Of(h) PROVE x \in {<<a, i>> : i \in {j \in DOMAIN ks : ks[j] = h}}
    <3>1. PICK j \in 1..n : x = nodes[j] /\ children[j] = h
      OBVIOUS
    <3> DEFINE i == n + 1 - j
    <3>2. x = <<a, i>>
      BY <1>7, <3>1
    <3>3. i \in 1..n /\ (n - i) + 1 = j
      BY <1>4
    <3> HIDE DEF i
    <3>4. ks[i] = h
      BY <1>5, <3>1, <3>3
    <3> QED
      BY <1>5, <3>2, <3>3, <3>4
  <2>2. ASSUME NEW x \in {<<a, i>> : i \in {j \in DOMAIN ks : ks[j] = h}} PROVE x \in Of(h)
    <3>1. PICK i \in 1..n : x = <<a, i>> /\ ks[i] = h
      BY <1>5
    <3> DEFINE j == (n - i) + 1
    <3>2. j \in 1..n /\ n + 1 - j = i
      BY <1>4
    <3>3. children[j] = h
      BY <1>5, <3>1
    <3> HIDE DEF j
    <3>4. nodes[j] = x
      BY <1>7, <3>1, <3>2
    <3> QED
      BY <3>2, <3>3, <3>4
  <2> QED
    BY <2>1, <2>2
<1>10. ASSUME NEW h \in Handles
       PROVE  /\ parents'[h] = parents[h] \o Only(nodes, Of(h))
              /\ Only(nodes, Of(h)) \in Seq(Nodes)
              /\ Sublist(Only(nodes, Of(h)), nodes)
              /\ ToSet(Only(nodes, Of(h))) = Of(h)
  <2>1. parents'[h] = parents[h] \o Only(nodes, Of(h))
    BY <1>2
  <2>2. Of(h) \subseteq ToSet(nodes)
    BY <1>7 DEF ToSet
  <2> DEFINE S == Of(h)
  <2> HIDE DEF S
  <2>3. /\ Only(nodes, S) \in Seq(Nodes) /\ Sublist(Only(nodes, S), nodes)
        /\ ToSet(Only(nodes, S)) = ToSet(nodes) \cap S
    BY <1>8, OnlyEffect
  <2>4. ToSet(nodes) \cap S = S
    BY <2>2 DEF S
  <2> QED
    BY <2>1, <2>3, <2>4 DEF S
<1> HIDE DEF Of
<1>11. parents \in [Handles -> Seq(Nodes)] /\ unfinished \in [AwaitAlls -> Nat]
  BY DEF Graph, GraphTyped
<1>12. ASSUME NEW h \in Handles
       PROVE  parents'[h] \in Seq(Nodes) /\ ToSet(parents'[h]) = ToSet(parents[h]) \cup Of(h)
  <2> DEFINE s == parents[h]
             t == Only(nodes, Of(h))
  <2>1. s \in Seq(Nodes) /\ t \in Seq(Nodes) /\ parents'[h] = s \o t /\ ToSet(t) = Of(h)
    BY <1>10, <1>11
  <2> HIDE DEF s, t
  <2>2. s \o t \in Seq(Nodes) /\ ToSet(s \o t) = ToSet(s) \cup ToSet(t)
    BY <2>1, ConcatEffect
  <2> QED
    BY <2>1, <2>2 DEF s
<1>13. parents' \in [Handles -> Seq(Nodes)]
  BY <1>12
<1>14. BlockedOn(a, ks)
  <2>1. kids' = [kids EXCEPT ![a] = ks]
    BY DEF ks
  <2>2. unfinished' = [unfinished EXCEPT ![a] = n]
    BY DEF n
  <2>3. unfinished' \in [AwaitAlls -> Nat] /\ \A x \in AwaitAlls : unfinished'[x] = IF x = a THEN Len(ks) ELSE unfinished[x]
    BY <1>2, <1>6, <1>11, <2>2
  <2>4. \A i \in DOMAIN ks : Live(ks[i]) /\ ks[i] # a
    BY <1>5 DEF Live
  <2>5. Len(ks) <= MaxChildren
    BY <1>2, <1>6
  <2>6. \A y \in Handles :
          ToSet(parents'[y]) = ToSet(parents[y]) \cup {<<a, i>> : i \in {j \in DOMAIN ks : ks[j] = y}}
    BY <1>9, <1>12
  <2> QED
    BY <1>6, <1>13, <2>1, <2>3, <2>4, <2>5, <2>6 DEF BlockedOn
<1>15. \A y \in Handles : \A x \in ToSet(parents[y]) : x[1] # a
  <2> SUFFICES ASSUME NEW y \in Handles, NEW x \in ToSet(parents[y]), x[1] = a PROVE FALSE
    OBVIOUS
  <2>1. Awaits(a, x[2])
    BY DEF Graph, NodesAwait
  <2> QED
    BY <2>1 DEF Awaits, Finished
<1>16. Ordered(new, nodes)
  <2> SUFFICES ASSUME NEW l \in 1..n, NEW m \in 1..n, l < m PROVE Older(new, nodes[l], nodes[m])
    BY <1>7 DEF Ordered
  <2>1. /\ nodes[l][1] = a /\ nodes[m][1] = a
        /\ nodes[l][2] = n + 1 - l /\ nodes[m][2] = n + 1 - m
    BY <1>7
  <2>2. n + 1 - l > n + 1 - m /\ n + 1 - l # n + 1 - m
    BY <1>2
  <2> QED
    BY <2>1, <2>2 DEF Older
<1>17. ASSUME NEW h \in Handles PROVE Ordered(new, parents'[h])
  <2> DEFINE s == parents[h]
             t == Only(nodes, Of(h))
  <2>1. s \in Seq(Nodes) /\ t \in Seq(Nodes) /\ parents'[h] = s \o t /\ ToSet(t) = Of(h) /\ Sublist(t, nodes)
    BY <1>10, <1>11
  <2>2. Ordered(new, s)
    BY <1>1, <1>11, <1>15, YoungerKeepsOrder DEF Graph, InOrder
  <2>3. \A x \in ToSet(s) : x[1] # a
    BY <1>15
  <2> HIDE DEF s, t
  <2>4. Ordered(new, t)
    BY <1>8, <1>16, <2>1, SublistOrdered
  <2>5. \A y \in ToSet(t) : y[1] = a
    BY <1>9, <2>1
  <2>6. \A x \in ToSet(s), y \in ToSet(t) : Older(new, x, y)
    BY <1>1, <2>3, <2>5, YoungestLast
  <2>7. Ordered(new, s \o t)
    BY <2>1, <2>2, <2>4, <2>6, OrderedConcat
  <2> QED
    BY <2>1, <2>7
<1>18. chains' = <<>> /\ state[a] # "running"
  OBVIOUS
<1>19. Graph(new)'
  BY <1>0, <1>1, <1>14, <1>17, <1>18, BlockStep
<1> QED
  BY <1>19
=============================================================================
