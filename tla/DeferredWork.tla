----------------------------- MODULE DeferredWork -----------------------------
(***************************************************************************)
(* What the treadmill promises its clients, without clocks, slots, queues  *)
(* or locks (the comment at the head of hphp/runtime/vm/treadmill.h): work *)
(* that is submitted waits for exactly the requests that are in flight at  *)
(* that moment, requests that start later do not delay its permission to   *)
(* run, and once all of them have finished it may run, one time.           *)
(***************************************************************************)
CONSTANTS Requests, Items

VARIABLES
  active,     \* requests in flight
  submitted,  \* items handed to the treadmill
  waitsFor,   \* the requests an item still has to outlive
  ran         \* items that have run

vars == <<active, submitted, waitsFor, ran>>

Init ==
  /\ active = {}
  /\ submitted = {}
  /\ waitsFor = [i \in Items |-> {}]
  /\ ran = {}

Start(r) ==
  /\ r \notin active
  /\ active' = active \cup {r}
  /\ UNCHANGED <<submitted, waitsFor, ran>>

Finish(r) ==
  /\ r \in active
  /\ active' = active \ {r}
  /\ waitsFor' = [i \in Items |-> waitsFor[i] \ {r}]
  /\ UNCHANGED <<submitted, ran>>

Submit(i) ==
  /\ i \notin submitted
  /\ submitted' = submitted \cup {i}
  /\ waitsFor' = [waitsFor EXCEPT ![i] = active]
  /\ UNCHANGED <<active, ran>>

Run(i) ==
  /\ i \in submitted \ ran
  /\ waitsFor[i] = {}
  /\ ran' = ran \cup {i}
  /\ UNCHANGED <<active, submitted, waitsFor>>

Next ==
  \/ \E r \in Requests : Start(r) \/ Finish(r)
  \/ \E i \in Items : Submit(i) \/ Run(i)

Spec == Init /\ [][Next]_vars
===============================================================================
