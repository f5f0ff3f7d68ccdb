------------------------ MODULE ContainerInfoProofs ------------------------
(* Proofs about ContainerInfo and ContainerProvider, for every set of      *)
(* containers, PIDs and pods, and every number of changes.                 *)
EXTENDS ContainerInfo, ContainerProvider, TLAPS

(* The registry, the Getter's cache and the notifications of setter.go     *)
(* keep their types.                                                       *)
THEOREM TypeCorrect == Spec => []TypeOK
<1>1. Init => TypeOK
  BY MaxSetsAssumption DEF Init, TypeOK
<1>2. TypeOK /\ [Next]_vars => TypeOK'
  <2> SUFFICES ASSUME TypeOK, [Next]_vars PROVE TypeOK'
    OBVIOUS
  <2> USE MaxSetsAssumption DEF TypeOK
  <2>1. ASSUME NEW c \in Containers, NEW pids \in SUBSET Pids,
               SetContainerPIDs(c, pids)
        PROVE  TypeOK'
    <3>1. nsets + 1 \in 1 .. MaxSets
      BY <2>1 DEF SetContainerPIDs
    <3>2. [id |-> nsets + 1, prePID |-> Prev(c, pids)] \in Notification
      BY <3>1 DEF Notification, Prev
    <3> QED
      BY <2>1, <3>1, <3>2 DEF SetContainerPIDs
  <2>2. CASE Notify
    BY <2>2 DEF Notify
  <2>3. ASSUME NEW n \in callbacks, Invalidate(n) PROVE TypeOK'
    BY <2>3 DEF Invalidate, Evict
  <2>4. ASSUME NEW p \in Pids, GetContainerFromPID(p) PROVE TypeOK'
    BY <2>4 DEF GetContainerFromPID, Owners
  <2>5. CASE UNCHANGED vars
    BY <2>5 DEF vars
  <2> QED
    BY <2>1, <2>2, <2>3, <2>4, <2>5 DEF Next
<1> QED
  BY <1>1, <1>2, PTL DEF Spec

-----------------------------------------------------------------------------
(* A PID whose cached container name is wrong is one an invalidation is    *)
(* under way for.  Together with the type invariant the statement is       *)
(* inductive: SetContainerPIDs announces exactly the PIDs whose names it   *)
(* can make wrong, Notify keeps the announcement, Invalidate consumes it   *)
(* together with the names, and a lookup caches a current owner.           *)
THEOREM StaleNamesAreAnnounced == Spec => []StaleNamesBeingEvicted
<1>1. Init => StaleNamesBeingEvicted
  BY NamesAssumption DEF Init, StaleNamesBeingEvicted, Stale
<1>2. TypeOK /\ StaleNamesBeingEvicted /\ [Next]_vars => StaleNamesBeingEvicted'
  <2> SUFFICES ASSUME TypeOK, StaleNamesBeingEvicted, [Next]_vars,
                      NEW q \in Pids, Stale(q)'
               PROVE  (q \in BeingEvicted)'
    BY DEF StaleNamesBeingEvicted
  <2>1. ASSUME NEW c \in Containers, NEW pids \in SUBSET Pids,
               SetContainerPIDs(c, pids)
        PROVE  (q \in BeingEvicted)'
    <3>1. CASE Stale(q)
      \* it was wrong before the call: then nothing was announced but callbacks
      BY <2>1, <3>1 DEF SetContainerPIDs, StaleNamesBeingEvicted, BeingEvicted
    <3>2. CASE ~ Stale(q)
      \* the call made it wrong: q was a PID of c, hence one of the PIDs announced
      <4>1. q \in containerPID[c]
        BY <2>1, <3>2 DEF SetContainerPIDs, Stale, TypeOK
      <4>2. \E n \in notifying' : n.prePID = containerPID[c]
        BY <2>1 DEF SetContainerPIDs, Prev
      <4> QED
        BY <4>1, <4>2 DEF BeingEvicted
    <3> QED
      BY <3>1, <3>2
  <2>2. CASE Notify
    BY <2>2 DEF Notify, StaleNamesBeingEvicted, Stale, BeingEvicted
  <2>3. ASSUME NEW n \in callbacks, Invalidate(n) PROVE (q \in BeingEvicted)'
    <3>1. q \notin n.prePID /\ Stale(q)
      BY <2>3, NamesAssumption DEF Invalidate, Evict, Stale, TypeOK
    <3> QED
      BY <2>3, <3>1 DEF Invalidate, StaleNamesBeingEvicted, BeingEvicted
  <2>4. ASSUME NEW p \in Pids, GetContainerFromPID(p)
        PROVE  (q \in BeingEvicted)'
    <3>1. Stale(q)
      BY <2>4, NamesAssumption DEF GetContainerFromPID, Owners, Stale, TypeOK
    <3> QED
      BY <2>4, <3>1 DEF GetContainerFromPID, StaleNamesBeingEvicted, BeingEvicted
  <2>5. CASE UNCHANGED vars
    BY <2>5 DEF vars, StaleNamesBeingEvicted, Stale, BeingEvicted
  <2> QED
    BY <2>1, <2>2, <2>3, <2>4, <2>5 DEF Next
<1> QED
  BY <1>1, <1>2, TypeCorrect, PTL DEF Spec

-----------------------------------------------------------------------------
(* ContainerProvider                                                       *)

\* events of the watch
PEvents == {"create", "update", "delete"} \X Pods

\* what getPodPID enters for a pod in state k
Now(k) == IF k.runs THEN {k.id} ELSE {}

\* an event of pod p waits in the queue
Queued(p) == \E i \in 1 .. Len(queue) : queue[i][2] = p

\* what is known of pod p has yet to be entered, or is being entered
ToCome(p) ==
  \/ pc = "init" /\ p \in DOMAIN listed
  \/ handled # <<>> /\ handled[1] = p
  \/ Queued(p)

\* p's entry is right as far as the API server knows the pod
UpToDate(p) ==
  /\ known[p] = node[p] => registry[p] = Now(node[p])
  /\ ~known[p].there => registry[p] = {}

\* containers get numbers that were not used, and the API server is not ahead
PodsKnown ==
  \A p \in Pods :
    /\ node[p] = NoPod \/ (node[p].there /\ node[p].id \in 1 .. starts)
    /\ known[p] = NoPod \/ (known[p].there /\ known[p].id \in 1 .. starts)
    /\ known[p].id = node[p].id /\ node[p].runs => known[p].runs

\* the list is right while it is gone over, but for pods that were missed
ListedKnown ==
  pc = "init" => \A p \in DOMAIN listed :
    listed[p].there /\ (p \notin missed => listed[p] = known[p])

\* the last event of a pod tells whether it is there now
LastTells ==
  \A i \in 1 .. Len(queue) :
    (\A j \in i + 1 .. Len(queue) : queue[j][2] # queue[i][2]) =>
      queue[i][1] = IF known[queue[i][2]].there THEN "update" ELSE "delete"

\* so does the event that is being handled, when no other one of it follows
HandledKnown ==
  handled # <<>> /\ ~Queued(handled[1]) =>
    known[handled[1]].there /\ known[handled[1]].id = handled[2]

\* a pod's entry is right, or it is going to be, unless its change was missed
Entered ==
  IF pc = "start" THEN \A p \in Pods : registry[p] = {}
  ELSE \A p \in Pods \ missed : ToCome(p) \/ UpToDate(p)

\* types, of events too
Shapes ==
  /\ PTypeOK
  /\ queue \in Seq(PEvents)
  /\ handled = <<>> \/ handled \in Pods \X Nat

\* the invariant
PInv == Shapes /\ PodsKnown /\ ListedKnown /\ LastTells /\ HandledKnown /\ Entered

(* The provider has entered nothing.                                       *)
LEMMA PStart == PInit => PInv
<1> SUFFICES ASSUME PInit PROVE PInv
  OBVIOUS
<1>1. Shapes
  BY MaxStartsAssumption DEF PInit, Shapes, PTypeOK, Pod, NoPod
<1>2. PodsKnown /\ ListedKnown /\ LastTells /\ HandledKnown /\ Entered
  BY DEF PInit, PodsKnown, ListedKnown, LastTells, HandledKnown, Entered, NoPod
<1> QED
  BY <1>1, <1>2 DEF PInv

(* A pod changes behind the provider's back, to what is not known yet.     *)
LEMMA Changing ==
  ASSUME PInv, NEW p \in Pods, NEW to \in Pod, Change(p, to),
         starts' \in starts .. MaxStarts,
         to = NoPod \/ (to.there /\ to.id \in 1 .. starts'),
         known[p].id = to.id /\ to.runs => known[p].runs,
         to = known[p] => to = NoPod
  PROVE  PInv'
<1> USE DEF PInv, Change
<1>. starts \in Nat /\ starts' \in Nat
  BY MaxStartsAssumption DEF Shapes, PTypeOK
<1>1. Shapes'
  BY DEF Shapes, PTypeOK
<1>2. PodsKnown'
  BY DEF Shapes, PTypeOK, PodsKnown
<1>3. ListedKnown' /\ LastTells' /\ HandledKnown'
  BY DEF ListedKnown, LastTells, HandledKnown, Queued
<1>4. Entered'
  BY DEF Shapes, PTypeOK, Entered, ToCome, Queued, UpToDate, Now, NoPod
<1> QED
  BY <1>1, <1>2, <1>3, <1>4

(* Containers start, run and end in the cluster.                           *)
LEMMA Cluster ==
  ASSUME PInv, NEW p \in Pods, StartContainer(p) \/ EndContainer(p) \/ RemovePod(p)
  PROVE  PInv'
<1>. /\ starts \in Nat /\ starts <= MaxStarts
     /\ node[p] \in Pod /\ known[p] \in Pod
     /\ node[p] = NoPod \/ (node[p].there /\ node[p].id \in 1 .. starts)
     /\ known[p].id <= starts
     /\ known[p].id = node[p].id /\ node[p].runs => known[p].runs
  BY MaxStartsAssumption DEF PInv, Shapes, PTypeOK, PodsKnown, NoPod
<1>1. CASE StartContainer(p)
  <2> DEFINE to == [there |-> TRUE, id |-> starts + 1, runs |-> TRUE]
  <2>1. starts' = starts + 1 /\ starts < MaxStarts /\ Change(p, to)
    BY <1>1 DEF StartContainer
  <2>2. to \in Pod /\ to.there /\ to.id = starts + 1 /\ to # known[p]
    BY <2>1, MaxStartsAssumption DEF Pod
  <2> HIDE DEF to
  <2> QED
    BY <2>1, <2>2, Changing, MaxStartsAssumption
<1>2. CASE EndContainer(p)
  <2> DEFINE to == [node[p] EXCEPT !.runs = FALSE]
  <2>1. starts' = starts /\ node[p].runs /\ Change(p, to)
    BY <1>2 DEF EndContainer
  <2>3. to \in Pod /\ to.there = node[p].there /\ to.id = node[p].id /\ ~to.runs
    BY DEF Pod
  <2> HIDE DEF to
  <2>4. node[p].there /\ node[p].id \in 1 .. starts
    BY <2>1 DEF NoPod
  <2>5. to # known[p]
    BY <2>1, <2>3
  <2>6. to.id \in 1 .. starts' /\ starts' \in starts .. MaxStarts
    BY <2>1, <2>3, <2>4, MaxStartsAssumption
  <2>7. known[p].id = to.id /\ to.runs => known[p].runs
    BY <2>3
  <2> QED
    BY <2>1, <2>3, <2>4, <2>5, <2>6, <2>7, Changing
<1>3. CASE RemovePod(p)
  <2>1. starts' = starts /\ Change(p, NoPod) /\ NoPod \in Pod /\ ~NoPod.runs
    BY <1>3, MaxStartsAssumption DEF RemovePod, NoPod, Pod
  <2> QED
    BY <2>1, Changing, MaxStartsAssumption
<1> QED
  BY <1>1, <1>2, <1>3

(* What is announced of a change: events of this pod, and the last of them *)
(* tells whether it is still there.                                        *)
LEMMA Announced ==
  ASSUME PInv, NEW p \in Pods, known[p] # node[p]
  PROVE  /\ Event(p) \in Seq(PEvents) /\ Len(Event(p)) \in 1 .. 2
         /\ \A i \in 1 .. Len(Event(p)) : Event(p)[i][2] = p
         /\ Event(p)[Len(Event(p))][1] = IF node[p].there THEN "update" ELSE "delete"
<1>1. node[p].there \/ known[p].there
  BY DEF PInv, PodsKnown, NoPod
<1>. /\ <<"create", p>> \in PEvents /\ <<"update", p>> \in PEvents
     /\ <<"delete", p>> \in PEvents
  BY DEF PEvents
<1>2. CASE ~known[p].there
  <2>1. Event(p) = <<<<"create", p>>, <<"update", p>>>>
    BY <1>2 DEF Event
  <2> QED
    BY <2>1, <1>1, <1>2
<1>3. CASE known[p].there /\ ~node[p].there
  <2>1. Event(p) = <<<<"delete", p>>>>
    BY <1>3 DEF Event
  <2> QED
    BY <2>1, <1>3
<1>4. CASE known[p].there /\ node[p].there
  <2>1. Event(p) = <<<<"update", p>>>>
    BY <1>4 DEF Event
  <2> QED
    BY <2>1, <1>4
<1> QED
  BY <1>2, <1>3, <1>4

(* The API server learns of a change and, when it is watched, announces it. *)
LEMMA Reporting ==
  ASSUME PInv, NEW p \in Pods, Report(p)
  PROVE  PInv'
<1>. /\ queue \in Seq(PEvents) /\ known \in [Pods -> Pod] /\ node \in [Pods -> Pod]
     /\ UNCHANGED <<node, starts, pc, listed, handled, registry>>
     /\ known[p] # node[p] /\ known' = [known EXCEPT ![p] = node[p]]
     /\ pc \in {"start", "init", "listed", "watch"}
  BY DEF PInv, Shapes, PTypeOK, Report
<1>1. PodsKnown'
  BY DEF PInv, PodsKnown
<1>2. CASE pc = "watch"
  <2> DEFINE ev == Event(p)
  <2>1. /\ ev \in Seq(PEvents) /\ Len(ev) \in 1 .. 2
        /\ \A i \in 1 .. Len(ev) : ev[i][2] = p
        /\ ev[Len(ev)][1] = IF node[p].there THEN "update" ELSE "delete"
    BY Announced
  <2>2. queue' = queue \o ev /\ missed' = missed
    BY <1>2 DEF Report
  <2> HIDE DEF ev
  <2>3. /\ queue' \in Seq(PEvents) /\ Len(queue') = Len(queue) + Len(ev)
        /\ Len(queue) \in Nat
        /\ \A i \in 1 .. Len(queue) : queue'[i] = queue[i]
        /\ \A i \in 1 .. Len(ev) : queue'[Len(queue) + i] = ev[i]
    BY <2>1, <2>2
  <2>4. \A i \in Len(queue) + 1 .. Len(queue') : queue'[i][2] = p
    <3> SUFFICES ASSUME NEW i \in Len(queue) + 1 .. Len(queue') PROVE queue'[i][2] = p
      OBVIOUS
    <3>1. i - Len(queue) \in 1 .. Len(ev) /\ i = Len(queue) + (i - Len(queue))
      BY <2>1, <2>3
    <3> QED
      BY <3>1, <2>1, <2>3
  <2>5. queue'[Len(queue')][1] = IF node[p].there THEN "update" ELSE "delete"
    <3>1. \A k \in 1 .. 2 : k \in 1 .. k
      OBVIOUS
    <3>2. Len(ev) \in 1 .. Len(ev)
      BY <3>1, <2>1
    <3> QED
      BY <3>2, <2>1, <2>3
  <2>. /\ Len(queue') \in Len(queue) + 1 .. Len(queue')
       /\ \A i \in 1 .. Len(queue) : i \in 1 .. Len(queue') /\ Len(queue') \in i + 1 .. Len(queue')
       /\ Len(queue') \in 1 .. Len(queue')
    <3>1. ASSUME NEW n \in Nat, NEW m \in Nat, NEW k \in 1 .. 2, m = n + k
          PROVE  /\ m \in n + 1 .. m /\ m \in 1 .. m
                 /\ \A i \in 1 .. n : i \in 1 .. m /\ m \in i + 1 .. m
      BY <3>1
    <3>2. /\ Len(queue) \in Nat /\ Len(queue') \in Nat /\ Len(ev) \in 1 .. 2
          /\ Len(queue') = Len(queue) + Len(ev)
      BY <2>1, <2>3
    <3> QED
      BY ONLY <3>1, <3>2
  <2>6. Queued(p)' /\ \A q \in Pods : Queued(q) => Queued(q)'
    BY <2>3, <2>4 DEF Queued
  <2>7. LastTells'
    <3> SUFFICES ASSUME NEW i \in 1 .. Len(queue'),
                        \A j \in i + 1 .. Len(queue') : queue'[j][2] # queue'[i][2]
                 PROVE  queue'[i][1] = IF known'[queue'[i][2]].there THEN "update" ELSE "delete"
      BY DEF LastTells
    <3>1. CASE i \in 1 .. Len(queue)
      <4>1. Len(queue') \in i + 1 .. Len(queue') /\ Len(queue') \in Len(queue) + 1 .. Len(queue')
        BY <3>1
      <4>2. queue[i][2] # p /\ queue'[i] = queue[i]
        BY <4>1, <2>3, <2>4, <3>1
      <4>3. \A j \in i + 1 .. Len(queue) : queue[j][2] # queue[i][2]
        BY <2>1, <2>3, <3>1, <4>2
      <4>4. queue[i][2] \in Pods
        BY <3>1 DEF PEvents
      <4> QED
        BY <3>1, <4>2, <4>3, <4>4 DEF PInv, LastTells
    <3>2. CASE i \in Len(queue) + 1 .. Len(queue')
      <4>1. queue'[i][2] = p
        BY <3>2, <2>4
      <4>2. i = Len(queue')
        BY <3>2, <2>3, <2>1, <2>4, <4>1
      <4> QED
        BY <4>1, <4>2, <2>5
    <3> QED
      BY <3>1, <3>2, <2>3
  <2>8. Shapes'
    BY <1>2, <2>2, <2>3 DEF PInv, Shapes, PTypeOK
  <2>9. ListedKnown'
    BY <1>2 DEF ListedKnown
  <2>10. HandledKnown'
    BY <2>6 DEF PInv, Shapes, HandledKnown
  <2>11. Entered'
    BY <1>2, <2>2, <2>6 DEF PInv, Entered, ToCome, UpToDate
  <2> QED
    BY <1>1, <2>7, <2>8, <2>9, <2>10, <2>11 DEF PInv
<1>3. CASE pc # "watch"
  <2>1. queue' = queue /\ queue = <<>> /\ handled = <<>>
    BY <1>3 DEF Report, PInv, Shapes, PTypeOK
  <2>2. missed' = IF pc = "start" THEN missed ELSE missed \cup {p}
    BY <1>3 DEF Report
  <2>3. Shapes'
    BY <1>3, <2>1, <2>2 DEF PInv, Shapes, PTypeOK
  <2>4. ListedKnown'
    BY <1>3, <2>2 DEF PInv, Shapes, PTypeOK, ListedKnown
  <2>5. LastTells' /\ HandledKnown'
    BY <2>1 DEF LastTells, HandledKnown
  <2>6. Entered'
    BY <1>3, <2>1, <2>2 DEF PInv, Entered, ToCome, Queued, UpToDate
  <2> QED
    BY <1>1, <2>3, <2>4, <2>5, <2>6 DEF PInv
<1> QED
  BY <1>2, <1>3

(* The list of the pods, what is entered from it, and the watch.           *)
LEMMA Listing ==
  ASSUME PInv, List \/ InitDone \/ Watch
  PROVE  PInv'
<1>. /\ UNCHANGED <<kvars, queue, handled, registry>>
     /\ queue = <<>> /\ handled = <<>>
  BY DEF PInv, Shapes, PTypeOK, List, InitDone, Watch
<1>. PodsKnown' /\ LastTells' /\ HandledKnown'
  BY DEF PInv, PodsKnown, LastTells, HandledKnown, kvars
<1>1. CASE List
  <2>. pc = "start" /\ \A p \in Pods : registry[p] = {}
    BY <1>1 DEF List, PInv, Entered
  <2>1. CASE /\ pc' = "init" /\ UNCHANGED missed
             /\ listed' = [p \in {q \in Pods : known[q].there} |-> known[p]]
    <3>1. Shapes' /\ ListedKnown'
      BY <2>1 DEF PInv, Shapes, PTypeOK, ListedKnown, kvars
    <3>2. ASSUME NEW p \in Pods, p \notin DOMAIN listed' PROVE UpToDate(p)'
      <4>1. ~known[p].there /\ ~known[p].runs
        BY <2>1, <3>2 DEF PInv, PodsKnown, NoPod
      <4>2. UpToDate(p)
        BY <4>1 DEF UpToDate, Now
      <4> QED
        BY <4>2 DEF UpToDate, kvars
    <3>3. Entered'
      BY <2>1, <3>2 DEF Entered, ToCome
    <3> QED
      BY <3>1, <3>3 DEF PInv
  <2>2. CASE pc' = "listed" /\ missed' = Pods /\ UNCHANGED listed
    BY <2>2 DEF PInv, Shapes, PTypeOK, ListedKnown, Entered, kvars
  <2> QED
    BY <1>1, <2>1, <2>2 DEF List
<1>2. CASE InitDone \/ Watch
  <2>1. /\ pc \in {"init", "listed"} /\ pc' \in {"listed", "watch"}
        /\ pc = "init" => DOMAIN listed = {}
        /\ UNCHANGED <<listed, missed>>
    BY <1>2 DEF InitDone, Watch
  <2>2. Shapes' /\ ListedKnown'
    BY <2>1 DEF PInv, Shapes, PTypeOK, ListedKnown, kvars
  <2>3. Entered'
    BY <2>1 DEF PInv, Entered, ToCome, Queued, UpToDate, kvars
  <2> QED
    BY <2>2, <2>3 DEF PInv
<1> QED
  BY <1>1, <1>2

(* A registered process is that of the container that was asked for, when  *)
(* it runs.                                                                *)
LEMMA Asked ==
  ASSUME PInv, NEW p \in Pods, NEW id
  PROVE  /\ getPodPID(p, id) \in SUBSET (1 .. starts)
         /\ known[p].there /\ known[p].id = id /\ known[p] = node[p] =>
              getPodPID(p, id) = Now(node[p])
<1>1. node[p] = NoPod \/ (node[p].there /\ node[p].id \in 1 .. starts)
  BY DEF PInv, PodsKnown
<1> QED
  BY <1>1 DEF getPodPID, Now, NoPod

(* What is entered from the API server's answer is right, or will be.      *)
LEMMA Entering ==
  ASSUME PInv, NEW p \in Pods, EnterListed(p)
  PROVE  PInv'
<1>. /\ UNCHANGED <<kvars, pc, queue, handled, missed>> /\ pc = "init"
     /\ p \in DOMAIN listed
     /\ registry' = [registry EXCEPT ![p] = getPodPID(p, listed[p].id)]
     /\ listed' = [q \in DOMAIN listed \ {p} |-> listed[q]]
     /\ registry \in [Pods -> SUBSET (1 .. starts)]
  BY DEF EnterListed, SetPIDs, Stored, PInv, Shapes, PTypeOK
<1>1. PodsKnown' /\ LastTells' /\ HandledKnown'
  BY DEF PInv, PodsKnown, LastTells, HandledKnown, Queued, kvars
<1>2. Shapes' /\ ListedKnown'
  BY Asked DEF PInv, Shapes, PTypeOK, ListedKnown, kvars
<1>3. UpToDate(p)' \/ p \in missed
  BY Asked DEF PInv, ListedKnown, UpToDate, kvars, Now
<1>4. ASSUME NEW q \in Pods \ missed, q # p
      PROVE  (ToCome(q) \/ UpToDate(q))'
  BY <1>4 DEF PInv, Entered, ToCome, Queued, UpToDate, kvars, Now
<1>5. Entered'
  BY <1>3, <1>4 DEF Entered
<1> QED
  BY <1>1, <1>2, <1>5 DEF PInv

-----------------------------------------------------------------------------
(* The handler takes an event: those that are left still end with the      *)
(* right one, and a pod without any was told of by the one that was taken. *)
LEMMA Taking ==
  ASSUME PInv, NEW type, Take(type), NEW p, p = queue[1][2],
         UNCHANGED <<kvars, pc, listed, missed>>
  PROVE  /\ queue' \in Seq(PEvents) /\ pc = "watch"
         /\ queue[1] \in PEvents /\ queue[1][1] = type
         /\ LastTells'
         /\ \A q \in Pods : Queued(q) <=> q = p \/ Queued(q)'
         /\ ~Queued(p)' => type = IF known[p].there THEN "update" ELSE "delete"
<1>. queue \in Seq(PEvents) /\ queue # <<>> /\ queue' = Tail(queue) /\ pc = "watch"
     /\ queue[1][1] = type
  BY DEF PInv, Shapes, PTypeOK, Take
<1>. /\ Len(queue) \in Nat \ {0} /\ Len(queue') = Len(queue) - 1
     /\ \A i \in 1 .. Len(queue') : queue'[i] = queue[i + 1]
     /\ queue' \in Seq(PEvents) /\ queue[1] \in PEvents
  OBVIOUS
<1>1. \A i \in 2 .. Len(queue) : i - 1 \in 1 .. Len(queue') /\ queue[i] = queue'[i - 1]
  OBVIOUS
<1>2. \A q \in Pods : Queued(q) <=> q = p \/ Queued(q)'
  <2> TAKE q \in Pods
  <2>1. ASSUME Queued(q), q # p PROVE Queued(q)'
    <3>1. PICK i \in 1 .. Len(queue) : queue[i][2] = q
      BY <2>1 DEF Queued
    <3>2. i \in 2 .. Len(queue)
      BY <2>1, <3>1
    <3>3. i - 1 \in 1 .. Len(queue') /\ queue'[i - 1][2] = q
      BY <1>1, <3>1, <3>2
    <3> QED
      BY <3>3 DEF Queued
  <2>2. ASSUME Queued(q)' PROVE Queued(q)
    BY <2>2 DEF Queued
  <2>3. q = p => Queued(q)
    BY DEF Queued
  <2> QED
    BY <2>1, <2>2, <2>3
<1>3. LastTells'
  <2> SUFFICES ASSUME NEW i \in 1 .. Len(queue'),
                      \A j \in i + 1 .. Len(queue') : queue'[j][2] # queue'[i][2]
               PROVE  queue'[i][1] = IF known[queue'[i][2]].there THEN "update" ELSE "delete"
    BY DEF LastTells, kvars
  <2>1. \A j \in i + 2 .. Len(queue) : queue[j][2] # queue[i + 1][2]
    <3> TAKE j \in i + 2 .. Len(queue)
    <3>1. j - 1 \in i + 1 .. Len(queue') /\ queue[j] = queue'[j - 1]
      BY <1>1
    <3> QED
      BY <3>1
  <2>2. i + 1 \in 1 .. Len(queue) /\ (i + 1) + 1 = i + 2
    OBVIOUS
  <2> QED
    BY <2>1, <2>2 DEF PInv, LastTells
<1>4. ASSUME ~Queued(p)' PROVE type = IF known[p].there THEN "update" ELSE "delete"
  <2>1. \A j \in 2 .. Len(queue) : queue[j][2] # p
    <3> TAKE j \in 2 .. Len(queue)
    <3>1. j - 1 \in 1 .. Len(queue') /\ queue[j] = queue'[j - 1]
      BY <1>1
    <3> QED
      BY <3>1, <1>4 DEF Queued
  <2> QED
    BY <2>1 DEF PInv, LastTells
<1> QED
  BY <1>2, <1>3, <1>4

(* An event has been taken: the pod is asked for, or its entry is removed. *)
LEMMA Handling ==
  ASSUME PInv, ObjectCreated \/ ObjectDeleted \/ ObjectUpdated
  PROVE  PInv'
<1>. PICK p : p = queue[1][2]
  OBVIOUS
<1>1. PICK type \in {"create", "update", "delete"} :
        /\ Take(type) /\ handled = <<>> /\ UNCHANGED <<kvars, pc, listed, missed>>
        /\ type = "create" => UNCHANGED <<registry, handled>>
        /\ type = "delete" => /\ registry' = [registry EXCEPT ![p] = {}]
                             /\ UNCHANGED handled
        /\ type = "update" =>
             /\ handled' = IF known[p].there THEN <<p, known[p].id>> ELSE <<>>
             /\ UNCHANGED registry
  BY DEF ObjectCreated, ObjectDeleted, ObjectUpdated, Take, SetPIDs, Stored
<1>2. /\ queue' \in Seq(PEvents) /\ pc = "watch" /\ queue[1] \in PEvents
      /\ LastTells'
      /\ \A q \in Pods : Queued(q) <=> q = p \/ Queued(q)'
      /\ ~Queued(p)' => type = IF known[p].there THEN "update" ELSE "delete"
  <2>1. Take(type) /\ UNCHANGED <<kvars, pc, listed, missed>>
    BY <1>1
  <2> QED
    BY <2>1, Taking
<1>3. p \in Pods
  BY <1>2 DEF PEvents
<1>. known[p].id \in Nat /\ (known[p] = NoPod \/ known[p].there)
  BY <1>3, MaxStartsAssumption DEF PInv, Shapes, PTypeOK, Pod, PodsKnown
<1>4. PodsKnown' /\ ListedKnown'
  BY <1>1 DEF PInv, PodsKnown, ListedKnown, kvars
<1>5. Shapes'
  BY <1>1, <1>2, <1>3 DEF PInv, Shapes, PTypeOK, kvars
<1>6. HandledKnown'
  BY <1>1 DEF HandledKnown, kvars
<1>7. (ToCome(p) \/ UpToDate(p))'
  <2> SUFFICES ASSUME ~Queued(p)', ~(handled' # <<>> /\ handled'[1] = p)
               PROVE  UpToDate(p)'
    BY DEF ToCome
  <2>1. CASE known[p].there
    <3>1. handled' = <<p, known[p].id>>
      BY <2>1, <1>1, <1>2
    <3>2. handled' # <<>> /\ handled'[1] = p
      BY <3>1
    <3> QED
      BY <3>2
  <2>2. CASE ~known[p].there
    <3>1. ~known[p].runs
      BY <2>2, <1>3 DEF PInv, PodsKnown, NoPod
    <3>2. registry'[p] = {} /\ UNCHANGED <<known, node>>
      BY <2>2, <1>1, <1>2, <1>3 DEF PInv, Shapes, PTypeOK, kvars
    <3> QED
      BY <3>1, <3>2 DEF UpToDate, Now
  <2> QED
    BY <2>1, <2>2
<1>8. ASSUME NEW q \in Pods \ missed, q # p
      PROVE  (ToCome(q) \/ UpToDate(q))'
  <2>1. ToCome(q) \/ UpToDate(q)
    BY <1>2, <1>8 DEF PInv, Entered
  <2>2. handled = <<>> /\ UNCHANGED <<known, node, registry[q]>>
    BY <1>1, <1>8 DEF PInv, Shapes, PTypeOK, kvars
  <2>3. ToCome(q) => ToCome(q)'
    BY <1>2, <1>8, <2>2 DEF ToCome
  <2>4. UpToDate(q) => UpToDate(q)'
    BY <2>2 DEF UpToDate
  <2> QED
    BY <2>1, <2>3, <2>4
<1>9. Entered'
  <2>1. pc' # "start" /\ missed' = missed
    BY <1>1, <1>2
  <2> QED
    BY <2>1, <1>7, <1>8 DEF Entered
<1> QED
  BY <1>2, <1>4, <1>5, <1>6, <1>9 DEF PInv

(* The entry is made from the answer.                                      *)
LEMMA Setting ==
  ASSUME PInv, ObjectUpdatedSet
  PROVE  PInv'
<1>. PICK p, id : p = handled[1] /\ id = handled[2]
  OBVIOUS
<1>1. /\ UNCHANGED <<kvars, pc, listed, queue, missed>> /\ pc = "watch"
      /\ handled \in Pods \X Nat /\ handled # <<>> /\ handled' = <<>>
      /\ registry' = [registry EXCEPT ![p] = getPodPID(p, id)]
      /\ registry \in [Pods -> SUBSET (1 .. starts)]
  BY DEF PInv, Shapes, PTypeOK, ObjectUpdatedSet, SetPIDs, Stored
<1>2. p \in Pods /\ (Queued(p) \/ (known[p].there /\ known[p].id = id))
  BY <1>1 DEF PInv, HandledKnown
<1>3. (ToCome(p) \/ UpToDate(p))'
  <2>1. Queued(p) => ToCome(p)'
    BY <1>1 DEF ToCome, Queued
  <2>2. registry'[p] = getPodPID(p, id) /\ UNCHANGED <<known, node>>
    BY <1>1, <1>2 DEF kvars
  <2>3. ASSUME known[p].there, known[p].id = id PROVE UpToDate(p)'
    <3>1. known[p] = node[p] => getPodPID(p, id) = Now(node[p])
      BY <1>2, <2>3, Asked
    <3> QED
      BY <2>2, <2>3, <3>1 DEF UpToDate, Now
  <2> QED
    BY <1>2, <2>1, <2>3
<1>4. \A q \in Pods \ missed : q # p => (ToCome(q) \/ UpToDate(q))'
  BY <1>1 DEF PInv, Entered, ToCome, Queued, UpToDate, kvars, Now
<1>5. Shapes'
  BY <1>1, <1>2, Asked DEF PInv, Shapes, PTypeOK, kvars
<1>6. PodsKnown' /\ ListedKnown' /\ LastTells' /\ HandledKnown'
  BY <1>1 DEF PInv, PodsKnown, ListedKnown, LastTells, HandledKnown, kvars
<1>7. Entered'
  <2>1. pc' # "start" /\ missed' = missed
    BY <1>1
  <2> QED
    BY <2>1, <1>3, <1>4 DEF Entered
<1> QED
  BY <1>5, <1>6, <1>7 DEF PInv

(* container.go: the registry settles on the processes that run.  What is  *)
(* still to come for a pod, from the list, the queue or the handler, ends  *)
(* with what the API server knows; a pod with nothing to come is entered   *)
(* as it is, unless the API server is behind, and then it will come.       *)
THEOREM RegistryComesRight == PSpec => []RegistrySettles
<1>1. PInv /\ [PNext]_pvars => PInv'
  <2> SUFFICES ASSUME PInv, [PNext]_pvars PROVE PInv'
    OBVIOUS
  <2>1. CASE UNCHANGED pvars
    BY <2>1 DEF pvars, kvars, PInv, Shapes, PTypeOK, PodsKnown, ListedKnown,
             LastTells, HandledKnown, Entered, ToCome, Queued, UpToDate
  <2>2. CASE PNext
    BY <2>2, Cluster, Reporting, Listing, Entering, Handling, Setting DEF PNext
  <2> QED
    BY <2>1, <2>2
<1>2. PInv => RegistrySettles
  <2> SUFFICES ASSUME PInv, pc = "watch", queue = <<>>, handled = <<>>,
                      NEW p \in Pods \ missed, known[p] = node[p]
               PROVE  registry[p] = Now(node[p])
    BY DEF RegistrySettles, Now
  <2>1. ~Queued(p)
    BY DEF Queued
  <2>2. ~ToCome(p)
    BY <2>1 DEF ToCome
  <2> QED
    BY <2>2 DEF PInv, Entered, UpToDate
<1> QED
  BY <1>1, <1>2, PStart, PTL DEF PSpec
=============================================================================
