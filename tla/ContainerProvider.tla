-------------------------- MODULE ContainerProvider --------------------------
(***************************************************************************)
(* provider/container.go: how the registry comes to know the processes of  *)
(* the node's containers.  Init lists the pods once and enters them one    *)
(* after the other; then kubewatch's controller (external) watches the     *)
(* pods and calls the handler for one event after the other, an update     *)
(* with the pod as it is known by then.  Whether a container runs on this  *)
(* node, and as which process, is read from its cgroup at that time, and   *)
(* not from the pod.                                                       *)
(*                                                                         *)
(* A pod has one container.  Each start of it has another id, and a        *)
(* process of its own, which is named by that id.                          *)
(***************************************************************************)
EXTENDS Naturals, Sequences

CONSTANTS
  Pods,      \* pods, by name
  MaxStarts  \* bound: starts of containers

ASSUME MaxStartsAssumption == MaxStarts \in Nat

VARIABLES
  node,     \* per pod: whether there is one, the last id, and whether it runs
  known,    \* per pod: the same, as the API server tells it
  starts,   \* containers started so far
  pc,       \* of StartContainerProvider
  listed,   \* pods that Init has listed and not entered yet, as they were
  queue,    \* the controller's events
  handled,  \* the update the handler is at: the pod and its container; or none
  registry, \* info.containerPID
  missed    \* auxiliary: pods that changed when they were listed already and
            \* not watched yet, or that could not be listed

kvars == <<node, known, starts>>
pvars == <<kvars, pc, listed, queue, handled, registry, missed>>

NoPod == [there |-> FALSE, id |-> 0, runs |-> FALSE]
Pod == [there : BOOLEAN, id : 0 .. MaxStarts, runs : BOOLEAN]

(* Type invariant of the pods and of container.go's handler, which is at   *)
(* work only when the pods are watched; a registered process was started.  *)
PTypeOK ==
  /\ node \in [Pods -> Pod] /\ known \in [Pods -> Pod]
  /\ starts \in 0 .. MaxStarts
  /\ pc \in {"start", "init", "listed", "watch"}
  /\ \A p \in DOMAIN listed : p \in Pods /\ listed[p] \in Pod
  /\ handled # <<>> \/ queue # <<>> => pc = "watch"
  /\ registry \in [Pods -> SUBSET (1 .. starts)]
  /\ missed \subseteq Pods

PInit ==
  /\ node = [p \in Pods |-> NoPod] /\ known = node
  /\ starts = 0
  /\ pc = "start"
  /\ listed = <<>> /\ queue = <<>> /\ handled = <<>>
  /\ registry = [p \in Pods |-> {}]
  /\ missed = {}

-----------------------------------------------------------------------------
(* The cluster: a container starts, also again or in a new pod of the      *)
(* name, and ends; the pod is removed; the API server gets to know.        *)

Change(p, to) ==
  /\ node' = [node EXCEPT ![p] = to]
  /\ UNCHANGED <<known, pc, listed, queue, handled, registry, missed>>

StartContainer(p) ==
  /\ starts < MaxStarts /\ ~node[p].runs
  /\ starts' = starts + 1
  /\ Change(p, [there |-> TRUE, id |-> starts + 1, runs |-> TRUE])

EndContainer(p) ==
  /\ node[p].runs
  /\ Change(p, [node[p] EXCEPT !.runs = FALSE])
  /\ UNCHANGED starts

RemovePod(p) ==
  /\ node[p].there /\ ~node[p].runs
  /\ Change(p, NoPod)
  /\ UNCHANGED starts

\* the events of a change: a new pod of the name may follow an old one unseen
Event(p) ==
  LET type == IF ~known[p].there THEN "create" ELSE IF ~node[p].there THEN "delete" ELSE "update"
  IN  IF type = "create" THEN <<<<"create", p>>, <<"update", p>>>> ELSE <<<<type, p>>>>

Report(p) ==
  /\ known[p] # node[p]
  /\ known' = [known EXCEPT ![p] = node[p]]
  /\ queue' = IF pc = "watch" THEN queue \o Event(p) ELSE queue
  /\ missed' = IF pc \in {"init", "listed"} THEN missed \cup {p} ELSE missed
  /\ UNCHANGED <<node, starts, pc, listed, handled, registry>>

-----------------------------------------------------------------------------
(* container.go                                                            *)

\* getPodPID: the process of a container, if its cgroup is on this node
getPodPID(p, id) == IF node[p].runs /\ node[p].id = id THEN {id} ELSE {}

\* nothing is stored when no process has been found
StoredIfAny(p, pids) == IF pids = {} THEN registry[p] ELSE pids

\* SetContainerPIDs (see ContainerInfo)
Stored(p, pids) == pids

SetPIDs(p, pids) == registry' = [registry EXCEPT ![p] = Stored(p, pids)]

(* Init, "client.CoreV1().Pods("").List", or its failure, which            *)
(* StartContainerProvider does not look at.                                *)
List ==
  /\ pc = "start"
  /\ \/ /\ pc' = "init"
        /\ listed' = [p \in {q \in Pods : known[q].there} |-> known[p]]
        /\ UNCHANGED missed
     \/ /\ pc' = "listed"
        /\ missed' = Pods
        /\ UNCHANGED listed
  /\ UNCHANGED <<kvars, queue, handled, registry>>

\* Init, "range pods.Items"
EnterListed(p) ==
  /\ pc = "init" /\ p \in DOMAIN listed
  /\ SetPIDs(p, getPodPID(p, listed[p].id))
  /\ listed' = [q \in DOMAIN listed \ {p} |-> listed[q]]
  /\ UNCHANGED <<kvars, pc, queue, handled, missed>>

InitDone ==
  /\ pc = "init" /\ DOMAIN listed = {}
  /\ pc' = "listed"
  /\ UNCHANGED <<kvars, listed, queue, handled, registry, missed>>

(* "go kw_controller.Start": pods that are there come as created, which    *)
(* the handler only logs.                                                  *)
Watch ==
  /\ pc = "listed"
  /\ pc' = "watch"
  /\ UNCHANGED <<kvars, listed, queue, handled, registry, missed>>

Take(type) == handled = <<>> /\ queue # <<>> /\ queue[1][1] = type /\ queue' = Tail(queue)

ObjectCreated ==
  /\ Take("create")
  /\ UNCHANGED <<kvars, pc, listed, handled, registry, missed>>

ObjectDeleted ==
  /\ Take("delete")
  /\ SetPIDs(queue[1][2], {})
  /\ UNCHANGED <<kvars, pc, listed, handled, missed>>

(* ObjectUpdated: without a pod there is nothing to do.                    *)
ObjectUpdated ==
  LET p == queue[1][2]
  IN  /\ Take("update")
      /\ handled' = IF known[p].there THEN <<p, known[p].id>> ELSE <<>>
      /\ UNCHANGED <<kvars, pc, listed, registry, missed>>

\* the rest of it: the cgroups, and the registry
ObjectUpdatedSet ==
  /\ handled # <<>>
  /\ SetPIDs(handled[1], getPodPID(handled[1], handled[2]))
  /\ handled' = <<>>
  /\ UNCHANGED <<kvars, pc, listed, queue, missed>>

PNext ==
  \/ \E p \in Pods : StartContainer(p)
  \/ \E p \in Pods : EndContainer(p)
  \/ \E p \in Pods : RemovePod(p)
  \/ \E p \in Pods : Report(p)
  \/ List
  \/ \E p \in Pods : EnterListed(p)
  \/ InitDone
  \/ Watch
  \/ ObjectCreated
  \/ ObjectDeleted
  \/ ObjectUpdated
  \/ ObjectUpdatedSet

PSpec == PInit /\ [][PNext]_pvars

-----------------------------------------------------------------------------
(* Init, ObjectUpdated and ObjectDeleted: whatever happens between a       *)
(* change, its event and the reading of the cgroup, and in whichever order *)
(* pods of one name come and go, the registry has the processes of this    *)
(* node's containers as soon as the API server knows them and no event is  *)
(* waiting, except those of pods that changed before they were watched.    *)
RegistrySettles ==
  pc = "watch" /\ queue = <<>> /\ handled = <<>> =>
    \A p \in Pods \ missed :
      known[p] = node[p] => registry[p] = IF node[p].runs THEN {node[p].id} ELSE {}
=============================================================================
