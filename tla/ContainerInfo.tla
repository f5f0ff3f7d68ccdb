--------------------------- MODULE ContainerInfo ---------------------------
(***************************************************************************)
(* internal/info: the registry of container PIDs and the Getter's reverse  *)
(* cache.                                                                  *)
(*                                                                         *)
(* The container provider writes the registry with SetContainerPIDs        *)
(* (setter.go).  The collectors ask the Getter which container a PID       *)
(* belongs to (GetContainerFromPID, getter.go); the answer, the empty name *)
(* included, is remembered in pidBuffer.  The cache is invalidated by a    *)
(* containerPIDChange callback that NewGetter registers: SetContainerPIDs  *)
(* starts it as a goroutine after it has released the mutex, so a change   *)
(* of the registry and the invalidation it calls for are separate steps    *)
(* with lookups in between.                                                *)
(*                                                                         *)
(* Every critical section of info.mutex is one action.  A PID list is a    *)
(* set, and a container without an entry in the Go map has the empty set:  *)
(* SetContainerPIDs deletes the entry when it is given no PIDs.            *)
(***************************************************************************)
EXTENDS Naturals

CONSTANTS
  Containers,   \* container names, "namespace/pod"
  Pids,         \* process ids of the node
  Unknown,      \* the empty name GetContainerFromPID answers with
  NotCached,    \* the PID has no entry in pidBuffer
  MaxSets       \* bound: calls of SetContainerPIDs

ASSUME NamesAssumption ==
  /\ Unknown \notin Containers
  /\ NotCached \notin Containers
  /\ Unknown # NotCached

ASSUME MaxSetsAssumption == MaxSets \in Nat

VARIABLES
  containerPID, \* info.containerPID: container -> its PIDs
  pidBuffer,    \* Getter.pidBuffer: PID -> cached answer
  notifying,    \* the setter between its Unlock and its "go fn": {} or one call
  callbacks,    \* invalidation goroutines started and not yet run
  nsets         \* calls of SetContainerPIDs so far; numbers the calls

vars == <<containerPID, pidBuffer, notifying, callbacks, nsets>>

(* A change notification: the call it comes from and the PIDs before it.   *)
Notification == [id : 1 .. MaxSets, prePID : SUBSET Pids]

(* Type invariant of the registry (info.go, containerPID) and of the       *)
(* Getter's cache (getter.go, pidBuffer: a container name or the empty     *)
(* name for every cached PID), and of the notifications under way.         *)
TypeOK ==
  /\ containerPID \in [Containers -> SUBSET Pids]
  /\ pidBuffer \in [Pids -> Containers \cup {Unknown, NotCached}]
  /\ notifying \in SUBSET Notification
  /\ callbacks \in SUBSET Notification
  /\ nsets \in 0 .. MaxSets

Init ==
  /\ containerPID = [c \in Containers |-> {}]
  /\ pidBuffer = [p \in Pids |-> NotCached]
  /\ notifying = {}
  /\ callbacks = {}
  /\ nsets = 0

Owners(p) == {c \in Containers : p \in containerPID[c]}

-----------------------------------------------------------------------------
(* Mutated forms of the definitions below, for mutation testing.           *)

\* prev is read after the new list has been stored
PrevAfterWrite(c, pids) == pids

\* the callback starts a new cache that knows the changed PIDs only
CacheOfChangedOnly(pre) == [p \in pre |-> NotCached]

\* the callback forgets the remembered empty names and keeps the container names
EvictNothingButUnknown(pre) ==
  [p \in Pids |-> IF p \in pre /\ pidBuffer[p] = Unknown
                    THEN NotCached ELSE pidBuffer[p]]

-----------------------------------------------------------------------------
(* setter.go, SetContainerPIDs: the critical section.  The caller is the   *)
(* provider's event handler, one call at a time.                           *)
Prev(c, pids) == containerPID[c]

SetContainerPIDs(c, pids) ==
  /\ notifying = {}
  /\ nsets < MaxSets
  /\ nsets' = nsets + 1
  /\ containerPID' = [containerPID EXCEPT ![c] = pids]
  /\ notifying' = {[id |-> nsets + 1, prePID |-> Prev(c, pids)]}
  /\ UNCHANGED <<pidBuffer, callbacks>>

(* setter.go, SetContainerPIDs: "go fn(container, prev, cur)".             *)
Notify ==
  /\ notifying # {}
  /\ callbacks' = callbacks \cup notifying
  /\ notifying' = {}
  /\ UNCHANGED <<containerPID, pidBuffer, nsets>>

(* getter.go, NewGetter: the body of the callback, under info.mutex.       *)
Evict(pre) ==
  [p \in Pids |-> IF p \in pre THEN NotCached ELSE pidBuffer[p]]

Invalidate(n) ==
  /\ n \in callbacks
  /\ pidBuffer' = Evict(n.prePID)
  /\ callbacks' = callbacks \ {n}
  /\ UNCHANGED <<containerPID, notifying, nsets>>

(* getter.go, GetContainerFromPID on a PID that is not cached.  The owner  *)
(* is the first one in the random order of a Go map iteration.  A cached   *)
(* PID is answered from pidBuffer and changes nothing.                     *)
GetContainerFromPID(p) ==
  /\ pidBuffer[p] = NotCached
  /\ \E name \in IF Owners(p) = {} THEN {Unknown} ELSE Owners(p) :
       pidBuffer' = [pidBuffer EXCEPT ![p] = name]
  /\ UNCHANGED <<containerPID, notifying, callbacks, nsets>>

Next ==
  \/ \E c \in Containers, pids \in SUBSET Pids : SetContainerPIDs(c, pids)
  \/ Notify
  \/ \E n \in callbacks : Invalidate(n)
  \/ \E p \in Pids : GetContainerFromPID(p)

(* The setter's goroutine goes on after its critical section, and every    *)
(* goroutine it has started gets to run.  Nobody is obliged to change a    *)
(* container or to ask for a PID.                                          *)
Fairness ==
  /\ WF_vars(Notify)
  /\ \A i \in 1 .. MaxSets :
       WF_vars(\E n \in callbacks : n.id = i /\ Invalidate(n))

Spec == Init /\ [][Next]_vars /\ Fairness

-----------------------------------------------------------------------------
(* PIDs an invalidation is under way for.                                  *)
BeingEvicted == UNION {n.prePID : n \in notifying \cup callbacks}

Stale(p) == pidBuffer[p] \in Containers /\ p \notin containerPID[pidBuffer[p]]

(* A cached container name is wrong only while the notification of the     *)
(* change that made it wrong is on its way: SetContainerPIDs announces     *)
(* every PID it takes from a container (setter.go, prev), before or after  *)
(* whatever lookups cached it.                                             *)
StaleNamesBeingEvicted == \A p \in Pids : Stale(p) => p \in BeingEvicted

(* A wrong name does not stay: once the change callbacks have run, lookups *)
(* no longer answer with a container the PID has left.                     *)
StaleNamesGoAway == \A p \in Pids : Stale(p) ~> ~Stale(p)
=============================================================================
