----------------------------- MODULE Collector -----------------------------
(***************************************************************************)
(* One collector: its PIDLis (collector/utils/pid.go), the signal loop     *)
(* that StartBiostat, StartTcpreq, StartTcpdrop, StartOffcpu and           *)
(* StartFcount run, and the BPF table that says which PIDs the collector's *)
(* BPF program records, and how ("control_map"; fcount's "data" table).    *)
(*                                                                         *)
(* A configuration names fixed PIDs and containers.  PIDLis.OnConfigChange *)
(* works out which PIDs are new and which are gone, and notifyChange       *)
(* starts a goroutine that sends them one by one on AddCh and DelCh.  The  *)
(* signal loop takes them with a select and updates the table.  Neither    *)
(* the goroutines nor the two channels are ordered among each other.       *)
(*                                                                         *)
(* Abstractions.  The patterns of a configuration's k8s list are one       *)
(* pattern, and it is the set of containers it matches.  Everything else a *)
(* configuration says of a table entry (verbose, state, bin_scale, ...) is *)
(* its level; fcount's entries carry none, so for it all configurations    *)
(* have the same.  Only the signal loop writes conf, the PID sets and the  *)
(* table, so a branch of its select is one action although it takes        *)
(* collector.mutex more than once - except the loop of onConfigChange that *)
(* refreshes the table, which is a step for each key: SetP puts the key it *)
(* sets at the head of its bucket, so that the iterator finds all others   *)
(* of the bucket behind it, again and again.  Which of them comes next is  *)
(* left open.  Which bucket a PID is in depends on a random seed.          *)
(***************************************************************************)
EXTENDS Naturals, Sequences

CONSTANTS
  Kind,        \* which collector this is
  Pids,        \* process ids
  Containers,  \* containers of the node
  Levels,      \* recording levels a table entry can hold
  Configs,     \* configurations of this collector
  NoConf,      \* collector.conf before StartX has applied the first one
  Absent,      \* the PID has no entry in the table
  None,        \* no PID
  NBuckets,    \* buckets of the table
  Hashes,      \* what PIDs may be hashed to
  ChanCap,     \* capacity of AddCh and of DelCh (1024 in the code)
  MaxSpawns,   \* bound: calls of notifyChange
  MaxSets      \* bound: calls of SetContainerPIDs

Config == [pids : SUBSET Pids, k8s : SUBSET Containers, level : Levels]

ASSUME KindAssumption ==
  Kind \in {"fcount", "biostat", "tcpreq", "tcpdrop", "offcpu"}

ASSUME ConfigsAssumption == Configs \subseteq Config /\ NoConf \notin Configs

ASSUME AbsentAssumption == Absent \notin Levels

ASSUME NoneAssumption == None \notin Pids

ASSUME HashesAssumption == NBuckets \in Nat \ {0} /\ Hashes \subseteq [Pids -> 1 .. NBuckets]

ASSUME BoundsAssumption ==
  ChanCap \in Nat \ {0} /\ MaxSpawns \in Nat \ {0} /\ MaxSets \in Nat

VARIABLES
  containerPID,  \* info.containerPID: container -> its PIDs
  callbacks,     \* container-change goroutines started and not yet run
  nsets,         \* calls of SetContainerPIDs so far
  confCh,        \* the collector's ConfCh, capacity 1
  conf,          \* collector.conf
  startConf,     \* the variable conf of StartX: the first configuration
  pidSet,        \* PIDLis.pidSet
  containerSet,  \* PIDLis.containerSet
  notifiers,     \* per notifyChange call, the PIDs its goroutine has yet to send
  nspawns,       \* calls of notifyChange so far
  AddCh, DelCh,  \* PIDLis.AddCh and PIDLis.DelCh
  controlMap,    \* the BPF table: PID -> level of its entry
  bucket,        \* the bucket of a PID
  refreshing,    \* the key that the loop of onConfigChange is at, or None
  crossed        \* auxiliary: PIDs whose latest notification was started
                 \* while a contradictory one was still on its way

envVars == <<containerPID, callbacks, nsets>>
lisVars == <<pidSet, containerSet, notifiers, nspawns, crossed>>
chVars == <<AddCh, DelCh>>
mapVars == <<controlMap, bucket, refreshing>>
vars == <<envVars, confCh, conf, startConf, lisVars, chVars, mapVars>>

Callback == [id : 1 .. MaxSets, name : Containers, prePID : SUBSET Pids, curPID : SUBSET Pids]
Delta == [add : SUBSET Pids, del : SUBSET Pids]
NothingToSend == [add |-> {}, del |-> {}]

Present(p) == controlMap[p] # Absent
Entries == {p \in Pids : Present(p)}

(* Type invariant of the registry (info.go), of PIDLis (pid.go) and of     *)
(* collector.conf and the control table; no channel beyond its capacity,   *)
(* and a refresh is at a key of the table.                                 *)
TypeOK ==
  /\ containerPID \in [Containers -> SUBSET Pids]
  /\ callbacks \subseteq Callback
  /\ nsets \in 0 .. MaxSets
  /\ confCh \in Seq(Configs) /\ Len(confCh) <= 1
  /\ conf \in Configs \cup {NoConf}
  /\ startConf \in Configs \cup {NoConf}
  /\ pidSet \in SUBSET Pids
  /\ containerSet \in SUBSET Pids
  /\ notifiers \in [1 .. MaxSpawns -> Delta]
  /\ nspawns \in 0 .. MaxSpawns
  /\ nspawns + Len(confCh) <= MaxSpawns
  /\ AddCh \in Seq(Pids) /\ Len(AddCh) <= ChanCap
  /\ DelCh \in Seq(Pids) /\ Len(DelCh) <= ChanCap
  /\ controlMap \in [Pids -> Levels \cup {Absent}]
  /\ bucket \in Hashes
  /\ refreshing \in Entries \cup {None}
  /\ refreshing # None => conf # NoConf
  /\ crossed \in SUBSET Pids
  /\ conf = NoConf <=> startConf = NoConf
  /\ \A i \in 1 .. MaxSpawns : i > nspawns => notifiers[i] = NothingToSend

(* collector.go, Setup: the configuration is put in confCh before StartX.  *)
Init ==
  /\ containerPID = [c \in Containers |-> {}]
  /\ callbacks = {}
  /\ nsets = 0
  /\ confCh \in {<<c>> : c \in Configs}
  /\ conf = NoConf
  /\ startConf = NoConf
  /\ pidSet = {}
  /\ containerSet = {}
  /\ notifiers = [i \in 1 .. MaxSpawns |-> NothingToSend]
  /\ nspawns = 0
  /\ AddCh = <<>>
  /\ DelCh = <<>>
  /\ controlMap = [p \in Pids |-> Absent]
  /\ bucket \in Hashes
  /\ refreshing = None
  /\ crossed = {}

(* What the PIDLis says should be recorded.                                *)
Wanted == pidSet \cup containerSet

InCh(p, ch) == \E i \in 1 .. Len(ch) : ch[i] = p

AddPending(p) == InCh(p, AddCh) \/ \E i \in 1 .. MaxSpawns : p \in notifiers[i].add
DelPending(p) == InCh(p, DelCh) \/ \E i \in 1 .. MaxSpawns : p \in notifiers[i].del

-----------------------------------------------------------------------------
(* PIDLis                                                                  *)

(* getter.go, GetContainerPIDsMatchRegex.                                  *)
GetContainerPIDsMatchRegex(k8s) == UNION {containerPID[k] : k \in k8s}

\* containers that have left the configuration are not taken out
GoneFixedOnly(c) == pidSet \ (c.pids \cup GetContainerPIDsMatchRegex(c.k8s))

\* a PID of both configurations is announced as gone and as new
GoneAll(c) == Wanted

(* pid.go, OnConfigChange: the PIDs of the new configuration, ...          *)
NewPids(c) == c.pids \cup GetContainerPIDsMatchRegex(c.k8s)

(* ... and those that were recorded so far and no longer are.              *)
GonePids(c) == Wanted \ NewPids(c)

(* pid.go, notifyChange: a goroutine of its own sends the delta.           *)
NotifyChange(add, del) ==
  /\ nspawns' = nspawns + 1
  /\ notifiers' = [notifiers EXCEPT ![nspawns + 1] = [add |-> add, del |-> del]]

(* crossed: a notification that meets a contradictory one marks the PID,   *)
(* one that meets none clears the mark.                                    *)
Cross(add, del) ==
  crossed' = (crossed \ (add \cup del))
               \cup {p \in add : DelPending(p)} \cup {p \in del : AddPending(p)}

OnConfigChange(c) ==
  /\ pidSet' = c.pids
  /\ containerSet' = GetContainerPIDsMatchRegex(c.k8s)
  /\ NotifyChange(NewPids(c), GonePids(c))
  /\ Cross(NewPids(c), GonePids(c))

(* pid.go, NewPIDLis: PIDLis.conf.  Every collector passes an empty        *)
(* ListenConfig, and OnConfigChange does not assign the field.             *)
LisConfK8s == {}

(* pid.go, the callback NewPIDLis registers for container changes.  It     *)
(* acts only on the containers that PIDLis.conf matches.                   *)
OnContainerChange(n) ==
  /\ n \in callbacks
  /\ callbacks' = callbacks \ {n}
  /\ IF n.name \in LisConfK8s
       THEN LET left == containerSet \ n.prePID
            IN /\ nspawns < MaxSpawns
               /\ containerSet' = left \cup n.curPID
               /\ NotifyChange(n.curPID \ left, {})
               /\ Cross(n.curPID \ left, {})
               /\ UNCHANGED pidSet
       ELSE UNCHANGED lisVars
  /\ UNCHANGED <<containerPID, nsets, confCh, conf, startConf, chVars, mapVars>>

\* the sender does not wait for room
NotifyAddUnbounded(i, p) ==
  /\ p \in notifiers[i].add
  /\ AddCh' = Append(AddCh, p)
  /\ notifiers' = [notifiers EXCEPT ![i].add = @ \ {p}]
  /\ UNCHANGED <<envVars, confCh, conf, startConf, pidSet, containerSet, nspawns,
                 crossed, DelCh, mapVars>>

(* pid.go, notifyChange: the goroutine of call i sends one PID.  Go ranges *)
(* over the delta map in any order; a send waits while the channel is full.*)
NotifyAdd(i, p) ==
  /\ p \in notifiers[i].add
  /\ Len(AddCh) < ChanCap
  /\ AddCh' = Append(AddCh, p)
  /\ notifiers' = [notifiers EXCEPT ![i].add = @ \ {p}]
  /\ UNCHANGED <<envVars, confCh, conf, startConf, pidSet, containerSet, nspawns,
                 crossed, DelCh, mapVars>>

NotifyDel(i, p) ==
  /\ p \in notifiers[i].del
  /\ Len(DelCh) < ChanCap
  /\ DelCh' = Append(DelCh, p)
  /\ notifiers' = [notifiers EXCEPT ![i].del = @ \ {p}]
  /\ UNCHANGED <<envVars, confCh, conf, startConf, pidSet, containerSet, nspawns,
                 crossed, AddCh, mapVars>>

-----------------------------------------------------------------------------
(* The collector                                                           *)

(* Iter and Next: the iterator goes from bucket to bucket.  It comes to a  *)
(* key of the first bucket that holds one of those in front of it.         *)
ComeTo(keys) ==
  IF keys = {} THEN refreshing' = None
               ELSE refreshing' \in {p \in keys : \A q \in keys : bucket[p] <= bucket[q]}

(* fcount's entries hold no settings, and its onConfigChange has no loop.  *)
KeysToRefresh == IF Kind = "fcount" THEN {} ELSE Entries

ApplyConfig(c) ==
  /\ OnConfigChange(c)
  /\ conf' = c
  /\ ComeTo(KeysToRefresh)
  /\ UNCHANGED <<envVars, chVars, controlMap, bucket>>

\* once p has been set, and put at the head of its bucket
Behind(p) == {q \in Entries \ {p} : bucket[q] >= bucket[p]}

(* biostat.go, onConfigChange: "for iter.Next()", the key gets the level   *)
(* of the new configuration.  The loop has the mutex, and the signal loop  *)
(* is in it.                                                               *)
Refresh ==
  /\ refreshing # None
  /\ controlMap' = [controlMap EXCEPT ![refreshing] = conf.level]
  /\ ComeTo(Behind(refreshing))
  /\ UNCHANGED <<envVars, confCh, conf, startConf, lisVars, chVars, bucket>>

(* biostat.go, StartBiostat: take the first configuration, apply it, start *)
(* the signal loop.  Failures of setupBioBCC are ConfigBus's matter.       *)
Start ==
  /\ conf = NoConf
  /\ confCh # <<>>
  /\ confCh' = Tail(confCh)
  /\ startConf' = Head(confCh)
  /\ ApplyConfig(Head(confCh))

(* biostat.go, signal loop, "case conf := <-confCh".  The case declares a  *)
(* conf of its own: StartX's variable keeps the first configuration.       *)
HandleConf ==
  /\ conf # NoConf /\ refreshing = None
  /\ confCh # <<>>
  /\ confCh' = Tail(confCh)
  /\ ApplyConfig(Head(confCh))
  /\ UNCHANGED startConf

\* every collector fills a new entry from StartX's variable
EntryFromStart == startConf.level

(* offcpu.go, "case addPID": the entry is filled from StartX's conf, ...   *)
OffcpuEntry == startConf.level

(* ... where biostat.go, tcpreq.go and tcpdrop.go read collector.conf.     *)
NewEntry == IF Kind = "offcpu" THEN OffcpuEntry ELSE conf.level

(* biostat.go, signal loop, "case addPID := <-collector.pidLis.AddCh".     *)
HandleAdd ==
  /\ conf # NoConf /\ refreshing = None
  /\ AddCh # <<>>
  /\ AddCh' = Tail(AddCh)
  /\ controlMap' = [controlMap EXCEPT ![Head(AddCh)] = NewEntry]
  /\ UNCHANGED <<envVars, confCh, conf, startConf, lisVars, DelCh, bucket, refreshing>>

(* biostat.go, signal loop, "case delPID := <-collector.pidLis.DelCh".     *)
HandleDel ==
  /\ conf # NoConf /\ refreshing = None
  /\ DelCh # <<>>
  /\ DelCh' = Tail(DelCh)
  /\ controlMap' = [controlMap EXCEPT ![Head(DelCh)] = Absent]
  /\ UNCHANGED <<envVars, confCh, conf, startConf, lisVars, AddCh, bucket, refreshing>>

-----------------------------------------------------------------------------
(* The collector's surroundings                                            *)

(* collector.go, Setup: a sender goroutine of the configuration callback   *)
(* gets its configuration into confCh.                                     *)
SendConf(c) ==
  /\ conf # NoConf
  /\ confCh = <<>>
  /\ nspawns < MaxSpawns
  /\ confCh' = <<c>>
  /\ UNCHANGED <<envVars, conf, startConf, lisVars, chVars, mapVars>>

(* setter.go, SetContainerPIDs: the list is replaced and every container-  *)
(* change callback started as a goroutine.                                 *)
SetContainerPIDs(c, pids) ==
  /\ nsets < MaxSets
  /\ nsets' = nsets + 1
  /\ containerPID' = [containerPID EXCEPT ![c] = pids]
  /\ callbacks' = callbacks \cup
       {[id |-> nsets + 1, name |-> c, prePID |-> containerPID[c], curPID |-> pids]}
  /\ UNCHANGED <<confCh, conf, startConf, lisVars, chVars, mapVars>>

Next ==
  \/ Start
  \/ HandleConf
  \/ Refresh
  \/ HandleAdd
  \/ HandleDel
  \/ \E i \in 1 .. MaxSpawns, p \in Pids : NotifyAdd(i, p)
  \/ \E i \in 1 .. MaxSpawns, p \in Pids : NotifyDel(i, p)
  \/ \E n \in callbacks : OnContainerChange(n)
  \/ \E c \in Configs : SendConf(c)
  \/ \E c \in Containers, pids \in SUBSET Pids : SetContainerPIDs(c, pids)

(* The collector starts; its loops go on; its select, when it comes back   *)
(* to it, serves a channel that stays readable (Go chooses among the ready *)
(* cases at random); and a notifier goroutine that waits for room in a     *)
(* channel is served in its turn (Go queues the senders of a channel).     *)
(* Nobody is obliged to change a configuration or a container.             *)
Fairness ==
  /\ WF_vars(Start)
  /\ WF_vars(HandleConf)
  /\ WF_vars(Refresh)
  /\ WF_vars(HandleAdd)
  /\ WF_vars(HandleDel)
  /\ \A i \in 1 .. MaxSpawns :
       SF_vars(\E p \in Pids : NotifyAdd(i, p) \/ NotifyDel(i, p))

Spec == Init /\ [][Next]_vars /\ Fairness

-----------------------------------------------------------------------------
(* Every entry of the table has the level of the configuration in force,   *)
(* except those a refresh under way has not come to: onConfigChange        *)
(* refreshes the entries there are, bucket by bucket, and leaves none out  *)
(* if it comes to an end; and an entry made from an AddCh message that was *)
(* sent under an older configuration is filled from collector.conf, not    *)
(* from the configuration that asked for it.                               *)
(* README.md: "User can chose different verbose level, and configuration   *)
(* can be change dynamically".                                             *)
Refreshed(p) == refreshing = None \/ bucket[p] < bucket[refreshing]

ControlFollowsConf ==
  \A p \in Entries : conf # NoConf /\ (Refreshed(p) => controlMap[p] = conf.level)

(* pid.go and the signal loop: unless contradictory notifications about a  *)
(* PID met, what is on its way for it agrees with what the PIDLis wants,   *)
(* and the table is right or is about to be made right.                    *)
NotificationsAgree(p) ==
  /\ AddPending(p) => p \in Wanted
  /\ DelPending(p) => p \notin Wanted

CatchesUp(p) ==
  /\ p \in Wanted => Present(p) \/ AddPending(p)
  /\ p \notin Wanted => ~Present(p) \/ DelPending(p)

ControlTracksWanted ==
  \A p \in Pids \ crossed : NotificationsAgree(p) /\ CatchesUp(p)

(* A loop that sets each key it iterates over is at one of two keys of one *)
(* bucket, and goes from one to the other for ever with the mutex held:    *)
(* the refresh (biostat.go:321 and alike), or for fcount exportData        *)
(* (fcount.go:176), which Fcount models.                                   *)
Endless ==
  \E p, q \in Entries :
    p # q /\ bucket[p] = bucket[q] /\ (refreshing = p \/ Kind = "fcount")

(* A PID the configuration names gets recorded: its notification is not    *)
(* lost, however full the channels are and however the goroutines run,     *)
(* unless it is no longer wanted, a contradictory one overtakes it, or the *)
(* signal loop is in a refresh that does not end (Endless).                *)
WantedPidsGetRecorded ==
  \A p \in Pids :
    p \in Wanted \ crossed
      ~> Present(p) \/ p \notin Wanted \/ p \in crossed \/ Endless

AtRest ==
  /\ conf # NoConf /\ refreshing = None
  /\ confCh = <<>>
  /\ callbacks = {}
  /\ AddCh = <<>> /\ DelCh = <<>>
  /\ \A i \in 1 .. MaxSpawns : notifiers[i] = NothingToSend

(* pid.go, the container-change callback: "judge whether the change        *)
(* concerns this entry", "work out the added and deleted PIDs", "notify".  *)
(* When nothing is on its way, every PID of a container that the           *)
(* configuration matches is recorded.                                      *)
FollowsContainers ==
  AtRest /\ crossed = {} =>
    \A p \in GetContainerPIDsMatchRegex(conf.k8s) : Present(p)
=============================================================================
