-------------------------- MODULE CollectorProofs --------------------------
(* Proofs about Collector, for every set of PIDs, containers and           *)
(* configurations, every channel capacity and any number of notifications. *)
EXTENDS Collector, TLAPS

(* What is in a channel after a send and before a receive.                 *)
LEMMA InAppend ==
  ASSUME NEW S, NEW ch \in Seq(S), NEW e \in S, NEW p
  PROVE  InCh(p, Append(ch, e)) <=> InCh(p, ch) \/ p = e
<1>1. Len(Append(ch, e)) = Len(ch) + 1 /\ Len(ch) \in Nat
  OBVIOUS
<1>2. \A i \in 1 .. Len(ch) : Append(ch, e)[i] = ch[i]
  OBVIOUS
<1>3. Append(ch, e)[Len(ch) + 1] = e
  OBVIOUS
<1> QED
  BY <1>1, <1>2, <1>3 DEF InCh

LEMMA InTail ==
  ASSUME NEW S, NEW ch \in Seq(S), ch # <<>>, NEW p
  PROVE  InCh(p, ch) <=> p = Head(ch) \/ InCh(p, Tail(ch))
<1>1. Len(ch) \in Nat \ {0} /\ Len(Tail(ch)) = Len(ch) - 1 /\ Head(ch) = ch[1]
  OBVIOUS
<1>2. \A i \in 1 .. Len(Tail(ch)) : Tail(ch)[i] = ch[i + 1]
  OBVIOUS
<1>3. \A i \in 2 .. Len(ch) : i - 1 \in 1 .. Len(Tail(ch)) /\ ch[i] = Tail(ch)[i - 1]
  BY <1>1, <1>2
<1>4. \A i \in 1 .. Len(ch) : i = 1 \/ i \in 2 .. Len(ch)
  BY <1>1
<1>5. \A i \in 1 .. Len(Tail(ch)) : i + 1 \in 1 .. Len(ch)
  BY <1>1
<1>6. InCh(p, ch) => p = Head(ch) \/ InCh(p, Tail(ch))
  BY <1>1, <1>3, <1>4 DEF InCh
<1>7. p = Head(ch) \/ InCh(p, Tail(ch)) => InCh(p, ch)
  <2>1. 1 \in 1 .. Len(ch)
    BY <1>1
  <2> QED
    BY <1>1, <1>2, <1>5, <2>1 DEF InCh
<1> QED
  BY <1>6, <1>7

(* A channel of capacity 1 that is not empty is emptied by a receive.      *)
LEMMA TakeOnly ==
  ASSUME NEW S, NEW ch \in Seq(S), ch # <<>>, Len(ch) <= 1
  PROVE  /\ Len(ch) = 1 /\ Head(ch) \in S
         /\ Tail(ch) \in Seq(S) /\ Len(Tail(ch)) = 0
<1>1. Len(ch) \in Nat \ {0}
  OBVIOUS
<1>2. Len(ch) = 1
  BY <1>1
<1> QED
  BY <1>2

-----------------------------------------------------------------------------
(* What PIDLis.OnConfigChange and the notifier goroutines work on are PIDs.*)
LEMMA DeltaTypes ==
  ASSUME TypeOK, NEW c \in Configs
  PROVE  /\ c \in Config
         /\ GetContainerPIDsMatchRegex(c.k8s) \in SUBSET Pids
         /\ NewPids(c) \in SUBSET Pids
         /\ GonePids(c) \in SUBSET Pids
<1>1. c \in Config
  BY ConfigsAssumption
<1>2. GetContainerPIDsMatchRegex(c.k8s) \in SUBSET Pids
  BY <1>1 DEF TypeOK, Config, GetContainerPIDsMatchRegex
<1> QED
  BY <1>1, <1>2 DEF TypeOK, Config, NewPids, GonePids, Wanted

(* The iterator comes to a key, of the first bucket, or to the end.        *)
LEMMA Iterating ==
  ASSUME NEW S \in SUBSET Pids, ComeTo(S), bucket \in Hashes
  PROVE  /\ refreshing' \in S \cup {None}
         /\ refreshing' = None <=> S = {}
         /\ \A q \in S : bucket[q] \in Nat /\ bucket[refreshing'] \in Nat
                        /\ bucket[refreshing'] <= bucket[q]
<1>1. \A p \in Pids : bucket[p] \in Nat
  BY HashesAssumption
<1> QED
  BY <1>1, NoneAssumption DEF ComeTo

(* Start and HandleConf put the same things to work: the head of confCh.   *)
LEMMA ApplyConfigType ==
  ASSUME TypeOK, confCh # <<>>, confCh' = Tail(confCh), ApplyConfig(Head(confCh)),
         startConf' \in Configs
  PROVE  TypeOK'
<1> DEFINE c == Head(confCh)
<1>1. /\ c \in Configs
      /\ Len(confCh) = 1 /\ Len(confCh') = 0 /\ confCh' \in Seq(Configs)
  BY TakeOnly DEF TypeOK
<1>2. nspawns + 1 \in 1 .. MaxSpawns
  BY <1>1, BoundsAssumption DEF TypeOK
<1>3. [add |-> NewPids(c), del |-> GonePids(c)] \in Delta
  BY <1>1, DeltaTypes DEF Delta
<1>4. notifiers' \in [1 .. MaxSpawns -> Delta] /\ nspawns' \in 0 .. MaxSpawns
  BY <1>2, <1>3 DEF TypeOK, ApplyConfig, OnConfigChange, NotifyChange
<1>5. pidSet' \in SUBSET Pids /\ containerSet' \in SUBSET Pids
  BY <1>1, DeltaTypes DEF ApplyConfig, OnConfigChange, Config
<1>6. crossed' \in SUBSET Pids
  BY <1>1, DeltaTypes DEF TypeOK, ApplyConfig, OnConfigChange, Cross
<1>7. controlMap' \in [Pids -> Levels \cup {Absent}]
  BY DEF TypeOK, ApplyConfig
<1>8. nspawns' + Len(confCh') <= MaxSpawns
  <2>1. nspawns' = nspawns + 1
    BY DEF ApplyConfig, OnConfigChange, NotifyChange
  <2> QED
    BY <1>1, <2>1 DEF TypeOK
<1>9. confCh' \in Seq(Configs) /\ Len(confCh') <= 1
  BY <1>1
<1>10. /\ conf' \in Configs /\ conf' # NoConf /\ startConf' \in Configs
       /\ (conf' = NoConf <=> startConf' = NoConf)
  BY <1>1, ConfigsAssumption DEF ApplyConfig
<1>11. UNCHANGED <<containerPID, callbacks, nsets, AddCh, DelCh, bucket>>
  BY DEF ApplyConfig, envVars, chVars
<1>12. \A i \in 1 .. MaxSpawns : i > nspawns' => notifiers'[i] = NothingToSend
  BY <1>2 DEF TypeOK, ApplyConfig, OnConfigChange, NotifyChange
<1>13. refreshing' \in Entries' \cup {None}
  <2>1. KeysToRefresh \in SUBSET Entries /\ Entries \in SUBSET Pids /\ Entries' = Entries
    BY DEF KeysToRefresh, Entries, Present, ApplyConfig
  <2>2. ComeTo(KeysToRefresh) /\ bucket \in Hashes
    BY DEF ApplyConfig, TypeOK
  <2>3. refreshing' \in KeysToRefresh \cup {None}
    BY <2>1, <2>2, Iterating
  <2> QED
    BY <2>1, <2>3
<1> QED
  BY <1>4, <1>5, <1>6, <1>7, <1>8, <1>9, <1>10, <1>11, <1>12, <1>13 DEF TypeOK

\* what a refresh does to the table
LEMMA RefreshTable ==
  ASSUME TypeOK, Refresh
  PROVE  /\ conf \in Configs /\ conf.level \in Levels /\ refreshing \in Entries
         /\ controlMap' \in [Pids -> Levels \cup {Absent}]
         /\ \A p \in Pids : (Present(p)' <=> Present(p))
         /\ Entries' = Entries
<1>1. conf \in Configs /\ conf.level \in Levels
  BY ConfigsAssumption DEF TypeOK, Config, Refresh
<1>2. refreshing \in Entries /\ Entries \in SUBSET Pids
  BY DEF Refresh, TypeOK, Entries
<1>3. controlMap' = [controlMap EXCEPT ![refreshing] = conf.level]
  BY DEF Refresh
<1>4. controlMap' \in [Pids -> Levels \cup {Absent}]
  BY <1>1, <1>2, <1>3 DEF TypeOK
<1>5. \A p \in Pids : (Present(p)' <=> Present(p))
  BY <1>1, <1>2, <1>3, AbsentAssumption DEF TypeOK, Present, Entries
<1>6. Entries' = Entries
  BY <1>5 DEF Entries
<1> QED
  BY <1>1, <1>2, <1>4, <1>5, <1>6

(* The type invariant of PIDLis, the signal loop and the control table.    *)
THEOREM TypeCorrect == Spec => []TypeOK
<1>1. Init => TypeOK
  <2> SUFFICES ASSUME Init PROVE TypeOK
    OBVIOUS
  <2>1. confCh \in Seq(Configs) /\ Len(confCh) = 1
    <3>1. PICK c \in Configs : confCh = <<c>>
      BY DEF Init
    <3> QED
      BY <3>1
  <2>2. nspawns + Len(confCh) <= MaxSpawns /\ nspawns \in 0 .. MaxSpawns
    BY <2>1, BoundsAssumption DEF Init
  <2>3. notifiers \in [1 .. MaxSpawns -> Delta]
    BY DEF Init, Delta, NothingToSend
  <2>4. \A i \in 1 .. MaxSpawns : notifiers[i] = NothingToSend
    BY DEF Init
  <2> QED
    BY <2>1, <2>2, <2>3, <2>4, BoundsAssumption DEF Init, TypeOK
<1>2. TypeOK /\ [Next]_vars => TypeOK'
  <2> SUFFICES ASSUME TypeOK, [Next]_vars PROVE TypeOK'
    OBVIOUS
  <2>1. CASE Start
    <3>1. Head(confCh) \in Configs
      BY <2>1 DEF Start, TypeOK
    <3> QED
      BY <2>1, <3>1, ApplyConfigType DEF Start
  <2>2. CASE HandleConf
    <3>1. startConf' \in Configs
      BY <2>2 DEF HandleConf, TypeOK
    <3> QED
      BY <2>2, <3>1, ApplyConfigType DEF HandleConf
  <2>3. CASE HandleAdd
    <3>1. Head(AddCh) \in Pids /\ Tail(AddCh) \in Seq(Pids) /\ Len(Tail(AddCh)) <= ChanCap
      BY <2>3, BoundsAssumption DEF HandleAdd, TypeOK
    <3>2. NewEntry \in Levels
      BY <2>3, ConfigsAssumption DEF HandleAdd, TypeOK, NewEntry, OffcpuEntry, Config
    <3>3. controlMap' \in [Pids -> Levels \cup {Absent}]
      BY <2>3, <3>1, <3>2 DEF HandleAdd, TypeOK
    <3> QED
      BY <2>3, <3>1, <3>3 DEF HandleAdd, TypeOK, envVars, lisVars
  <2>4. CASE HandleDel
    <3>1. Head(DelCh) \in Pids /\ Tail(DelCh) \in Seq(Pids) /\ Len(Tail(DelCh)) <= ChanCap
      BY <2>4, BoundsAssumption DEF HandleDel, TypeOK
    <3>2. controlMap' \in [Pids -> Levels \cup {Absent}]
      BY <2>4, <3>1 DEF HandleDel, TypeOK
    <3> QED
      BY <2>4, <3>1, <3>2 DEF HandleDel, TypeOK, envVars, lisVars
  <2>5. ASSUME NEW i \in 1 .. MaxSpawns, NEW p \in Pids, NotifyAdd(i, p)
        PROVE  TypeOK'
    <3>1. AddCh' \in Seq(Pids) /\ Len(AddCh') <= ChanCap
      BY <2>5, BoundsAssumption DEF NotifyAdd, TypeOK
    <3>2. notifiers' \in [1 .. MaxSpawns -> Delta]
      BY <2>5 DEF NotifyAdd, TypeOK, Delta
    <3>3. \A j \in 1 .. MaxSpawns : j > nspawns' => notifiers'[j] = NothingToSend
      <4>1. notifiers[i] # NothingToSend /\ nspawns' = nspawns
        BY <2>5 DEF NotifyAdd, NothingToSend
      <4>2. \A j \in 1 .. MaxSpawns : j # i => notifiers'[j] = notifiers[j]
        BY <2>5 DEF NotifyAdd, TypeOK
      <4> QED
        BY <4>1, <4>2 DEF TypeOK
    <3> QED
      BY <2>5, <3>1, <3>2, <3>3 DEF NotifyAdd, TypeOK, envVars, mapVars, Entries, Present
  <2>6. ASSUME NEW i \in 1 .. MaxSpawns, NEW p \in Pids, NotifyDel(i, p)
        PROVE  TypeOK'
    <3>1. DelCh' \in Seq(Pids) /\ Len(DelCh') <= ChanCap
      BY <2>6, BoundsAssumption DEF NotifyDel, TypeOK
    <3>2. notifiers' \in [1 .. MaxSpawns -> Delta]
      BY <2>6 DEF NotifyDel, TypeOK, Delta
    <3>3. \A j \in 1 .. MaxSpawns : j > nspawns' => notifiers'[j] = NothingToSend
      <4>1. notifiers[i] # NothingToSend /\ nspawns' = nspawns
        BY <2>6 DEF NotifyDel, NothingToSend
      <4>2. \A j \in 1 .. MaxSpawns : j # i => notifiers'[j] = notifiers[j]
        BY <2>6 DEF NotifyDel, TypeOK
      <4> QED
        BY <4>1, <4>2 DEF TypeOK
    <3> QED
      BY <2>6, <3>1, <3>2, <3>3 DEF NotifyDel, TypeOK, envVars, mapVars, Entries, Present
  <2>7. ASSUME NEW n \in callbacks, OnContainerChange(n) PROVE TypeOK'
    BY <2>7 DEF OnContainerChange, LisConfK8s, lisVars, chVars, mapVars, TypeOK, Entries, Present
  <2>8. ASSUME NEW c \in Configs, SendConf(c) PROVE TypeOK'
    <3>1. confCh' \in Seq(Configs) /\ Len(confCh') = 1
      BY <2>8 DEF SendConf
    <3>2. nspawns' + Len(confCh') <= MaxSpawns
      BY <2>8, <3>1, BoundsAssumption DEF SendConf, TypeOK, lisVars
    <3> QED
      BY <2>8, <3>1, <3>2 DEF SendConf, TypeOK, envVars, lisVars, chVars, mapVars, Entries, Present
  <2>9. ASSUME NEW c \in Containers, NEW pids \in SUBSET Pids, SetContainerPIDs(c, pids)
        PROVE  TypeOK'
    <3>1. nsets' \in 0 .. MaxSets /\ nsets + 1 \in 1 .. MaxSets
      BY <2>9, BoundsAssumption DEF SetContainerPIDs, TypeOK
    <3>2. [id |-> nsets + 1, name |-> c, prePID |-> containerPID[c], curPID |-> pids]
            \in Callback
      BY <2>9, <3>1 DEF TypeOK, Callback
    <3>3. callbacks' \subseteq Callback /\ containerPID' \in [Containers -> SUBSET Pids]
      BY <2>9, <3>2 DEF SetContainerPIDs, TypeOK
    <3> QED
      BY <2>9, <3>1, <3>3 DEF SetContainerPIDs, TypeOK, lisVars, chVars, mapVars, Entries, Present
  <2>10. CASE UNCHANGED vars
    BY <2>10 DEF vars, envVars, lisVars, chVars, mapVars, TypeOK, Entries, Present
  <2>11. CASE Refresh
    <3>1. refreshing' \in Entries' \cup {None}
      <4>1. Behind(refreshing) \in SUBSET Entries /\ Entries \in SUBSET Pids
        BY DEF Behind, Entries
      <4>2. ComeTo(Behind(refreshing)) /\ bucket \in Hashes
        BY <2>11 DEF Refresh, TypeOK
      <4>3. refreshing' \in Behind(refreshing) \cup {None}
        BY <4>1, <4>2, Iterating
      <4> QED
        BY <2>11, <4>1, <4>3, RefreshTable
    <3>2. controlMap' \in [Pids -> Levels \cup {Absent}] /\ conf # NoConf
      BY <2>11, RefreshTable DEF Refresh, TypeOK
    <3> QED
      BY <2>11, <3>1, <3>2 DEF Refresh, TypeOK, envVars, lisVars, chVars
  <2> QED
    BY <2>1, <2>2, <2>3, <2>4, <2>5, <2>6, <2>7, <2>8, <2>9, <2>10, <2>11 DEF Next
<1> QED
  BY <1>1, <1>2, PTL DEF Spec

-----------------------------------------------------------------------------
(* The collectors that fill a new entry from collector.conf (all but       *)
(* offcpu, and fcount, whose entries have none) never leave an entry with  *)
(* the level of another configuration:                                     *)
(* what a refresh has yet to come to is in the bucket it is at, or behind, *)
(* and it leaves a bucket, or ends, when the key it has just set was the   *)
(* bucket's only one.                                                      *)
THEOREM EntriesFollowConf ==
  ASSUME Kind \notin {"offcpu", "fcount"}
  PROVE  Spec => []ControlFollowsConf
<1>1. Init => ControlFollowsConf
  BY DEF Init, ControlFollowsConf, Entries, Present
<1>2. TypeOK /\ ControlFollowsConf /\ [Next]_vars => ControlFollowsConf'
  <2> SUFFICES ASSUME TypeOK, ControlFollowsConf, [Next]_vars
               PROVE  ControlFollowsConf'
    OBVIOUS
  <2> USE DEF ControlFollowsConf, Refreshed
  <2>0. Entries \in SUBSET Pids /\ bucket \in Hashes
        /\ \A p \in Pids : bucket[p] \in Nat
    BY HashesAssumption DEF Entries, TypeOK
  <2>1. ASSUME NEW c \in Configs, ApplyConfig(c) PROVE ControlFollowsConf'
    <3>1. conf' = c /\ c # NoConf /\ bucket' = bucket /\ Entries' = Entries
      BY <2>1, ConfigsAssumption DEF ApplyConfig, Entries, Present
    <3>2. ComeTo(Entries)
      BY <2>1 DEF ApplyConfig, KeysToRefresh
    <3>3. /\ refreshing' = None <=> Entries = {}
          /\ \A q \in Entries : /\ bucket[q] \in Nat /\ bucket[refreshing'] \in Nat
                               /\ bucket[refreshing'] <= bucket[q]
      BY <2>0, <3>2, Iterating
    <3> QED
      BY <3>1, <3>3
  <2>2. CASE Start \/ HandleConf
    <3>1. Head(confCh) \in Configs
      BY <2>2, TakeOnly DEF Start, HandleConf, TypeOK
    <3> QED
      BY <2>1, <2>2, <3>1 DEF Start, HandleConf
  <2>3. CASE Refresh
    <3> DEFINE r == refreshing
    <3>1. /\ r \in Entries /\ Entries' = Entries
          /\ conf # NoConf /\ conf' = conf /\ bucket' = bucket
      BY <2>3, RefreshTable DEF Refresh, TypeOK
    <3>2. /\ controlMap'[r] = conf.level
          /\ \A p \in Entries \ {r} : controlMap'[p] = controlMap[p]
      BY <2>0, <2>3, <3>1 DEF Refresh, TypeOK
    <3>3. /\ refreshing' = None <=> Behind(r) = {}
          /\ \A q \in Behind(r) : bucket[refreshing'] <= bucket[q]
      <4>1. Behind(r) \in SUBSET Pids /\ ComeTo(Behind(r))
        BY <2>0, <2>3 DEF Refresh, Behind
      <4> QED
        BY <2>0, <4>1, Iterating
    <3>4. ASSUME NEW p \in Entries, p # r, Refreshed(p)' PROVE controlMap[p] = conf.level
      \* p is not behind the key just set, so it is of a bucket in front
      <4>1. p \notin Behind(r)
        <5>1. SUFFICES ASSUME p \in Behind(r) PROVE FALSE
          OBVIOUS
        <5>2. refreshing' \in Behind(r)
          <6>1. Behind(r) \in SUBSET Pids /\ ComeTo(Behind(r))
            BY <2>0, <2>3 DEF Refresh, Behind
          <6> QED
            BY <2>0, <3>3, <5>1, <6>1, Iterating
        <5>3. bucket[refreshing'] \in Nat /\ bucket[p] \in Nat /\ bucket[refreshing'] <= bucket[p]
          BY <2>0, <3>3, <5>1, <5>2 DEF Behind
        <5>4. bucket[p] < bucket[refreshing']
          BY <3>1, <3>3, <3>4, <5>1
        <5> QED
          BY <5>3, <5>4
      <4>2. bucket[p] < bucket[r]
        BY <2>0, <3>1, <3>4, <4>1 DEF Behind
      <4> QED
        BY <4>2
    <3> QED
      BY <3>1, <3>2, <3>4
  <2>4. CASE HandleAdd
    \* the entry stored is conf.level, whatever configuration asked for it
    <3>1. Head(AddCh) \in Pids /\ conf # NoConf /\ conf' = conf /\ refreshing = None
      BY <2>4 DEF HandleAdd, TypeOK
    <3>2. controlMap' = [controlMap EXCEPT ![Head(AddCh)] = conf.level]
      BY <2>4 DEF HandleAdd, NewEntry
    <3> QED
      BY <3>1, <3>2 DEF TypeOK, Entries, Present
  <2>5. CASE HandleDel
    <3>1. /\ controlMap' = [controlMap EXCEPT ![Head(DelCh)] = Absent]
          /\ conf' = conf /\ refreshing = None
      BY <2>5 DEF HandleDel
    <3> QED
      BY <3>1 DEF TypeOK, Entries, Present
  <2>6. ASSUME UNCHANGED <<conf, mapVars>> PROVE ControlFollowsConf'
    BY <2>6 DEF mapVars, Entries, Present
  <2>7. CASE \E i \in 1 .. MaxSpawns, p \in Pids : NotifyAdd(i, p) \/ NotifyDel(i, p)
    BY <2>6, <2>7 DEF NotifyAdd, NotifyDel
  <2>8. CASE \E n \in callbacks : OnContainerChange(n)
    BY <2>6, <2>8 DEF OnContainerChange
  <2>9. CASE \E c \in Configs : SendConf(c)
    BY <2>6, <2>9 DEF SendConf
  <2>10. CASE \E c \in Containers, pids \in SUBSET Pids : SetContainerPIDs(c, pids)
    BY <2>6, <2>10 DEF SetContainerPIDs
  <2>11. CASE UNCHANGED vars
    BY <2>6, <2>11 DEF vars
  <2> QED
    BY <2>2, <2>3, <2>4, <2>5, <2>7, <2>8, <2>9, <2>10, <2>11 DEF Next
<1> QED
  BY <1>1, <1>2, TypeCorrect, PTL DEF Spec

-----------------------------------------------------------------------------
(* What a step of the channels does to what is pending for a PID.          *)
LEMMA ApplyPending ==
  ASSUME TypeOK, NEW c \in Configs, ApplyConfig(c), nspawns + 1 \in 1 .. MaxSpawns,
         NEW p \in Pids
  PROVE  /\ p \in NewPids(c) => AddPending(p)'
         /\ p \in GonePids(c) => DelPending(p)'
         /\ AddPending(p)' => AddPending(p) \/ p \in NewPids(c)
         /\ DelPending(p)' => DelPending(p) \/ p \in GonePids(c)
         /\ DelPending(p) => DelPending(p)'
<1>1. notifiers' = [notifiers EXCEPT ![nspawns + 1] =
                     [add |-> NewPids(c), del |-> GonePids(c)]]
  BY DEF ApplyConfig, OnConfigChange, NotifyChange
<1>2. AddCh' = AddCh /\ DelCh' = DelCh
  BY DEF ApplyConfig, chVars
<1>3. notifiers[nspawns + 1] = NothingToSend
  BY DEF TypeOK
<1>4. \A i \in 1 .. MaxSpawns : i # nspawns + 1 => notifiers'[i] = notifiers[i]
  BY <1>1 DEF TypeOK
<1>5. /\ notifiers'[nspawns + 1].add = NewPids(c)
      /\ notifiers'[nspawns + 1].del = GonePids(c)
  BY <1>1 DEF TypeOK
<1> QED
  BY <1>2, <1>3, <1>4, <1>5 DEF AddPending, DelPending, InCh, NothingToSend

LEMMA ReceiveAdd ==
  ASSUME TypeOK, HandleAdd, NEW p \in Pids
  PROVE  /\ AddPending(p) <=> p = Head(AddCh) \/ AddPending(p)'
         /\ DelPending(p)' <=> DelPending(p)
<1>1. InCh(p, AddCh) <=> p = Head(AddCh) \/ InCh(p, AddCh')
  BY InTail DEF HandleAdd, TypeOK
<1>2. UNCHANGED <<notifiers, DelCh>>
  BY DEF HandleAdd, lisVars
<1> QED
  BY <1>1, <1>2 DEF AddPending, DelPending, InCh

LEMMA ReceiveDel ==
  ASSUME TypeOK, HandleDel, NEW p \in Pids
  PROVE  /\ DelPending(p) <=> p = Head(DelCh) \/ DelPending(p)'
         /\ AddPending(p)' <=> AddPending(p)
<1>1. InCh(p, DelCh) <=> p = Head(DelCh) \/ InCh(p, DelCh')
  BY InTail DEF HandleDel, TypeOK
<1>2. UNCHANGED <<notifiers, AddCh>>
  BY DEF HandleDel, lisVars
<1> QED
  BY <1>1, <1>2 DEF AddPending, DelPending, InCh

(* A goroutine's send moves a PID from its delta to the channel.           *)
LEMMA SendPending ==
  ASSUME TypeOK, NEW i \in 1 .. MaxSpawns, NEW q \in Pids,
         NotifyAdd(i, q) \/ NotifyDel(i, q), NEW p \in Pids
  PROVE  (AddPending(p)' <=> AddPending(p)) /\ (DelPending(p)' <=> DelPending(p))
<1>1. CASE NotifyAdd(i, q)
  <2>1. InCh(p, AddCh') <=> InCh(p, AddCh) \/ p = q
    BY <1>1, InAppend DEF NotifyAdd, TypeOK
  <2>2. \A j \in 1 .. MaxSpawns : /\ notifiers'[j].del = notifiers[j].del
                                  /\ j # i => notifiers'[j].add = notifiers[j].add
    BY <1>1 DEF NotifyAdd, TypeOK, Delta
  <2>3. q \in notifiers[i].add /\ notifiers'[i].add = notifiers[i].add \ {q}
    BY <1>1 DEF NotifyAdd, TypeOK, Delta
  <2>4. DelCh' = DelCh
    BY <1>1 DEF NotifyAdd
  <2> QED
    BY <2>1, <2>2, <2>3, <2>4 DEF AddPending, DelPending, InCh
<1>2. CASE NotifyDel(i, q)
  <2>1. InCh(p, DelCh') <=> InCh(p, DelCh) \/ p = q
    BY <1>2, InAppend DEF NotifyDel, TypeOK
  <2>2. \A j \in 1 .. MaxSpawns : /\ notifiers'[j].add = notifiers[j].add
                                  /\ j # i => notifiers'[j].del = notifiers[j].del
    BY <1>2 DEF NotifyDel, TypeOK, Delta
  <2>3. q \in notifiers[i].del /\ notifiers'[i].del = notifiers[i].del \ {q}
    BY <1>2 DEF NotifyDel, TypeOK, Delta
  <2>4. AddCh' = AddCh
    BY <1>2 DEF NotifyDel
  <2> QED
    BY <2>1, <2>2, <2>3, <2>4 DEF AddPending, DelPending, InCh
<1> QED
  BY <1>1, <1>2

-----------------------------------------------------------------------------
Tracks(p) == NotificationsAgree(p) /\ CatchesUp(p)

(* A configuration change keeps the table and the notifications in step    *)
(* for every PID whose new notification meets no contradictory one.        *)
LEMMA ApplyTracks ==
  ASSUME TypeOK, ControlTracksWanted, NEW c \in Configs, ApplyConfig(c),
         nspawns + 1 \in 1 .. MaxSpawns, NEW p \in Pids \ crossed'
  PROVE  Tracks(p)'
<1>1. (p \in Wanted)' <=> p \in NewPids(c)
  BY DEF ApplyConfig, OnConfigChange, Wanted, NewPids
<1>2. Present(p)' <=> Present(p)
  BY DEF ApplyConfig, Present
<1>3. CASE p \in NewPids(c)
  <2>1. ~ DelPending(p) /\ p \notin GonePids(c)
    BY <1>3 DEF ApplyConfig, OnConfigChange, Cross, GonePids
  <2>2. AddPending(p)' /\ ~ DelPending(p)'
    BY <1>3, <2>1, ApplyPending
  <2> QED
    BY <1>1, <1>3, <2>2 DEF Tracks, NotificationsAgree, CatchesUp
<1>4. CASE p \in GonePids(c)
  <2>1. ~ AddPending(p) /\ p \notin NewPids(c)
    BY <1>4 DEF ApplyConfig, OnConfigChange, Cross, GonePids
  <2>2. DelPending(p)' /\ ~ AddPending(p)'
    BY <1>4, <2>1, ApplyPending
  <2> QED
    BY <1>1, <2>1, <2>2 DEF Tracks, NotificationsAgree, CatchesUp
<1>5. CASE p \notin NewPids(c) \cup GonePids(c)
  <2>1. p \notin Wanted /\ p \notin crossed
    BY <1>5 DEF ApplyConfig, OnConfigChange, Cross, GonePids
  <2>2. ~ AddPending(p) /\ (~ Present(p) \/ DelPending(p))
    BY <2>1 DEF ControlTracksWanted, NotificationsAgree, CatchesUp
  <2>3. ~ AddPending(p)' /\ (DelPending(p) => DelPending(p)')
    BY <1>5, <2>2, ApplyPending
  <2> QED
    BY <1>1, <1>2, <1>5, <2>2, <2>3 DEF Tracks, NotificationsAgree, CatchesUp
<1> QED
  BY <1>3, <1>4, <1>5

(* For every PID without contradictory notifications under way, what is on *)
(* its way agrees with the PIDLis, and the table is right or about to be.  *)
THEOREM TableTracksPIDLis == Spec => []ControlTracksWanted
<1>1. Init => ControlTracksWanted
  BY DEF Init, ControlTracksWanted, NotificationsAgree, CatchesUp, Wanted, Present,
         AddPending, DelPending, InCh, NothingToSend
<1>2. TypeOK /\ ControlTracksWanted /\ [Next]_vars => ControlTracksWanted'
  <2> SUFFICES ASSUME TypeOK, ControlTracksWanted, [Next]_vars,
                      NEW p \in Pids, p \notin crossed'
               PROVE  Tracks(p)'
    BY DEF ControlTracksWanted, Tracks
  <2>1. CASE Start \/ HandleConf
    <3>1. Head(confCh) \in Configs /\ Len(confCh) = 1
      BY <2>1, TakeOnly DEF Start, HandleConf, TypeOK
    <3>2. nspawns + 1 \in 1 .. MaxSpawns
      BY <3>1, BoundsAssumption DEF TypeOK
    <3> QED
      BY <2>1, <3>1, <3>2, ApplyTracks DEF Start, HandleConf
  <2>2. ASSUME p \notin crossed PROVE Tracks(p)
    BY <2>2 DEF ControlTracksWanted, Tracks
  <2>3. CASE HandleAdd
    <3>1. UNCHANGED <<pidSet, containerSet, crossed>>
      BY <2>3 DEF HandleAdd, lisVars
    <3>2. p # Head(AddCh) => (Present(p)' <=> Present(p))
      BY <2>3 DEF HandleAdd, TypeOK, Present
    <3>3. p = Head(AddCh) => Present(p)'
      BY <2>3, AbsentAssumption, ConfigsAssumption
         DEF HandleAdd, TypeOK, Present, NewEntry, OffcpuEntry, Config
    <3> QED
      BY <2>2, <2>3, <3>1, <3>2, <3>3, ReceiveAdd
         DEF Tracks, NotificationsAgree, CatchesUp, Wanted
  <2>4. CASE HandleDel
    <3>1. UNCHANGED <<pidSet, containerSet, crossed>>
      BY <2>4 DEF HandleDel, lisVars
    <3>2. p # Head(DelCh) => (Present(p)' <=> Present(p))
      BY <2>4 DEF HandleDel, TypeOK, Present
    <3>3. p = Head(DelCh) => ~ Present(p)'
      BY <2>4 DEF HandleDel, TypeOK, Present
    <3> QED
      BY <2>2, <2>4, <3>1, <3>2, <3>3, ReceiveDel
         DEF Tracks, NotificationsAgree, CatchesUp, Wanted
  <2>5. ASSUME NEW i \in 1 .. MaxSpawns, NEW q \in Pids,
               NotifyAdd(i, q) \/ NotifyDel(i, q)
        PROVE  Tracks(p)'
    <3>1. UNCHANGED <<pidSet, containerSet, crossed, controlMap>>
      BY <2>5 DEF NotifyAdd, NotifyDel, mapVars
    <3> QED
      BY <2>2, <2>5, <3>1, SendPending
         DEF Tracks, NotificationsAgree, CatchesUp, Wanted, Present
  <2>6. ASSUME UNCHANGED <<lisVars, chVars, controlMap>> PROVE Tracks(p)'
    BY <2>2, <2>6 DEF lisVars, chVars, Tracks, NotificationsAgree, CatchesUp, Wanted,
                      Present, AddPending, DelPending, InCh
  <2>7. CASE \E n \in callbacks : OnContainerChange(n)
    BY <2>6, <2>7 DEF OnContainerChange, LisConfK8s, mapVars
  <2>8. CASE \E c \in Configs : SendConf(c)
    BY <2>6, <2>8 DEF SendConf, mapVars
  <2>9. CASE \E c \in Containers, pids \in SUBSET Pids : SetContainerPIDs(c, pids)
    BY <2>6, <2>9 DEF SetContainerPIDs, mapVars
  <2>10. CASE UNCHANGED vars
    BY <2>6, <2>10 DEF vars, mapVars
  <2>11. CASE Refresh
    <3>1. UNCHANGED <<lisVars, chVars>> /\ (Present(p)' <=> Present(p))
      BY <2>11, RefreshTable DEF Refresh
    <3> QED
      BY <2>2, <3>1 DEF lisVars, chVars, Tracks, NotificationsAgree, CatchesUp, Wanted,
                        AddPending, DelPending, InCh
  <2> QED
    BY <2>1, <2>3, <2>4, <2>5, <2>7, <2>8, <2>9, <2>10, <2>11 DEF Next
<1> QED
  BY <1>1, <1>2, TypeCorrect, PTL DEF Spec
=============================================================================
