------------------------------- MODULE Fcount -------------------------------
(***************************************************************************)
(* The fcount BPF program (release/bcc/fcount.c), called at the begin and  *)
(* at the end of a kernel function on several CPUs, and its collector      *)
(* (fcount.go): the signal loop, which enters PIDs, and exportData, which  *)
(* goes over the table and sets the counters it has read to zero.          *)
(*                                                                         *)
(* Calls of the function are numbered, and a counter is the set of calls   *)
(* it counts.  "val->count++" loads through the pointer that the lookup    *)
(* returned and stores in a second step.  A map update does not write to   *)
(* the element: it puts another one at the head of the bucket and frees    *)
(* the old.  A handler that still has a pointer to the old one stores into *)
(* a free element, or into that of a key that has got it.  Which bucket a  *)
(* PID is in depends on a random seed.                                     *)
(***************************************************************************)
EXTENDS Naturals, Sequences, FiniteSets

CONSTANTS
  Pids,      \* processes
  None,      \* no process
  Confs,     \* configurations: function and count_return
  FirstConf, \* the one that the collector starts with
  NBuckets,  \* buckets of the table
  Hashes,    \* what PIDs may be hashed to
  MaxCalls   \* bound: calls of the probed function

ASSUME NoneAssumption == None \notin Pids

ASSUME PidsAssumption == IsFiniteSet(Pids)

ASSUME ConfsAssumption == FirstConf \in Confs

ASSUME HashesAssumption == Hashes \subseteq [Pids -> 1 .. NBuckets]

ASSUME BoundsAssumption == NBuckets \in Nat \ {0} /\ MaxCalls \in Nat

Calls == 1 .. MaxCalls
Fields == {"count", "ret_count"}
Zero == [here |-> TRUE, count |-> {}, ret_count |-> {}]
NoEntry == [Zero EXCEPT !.here = FALSE]

VARIABLES
  conf,     \* collector.conf
  call,     \* per call, its process and where fcount.c is with it
  table,    \* data: PID -> the two counters of its element; or NoEntry
  bucket,   \* the bucket of a PID
  chain,    \* per bucket, its keys in the order of an iteration
  iter,     \* the key exportData is at, and whether it is still to be reset
  points,   \* per counter, in how many points a call has been counted
  due,      \* auxiliary: per counter, calls counted and not discarded since
  overlap,  \* auxiliary: an increment met another one, or the exporter
  astray    \* auxiliary: an increment went to an element that was freed

mapVars == <<table, chain>>
collectorVars == <<conf, bucket>>
exportVars == <<iter, points>>
fauxVars == <<overlap, astray>>
fvars == <<call, mapVars, collectorVars, exportVars, fauxVars, due>>

NotYet == [pid |-> None, pc |-> "none", val |-> {}, gone |-> FALSE]

Nothing == [f \in Fields |-> {}]
Waiting == [pc |-> "wait", key |-> None, read |-> FALSE]

Call == [pid : Pids \cup {None}, pc : {"none", "body", "done"} \cup Fields,
         val : SUBSET Calls, gone : BOOLEAN]

(* Type invariant of fcount.c's table and fcount.go's exporter; a key is   *)
(* in its bucket's chain exactly if it has an entry.                       *)
FTypeOK ==
  /\ conf \in Confs
  /\ call \in [Calls -> Call]
  /\ table \in [Pids -> [here : BOOLEAN, count : SUBSET Calls, ret_count : SUBSET Calls]]
  /\ bucket \in Hashes
  /\ iter \in [pc : {"wait", "iterate"}, key : Pids \cup {None}, read : BOOLEAN]
  /\ points \in [Fields -> [Calls -> 0 .. MaxCalls]]
  /\ due \in [Fields -> SUBSET Calls]
  /\ overlap \in BOOLEAN /\ astray \in BOOLEAN
  /\ \A p \in Pids : table[p].here <=> \E i \in DOMAIN chain[bucket[p]] : chain[bucket[p]][i] = p

(* setupFcountBCC: the probes are attached, the table is empty.            *)
FInit ==
  /\ conf = FirstConf
  /\ call = [i \in Calls |-> NotYet]
  /\ table = [p \in Pids |-> NoEntry]
  /\ bucket \in Hashes
  /\ chain = [b \in 1 .. NBuckets |-> <<>>]
  /\ iter = Waiting
  /\ points = [f \in Fields |-> [i \in Calls |-> 0]]
  /\ due = Nothing
  /\ overlap = FALSE /\ astray = FALSE

-----------------------------------------------------------------------------
(* The table                                                               *)

Others(p) == SelectSeq(chain[bucket[p]], LAMBDA q : q # p)

\* handlers that have a pointer to the element that a key loses
Orphaned(p) ==
  [i \in Calls |-> IF call[i].pid = p /\ call[i].pc \in Fields
                     THEN [call[i] EXCEPT !.gone = TRUE] ELSE call[i]]

(* bpf_map_update_elem: the new element goes to the head of the bucket.    *)
SetP(p, val) ==
  /\ table' = [table EXCEPT ![p] = val]
  /\ chain' = [chain EXCEPT ![bucket[p]] = <<p>> \o Others(p)]
  /\ call' = Orphaned(p)

DeleteP(p) ==
  /\ table' = [table EXCEPT ![p] = NoEntry]
  /\ chain' = [chain EXCEPT ![bucket[p]] = Others(p)]
  /\ call' = Orphaned(p)

-----------------------------------------------------------------------------
(* fcount.c                                                                *)

\* "data.lookup(&pid)" and the load; without an entry there is no counting
Lookup(i, p, f, otherwise) ==
  call' = [call EXCEPT ![i] =
    [NotYet EXCEPT !.pid = p, !.pc = IF table[p].here THEN f ELSE otherwise,
                   !.val = table[p][f]]]

\* fcount_begin: a thread of p enters the function
FcountBegin(i, p) ==
  /\ call[i].pc = "none" /\ \A j \in 1 .. i - 1 : call[j].pc # "none"
  /\ Lookup(i, p, "count", "body")
  /\ UNCHANGED <<mapVars, collectorVars, exportVars, fauxVars, due>>

\* fcount_return: it returns
FcountReturn(i) ==
  /\ call[i].pc = "body" /\ FirstConf.ret
  /\ Lookup(i, call[i].pid, "ret_count", "done")
  /\ UNCHANGED <<mapVars, collectorVars, exportVars, fauxVars, due>>

\* "val->count++", "val->ret_count++"
Sum(i) == call[i].val \cup {i}

(* The store.  The element is the process's own, or nobody's, or another's. *)
Increment(i) ==
  LET h == call[i] f == h.pc
  IN  /\ f \in Fields
      /\ IF h.gone
           THEN \/ UNCHANGED table
                \/ \E p \in Pids : table[p].here /\ table' = [table EXCEPT ![p][f] = Sum(i)]
           ELSE table' = [table EXCEPT ![h.pid][f] = Sum(i)]
      /\ call' = [call EXCEPT ![i] = [NotYet EXCEPT !.pid = h.pid,
                                        !.pc = IF f = "count" THEN "body" ELSE "done"]]
      /\ due' = [due EXCEPT ![f] = @ \cup {i}]
      /\ astray' = (astray \/ h.gone)
      /\ overlap' = \/ overlap \/ h.gone
                    \/ table[h.pid][f] # h.val
                    \/ iter.read /\ iter.key = h.pid
      /\ UNCHANGED <<chain, collectorVars, exportVars>>

-----------------------------------------------------------------------------
(* fcount.go, signal loop                                                  *)

\* collector.mutex is not held by exportData
MutexFree == iter.pc = "wait"

\* what an entry counts when it is entered anew or deleted is discarded
Discard(p) == due' = [f \in Fields |-> due[f] \ table[p][f]]

(* StartFcount, "case addPID": also for a PID that has an entry, which     *)
(* every change of the configuration announces again (see Collector).      *)
AddPid(p) ==
  /\ MutexFree
  /\ SetP(p, Zero)
  /\ Discard(p)
  /\ UNCHANGED <<collectorVars, exportVars, fauxVars>>

\* StartFcount, "case delPID"
DelPid(p) ==
  /\ MutexFree
  /\ table[p].here
  /\ DeleteP(p)
  /\ Discard(p)
  /\ UNCHANGED <<collectorVars, exportVars, fauxVars>>

\* onConfigChange: the probes stay where they are
OnConfigChange(c) ==
  /\ MutexFree
  /\ c # conf
  /\ conf' = c
  /\ UNCHANGED <<call, mapVars, bucket, exportVars, fauxVars, due>>

-----------------------------------------------------------------------------
(* fcount.go, exportData                                                   *)

FExportBegin ==
  /\ iter.pc = "wait"
  /\ iter' = [Waiting EXCEPT !.pc = "iterate"]
  /\ UNCHANGED <<call, mapVars, collectorVars, points, fauxVars, due>>

\* the first key in the buckets from b on
First(b, p) ==
  \E c \in b .. NBuckets :
    /\ chain[c] # <<>> /\ Head(chain[c]) = p
    /\ \A d \in b .. c - 1 : chain[d] = <<>>

\* the iteration ends with its first key
OnlyFirst(k, p) == k = None /\ First(1, p)

(* "iter.Next()": the kernel gives the first key, or the one behind the    *)
(* key it is at, bucket by bucket.                                         *)
Follows(k, p) ==
  \/ k = None /\ First(1, p)
  \/ /\ k # None
     /\ LET c == chain[bucket[k]]
        IN  \E i \in DOMAIN c :
              c[i] = k /\ IF i = Len(c) THEN First(bucket[k] + 1, p) ELSE c[i + 1] = p

(* "iter.Leaf()", and the point with the counters; ret_count only if the   *)
(* configuration of now asks for it.                                       *)
FExportRead(p) ==
  LET out(f) == IF f = "count" \/ conf.ret THEN table[p][f] ELSE {}
  IN  /\ iter.pc = "iterate" /\ ~iter.read /\ Follows(iter.key, p)
      /\ iter' = [iter EXCEPT !.key = p, !.read = TRUE]
      /\ points' = [f \in Fields |-> [i \in Calls |->
                      points[f][i] + IF i \in out(f) THEN 1 ELSE 0]]
      /\ due' = [f \in Fields |-> due[f] \ (table[p][f] \ out(f))]
      /\ UNCHANGED <<call, mapVars, collectorVars, fauxVars>>

\* ret_count is not set to zero
ResetCountOnly(p) == [table[p] EXCEPT !.count = {}]

\* "valStruct.Count = 0", "valStruct.Retcount = 0"
ResetValue(p) == Zero

\* "collector.countMap.SetP"
ExportReset ==
  /\ iter.pc = "iterate" /\ iter.read
  /\ SetP(iter.key, ResetValue(iter.key))
  /\ iter' = [iter EXCEPT !.read = FALSE]
  /\ UNCHANGED <<collectorVars, points, fauxVars, due>>

\* the points go to dataCh (see EventPipe) and the mutex is released
FExportEnd ==
  /\ iter.pc = "iterate" /\ ~iter.read /\ ~\E p \in Pids : Follows(iter.key, p)
  /\ iter' = Waiting
  /\ UNCHANGED <<call, mapVars, collectorVars, points, fauxVars, due>>

FExport ==
  \/ \E p \in Pids : FExportRead(p)
  \/ ExportReset
  \/ FExportEnd

FNext ==
  \/ \E i \in Calls, p \in Pids : FcountBegin(i, p)
  \/ \E i \in Calls : FcountReturn(i)
  \/ \E i \in Calls : Increment(i)
  \/ \E p \in Pids : AddPid(p)
  \/ \E p \in Pids : DelPid(p)
  \/ \E c \in Confs : OnConfigChange(c)
  \/ FExportBegin
  \/ \E p \in Pids : FExportRead(p)
  \/ ExportReset
  \/ FExportEnd

(* The export loop comes round every period and gets on.                   *)
FFairness == WF_fvars(FExportBegin) /\ WF_fvars(FExport)

FSpec == FInit /\ [][FNext]_fvars /\ FFairness

-----------------------------------------------------------------------------
(* The places where a call is counted: points of it, and entries that the  *)
(* exporter has yet to read.                                               *)
Places(f, i) ==
  points[f][i] + Cardinality({p \in Pids : i \in table[p][f] /\ ~(iter.read /\ iter.key = p)})

(* fcount.c and exportData: no call is counted twice, and none for another *)
(* process, however increments, resets and exports meet, as long as no     *)
(* increment goes to an element that a map update has freed.  And no call  *)
(* is lost, but those the collector discarded with their entry, as long as *)
(* no increment meets another one or the exporter.                         *)
CallsCountedOnce ==
  /\ ~astray => \A f \in Fields, i \in Calls :
       Places(f, i) <= 1 /\ \A p \in Pids : i \in table[p][f] => call[i].pid = p
  /\ ~overlap => \A f \in Fields : \A i \in due[f] : Places(f, i) = 1

\* two recorded PIDs in one bucket
SharedBucket ==
  \E p, q \in Pids : p # q /\ bucket[p] = bucket[q] /\ table[p].here /\ table[q].here

(* exportData: what is counted is exported in the end, when the calls of   *)
(* the function have come to an end, unless two PIDs share a bucket.  Then *)
(* the update of each puts it in front of the other, and the iteration,    *)
(* holding the mutex, goes from one to the other for ever.                 *)
CallsGetExported ==
  []<>(\/ overlap \/ SharedBucket
       \/ MutexFree /\ \A f \in Fields : \A i \in due[f] : points[f][i] > 0)
=============================================================================
