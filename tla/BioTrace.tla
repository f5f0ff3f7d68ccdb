------------------------------ MODULE BioTrace ------------------------------
(***************************************************************************)
(* The biostat BPF program (release/bcc/biostat.c) on several CPUs, the    *)
(* block requests it observes, and biostat's period export (biostat.go,    *)
(* exportData and exportHistData), which reads and clears the tables that  *)
(* the program goes on writing.                                            *)
(*                                                                         *)
(* A request is a kernel address that is used again and again.  An I/O is  *)
(* one use of it, numbered.  What the program adds to a table is a charge: *)
(* which I/O completed, and whose issue time its latency was computed from.*)
(* "counts" and "dist" hold the charges of a process; direction, disk and  *)
(* histogram slot, further parts of their keys, are left out.              *)
(*                                                                         *)
(* Granularity.  A BPF hash table's element is updated in place through a  *)
(* pointer or replaced by map update; an element that is no longer in the  *)
(* table may be given to any key at the next insertion, also while a       *)
(* handler on another CPU has a pointer to it.  A completion handler takes *)
(* one step to look an element up and load its value, one to store the sum *)
(* and update the table.  The exporter reads an element, then deletes it.  *)
(***************************************************************************)
EXTENDS Naturals, FiniteSets

CONSTANTS
  Reqs,    \* addresses of struct request
  Pids,    \* processes that do I/O
  None,    \* no process
  Levels,  \* verbose levels that configurations use
  NSlots,  \* elements of a BPF hash table (10240 in the code)
  MaxIOs   \* bound: I/Os

ASSUME NoneAssumption == None \notin Pids

\* a free element for every key and for every handler that replaces one
ASSUME SlotsAssumption ==
  /\ IsFiniteSet(Pids)
  /\ NSlots \in Nat /\ NSlots > Cardinality(Pids)

ASSUME LevelsAssumption == Levels \subseteq Nat \ {0}

ASSUME MaxIOsAssumption == MaxIOs \in Nat

Tables == {"counts", "dist"}
IOs == 1 .. MaxIOs
Charge == [io : IOs, issue : IOs]

VARIABLES
  nios,      \* I/Os so far
  ioOf,      \* the I/O a request carries
  stage,     \* where the kernel is with the request
  owner,     \* auxiliary: the process an I/O was done for
  control,   \* control_map: verbose of a PID, 0 if it has no entry
  whobyreq,  \* whobyreq: request -> PID
  start,     \* start: request -> the I/O whose issue time it holds, 0 if none
  handler,   \* per request, the completion handler that runs for it
  table,     \* per table, PID -> element, 0 if it has no entry
  element,   \* per table, the charges an element's value adds up
  exporter,  \* the table being exported and the key being looked at
  exported,  \* per table, how often an I/O's charge has been exported
  charged,   \* auxiliary: per table, the I/Os a handler has charged
  abandoned, \* auxiliary: requests whose handler returned and left its entries
  leftover,  \* auxiliary: I/Os on a request that was abandoned
  overlap    \* auxiliary: per table, whether a handler's update of an element
             \* has overlapped another update, or the export, of it

kernelVars == <<nios, ioOf, owner, leftover>>
reqVars == <<abandoned, stage, whobyreq, start, handler>>
tableVars == <<table, element, charged, overlap>>
exportVars == <<exporter, exported>>
vars == <<kernelVars, reqVars, control, tableVars, exportVars>>

Idle == [pc |-> "idle", pid |-> None, level |-> 0, slot |-> 0, val |-> {}]

Handler ==
  [pc : {"idle", "find_counts", "put_counts", "find_dist", "put_dist"},
   pid : Pids \cup {None}, level : Levels \cup {0}, slot : 0 .. NSlots, val : SUBSET Charge]

(* Type invariant of biostat.c's tables and biostat.go's exporter.  No two *)
(* keys share an element; the entries of a request are there as long as    *)
(* its handler runs; each export of a charge after the first is owed to    *)
(* another I/O's handler.                                                  *)
TypeOK ==
  /\ nios \in 0 .. MaxIOs
  /\ ioOf \in [Reqs -> 0 .. MaxIOs]
  /\ stage \in [Reqs -> {"free", "accounted", "issued", "completing"}]
  /\ owner \in [IOs -> Pids \cup {None}]
  /\ control \in [Pids -> Levels \cup {0}]
  /\ whobyreq \in [Reqs -> Pids \cup {None}]
  /\ start \in [Reqs -> 0 .. MaxIOs]
  /\ handler \in [Reqs -> Handler]
  /\ table \in [Tables -> [Pids -> 0 .. NSlots]]
  /\ element \in [Tables -> [1 .. NSlots -> SUBSET Charge]]
  /\ exporter \in [pc : {"wait", "between"} \cup Tables, key : Pids \cup {None}, read : BOOLEAN]
  /\ exported \in [Tables -> [IOs -> 0 .. MaxIOs]]
  /\ charged \in [Tables -> SUBSET IOs]
  /\ abandoned \in SUBSET Reqs
  /\ leftover \in SUBSET IOs
  /\ overlap \in [Tables -> BOOLEAN]
  /\ \A r \in Reqs : handler[r].pc # "idle" =>
       stage[r] = "completing" /\ whobyreq[r] = handler[r].pid /\ start[r] # 0
  /\ \A t \in Tables, p, q \in Pids : table[t][p] = table[t][q] => p = q \/ table[t][p] = 0

Init ==
  /\ nios = 0
  /\ ioOf = [r \in Reqs |-> 0]
  /\ stage = [r \in Reqs |-> "free"]
  /\ owner = [i \in IOs |-> None]
  /\ control = [p \in Pids |-> 0]
  /\ whobyreq = [r \in Reqs |-> None]
  /\ start = [r \in Reqs |-> 0]
  /\ handler = [r \in Reqs |-> Idle]
  /\ table = [t \in Tables |-> [p \in Pids |-> 0]]
  /\ element = [t \in Tables |-> [s \in 1 .. NSlots |-> {}]]
  /\ exporter = [pc |-> "wait", key |-> None, read |-> FALSE]
  /\ exported = [t \in Tables |-> [i \in IOs |-> 0]]
  /\ charged = [t \in Tables |-> {}]
  /\ abandoned = {}
  /\ leftover = {}
  /\ overlap = [t \in Tables |-> FALSE]

-----------------------------------------------------------------------------
(* The request's way to the device                                         *)

(* biostat.c, trace_pid_start, at blk_account_io_start: remember the       *)
(* process if it is recorded.                                              *)
TracePidStart(r, p) ==
  /\ stage[r] = "free"
  /\ nios < MaxIOs
  /\ nios' = nios + 1
  /\ ioOf' = [ioOf EXCEPT ![r] = nios + 1]
  /\ owner' = [owner EXCEPT ![nios + 1] = p]
  /\ leftover' = IF r \in abandoned THEN leftover \cup {nios + 1} ELSE leftover
  /\ stage' = [stage EXCEPT ![r] = "accounted"]
  /\ whobyreq' = IF control[p] = 0 THEN whobyreq ELSE [whobyreq EXCEPT ![r] = p]
  /\ UNCHANGED <<abandoned, control, start, handler, tableVars, exportVars>>

(* biostat.c, trace_req_start, at blk_mq_start_request.                    *)
TraceReqStart(r) ==
  /\ stage[r] = "accounted"
  /\ stage' = [stage EXCEPT ![r] = "issued"]
  /\ start' = [start EXCEPT ![r] = ioOf[r]]
  /\ UNCHANGED <<kernelVars, abandoned, control, whobyreq, handler, tableVars, exportVars>>

\* a completion without a PID leaves the issue time behind
StartKept(r) == start

(* biostat.c, trace_req_completion, "missing PID, skip".                   *)
StartWithout(r) == [start EXCEPT ![r] = 0]

(* biostat.c, trace_req_completion, at blk_account_io_done: the lookups.   *)
(* A request may end without having been issued.  A PID that is no longer  *)
(* in control_map ends the handler with both entries left in place.        *)
TraceReqCompletion(r) ==
  /\ stage[r] \in {"accounted", "issued"}
  /\ \/ /\ whobyreq[r] = None
        /\ start' = StartWithout(r)
        /\ stage' = [stage EXCEPT ![r] = "free"]
        /\ UNCHANGED <<abandoned, whobyreq, handler>>
     \/ /\ whobyreq[r] # None /\ start[r] = 0
        /\ whobyreq' = [whobyreq EXCEPT ![r] = None]
        /\ stage' = [stage EXCEPT ![r] = "free"]
        /\ UNCHANGED <<abandoned, start, handler>>
     \/ /\ whobyreq[r] # None /\ start[r] # 0 /\ control[whobyreq[r]] = 0
        /\ stage' = [stage EXCEPT ![r] = "free"]
        /\ abandoned' = abandoned \cup {r}
        /\ UNCHANGED <<whobyreq, start, handler>>
     \/ /\ whobyreq[r] # None /\ start[r] # 0 /\ control[whobyreq[r]] # 0
        /\ stage' = [stage EXCEPT ![r] = "completing"]
        /\ handler' = [handler EXCEPT ![r] =
             [Idle EXCEPT !.pc = "find_counts", !.pid = whobyreq[r],
                          !.level = control[whobyreq[r]]]]
        /\ UNCHANGED <<abandoned, whobyreq, start>>
  /\ UNCHANGED <<kernelVars, control, tableVars, exportVars>>

-----------------------------------------------------------------------------
(* The completion handler's updates                                        *)

(* Elements that no key has.                                               *)
FreeSlots(t) == (1 .. NSlots) \ {table[t][p] : p \in Pids}

NewCharge(r) == [io |-> ioOf[r], issue |-> start[r]]

(* biostat.c: "counts.lookup(&info)", "dist.lookup(&key)", with the value. *)
Find(r, t) ==
  LET h == handler[r] s == table[t][h.pid]
  IN  /\ h.pc = IF t = "counts" THEN "find_counts" ELSE "find_dist"
      /\ handler' = [handler EXCEPT ![r] =
           [h EXCEPT !.pc = IF t = "counts" THEN "put_counts" ELSE "put_dist",
                     !.slot = s,
                     !.val = IF s = 0 THEN {} ELSE element[t][s]]]
      /\ UNCHANGED <<kernelVars, abandoned, stage, control, whobyreq, start, tableVars, exportVars>>

(* The element the handler looked up has been changed or removed since, or *)
(* the exporter has read it and not yet deleted it.                        *)
Overlaps(r, t) ==
  LET h == handler[r]
  IN  \/ table[t][h.pid] # h.slot
      \/ h.slot # 0 /\ element[t][h.slot] # h.val
      \/ exporter.pc = t /\ exporter.read /\ exporter.key = h.pid

(* A store through a handler's pointer.  What a free element holds does not *)
(* matter to anyone: it is kept empty.                                     *)
Store(t, s, val) ==
  IF s \in FreeSlots(t) THEN element[t] ELSE [element[t] EXCEPT ![s] = val]

(* A map update: a free element gets the value and the key, the one that   *)
(* had the key becomes free.                                               *)
Insert(t, p, val, elements) ==
  \E s \in FreeSlots(t) :
    /\ table' = [table EXCEPT ![t][p] = s]
    /\ element' = [element EXCEPT ![t] =
         [i \in 1 .. NSlots |->
            IF i = s THEN val ELSE IF i = table[t][p] THEN {} ELSE elements[i]]]

\* the first charge of a key is not entered
FirstOfNothing(r) == {}

(* biostat.c: "zero" with this request's delta; "one".                     *)
First(r) == {NewCharge(r)}

(* biostat.c: "valp->ns += delta; ...; counts.update(&info, valp)", or, if *)
(* there was no element, lookup_or_try_init: it leaves alone an element    *)
(* that has come up in between.                                            *)
PutCounts(r) ==
  LET h == handler[r]
      sum == h.val \cup {NewCharge(r)}
  IN  IF h.slot # 0
        THEN Insert("counts", h.pid, sum, Store("counts", h.slot, sum))
        ELSE IF table["counts"][h.pid] = 0
          THEN Insert("counts", h.pid, First(r), element["counts"])
          ELSE UNCHANGED <<table, element>>

(* biostat.c, the end of trace_req_completion: the entries of the request  *)
(* are deleted.                                                            *)
Done(r) ==
  /\ handler' = [handler EXCEPT ![r] = Idle]
  /\ stage' = [stage EXCEPT ![r] = "free"]
  /\ whobyreq' = [whobyreq EXCEPT ![r] = None]
  /\ start' = [start EXCEPT ![r] = 0]
  /\ abandoned' = abandoned \ {r}

(* biostat.c: the counter is incremented; or dist.update, which replaces   *)
(* an element that has come up in between.                                 *)
PutDist(r) ==
  LET h == handler[r]
  IN  IF h.slot # 0
        THEN /\ element' = [element EXCEPT !["dist"] = Store("dist", h.slot, h.val \cup {NewCharge(r)})]
             /\ UNCHANGED table
        ELSE Insert("dist", h.pid, First(r), element["dist"])

Put(r, t) ==
  LET h == handler[r]
  IN  /\ h.pc = IF t = "counts" THEN "put_counts" ELSE "put_dist"
      /\ IF t = "counts" THEN PutCounts(r) ELSE PutDist(r)
      /\ charged' = [charged EXCEPT ![t] = @ \cup {ioOf[r]}]
      /\ overlap' = [overlap EXCEPT ![t] = @ \/ Overlaps(r, t)]
      /\ IF t = "counts" /\ h.level > 1
           THEN /\ handler' = [handler EXCEPT ![r] = [h EXCEPT !.pc = "find_dist", !.slot = 0, !.val = {}]]
                /\ UNCHANGED <<abandoned, stage, whobyreq, start>>
           ELSE Done(r)
      /\ UNCHANGED <<kernelVars, control, exportVars>>

-----------------------------------------------------------------------------
(* biostat.go                                                              *)

(* collector.mutex is not held by exportData or exportHistData.            *)
MutexFree == exporter.pc \in {"wait", "between"}

(* StartBiostat's signal loop and onConfigChange write control_map (see    *)
(* Collector).                                                             *)
SetControl(p, level) ==
  /\ MutexFree
  /\ control[p] # level
  /\ control' = [control EXCEPT ![p] = level]
  /\ UNCHANGED <<kernelVars, reqVars, tableVars, exportVars>>

(* exportData, and after it exportHistData, take the mutex and start to    *)
(* iterate.                                                                *)
ExportBegin ==
  /\ MutexFree
  /\ exporter' = [pc |-> IF exporter.pc = "wait" THEN "counts" ELSE "dist",
                  key |-> None, read |-> FALSE]
  /\ UNCHANGED <<kernelVars, reqVars, control, tableVars, exported>>

ChargedIn(val, i) == \E c \in val : c.io = i

(* exportData: "iter.Next()" and "iter.Leaf()".  The key it continues from *)
(* has been deleted, so the iteration starts again with some first key; if *)
(* the kernel has entered that key anew, it goes on behind it.             *)
ExportRead(t, p) ==
  /\ exporter.pc = t /\ ~exporter.read
  /\ table[t][p] # 0 /\ p # exporter.key
  /\ exporter' = [exporter EXCEPT !.key = p, !.read = TRUE]
  /\ exported' = [exported EXCEPT ![t] =
       [i \in IOs |-> @[i] + IF ChargedIn(element[t][table[t][p]], i) THEN 1 ELSE 0]]
  /\ UNCHANGED <<kernelVars, reqVars, control, tableVars>>

\* the key is not deleted
TableKept(t, p) == table

(* exportData: "countMap.DeleteP"; exportHistData: "distMap.DeleteP".      *)
TableWithout(t, p) == [table EXCEPT ![t][p] = 0]

ExportDelete(t) ==
  /\ exporter.pc = t /\ exporter.read
  /\ table' = TableWithout(t, exporter.key)
  /\ element' = [element EXCEPT ![t] =
       [s \in 1 .. NSlots |-> IF s \in {table'[t][p] : p \in Pids} THEN @[s] ELSE {}]]
  /\ exporter' = [exporter EXCEPT !.read = FALSE]
  /\ UNCHANGED <<kernelVars, reqVars, control, charged, overlap, exported>>

\* the iteration ends with the first key
OverAtOnce(t) == TRUE

(* "iter.Next()" answers no: there is no key, or none behind the one that  *)
(* the kernel has entered anew.                                            *)
IterationOver(t) ==
  \/ \A p \in Pids : table[t][p] = 0
  \/ exporter.key # None /\ table[t][exporter.key] # 0

(* The data collected is sent on dataCh (see EventPipe) and the mutex      *)
(* released.                                                               *)
ExportEnd(t) ==
  /\ exporter.pc = t /\ ~exporter.read
  /\ IterationOver(t)
  /\ exporter' = [pc |-> IF t = "counts" THEN "between" ELSE "wait", key |-> None, read |-> FALSE]
  /\ UNCHANGED <<kernelVars, reqVars, control, tableVars, exported>>

Next ==
  \/ \E r \in Reqs, p \in Pids : TracePidStart(r, p)
  \/ \E r \in Reqs : TraceReqStart(r)
  \/ \E r \in Reqs : TraceReqCompletion(r)
  \/ \E r \in Reqs, t \in Tables : Find(r, t)
  \/ \E r \in Reqs, t \in Tables : Put(r, t)
  \/ \E p \in Pids, level \in Levels \cup {0} : SetControl(p, level)
  \/ ExportBegin
  \/ \E t \in Tables, p \in Pids : ExportRead(t, p)
  \/ \E t \in Tables : ExportDelete(t)
  \/ \E t \in Tables : ExportEnd(t)

(* The export loop comes round every period and gets on.  Nobody is        *)
(* obliged to do I/O or to change what is recorded.                        *)
Fairness ==
  /\ WF_vars(ExportBegin)
  /\ WF_vars(\E t \in Tables :
       (\E p \in Pids : ExportRead(t, p)) \/ ExportDelete(t) \/ ExportEnd(t))

Spec == Init /\ [][Next]_vars /\ Fairness

-----------------------------------------------------------------------------
(* The charges of a process's element.                                     *)
Charges(t, p) == IF table[t][p] = 0 THEN {} ELSE element[t][table[t][p]]

(* biostat.c: a latency is that of one I/O, from its own issue to its own  *)
(* completion, and is charged to the process the I/O was done for, unless  *)
(* the request still had entries of an earlier I/O, whose handler had found*)
(* the process no longer recorded.                                         *)
ChargedToOwner ==
  \A t \in Tables, p \in Pids : ~overlap[t] =>
    \A c \in Charges(t, p) : c.io \notin leftover => c.issue = c.io /\ owner[c.io] = p

(* The places where an I/O's charge is: exports of it, and elements that   *)
(* the exporter has yet to read.                                           *)
Places(t, i) ==
  exported[t][i] +
    Cardinality({p \in Pids : ChargedIn(Charges(t, p), i)
                               /\ ~(exporter.pc = t /\ exporter.read /\ exporter.key = p)})

(* biostat.c and exportData: every I/O charged is in the table or has been *)
(* exported, and never both or twice, though the kernel writes while the   *)
(* exporter reads and deletes, as long as no handler's update of an element*)
(* overlaps another's or the export of that element.                       *)
CountedOnce ==
  \A t \in Tables, i \in IOs :
    ~overlap[t] => Places(t, i) = IF i \in charged[t] THEN 1 ELSE 0

(* exportData: what is charged is exported in the end, though an iteration *)
(* can end with keys left that were entered meanwhile.                     *)
ChargesGetExported ==
  \A t \in Tables, i \in IOs : i \in charged[t] ~> exported[t][i] > 0 \/ overlap[t]
=============================================================================
