---------------------------- MODULE OffcpuTrace ----------------------------
(***************************************************************************)
(* The offcpu BPF program (release/bcc/offcpu.c) on several CPUs and the   *)
(* collector's export of its table (offcpu.go, exportData).                *)
(*                                                                         *)
(* At every switch the kernel calls the program on the CPU that switched,  *)
(* in the new thread, with the old one as argument; until it is done, the  *)
(* old thread is run nowhere.  Its two halves are two steps, and so is its *)
(* update of the table: counts.increment finds or makes an element, then   *)
(* adds through a pointer.  If the exporter has deleted the element in     *)
(* between, the addition is lost, or goes to the key that has it now.      *)
(*                                                                         *)
(* A time is the number of the departure it was taken at: a thread is away *)
(* between a departure and its next return.  Whether the time that it was  *)
(* away lies within con->start and con->end is left open.  The stack       *)
(* identifiers of a key follow from the verbose level, which stands for    *)
(* them.                                                                   *)
(***************************************************************************)
EXTENDS Naturals, FiniteSets

CONSTANTS
  Tasks,    \* kernel task IDs: control_map is asked with them
  CPUs,
  Swapper,  \* what a CPU runs otherwise; never in control_map
  Controls, \* entries of control_map: verbose and state
  MaxTrips  \* bound: departures of a thread

ASSUME SwapperAssumption == Swapper \notin Tasks

ASSUME MaxTripsAssumption == MaxTrips \in Nat

\* prev->state: 0 when it was preempted, a bit that was set when it sleeps
States == {0, 1, 2}

ASSUME ControlsAssumption ==
  Controls \subseteq [verbose : Nat \ {0}, state : SUBSET (States \ {0})]

Nobody == [verbose |-> 0, state |-> {}]
Keys == [pid : Tasks, level : 1 .. 3]

\* departure that the start time is from, departure it came back from
Sleep == [pid : Tasks, from : 1 .. MaxTrips, to : 1 .. MaxTrips]

VARIABLES
  cpu,       \* per CPU: the program's place, the threads of the last switch
  control,   \* control_map, Nobody for no entry
  start,     \* start: thread -> the departure it holds the time of, 0 for none
  counts,    \* counts: key -> the sleeps its element adds up, if it has one
  exporter,  \* the key that has been read and not deleted yet
  trips,     \* auxiliary: departures of a thread
  forgotten, \* auxiliary: threads that came back unrecorded, with a start
  misplaced, \* auxiliary: an addition met a deletion
  exported   \* auxiliary: what has been exported

vars == <<cpu, control, start, counts, exporter, trips, forgotten, misplaced, exported>>

NoKey == [pid |-> Swapper, level |-> 0]
Quiet(t) == [pc |-> "run", cur |-> t, prev |-> Swapper, state |-> 0,
             key |-> NoKey, sleep |-> {}, gone |-> FALSE]

CPU == [pc : {"run", "out", "in", "find", "add"},
        cur : Tasks \cup {Swapper}, prev : Tasks \cup {Swapper}, state : States,
        key : Keys \cup {NoKey}, sleep : SUBSET Sleep, gone : BOOLEAN]

(* Type invariant of offcpu.c's tables and handlers; a thread is on one    *)
(* CPU at most.                                                            *)
TypeOK ==
  /\ cpu \in [CPUs -> CPU]
  /\ control \in [Tasks -> Controls \cup {Nobody}]
  /\ start \in [Tasks -> 0 .. MaxTrips]
  /\ counts \in [Keys -> [here : BOOLEAN, sum : SUBSET Sleep]]
  /\ exporter \in [pc : {"wait", "iterate"}, key : Keys \cup {NoKey}, read : BOOLEAN]
  /\ trips \in [Tasks -> 0 .. MaxTrips]
  /\ forgotten \subseteq Tasks
  /\ misplaced \in BOOLEAN
  /\ exported \in [Keys -> SUBSET Sleep]
  /\ \A c, d \in CPUs : cpu[c].cur = cpu[d].cur => c = d \/ cpu[c].cur = Swapper

Init ==
  /\ cpu = [c \in CPUs |-> Quiet(Swapper)]
  /\ control = [t \in Tasks |-> Nobody]
  /\ start = [t \in Tasks |-> 0]
  /\ counts = [k \in Keys |-> [here |-> FALSE, sum |-> {}]]
  /\ exporter = [pc |-> "wait", key |-> NoKey, read |-> FALSE]
  /\ trips = [t \in Tasks |-> 0]
  /\ forgotten = {}
  /\ misplaced = FALSE
  /\ exported = [k \in Keys |-> {}]

tableVars == <<counts, exporter, exported, misplaced>>
auxVars == <<trips, forgotten>>

-----------------------------------------------------------------------------
(* offcpu.c                                                                *)

(* The kernel switches: finish_task_switch is entered.                     *)
Switch(c, next, s) ==
  /\ cpu[c].pc = "run" /\ cpu[c].cur # next
  /\ cpu[c].cur # Swapper => trips[cpu[c].cur] < MaxTrips
  /\ next # Swapper => \A d \in CPUs : next # cpu[d].cur /\ next # cpu[d].prev
  /\ cpu' = [cpu EXCEPT ![c] = [Quiet(next) EXCEPT !.pc = "out", !.prev = cpu[c].cur, !.state = s]]
  /\ UNCHANGED <<control, start, tableVars, auxVars>>

\* "(con->state == 0 && prev->state == 0) || (prev->state & con->state)"
Matches(con, s) == \/ con.state = {} /\ s = 0
                   \/ s \in con.state

\* oncpu's first half: the previous thread's time, if it is recorded
Oncpu_prev(c) ==
  LET t == cpu[c].prev
  IN  /\ cpu[c].pc = "out"
      /\ cpu' = [cpu EXCEPT ![c].pc = "in", ![c].prev = Swapper]
      /\ IF t = Swapper
           THEN UNCHANGED <<start, trips>>
           ELSE /\ trips' = [trips EXCEPT ![t] = @ + 1]
                /\ start' = IF control[t] # Nobody /\ Matches(control[t], cpu[c].state)
                              THEN [start EXCEPT ![t] = trips[t] + 1] ELSE start
      /\ UNCHANGED <<control, forgotten, tableVars>>

\* the level is not capped
LevelRaw(con) == con.verbose

Level(con) == IF con.verbose > 2 THEN 3 ELSE IF con.verbose > 1 THEN 2 ELSE 1

\* both lookups found an entry
HasStart(t) == t # Swapper /\ control[t] # Nobody /\ start[t] # 0

\* the start time is left to the next switch
StartKept(t) == start

\* the start time is deleted as soon as it is read
StartTaken(t) == [start EXCEPT ![t] = 0]

\* oncpu's second half: the current thread's time away
Oncpu_current(c) ==
  LET t == cpu[c].cur
  IN  /\ cpu[c].pc = "in"
      /\ \/ /\ ~HasStart(t)
            /\ cpu' = [cpu EXCEPT ![c] = Quiet(t)]
            /\ forgotten' = forgotten \cup {u \in {t} \ {Swapper} : start[u] # 0}
            /\ UNCHANGED start
         \/ /\ HasStart(t)
            /\ start' = StartTaken(t)
            /\ \/ cpu' = [cpu EXCEPT ![c] = Quiet(t)]
               \/ cpu' = [cpu EXCEPT ![c] =
                    [Quiet(t) EXCEPT !.pc = "find", !.key = [pid |-> t, level |-> Level(control[t])],
                       !.sleep = {[pid |-> t, from |-> start[t], to |-> trips[t]]}]]
            /\ UNCHANGED forgotten
      /\ UNCHANGED <<control, trips, tableVars>>

\* counts.increment, lookup or initialisation of the element
IncrementFind(c) ==
  LET k == cpu[c].key
  IN  /\ cpu[c].pc = "find"
      /\ counts' = [counts EXCEPT ![k].here = TRUE]
      /\ cpu' = [cpu EXCEPT ![c].pc = "add"]
      /\ UNCHANGED <<control, start, exporter, exported, misplaced, auxVars>>

\* counts.increment, the addition
IncrementAdd(c) ==
  LET k == cpu[c].key
  IN  /\ cpu[c].pc = "add"
      /\ IF cpu[c].gone
           THEN \/ UNCHANGED counts
                \/ \E q \in Keys : counts[q].here /\ counts' = [counts EXCEPT ![q].sum = @ \cup cpu[c].sleep]
           ELSE counts' = [counts EXCEPT ![k].sum = @ \cup cpu[c].sleep]
      /\ misplaced' = (misplaced \/ cpu[c].gone \/ (exporter.read /\ exporter.key = k))
      /\ cpu' = [cpu EXCEPT ![c] = Quiet(cpu[c].cur)]
      /\ UNCHANGED <<control, start, exporter, exported, auxVars>>

-----------------------------------------------------------------------------
(* offcpu.go                                                               *)

(* The signal loop and onConfigChange write control_map, not while         *)
(* exportData has the mutex (see Collector).                               *)
SetControl(t, con) ==
  /\ exporter.pc = "wait"
  /\ control[t] # con
  /\ control' = [control EXCEPT ![t] = con]
  /\ UNCHANGED <<cpu, start, tableVars, auxVars>>

ExportBegin ==
  /\ exporter.pc = "wait"
  /\ exporter' = [pc |-> "iterate", key |-> NoKey, read |-> FALSE]
  /\ UNCHANGED <<cpu, control, start, counts, exported, misplaced, auxVars>>

\* "iter.Next()" and "iter.Leaf()": the key it continues from was deleted
ExportRead(k) ==
  /\ exporter.pc = "iterate" /\ ~exporter.read
  /\ counts[k].here /\ k # exporter.key
  /\ exporter' = [exporter EXCEPT !.key = k, !.read = TRUE]
  /\ exported' = [exported EXCEPT ![k] = @ \cup counts[k].sum]
  /\ UNCHANGED <<cpu, control, start, counts, misplaced, auxVars>>

\* the whole table is cleared
DeletedAll(k) == [q \in Keys |-> [here |-> FALSE, sum |-> {}]]

Deleted(k) == [counts EXCEPT ![k] = [here |-> FALSE, sum |-> {}]]

\* "countMap.DeleteP"
ExportDelete ==
  /\ exporter.pc = "iterate" /\ exporter.read
  /\ counts' = Deleted(exporter.key)
  /\ cpu' = [c \in CPUs |->
       IF cpu[c].pc = "add" /\ cpu[c].key = exporter.key THEN [cpu[c] EXCEPT !.gone = TRUE] ELSE cpu[c]]
  /\ exporter' = [exporter EXCEPT !.read = FALSE]
  /\ UNCHANGED <<control, start, exported, misplaced, auxVars>>

\* no key is left, or none behind the one that was entered again
ExportEnd ==
  /\ exporter.pc = "iterate" /\ ~exporter.read
  /\ \/ \A k \in Keys : ~counts[k].here
     \/ exporter.key # NoKey /\ counts[exporter.key].here
  /\ exporter' = [pc |-> "wait", key |-> NoKey, read |-> FALSE]
  /\ UNCHANGED <<cpu, control, start, counts, exported, misplaced, auxVars>>

Handler(c) ==
  \/ Oncpu_prev(c)
  \/ Oncpu_current(c)
  \/ IncrementFind(c)
  \/ IncrementAdd(c)

Export ==
  \/ \E k \in Keys : ExportRead(k)
  \/ ExportDelete
  \/ ExportEnd

Next ==
  \/ \E c \in CPUs, t \in Tasks \cup {Swapper}, s \in States : Switch(c, t, s)
  \/ \E c \in CPUs : Handler(c)
  \/ \E t \in Tasks, con \in Controls \cup {Nobody} : SetControl(t, con)
  \/ ExportBegin
  \/ Export

(* The program runs to its end, and the export loop comes round.           *)
Fairness ==
  /\ \A c \in CPUs : WF_vars(Handler(c))
  /\ WF_vars(ExportBegin)
  /\ WF_vars(Export)

Spec == Init /\ [][Next]_vars /\ Fairness

-----------------------------------------------------------------------------
(* Sleeps that have been charged to a key, wherever they are now.          *)
Charged(k) == counts[k].sum \cup exported[k]

\* a charge is a time that the thread was away, from leaving a CPU to its next
\* return; but the thread may have come back once while it was not in control_map
ChargesAreSleeps ==
  \A k \in Keys : \A z \in Charged(k) :
    z.pid = k.pid /\ (z.from = z.to \/ z.pid \in forgotten)

(* offcpu.c and exportData: what is charged to a thread is a time away; no *)
(* time it ran is in it, unless its start time was left and taken for a    *)
(* later switch's.  It is charged once, to one level of detail, and not    *)
(* exported a second time, though handlers of several CPUs and the         *)
(* exporter work on the table.                                             *)
SleepsChargedOnce ==
  ~misplaced =>
    /\ ChargesAreSleeps
    /\ \A k, q \in Keys : k = q \/ Charged(k) \cap Charged(q) = {}
    /\ \A k \in Keys : counts[k].sum \cap exported[k] # {} => exporter.read /\ exporter.key = k

(* exportData: what is charged is exported in the end, unless the addition *)
(* met the export of its key.                                              *)
SleepsGetExported ==
  \A z \in Sleep :
    (\E k \in Keys : z \in counts[k].sum) ~> (misplaced \/ \E k \in Keys : z \in exported[k])
=============================================================================
