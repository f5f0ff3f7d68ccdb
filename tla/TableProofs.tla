---------------------------- MODULE TableProofs ----------------------------
(***************************************************************************)
(* Proofs about the tables that BPF programs count in and collectors       *)
(* empty: of OffcpuTrace, that a sleep is charged once, and of Fcount,     *)
(* that a call is counted once.                                            *)
(***************************************************************************)
EXTENDS OffcpuTrace, Fcount, FiniteSetTheorems, TLAPS

(* OffcpuTrace.  A charge could be made twice only if a start time were    *)
(* still there when its thread is back for the second time, or a handler   *)
(* carried what is in the table already; so the invariant speaks of start  *)
(* times, and of what the handlers carry.                                  *)

\* the handler on CPU c is in its update of the table
Charging(c) == cpu[c].pc \in {"find", "add"}

\* a thread that runs has no start time left, or it is known to be one of those
\* that came back while they were not in control_map
Swept(t) == t = Swapper \/ start[t] = 0 \/ t \in forgotten

\* a thread that is being switched out of a CPU is on no other one
Threads ==
  /\ \A c \in CPUs : cpu[c].pc # "out" => cpu[c].prev = Swapper
  /\ \A c, d \in CPUs : cpu[c].prev # Swapper =>
       cpu[c].prev # cpu[d].cur /\ (cpu[c].prev = cpu[d].prev => c = d)
  /\ \A c \in CPUs : cpu[c].prev # Swapper => trips[cpu[c].prev] < MaxTrips

\* a start time is that of the last departure, unless it was left behind
Times ==
  /\ \A t \in Tasks : start[t] <= trips[t] /\ (start[t] \in {0, trips[t]} \/ t \in forgotten)
  /\ \A c \in CPUs : Swept(cpu[c].prev) /\ (cpu[c].pc \in {"out", "in"} \/ Swept(cpu[c].cur))

\* what a handler is about to add: a time away that ended just now, at its key
Carried ==
  \A c \in CPUs : Charging(c) =>
    /\ cpu[c].key \in Keys /\ cpu[c].key.pid = cpu[c].cur /\ start[cpu[c].cur] = 0
    /\ \A z \in cpu[c].sleep :
         z.pid = cpu[c].cur /\ z.to = trips[cpu[c].cur] /\ (z.from = z.to \/ z.pid \in forgotten)

\* charge z is at its thread's key, it is a time away, and it cannot be taken
\* again: a start time of that departure is gone
Right(k, z) ==
  /\ z.pid = k.pid /\ (z.from = z.to \/ z.pid \in forgotten)
  /\ z.to <= trips[z.pid] /\ (z.to = trips[z.pid] => start[z.pid] = 0)

\* nothing is charged twice, and nothing that is about to be added is there yet
Once ==
  /\ \A k \in Keys : \A z \in Charged(k) : Right(k, z)
  /\ \A c \in CPUs, k \in Keys : Charging(c) => cpu[c].sleep \cap Charged(k) = {}
  /\ \A k, q \in Keys : k = q \/ Charged(k) \cap Charged(q) = {}
  /\ \A k \in Keys : counts[k].sum \cap exported[k] # {} => exporter.read /\ exporter.key = k

\* the exporter has read a key only while it iterates
Reading == exporter.read => exporter.pc = "iterate" /\ exporter.key \in Keys

\* the invariant
OInv == TypeOK /\ Threads /\ Times /\ Carried /\ Reading /\ (~misplaced => Once)

(* Nothing is recorded when the program has been attached.                 *)
LEMMA OStart == Init => OInv
<1> SUFFICES ASSUME Init PROVE OInv
  OBVIOUS
<1>1. TypeOK
  <2>1. Quiet(Swapper) \in CPU
    BY DEF Quiet, CPU, States
  <2> QED
    <3>1. cpu \in [CPUs -> CPU] /\ \A c \in CPUs : cpu[c].cur = Swapper
      BY <2>1 DEF Init, Quiet
    <3>2. counts \in [Keys -> [here : BOOLEAN, sum : SUBSET Sleep]]
      BY DEF Init
    <3>3. exporter \in [pc : {"wait", "iterate"}, key : Keys \cup {NoKey}, read : BOOLEAN]
      BY DEF Init
    <3>4. start \in [Tasks -> 0 .. MaxTrips] /\ trips \in [Tasks -> 0 .. MaxTrips]
      BY MaxTripsAssumption DEF Init
    <3>5. control \in [Tasks -> Controls \cup {Nobody}] /\ exported \in [Keys -> SUBSET Sleep]
      BY DEF Init
    <3> QED
      BY <3>1, <3>2, <3>3, <3>4, <3>5 DEF Init, TypeOK
<1>2. Threads /\ Times /\ Carried /\ Reading /\ Once
  BY MaxTripsAssumption DEF Init, Reading, Threads, Times, Swept, Carried, Charging, Once, Charged, Right, Quiet
<1> QED
  BY <1>1, <1>2 DEF OInv

(* The kernel switches: a thread is on one CPU, and does not leave another. *)
LEMMA Switching ==
  ASSUME OInv, NEW c \in CPUs, NEW next \in Tasks \cup {Swapper}, NEW s \in States,
         Switch(c, next, s)
  PROVE  OInv'
<1>. cpu \in [CPUs -> CPU] /\ Swapper \notin Tasks
  BY SwapperAssumption DEF OInv, TypeOK
<1> DEFINE r == [Quiet(next) EXCEPT !.pc = "out", !.prev = cpu[c].cur, !.state = s]
<1>1. /\ r \in CPU /\ r.pc = "out" /\ r.cur = next /\ r.prev = cpu[c].cur
  BY DEF Quiet, CPU, NoKey
<1>2. cpu' = [cpu EXCEPT ![c] = r] /\ cpu[c].pc = "run"
  BY DEF Switch
<1>. HIDE DEF r
<1>3. cpu'[c] = r /\ \A d \in CPUs : d # c => cpu'[d] = cpu[d]
  BY <1>2
<1>4. /\ UNCHANGED <<control, start, counts, exporter, exported, misplaced, trips, forgotten>>
      /\ next = Swapper \/ \A d \in CPUs : next # cpu[d].cur /\ next # cpu[d].prev
      /\ next # cpu[c].cur
      /\ cpu[c].cur # Swapper => trips[cpu[c].cur] < MaxTrips
  BY DEF Switch, tableVars, auxVars
<1>5. TypeOK'
  BY <1>1, <1>2, <1>3, <1>4 DEF OInv, TypeOK
<1>6. Threads'
  BY <1>1, <1>2, <1>3, <1>4 DEF OInv, TypeOK, Threads
<1>7. Times'
  BY <1>1, <1>2, <1>3, <1>4 DEF OInv, Times, Swept
<1>8. Carried'
  BY <1>1, <1>3, <1>4 DEF OInv, Carried, Charging
<1>9. Once => Once'
  BY <1>1, <1>3, <1>4 DEF Once, Charging, Charged, Right
<1> QED
  BY <1>4, <1>5, <1>6, <1>7, <1>8, <1>9 DEF OInv, Reading

(* A thread has left: the time is its new departure, if it is recorded.    *)
LEMMA Leaving ==
  ASSUME OInv, NEW c \in CPUs, Oncpu_prev(c)
  PROVE  OInv'
<1>. cpu \in [CPUs -> CPU] /\ Swapper \notin Tasks
  BY SwapperAssumption DEF OInv, TypeOK
<1>. PICK t : t = cpu[c].prev
  OBVIOUS
<1>. DEFINE r == [cpu[c] EXCEPT !.pc = "in", !.prev = Swapper]
<1>1. cpu[c].pc = "out" /\ cpu' = [cpu EXCEPT ![c] = r]
  BY DEF Oncpu_prev
<1>r. r \in CPU /\ r.pc = "in" /\ r.prev = Swapper /\ r.cur = cpu[c].cur
  <2>1. cpu[c] \in CPU
    OBVIOUS
  <2> QED
    BY <2>1 DEF CPU
<1>. HIDE DEF r
<1>2. /\ cpu'[c] \in CPU /\ cpu'[c].pc = "in" /\ cpu'[c].prev = Swapper /\ cpu'[c].cur = cpu[c].cur
      /\ \A d \in CPUs : d # c => cpu'[d] = cpu[d]
      /\ cpu' \in [CPUs -> CPU]
  BY <1>1, <1>r
<1>3. UNCHANGED <<control, counts, exporter, exported, misplaced, forgotten>>
  BY DEF Oncpu_prev, tableVars
<1>4. CASE t = Swapper
  <2>1. UNCHANGED <<start, trips>>
    BY <1>4 DEF Oncpu_prev
  <2>2. TypeOK' /\ Threads' /\ Times' /\ Carried' /\ (Once => Once')
    BY <1>1, <1>2, <1>3, <1>4, <2>1
       DEF OInv, TypeOK, Threads, Times, Swept, Carried, Charging, Once, Charged, Right
  <2> QED
    BY <2>2, <1>3 DEF OInv, Reading
<1>5. CASE t # Swapper
  <2>1. /\ t \in Tasks /\ trips' = [trips EXCEPT ![t] = trips[t] + 1]
        /\ start' \in {start, [start EXCEPT ![t] = trips[t] + 1]}
        /\ trips[t] < MaxTrips /\ trips[t] \in Nat
        /\ trips \in [Tasks -> 0 .. MaxTrips] /\ start \in [Tasks -> 0 .. MaxTrips]
    BY <1>5, MaxTripsAssumption DEF Oncpu_prev, CPU, OInv, Threads, TypeOK
  <2>2. /\ trips'[t] = trips[t] + 1 /\ start'[t] \in {start[t], trips[t] + 1}
        /\ \A u \in Tasks : u # t => trips'[u] = trips[u] /\ start'[u] = start[u]
    BY <2>1
  <2>3. TypeOK'
    BY <1>2, <1>3, <2>1, MaxTripsAssumption DEF OInv, TypeOK
  <2>4. \A d \in CPUs : cpu[d].cur # t /\ (d # c => cpu[d].prev # t)
    BY <1>5 DEF OInv, Threads
  <2>5. Threads'
    BY <1>1, <1>2, <2>2, <2>4 DEF OInv, Threads, TypeOK, CPU
  <2>6. Times'
    <3>1. start[t] = 0 \/ t \in forgotten
      BY <1>5 DEF OInv, Times, Swept
    <3>2. \A u \in Tasks : start'[u] <= trips'[u] /\ (start'[u] \in {0, trips'[u]} \/ u \in forgotten)
      BY <2>1, <2>2, <3>1, MaxTripsAssumption DEF OInv, Times
    <3>3. \A u : u # t /\ u \in Tasks \cup {Swapper} /\ Swept(u) => Swept(u)'
      BY <1>3, <2>2 DEF Swept
    <3>4. ASSUME NEW d \in CPUs
          PROVE  \A u : (u = cpu'[d].prev \/ (u = cpu'[d].cur /\ cpu'[d].pc \notin {"out", "in"})) => Swept(u)'
      <4>1. CASE d = c
        BY <4>1, <1>2 DEF Swept
      <4>2. CASE d # c
        BY <4>2, <1>2, <2>4, <3>3 DEF OInv, Times, CPU
      <4> QED
        BY <4>1, <4>2
    <3> QED
      BY <1>3, <3>2, <3>4 DEF Times, Swept
  <2>7. Carried'
    BY <1>2, <1>3, <2>2, <2>4 DEF OInv, Carried, Charging, CPU, Keys
  <2>8. Once => Once'
    <3> SUFFICES ASSUME Once PROVE Once'
      OBVIOUS
    <3>1. ASSUME NEW k \in Keys, NEW z \in Charged(k) PROVE Right(k, z)'
      <4>1. z \in Sleep
        BY DEF OInv, TypeOK, Charged
      <4>2. Right(k, z)
        BY DEF Once
      <4> QED
        BY <1>3, <2>1, <2>2, <4>1, <4>2, MaxTripsAssumption DEF Right, Sleep, Keys
    <3> QED
      BY <1>2, <1>3, <3>1 DEF Once, Charging, Charged
  <2> QED
    BY <1>3, <2>3, <2>5, <2>6, <2>7, <2>8 DEF OInv, Reading
<1> QED
  BY <1>4, <1>5

(* A thread is back: it was away unrecorded, or its time is taken.         *)
LEMMA Returning ==
  ASSUME OInv, NEW c \in CPUs, Oncpu_current(c)
  PROVE  OInv'
<1>. cpu \in [CPUs -> CPU] /\ Swapper \notin Tasks
  BY SwapperAssumption DEF OInv, TypeOK
<1>. PICK t : t = cpu[c].cur
  OBVIOUS
<1>1. /\ cpu[c].pc = "in" /\ UNCHANGED <<control, trips, counts, exporter, exported, misplaced>>
      /\ cpu[c].prev = Swapper /\ t \in Tasks \cup {Swapper}
      /\ start \in [Tasks -> 0 .. MaxTrips] /\ trips \in [Tasks -> 0 .. MaxTrips]
      /\ forgotten \subseteq Tasks
  BY DEF Oncpu_current, tableVars, CPU, OInv, Threads, TypeOK
<1>2. \A d \in CPUs : d # c => cpu[d].prev # t \/ t = Swapper
  BY DEF OInv, Threads
<1>3. \A d \in CPUs : d # c => cpu[d].cur # t \/ t = Swapper
  BY DEF OInv, TypeOK
<1>4. /\ Quiet(t) \in CPU /\ Quiet(t).pc = "run" /\ Quiet(t).cur = t /\ Quiet(t).prev = Swapper
      /\ Quiet(t).sleep = {}
  BY <1>1 DEF Quiet, CPU, States
<1>5. CASE /\ ~HasStart(t) /\ cpu' = [cpu EXCEPT ![c] = Quiet(t)] /\ UNCHANGED start
           /\ forgotten' = forgotten \cup {u \in {t} \ {Swapper} : start[u] # 0}
  <2>1. cpu'[c] = Quiet(t) /\ \A d \in CPUs : d # c => cpu'[d] = cpu[d]
    BY <1>5
  <2>2. TypeOK'
    BY <1>1, <1>4, <1>5, <2>1 DEF OInv, TypeOK
  <2>3. Threads'
    BY <1>1, <1>4, <1>5, <2>1 DEF OInv, Threads
  <2>4. Times'
    BY <1>1, <1>4, <1>5, <2>1 DEF OInv, Times, Swept
  <2>5. Carried'
    BY <1>1, <1>4, <1>5, <2>1 DEF OInv, Carried, Charging
  <2>6. Once => Once'
    BY <1>1, <1>4, <1>5, <2>1 DEF Once, Charging, Charged, Right
  <2> QED
    BY <1>1, <2>2, <2>3, <2>4, <2>5, <2>6 DEF OInv, Reading
<1>6. ASSUME HasStart(t), start' = [start EXCEPT ![t] = 0], UNCHANGED forgotten,
             NEW r \in CPU, cpu' = [cpu EXCEPT ![c] = r],
             r.cur = t, r.prev = Swapper, r.pc \in {"run", "find"},
             r.pc = "find" => /\ r.key \in Keys /\ r.key.pid = t
                              /\ r.sleep = {[pid |-> t, from |-> start[t], to |-> trips[t]]}
      PROVE  OInv'
  <2>1. cpu'[c] = r /\ \A d \in CPUs : d # c => cpu'[d] = cpu[d]
    BY <1>6
  <2>2. /\ t \in Tasks /\ start[t] # 0 /\ start'[t] = 0
        /\ \A u \in Tasks : u # t => start'[u] = start[u]
        /\ start[t] = trips[t] \/ t \in forgotten
    BY <1>1, <1>6 DEF HasStart, OInv, Times
  <2>3. TypeOK'
    <3>1. start' \in [Tasks -> 0 .. MaxTrips]
      <4>1. 0 \in 0 .. MaxTrips
        BY MaxTripsAssumption
      <4> QED
        BY <1>1, <1>6, <4>1
    <3>2. cpu' \in [CPUs -> CPU]
      BY <1>6
    <3>3. \A d, e \in CPUs : cpu'[d].cur = cpu'[e].cur => d = e \/ cpu'[d].cur = Swapper
      BY <1>6, <2>1 DEF OInv, TypeOK
    <3> QED
      BY <1>1, <1>6, <3>1, <3>2, <3>3 DEF OInv, TypeOK
  <2>4. Threads'
    BY <1>1, <1>6, <2>1 DEF OInv, Threads
  <2>5. Times'
    BY <1>1, <1>6, <2>1, <2>2, MaxTripsAssumption DEF OInv, Times, Swept
  <2>6. Carried'
    BY <1>1, <1>3, <1>6, <2>1, <2>2 DEF OInv, Carried, Charging, Keys, CPU, TypeOK
  <2>7. Once => Once'
    <3> SUFFICES ASSUME Once PROVE Once'
      OBVIOUS
    <3>1. ASSUME NEW k \in Keys, NEW z \in Charged(k)
          PROVE  Right(k, z)' /\ (z.pid = t => z.to # trips[t])
      BY <1>1, <1>6, <2>2, <3>1 DEF Once, Right, Keys
    <3>2. ASSUME NEW k \in Keys, r.pc = "find" PROVE r.sleep \cap Charged(k) = {}
      BY <1>6, <3>1, <3>2
    <3>3. \A d \in CPUs, k \in Keys : Charging(d)' => cpu'[d].sleep \cap Charged(k) = {}
      BY <1>6, <2>1, <3>2 DEF Once, Charging
    <3>4. \A k : Charged(k)' = Charged(k)
      BY <1>1 DEF Charged
    <3> QED
      BY <1>1, <3>1, <3>3, <3>4 DEF Once
  <2> QED
    BY <1>1, <2>3, <2>4, <2>5, <2>6, <2>7 DEF OInv, Reading
<1>7. CASE /\ HasStart(t) /\ start' = [start EXCEPT ![t] = 0] /\ UNCHANGED forgotten
           /\ cpu' = [cpu EXCEPT ![c] = Quiet(t)]
  BY <1>4, <1>6, <1>7
<1>8. CASE /\ HasStart(t) /\ start' = [start EXCEPT ![t] = 0] /\ UNCHANGED forgotten
           /\ cpu' = [cpu EXCEPT ![c] =
                [Quiet(t) EXCEPT !.pc = "find", !.key = [pid |-> t, level |-> Level(control[t])],
                   !.sleep = {[pid |-> t, from |-> start[t], to |-> trips[t]]}]]
  <2> DEFINE k == [pid |-> t, level |-> Level(control[t])]
             z == [pid |-> t, from |-> start[t], to |-> trips[t]]
             r == [Quiet(t) EXCEPT !.pc = "find", !.key = k, !.sleep = {z}]
  <2>1. t \in Tasks /\ start[t] \in 1 .. MaxTrips /\ trips[t] \in 1 .. MaxTrips
    BY <1>1, <1>8, MaxTripsAssumption DEF HasStart, OInv, Times
  <2>2. k \in Keys /\ k.pid = t /\ z \in Sleep
    BY <2>1 DEF Keys, Sleep, Level
  <2>. HIDE DEF k, z
  <2>3. /\ r \in CPU /\ r.pc = "find" /\ r.cur = t /\ r.prev = Swapper
        /\ r.key = k /\ r.sleep = {z}
    BY <2>1, <2>2 DEF Quiet, CPU, States
  <2>4. cpu' = [cpu EXCEPT ![c] = r]
    BY <1>8 DEF k, z
  <2>. HIDE DEF r
  <2>5. r.sleep = {[pid |-> t, from |-> start[t], to |-> trips[t]]} /\ r.key \in Keys /\ r.key.pid = t
    BY <2>2, <2>3 DEF z
  <2> QED
    BY <1>6, <1>8, <2>3, <2>4, <2>5
<1> QED
  BY <1>5, <1>7, <1>8 DEF Oncpu_current, StartTaken

-----------------------------------------------------------------------------
(* The handler's addition, in two steps.                                   *)
LEMMA Finding ==
  ASSUME OInv, NEW c \in CPUs, IncrementFind(c)
  PROVE  OInv'
<1>. cpu \in [CPUs -> CPU]
  BY DEF OInv, TypeOK
<1>. DEFINE r == [cpu[c] EXCEPT !.pc = "add"]
<1>1. /\ cpu[c].pc = "find" /\ cpu' = [cpu EXCEPT ![c] = r]
      /\ counts' = [counts EXCEPT ![cpu[c].key].here = TRUE]
      /\ UNCHANGED <<control, start, exporter, exported, misplaced, trips, forgotten>>
  BY DEF IncrementFind, auxVars
<1>r. /\ r \in CPU /\ r.pc = "add" /\ r.prev = cpu[c].prev /\ r.cur = cpu[c].cur
      /\ r.key = cpu[c].key /\ r.sleep = cpu[c].sleep
  <2>1. cpu[c] \in CPU
    OBVIOUS
  <2> QED
    BY <2>1 DEF CPU
<1>. HIDE DEF r
<1>2. /\ cpu' \in [CPUs -> CPU] /\ cpu'[c].pc = "add"
      /\ \A d \in CPUs : d # c => cpu'[d] = cpu[d]
      /\ cpu'[c].prev = cpu[c].prev /\ cpu'[c].cur = cpu[c].cur /\ cpu'[c].key = cpu[c].key
      /\ cpu'[c].sleep = cpu[c].sleep
  BY <1>1, <1>r
<1>3. /\ counts' \in [Keys -> [here : BOOLEAN, sum : SUBSET Sleep]]
      /\ \A k \in Keys : counts'[k].sum = counts[k].sum
  <2>1. counts \in [Keys -> [here : BOOLEAN, sum : SUBSET Sleep]]
    BY DEF OInv, TypeOK
  <2>2. \A k \in Keys : /\ counts'[k] \in [here : BOOLEAN, sum : SUBSET Sleep]
                        /\ counts'[k].sum = counts[k].sum
    BY <1>1, <2>1
  <2> QED
    BY <1>1, <2>1, <2>2
<1>4. TypeOK'
  BY <1>1, <1>2, <1>3 DEF OInv, TypeOK
<1>5. Threads'
  BY <1>1, <1>2 DEF OInv, Threads
<1>6. Times'
  BY <1>1, <1>2 DEF OInv, Times, Swept
<1>7. Carried'
  BY <1>1, <1>2 DEF OInv, Carried, Charging
<1>8. Once => Once'
  <2>1. \A k \in Keys : Charged(k)' = Charged(k)
    BY <1>1, <1>3 DEF Charged
  <2>2. \A d \in CPUs : Charging(d)' => Charging(d) /\ cpu'[d].sleep = cpu[d].sleep
    BY <1>1, <1>2 DEF Charging
  <2> QED
    BY <1>1, <1>3, <2>1, <2>2 DEF Once, Right
<1> QED
  BY <1>1, <1>4, <1>5, <1>6, <1>7, <1>8 DEF OInv, Reading

(* An addition to an element that is its key's, and not being exported, is *)
(* new there; any other is misplaced.                                      *)
LEMMA Adding ==
  ASSUME OInv, NEW c \in CPUs, IncrementAdd(c)
  PROVE  OInv'
<1>. cpu \in [CPUs -> CPU] /\ counts \in [Keys -> [here : BOOLEAN, sum : SUBSET Sleep]]
  BY DEF OInv, TypeOK
<1>. PICK k, s : k = cpu[c].key /\ s = cpu[c].sleep
  OBVIOUS
<1>1. /\ cpu[c].pc = "add" /\ cpu' = [cpu EXCEPT ![c] = Quiet(cpu[c].cur)]
      /\ UNCHANGED <<control, start, exporter, exported, trips, forgotten>>
      /\ misplaced' = (misplaced \/ cpu[c].gone \/ (exporter.read /\ exporter.key = k))
      /\ \/ UNCHANGED counts /\ cpu[c].gone
         \/ \E q \in Keys : counts' = [counts EXCEPT ![q].sum = @ \cup s] /\ (q = k \/ cpu[c].gone)
  BY DEF IncrementAdd, auxVars, OInv, Carried, Charging
<1>2. /\ k \in Keys /\ k.pid = cpu[c].cur /\ s \subseteq Sleep
      /\ start[cpu[c].cur] = 0
      /\ \A z \in s : z.pid = cpu[c].cur /\ z.to = trips[cpu[c].cur] /\ (z.from = z.to \/ z.pid \in forgotten)
  BY <1>1 DEF OInv, Carried, Charging, CPU
<1>3. /\ Quiet(cpu[c].cur) \in CPU /\ Quiet(cpu[c].cur).pc = "run"
      /\ Quiet(cpu[c].cur).cur = cpu[c].cur /\ Quiet(cpu[c].cur).prev = Swapper
  BY DEF Quiet, CPU, States
<1>4. /\ cpu'[c] = Quiet(cpu[c].cur) /\ \A d \in CPUs : d # c => cpu'[d] = cpu[d]
      /\ cpu' \in [CPUs -> CPU]
  BY <1>1, <1>3
<1>5. TypeOK'
  <2>1. counts' \in [Keys -> [here : BOOLEAN, sum : SUBSET Sleep]]
    BY <1>1, <1>2
  <2> QED
    BY <1>1, <1>3, <1>4, <2>1 DEF OInv, TypeOK, CPU
<1>6. Threads'
  BY <1>1, <1>3, <1>4 DEF OInv, Threads
<1>7. Times'
  BY <1>1, <1>3, <1>4 DEF OInv, Times, Swept
<1>8. Carried'
  BY <1>1, <1>3, <1>4 DEF OInv, Carried, Charging
<1>9. ASSUME Once, ~misplaced' PROVE Once'
  <2>1. /\ ~misplaced /\ ~cpu[c].gone /\ ~(exporter.read /\ exporter.key = k)
        /\ counts' = [counts EXCEPT ![k].sum = @ \cup s]
    BY <1>1, <1>9
  <2>2. /\ Charged(k)' = Charged(k) \cup s /\ counts'[k].sum = counts[k].sum \cup s
        /\ \A q \in Keys : q # k => Charged(q)' = Charged(q) /\ counts'[q].sum = counts[q].sum
    BY <1>1, <1>2, <2>1 DEF Charged
  <2>3. \A q \in Keys : s \cap Charged(q) = {}
    BY <1>1, <1>9 DEF Once, Charging
  <2>4. \A q \in Keys : \A z : Right(q, z)' <=> Right(q, z)
    BY <1>1 DEF Right
  <2>5. \A z \in s : Right(k, z)
    <3> TAKE z \in s
    <3>1. z \in Sleep /\ z.pid \in Tasks /\ z.to \in Nat
      BY <1>2, MaxTripsAssumption DEF Sleep
    <3> QED
      BY <1>2, <3>1 DEF Right
  <2>6. \A q \in Keys : \A z \in Charged(q)' : Right(q, z)'
    BY <1>9, <2>2, <2>4, <2>5 DEF Once
  <2>7. \A d \in CPUs, q \in Keys : Charging(d)' => cpu'[d].sleep \cap Charged(q)' = {}
    <3> SUFFICES ASSUME NEW d \in CPUs, NEW q \in Keys, Charging(d)'
                 PROVE  cpu'[d].sleep \cap Charged(q)' = {}
      OBVIOUS
    <3>1. d # c /\ cpu'[d] = cpu[d] /\ Charging(d)
      BY <1>3, <1>4 DEF Charging
    <3>2. cpu[d].cur # cpu[c].cur \/ cpu[c].cur = Swapper
      BY <3>1 DEF OInv, TypeOK
    <3>3. cpu[c].cur # Swapper
      BY <1>2, SwapperAssumption DEF Keys
    <3>4. cpu[d].sleep \cap s = {}
      BY <1>2, <3>1, <3>2, <3>3 DEF OInv, Carried
    <3>5. cpu[d].sleep \cap Charged(q) = {}
      BY <1>9, <3>1 DEF Once
    <3> QED
      BY <2>2, <3>1, <3>4, <3>5
  <2>8. \A j, q \in Keys : j = q \/ Charged(j)' \cap Charged(q)' = {}
    BY <1>9, <2>2, <2>3 DEF Once
  <2>9. \A q \in Keys : counts'[q].sum \cap exported[q] # {} => exporter.read /\ exporter.key = q
    BY <1>9, <2>2, <2>3 DEF Once, Charged
  <2> QED
    BY <1>1, <2>6, <2>7, <2>8, <2>9 DEF Once
<1> QED
  BY <1>1, <1>5, <1>6, <1>7, <1>8, <1>9 DEF OInv, Reading

-----------------------------------------------------------------------------
(* The collector's side.                                                   *)
LEMMA Controlling ==
  ASSUME OInv, ExportBegin \/ \E t \in Tasks, con \in Controls \cup {Nobody} : SetControl(t, con)
  PROVE  OInv'
<1>1. /\ UNCHANGED <<cpu, start, counts, exported, misplaced, trips, forgotten>>
      /\ control' \in [Tasks -> Controls \cup {Nobody}]
      /\ exporter' = exporter \/ (~exporter.read /\ ~exporter'.read)
      /\ exporter' \in [pc : {"wait", "iterate"}, key : Keys \cup {NoKey}, read : BOOLEAN]
  <2>1. CASE \E t \in Tasks, con \in Controls \cup {Nobody} : SetControl(t, con)
    BY <2>1 DEF SetControl, tableVars, auxVars, OInv, TypeOK
  <2>2. CASE ExportBegin
    BY <2>2 DEF ExportBegin, auxVars, OInv, Reading, TypeOK
  <2> QED
    BY <2>1, <2>2
<1>2. TypeOK'
  BY <1>1 DEF OInv, TypeOK
<1>3. Threads' /\ Times' /\ Carried' /\ Reading'
  BY <1>1 DEF OInv, Threads, Times, Swept, Carried, Charging, Reading
<1>4. Once => Once'
  BY <1>1 DEF Once, Charged, Charging, Right
<1> QED
  BY <1>1, <1>2, <1>3, <1>4 DEF OInv

(* Reading a key exports what it has; nothing else has been exported.      *)
LEMMA ReadingKey ==
  ASSUME OInv, NEW k \in Keys, ExportRead(k)
  PROVE  OInv'
<1>1. /\ UNCHANGED <<cpu, control, start, counts, misplaced, trips, forgotten>>
      /\ ~exporter.read /\ exporter' = [exporter EXCEPT !.key = k, !.read = TRUE]
      /\ exported' = [exported EXCEPT ![k] = @ \cup counts[k].sum]
      /\ exporter.pc = "iterate"
  BY DEF ExportRead, auxVars
<1>2. /\ exporter' \in [pc : {"wait", "iterate"}, key : Keys \cup {NoKey}, read : BOOLEAN]
      /\ exporter'.read /\ exporter'.key = k /\ exporter'.pc = "iterate"
  BY <1>1 DEF OInv, TypeOK
<1>3. exported' \in [Keys -> SUBSET Sleep]
  BY <1>1 DEF OInv, TypeOK
<1>4. TypeOK'
  BY <1>1, <1>2, <1>3 DEF OInv, TypeOK
<1>5. Threads' /\ Times' /\ Carried' /\ Reading'
  BY <1>1, <1>2 DEF OInv, Threads, Times, Swept, Carried, Charging, Reading
<1>6. Once => Once'
  <2>1. \A q \in Keys : Charged(q)' = Charged(q)
    BY <1>1 DEF Charged, OInv, TypeOK
  <2>2. \A q \in Keys : q # k => exported'[q] = exported[q]
    BY <1>1 DEF OInv, TypeOK
  <2> QED
    BY <1>1, <1>2, <2>1, <2>2 DEF Once, Charging, Right
<1> QED
  BY <1>1, <1>4, <1>5, <1>6 DEF OInv

(* Deleting a key takes what was exported out of the table; a handler that *)
(* has a pointer to the element is told.                                   *)
LEMMA Deleting ==
  ASSUME OInv, ExportDelete
  PROVE  OInv'
<1>. cpu \in [CPUs -> CPU] /\ counts \in [Keys -> [here : BOOLEAN, sum : SUBSET Sleep]]
  BY DEF OInv, TypeOK
<1>. PICK k : k = exporter.key
  OBVIOUS
<1>1. /\ UNCHANGED <<control, start, exported, misplaced, trips, forgotten>>
      /\ exporter.read /\ exporter' = [exporter EXCEPT !.read = FALSE]
      /\ counts' = [counts EXCEPT ![k] = [here |-> FALSE, sum |-> {}]]
      /\ cpu' = [c \in CPUs |->
           IF cpu[c].pc = "add" /\ cpu[c].key = exporter.key THEN [cpu[c] EXCEPT !.gone = TRUE] ELSE cpu[c]]
  BY DEF ExportDelete, Deleted, auxVars
<1>2. k \in Keys
  BY <1>1 DEF OInv, Reading
<1>3. /\ exporter' \in [pc : {"wait", "iterate"}, key : Keys \cup {NoKey}, read : BOOLEAN]
      /\ ~exporter'.read
  BY <1>1 DEF OInv, TypeOK
<1>4. \A c \in CPUs : /\ cpu'[c] \in CPU /\ cpu'[c].pc = cpu[c].pc /\ cpu'[c].cur = cpu[c].cur
                      /\ cpu'[c].prev = cpu[c].prev /\ cpu'[c].key = cpu[c].key
                      /\ cpu'[c].sleep = cpu[c].sleep
  <2>1. SUFFICES ASSUME NEW c \in CPUs
                 PROVE  /\ cpu'[c] \in CPU /\ cpu'[c].pc = cpu[c].pc /\ cpu'[c].cur = cpu[c].cur
                        /\ cpu'[c].prev = cpu[c].prev /\ cpu'[c].key = cpu[c].key
                        /\ cpu'[c].sleep = cpu[c].sleep
    OBVIOUS
  <2>2. cpu[c] \in CPU /\ cpu'[c] \in {cpu[c], [cpu[c] EXCEPT !.gone = TRUE]}
    BY <1>1
  <2> QED
    BY <2>2 DEF CPU
<1>5. /\ counts' \in [Keys -> [here : BOOLEAN, sum : SUBSET Sleep]]
      /\ counts'[k].sum = {} /\ \A q \in Keys : q # k => counts'[q] = counts[q]
  BY <1>1, <1>2
<1>6. TypeOK'
  <2>1. cpu' \in [CPUs -> CPU]
    BY <1>1, <1>4
  <2> QED
    BY <1>1, <1>3, <1>4, <1>5, <2>1 DEF OInv, TypeOK
<1>7. Threads' /\ Times' /\ Carried' /\ Reading'
  BY <1>1, <1>3, <1>4 DEF OInv, Threads, Times, Swept, Carried, Charging, Reading
<1>8. Once => Once'
  <2> SUFFICES ASSUME Once PROVE Once'
    OBVIOUS
  <2>1. \A q \in Keys : Charged(q)' \subseteq Charged(q)
    BY <1>1, <1>5 DEF Charged
  <2>2. \A q \in Keys : \A z \in Charged(q)' : Right(q, z)'
    BY <1>1, <2>1 DEF Once, Right
  <2>3. \A c \in CPUs, q \in Keys : Charging(c)' => cpu'[c].sleep \cap Charged(q)' = {}
    BY <1>4, <2>1 DEF Once, Charging
  <2>4. \A j, q \in Keys : j = q \/ Charged(j)' \cap Charged(q)' = {}
    BY <2>1 DEF Once
  <2>5. \A q \in Keys : counts'[q].sum \cap exported'[q] = {}
    BY <1>1, <1>5 DEF Once
  <2> QED
    BY <2>2, <2>3, <2>4, <2>5 DEF Once
<1> QED
  BY <1>1, <1>6, <1>7, <1>8 DEF OInv

(* The iteration comes to its end between two keys.                        *)
LEMMA Ending ==
  ASSUME OInv, ExportEnd
  PROVE  OInv'
<1>1. /\ UNCHANGED <<cpu, control, start, counts, exported, misplaced, trips, forgotten>>
      /\ ~exporter.read /\ exporter' = [pc |-> "wait", key |-> NoKey, read |-> FALSE]
  BY DEF ExportEnd, auxVars
<1>2. TypeOK'
  BY <1>1 DEF OInv, TypeOK
<1>3. Threads' /\ Times' /\ Carried' /\ Reading'
  BY <1>1 DEF OInv, Threads, Times, Swept, Carried, Charging, Reading
<1>4. Once => Once'
  BY <1>1 DEF Once, Charged, Charging, Right
<1> QED
  BY <1>1, <1>2, <1>3, <1>4 DEF OInv

(* Every step of offcpu.c and of its exporter preserves the invariant.     *)
LEMMA OStep == OInv /\ [Next]_vars => OInv'
<1> SUFFICES ASSUME OInv, [Next]_vars PROVE OInv'
  OBVIOUS
<1>1. CASE UNCHANGED vars
  BY <1>1 DEF vars, OInv, TypeOK, Threads, Times, Swept, Carried, Charging, Reading, Once, Charged, Right
<1>2. CASE Next
  BY <1>2, Switching, Leaving, Returning, Finding, Adding, Controlling, ReadingKey, Deleting, Ending
     DEF Next, Handler, Export
<1> QED
  BY <1>1, <1>2

(* offcpu.c: the types of its tables and handlers; no thread is on two     *)
(* CPUs.                                                                   *)
THEOREM OffcpuTypes == Spec => []TypeOK
<1>1. OInv => TypeOK
  BY DEF OInv
<1> QED
  BY <1>1, OStart, OStep, PTL DEF Spec

(* offcpu.c and exportData: what is charged to a thread is a time it was   *)
(* away, charged to one key and exported once, whatever the CPUs and the   *)
(* exporter do between each other's steps.                                 *)
THEOREM SleepsOnce == Spec => []SleepsChargedOnce
<1>1. OInv => SleepsChargedOnce
  BY DEF OInv, Once, Right, SleepsChargedOnce, ChargesAreSleeps
<1> QED
  BY <1>1, OStart, OStep, PTL DEF Spec

-----------------------------------------------------------------------------
(* Fcount.  What a handler has loaded comes back into the table with its   *)
(* store, so the invariant says the same of it as of the table.            *)

\* the exporter has read p's entry, and has not reset it
ReadOf(p) == iter.read /\ iter.key = p

\* call i has not been counted in f: it has yet to come to the store
Before(i, f) ==
  \/ call[i].pc = "none" \/ call[i].pc = f
  \/ f = "ret_count" /\ call[i].pc \in {"count", "body"}

\* handler j has a pointer to p's counter f
Holds(j, p, f) == call[j].pc = f /\ call[j].pid = p /\ ~call[j].gone

\* types; a call under way has a process, and a key is read while iterating
FShapes ==
  /\ call \in [Calls -> Call]
  /\ \A i \in Calls : call[i].pc # "none" => call[i].pid \in Pids
  /\ table \in [Pids -> [here : BOOLEAN, count : SUBSET Calls, ret_count : SUBSET Calls]]
  /\ iter \in [pc : {"wait", "iterate"}, key : Pids \cup {None}, read : BOOLEAN]
  /\ iter.read => iter.pc = "iterate" /\ iter.key \in Pids
  /\ points \in [Fields -> [Calls -> Nat]]
  /\ due \in [Fields -> SUBSET Calls]

\* what may be said of call i when it is in p's counter f, or about to be
OwnCall(i, p, f) ==
  /\ call[i].pid = p /\ ~Before(i, f)
  /\ points[f][i] = 0 \/ ReadOf(p)

\* no call is counted for another process or before its store, or waits to be
\* exported when it is in a point; this is so for what handlers have loaded, too
NotTwice ==
  /\ \A p \in Pids, f \in Fields : \A i \in table[p][f] : OwnCall(i, p, f)
  /\ \A j \in Calls, p \in Pids, f \in Fields :
       Holds(j, p, f) => \A i \in call[j].val : OwnCall(i, p, f)
  /\ \A f \in Fields, i \in Calls :
       points[f][i] \in {0, 1} /\ (Before(i, f) => points[f][i] = 0)

\* a call that is due is in a point, or in its process's entry, yet to be read
NotLost ==
  \A f \in Fields : \A i \in due[f] :
    /\ ~Before(i, f)
    /\ points[f][i] = 1 \/ (i \in table[call[i].pid][f] /\ ~ReadOf(call[i].pid))

\* the invariant
FInv ==
  /\ FShapes
  /\ ~astray => NotTwice
  /\ ~overlap => ~astray /\ NotLost

(* No call has come and the table is empty.                                *)
LEMMA FStart == FInit => FInv
<1> SUFFICES ASSUME FInit PROVE FInv
  OBVIOUS
<1>1. /\ NotYet \in Call /\ NotYet.pc = "none" /\ NoEntry.count = {} /\ NoEntry.ret_count = {}
      /\ NoEntry \in [here : BOOLEAN, count : SUBSET Calls, ret_count : SUBSET Calls]
  BY DEF NotYet, Call, NoEntry, Zero
<1>2. FShapes
  BY <1>1, NoneAssumption DEF FInit, FShapes, Waiting, Nothing
<1>3. NotTwice
  BY <1>1 DEF FInit, NotTwice, Holds, Before, Fields
<1>4. NotLost
  BY DEF FInit, NotLost, Nothing
<1> QED
  BY <1>2, <1>3, <1>4 DEF FInit, FInv

(* A thread comes to a lookup: its call, which is nowhere counted yet in   *)
(* the counter, has a pointer to it, with its value of now, or no pointer. *)
LEMMA LookingUp ==
  ASSUME FInv, NEW i \in Calls, NEW p \in Pids, NEW f \in Fields, NEW o,
         \/ call[i].pc = "none" /\ f = "count" /\ o = "body"
         \/ call[i].pc = "body" /\ f = "ret_count" /\ o = "done" /\ call[i].pid = p,
         Lookup(i, p, f, o), UNCHANGED <<table, iter, points, due, astray, overlap>>
  PROVE  FInv'
<1>. call \in [Calls -> Call]
  BY DEF FInv, FShapes
<1>. PICK v : v = table[p][f]
  OBVIOUS
<1>1. v \in SUBSET Calls
  BY DEF FInv, FShapes, Fields
<1>2. PICK r : r = [NotYet EXCEPT !.pid = p, !.pc = IF table[p].here THEN f ELSE o, !.val = v]
  OBVIOUS
<1>3. /\ r \in Call /\ r.pid = p /\ r.pc \in {f, o} /\ r.val = v /\ ~r.gone
  BY <1>1, <1>2 DEF NotYet, Call, Fields
<1>4. call' = [call EXCEPT ![i] = r]
  BY <1>2 DEF Lookup
<1>5. call'[i] = r /\ \A j \in Calls : j # i => call'[j] = call[j]
  BY <1>4
<1>6. FShapes'
  BY <1>3, <1>4, <1>5 DEF FInv, FShapes, Fields
<1>7. \A j \in Calls, g \in Fields : Before(j, g)' => Before(j, g)
  BY <1>3, <1>5 DEF Before, Fields
<1>8. \A j \in Calls, q \in Pids, g \in Fields : OwnCall(j, q, g) => OwnCall(j, q, g)'
  BY <1>3, <1>5, <1>7 DEF OwnCall, ReadOf, Before, Fields
<1>9. NotTwice => NotTwice'
  <2> SUFFICES ASSUME NotTwice PROVE NotTwice'
    OBVIOUS
  <2>1. \A q \in Pids, g \in Fields : \A j \in table[q][g] : j \in Calls
    BY DEF FInv, FShapes, Fields
  <2>2. ASSUME NEW q \in Pids, NEW g \in Fields, NEW j \in table[q][g] PROVE OwnCall(j, q, g)'
    BY <1>8, <2>1 DEF NotTwice
  <2>3. ASSUME NEW j \in Calls, NEW q \in Pids, NEW g \in Fields, Holds(j, q, g)', NEW k \in call'[j].val
        PROVE  OwnCall(k, q, g)'
    <3>1. CASE j = i
      BY <1>3, <1>5, <2>2, <2>3, <3>1 DEF Holds, Fields
    <3>2. CASE j # i
      BY <1>5, <1>8, <2>3, <3>2 DEF Holds, NotTwice, FInv, FShapes, Call
    <3> QED
      BY <3>1, <3>2
  <2>4. \A g \in Fields, j \in Calls : 
          points'[g][j] \in {0, 1} /\ (Before(j, g)' => points'[g][j] = 0)
    BY <1>7 DEF NotTwice
  <2> QED
    BY <2>2, <2>3, <2>4 DEF NotTwice
<1>10. NotLost => NotLost'
  BY <1>3, <1>5, <1>7 DEF NotLost, ReadOf, FInv, FShapes, Before, Fields
<1> QED
  BY <1>6, <1>9, <1>10 DEF FInv

(* A map update or a deletion of p's entry leaves it empty, and no handler *)
(* with a pointer to it.                                                   *)
LEMMA Emptying ==
  ASSUME FInv, NEW p \in Pids, NEW e \in {Zero, NoEntry}, table' = [table EXCEPT ![p] = e], call' = Orphaned(p),
         UNCHANGED <<points, astray, overlap>>,
         \/ UNCHANGED iter /\ ~iter.read /\ due' = [f \in Fields |-> due[f] \ table[p][f]]
         \/ iter.read /\ iter.key = p /\ iter' = [iter EXCEPT !.read = FALSE] /\ UNCHANGED due
  PROVE  FInv'
<1>. /\ call \in [Calls -> Call]
     /\ table \in [Pids -> [here : BOOLEAN, count : SUBSET Calls, ret_count : SUBSET Calls]]
     /\ iter \in [pc : {"wait", "iterate"}, key : Pids \cup {None}, read : BOOLEAN]
  BY DEF FInv, FShapes
<1>1. /\ \A f \in Fields : e[f] = {}
      /\ e \in [here : BOOLEAN, count : SUBSET Calls, ret_count : SUBSET Calls]
  <2>1. Zero.count = {} /\ Zero.ret_count = {} /\ Zero.here = TRUE
    BY DEF Zero
  <2>2. Zero \in [here : BOOLEAN, count : SUBSET Calls, ret_count : SUBSET Calls]
    BY DEF Zero
  <2>3. /\ NoEntry.count = {} /\ NoEntry.ret_count = {}
        /\ NoEntry \in [here : BOOLEAN, count : SUBSET Calls, ret_count : SUBSET Calls]
    BY <2>1, <2>2 DEF NoEntry
  <2>4. CASE e = Zero
    BY <2>1, <2>2, <2>4 DEF Fields
  <2>5. CASE e = NoEntry
    BY <2>3, <2>5 DEF Fields
  <2> QED
    BY <2>4, <2>5
<1>2. \A j \in Calls : /\ call'[j] \in Call /\ call'[j].pc = call[j].pc /\ call'[j].pid = call[j].pid
                       /\ call'[j].val = call[j].val
                       /\ call[j].gone => call'[j].gone
                       /\ (call[j].pid = p /\ call[j].pc \in Fields) => call'[j].gone
  <2> TAKE j \in Calls
  <2>1. call'[j] \in {call[j], [call[j] EXCEPT !.gone = TRUE]}
    BY DEF Orphaned
  <2>2. call[j].pid = p /\ call[j].pc \in Fields => call'[j] = [call[j] EXCEPT !.gone = TRUE]
    BY DEF Orphaned
  <2>3. call[j] \in Call
    OBVIOUS
  <2> QED
    BY <2>1, <2>2, <2>3 DEF Call
<1>3. /\ ~iter'.read /\ iter' \in [pc : {"wait", "iterate"}, key : Pids \cup {None}, read : BOOLEAN]
  OBVIOUS
<1>4. /\ table'[p] = e /\ \A q \in Pids : q # p => table'[q] = table[q]
  OBVIOUS
<1>5. FShapes'
  <2>1. call' \in [Calls -> Call]
    BY <1>2 DEF Orphaned
  <2>2. due' \in [Fields -> SUBSET Calls]
    BY DEF FInv, FShapes
  <2>3. table' \in [Pids -> [here : BOOLEAN, count : SUBSET Calls, ret_count : SUBSET Calls]]
    BY <1>1
  <2>4. points' \in [Fields -> [Calls -> Nat]] /\ \A j \in Calls : call'[j].pc # "none" => call'[j].pid \in Pids
    BY <1>2 DEF FInv, FShapes
  <2> QED
    BY <1>3, <2>1, <2>2, <2>3, <2>4 DEF FShapes
<1>6. \A j, f : j \in Calls => (Before(j, f)' <=> Before(j, f))
  BY <1>2 DEF Before
<1>7. ASSUME NEW q \in Pids, q # p PROVE ~ReadOf(q)
  BY <1>7 DEF ReadOf
<1>8. \A j \in Calls, q \in Pids, f \in Fields : q # p /\ OwnCall(j, q, f) => OwnCall(j, q, f)'
  BY <1>2, <1>6, <1>7 DEF OwnCall
<1>9. NotTwice => NotTwice'
  <2> SUFFICES ASSUME NotTwice PROVE NotTwice'
    OBVIOUS
  <2>1. ASSUME NEW q \in Pids, NEW f \in Fields, NEW j \in table'[q][f] PROVE OwnCall(j, q, f)'
    BY <1>1, <1>4, <1>8, <2>1 DEF NotTwice, FInv, FShapes, Fields
  <2>2. ASSUME NEW j \in Calls, NEW q \in Pids, NEW f \in Fields, Holds(j, q, f)', NEW k \in call'[j].val
        PROVE  OwnCall(k, q, f)'
    <3>1. Holds(j, q, f) /\ q # p /\ k \in call[j].val /\ k \in Calls
      BY <1>2, <2>2 DEF Holds, Call, Fields
    <3> QED
      BY <1>8, <3>1 DEF NotTwice
  <2>3. \A f \in Fields, j \in Calls :
          points'[f][j] \in {0, 1} /\ (Before(j, f)' => points'[f][j] = 0)
    BY <1>6 DEF NotTwice
  <2> QED
    BY <2>1, <2>2, <2>3 DEF NotTwice
<1>10. ~overlap /\ NotLost => NotLost'
  <2> SUFFICES ASSUME ~overlap, NotLost, NEW f \in Fields, NEW i \in due'[f]
               PROVE  /\ ~Before(i, f)'
                      /\ points'[f][i] = 1 \/ (i \in table'[call'[i].pid][f] /\ ~ReadOf(call[i].pid)')
    BY DEF NotLost
  <2>1. i \in due[f] /\ i \in Calls /\ ~Before(i, f) /\ call[i].pid \in Pids
        /\ (points[f][i] = 1 \/ (i \in table[call[i].pid][f] /\ ~ReadOf(call[i].pid)))
    BY DEF NotLost, FInv, FShapes, Before
  <2>2. ~ReadOf(call[i].pid)' /\ call'[i].pid = call[i].pid
    BY <1>2, <1>3, <2>1 DEF ReadOf
  <2>3. call[i].pid = p /\ i \in table[p][f] => ReadOf(p)
    BY <2>1 DEF ReadOf
  <2> QED
    BY <1>4, <1>6, <2>1, <2>2, <2>3
<1> QED
  BY <1>5, <1>9, <1>10 DEF FInv

(* A store into p's own counter: it now counts what the handler had loaded *)
(* and its own call.  What it overwrites is lost, but then the increment   *)
(* met another one.                                                        *)
LEMMA Storing ==
  ASSUME FInv, NEW i \in Calls, Increment(i), ~call[i].gone
  PROVE  FInv'
<1>. /\ call \in [Calls -> Call]
     /\ table \in [Pids -> [here : BOOLEAN, count : SUBSET Calls, ret_count : SUBSET Calls]]
  BY DEF FInv, FShapes
<1>. PICK p, f, v : p = call[i].pid /\ f = call[i].pc /\ v = call[i].val
  OBVIOUS
<1>1. /\ f \in Fields /\ p \in Pids /\ v \subseteq Calls /\ Holds(i, p, f)
  BY DEF Increment, FInv, FShapes, Call, Fields, Holds
<1>2. PICK r : r = [NotYet EXCEPT !.pid = p, !.pc = IF f = "count" THEN "body" ELSE "done"]
  OBVIOUS
<1>3. /\ r \in Call /\ r.pid = p /\ r.pc \in {"body", "done"} /\ ~r.gone
      /\ r.pc = "body" => f = "count"
  BY <1>1, <1>2 DEF NotYet, Call, Fields
<1>4. call' = [call EXCEPT ![i] = r]
  BY <1>2 DEF Increment
<1>5. call'[i] = r /\ \A j \in Calls : j # i => call'[j] = call[j]
  BY <1>4
<1>6. /\ table' = [table EXCEPT ![p][f] = v \cup {i}]
      /\ due' = [due EXCEPT ![f] = @ \cup {i}] /\ UNCHANGED <<iter, points>> /\ (astray' <=> astray)
      /\ ~overlap' => ~overlap /\ table[p][f] = v /\ ~ReadOf(p)
  BY DEF Increment, Sum, exportVars, ReadOf
<1>7. /\ table' \in [Pids -> [here : BOOLEAN, count : SUBSET Calls, ret_count : SUBSET Calls]]
      /\ table'[p][f] = v \cup {i}
      /\ \A q \in Pids, g \in Fields : q # p \/ g # f => table'[q][g] = table[q][g]
  BY <1>1, <1>6 DEF Fields
<1>8. FShapes'
  <2>1. due' \in [Fields -> SUBSET Calls]
    <3>1. due \in [Fields -> SUBSET Calls] /\ due[f] \cup {i} \in SUBSET Calls
      BY <1>1 DEF FInv, FShapes
    <3> QED
      BY <1>6, <3>1
  <2>2. call' \in [Calls -> Call] /\ \A j \in Calls : call'[j].pc # "none" => call'[j].pid \in Pids
    BY <1>1, <1>3, <1>4, <1>5 DEF FInv, FShapes
  <2> QED
    BY <1>6, <1>7, <2>1, <2>2 DEF FInv, FShapes
<1>9. /\ \A j \in Calls, g \in Fields : Before(j, g)' => Before(j, g)
      /\ ~Before(i, f)' /\ Before(i, f)
  BY <1>1, <1>3, <1>5 DEF Before, Fields
<1>10. /\ \A j \in Calls, q \in Pids, g \in Fields : OwnCall(j, q, g) => OwnCall(j, q, g)'
       /\ NotTwice => OwnCall(i, p, f)'
  BY <1>1, <1>3, <1>5, <1>6, <1>9 DEF OwnCall, ReadOf, NotTwice
<1>11. NotTwice => NotTwice'
  <2> SUFFICES ASSUME NotTwice PROVE NotTwice'
    OBVIOUS
  <2>1. ASSUME NEW q \in Pids, NEW g \in Fields, NEW j \in table'[q][g] PROVE OwnCall(j, q, g)'
    <3>1. CASE q = p /\ g = f
      BY <1>1, <1>7, <1>10, <2>1, <3>1 DEF NotTwice
    <3>2. CASE ~(q = p /\ g = f)
      <4>1. j \in table[q][g] /\ j \in Calls
        BY <1>7, <2>1, <3>2 DEF FInv, FShapes, Fields
      <4> QED
        BY <1>10, <4>1 DEF NotTwice
    <3> QED
      BY <3>1, <3>2
  <2>2. ASSUME NEW j \in Calls, NEW q \in Pids, NEW g \in Fields, Holds(j, q, g)', NEW k \in call'[j].val
        PROVE  OwnCall(k, q, g)'
    <3>1. j # i /\ Holds(j, q, g) /\ k \in call[j].val /\ k \in Calls
      BY <1>3, <1>5, <2>2 DEF Holds, Call, Fields
    <3> QED
      BY <1>10, <3>1 DEF NotTwice
  <2>3. \A g \in Fields, j \in Calls :
          points'[g][j] \in {0, 1} /\ (Before(j, g)' => points'[g][j] = 0)
    BY <1>6, <1>9 DEF NotTwice
  <2> QED
    BY <2>1, <2>2, <2>3 DEF NotTwice
<1>12. ~overlap' /\ NotLost => NotLost'
  <2> SUFFICES ASSUME ~overlap', NotLost, NEW g \in Fields, NEW j \in due'[g]
               PROVE  /\ ~Before(j, g)'
                      /\ points'[g][j] = 1 \/ (j \in table'[call'[j].pid][g] /\ ~ReadOf(call[j].pid)')
    BY DEF NotLost
  <2>1. CASE j = i /\ g = f
    BY <1>3, <1>5, <1>6, <1>7, <1>9, <2>1 DEF ReadOf
  <2>2. CASE ~(j = i /\ g = f)
    <3>1. j \in due[g] /\ j \in Calls /\ call[j].pid \in Pids /\ ~Before(j, g)
      BY <1>6, <2>2 DEF FInv, FShapes, NotLost, Before
    <3>2. call'[j].pid = call[j].pid /\ (ReadOf(call[j].pid)' <=> ReadOf(call[j].pid))
      BY <1>3, <1>5, <1>6, <3>1 DEF ReadOf
    <3>3. j \in table[call[j].pid][g] => j \in table'[call[j].pid][g]
      BY <1>6, <1>7, <3>1
    <3> QED
      BY <1>6, <1>9, <3>1, <3>2, <3>3 DEF NotLost
  <2> QED
    BY <2>1, <2>2
<1> QED
  BY <1>6, <1>8, <1>11, <1>12 DEF FInv


(* exportData reads p's entry: none of the calls in it is in a point yet.  *)
LEMMA ReadingEntry ==
  ASSUME FInv, NEW p \in Pids, FExportRead(p)
  PROVE  FInv'
<1> DEFINE Out(f) == IF f = "count" \/ conf.ret THEN table[p][f] ELSE {}
<1>1. /\ ~iter.read /\ iter.pc = "iterate" /\ iter' = [iter EXCEPT !.key = p, !.read = TRUE]
      /\ points' = [f \in Fields |-> [i \in Calls |-> points[f][i] + IF i \in Out(f) THEN 1 ELSE 0]]
      /\ due' = [f \in Fields |-> due[f] \ (table[p][f] \ Out(f))]
      /\ UNCHANGED <<call, table, overlap, astray>>
  BY DEF FExportRead, mapVars, fauxVars
<1>2. /\ iter' \in [pc : {"wait", "iterate"}, key : Pids \cup {None}, read : BOOLEAN]
      /\ iter'.read /\ iter'.pc = "iterate" /\ iter'.key = p
  BY <1>1 DEF FInv, FShapes
<1>3. \A f \in Fields : Out(f) \subseteq table[p][f] /\ table[p][f] \subseteq Calls
  BY DEF FInv, FShapes, Fields
<1>. HIDE DEF Out
<1>4. \A f \in Fields, i \in Calls :
        /\ points'[f][i] \in Nat /\ points[f][i] \in Nat
        /\ points'[f][i] = IF i \in Out(f) THEN points[f][i] + 1 ELSE points[f][i]
  BY <1>1 DEF FInv, FShapes
<1>5. FShapes'
  <2>1. points' \in [Fields -> [Calls -> Nat]]
    BY <1>1, <1>4
  <2>2. due' \in [Fields -> SUBSET Calls]
    BY <1>1 DEF FInv, FShapes
  <2> QED
    BY <1>1, <1>2, <2>1, <2>2 DEF FInv, FShapes
<1>6. \A q : ~ReadOf(q) /\ (ReadOf(q)' <=> q = p)
  BY <1>1, <1>2 DEF ReadOf
<1>7. \A f, i : Before(i, f)' <=> Before(i, f)
  BY <1>1 DEF Before
<1>8. ASSUME NotTwice, NEW f \in Fields, NEW i \in Calls, NEW q \in Pids, OwnCall(i, q, f)
      PROVE  OwnCall(i, q, f)'
  <2>1. q # p => i \notin Out(f)
    BY <1>3, <1>8 DEF NotTwice, OwnCall
  <2> QED
    BY <1>1, <1>4, <1>6, <1>7, <1>8, <2>1 DEF OwnCall
<1>9. NotTwice => NotTwice'
  <2> SUFFICES ASSUME NotTwice PROVE NotTwice'
    OBVIOUS
  <2>1. ASSUME NEW q \in Pids, NEW f \in Fields, NEW i \in table'[q][f] PROVE OwnCall(i, q, f)'
    <3>1. i \in table[q][f] /\ i \in Calls
      BY <1>1, <2>1 DEF FInv, FShapes, Fields
    <3> QED
      BY <1>8, <3>1 DEF NotTwice
  <2>2. ASSUME NEW j \in Calls, NEW q \in Pids, NEW f \in Fields, Holds(j, q, f)', NEW k \in call'[j].val
        PROVE  OwnCall(k, q, f)'
    <3>1. Holds(j, q, f) /\ k \in call[j].val /\ k \in Calls
      BY <1>1, <2>2 DEF Holds, FInv, FShapes, Call
    <3> QED
      BY <1>8, <3>1 DEF NotTwice
  <2>3. ASSUME NEW f \in Fields, NEW i \in Calls
        PROVE  points'[f][i] \in {0, 1} /\ (Before(i, f)' => points'[f][i] = 0)
    <3>1. CASE i \in Out(f)
      <4>1. OwnCall(i, p, f)
        BY <1>3, <3>1 DEF NotTwice
      <4> QED
        BY <1>4, <1>6, <1>7, <3>1, <4>1 DEF OwnCall
    <3>2. CASE i \notin Out(f)
      BY <1>4, <1>7, <3>2 DEF NotTwice
    <3> QED
      BY <3>1, <3>2
  <2> QED
    BY <2>1, <2>2, <2>3 DEF NotTwice
<1>10. NotTwice /\ NotLost => NotLost'
  <2> SUFFICES ASSUME NotTwice, NotLost, NEW f \in Fields, NEW i \in due'[f]
               PROVE  /\ ~Before(i, f)'
                      /\ points'[f][i] = 1 \/ (i \in table'[call'[i].pid][f] /\ ~ReadOf(call[i].pid)')
    BY DEF NotLost
  <2>1. /\ i \in due[f] /\ i \in Calls /\ ~Before(i, f)
        /\ i \in table[p][f] => i \in Out(f)
        /\ points[f][i] = 1 \/ i \in table[call[i].pid][f]
    BY <1>1 DEF NotLost, FInv, FShapes
  <2>2. CASE i \in Out(f)
    <3>1. OwnCall(i, p, f)
      BY <1>3, <2>2 DEF NotTwice
    <3> QED
      BY <1>4, <1>6, <1>7, <2>1, <2>2, <3>1 DEF OwnCall
  <2>3. CASE i \notin Out(f)
    <3>1. points[f][i] = 1 \/ call[i].pid # p
      BY <2>1, <2>3
    <3>2. ReadOf(call[i].pid)' <=> call[i].pid = p
      BY <1>1, <1>2 DEF ReadOf
    <3> QED
      BY <1>1, <1>4, <1>7, <2>1, <2>3, <3>1, <3>2
  <2> QED
    BY <2>2, <2>3
<1> QED
  BY <1>1, <1>5, <1>9, <1>10 DEF FInv

(* Steps of the collector that leave the table and the points alone.       *)
LEMMA Idle ==
  ASSUME FInv, UNCHANGED <<call, table, points, due, overlap, astray>>,
         \/ UNCHANGED iter
         \/ ~iter.read /\ ~iter'.read
            /\ iter' \in [pc : {"wait", "iterate"}, key : Pids \cup {None}, read : BOOLEAN]
  PROVE  FInv'
<1>1. FShapes'
  BY DEF FInv, FShapes
<1>2. NotTwice => NotTwice'
  BY DEF NotTwice, Holds, OwnCall, Before, ReadOf
<1>3. NotLost => NotLost'
  BY DEF NotLost, Before, ReadOf
<1> QED
  BY <1>1, <1>2, <1>3 DEF FInv

(* An increment of an element that was freed says nothing of the others.   *)
LEMMA StoringAstray ==
  ASSUME FInv, NEW i \in Calls, Increment(i), call[i].gone
  PROVE  FInv'
<1>. /\ call \in [Calls -> Call]
     /\ table \in [Pids -> [here : BOOLEAN, count : SUBSET Calls, ret_count : SUBSET Calls]]
  BY DEF FInv, FShapes
<1>. PICK p, f, v : p = call[i].pid /\ f = call[i].pc /\ v = Sum(i)
  OBVIOUS
<1>1. /\ f \in Fields /\ p \in Pids /\ v \subseteq Calls
  BY DEF Increment, FInv, FShapes, Call, Fields, Sum
<1>2. PICK r : r = [NotYet EXCEPT !.pid = p, !.pc = IF f = "count" THEN "body" ELSE "done"]
  OBVIOUS
<1>3. r \in Call /\ r.pid = p
  BY <1>1, <1>2 DEF NotYet, Call, Fields
<1>4. /\ call' = [call EXCEPT ![i] = r] /\ astray' /\ overlap'
      /\ due' = [due EXCEPT ![f] = @ \cup {i}] /\ UNCHANGED <<iter, points>>
      /\ UNCHANGED table \/ \E q \in Pids : table' = [table EXCEPT ![q][f] = v]
  BY <1>2 DEF Increment, exportVars
<1>5. table' \in [Pids -> [here : BOOLEAN, count : SUBSET Calls, ret_count : SUBSET Calls]]
  BY <1>1, <1>4 DEF Fields
<1>6. due' \in [Fields -> SUBSET Calls]
  BY <1>1, <1>4 DEF FInv, FShapes
<1> QED
  BY <1>1, <1>3, <1>4, <1>5, <1>6 DEF FInv, FShapes

(* Every step of fcount.c and of its collector preserves the invariant.    *)
LEMMA FStep == FInv /\ [FNext]_fvars => FInv'
<1> SUFFICES ASSUME FInv, [FNext]_fvars PROVE FInv'
  OBVIOUS
<1>. iter \in [pc : {"wait", "iterate"}, key : Pids \cup {None}, read : BOOLEAN]
  BY DEF FInv, FShapes
<1>1. CASE UNCHANGED fvars
  BY <1>1, Idle DEF fvars, mapVars, exportVars, fauxVars
<1>2. ASSUME NEW i \in Calls, NEW p \in Pids, FcountBegin(i, p) PROVE FInv'
  BY <1>2, LookingUp DEF FcountBegin, mapVars, exportVars, fauxVars, Fields
<1>3. ASSUME NEW i \in Calls, FcountReturn(i) PROVE FInv'
  <2>1. call[i].pid \in Pids /\ call[i].pc = "body"
    BY <1>3 DEF FcountReturn, FInv, FShapes
  <2>2. /\ Lookup(i, call[i].pid, "ret_count", "done")
        /\ UNCHANGED <<table, iter, points, due, astray, overlap>>
    BY <1>3 DEF FcountReturn, mapVars, exportVars, fauxVars
  <2> QED
    BY <2>1, <2>2, LookingUp DEF Fields
<1>4. ASSUME NEW i \in Calls, Increment(i) PROVE FInv'
  BY <1>4, Storing, StoringAstray
<1>5. ASSUME NEW p \in Pids, AddPid(p) \/ DelPid(p) PROVE FInv'
  <2>1. PICK e \in {Zero, NoEntry} : table' = [table EXCEPT ![p] = e]
    BY <1>5 DEF AddPid, DelPid, SetP, DeleteP
  <2>2. /\ call' = Orphaned(p) /\ ~iter.read /\ due' = [f \in Fields |-> due[f] \ table[p][f]]
        /\ UNCHANGED <<iter, points, astray, overlap>>
    BY <1>5 DEF AddPid, DelPid, SetP, DeleteP, Discard, MutexFree, exportVars, fauxVars, FInv, FShapes
  <2> QED
    BY <2>1, <2>2, Emptying
<1>6. ASSUME NEW c \in Confs, OnConfigChange(c) PROVE FInv'
  BY <1>6, Idle DEF OnConfigChange, mapVars, exportVars, fauxVars
<1>7. ASSUME FExportBegin \/ FExportEnd PROVE FInv'
  <2>1. /\ UNCHANGED <<call, table, points, due, overlap, astray>>
        /\ ~iter.read /\ iter' \in {[Waiting EXCEPT !.pc = "iterate"], Waiting}
    BY <1>7 DEF FExportBegin, FExportEnd, mapVars, fauxVars, FInv, FShapes
  <2>2. ~iter'.read /\ iter' \in [pc : {"wait", "iterate"}, key : Pids \cup {None}, read : BOOLEAN]
    <3>1. CASE iter' = Waiting
      BY <3>1 DEF Waiting
    <3>2. CASE iter' = [Waiting EXCEPT !.pc = "iterate"]
      BY <3>2 DEF Waiting
    <3> QED
      BY <2>1, <3>1, <3>2
  <2> QED
    BY <2>1, <2>2, Idle
<1>8. ASSUME NEW p \in Pids, FExportRead(p) PROVE FInv'
  BY <1>8, ReadingEntry
<1>9. ASSUME ExportReset PROVE FInv'
  <2>1. /\ iter.key \in Pids /\ iter.read /\ iter' = [iter EXCEPT !.read = FALSE]
        /\ table' = [table EXCEPT ![iter.key] = Zero] /\ call' = Orphaned(iter.key)
        /\ UNCHANGED <<due, points, astray, overlap>>
    BY <1>9 DEF ExportReset, ResetValue, SetP, fauxVars, FInv, FShapes
  <2>. PICK p \in Pids : p = iter.key
    BY <2>1
  <2> QED
    BY <2>1, Emptying
<1> QED
  BY <1>1, <1>2, <1>3, <1>4, <1>5, <1>6, <1>7, <1>8, <1>9 DEF FNext

(* Where a call can be besides the points: its own process's entry.        *)
LEMMA PlacesOf ==
  ASSUME FShapes, NotTwice, NEW f \in Fields, NEW i \in Calls
  PROVE  /\ Places(f, i) \in {0, 1}
         /\ ~Before(i, f) /\ (points[f][i] = 1 \/ (i \in table[call[i].pid][f] /\ ~ReadOf(call[i].pid)))
              => Places(f, i) = 1
<1>1. PICK S : S = {p \in Pids : i \in table[p][f] /\ ~(iter.read /\ iter.key = p)}
  OBVIOUS
<1>2. \A p \in S : p = call[i].pid /\ points[f][i] = 0
  BY <1>1 DEF NotTwice, OwnCall, ReadOf
<1>3. S = {} \/ S = {call[i].pid}
  BY <1>2
<1>4. Cardinality(S) = IF S = {} THEN 0 ELSE 1
  BY <1>3, FS_EmptySet, FS_Singleton
<1>5. points[f][i] \in {0, 1} /\ Places(f, i) = points[f][i] + Cardinality(S)
  BY <1>1 DEF NotTwice, Places
<1>6. S # {} => Places(f, i) = 1
  BY <1>2, <1>3, <1>4, <1>5
<1>7. ~Before(i, f) /\ i \in table[call[i].pid][f] /\ ~ReadOf(call[i].pid) => S # {}
  BY <1>1 DEF FShapes, Before, ReadOf
<1> QED
  BY <1>4, <1>5, <1>6, <1>7

(* fcount.c and exportData: no call is counted twice or for another        *)
(* process unless a store went to a freed element, and none is lost unless *)
(* an increment met another one or the exporter; for any number of calls,  *)
(* processes, buckets and seeds of the hash.                               *)
THEOREM CallsOnce == FSpec => []CallsCountedOnce
<1>1. FInv => CallsCountedOnce
  <2>1. ASSUME FShapes, NotTwice, NEW f \in Fields, NEW i \in Calls
        PROVE  Places(f, i) <= 1 /\ \A p \in Pids : i \in table[p][f] => call[i].pid = p
    BY <2>1, PlacesOf DEF NotTwice, OwnCall
  <2>2. ASSUME FShapes, NotTwice, NotLost, NEW f \in Fields, NEW i \in due[f]
        PROVE  Places(f, i) = 1
    BY <2>2, PlacesOf DEF NotLost, FShapes
  <2> QED
    BY <2>1, <2>2 DEF FInv, CallsCountedOnce
<1> QED
  BY <1>1, FStart, FStep, PTL DEF FSpec
=============================================================================
