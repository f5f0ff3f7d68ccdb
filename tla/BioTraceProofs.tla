--------------------------- MODULE BioTraceProofs ---------------------------
(***************************************************************************)
(* Proofs that a latency is charged to the process that did the I/O, and   *)
(* that every I/O charged is counted once, for any number of requests,     *)
(* processes, elements and I/Os.                                           *)
(***************************************************************************)
EXTENDS BioTrace, FiniteSetTheorems, TLAPS

(* The types the argument needs; exported and charged play no part in it.  *)
Types ==
  /\ nios \in 0 .. MaxIOs
  /\ ioOf \in [Reqs -> 0 .. MaxIOs]
  /\ stage \in [Reqs -> {"free", "accounted", "issued", "completing"}]
  /\ owner \in [IOs -> Pids \cup {None}]
  /\ control \in [Pids -> Levels \cup {0}]
  /\ whobyreq \in [Reqs -> Pids \cup {None}]
  /\ start \in [Reqs -> 0 .. MaxIOs]
  /\ handler \in [Reqs -> Handler]
  /\ table \in [Tables -> [Pids -> 0 .. NSlots]]
  /\ element \in [Tables -> [1 .. NSlots -> SUBSET Charge]]
  /\ exporter \in [pc : {"wait", "between"} \cup Tables, key : Pids \cup {None}, read : BOOLEAN]
  /\ exporter.read => exporter.key \in Pids
  /\ abandoned \in SUBSET Reqs
  /\ leftover \in SUBSET IOs
  /\ overlap \in [Tables -> BOOLEAN]

(* What whobyreq and start hold for a request that was not abandoned: its  *)
(* own I/O's process and issue, or nothing.  A request that was abandoned  *)
(* carries I/Os in leftover.                                               *)
OwnEntries(r) ==
  /\ stage[r] # "free" => ioOf[r] \in 1 .. nios
  /\ stage[r] # "free" /\ r \in abandoned => ioOf[r] \in leftover
  /\ r \notin abandoned /\ whobyreq[r] # None =>
       stage[r] # "free" /\ whobyreq[r] = owner[ioOf[r]]
  /\ r \notin abandoned => start[r] = IF stage[r] \in {"free", "accounted"} THEN 0 ELSE ioOf[r]

(* A handler's request keeps its entries until the handler is done.        *)
HandlerEntries(r) ==
  handler[r].pc # "idle" =>
    stage[r] = "completing" /\ handler[r].pid \in Pids
      /\ whobyreq[r] = handler[r].pid /\ start[r] \in IOs

(* Elements are not shared.                                                *)
OneKeyPerElement ==
  \A t \in Tables, p, q \in Pids : table[t][p] = table[t][q] => p = q \/ table[t][p] = 0

Right(c, p) ==
  /\ c.io \in 1 .. nios
  /\ c.io \notin leftover => c.issue = c.io /\ owner[c.io] = p

ChargesRight(t) == ~overlap[t] => \A p \in Pids : \A c \in Charges(t, p) : Right(c, p)

Inv ==
  /\ Types
  /\ \A r \in Reqs : OwnEntries(r)
  /\ \A r \in Reqs : HandlerEntries(r)
  /\ OneKeyPerElement
  /\ \A t \in Tables : ChargesRight(t)
-----------------------------------------------------------------------------
(* The parts of the invariant hold initially.                              *)
LEMMA InitInv == Init => Inv
<1> SUFFICES ASSUME Init PROVE Inv
  OBVIOUS
<1>1. Types
  BY NoneAssumption, SlotsAssumption, MaxIOsAssumption DEF Init, Types, Handler, Idle, Tables, IOs
<1>2. \A r \in Reqs : OwnEntries(r) /\ HandlerEntries(r)
  BY DEF Init, OwnEntries, HandlerEntries, Idle
<1>3. OneKeyPerElement /\ \A t \in Tables : ChargesRight(t)
  BY DEF Init, OneKeyPerElement, ChargesRight, Charges, Tables
<1> QED
  BY <1>1, <1>2, <1>3 DEF Inv

(* A probe before the completion changes no table of charges.              *)
LEMMA StartProbes ==
  ASSUME Inv, NEW r \in Reqs,
         (\E p \in Pids : TracePidStart(r, p)) \/ TraceReqStart(r)
  PROVE  Types' /\ \A q \in Reqs : OwnEntries(q)' /\ HandlerEntries(q)'
<1> USE MaxIOsAssumption DEF Inv
<1>1. ASSUME NEW p \in Pids, TracePidStart(r, p)
      PROVE  Types' /\ \A q \in Reqs : OwnEntries(q)' /\ HandlerEntries(q)'
  <2>1. nios + 1 \in IOs
    BY <1>1 DEF TracePidStart, Types, IOs
  <2>2. Types'
    BY <1>1, <2>1 DEF TracePidStart, Types, IOs, tableVars, exportVars
  <2>3. ASSUME NEW q \in Reqs PROVE OwnEntries(q)' /\ HandlerEntries(q)'
    <3>1. OwnEntries(q) /\ HandlerEntries(q)
      OBVIOUS
    <3>2. CASE q = r
      BY <1>1, <2>1, <3>1, <3>2, NoneAssumption
         DEF TracePidStart, Types, OwnEntries, HandlerEntries, IOs
    <3>3. CASE q # r
      BY <1>1, <2>1, <3>1, <3>3 DEF TracePidStart, Types, OwnEntries, HandlerEntries, IOs
    <3> QED
      BY <3>2, <3>3
  <2> QED
    BY <2>2, <2>3
<1>2. CASE TraceReqStart(r)
  <2>1. Types'
    BY <1>2 DEF TraceReqStart, Types, kernelVars, tableVars, exportVars
  <2>2. ASSUME NEW q \in Reqs PROVE OwnEntries(q)' /\ HandlerEntries(q)'
    <3>1. OwnEntries(q) /\ HandlerEntries(q)
      OBVIOUS
    <3> QED
      BY <1>2, <3>1 DEF TraceReqStart, Types, OwnEntries, HandlerEntries, IOs, kernelVars
  <2> QED
    BY <2>1, <2>2
<1> QED
  BY <1>1, <1>2

(* Neither does the start of the completion; it abandons a request or      *)
(* starts a handler on entries that are there.                             *)
LEMMA CompletionStarts ==
  ASSUME Inv, NEW r \in Reqs, TraceReqCompletion(r)
  PROVE  Types' /\ \A q \in Reqs : OwnEntries(q)' /\ HandlerEntries(q)'
<1> USE MaxIOsAssumption DEF Inv
<1>1. handler' \in [Reqs -> Handler]
  <2>1. CASE UNCHANGED handler
    BY <2>1 DEF Types
  <2>2. CASE whobyreq[r] # None /\ control[whobyreq[r]] # 0
             /\ handler' = [handler EXCEPT ![r] =
                  [Idle EXCEPT !.pc = "find_counts", !.pid = whobyreq[r],
                               !.level = control[whobyreq[r]]]]
    <3> DEFINE h == [Idle EXCEPT !.pc = "find_counts", !.pid = whobyreq[r],
                                 !.level = control[whobyreq[r]]]
    <3>1. whobyreq[r] \in Pids /\ control[whobyreq[r]] \in Levels \cup {0} /\ 0 \in 0 .. NSlots
      BY <2>2, SlotsAssumption DEF Types
    <3>2. h \in Handler
      BY <3>1 DEF Handler, Idle
    <3> HIDE DEF h
    <3> QED
      BY <2>2, <3>2 DEF Types, h
  <2> QED
    BY <2>1, <2>2 DEF TraceReqCompletion
<1>2. Types'
  <2>1. stage' \in [Reqs -> {"free", "accounted", "issued", "completing"}]
    BY DEF TraceReqCompletion, Types
  <2>2. abandoned' \in SUBSET Reqs
    BY DEF TraceReqCompletion, Types
  <2>3. whobyreq' \in [Reqs -> Pids \cup {None}]
    BY DEF TraceReqCompletion, Types
  <2>4. start' \in [Reqs -> 0 .. MaxIOs]
    <3>1. start' = start \/ start' = [start EXCEPT ![r] = 0]
      BY DEF TraceReqCompletion, StartWithout
    <3>2. 0 \in 0 .. MaxIOs
      BY MaxIOsAssumption
    <3>3. start \in [Reqs -> 0 .. MaxIOs]
      BY DEF Types
    <3> QED
      BY <3>1, <3>2, <3>3
  <2> QED
    BY <1>1, <2>1, <2>2, <2>3, <2>4 DEF TraceReqCompletion, Types, kernelVars, tableVars, exportVars
<1>3. ASSUME NEW q \in Reqs PROVE OwnEntries(q)' /\ HandlerEntries(q)'
  <2>1. OwnEntries(q) /\ HandlerEntries(q)
    OBVIOUS
  <2>2. CASE q # r
    BY <2>1, <2>2 DEF TraceReqCompletion, Types, OwnEntries, HandlerEntries, StartWithout, kernelVars
  <2>3. CASE q = r
    <3>1. handler[r].pc = "idle"
      BY <2>1, <2>3 DEF TraceReqCompletion, HandlerEntries
    <3>2. CASE whobyreq[r] = None
      BY <2>1, <2>3, <3>1, <3>2
         DEF TraceReqCompletion, Types, OwnEntries, HandlerEntries, StartWithout, kernelVars
    <3>3. CASE whobyreq[r] # None /\ (start[r] = 0 \/ control[whobyreq[r]] = 0)
      BY <2>1, <2>3, <3>1, <3>3
         DEF TraceReqCompletion, Types, OwnEntries, HandlerEntries, kernelVars
    <3>4. CASE whobyreq[r] # None /\ start[r] # 0 /\ control[whobyreq[r]] # 0
      <4>1. start[r] \in IOs
        BY <3>4 DEF Types, IOs
      <4>2. handler'[r].pid = whobyreq[r] /\ whobyreq' = whobyreq /\ start' = start
        <5>1. handler' = [handler EXCEPT ![r] =
                [Idle EXCEPT !.pc = "find_counts", !.pid = whobyreq[r],
                             !.level = control[whobyreq[r]]]]
          BY <3>4 DEF TraceReqCompletion
        <5>2. handler'[r] = [Idle EXCEPT !.pc = "find_counts", !.pid = whobyreq[r],
                                         !.level = control[whobyreq[r]]]
          BY <5>1 DEF Types
        <5> QED
          BY <3>4, <5>2 DEF TraceReqCompletion, Idle
      <4> QED
        BY <2>1, <2>3, <3>4, <4>1, <4>2
           DEF TraceReqCompletion, Types, OwnEntries, HandlerEntries, kernelVars
    <3> QED
      BY <3>2, <3>3, <3>4
  <2> QED
    BY <2>2, <2>3
<1> QED
  BY <1>2, <1>3

(* Looking an element up changes the handler only.                         *)
LEMMA FindStep ==
  ASSUME Inv, NEW r \in Reqs, NEW t \in Tables, Find(r, t)
  PROVE  Types' /\ \A q \in Reqs : OwnEntries(q)' /\ HandlerEntries(q)'
<1> USE DEF Inv
<1>1. handler[r].pid \in Pids /\ handler[r] \in Handler /\ handler[r].pc # "idle"
  BY DEF Find, HandlerEntries, Types
<1>2. handler' \in [Reqs -> Handler]
  <2>1. table[t][handler[r].pid] \in 0 .. NSlots
    BY <1>1 DEF Types
  <2>2. table[t][handler[r].pid] # 0 => element[t][table[t][handler[r].pid]] \in SUBSET Charge
    BY <2>1, SlotsAssumption DEF Types
  <2> QED
    BY <1>1, <2>1, <2>2 DEF Find, Types, Handler
<1>3. Types'
  BY <1>2 DEF Find, Types, kernelVars, tableVars, exportVars
<1>4. ASSUME NEW q \in Reqs PROVE OwnEntries(q)' /\ HandlerEntries(q)'
  <2>1. OwnEntries(q) /\ HandlerEntries(q)
    OBVIOUS
  <2> QED
    BY <1>1, <2>1 DEF Find, Types, Handler, OwnEntries, HandlerEntries, kernelVars
<1> QED
  BY <1>3, <1>4

-----------------------------------------------------------------------------
(* A handler's charge is its own request's I/O, with its own issue time if *)
(* nothing was left on the request.                                        *)
LEMMA NewChargeRight ==
  ASSUME Inv, NEW r \in Reqs, handler[r].pc # "idle"
  PROVE  NewCharge(r) \in Charge /\ Right(NewCharge(r), handler[r].pid)
<1>1. stage[r] = "completing" /\ whobyreq[r] = handler[r].pid /\ handler[r].pid \in Pids
      /\ start[r] \in IOs
  BY DEF Inv, HandlerEntries
<1>2. ioOf[r] \in 1 .. nios /\ ioOf[r] \in IOs
  BY <1>1, MaxIOsAssumption DEF Inv, Types, OwnEntries, IOs
<1>3. ioOf[r] \notin leftover => start[r] = ioOf[r] /\ owner[ioOf[r]] = handler[r].pid
  BY <1>1, NoneAssumption DEF Inv, OwnEntries
<1> QED
  BY <1>1, <1>2, <1>3 DEF NewCharge, Charge, Right

(* A map update gives its key a value of its own and touches no other key. *)
LEMMA InsertTable ==
  ASSUME Types, OneKeyPerElement, NEW t \in Tables, NEW p \in Pids,
         NEW val \in SUBSET Charge, NEW elements \in [1 .. NSlots -> SUBSET Charge],
         Insert(t, p, val, elements)
  PROVE  /\ table' \in [Tables -> [Pids -> 0 .. NSlots]]
         /\ element' \in [Tables -> [1 .. NSlots -> SUBSET Charge]]
         /\ OneKeyPerElement'
         /\ Charges(t, p)' = val
         /\ \A q \in Pids \ {p} : Charges(t, q)' = IF table[t][q] = 0 THEN {} ELSE elements[table[t][q]]
         /\ \A u \in Tables \ {t}, q \in Pids : Charges(u, q)' = Charges(u, q)
<1> DEFINE value(s) == [i \in 1 .. NSlots |->
             IF i = s THEN val ELSE IF i = table[t][p] THEN {} ELSE elements[i]]
<1>1. PICK s \in FreeSlots(t) : table' = [table EXCEPT ![t][p] = s]
                                /\ element' = [element EXCEPT ![t] = value(s)]
  BY DEF Insert
<1>2. s \in 1 .. NSlots /\ s # 0 /\ s \in 0 .. NSlots /\ \A q \in Pids : table[t][q] # s
  BY SlotsAssumption DEF FreeSlots
<1>3. value(s) \in [1 .. NSlots -> SUBSET Charge]
  OBVIOUS
<1>4. /\ table'[t][p] = s
      /\ \A q \in Pids \ {p} : table'[t][q] = table[t][q]
      /\ \A u \in Tables \ {t} : table'[u] = table[u]
  BY <1>1 DEF Types
<1>5. element'[t] = value(s) /\ \A u \in Tables \ {t} : element'[u] = element[u]
  BY <1>1 DEF Types
<1>6. table' \in [Tables -> [Pids -> 0 .. NSlots]]
  BY <1>1, <1>2 DEF Types
<1>7. element' \in [Tables -> [1 .. NSlots -> SUBSET Charge]]
  <2> HIDE DEF value
  <2> QED
    BY <1>1, <1>3 DEF Types
<1>8. OneKeyPerElement'
  BY <1>2, <1>4 DEF OneKeyPerElement
<1>9. Charges(t, p)' = val
  BY <1>2, <1>4, <1>5 DEF Charges
<1>10. ASSUME NEW q \in Pids \ {p}
       PROVE  Charges(t, q)' = IF table[t][q] = 0 THEN {} ELSE elements[table[t][q]]
  <2>1. table'[t][q] = table[t][q] /\ table[t][q] # s /\ table[t][q] \in 0 .. NSlots
    BY <1>2, <1>4 DEF Types
  <2>2. table[t][q] # 0 => table[t][q] # table[t][p] /\ table[t][q] \in 1 .. NSlots
    BY <2>1, SlotsAssumption DEF OneKeyPerElement
  <2> QED
    BY <1>5, <2>1, <2>2 DEF Charges
<1>11. \A u \in Tables \ {t}, q \in Pids : Charges(u, q)' = Charges(u, q)
  BY <1>4, <1>5 DEF Charges
<1> QED
  BY <1>6, <1>7, <1>8, <1>9, <1>10, <1>11

(* What a handler's update does to the charges: if it overlaps nothing, it *)
(* adds the new charge for its own process, and no other.                  *)
LEMMA PutTables ==
  ASSUME Inv, NEW r \in Reqs, NEW t \in Tables, Put(r, t),
         NEW p \in Pids, handler[r].pid = p
  PROVE  /\ table' \in [Tables -> [Pids -> 0 .. NSlots]]
         /\ element' \in [Tables -> [1 .. NSlots -> SUBSET Charge]]
         /\ OneKeyPerElement'
         /\ \A u \in Tables \ {t}, q \in Pids : Charges(u, q)' = Charges(u, q)
         /\ ~Overlaps(r, t) => /\ Charges(t, p)' = Charges(t, p) \cup {NewCharge(r)}
                               /\ \A q \in Pids \ {p} : Charges(t, q)' = Charges(t, q)
<1> DEFINE h == handler[r]
           sum == h.val \cup {NewCharge(r)}
<1>1. h \in Handler /\ h.pid = p /\ h.pc # "idle"
  BY DEF Put, Inv, HandlerEntries, Types
<1>2. NewCharge(r) \in Charge /\ sum \in SUBSET Charge /\ First(r) \in SUBSET Charge
  BY <1>1, NewChargeRight DEF Handler, First
<1>3. Types /\ OneKeyPerElement
  BY DEF Inv
<1>4. element[t] \in [1 .. NSlots -> SUBSET Charge]
  BY <1>3 DEF Types
<1>5. ASSUME h.slot # 0
      PROVE  Store(t, h.slot, sum) \in [1 .. NSlots -> SUBSET Charge]
  BY <1>2, <1>4 DEF Store
<1>6. ASSUME ~Overlaps(r, t), h.slot # 0
      PROVE  /\ table[t][p] = h.slot /\ Charges(t, p) = h.val
             /\ Store(t, h.slot, sum) = [element[t] EXCEPT ![h.slot] = sum]
             /\ \A q \in Pids \ {p} : table[t][q] # h.slot
  <2>1. table[t][p] = h.slot /\ element[t][h.slot] = h.val
    BY <1>6 DEF Overlaps
  <2>2. h.slot \notin FreeSlots(t)
    BY <1>1, <2>1 DEF FreeSlots
  <2>3. \A q \in Pids \ {p} : table[t][q] # h.slot
    BY <1>1, <1>3, <1>6, <2>1 DEF OneKeyPerElement
  <2> QED
    BY <1>6, <2>1, <2>2, <2>3 DEF Charges, Store
<1>7. CASE UNCHANGED <<table, element>> /\ Overlaps(r, t)
  BY <1>3, <1>7 DEF Types, OneKeyPerElement, Charges
\* the element of the process is replaced by another one
<1>8. ASSUME h.slot # 0, Insert(t, p, sum, Store(t, h.slot, sum))
      PROVE  /\ table' \in [Tables -> [Pids -> 0 .. NSlots]]
             /\ element' \in [Tables -> [1 .. NSlots -> SUBSET Charge]]
             /\ OneKeyPerElement'
             /\ \A u \in Tables \ {t}, q \in Pids : Charges(u, q)' = Charges(u, q)
             /\ ~Overlaps(r, t) => /\ Charges(t, p)' = Charges(t, p) \cup {NewCharge(r)}
                                   /\ \A q \in Pids \ {p} : Charges(t, q)' = Charges(t, q)
  <2> DEFINE elements == Store(t, h.slot, sum)
  <2>1. /\ table' \in [Tables -> [Pids -> 0 .. NSlots]]
        /\ element' \in [Tables -> [1 .. NSlots -> SUBSET Charge]]
        /\ OneKeyPerElement'
        /\ Charges(t, p)' = sum
        /\ \A q \in Pids \ {p} :
             Charges(t, q)' = IF table[t][q] = 0 THEN {} ELSE elements[table[t][q]]
        /\ \A u \in Tables \ {t}, q \in Pids : Charges(u, q)' = Charges(u, q)
    <3>1. elements \in [1 .. NSlots -> SUBSET Charge] /\ Insert(t, p, sum, elements)
      BY <1>5, <1>8
    <3> HIDE DEF h, sum, elements
    <3> QED
      BY <1>1, <1>2, <1>3, <3>1, InsertTable
  <2>2. ASSUME ~Overlaps(r, t), NEW q \in Pids \ {p} PROVE Charges(t, q)' = Charges(t, q)
    <3>1. elements = [element[t] EXCEPT ![h.slot] = sum] /\ table[t][q] # h.slot
      BY <1>6, <1>8, <2>2
    <3>2. table[t][q] # 0 => table[t][q] \in 1 .. NSlots
      BY <1>3, SlotsAssumption DEF Types
    <3>3. table[t][q] # 0 => elements[table[t][q]] = element[t][table[t][q]]
      <4> HIDE DEF elements
      <4> QED
        BY <1>4, <3>1, <3>2
    <3>4. Charges(t, q) = IF table[t][q] = 0 THEN {} ELSE element[t][table[t][q]]
      BY DEF Charges
    <3> HIDE DEF elements
    <3> QED
      BY <2>1, <3>3, <3>4
  <2>3. ~Overlaps(r, t) => Charges(t, p) = h.val
    BY <1>6, <1>8
  <2> HIDE DEF elements
  <2> QED
    BY <2>1, <2>2, <2>3
\* a new element, or one that has come up in between is replaced
<1>9. ASSUME h.slot = 0, Insert(t, p, First(r), element[t])
      PROVE  /\ table' \in [Tables -> [Pids -> 0 .. NSlots]]
             /\ element' \in [Tables -> [1 .. NSlots -> SUBSET Charge]]
             /\ OneKeyPerElement'
             /\ \A u \in Tables \ {t}, q \in Pids : Charges(u, q)' = Charges(u, q)
             /\ ~Overlaps(r, t) => /\ Charges(t, p)' = Charges(t, p) \cup {NewCharge(r)}
                                   /\ \A q \in Pids \ {p} : Charges(t, q)' = Charges(t, q)
  <2>1. /\ table' \in [Tables -> [Pids -> 0 .. NSlots]]
        /\ element' \in [Tables -> [1 .. NSlots -> SUBSET Charge]]
        /\ OneKeyPerElement'
        /\ Charges(t, p)' = First(r)
        /\ \A q \in Pids \ {p} :
             Charges(t, q)' = IF table[t][q] = 0 THEN {} ELSE element[t][table[t][q]]
        /\ \A u \in Tables \ {t}, q \in Pids : Charges(u, q)' = Charges(u, q)
    <3> HIDE DEF h
    <3> QED
      BY <1>1, <1>2, <1>3, <1>4, <1>9, InsertTable
  <2>2. ~Overlaps(r, t) => Charges(t, p) = {}
    BY <1>1, <1>9 DEF Overlaps, Charges
  <2> QED
    BY <2>1, <2>2 DEF Charges, First
\* a counter is incremented in place
<1>10. ASSUME h.slot # 0, UNCHANGED table,
              element' = [element EXCEPT ![t] = Store(t, h.slot, sum)]
       PROVE  /\ table' \in [Tables -> [Pids -> 0 .. NSlots]]
              /\ element' \in [Tables -> [1 .. NSlots -> SUBSET Charge]]
              /\ OneKeyPerElement'
              /\ \A u \in Tables \ {t}, q \in Pids : Charges(u, q)' = Charges(u, q)
              /\ ~Overlaps(r, t) => /\ Charges(t, p)' = Charges(t, p) \cup {NewCharge(r)}
                                    /\ \A q \in Pids \ {p} : Charges(t, q)' = Charges(t, q)
  <2> DEFINE elements == Store(t, h.slot, sum)
  <2>1. elements \in [1 .. NSlots -> SUBSET Charge]
    BY <1>5, <1>10
  <2>2. element'[t] = elements /\ \A u \in Tables \ {t} : element'[u] = element[u]
    BY <1>3, <1>10 DEF Types
  <2>3. element' \in [Tables -> [1 .. NSlots -> SUBSET Charge]]
    <3> HIDE DEF elements
    <3>1. element' = [element EXCEPT ![t] = elements]
      BY <1>10 DEF elements
    <3> QED
      BY <1>3, <2>1, <3>1 DEF Types
  <2>4. ASSUME ~Overlaps(r, t)
        PROVE  /\ Charges(t, p)' = Charges(t, p) \cup {NewCharge(r)}
               /\ \A q \in Pids \ {p} : Charges(t, q)' = Charges(t, q)
    <3>1. /\ elements = [element[t] EXCEPT ![h.slot] = sum]
          /\ table[t][p] = h.slot /\ Charges(t, p) = h.val
          /\ \A q \in Pids \ {p} : table[t][q] # h.slot
      BY <1>6, <1>10, <2>4
    <3>2. \A q \in Pids : table[t][q] # 0 => table[t][q] \in 1 .. NSlots
      BY <1>3, SlotsAssumption DEF Types
    <3>3. h.slot \in 1 .. NSlots
      BY <1>1, <1>10, <3>1, <3>2
    <3> HIDE DEF elements
    <3>4. elements[h.slot] = sum /\ \A s \in 1 .. NSlots : s # h.slot => elements[s] = element[t][s]
      BY <1>4, <3>1, <3>3
    <3>5. Charges(t, p)' = sum
      BY <1>10, <2>2, <3>1, <3>4 DEF Charges
    <3>6. \A q \in Pids \ {p} : Charges(t, q)' = Charges(t, q)
      BY <1>10, <2>2, <3>1, <3>2, <3>4 DEF Charges
    <3> QED
      BY <3>1, <3>5, <3>6
  <2>5. table' \in [Tables -> [Pids -> 0 .. NSlots]] /\ OneKeyPerElement'
    BY <1>3, <1>10 DEF Types, OneKeyPerElement
  <2>6. \A u \in Tables \ {t}, q \in Pids : Charges(u, q)' = Charges(u, q)
    <3> HIDE DEF elements
    <3> QED
      BY <1>10, <2>2 DEF Charges
  <2> QED
    BY <2>3, <2>4, <2>5, <2>6
<1>11. \/ UNCHANGED <<table, element>> /\ Overlaps(r, t)
       \/ h.slot # 0 /\ Insert(t, p, sum, Store(t, h.slot, sum))
       \/ h.slot = 0 /\ Insert(t, p, First(r), element[t])
       \/ h.slot # 0 /\ UNCHANGED table /\ element' = [element EXCEPT ![t] = Store(t, h.slot, sum)]
  BY <1>1 DEF Put, PutCounts, PutDist, Tables, Overlaps
<1> HIDE DEF h, sum
<1> QED
  BY <1>7, <1>8, <1>9, <1>10, <1>11 DEF h

(* A handler's update and the requests' entries: they stay while it goes   *)
(* on with dist, and go with it.                                           *)
LEMMA PutEntries ==
  ASSUME Inv, NEW r \in Reqs, NEW t \in Tables, Put(r, t)
  PROVE  Types' /\ \A q \in Reqs : OwnEntries(q)' /\ HandlerEntries(q)'
<1> DEFINE h == handler[r]
<1>1. h \in Handler /\ h.pc # "idle" /\ h.pid \in Pids /\ stage[r] = "completing"
  BY DEF Put, Inv, HandlerEntries, Types
<1>2. table' \in [Tables -> [Pids -> 0 .. NSlots]] /\ element' \in [Tables -> [1 .. NSlots -> SUBSET Charge]]
  BY <1>1, PutTables
<1>3. overlap' \in [Tables -> BOOLEAN]
  BY DEF Put, Inv, Types
<1>4. UNCHANGED <<kernelVars, control, exportVars>>
  BY DEF Put
<1>5. CASE /\ handler' = [handler EXCEPT ![r] = [h EXCEPT !.pc = "find_dist", !.slot = 0, !.val = {}]]
           /\ UNCHANGED <<abandoned, stage, whobyreq, start>>
  <2>1. [h EXCEPT !.pc = "find_dist", !.slot = 0, !.val = {}] \in Handler
    <3>1. h \in Handler /\ 0 \in 0 .. NSlots
      BY <1>1, SlotsAssumption
    <3> HIDE DEF h
    <3> QED
      BY <3>1 DEF Handler
  <2>2. handler' \in [Reqs -> Handler]
    <3> HIDE DEF h
    <3> QED
      BY <1>5, <2>1 DEF Inv, Types, h
  <2>3. Types'
    BY <1>2, <1>3, <1>4, <1>5, <2>2 DEF Inv, Types, kernelVars, exportVars
  <2>4. ASSUME NEW q \in Reqs PROVE OwnEntries(q)' /\ HandlerEntries(q)'
    <3>1. OwnEntries(q)'
      BY <1>4, <1>5 DEF Inv, OwnEntries, kernelVars
    <3>2. handler'[q].pid = handler[q].pid /\ (handler'[q].pc # "idle" => handler[q].pc # "idle")
      BY <1>1, <1>5 DEF Inv, Types, Handler
    <3> QED
      BY <1>5, <3>1, <3>2 DEF Inv, HandlerEntries
  <2> QED
    BY <2>3, <2>4
<1>6. CASE Done(r)
  <2>1. Idle \in Handler
    BY SlotsAssumption DEF Idle, Handler
  <2>2. handler' \in [Reqs -> Handler]
    BY <1>6, <2>1 DEF Done, Inv, Types
  <2>3. start' \in [Reqs -> 0 .. MaxIOs]
    BY <1>6, MaxIOsAssumption DEF Done, Inv, Types
  <2>4. Types'
    BY <1>2, <1>3, <1>4, <1>6, <2>2, <2>3 DEF Done, Inv, Types, kernelVars, exportVars
  <2>5. ASSUME NEW q \in Reqs PROVE OwnEntries(q)' /\ HandlerEntries(q)'
    <3>1. OwnEntries(q) /\ HandlerEntries(q)
      BY DEF Inv
    <3>2. CASE q = r
      BY <1>6, <3>2 DEF Done, Inv, Types, OwnEntries, HandlerEntries, Idle
    <3>3. CASE q # r
      BY <1>4, <1>6, <3>1, <3>3 DEF Done, Inv, Types, OwnEntries, HandlerEntries, kernelVars
    <3> QED
      BY <3>2, <3>3
  <2> QED
    BY <2>4, <2>5
<1> QED
  BY <1>5, <1>6 DEF Put

-----------------------------------------------------------------------------
(* Steps that add no charge keep the charges right: an I/O's process is    *)
(* settled when the I/O starts.                                            *)
LEMMA ChargesStayRight ==
  ASSUME Inv, UNCHANGED overlap,
         \A t \in Tables, p \in Pids : Charges(t, p)' \subseteq Charges(t, p),
         \/ UNCHANGED <<nios, owner, leftover>>
         \/ \E r \in Reqs, p \in Pids : TracePidStart(r, p)
  PROVE  \A t \in Tables : ChargesRight(t)'
<1>1. \A c, p : Right(c, p) => Right(c, p)'
  <2>1. CASE UNCHANGED <<nios, owner, leftover>>
    BY <2>1 DEF Right
  <2>2. ASSUME NEW r \in Reqs, NEW q \in Pids, TracePidStart(r, q)
        PROVE  \A c, p : Right(c, p) => Right(c, p)'
    <3>1. /\ nios' = nios + 1 /\ nios \in Nat
          /\ \A i \in 1 .. nios : owner'[i] = owner[i] /\ (i \in leftover' => i \in leftover)
      BY <2>2, MaxIOsAssumption DEF TracePidStart, Inv, Types, IOs
    <3>2. \A i \in 1 .. nios : i \in leftover => i \in leftover'
      BY <2>2 DEF TracePidStart
    <3>3. \A i \in 1 .. nios : i \in 1 .. nios'
      BY <3>1
    <3> QED
      BY <3>1, <3>2, <3>3 DEF Right
  <2> QED
    BY <2>1, <2>2
<1> QED
  BY <1>1 DEF Inv, ChargesRight

(* Every step preserves the invariant.                                     *)
LEMMA NextInv == Inv /\ [Next]_vars => Inv'
<1> SUFFICES ASSUME Inv, [Next]_vars PROVE Inv'
  OBVIOUS
\* steps that leave the tables alone, and what is known of the I/Os
<1>1. ASSUME UNCHANGED tableVars, UNCHANGED <<nios, owner, leftover>>
      PROVE  OneKeyPerElement' /\ \A t \in Tables : ChargesRight(t)'
  <2>1. OneKeyPerElement'
    BY <1>1 DEF Inv, OneKeyPerElement, tableVars
  <2>2. UNCHANGED overlap /\ \A t \in Tables, p \in Pids : Charges(t, p)' \subseteq Charges(t, p)
    BY <1>1 DEF Charges, tableVars
  <2> QED
    BY <1>1, <2>1, <2>2, ChargesStayRight
\* steps that leave the requests and their handlers alone as well
<1>2. ASSUME UNCHANGED <<kernelVars, reqVars>>
      PROVE  \A r \in Reqs : OwnEntries(r)' /\ HandlerEntries(r)'
  BY <1>2 DEF Inv, OwnEntries, HandlerEntries, kernelVars, reqVars
<1>3. ASSUME NEW r \in Reqs, NEW p \in Pids, TracePidStart(r, p) PROVE Inv'
  <2>1. OneKeyPerElement' /\ UNCHANGED overlap
        /\ \A t \in Tables, q \in Pids : Charges(t, q)' \subseteq Charges(t, q)
    BY <1>3 DEF TracePidStart, tableVars, Charges, Inv, OneKeyPerElement
  <2>2. \A t \in Tables : ChargesRight(t)'
    BY <1>3, <2>1, ChargesStayRight
  <2> QED
    BY <1>3, <2>1, <2>2, StartProbes DEF Inv
<1>4. ASSUME NEW r \in Reqs, TraceReqStart(r) PROVE Inv'
  <2>1. UNCHANGED tableVars /\ UNCHANGED <<nios, owner, leftover>>
    BY <1>4 DEF TraceReqStart, kernelVars
  <2>2. Types' /\ \A q \in Reqs : OwnEntries(q)' /\ HandlerEntries(q)'
    BY <1>4, StartProbes
  <2> QED
    BY <1>1, <2>1, <2>2 DEF Inv
<1>5. ASSUME NEW r \in Reqs, TraceReqCompletion(r) PROVE Inv'
  <2>1. UNCHANGED tableVars /\ UNCHANGED <<nios, owner, leftover>>
    BY <1>5 DEF TraceReqCompletion, kernelVars
  <2> QED
    BY <1>1, <1>5, <2>1, CompletionStarts DEF Inv
<1>6. ASSUME NEW r \in Reqs, NEW t \in Tables, Find(r, t) PROVE Inv'
  <2>1. UNCHANGED tableVars /\ UNCHANGED <<nios, owner, leftover>>
    BY <1>6 DEF Find, kernelVars
  <2> QED
    BY <1>1, <1>6, <2>1, FindStep DEF Inv
<1>7. ASSUME NEW r \in Reqs, NEW t \in Tables, Put(r, t) PROVE Inv'
  <2>1. Types' /\ \A q \in Reqs : OwnEntries(q)' /\ HandlerEntries(q)'
    BY <1>7, PutEntries
  <2>2. PICK p \in Pids : handler[r].pid = p /\ Right(NewCharge(r), p)
    <3>1. handler[r].pc # "idle"
      BY <1>7 DEF Put
    <3> QED
      BY <3>1, NewChargeRight DEF Inv, HandlerEntries
  <2>3. /\ OneKeyPerElement'
        /\ \A u \in Tables \ {t}, q \in Pids : Charges(u, q)' = Charges(u, q)
        /\ ~Overlaps(r, t) => /\ Charges(t, p)' = Charges(t, p) \cup {NewCharge(r)}
                              /\ \A q \in Pids \ {p} : Charges(t, q)' = Charges(t, q)
    BY <1>7, <2>2, PutTables
  <2>4. \A c, q : Right(c, q) => Right(c, q)'
    BY <1>7 DEF Put, Right, kernelVars
  <2>5. ASSUME NEW u \in Tables PROVE ChargesRight(u)'
    <3>1. overlap'[u] = (overlap[u] \/ (u = t /\ Overlaps(r, t)))
      BY <1>7 DEF Put, Inv, Types
    <3>2. ChargesRight(u)
      BY DEF Inv
    <3>3. CASE u = t
      BY <2>2, <2>3, <2>4, <3>1, <3>2, <3>3 DEF ChargesRight
    <3>4. CASE u # t
      BY <2>3, <2>4, <3>1, <3>2, <3>4 DEF ChargesRight
    <3> QED
      BY <3>3, <3>4
  <2> QED
    BY <2>1, <2>3, <2>5 DEF Inv
<1>8. ASSUME NEW p \in Pids, NEW level \in Levels \cup {0}, SetControl(p, level) PROVE Inv'
  <2>1. Types'
    BY <1>8 DEF SetControl, Inv, Types, kernelVars, reqVars, tableVars, exportVars
  <2>2. UNCHANGED <<kernelVars, reqVars>> /\ UNCHANGED tableVars /\ UNCHANGED <<nios, owner, leftover>>
    BY <1>8 DEF SetControl, kernelVars
  <2> QED
    BY <1>1, <1>2, <2>1, <2>2 DEF Inv
<1>9. ASSUME ExportBegin \/ (\E t \in Tables : ExportEnd(t))
             \/ (\E t \in Tables, p \in Pids : ExportRead(t, p))
      PROVE  Inv'
  <2>1. /\ exporter' \in [pc : {"wait", "between"} \cup Tables, key : Pids \cup {None}, read : BOOLEAN]
        /\ exporter'.read => exporter'.key \in Pids
    <3>1. CASE ExportBegin
      BY <3>1 DEF ExportBegin, Tables
    <3>2. CASE \E t \in Tables : ExportEnd(t)
      BY <3>2 DEF ExportEnd, Tables
    <3>3. ASSUME NEW t \in Tables, NEW p \in Pids, ExportRead(t, p)
          PROVE  exporter' = [pc |-> exporter.pc, key |-> p, read |-> TRUE]
      BY <3>3 DEF ExportRead, Inv, Types
    <3>4. exporter.pc \in {"wait", "between"} \cup Tables
      <4>1. exporter \in [pc : {"wait", "between"} \cup Tables, key : Pids \cup {None}, read : BOOLEAN]
        BY DEF Inv, Types
      <4> QED
        BY <4>1
    <3>5. CASE \E t \in Tables, p \in Pids : ExportRead(t, p)
      <4>1. PICK p \in Pids : exporter' = [pc |-> exporter.pc, key |-> p, read |-> TRUE]
        BY <3>3, <3>5
      <4> QED
        BY <3>4, <4>1
    <3> QED
      BY <1>9, <3>1, <3>2, <3>5
  <2>2. UNCHANGED <<kernelVars, reqVars, control, tableVars>>
    BY <1>9 DEF ExportBegin, ExportEnd, ExportRead
  <2>3. Types'
    BY <2>1, <2>2 DEF Inv, Types, kernelVars, reqVars, tableVars
  <2>4. UNCHANGED <<kernelVars, reqVars>> /\ UNCHANGED tableVars /\ UNCHANGED <<nios, owner, leftover>>
    BY <2>2 DEF kernelVars
  <2> QED
    BY <1>1, <1>2, <2>3, <2>4 DEF Inv
<1>10. ASSUME NEW t \in Tables, ExportDelete(t) PROVE Inv'
  <2> DEFINE k == exporter.key
             kept == [s \in 1 .. NSlots |->
                        IF s \in {table'[t][p] : p \in Pids} THEN element[t][s] ELSE {}]
  <2>1. /\ exporter.read /\ k \in Pids /\ Types
        /\ table' = [table EXCEPT ![t][k] = 0]
        /\ element' = [element EXCEPT ![t] = kept]
    <3>1. exporter.read /\ k \in Pids /\ Types
      BY <1>10 DEF ExportDelete, Inv, Types
    <3>2. table' = [table EXCEPT ![t][k] = 0]
      BY <1>10 DEF ExportDelete, TableWithout
    <3>3. element' = [element EXCEPT ![t] = kept]
      BY <1>10 DEF ExportDelete, Inv, Types
    <3> QED
      BY <3>1, <3>2, <3>3
  <2>2. kept \in [1 .. NSlots -> SUBSET Charge] /\ \A s \in 1 .. NSlots : kept[s] \subseteq element[t][s]
    <3>1. element[t] \in [1 .. NSlots -> SUBSET Charge]
      BY <2>1 DEF Types
    <3> QED
      BY <3>1
  <2>3. 0 \in 0 .. NSlots
    BY SlotsAssumption
  <2>4. table' \in [Tables -> [Pids -> 0 .. NSlots]] /\ element' \in [Tables -> [1 .. NSlots -> SUBSET Charge]]
    <3> HIDE DEF kept, k
    <3> QED
      BY <2>1, <2>2, <2>3 DEF Types
  <2>5. /\ \A u \in Tables, q \in Pids : table'[u][q] = table[u][q] \/ table'[u][q] = 0
        /\ \A u \in Tables, s \in 1 .. NSlots : element'[u][s] \subseteq element[u][s]
    <3> HIDE DEF kept, k
    <3> QED
      BY <2>1, <2>2 DEF Types
  <2>6. exporter' \in [pc : {"wait", "between"} \cup Tables, key : Pids \cup {None}, read : BOOLEAN]
        /\ ~exporter'.read
    BY <1>10 DEF ExportDelete, Inv, Types
  <2>7. UNCHANGED <<kernelVars, reqVars, control, charged, overlap, exported>>
    BY <1>10 DEF ExportDelete
  <2>8. Types'
    BY <2>4, <2>6, <2>7 DEF Inv, Types, kernelVars, reqVars
  <2>9. OneKeyPerElement'
    BY <2>5 DEF Inv, OneKeyPerElement
  <2>10. ASSUME NEW u \in Tables, NEW q \in Pids PROVE Charges(u, q)' \subseteq Charges(u, q)
    <3>1. table[u][q] # 0 => table[u][q] \in 1 .. NSlots
      BY <2>1, SlotsAssumption DEF Types
    <3> QED
      BY <2>5, <3>1 DEF Charges
  <2>11. \A u \in Tables : ChargesRight(u)'
    BY <2>7, <2>10, ChargesStayRight DEF kernelVars
  <2> QED
    BY <1>2, <2>7, <2>8, <2>9, <2>11 DEF Inv
<1>11. CASE UNCHANGED vars
  <2>1. UNCHANGED <<kernelVars, reqVars>> /\ UNCHANGED tableVars /\ UNCHANGED <<nios, owner, leftover>>
        /\ UNCHANGED control /\ UNCHANGED exportVars
    BY <1>11 DEF vars, kernelVars
  <2>2. Types'
    BY <2>1 DEF Inv, Types, kernelVars, reqVars, tableVars, exportVars
  <2> QED
    BY <1>1, <1>2, <2>1, <2>2 DEF Inv
<1> QED
  BY <1>3, <1>4, <1>5, <1>6, <1>7, <1>8, <1>9, <1>10, <1>11 DEF Next

(* biostat.c charges an I/O's own latency to the process it was done for,  *)
(* in counts and in dist, whatever the exporter and the other handlers do, *)
(* as long as no update of the table has overlapped another.               *)
THEOREM ChargesBelong == Spec => []ChargedToOwner
<1>1. Inv => ChargedToOwner
  BY DEF Inv, ChargedToOwner, ChargesRight, Right
<1> QED
  BY <1>1, InitInv, NextInv, PTL DEF Spec

-----------------------------------------------------------------------------
(* The count.  An I/O is charged once, by the one request that carries it, *)
(* so that a charge is never in two processes' elements.                   *)

\* the exporter has read p's element, and has not deleted it
ReadOf(t, p) == exporter.pc = t /\ exporter.read /\ exporter.key = p

\* the I/O that request r carries has yet to be charged in t
Ahead(r, t) == stage[r] # "free" /\ (t = "dist" \/ handler[r].pc \notin {"find_dist", "put_dist"})

\* types of what counts; a key is read in the iteration of a table
CTypes ==
  /\ exported \in [Tables -> [IOs -> Nat]]
  /\ charged \in [Tables -> SUBSET IOs]
  /\ exporter.read => exporter.pc \in Tables

\* an I/O is carried by one request, and is charged when it comes to it
OneIOs ==
  /\ \A r \in Reqs : ioOf[r] \in 0 .. nios
  /\ \A r, q \in Reqs : ioOf[r] = ioOf[q] => r = q \/ ioOf[r] = 0
  /\ \A t \in Tables : charged[t] \subseteq 1 .. nios
  /\ \A r \in Reqs, t \in Tables : Ahead(r, t) => ioOf[r] \notin charged[t]

\* what is charged in t is exported or in one process's element, and both only
\* when the element has been read and not deleted
Counted(t) ==
  /\ \A i \in IOs : exported[t][i] \in {0, 1} /\ (i \notin charged[t] => exported[t][i] = 0)
  /\ \A p \in Pids : \A c \in Charges(t, p) :
       c.io \in charged[t] /\ exported[t][c.io] = IF ReadOf(t, p) THEN 1 ELSE 0
  /\ \A p, q \in Pids : \A c \in Charges(t, p), d \in Charges(t, q) : c.io = d.io => p = q
  /\ \A i \in charged[t] : exported[t][i] = 1 \/ \E p \in Pids : ChargedIn(Charges(t, p), i)

\* the invariant, with Inv
CInv == CTypes /\ OneIOs /\ \A t \in Tables : ~overlap[t] => Counted(t)
(* Nothing is charged or exported.                                         *)
LEMMA CountStart == Init => CInv
<1> SUFFICES ASSUME Init PROVE CInv
  OBVIOUS
<1>1. CTypes /\ OneIOs
  BY MaxIOsAssumption DEF Init, CTypes, OneIOs, Ahead, Tables
<1>2. \A t \in Tables : Counted(t)
  BY DEF Init, Counted, Charges, Tables
<1> QED
  BY <1>1, <1>2 DEF CInv

(* The requests: a new I/O has a number of its own, and is not charged.    *)
LEMMA CountRequests ==
  ASSUME Inv, CInv, NEW r \in Reqs,
         (\E p \in Pids : TracePidStart(r, p)) \/ TraceReqStart(r) \/ TraceReqCompletion(r)
           \/ \E t \in Tables : Find(r, t)
  PROVE  OneIOs'
<1>1. /\ nios \in Nat /\ ioOf \in [Reqs -> 0 .. MaxIOs] /\ UNCHANGED charged
      /\ stage \in [Reqs -> {"free", "accounted", "issued", "completing"}]
      /\ handler \in [Reqs -> Handler]
  <2>1. UNCHANGED charged
    BY DEF TracePidStart, TraceReqStart, TraceReqCompletion, Find, tableVars
  <2> QED
    BY <2>1, MaxIOsAssumption DEF Inv, Types
<1>2. ASSUME NEW p \in Pids, TracePidStart(r, p) PROVE OneIOs'
  <2>1. /\ nios' = nios + 1 /\ ioOf' = [ioOf EXCEPT ![r] = nios + 1] /\ UNCHANGED handler
        /\ stage' = [stage EXCEPT ![r] = "accounted"]
    BY <1>2 DEF TracePidStart
  <2>2. ioOf'[r] = nios + 1 /\ \A q \in Reqs : q # r => ioOf'[q] = ioOf[q] /\ stage'[q] = stage[q]
    BY <1>1, <2>1
  <2>3. \A q \in Reqs : ioOf[q] \in 0 .. nios
    BY DEF CInv, OneIOs
  <2>4. \A q \in Reqs : ioOf'[q] \in 0 .. nios'
    BY <1>1, <2>1, <2>2, <2>3
  <2>5. \A q, s \in Reqs : ioOf'[q] = ioOf'[s] => q = s \/ ioOf'[q] = 0
    BY <1>1, <2>2, <2>3 DEF CInv, OneIOs
  <2>6. \A t \in Tables : charged'[t] \subseteq 1 .. nios' /\ ioOf'[r] \notin charged'[t]
    BY <1>1, <2>1, <2>2 DEF CInv, OneIOs
  <2>7. \A q \in Reqs, t \in Tables : Ahead(q, t)' => ioOf'[q] \notin charged'[t]
    BY <1>1, <2>1, <2>2, <2>6 DEF CInv, OneIOs, Ahead
  <2> QED
    BY <2>4, <2>5, <2>6, <2>7 DEF OneIOs
<1>3. CASE TraceReqStart(r) \/ TraceReqCompletion(r) \/ \E t \in Tables : Find(r, t)
  <2>1. UNCHANGED <<ioOf, nios>>
    BY <1>3 DEF TraceReqStart, TraceReqCompletion, Find, kernelVars
  <2>2. \A q \in Reqs, t \in Tables : Ahead(q, t)' => Ahead(q, t)
    <3> SUFFICES ASSUME NEW q \in Reqs, NEW t \in Tables, Ahead(q, t)' PROVE Ahead(q, t)
      OBVIOUS
    <3>1. CASE TraceReqStart(r)
      BY <1>1, <3>1 DEF TraceReqStart, Ahead
    <3>2. CASE TraceReqCompletion(r)
      <4>1. handler[r].pc = "idle"
        BY <3>2 DEF TraceReqCompletion, Inv, HandlerEntries
      <4> QED
        BY <1>1, <3>2, <4>1 DEF TraceReqCompletion, Ahead
    <3>3. ASSUME NEW u \in Tables, Find(r, u) PROVE Ahead(q, t)
      BY <1>1, <3>3 DEF Find, Ahead, Handler, Tables
    <3> QED
      BY <1>3, <3>1, <3>2, <3>3
  <2> QED
    BY <1>1, <2>1, <2>2 DEF CInv, OneIOs
<1> QED
  BY <1>2, <1>3

(* As long as the tables, the exports and what is charged stay, so does    *)
(* what has been counted.                                                  *)
LEMMA CountsStay ==
  ASSUME CInv, UNCHANGED <<table, element, charged, overlap, exported>>,
         \/ UNCHANGED exporter
         \/ ~exporter.read /\ ~exporter'.read
  PROVE  CTypes' /\ \A t \in Tables : ~overlap'[t] => Counted(t)'
<1>1. CTypes'
  BY DEF CInv, CTypes
<1>2. ASSUME NEW t \in Tables, Counted(t) PROVE Counted(t)'
  <2>1. \A p \in Pids : Charges(t, p)' = Charges(t, p) /\ (ReadOf(t, p)' <=> ReadOf(t, p))
    BY DEF Charges, ReadOf
  <2> QED
    BY <1>2, <2>1 DEF Counted, ChargedIn
<1> QED
  BY <1>1, <1>2 DEF CInv

(* A handler's update: its I/O is charged now, and is in no other place.   *)
LEMMA CountPut ==
  ASSUME Inv, CInv, NEW r \in Reqs, NEW t \in Tables, Put(r, t)
  PROVE  CInv'
<1>. PICK p, i : p = handler[r].pid /\ i = ioOf[r]
  OBVIOUS
<1>1. /\ p \in Pids /\ handler[r] \in Handler /\ stage[r] = "completing"
      /\ handler[r].pc = (IF t = "counts" THEN "find_counts" ELSE "find_dist")
           \/ handler[r].pc = (IF t = "counts" THEN "put_counts" ELSE "put_dist")
      /\ i \in 1 .. nios /\ i \in IOs
  BY MaxIOsAssumption DEF Put, Inv, HandlerEntries, OwnEntries, Types, IOs
<1>2. /\ charged' = [charged EXCEPT ![t] = charged[t] \cup {i}]
      /\ overlap' = [overlap EXCEPT ![t] = overlap[t] \/ Overlaps(r, t)]
      /\ UNCHANGED <<nios, ioOf, exporter, exported>>
  BY DEF Put, kernelVars, exportVars
<1>3. /\ charged'[t] = charged[t] \cup {i}
      /\ \A u \in Tables : u # t => charged'[u] = charged[u] /\ overlap'[u] = overlap[u]
      /\ charged' \in [Tables -> SUBSET IOs]
      /\ ~overlap'[t] => ~overlap[t] /\ ~Overlaps(r, t)
  BY <1>1, <1>2 DEF CInv, CTypes, Inv, Types
<1>4. CTypes'
  BY <1>2, <1>3 DEF CInv, CTypes
<1>5. Ahead(r, t) /\ i \notin charged[t]
  BY <1>1 DEF Ahead, Put, CInv, OneIOs, Tables
<1>6. ~Ahead(r, t)' /\ \A q \in Reqs, u \in Tables : Ahead(q, u)' => Ahead(q, u)
  <2>1. handler \in [Reqs -> Handler] /\ stage \in [Reqs -> {"free", "accounted", "issued", "completing"}]
    BY DEF Inv, Types
  <2>2. CASE Done(r)
    BY <1>1, <2>1, <2>2 DEF Done, Ahead, Idle
  <2>3. CASE ~Done(r)
    <3>1. t = "counts" /\ UNCHANGED stage
      BY <2>3 DEF Put
    <3>2. handler'[r].pc = "find_dist" /\ \A q \in Reqs : q # r => handler'[q] = handler[q]
      <4>1. handler' = [handler EXCEPT ![r] =
                          [handler[r] EXCEPT !.pc = "find_dist", !.slot = 0, !.val = {}]]
        BY <2>3 DEF Put
      <4>2. handler'[r] = [handler[r] EXCEPT !.pc = "find_dist", !.slot = 0, !.val = {}]
        BY <2>1, <4>1
      <4> QED
        BY <1>1, <2>1, <4>1, <4>2 DEF Handler
    <3> QED
      BY <1>1, <3>1, <3>2 DEF Ahead, Tables
  <2> QED
    BY <2>2, <2>3
<1>7. OneIOs'
  <2>1. ASSUME NEW q \in Reqs, NEW u \in Tables, Ahead(q, u)' PROVE ioOf'[q] \notin charged'[u]
    <3>1. ioOf[q] \notin charged[u] /\ ~(q = r /\ u = t)
      BY <1>6, <2>1 DEF CInv, OneIOs
    <3>2. q # r => ioOf[q] # i
      BY <1>1 DEF CInv, OneIOs
    <3> QED
      BY <1>2, <1>3, <3>1, <3>2
  <2> QED
    BY <1>1, <1>2, <1>3, <2>1 DEF CInv, OneIOs
<1>8. /\ \A u \in Tables \ {t}, q \in Pids : Charges(u, q)' = Charges(u, q)
      /\ ~Overlaps(r, t) => /\ Charges(t, p)' = Charges(t, p) \cup {NewCharge(r)}
                            /\ \A q \in Pids \ {p} : Charges(t, q)' = Charges(t, q)
  BY <1>1, PutTables
<1>9. ASSUME NEW u \in Tables \ {t}, Counted(u) PROVE Counted(u)'
  BY <1>2, <1>3, <1>8, <1>9 DEF Counted, ReadOf, ChargedIn
<1>10. ASSUME Counted(t), ~Overlaps(r, t) PROVE Counted(t)'
  <2>1. /\ NewCharge(r).io = i /\ exported[t][i] = 0 /\ ~ReadOf(t, p)
        /\ \A q \in Pids : \A c \in Charges(t, q) : c.io # i
    BY <1>1, <1>5, <1>10 DEF NewCharge, Counted, ReadOf, Overlaps
  <2>2. \A q \in Pids : ReadOf(t, q)' <=> ReadOf(t, q)
    BY <1>2 DEF ReadOf
  <2>3. \A q \in Pids : \A c \in Charges(t, q)' : c \in Charges(t, q) \/ (c = NewCharge(r) /\ q = p)
    BY <1>8, <1>10
  <2>4. \A q \in Pids : \A c \in Charges(t, q) : c \in Charges(t, q)'
    BY <1>8, <1>10
  <2>5. \A q \in Pids : \A c \in Charges(t, q)' :
          c.io \in charged'[t] /\ exported'[t][c.io] = IF ReadOf(t, q)' THEN 1 ELSE 0
    BY <1>2, <1>3, <1>10, <2>1, <2>2, <2>3 DEF Counted
  <2>6. \A q, s \in Pids : \A c \in Charges(t, q)', d \in Charges(t, s)' : c.io = d.io => q = s
    BY <1>10, <2>1, <2>3 DEF Counted
  <2>7. \A j \in charged'[t] : exported'[t][j] = 1 \/ \E q \in Pids : ChargedIn(Charges(t, q)', j)
    <3>1. ChargedIn(Charges(t, p)', i)
      BY <1>8, <1>10, <2>1 DEF ChargedIn
    <3>2. ASSUME NEW j \in charged[t] PROVE exported'[t][j] = 1 \/ \E q \in Pids : ChargedIn(Charges(t, q)', j)
      BY <1>2, <1>10, <2>4 DEF Counted, ChargedIn
    <3> QED
      BY <1>1, <1>3, <3>1, <3>2
  <2>8. \A j \in IOs : exported'[t][j] \in {0, 1} /\ (j \notin charged'[t] => exported'[t][j] = 0)
    BY <1>2, <1>3, <1>10 DEF Counted
  <2> QED
    BY <2>5, <2>6, <2>7, <2>8 DEF Counted, ChargedIn
<1> QED
  BY <1>3, <1>4, <1>7, <1>9, <1>10 DEF CInv


(* The exporter: what it reads is in no export yet, what it deletes is in  *)
(* one.                                                                    *)
LEMMA CountRead ==
  ASSUME Inv, CInv, NEW t \in Tables, NEW p \in Pids, ExportRead(t, p)
  PROVE  CInv'
<1>1. /\ exporter.pc = t /\ ~exporter.read /\ exporter' = [exporter EXCEPT !.key = p, !.read = TRUE]
      /\ UNCHANGED <<nios, ioOf, stage, handler, table, element, charged, overlap>>
      /\ table[t][p] # 0
  BY DEF ExportRead, kernelVars, reqVars, tableVars
<1>2. \A u \in Tables, q \in Pids : ~ReadOf(u, q) /\ (ReadOf(u, q)' <=> u = t /\ q = p)
  BY <1>1 DEF ReadOf, Inv, Types
<1>3. /\ exported \in [Tables -> [IOs -> Nat]]
      /\ exported' = [exported EXCEPT ![t] =
           [i \in IOs |-> exported[t][i] + IF ChargedIn(Charges(t, p), i) THEN 1 ELSE 0]]
  BY <1>1 DEF ExportRead, CInv, CTypes, Charges
<1>4. /\ \A u \in Tables : u # t => exported'[u] = exported[u]
      /\ \A i \in IOs : /\ exported[t][i] \in Nat /\ exported'[t][i] \in Nat
                        /\ exported'[t][i] = IF ChargedIn(Charges(t, p), i) THEN exported[t][i] + 1
                                             ELSE exported[t][i]
      /\ exported' \in [Tables -> [IOs -> Nat]]
  BY <1>3
<1>5. CTypes' /\ OneIOs'
  <2>1. exporter'.read => exporter'.pc \in Tables
    BY <1>1 DEF Inv, Types
  <2> QED
    BY <1>1, <1>4, <2>1 DEF CInv, CTypes, OneIOs, Ahead
<1>6. \A u \in Tables, q \in Pids : Charges(u, q)' = Charges(u, q)
  BY <1>1 DEF Charges
<1>7. ASSUME NEW u \in Tables, u # t, Counted(u) PROVE Counted(u)'
  BY <1>1, <1>2, <1>4, <1>6, <1>7 DEF Counted, ChargedIn
<1>8. ASSUME Counted(t) PROVE Counted(t)'
  <2>1. \A q \in Pids : \A c \in Charges(t, q) :
          c.io \in charged[t] /\ c.io \in IOs /\ exported[t][c.io] = 0
            /\ (ChargedIn(Charges(t, p), c.io) <=> q = p)
    BY <1>2, <1>8 DEF Counted, ChargedIn, CInv, CTypes
  <2>2. ASSUME NEW i \in IOs, ChargedIn(Charges(t, p), i)
        PROVE  exported[t][i] = 0 /\ i \in charged[t]
    BY <2>1, <2>2 DEF ChargedIn
  <2>3. \A i \in IOs : exported'[t][i] \in {0, 1} /\ (i \notin charged'[t] => exported'[t][i] = 0)
    BY <1>1, <1>4, <1>8, <2>2 DEF Counted
  <2>4. \A q \in Pids : \A c \in Charges(t, q)' :
          c.io \in charged'[t] /\ exported'[t][c.io] = IF ReadOf(t, q)' THEN 1 ELSE 0
    BY <1>1, <1>2, <1>4, <1>6, <2>1
  <2>5. \A i \in charged'[t] : exported'[t][i] = 1 \/ \E q \in Pids : ChargedIn(Charges(t, q)', i)
    BY <1>1, <1>4, <1>6, <1>8, <2>2 DEF Counted, CInv, CTypes
  <2>6. \A q, s \in Pids : \A c \in Charges(t, q)', d \in Charges(t, s)' : c.io = d.io => q = s
    BY <1>6, <1>8 DEF Counted
  <2> QED
    BY <2>3, <2>4, <2>5, <2>6 DEF Counted, ChargedIn
<1> QED
  BY <1>1, <1>5, <1>7, <1>8 DEF CInv

(* A deleted element was read: its charges stay counted by their exports.  *)
LEMMA CountDelete ==
  ASSUME Inv, CInv, NEW t \in Tables, ExportDelete(t)
  PROVE  CInv'
<1>. PICK k : k = exporter.key
  OBVIOUS
<1>1. /\ exporter.pc = t /\ exporter.read /\ k \in Pids /\ exporter' = [exporter EXCEPT !.read = FALSE]
      /\ table' = [table EXCEPT ![t][k] = 0]
      /\ UNCHANGED <<nios, ioOf, stage, handler, charged, overlap, exported>>
  BY DEF ExportDelete, TableWithout, kernelVars, reqVars, Inv, Types
<1>2. /\ ~exporter'.read
      /\ \A u \in Tables, q \in Pids : ~ReadOf(u, q)' /\ (ReadOf(u, q) <=> u = t /\ q = k)
  BY <1>1 DEF ReadOf, Inv, Types
<1>3. element' = [element EXCEPT ![t] = [s \in 1 .. NSlots |->
        IF s \in {table'[t][p] : p \in Pids} THEN element[t][s] ELSE {}]]
  BY DEF ExportDelete, Inv, Types
<1>4. /\ table'[t][k] = 0
      /\ \A u \in Tables, q \in Pids : u # t \/ q # k => table'[u][q] = table[u][q]
      /\ \A u \in Tables : u # t => element'[u] = element[u]
      /\ \A s \in 1 .. NSlots : s \in {table'[t][p] : p \in Pids} => element'[t][s] = element[t][s]
  BY <1>1, <1>3 DEF Inv, Types
<1>5. /\ Charges(t, k)' = {}
      /\ \A u \in Tables, q \in Pids : u # t \/ q # k => Charges(u, q)' = Charges(u, q)
  <2>1. ASSUME NEW q \in Pids, q # k, table[t][q] # 0
        PROVE  element'[t][table'[t][q]] = element[t][table[t][q]]
    <3>1. table[t][q] \in 1 .. NSlots /\ table'[t][q] = table[t][q]
      BY <1>4, <2>1, SlotsAssumption DEF Inv, Types
    <3> QED
      BY <1>4, <3>1
  <2> QED
    BY <1>4, <2>1 DEF Charges
<1>6. CTypes' /\ OneIOs'
  BY <1>1, <1>2 DEF CInv, CTypes, OneIOs, Ahead
<1>7. ASSUME NEW u \in Tables, Counted(u) PROVE Counted(u)'
  <2>1. \A q \in Pids : \A c \in Charges(u, q)' :
          c \in Charges(u, q) /\ exported[u][c.io] = 0 /\ ~ReadOf(u, q)'
    BY <1>2, <1>5, <1>7 DEF Counted
  <2>2. \A i \in charged[u] : exported[u][i] = 1 \/ \E q \in Pids : ChargedIn(Charges(u, q)', i)
    <3> SUFFICES ASSUME NEW i \in charged[u], exported[u][i] # 1
                 PROVE  \E q \in Pids : ChargedIn(Charges(u, q)', i)
      OBVIOUS
    <3>1. PICK q \in Pids : ChargedIn(Charges(u, q), i)
      BY <1>7 DEF Counted
    <3>2. ~(u = t /\ q = k)
      BY <1>2, <1>7, <3>1 DEF Counted, ChargedIn
    <3> QED
      BY <1>5, <3>1, <3>2
  <2> QED
    BY <1>1, <1>7, <2>1, <2>2 DEF Counted, ChargedIn
<1> QED
  BY <1>1, <1>6, <1>7 DEF CInv

(* Every step keeps the count.                                             *)
LEMMA CountStep == Inv /\ CInv /\ [Next]_vars => CInv'
<1> SUFFICES ASSUME Inv, CInv, [Next]_vars PROVE CInv'
  OBVIOUS
<1>1. ASSUME NEW r \in Reqs,
             (\E p \in Pids : TracePidStart(r, p)) \/ TraceReqStart(r) \/ TraceReqCompletion(r)
               \/ \E t \in Tables : Find(r, t)
      PROVE  CInv'
  <2>1. UNCHANGED <<table, element, charged, overlap, exported, exporter>>
    BY <1>1 DEF TracePidStart, TraceReqStart, TraceReqCompletion, Find, tableVars, exportVars
  <2> QED
    BY <1>1, <2>1, CountRequests, CountsStay DEF CInv
<1>2. ASSUME UNCHANGED <<nios, ioOf, stage, handler, table, element, charged, overlap, exported>>,
             UNCHANGED exporter \/ (~exporter.read /\ ~exporter'.read)
      PROVE  CInv'
  <2>1. OneIOs'
    BY <1>2 DEF CInv, OneIOs, Ahead
  <2> QED
    BY <1>2, <2>1, CountsStay DEF CInv
<1>3. CASE UNCHANGED vars \/ \E p \in Pids, level \in Levels \cup {0} : SetControl(p, level)
  BY <1>2, <1>3 DEF vars, SetControl, kernelVars, reqVars, tableVars, exportVars
<1>4. CASE ExportBegin \/ \E t \in Tables : ExportEnd(t)
  <2>1. ~exporter.read
    BY <1>4 DEF ExportBegin, ExportEnd, MutexFree, CInv, CTypes, Tables
  <2> QED
    BY <1>2, <1>4, <2>1 DEF ExportBegin, ExportEnd, kernelVars, reqVars, tableVars
<1> QED
  BY <1>1, <1>3, <1>4, CountPut, CountRead, CountDelete DEF Next

(* biostat.c and exportData: every I/O that was charged is in one place,   *)
(* the table or an export, and no other I/O is in any, for any number of   *)
(* CPUs, processes, elements and I/Os, unless an update of an element      *)
(* overlapped another one, or the export, of it.                           *)
THEOREM ChargesCounted == Spec => []CountedOnce
<1>1. Inv /\ CInv => CountedOnce
  <2> SUFFICES ASSUME Inv, CInv, NEW t \in Tables, NEW i \in IOs, ~overlap[t]
               PROVE  Places(t, i) = IF i \in charged[t] THEN 1 ELSE 0
    BY DEF CountedOnce
  <2>1. Counted(t)
    BY DEF CInv
  <2>2. PICK S : S = {p \in Pids : ChargedIn(Charges(t, p), i)
                          /\ ~(exporter.pc = t /\ exporter.read /\ exporter.key = p)}
    OBVIOUS
  <2>3. \A p, q \in S : p = q /\ i \in charged[t] /\ exported[t][i] = 0
    BY <2>1, <2>2 DEF Counted, ChargedIn, ReadOf
  <2>4. S = {} \/ \E p : S = {p}
    BY <2>3
  <2>5. Cardinality(S) = IF S = {} THEN 0 ELSE 1
    BY <2>4, FS_EmptySet, FS_Singleton
  <2>6. exported[t][i] \in {0, 1} /\ Places(t, i) = exported[t][i] + Cardinality(S)
    BY <2>1, <2>2 DEF Counted, Places
  <2>7. CASE S # {}
    BY <2>3, <2>5, <2>6, <2>7
  <2>8. CASE S = {}
    <3>1. i \in charged[t] => exported[t][i] = 1
      BY <2>1, <2>2, <2>8 DEF Counted, ChargedIn, ReadOf
    <3>2. i \notin charged[t] => exported[t][i] = 0
      BY <2>1 DEF Counted
    <3> QED
      BY <2>5, <2>6, <2>8, <3>1, <3>2
  <2> QED
    BY <2>7, <2>8
<1>2. Init => Inv /\ CInv
  BY InitInv, CountStart
<1>3. Inv /\ CInv /\ [Next]_vars => (Inv /\ CInv)'
  BY NextInv, CountStep
<1> QED
  BY <1>1, <1>2, <1>3, PTL DEF Spec
=============================================================================
