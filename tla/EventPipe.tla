----------------------------- MODULE EventPipe -----------------------------
(***************************************************************************)
(* The way of an event from the signal loop of tcpreq or tcpdrop to the    *)
(* database: bufferEvent appends it to a slice under collector.mutex,      *)
(* exportData sends the slice on dataCh, holding the mutex, and goes on    *)
(* with the slice cut to length 0; exporter.Setup's goroutine starts one   *)
(* Export goroutine (influxdb.go) per exporter of the configuration.       *)
(*                                                                         *)
(* A Go slice is an array, shared, and a length.  The length is cut, the   *)
(* array stays the one that has been sent, and what is appended next goes  *)
(* into it while the exporters may still be reading it.                    *)
(*                                                                         *)
(* Events are numbered in the order they are buffered; 0 is a free slot.   *)
(***************************************************************************)
EXTENDS Naturals, Sequences, FiniteSets

CONSTANTS
  Exporters,   \* exporters in the collector's configuration
  ChanCap,     \* capacity of dataCh (2048 in the code)
  MaxEvents    \* bound: events

ASSUME BoundsAssumption == ChanCap \in Nat \ {0} /\ MaxEvents \in Nat

ASSUME ExportersAssumption == IsFiniteSet(Exporters) /\ Exporters # {}

VARIABLES
  nevents,    \* events buffered so far
  arrays,     \* the arrays allocated by append
  buffer,     \* collector.tcpEventBuffer: its array (0: nil) and length
  sending,    \* what exportData, holding the mutex, is about to send; or Nil
  dataCh,     \* info.dataCh
  exports,    \* Export goroutines and the points they have read so far
  written,    \* batches that have been written to a database
  sent,       \* auxiliary: what each batch held when it was sent
  overwritten \* auxiliary: batches of which a slot was overwritten unread

vars == <<nevents, arrays, buffer, sending, dataCh, exports, written, sent, overwritten>>

Events == 1 .. MaxEvents
Batches == 1 .. MaxEvents
Slice == [arr : 0 .. MaxEvents, len : 0 .. MaxEvents]
Nil == [arr |-> 0, len |-> 0]
Message == [id : Batches, arr : Batches, len : Events]
SeqOfEvents == UNION {[1 .. n -> Events] : n \in 0 .. MaxEvents}
Export == [id : Batches, to : Exporters, arr : Batches, len : Events, batch : SeqOfEvents]
Written == [id : Batches, to : Exporters, batch : SeqOfEvents]

(* Type invariant of the event buffer (tcpreq.go), of dataCh (info.go), no *)
(* fuller than its capacity, and of the Export goroutines, which find a    *)
(* point in every slot they read (influxdb.go).                            *)
TypeOK ==
  /\ nevents \in 0 .. MaxEvents
  /\ \A a \in 1 .. Len(arrays) : \A i \in 1 .. Len(arrays[a]) : arrays[a][i] \in 0 .. MaxEvents
  /\ buffer \in Slice /\ buffer.arr <= Len(arrays)
  /\ sending \in Slice /\ (sending # Nil => sending = buffer)
  /\ Len(dataCh) <= ChanCap /\ \A i \in 1 .. Len(dataCh) : dataCh[i] \in Message
  /\ \A x \in exports : x \in Export /\ Len(x.batch) <= x.len
  /\ \A w \in written : w \in Written
  /\ \A k \in 1 .. Len(sent) : sent[k] \in SeqOfEvents
  /\ overwritten \subseteq Batches

Init ==
  /\ nevents = 0
  /\ arrays = <<>>
  /\ buffer = Nil
  /\ sending = Nil
  /\ dataCh = <<>>
  /\ exports = {}
  /\ written = {}
  /\ sent = <<>>
  /\ overwritten = {}

-----------------------------------------------------------------------------
(* Go slices                                                               *)

Cap(s) == IF s.arr = 0 THEN 0 ELSE Len(arrays[s.arr])

Content(s) == [i \in 1 .. s.len |-> arrays[s.arr][i]]

(* append: a full array is copied to one twice as long, an empty slice     *)
(* gets an array of one slot.                                              *)
Grown(s, e) ==
  [i \in 1 .. (IF s.len = 0 THEN 1 ELSE 2 * s.len) |->
     IF i <= s.len THEN arrays[s.arr][i] ELSE IF i = s.len + 1 THEN e ELSE 0]

(* Batches that have the slot at this index of the array still to be read. *)
Unread(a, i) ==
  {m.id : m \in {n \in {dataCh[k] : k \in 1 .. Len(dataCh)} : n.arr = a /\ i <= n.len}}
    \cup {x.id : x \in {y \in exports : y.arr = a /\ i <= y.len /\ i > Len(y.batch)}}

\* the event buffer is not protected while exportData waits for dataCh
MutexIgnored == TRUE

(* collector.mutex is not held by exportData.                              *)
MutexFree == sending = Nil

(* tcpreq.go, bufferEvent: "collector.tcpEventBuffer = append(...)".       *)
BufferEvent ==
  /\ MutexFree
  /\ nevents < MaxEvents
  /\ nevents' = nevents + 1
  /\ IF buffer.len < Cap(buffer)
       THEN /\ arrays' = [arrays EXCEPT ![buffer.arr][buffer.len + 1] = nevents + 1]
            /\ buffer' = [buffer EXCEPT !.len = @ + 1]
            /\ overwritten' = overwritten \cup Unread(buffer.arr, buffer.len + 1)
       ELSE /\ arrays' = Append(arrays, Grown(buffer, nevents + 1))
            /\ buffer' = [arr |-> Len(arrays) + 1, len |-> buffer.len + 1]
            /\ UNCHANGED overwritten
  /\ UNCHANGED <<sending, dataCh, exports, written, sent>>

-----------------------------------------------------------------------------
(* tcpreq.go, exportData: once per period, if there is anything to export. *)
ExportBegin ==
  /\ sending = Nil
  /\ buffer.len > 0
  /\ sending' = buffer
  /\ UNCHANGED <<nevents, arrays, buffer, dataCh, exports, written, sent, overwritten>>

(* tcpreq.go, exportData: "collector.tcpEventBuffer[:0]".                  *)
Cut(s) == [s EXCEPT !.len = 0]

(* tcpreq.go, exportData: the send, which waits while dataCh is full, and  *)
(* the cut; then the mutex is released.                                    *)
ExportSend ==
  /\ sending # Nil
  /\ Len(dataCh) < ChanCap
  /\ dataCh' = Append(dataCh, [id |-> Len(sent) + 1, arr |-> sending.arr, len |-> sending.len])
  /\ sent' = Append(sent, Content(sending))
  /\ buffer' = Cut(buffer)
  /\ sending' = Nil
  /\ UNCHANGED <<nevents, arrays, exports, written, overwritten>>

-----------------------------------------------------------------------------
(* exporter.go, Setup: take one message, start an Export for each exporter.*)
Forward ==
  /\ dataCh # <<>>
  /\ dataCh' = Tail(dataCh)
  /\ LET m == Head(dataCh)
     IN  exports' = exports \cup
           {[id |-> m.id, to |-> x, arr |-> m.arr, len |-> m.len, batch |-> <<>>] : x \in Exporters}
  /\ UNCHANGED <<nevents, arrays, buffer, sending, written, sent, overwritten>>

\* reads on to the end of the array instead of the end of the slice
PointsOfArray(x) == Len(arrays[x.arr])

(* influxdb.go, Export: the points "range data" goes over.                 *)
Points(x) == x.len

(* influxdb.go, Export: the next point of the slice goes into the batch.   *)
ExportPoint(x) ==
  /\ x \in exports
  /\ Len(x.batch) < Points(x)
  /\ exports' = (exports \ {x}) \cup
       {[x EXCEPT !.batch = Append(@, arrays[x.arr][Len(@) + 1])]}
  /\ UNCHANGED <<nevents, arrays, buffer, sending, dataCh, written, sent, overwritten>>

(* influxdb.go, Export: db.client.Write.  An error is logged, no more.     *)
ExportWrite(x) ==
  /\ x \in exports
  /\ Len(x.batch) = Points(x)
  /\ exports' = exports \ {x}
  /\ \/ written' = written \cup {[id |-> x.id, to |-> x.to, batch |-> x.batch]}
     \/ UNCHANGED written
  /\ UNCHANGED <<nevents, arrays, buffer, sending, dataCh, sent, overwritten>>

Next ==
  \/ BufferEvent
  \/ ExportBegin
  \/ ExportSend
  \/ Forward
  \/ \E x \in exports : ExportPoint(x)
  \/ \E x \in exports : ExportWrite(x)

(* The export loop comes round, the exporter and its goroutines run.       *)
Fairness ==
  /\ WF_vars(ExportBegin) /\ WF_vars(ExportSend) /\ WF_vars(Forward)
  /\ \A id \in Batches, to \in Exporters :
       WF_vars(\E x \in exports :
                 x.id = id /\ x.to = to /\ (ExportPoint(x) \/ ExportWrite(x)))

Spec == Init /\ [][Next]_vars /\ Fairness

-----------------------------------------------------------------------------
Consecutive(s, first) == \A i \in 1 .. Len(s) : s[i] = first + i - 1

FirstOf(k) == 1 + (IF k = 1 THEN 0 ELSE sent[k - 1][Len(sent[k - 1])])

(* Up to dataCh every event is there exactly once and in order: the        *)
(* batches sent and what is in the buffer, one after the other, are the    *)
(* events received, although exportData waits for dataCh between taking    *)
(* the slice and cutting it (tcpreq.go, exportData and bufferEvent).       *)
SentInOrder ==
  /\ \A k \in 1 .. Len(sent) : Len(sent[k]) > 0 /\ Consecutive(sent[k], FirstOf(k))
  /\ Consecutive(Content(buffer), FirstOf(Len(sent) + 1))
  /\ nevents + 1 = FirstOf(Len(sent) + 1) + buffer.len

(* What an exporter writes is what was sent, unless a slot of the batch    *)
(* was used again before the exporter read it; and then the slot holds a   *)
(* later event: never a free slot, and never more points than were sent.   *)
WrittenAsSent ==
  \A w \in written :
    /\ Len(w.batch) = Len(sent[w.id])
    /\ \A i \in 1 .. Len(w.batch) :
         IF w.id \in overwritten THEN w.batch[i] >= sent[w.id][i]
                                 ELSE w.batch[i] = sent[w.id][i]

(* However far behind the exporters are, every event gets out of the       *)
(* collector: the mutex that exportData holds at the full dataCh is        *)
(* released in the end.                                                    *)
EveryEventSent ==
  \A e \in Events :
    nevents >= e ~> sent # <<>> /\ sent[Len(sent)][Len(sent[Len(sent)])] >= e

(* README.md: "tcpreq: Trace request by TCP packet for each container.";   *)
(* tcpreq.go, "export the data".  A batch that is written to the database  *)
(* holds the events that were exported.                                    *)
BatchesIntact == \A w \in written : w.batch = sent[w.id]
=============================================================================
