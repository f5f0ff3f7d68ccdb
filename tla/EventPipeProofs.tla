-------------------------- MODULE EventPipeProofs ---------------------------
(***************************************************************************)
(* Proofs that batches are sent in order and without a gap, and that what  *)
(* an exporter writes is what was sent except where a slot was used again, *)
(* for any number of events, exporters and places in dataCh.               *)
(***************************************************************************)
EXTENDS EventPipe, SequenceTheorems, TLAPS

Shape ==
  /\ nevents \in Nat
  /\ arrays \in Seq(Seq(Nat))
  /\ buffer \in [arr : Nat, len : Nat]
  /\ buffer.arr <= Len(arrays) /\ buffer.len <= Cap(buffer)
  /\ sending \in {Nil, buffer} /\ (sending # Nil => buffer.len > 0)
  /\ sent \in Seq(Seq(Nat))
  /\ dataCh \in Seq([id : Nat, arr : Nat, len : Nat])

(* Nothing has been sent that was not received.                            *)
SentReceived == \A k \in 1 .. Len(sent) : \A i \in 1 .. Len(sent[k]) : sent[k][i] <= nevents

(* The event is the i-th of a batch, or a later one if a slot of the batch *)
(* was used again.                                                         *)
Stands(id, i, e) ==
  /\ e \in Nat
  /\ IF id \in overwritten THEN e >= sent[id][i] ELSE e = sent[id][i]

(* A message, or an export: its slice is that of a batch that was sent,    *)
(* and the slots behind the first n have its events.                       *)
Reads(id, arr, len, n) ==
  /\ id \in 1 .. Len(sent)
  /\ arr \in 1 .. Len(arrays)
  /\ len = Len(sent[id]) /\ len <= Len(arrays[arr])
  /\ \A i \in n + 1 .. len : Stands(id, i, arrays[arr][i])

MessagesRead ==
  \A k \in 1 .. Len(dataCh) : Reads(dataCh[k].id, dataCh[k].arr, dataCh[k].len, 0)

Exporting(x) ==
  /\ x \in [id : Nat, to : Exporters, arr : Nat, len : Nat, batch : Seq(Nat)]
  /\ Len(x.batch) <= x.len
  /\ Reads(x.id, x.arr, x.len, Len(x.batch))
  /\ \A i \in 1 .. Len(x.batch) : Stands(x.id, i, x.batch[i])

ExportsRead == \A x \in exports : Exporting(x)

Wrote(w) ==
  /\ w.id \in 1 .. Len(sent)
  /\ Len(w.batch) = Len(sent[w.id])
  /\ \A i \in 1 .. Len(w.batch) : Stands(w.id, i, w.batch[i])

WrittenStands == \A w \in written : Wrote(w)

Inv ==
  /\ Shape
  /\ SentInOrder
  /\ SentReceived
  /\ MessagesRead
  /\ ExportsRead
  /\ WrittenStands

-----------------------------------------------------------------------------
LEMMA Starts == Init => Inv
  <1>. SUFFICES ASSUME Init PROVE Inv
    OBVIOUS
  <1>1. /\ nevents = 0 /\ arrays = <<>> /\ buffer = [arr |-> 0, len |-> 0]
        /\ sending = buffer /\ dataCh = <<>> /\ exports = {} /\ written = {} /\ sent = <<>>
    BY DEF Init, Nil
  <1>2. Shape
    BY <1>1 DEF Shape, Cap, Nil
  <1>3. SentInOrder
    <2>1. FirstOf(Len(sent) + 1) = 1
      BY <1>1 DEF FirstOf
    <2>2. Content(buffer) = <<>>
      BY <1>1 DEF Content
    <2>3. QED BY <1>1, <2>1, <2>2 DEF SentInOrder, Consecutive
  <1>4. SentReceived /\ MessagesRead /\ ExportsRead /\ WrittenStands
    BY <1>1 DEF SentReceived, MessagesRead, ExportsRead, WrittenStands
  <1>5. QED BY <1>2, <1>3, <1>4 DEF Inv

-----------------------------------------------------------------------------
(* Readers when nothing is sent: they stay right as long as an array that  *)
(* is changed in a slot has a later event there, and the batches that have *)
(* still to read the slot are marked.                                      *)
LEMMA StandsOn ==
  ASSUME NEW id, NEW i, NEW e, Stands(id, i, e), sent' = sent, overwritten \subseteq overwritten',
         sent[id][i] \in Nat
  PROVE  Stands(id, i, e)'
  BY DEF Stands

\* slots of arrays keep their events, except one whose readers are marked
SlotsKept ==
  /\ arrays' \in Seq(Seq(Nat))
  /\ Len(arrays) <= Len(arrays')
  /\ \A a \in 1 .. Len(arrays) :
       /\ Len(arrays[a]) <= Len(arrays'[a])
       /\ \A i \in 1 .. Len(arrays[a]) :
            \/ arrays'[a][i] = arrays[a][i]
            \/ arrays'[a][i] = nevents + 1 /\ Unread(a, i) \subseteq overwritten'

LEMMA ReadsOn ==
  ASSUME Shape, SentReceived, sent' = sent, overwritten \subseteq overwritten', SlotsKept,
         NEW id, NEW arr, NEW len \in Nat, NEW n \in Nat, Reads(id, arr, len, n),
         \A i \in n + 1 .. len : id \in Unread(arr, i)
  PROVE  Reads(id, arr, len, n)'
  <1>1. /\ id \in 1 .. Len(sent) /\ arr \in 1 .. Len(arrays)
        /\ len = Len(sent[id]) /\ len <= Len(arrays[arr])
        /\ \A i \in n + 1 .. len : Stands(id, i, arrays[arr][i])
    BY DEF Reads
  <1>2. sent[id] \in Seq(Nat) /\ arrays[arr] \in Seq(Nat)
    BY <1>1 DEF Shape
  <1>3. /\ arr \in 1 .. Len(arrays') /\ arrays'[arr] \in Seq(Nat)
        /\ Len(arrays[arr]) <= Len(arrays'[arr])
    <2>1. arrays \in Seq(Seq(Nat)) /\ arrays' \in Seq(Seq(Nat)) /\ Len(arrays) <= Len(arrays')
      BY DEF Shape, SlotsKept
    <2>2. arr \in 1 .. Len(arrays')
      BY <1>1, <2>1
    <2>3. QED BY <1>1, <2>1, <2>2 DEF SlotsKept
  <1>4. len <= Len(arrays'[arr])
    BY <1>1, <1>2, <1>3
  <1>5. ASSUME NEW i \in n + 1 .. len
        PROVE  Stands(id, i, arrays[arr][i])'
    <2>1. i \in 1 .. Len(arrays[arr]) /\ i \in 1 .. Len(sent[id])
      BY <1>1, <1>2
    <2>2. sent[id][i] \in Nat /\ sent[id][i] <= nevents /\ nevents \in Nat
      <3>1. sent[id][i] \in Nat
        BY <1>2, <2>1
      <3>2. sent[id][i] <= nevents
        BY <1>1, <2>1 DEF SentReceived
      <3>3. QED BY <3>1, <3>2 DEF Shape
    <2>3. CASE arrays'[arr][i] = arrays[arr][i]
      <3>1. Stands(id, i, arrays[arr][i])
        BY <1>1
      <3>2. QED BY <2>2, <2>3, <3>1 DEF Stands
    <2>4. CASE arrays'[arr][i] = nevents + 1 /\ Unread(arr, i) \subseteq overwritten'
      <3>1. id \in overwritten'
        BY <2>4
      <3>2. QED BY <2>2, <2>4, <3>1 DEF Stands
    <2>5. QED BY <1>1, <2>1, <2>3, <2>4 DEF SlotsKept
  <1>6. QED BY <1>1, <1>3, <1>4, <1>5 DEF Reads

(* So do messages on their way, exports and what was written.              *)
LEMMA ReadersStay ==
  ASSUME Inv, sent' = sent, overwritten \subseteq overwritten', SlotsKept,
         dataCh' = dataCh, exports' = exports, written' = written
  PROVE  MessagesRead' /\ ExportsRead' /\ WrittenStands'
  <1>1. Shape /\ SentReceived /\ MessagesRead /\ ExportsRead /\ WrittenStands
    BY DEF Inv
  <1>2. sent \in Seq(Seq(Nat)) /\ dataCh \in Seq([id : Nat, arr : Nat, len : Nat])
    BY <1>1 DEF Shape
  <1>3. ASSUME NEW k \in 1 .. Len(dataCh)
        PROVE  Reads(dataCh[k].id, dataCh[k].arr, dataCh[k].len, 0)'
    <2>1. dataCh[k] \in [id : Nat, arr : Nat, len : Nat]
      BY <1>2, ElementOfSeq, Zenon
    <2>2. PICK id, arr, len \in Nat :
            id = dataCh[k].id /\ arr = dataCh[k].arr /\ len = dataCh[k].len
      BY <2>1
    <2>3. Reads(id, arr, len, 0)
      BY <1>1, <2>2 DEF MessagesRead
    <2>4. \A i \in 0 + 1 .. len : id \in Unread(arr, i)
      BY <2>1, <2>2 DEF Unread
    <2>5. Reads(id, arr, len, 0)'
      BY <1>1, <2>3, <2>4, ReadsOn
    <2>6. QED BY <2>2, <2>5
  <1>4. ASSUME NEW x \in exports
        PROVE  Exporting(x)'
    <2>1. /\ x \in [id : Nat, to : Exporters, arr : Nat, len : Nat, batch : Seq(Nat)]
          /\ Len(x.batch) <= x.len
          /\ Reads(x.id, x.arr, x.len, Len(x.batch))
          /\ \A i \in 1 .. Len(x.batch) : Stands(x.id, i, x.batch[i])
      BY <1>1 DEF ExportsRead, Exporting
    <2>2. /\ Len(x.batch) \in Nat /\ x.len \in Nat
          /\ \A i \in Len(x.batch) + 1 .. x.len : i > Len(x.batch) /\ i <= x.len
      BY <2>1
    <2>3. \A i \in Len(x.batch) + 1 .. x.len : x.id \in Unread(x.arr, i)
      BY <2>2 DEF Unread
    <2>4. Reads(x.id, x.arr, x.len, Len(x.batch))'
      BY <1>1, <2>1, <2>2, <2>3, ReadsOn
    <2>5. ASSUME NEW i \in 1 .. Len(x.batch)
          PROVE  Stands(x.id, i, x.batch[i])'
      <3>1. x.id \in 1 .. Len(sent) /\ x.len = Len(sent[x.id])
        BY <2>1 DEF Reads
      <3>2. sent[x.id] \in Seq(Nat)
        BY <1>2, <3>1
      <3>3. i \in 1 .. Len(sent[x.id])
        BY <2>1, <2>2, <3>1, <3>2
      <3>4. Stands(x.id, i, x.batch[i]) /\ sent[x.id][i] \in Nat
        BY <2>1, <3>2, <3>3
      <3>5. QED BY <3>4, StandsOn
    <2>6. QED BY <2>1, <2>4, <2>5 DEF Exporting
  <1>5. ASSUME NEW w \in written
        PROVE  Wrote(w)'
    <2>1. /\ w.id \in 1 .. Len(sent) /\ Len(w.batch) = Len(sent[w.id])
          /\ \A i \in 1 .. Len(w.batch) : Stands(w.id, i, w.batch[i])
      BY <1>1 DEF WrittenStands, Wrote
    <2>2. sent[w.id] \in Seq(Nat)
      BY <1>2, <2>1
    <2>3. ASSUME NEW i \in 1 .. Len(w.batch)
          PROVE  Stands(w.id, i, w.batch[i])'
      <3>1. Stands(w.id, i, w.batch[i]) /\ sent[w.id][i] \in Nat
        BY <2>1, <2>2
      <3>2. QED BY <3>1, StandsOn
    <2>4. QED BY <2>1, <2>3 DEF Wrote
  <1>6. QED BY <1>3, <1>4, <1>5 DEF MessagesRead, ExportsRead, WrittenStands

(* Nothing about arrays changes.                                           *)
LEMMA SameArrays ==
  ASSUME Shape, arrays' = arrays
  PROVE  SlotsKept
  BY DEF SlotsKept, Shape

(* The event after those that were sent.                                   *)
Fst == FirstOf(Len(sent) + 1)

LEMMA FirstIsNat ==
  ASSUME Inv
  PROVE  Fst \in Nat
  <1>1. sent \in Seq(Seq(Nat)) /\ SentInOrder
    BY DEF Inv, Shape
  <1>2. CASE Len(sent) = 0
    BY <1>2 DEF Fst, FirstOf
  <1>3. CASE Len(sent) # 0
    <2>1. Len(sent) \in 1 .. Len(sent) /\ Len(sent) + 1 # 1 /\ Len(sent) + 1 - 1 = Len(sent)
      BY <1>1, <1>3
    <2>2. sent[Len(sent)] \in Seq(Nat) /\ Len(sent[Len(sent)]) > 0
      BY <1>1, <2>1 DEF SentInOrder
    <2>3. sent[Len(sent)][Len(sent[Len(sent)])] \in Nat
      BY <2>2
    <2>4. QED BY <2>1, <2>3 DEF Fst, FirstOf
  <1>4. QED BY <1>2, <1>3

(* What is in the buffer: the events after those that were sent.           *)
LEMMA BufferHolds ==
  ASSUME Inv
  PROVE  /\ buffer.arr \in Nat /\ buffer.len \in Nat /\ Fst \in Nat
         /\ nevents \in Nat /\ nevents + 1 = Fst + buffer.len
         /\ buffer.len > 0 => /\ buffer.arr \in 1 .. Len(arrays)
                              /\ buffer.len <= Len(arrays[buffer.arr])
         /\ \A i \in 1 .. buffer.len : arrays[buffer.arr][i] = Fst + i - 1
         /\ Content(buffer) \in Seq(Nat) /\ Len(Content(buffer)) = buffer.len
         /\ \A i \in 1 .. buffer.len : Content(buffer)[i] = Fst + i - 1
  <1>1. /\ buffer \in [arr : Nat, len : Nat] /\ arrays \in Seq(Seq(Nat)) /\ nevents \in Nat
        /\ buffer.arr <= Len(arrays) /\ buffer.len <= Cap(buffer) /\ SentInOrder
    BY DEF Inv, Shape
  <1>2. buffer.arr \in Nat /\ buffer.len \in Nat /\ Fst \in Nat
    BY <1>1, FirstIsNat
  <1>3. nevents + 1 = Fst + buffer.len /\ Consecutive(Content(buffer), Fst)
    BY <1>1 DEF SentInOrder, Fst
  <1>4. Len(Content(buffer)) = buffer.len
    BY <1>2 DEF Content
  <1>5. \A i \in 1 .. buffer.len :
          Content(buffer)[i] = Fst + i - 1 /\ arrays[buffer.arr][i] = Fst + i - 1
    BY <1>3, <1>4 DEF Consecutive, Content
  <1>6. Content(buffer) \in Seq(Nat)
    <2>1. \A i \in 1 .. buffer.len : arrays[buffer.arr][i] \in Nat
      BY <1>2, <1>5
    <2>2. QED BY <1>2, <2>1 DEF Content
  <1>7. ASSUME buffer.len > 0
        PROVE  buffer.arr \in 1 .. Len(arrays) /\ buffer.len <= Len(arrays[buffer.arr])
    BY <1>1, <1>2, <1>7 DEF Cap
  <1>8. QED BY <1>1, <1>2, <1>3, <1>4, <1>5, <1>6, <1>7

-----------------------------------------------------------------------------
(* Readers when neither arrays nor what was sent changes.                  *)
LEMMA ReadsKept ==
  ASSUME sent' = sent, arrays' = arrays, overwritten' = overwritten,
         NEW id, NEW arr, NEW len, NEW n, Reads(id, arr, len, n)
  PROVE  Reads(id, arr, len, n)'
  BY DEF Reads, Stands

LEMMA StandsKept ==
  ASSUME sent' = sent, overwritten' = overwritten, NEW id, NEW i, NEW e, Stands(id, i, e)
  PROVE  Stands(id, i, e)'
  BY DEF Stands

\* the part of the invariant about events that were not exported yet
LEMMA EventsKept ==
  ASSUME Inv, UNCHANGED <<nevents, arrays, buffer, sent>>
  PROVE  SentInOrder' /\ SentReceived'
  BY DEF Inv, SentInOrder, SentReceived, Consecutive, Content, FirstOf

LEMMA StutterInv ==
  ASSUME Inv, UNCHANGED vars
  PROVE  Inv'
  <1>1. SentInOrder' /\ SentReceived'
    BY EventsKept DEF vars
  <1>2. Shape'
    BY DEF Inv, Shape, vars, Cap
  <1>3. MessagesRead' /\ ExportsRead' /\ WrittenStands'
    BY SameArrays, ReadersStay DEF Inv, vars
  <1>4. QED BY <1>1, <1>2, <1>3 DEF Inv

LEMMA ExportBeginInv ==
  ASSUME Inv, ExportBegin
  PROVE  Inv'
  <1>1. SentInOrder' /\ SentReceived'
    BY EventsKept DEF ExportBegin
  <1>2. Shape'
    BY DEF Inv, Shape, ExportBegin, Cap
  <1>3. MessagesRead' /\ ExportsRead' /\ WrittenStands'
    BY SameArrays, ReadersStay DEF Inv, ExportBegin
  <1>4. QED BY <1>1, <1>2, <1>3 DEF Inv

-----------------------------------------------------------------------------
(* BufferEvent in an array that has a free slot behind the slice.          *)
LEMMA BufferSpareInv ==
  ASSUME Inv, BufferEvent, buffer.len < Cap(buffer)
  PROVE  Inv'
  <1>. DEFINE a == buffer.arr
              n == buffer.len + 1
  <1>1. /\ sending = Nil /\ nevents' = nevents + 1
        /\ arrays' = [arrays EXCEPT ![a][n] = nevents + 1]
        /\ buffer' = [buffer EXCEPT !.len = @ + 1]
        /\ overwritten' = overwritten \cup Unread(a, n)
        /\ UNCHANGED <<sending, dataCh, exports, written, sent>>
    BY DEF BufferEvent, MutexFree
  <1>2. /\ Shape /\ buffer \in [arr : Nat, len : Nat] /\ arrays \in Seq(Seq(Nat))
        /\ nevents \in Nat /\ sent \in Seq(Seq(Nat)) /\ buffer.arr <= Len(arrays)
    BY DEF Inv, Shape
  <1>3. a \in 1 .. Len(arrays) /\ n \in Nat /\ 1 <= n
    BY <1>2 DEF Cap
  <1>4. arrays[a] \in Seq(Nat) /\ n \in 1 .. Len(arrays[a])
    BY <1>2, <1>3 DEF Cap
  <1>5. arrays' = [arrays EXCEPT ![a] = [arrays[a] EXCEPT ![n] = nevents + 1]]
    BY <1>1
  <1>6. /\ [arrays[a] EXCEPT ![n] = nevents + 1] \in Seq(Nat)
        /\ Len([arrays[a] EXCEPT ![n] = nevents + 1]) = Len(arrays[a])
        /\ [arrays[a] EXCEPT ![n] = nevents + 1][n] = nevents + 1
        /\ \A i \in 1 .. Len(arrays[a]) \ {n} :
             [arrays[a] EXCEPT ![n] = nevents + 1][i] = arrays[a][i]
    BY <1>2, <1>4
  <1>7. /\ arrays' \in Seq(Seq(Nat)) /\ Len(arrays') = Len(arrays)
        /\ Len(arrays'[a]) = Len(arrays[a]) /\ arrays'[a][n] = nevents + 1
        /\ \A i \in 1 .. Len(arrays[a]) \ {n} : arrays'[a][i] = arrays[a][i]
        /\ \A b \in 1 .. Len(arrays) \ {a} : arrays'[b] = arrays[b]
    <2>. DEFINE new == [arrays[a] EXCEPT ![n] = nevents + 1]
    <2>1. arrays' = [arrays EXCEPT ![a] = new]
      BY <1>5
    <2>2. new \in Seq(Nat) /\ Len(new) = Len(arrays[a]) /\ new[n] = nevents + 1
          /\ \A i \in 1 .. Len(arrays[a]) \ {n} : new[i] = arrays[a][i]
      BY <1>6
    <2>. HIDE DEF new
    <2>3. arrays' \in Seq(Seq(Nat)) /\ Len(arrays') = Len(arrays)
      BY <1>2, <1>3, <2>1, <2>2
    <2>4. arrays'[a] = new /\ \A b \in 1 .. Len(arrays) \ {a} : arrays'[b] = arrays[b]
      BY <1>2, <1>3, <2>1
    <2>5. QED BY <2>2, <2>3, <2>4
  <1>8. buffer' \in [arr : Nat, len : Nat] /\ buffer'.arr = a /\ buffer'.len = n
    <2>1. buffer' = [arr |-> buffer.arr, len |-> buffer.len + 1]
      BY <1>1, <1>2
    <2>2. QED BY <1>2, <2>1
  <1>. HIDE DEF a, n
  <1>9. SlotsKept
    <2>1. ASSUME NEW b \in 1 .. Len(arrays), NEW i \in 1 .. Len(arrays[b])
          PROVE  \/ arrays'[b][i] = arrays[b][i]
                 \/ arrays'[b][i] = nevents + 1 /\ Unread(b, i) \subseteq overwritten'
      <3>1. CASE b = a /\ i = n
        BY <1>1, <1>7, <3>1
      <3>2. CASE b = a /\ i # n
        BY <1>7, <3>2
      <3>3. CASE b # a
        BY <1>7, <3>3
      <3>4. QED BY <3>1, <3>2, <3>3
    <2>2. \A b \in 1 .. Len(arrays) : Len(arrays[b]) <= Len(arrays'[b])
      <3>1. \A b \in 1 .. Len(arrays) : Len(arrays[b]) \in Nat
        BY <1>2
      <3>2. ASSUME NEW b \in 1 .. Len(arrays)
            PROVE  Len(arrays'[b]) = Len(arrays[b])
        <4>1. CASE b = a
          BY <1>7, <4>1
        <4>2. CASE b # a
          BY <1>7, <4>2
        <4>3. QED BY <4>1, <4>2
      <3>3. QED BY <3>1, <3>2
    <2>3. Len(arrays) <= Len(arrays')
      BY <1>2, <1>7
    <2>4. QED BY <1>7, <2>1, <2>2, <2>3 DEF SlotsKept
  <1>10. MessagesRead' /\ ExportsRead' /\ WrittenStands'
    BY <1>1, <1>9, ReadersStay
  <1>11. Shape'
    <2>1. Cap(buffer)' = Len(arrays[a])
      BY <1>3, <1>7, <1>8 DEF Cap
    <2>2. buffer'.arr <= Len(arrays') /\ buffer'.len <= Cap(buffer)'
      BY <1>2, <1>3, <1>4, <1>7, <1>8, <2>1
    <2>3. dataCh' \in Seq([id : Nat, arr : Nat, len : Nat])
      BY <1>1, <1>2 DEF Shape
    <2>4. QED BY <1>1, <1>2, <1>7, <1>8, <2>2, <2>3 DEF Shape
  <1>12. SentInOrder'
    <2>1. \A i \in 1 .. n - 1 : arrays[a][i] = Fst + i - 1
      <3>1. n - 1 = buffer.len
        BY BufferHolds DEF n
      <3>2. \A i \in 1 .. buffer.len : arrays[buffer.arr][i] = Fst + i - 1
        BY BufferHolds
      <3> QED
        BY <3>1, <3>2 DEF a
    <2>2. Fst \in Nat /\ nevents + 1 = Fst + n - 1
      BY BufferHolds DEF n
    <2>3. \A i \in 1 .. n : arrays'[a][i] = Fst + i - 1
      <3>1. ASSUME NEW i \in 1 .. n, i # n
            PROVE  arrays'[a][i] = Fst + i - 1
        <4>1. i \in 1 .. Len(arrays[a]) \ {n} /\ i \in 1 .. n - 1
          BY <1>3, <1>4, <3>1
        <4>2. QED BY <1>7, <2>1, <4>1
      <3>2. arrays'[a][n] = Fst + n - 1
        BY <1>2, <1>3, <1>7, <2>2
      <3>3. QED BY <3>1, <3>2
    <2>4. Content(buffer)' = [i \in 1 .. n |-> arrays'[a][i]]
      BY <1>8 DEF Content
    <2>5. Consecutive(Content(buffer)', Fst)
      BY <1>3, <2>3, <2>4 DEF Consecutive
    <2>6. \A k : FirstOf(k)' = FirstOf(k)
      BY <1>1 DEF FirstOf
    <2>7. FirstOf(Len(sent) + 1)' = Fst
      BY <1>1, <2>6 DEF Fst
    <2>8. \A k \in 1 .. Len(sent) : Len(sent[k]) > 0 /\ Consecutive(sent[k], FirstOf(k))
      BY DEF Inv, SentInOrder
    <2>9. nevents' + 1 = Fst + buffer'.len
      BY <1>1, <1>2, <1>3, <1>8, <2>2
    <2>10. QED BY <1>1, <2>5, <2>6, <2>7, <2>8, <2>9 DEF SentInOrder, Consecutive
  <1>13. SentReceived'
    <2>1. ASSUME NEW k \in 1 .. Len(sent), NEW i \in 1 .. Len(sent[k])
          PROVE  sent[k][i] <= nevents + 1
      <3>1. sent[k][i] <= nevents
        BY DEF Inv, SentReceived
      <3>2. sent[k] \in Seq(Nat)
        BY <1>2
      <3>3. sent[k][i] \in Nat
        BY <3>2
      <3>4. QED BY <1>2, <3>1, <3>3
    <2>2. QED BY <1>1, <2>1 DEF SentReceived
  <1>14. QED BY <1>10, <1>11, <1>12, <1>13 DEF Inv

-----------------------------------------------------------------------------
(* BufferEvent when append allocates an array.                             *)
LEMMA BufferGrowInv ==
  ASSUME Inv, BufferEvent, ~(buffer.len < Cap(buffer))
  PROVE  Inv'
  <1>. DEFINE n == buffer.len + 1
              new == Grown(buffer, nevents + 1)
  <1>1. /\ sending = Nil /\ nevents' = nevents + 1
        /\ arrays' = Append(arrays, new)
        /\ buffer' = [arr |-> Len(arrays) + 1, len |-> n]
        /\ UNCHANGED <<overwritten, sending, dataCh, exports, written, sent>>
    BY DEF BufferEvent, MutexFree
  <1>2. /\ Shape /\ buffer \in [arr : Nat, len : Nat] /\ arrays \in Seq(Seq(Nat))
        /\ nevents \in Nat /\ sent \in Seq(Seq(Nat))
    BY DEF Inv, Shape
  <1>3. n \in Nat /\ 1 <= n /\ buffer.len \in Nat /\ n - 1 = buffer.len
    BY <1>2
  <1>4. \A i \in 1 .. buffer.len : arrays[buffer.arr][i] = Fst + i - 1 /\ Fst + i - 1 \in Nat
    <2>1. \A i \in 1 .. buffer.len : arrays[buffer.arr][i] = Fst + i - 1
      BY BufferHolds
    <2>2. Fst \in Nat
      BY BufferHolds
    <2> QED
      BY <1>3, <2>1, <2>2
  <1>5. PICK m \in Nat : m = (IF buffer.len = 0 THEN 1 ELSE 2 * buffer.len) /\ n <= m
    BY <1>3
  <1>6. new = [i \in 1 .. m |-> IF i <= buffer.len THEN arrays[buffer.arr][i]
                                ELSE IF i = buffer.len + 1 THEN nevents + 1 ELSE 0]
    BY <1>5 DEF Grown
  <1>. HIDE DEF new
  <1>7. new \in Seq(Nat) /\ Len(new) = m
    <2>1. \A i \in 1 .. m : (IF i <= buffer.len THEN arrays[buffer.arr][i]
                             ELSE IF i = buffer.len + 1 THEN nevents + 1 ELSE 0) \in Nat
      BY <1>2, <1>3, <1>4
    <2>2. QED BY <1>5, <1>6, <2>1
  <1>8. \A i \in 1 .. n : new[i] = Fst + i - 1
    <2>1. nevents + 1 = Fst + buffer.len /\ Fst \in Nat
      BY BufferHolds
    <2>2. ASSUME NEW i \in 1 .. n
          PROVE  new[i] = Fst + i - 1
      <3>1. i \in 1 .. m
        BY <1>3, <1>5
      <3>2. CASE i <= buffer.len
        BY <1>3, <1>4, <1>6, <3>1, <3>2
      <3>3. CASE ~(i <= buffer.len)
        <4>1. i = buffer.len + 1
          BY <1>3, <3>3
        <4>2. new[i] = nevents + 1
          BY <1>3, <1>6, <3>1, <3>3, <4>1
        <4>3. QED BY <1>3, <2>1, <4>1, <4>2
      <3>4. QED BY <3>2, <3>3
    <2>3. QED BY <2>2
  <1>. HIDE DEF n
  <1>9. /\ arrays' \in Seq(Seq(Nat)) /\ Len(arrays') = Len(arrays) + 1
        /\ \A b \in 1 .. Len(arrays) : arrays'[b] = arrays[b]
        /\ arrays'[Len(arrays) + 1] = new
    BY <1>1, <1>2, <1>7
  <1>10. buffer'.arr = Len(arrays) + 1 /\ buffer'.len = n /\ Len(arrays) \in Nat
    BY <1>1, <1>2
  <1>11. SlotsKept
    <2>1. \A b \in 1 .. Len(arrays) : Len(arrays[b]) \in Nat
      BY <1>2
    <2>2. \A b \in 1 .. Len(arrays) : Len(arrays[b]) <= Len(arrays'[b])
      BY <1>9, <2>1
    <2>3. QED BY <1>9, <1>10, <2>2 DEF SlotsKept
  <1>12. MessagesRead' /\ ExportsRead' /\ WrittenStands'
    BY <1>1, <1>11, ReadersStay
  <1>13. Shape'
    <2>1. Cap(buffer)' = m
      BY <1>7, <1>9, <1>10 DEF Cap
    <2>2. buffer' \in [arr : Nat, len : Nat]
      BY <1>1, <1>3, <1>10
    <2>3. dataCh' \in Seq([id : Nat, arr : Nat, len : Nat])
      BY <1>1, <1>2 DEF Shape
    <2>4. buffer'.arr <= Len(arrays') /\ buffer'.len <= Cap(buffer)'
      BY <1>5, <1>9, <1>10, <2>1
    <2>5. QED BY <1>1, <1>2, <1>9, <2>2, <2>3, <2>4 DEF Shape
  <1>14. SentInOrder'
    <2>1. Content(buffer)' = [i \in 1 .. n |-> new[i]]
      BY <1>9, <1>10 DEF Content
    <2>2. Consecutive(Content(buffer)', Fst)
      BY <1>3, <1>8, <2>1 DEF Consecutive
    <2>3. FirstOf(Len(sent) + 1)' = Fst /\ \A k : FirstOf(k)' = FirstOf(k)
      BY <1>1 DEF FirstOf, Fst
    <2>4. \A k \in 1 .. Len(sent) : Len(sent[k]) > 0 /\ Consecutive(sent[k], FirstOf(k))
      BY DEF Inv, SentInOrder
    <2>5. nevents' + 1 = Fst + buffer'.len
      <3>1. nevents + 1 = Fst + buffer.len /\ Fst \in Nat
        BY BufferHolds
      <3>2. QED BY <1>1, <1>2, <1>3, <1>10, <3>1
    <2>6. QED BY <1>1, <2>2, <2>3, <2>4, <2>5 DEF SentInOrder, Consecutive
  <1>15. SentReceived'
    <2>1. ASSUME NEW k \in 1 .. Len(sent), NEW i \in 1 .. Len(sent[k])
          PROVE  sent[k][i] <= nevents + 1
      <3>1. sent[k][i] <= nevents
        BY DEF Inv, SentReceived
      <3>2. sent[k] \in Seq(Nat)
        BY <1>2
      <3>3. sent[k][i] \in Nat
        BY <3>2
      <3>4. QED BY <1>2, <3>1, <3>3
    <2>2. QED BY <1>1, <2>1 DEF SentReceived
  <1>16. QED BY <1>12, <1>13, <1>14, <1>15 DEF Inv

-----------------------------------------------------------------------------
(* ExportSend: the batch is what was in the buffer.                        *)
LEMMA ExportSendInv ==
  ASSUME Inv, ExportSend
  PROVE  Inv'
  <1>. DEFINE id == Len(sent) + 1
              batch == Content(buffer)
              message == [id |-> id, arr |-> buffer.arr, len |-> buffer.len]
  <1>1. /\ Shape /\ buffer \in [arr : Nat, len : Nat] /\ arrays \in Seq(Seq(Nat))
        /\ nevents \in Nat /\ sent \in Seq(Seq(Nat))
        /\ dataCh \in Seq([id : Nat, arr : Nat, len : Nat])
        /\ sending \in {Nil, buffer} /\ (sending # Nil => buffer.len > 0)
    BY DEF Inv, Shape
  <1>2. sending = buffer /\ buffer.len > 0
    BY <1>1 DEF ExportSend
  <1>3. /\ dataCh' = Append(dataCh, message)
        /\ sent' = Append(sent, batch)
        /\ buffer' = [buffer EXCEPT !.len = 0]
        /\ sending' = Nil
        /\ UNCHANGED <<nevents, arrays, exports, written, overwritten>>
    BY <1>2 DEF ExportSend, Cut
  <1>4. /\ buffer.arr \in 1 .. Len(arrays) /\ buffer.len <= Len(arrays[buffer.arr])
        /\ batch \in Seq(Nat) /\ Len(batch) = buffer.len
        /\ \A i \in 1 .. buffer.len : batch[i] = Fst + i - 1 /\ arrays[buffer.arr][i] = Fst + i - 1
        /\ nevents + 1 = Fst + buffer.len /\ Fst \in Nat /\ buffer.len \in Nat
    BY <1>2, BufferHolds
  <1>5. message \in [id : Nat, arr : Nat, len : Nat]
    BY <1>1, <1>4
  <1>6. buffer' = [arr |-> buffer.arr, len |-> 0]
    BY <1>1, <1>3
  <1>. HIDE DEF batch
  <1>7. /\ sent' \in Seq(Seq(Nat)) /\ Len(sent') = id /\ sent'[id] = batch
        /\ \A k \in 1 .. Len(sent) : sent'[k] = sent[k]
        /\ Len(sent) \in Nat
    BY <1>1, <1>3, <1>4
  <1>8. Shape'
    <2>1. Cap(buffer)' \in Nat
      BY <1>1, <1>3, <1>4, <1>6 DEF Cap
    <2>2. dataCh' \in Seq([id : Nat, arr : Nat, len : Nat])
      BY <1>1, <1>3, <1>5
    <2>3. /\ buffer' \in [arr : Nat, len : Nat]
          /\ buffer'.arr <= Len(arrays') /\ buffer'.len <= Cap(buffer)'
      <3>1. buffer.arr <= Len(arrays) /\ buffer.arr \in Nat
        BY <1>1, <1>4
      <3>2. buffer' \in [arr : Nat, len : Nat] /\ buffer'.arr = buffer.arr /\ buffer'.len = 0
        BY <1>6, <3>1
      <3>3. QED BY <1>3, <2>1, <3>1, <3>2
    <2>4. QED BY <1>1, <1>3, <1>7, <2>2, <2>3 DEF Shape
  <1>9. SentReceived'
    <2>1. ASSUME NEW i \in 1 .. Len(batch)
          PROVE  batch[i] <= nevents
      BY <1>1, <1>4
    <2>2. ASSUME NEW k \in 1 .. Len(sent'), NEW i \in 1 .. Len(sent'[k])
          PROVE  sent'[k][i] <= nevents
      <3>1. CASE k = id
        BY <1>7, <2>1, <3>1
      <3>2. CASE k # id
        <4>1. k \in 1 .. Len(sent) /\ sent'[k] = sent[k]
          BY <1>7, <3>2
        <4>2. QED BY <4>1 DEF Inv, SentReceived
      <3>3. QED BY <3>1, <3>2
    <2>3. QED BY <1>3, <2>2 DEF SentReceived
  <1>10. SentInOrder'
    <2>1. ASSUME NEW k \in 1 .. Len(sent) + 1
          PROVE  FirstOf(k)' = FirstOf(k)
      <3>1. CASE k = 1
        BY <3>1 DEF FirstOf
      <3>2. CASE k # 1
        <4>1. k - 1 \in 1 .. Len(sent)
          BY <1>7, <3>2
        <4>2. sent'[k - 1] = sent[k - 1]
          BY <1>7, <4>1
        <4>3. QED BY <4>2 DEF FirstOf
      <3>3. QED BY <3>1, <3>2
    <2>2. ASSUME NEW k \in 1 .. Len(sent')
          PROVE  Len(sent'[k]) > 0 /\ Consecutive(sent'[k], FirstOf(k)')
      <3>1. CASE k = id
        <4>1. FirstOf(k)' = Fst
          BY <1>7, <2>1, <3>1 DEF Fst
        <4>2. Consecutive(batch, Fst)
          BY <1>4 DEF Consecutive
        <4>3. QED BY <1>2, <1>4, <1>7, <3>1, <4>1, <4>2
      <3>2. CASE k # id
        <4>1. k \in 1 .. Len(sent) /\ sent'[k] = sent[k] /\ FirstOf(k)' = FirstOf(k)
          BY <1>7, <2>1, <3>2
        <4>2. QED BY <4>1 DEF Inv, SentInOrder
      <3>3. QED BY <3>1, <3>2
    <2>3. FirstOf(Len(sent) + 1)' = nevents + 1
      <3>1. Len(sent') + 1 # 1 /\ Len(sent') + 1 - 1 = id
        BY <1>7
      <3>2. FirstOf(Len(sent) + 1)' = 1 + sent'[id][Len(sent'[id])]
        BY <3>1 DEF FirstOf
      <3>3. batch[Len(batch)] = Fst + Len(batch) - 1
        <4>1. Len(batch) \in 1 .. buffer.len
          BY <1>2, <1>4
        <4>2. QED BY <1>4, <4>1
      <3>4. QED BY <1>4, <1>7, <3>2, <3>3
    <2>4. Consecutive(Content(buffer), FirstOf(Len(sent) + 1))'
      <3>1. Content(buffer)' = <<>>
        BY <1>6 DEF Content
      <3>2. QED BY <3>1 DEF Consecutive
    <2>5. nevents' + 1 = FirstOf(Len(sent) + 1)' + buffer'.len
      BY <1>1, <1>3, <1>6, <2>3
    <2>6. QED BY <2>2, <2>4, <2>5 DEF SentInOrder, Consecutive
  <1>. HIDE DEF id
  <1>11. ASSUME NEW d \in 1 .. Len(sent), NEW i, NEW e, Stands(d, i, e)
         PROVE  Stands(d, i, e)'
    BY <1>3, <1>7, <1>11 DEF Stands
  <1>12. ASSUME NEW d, NEW arr, NEW len, NEW k, Reads(d, arr, len, k)
         PROVE  Reads(d, arr, len, k)'
    <2>1. /\ d \in 1 .. Len(sent) /\ arr \in 1 .. Len(arrays)
          /\ len = Len(sent[d]) /\ len <= Len(arrays[arr])
          /\ \A i \in k + 1 .. len : Stands(d, i, arrays[arr][i])
      BY <1>12 DEF Reads
    <2>2. d \in 1 .. Len(sent') /\ sent'[d] = sent[d]
      BY <1>7, <2>1 DEF id
    <2>3. \A i \in k + 1 .. len : Stands(d, i, arrays[arr][i])'
      BY <1>3, <1>11, <2>1
    <2>4. QED BY <1>3, <2>1, <2>2, <2>3 DEF Reads
  <1>13. PICK c \in Nat, arr \in Nat, len \in Nat :
           message = [id |-> c, arr |-> arr, len |-> len]
    <2>1. id \in Nat /\ buffer.arr \in Nat /\ buffer.len \in Nat
      BY <1>1, <1>7 DEF id
    <2>2. \E c \in Nat, arr \in Nat, len \in Nat : c = id /\ arr = buffer.arr /\ len = buffer.len
      BY <2>1
    <2>3. QED BY <2>2
  <1>14. c = id /\ arr = buffer.arr /\ len = buffer.len
    BY <1>13
  <1>15. Reads(c, arr, len, 0)'
    <2>1. ASSUME NEW i \in 0 + 1 .. len
          PROVE  Stands(c, i, arrays[arr][i])'
      <3>1. i \in 1 .. buffer.len
        BY <1>14
      <3>2. arrays[arr][i] = batch[i] /\ arrays[arr][i] \in Nat
        <4>1. batch[i] = Fst + i - 1 /\ arrays[buffer.arr][i] = Fst + i - 1
          BY <1>4, <3>1
        <4>2. Fst + i - 1 \in Nat
          BY <1>4, <3>1
        <4>3. QED BY <1>14, <4>1, <4>2
      <3>3. sent'[c] = batch /\ arrays' = arrays
        BY <1>3, <1>7, <1>14
      <3>4. QED BY <3>2, <3>3 DEF Stands
    <2>2. c \in 1 .. Len(sent') /\ Len(sent'[c]) = len
      BY <1>4, <1>7, <1>14 DEF id
    <2>3. arr \in 1 .. Len(arrays') /\ len <= Len(arrays'[arr])
      BY <1>3, <1>4, <1>14
    <2>4. QED BY <2>1, <2>2, <2>3 DEF Reads
  <1>. HIDE DEF message
  <1>16. MessagesRead'
    <2>1. ASSUME NEW k \in 1 .. Len(dataCh')
          PROVE  Reads(dataCh[k].id, dataCh[k].arr, dataCh[k].len, 0)'
      <3>1. CASE k \in 1 .. Len(dataCh)
        <4>1. dataCh'[k] = dataCh[k]
          BY <1>1, <1>3, <1>5, <3>1
        <4>2. PICK d, a, l : d = dataCh[k].id /\ a = dataCh[k].arr /\ l = dataCh[k].len
          OBVIOUS
        <4>3. Reads(d, a, l, 0)
          BY <3>1, <4>2 DEF Inv, MessagesRead
        <4>4. Reads(d, a, l, 0)'
          BY <1>12, <4>3
        <4>5. QED BY <4>1, <4>2, <4>4
      <3>2. CASE k \notin 1 .. Len(dataCh)
        <4>1. Len(dataCh') = Len(dataCh) + 1 /\ dataCh'[Len(dataCh) + 1] = message
              /\ Len(dataCh) \in Nat
          BY <1>1, <1>3, <1>5
        <4>2. k = Len(dataCh) + 1
          BY <3>2, <4>1
        <4>3. dataCh'[k].id = c /\ dataCh'[k].arr = arr /\ dataCh'[k].len = len
          BY <1>13, <4>1, <4>2
        <4>4. QED BY <1>15, <4>3
      <3>3. QED BY <3>1, <3>2
    <2>2. QED BY <2>1 DEF MessagesRead
  <1>17. ExportsRead'
    <2>1. ASSUME NEW x \in exports
          PROVE  Exporting(x)'
      <3>1. Exporting(x)
        BY DEF Inv, ExportsRead
      <3>2. Reads(x.id, x.arr, x.len, Len(x.batch)) /\ x.id \in 1 .. Len(sent)
        BY <3>1 DEF Exporting, Reads
      <3>3. Reads(x.id, x.arr, x.len, Len(x.batch))'
        BY <1>12, <3>2
      <3>4. \A i \in 1 .. Len(x.batch) : Stands(x.id, i, x.batch[i])'
        BY <1>11, <3>1, <3>2 DEF Exporting
      <3>5. QED BY <3>1, <3>3, <3>4 DEF Exporting
    <2>2. QED BY <1>3, <2>1 DEF ExportsRead
  <1>18. WrittenStands'
    <2>1. ASSUME NEW w \in written
          PROVE  Wrote(w)'
      <3>1. /\ w.id \in 1 .. Len(sent) /\ Len(w.batch) = Len(sent[w.id])
            /\ \A i \in 1 .. Len(w.batch) : Stands(w.id, i, w.batch[i])
        BY DEF Inv, WrittenStands, Wrote
      <3>2. w.id \in 1 .. Len(sent') /\ sent'[w.id] = sent[w.id]
        BY <1>7, <3>1 DEF id
      <3>3. \A i \in 1 .. Len(w.batch) : Stands(w.id, i, w.batch[i])'
        BY <1>11, <3>1
      <3>4. QED BY <3>1, <3>2, <3>3 DEF Wrote
    <2>2. QED BY <1>3, <2>1 DEF WrittenStands
  <1>19. QED BY <1>8, <1>9, <1>10, <1>16, <1>17, <1>18 DEF Inv

-----------------------------------------------------------------------------
(* Forward: the exports start with the slice of the message.               *)
LEMMA ForwardInv ==
  ASSUME Inv, Forward
  PROVE  Inv'
  <1>1. /\ dataCh \in Seq([id : Nat, arr : Nat, len : Nat]) /\ dataCh # <<>>
        /\ dataCh' = Tail(dataCh)
        /\ UNCHANGED <<nevents, arrays, buffer, sending, written, sent, overwritten>>
    BY DEF Inv, Shape, Forward
  <1>2. PICK m \in [id : Nat, arr : Nat, len : Nat] : m = Head(dataCh) /\ m = dataCh[1]
    <2>1. 1 \in 1 .. Len(dataCh) /\ Head(dataCh) = dataCh[1]
      BY <1>1
    <2>2. dataCh[1] \in [id : Nat, arr : Nat, len : Nat]
      BY <1>1, <2>1, ElementOfSeq, Zenon
    <2>3. QED BY <2>1, <2>2, Zenon
  <1>3. exports' = exports \cup
          {[id |-> m.id, to |-> x, arr |-> m.arr, len |-> m.len, batch |-> <<>>] : x \in Exporters}
    BY <1>2 DEF Forward
  <1>4. /\ Len(dataCh) \in Nat /\ 1 \in 1 .. Len(dataCh)
        /\ dataCh' \in Seq([id : Nat, arr : Nat, len : Nat])
        /\ Len(dataCh') = Len(dataCh) - 1
        /\ \A k \in 1 .. Len(dataCh') : dataCh'[k] = dataCh[k + 1] /\ k + 1 \in 1 .. Len(dataCh)
    BY <1>1
  <1>5. Shape'
    BY <1>1, <1>4 DEF Inv, Shape, Cap
  <1>6. SentInOrder' /\ SentReceived'
    BY <1>1, EventsKept
  <1>7. MessagesRead'
    <2>1. ASSUME NEW k \in 1 .. Len(dataCh')
          PROVE  Reads(dataCh[k].id, dataCh[k].arr, dataCh[k].len, 0)'
      <3>1. PICK d, a, l : d = dataCh'[k].id /\ a = dataCh'[k].arr /\ l = dataCh'[k].len
        OBVIOUS
      <3>2. Reads(d, a, l, 0)
        BY <1>4, <3>1 DEF Inv, MessagesRead
      <3>3. Reads(d, a, l, 0)'
        BY <1>1, <3>2, ReadsKept
      <3>4. QED BY <3>1, <3>3
    <2>2. QED BY <2>1 DEF MessagesRead
  <1>8. ExportsRead'
    <2>1. ASSUME NEW x \in exports
          PROVE  Exporting(x)'
      <3>1. Exporting(x)
        BY DEF Inv, ExportsRead
      <3>2. QED BY <1>1, <3>1, ReadsKept, StandsKept DEF Exporting
    <2>2. ASSUME NEW x \in Exporters
          PROVE  Exporting([id |-> m.id, to |-> x, arr |-> m.arr, len |-> m.len, batch |-> <<>>])'
      <3>. DEFINE y == [id |-> m.id, to |-> x, arr |-> m.arr, len |-> m.len, batch |-> <<>>]
      <3>1. Reads(m.id, m.arr, m.len, 0)
        BY <1>2, <1>4 DEF Inv, MessagesRead
      <3>2. Reads(m.id, m.arr, m.len, 0)'
        BY <1>1, <3>1, ReadsKept
      <3>3. /\ y \in [id : Nat, to : Exporters, arr : Nat, len : Nat, batch : Seq(Nat)]
            /\ y.id = m.id /\ y.arr = m.arr /\ y.len = m.len /\ Len(y.batch) = 0
            /\ Len(y.batch) <= y.len
        OBVIOUS
      <3>. HIDE DEF y
      <3>4. Exporting(y)'
        BY <3>2, <3>3 DEF Exporting
      <3>5. QED BY <3>4 DEF y
    <2>3. QED BY <1>3, <2>1, <2>2 DEF ExportsRead
  <1>9. WrittenStands'
    BY <1>1, StandsKept DEF Inv, WrittenStands, Wrote
  <1>10. QED BY <1>5, <1>6, <1>7, <1>8, <1>9 DEF Inv

-----------------------------------------------------------------------------
(* ExportPoint: what the slot holds now is an event that stands.           *)
LEMMA ExportPointInv ==
  ASSUME Inv, NEW x \in exports, ExportPoint(x)
  PROVE  Inv'
  <1>. DEFINE k == Len(x.batch) + 1
              e == arrays[x.arr][k]
              y == [x EXCEPT !.batch = Append(x.batch, e)]
  <1>1. /\ Len(x.batch) < x.len
        /\ exports' = (exports \ {x}) \cup {y}
        /\ UNCHANGED <<nevents, arrays, buffer, sending, dataCh, written, sent, overwritten>>
    BY DEF ExportPoint, Points
  <1>2. /\ x \in [id : Nat, to : Exporters, arr : Nat, len : Nat, batch : Seq(Nat)]
        /\ Reads(x.id, x.arr, x.len, Len(x.batch))
        /\ \A i \in 1 .. Len(x.batch) : Stands(x.id, i, x.batch[i])
    BY DEF Inv, ExportsRead, Exporting
  <1>3. Len(x.batch) \in Nat /\ x.len \in Nat /\ x.batch \in Seq(Nat)
    BY <1>2
  <1>4. Stands(x.id, k, e) /\ e \in Nat
    <2>1. k \in Len(x.batch) + 1 .. x.len
      BY <1>1, <1>3
    <2>2. Stands(x.id, k, e)
      BY <1>2, <2>1 DEF Reads
    <2>3. QED BY <2>2 DEF Stands
  <1>. HIDE DEF e
  <1>5. /\ Append(x.batch, e) \in Seq(Nat) /\ Len(Append(x.batch, e)) = k
        /\ Append(x.batch, e)[k] = e
        /\ \A i \in 1 .. Len(x.batch) : Append(x.batch, e)[i] = x.batch[i]
    BY <1>3, <1>4
  <1>6. /\ y.id = x.id /\ y.arr = x.arr /\ y.len = x.len /\ y.batch = Append(x.batch, e)
        /\ y \in [id : Nat, to : Exporters, arr : Nat, len : Nat, batch : Seq(Nat)]
    BY <1>2, <1>5
  <1>7. PICK z : z = y
    OBVIOUS
  <1>. HIDE DEF y
  <1>8. Exporting(z)
    <2>1. Len(z.batch) = k /\ k <= z.len
      BY <1>1, <1>3, <1>5, <1>6, <1>7
    <2>2. \A i \in 1 .. k : Stands(z.id, i, z.batch[i])
      <3>1. ASSUME NEW i \in 1 .. k
            PROVE  Stands(x.id, i, Append(x.batch, e)[i])
        <4>1. CASE i = k
          BY <1>4, <1>5, <4>1
        <4>2. CASE i # k
          <5>1. i \in 1 .. Len(x.batch)
            BY <1>3, <4>2
          <5>2. QED BY <1>2, <1>5, <5>1
        <4>3. QED BY <4>1, <4>2
      <3>2. QED BY <1>6, <1>7, <3>1
    <2>3. Reads(x.id, x.arr, x.len, k)
      <3>1. \A i \in k + 1 .. x.len : i \in Len(x.batch) + 1 .. x.len
        BY <1>3
      <3>2. QED BY <1>2, <3>1 DEF Reads
    <2>4. QED BY <1>6, <1>7, <2>1, <2>2, <2>3 DEF Exporting
  <1>9. ExportsRead'
    <2>1. \A d \in exports' : Exporting(d)
      BY <1>1, <1>7, <1>8 DEF Inv, ExportsRead
    <2>2. ASSUME NEW d, Exporting(d)
          PROVE  Exporting(d)'
      BY <1>1, <2>2, ReadsKept, StandsKept DEF Exporting
    <2>3. QED BY <2>1, <2>2 DEF ExportsRead
  <1>10. Shape'
    BY <1>1 DEF Inv, Shape, Cap
  <1>11. SentInOrder' /\ SentReceived'
    BY <1>1, EventsKept
  <1>12. MessagesRead' /\ WrittenStands'
    BY <1>1, ReadsKept, StandsKept DEF Inv, MessagesRead, WrittenStands, Wrote
  <1>13. QED BY <1>9, <1>10, <1>11, <1>12 DEF Inv

(* ExportWrite: the points of the whole slice have been read.              *)
LEMMA ExportWriteInv ==
  ASSUME Inv, NEW x \in exports, ExportWrite(x)
  PROVE  Inv'
  <1>1. /\ Len(x.batch) = x.len
        /\ exports' = exports \ {x}
        /\ \/ written' = written \cup {[id |-> x.id, to |-> x.to, batch |-> x.batch]}
           \/ written' = written
        /\ UNCHANGED <<nevents, arrays, buffer, sending, dataCh, sent, overwritten>>
    BY DEF ExportWrite, Points
  <1>2. Exporting(x)
    BY DEF Inv, ExportsRead
  <1>3. Wrote([id |-> x.id, to |-> x.to, batch |-> x.batch])
    BY <1>1, <1>2 DEF Exporting, Reads, Wrote
  <1>4. WrittenStands'
    <2>1. \A w \in written' : Wrote(w)
      BY <1>1, <1>3 DEF Inv, WrittenStands
    <2>2. ASSUME NEW w, Wrote(w)
          PROVE  Wrote(w)'
      BY <1>1, <2>2, StandsKept DEF Wrote
    <2>3. QED BY <2>1, <2>2 DEF WrittenStands
  <1>5. ExportsRead'
    <2>1. ASSUME NEW d \in exports
          PROVE  Exporting(d)'
      <3>1. Exporting(d)
        BY DEF Inv, ExportsRead
      <3>2. QED BY <1>1, <3>1, ReadsKept, StandsKept DEF Exporting
    <2>2. QED BY <1>1, <2>1 DEF ExportsRead
  <1>6. Shape'
    BY <1>1 DEF Inv, Shape, Cap
  <1>7. SentInOrder' /\ SentReceived'
    BY <1>1, EventsKept
  <1>8. MessagesRead'
    BY <1>1, ReadsKept DEF Inv, MessagesRead
  <1>9. QED BY <1>4, <1>5, <1>6, <1>7, <1>8 DEF Inv

-----------------------------------------------------------------------------
LEMMA Inductive == Inv /\ [Next]_vars => Inv'
  <1>. SUFFICES ASSUME Inv, [Next]_vars
                PROVE  Inv'
    OBVIOUS
  <1>1. CASE BufferEvent
    BY <1>1, BufferSpareInv, BufferGrowInv
  <1>2. CASE ExportBegin
    BY <1>2, ExportBeginInv
  <1>3. CASE ExportSend
    BY <1>3, ExportSendInv
  <1>4. CASE Forward
    BY <1>4, ForwardInv
  <1>5. CASE \E x \in exports : ExportPoint(x)
    BY <1>5, ExportPointInv
  <1>6. CASE \E x \in exports : ExportWrite(x)
    BY <1>6, ExportWriteInv
  <1>7. CASE UNCHANGED vars
    BY <1>7, StutterInv
  <1>8. QED BY <1>1, <1>2, <1>3, <1>4, <1>5, <1>6, <1>7 DEF Next

(* The batches that tcpreq.go, exportData puts into dataCh and what is     *)
(* left in the buffer are the events received, in order, none lost and     *)
(* none twice, however append and the cut of the slice interleave.         *)
THEOREM SentInOrderHolds == Spec => []SentInOrder
  <1>1. Inv => SentInOrder
    BY DEF Inv
  <1>2. QED BY <1>1, Starts, Inductive, PTL DEF Spec

(* What influxdb.go, Export writes is the batch as it was sent, or, where  *)
(* bufferEvent used a slot of the array again before the exporter read it, *)
(* a later event in its place; never fewer points and never a free slot.   *)
THEOREM WrittenAsSentHolds == Spec => []WrittenAsSent
  <1>1. Inv => WrittenAsSent
    BY DEF Inv, WrittenStands, Wrote, Stands, WrittenAsSent
  <1>2. QED BY <1>1, Starts, Inductive, PTL DEF Spec
=============================================================================
