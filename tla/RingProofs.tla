----------------------------- MODULE RingProofs -----------------------------
(***************************************************************************)
(* Proofs about what goes through rings.  Of TcpTrace, for any threads,    *)
(* sockets, connections and address pairs: what the event machine makes of *)
(* the events that it reads.  Of PerfBuffer and FileReader, for any number *)
(* of CPUs, threads and files and rings of any size: that nothing of a     *)
(* perf buffer stays behind, that records come whole, once and in order,   *)
(* and that files and their writes are reported as they were. Of XskRing,  *)
(* for rings of any size and positions of any width that is a multiple of  *)
(* it: that a ring is a queue.                                             *)
(***************************************************************************)
EXTENDS TcpTrace, FileReader, XskRing, FiniteSetTheorems, TLAPS

-----------------------------------------------------------------------------
(* TcpTrace.                                                               *)

\* a thread's fields that belong to where it is
ThreadShapes ==
  \A t \in Threads :
    /\ Handling(t, thread[t].conn) /\ thread[t].type # CONNECT => thread[t].conn \in Conns
    /\ thread[t].pc \in {"check", "emit", "delete"} => thread[t].type \in Types
    /\ thread[t].pc = "check" => thread[t].type # CONNECT
    /\ thread[t].pc = "delete" => thread[t].type = DISCONNECT
    /\ thread[t].pc = "accepting" => thread[t].sock \in Socks /\ sk[thread[t].sock] = NoConn
    /\ thread[t].pc \in {"accepted", "returned"} => thread[t].sock \in Socks

\* threads that wait in accept have sockets of their own
OwnSockets ==
  \A t, u \in Threads :
    thread[t].pc = "accepting" /\ thread[u].pc = "accepting" /\ thread[t].sock = thread[u].sock => t = u

\* a handler that is no accept's is in an open connection; the last use of it
\* is alone
OpenHandled ==
  /\ \A t \in Threads, c \in Pairs :
       Handling(t, c) /\ thread[t].type # CONNECT => \E s \in Socks : sk[s] = c
  /\ \A t, u \in Threads, c \in Pairs :
       /\ Handling(t, c) /\ thread[t].type = DISCONNECT
       /\ Handling(u, c) /\ thread[u].type # CONNECT
       => t = u

\* without a mix-up one accept is under way, and the slot is its own
Unmixed ==
  ~odd.mixed =>
    /\ \A t, u \in Threads : Accepting(t) /\ Accepting(u) => t = u
    /\ ptr_map # NoSock => \E t \in Threads : Accepting(t) /\ thread[t].sock = ptr_map
    /\ \A t \in Threads : thread[t].pc \in {"accepted", "returned"} =>
         thread[t].own \in Conns /\ sk[thread[t].sock] = thread[t].own
    /\ \A t, u \in Threads : Accepting(t) /\ Handling(u, thread[t].own) => thread[u].type # DISCONNECT
    /\ conn_map[NoConn] = None

\* the entry of a pair with one handler at a time
Entry ==
  \A c \in Pairs \ odd.raced :
    /\ \A t, u \in Threads : Handling(t, c) /\ Handling(u, c) => t = u
    /\ conn_map[c] = None \/ conn_map[c] = sent[c].type
       \/ \E t \in Threads : Handling(t, c) /\ thread[t].pc = "emit"
    /\ \A t \in Threads : Handling(t, c) =>
         /\ thread[t].pc = "check" => conn_map[c] # None /\ conn_map[c] # thread[t].type
         /\ thread[t].pc = "emit" => conn_map[c] = thread[t].type

TInv == ThreadShapes /\ OwnSockets /\ OpenHandled /\ Unmixed /\ Entry /\ AcceptNamesItsConnection /\ ConnectionsFollowed

(* Events that are in a buffer.                                            *)
InBuffers == {e \in Event : \E k \in Buffers : \E i \in 1 .. Len(samples[k]) : samples[k][i] = e}

\* an event is in one place
Apart ==
  \A k, j \in Buffers : \A i \in 1 .. Len(samples[k]), h \in 1 .. Len(samples[j]) :
    samples[k][i].n = samples[j][h].n => k = j /\ i = h

\* prev is the event before it of its pair, and sent the last one
Numbers ==
  /\ \A e \in InBuffers : e.n <= sent[e.conn].n /\ e.prev < e.n
  /\ \A e, f \in InBuffers : e.conn = f.conn => f.n <= e.prev \/ e.n <= f.n
  /\ \A c \in Pairs : sent[c].n <= count
  /\ \A c \in Pairs : \A e \in machine[c] : e.conn = c /\ e.n <= sent[c].n
  /\ \A c \in Pairs : \A d, e \in machine[c] : d = e

\* the event number n of a pair, if there is one, was lost, waits in a buffer, or
\* is the last one of the pair that was read
Somewhere(c, n) ==
  \/ n = 0 \/ n \in odd.lost
  \/ \E e \in InBuffers : e.conn = c /\ e.n = n
  \/ \E e \in machine[c] : e.n = n

\* of a pair whose events come in order, the machine has the last one before
\* those that wait
InOrder ==
  \A c \in Pairs \ odd.late :
    /\ Somewhere(c, sent[c].n)
    /\ \A e \in InBuffers : e.conn = c =>
         Somewhere(c, e.prev) /\ \A m \in machine[c] : m.n <= e.prev

DInv == Apart /\ Numbers /\ InOrder

-----------------------------------------------------------------------------
LEMMA TStart == TInit => TTypeOK /\ TInv /\ DInv
  <1>. SUFFICES ASSUME TInit PROVE TTypeOK /\ TInv /\ DInv
    OBVIOUS
  <1>1. Idle \in Thread /\ Idle.pc = "idle"
    BY DEF Idle, Thread, Pairs, None
  <1>2. TTypeOK
    <2>1. /\ count \in 0 .. MaxEvents /\ accepts \in 0 .. MaxAccepts
          /\ [n |-> 0, type |-> None] \in [n : 0 .. MaxEvents, type : 0 .. 4]
      BY RingAssumption DEF TInit, None
    <2>2. \A c \in Pairs : Cardinality(machine[c]) <= 1
      BY FS_EmptySet DEF TInit
    <2> QED
      BY <1>1, <2>1, <2>2, RingAssumption DEF TInit, TTypeOK, Odd, None, Pairs
  <1>3. TInv
    BY <1>1 DEF TInit, TInv, ThreadShapes, OwnSockets, OpenHandled, Unmixed, Entry, Handling,
       Accepting,
                AcceptNamesItsConnection, ConnectionsFollowed, EventsAlternate, ClosedIsForgotten, None, Pairs
  <1>4. DInv
    <2>1. InBuffers = {}
      BY DEF TInit, InBuffers
    <2>2. sent = [c \in Pairs |-> [n |-> 0, type |-> None]] /\ machine = [c \in Pairs |-> {}] /\ count = 0
          /\ \A k \in Buffers : Len(samples[k]) = 0
      BY DEF TInit
    <2> QED
      BY ONLY <2>1, <2>2 DEF DInv, Apart, Numbers, InOrder, Somewhere
  <1>5. QED BY <1>2, <1>3, <1>4

(* A thread's record, with some of its fields changed.                     *)
LEMMA ThreadChanges ==
  ASSUME NEW r \in Thread,
         NEW pc \in {"idle", "accepting", "accepted", "returned", "check", "emit", "delete"},
         NEW s \in Socks \cup {NoSock}, NEW c \in Pairs, NEW type \in 0 .. 4
  PROVE  /\ Idle \in Thread
         /\ [r EXCEPT !.pc = pc] \in Thread /\ [r EXCEPT !.pc = pc, !.own = c] \in Thread
         /\ [r EXCEPT !.pc = pc, !.sock = s] \in Thread
         /\ [r EXCEPT !.pc = pc, !.conn = c, !.type = type] \in Thread
         /\ [Idle EXCEPT !.pc = pc, !.conn = c, !.type = type] \in Thread
  <1>1. Idle \in Thread
    BY DEF Idle, Thread, Pairs, None
  <1>2. [r EXCEPT !.pc = pc] \in Thread
    BY DEF Thread
  <1>3. [r EXCEPT !.pc = pc, !.own = c] \in Thread
    BY DEF Thread
  <1>4. [r EXCEPT !.pc = pc, !.sock = s] \in Thread
    BY DEF Thread
  <1>5. [r EXCEPT !.pc = pc, !.conn = c, !.type = type] \in Thread
    BY DEF Thread
  <1>6. [Idle EXCEPT !.pc = pc, !.conn = c, !.type = type] \in Thread
    BY <1>1 DEF Thread
  <1>7. QED BY <1>1, <1>2, <1>3, <1>4, <1>5, <1>6

(* The threads and what they share.                                        *)
TypeA ==
  /\ verbose \in Levels \cup {0}
  /\ ptr_map \in Socks \cup {NoSock}
  /\ conn_map \in [Pairs -> 0 .. 4]
  /\ sk \in [Socks -> Pairs \cup {Unused}]
  /\ thread \in [Threads -> Thread]
  /\ accepts \in 0 .. MaxAccepts
  /\ odd \in Odd

(* The events.                                                             *)
TypeB ==
  /\ samples \in [Buffers -> Seq(Event)] /\ \A k \in Buffers : Len(samples[k]) <= RingSize
  /\ machine \in [Pairs -> SUBSET Event] /\ \A c \in Pairs : Cardinality(machine[c]) <= 1
  /\ sent \in [Pairs -> [n : 0 .. MaxEvents, type : 0 .. 4]]
  /\ count \in 0 .. MaxEvents

LEMMA TypesStay ==
  ASSUME TTypeOK, ThreadShapes, [TNext]_tvars
  PROVE  TTypeOK'
  <1>. SUFFICES TypeA' /\ TypeB'
    BY DEF TTypeOK, TypeA, TypeB
  <1>0. Idle \in Thread /\ Idle.pc = "idle" /\ NoConn \in Pairs /\ Conns \subseteq Pairs
        /\ TypeA /\ TypeB
    BY DEF Idle, Pairs, None, Thread, TTypeOK, TypeA, TypeB
  <1>20. UNCHANGED eventVars => TypeB'
    BY <1>0 DEF TypeB, eventVars
  <1>1. ASSUME NEW t \in Threads, NEW s \in Socks, kprobe_security_socket_accept(t, s) PROVE TypeA' /\ TypeB'
    <2>1. [Idle EXCEPT !.pc = "accepting", !.sock = s] \in Thread
      BY <1>0 DEF Thread, Idle
    <2>2. thread' \in [Threads -> Thread] /\ accepts' \in 0 .. MaxAccepts /\ ptr_map' \in Socks \cup {NoSock}
          /\ sk' \in [Socks -> Pairs \cup {Unused}]
      BY <2>1, <1>0, <1>1, RingAssumption DEF kprobe_security_socket_accept, TypeA, Entered
    <2>3. odd' \in Odd
      BY <1>0, <1>1 DEF kprobe_security_socket_accept, TypeA, Odd, Accepting
    <2> QED
      BY <1>0, <1>1, <1>20, <2>2, <2>3 DEF kprobe_security_socket_accept, TypeA
  <1>2. ASSUME NEW t \in Threads, NEW c \in Conns, AcceptDone(t, c) PROVE TypeA' /\ TypeB'
    <2>1. thread' \in [Threads -> Thread]
      <3>1. [thread[t] EXCEPT !.pc = "accepted", !.own = c] \in Thread
        BY <1>0, ThreadChanges DEF TypeA, None
      <3> QED
        BY <1>0, <1>2, <3>1 DEF AcceptDone, TypeA
    <2> QED
      BY <1>0, <1>2, <1>20, <2>1 DEF AcceptDone, TypeA
  <1>3. ASSUME NEW t \in Threads, AcceptFailed(t) PROVE TypeA' /\ TypeB'
    <2>1. odd' \in Odd
      BY <1>0, <1>3 DEF AcceptFailed, TypeA, Odd
    <2> QED
      BY <1>0, <1>3, <1>20, <2>1 DEF AcceptFailed, TypeA
  <1>4. ASSUME NEW t \in Threads, AcceptNoAddress(t) PROVE TypeA' /\ TypeB'
    <2>1. odd' \in Odd
      BY <1>0, <1>4 DEF AcceptNoAddress, TypeA, Odd
    <2> QED
      BY <1>0, <1>4, <1>20, <2>1 DEF AcceptNoAddress, TypeA
  <1>5. ASSUME NEW t \in Threads, kretprobe_move_addr_to_user(t) PROVE TypeA' /\ TypeB'
    <2>1. odd' \in Odd
      BY <1>0, <1>5 DEF kretprobe_move_addr_to_user, TypeA, Odd, Accepting
    <2>2. [thread[t] EXCEPT !.pc = "returned", !.sock = ptr_map] \in Thread
      BY <1>0, ThreadChanges DEF None, TypeA
    <2>3. thread' \in [Threads -> Thread]
      BY <1>0, <1>5, <2>2 DEF kretprobe_move_addr_to_user, TypeA
    <2> QED
      BY <1>0, <1>5, <1>20, <2>1, <2>3 DEF kretprobe_move_addr_to_user, TypeA
  <1>6. ASSUME NEW t \in Threads, RecordAccept(t) PROVE TypeA' /\ TypeB'
    <2>1. PICK c \in IF sk[thread[t].sock] = Unused THEN Pairs ELSE {sk[thread[t].sock]} :
            /\ conn_map' = [conn_map EXCEPT ![c] = CONNECT]
            /\ thread' = [thread EXCEPT ![t].pc = "emit", ![t].conn = c, ![t].type = CONNECT]
            /\ odd' = [odd EXCEPT !.raced = Race(t, c), !.unseen = @ \ {c}]
      BY <1>6 DEF RecordAccept
    <2>2. thread[t].sock \in Socks
      BY <1>6 DEF RecordAccept, ThreadShapes
    <2>3. c \in Pairs
      BY <1>0, <2>1, <2>2 DEF TypeA
    <2>4. Race(t, c) \in SUBSET Pairs
      BY <1>0, <2>3 DEF Race, TypeA, Odd
    <2>5. odd' \in Odd
      BY <1>0, <2>1, <2>4 DEF TypeA, Odd
    <2>6. [thread[t] EXCEPT !.pc = "emit", !.conn = c, !.type = CONNECT] \in Thread
      <3>1. CONNECT \in 0 .. 4
        BY DEF CONNECT
      <3>2. thread[t] \in Thread
        BY <1>0 DEF TypeA
      <3> QED
        BY ZenonT(40), <2>3, <3>1, <3>2, ThreadChanges
    <2>7. thread' \in [Threads -> Thread]
      BY <1>0, <2>1, <2>6 DEF TypeA
    <2> QED
      BY <1>0, <1>6, <1>20, <2>1, <2>3, <2>5, <2>7 DEF RecordAccept, TypeA, Taken, CONNECT
  <1>7. ASSUME NEW t \in Threads, NEW k \in Buffers, emit_event(t, k) PROVE TypeA' /\ TypeB'
    <2>. DEFINE c == thread[t].conn
               e == [type |-> thread[t].type, conn |-> c, n |-> count + 1, prev |-> sent[c].n]
    <2>1. c \in Pairs /\ thread[t].type \in Types /\ thread[t].type \in 0 .. 4 /\ count + 1 \in 1 .. MaxEvents
      BY <1>0, <1>7, RingAssumption DEF emit_event, TypeA, TypeB, ThreadShapes, Thread, Types
    <2>2. e \in Event
      BY <1>0, <2>1 DEF Event, TypeB
    <2>3. samples' = Emitted(k, e) /\ count' = count + 1
          /\ sent' = [sent EXCEPT ![c] = [n |-> count + 1, type |-> thread[t].type]]
      BY <1>7 DEF emit_event
    <2>4. samples' \in [Buffers -> Seq(Event)] /\ \A j \in Buffers : Len(samples'[j]) <= RingSize
      <3>. HIDE DEF e
      <3>1. CASE Len(samples[k]) < RingSize
        <4>1. samples' = [samples EXCEPT ![k] = Append(samples[k], e)]
          BY <2>3, <3>1 DEF Emitted
        <4>2. samples[k] \in Seq(Event)
          BY <1>0 DEF TypeB
        <4>3. Append(samples[k], e) \in Seq(Event) /\ Len(Append(samples[k], e)) = Len(samples[k]) + 1
              /\ Len(samples[k]) \in Nat
          BY <2>2, <4>2
        <4> QED
          BY <1>0, <3>1, <4>1, <4>3, RingAssumption DEF TypeB
      <3>2. CASE ~(Len(samples[k]) < RingSize)
        BY <1>0, <2>3, <3>2 DEF TypeB, Emitted
      <3> QED
        BY <3>1, <3>2
    <2>5. sent' \in [Pairs -> [n : 0 .. MaxEvents, type : 0 .. 4]] /\ count' \in 0 .. MaxEvents
      BY <1>0, <2>1, <2>3, RingAssumption DEF TypeB
    <2>6. TypeB'
      BY <1>0, <1>7, <2>4, <2>5 DEF TypeB, emit_event
    <2>7. odd' \in Odd
      <3>1. odd' = [odd EXCEPT !.lost = IF samples' = samples THEN odd.lost \cup {count + 1} ELSE odd.lost]
        BY <1>7 DEF emit_event
      <3> QED
        BY <1>0, <2>1, <3>1 DEF TypeA, Odd
    <2>8. thread' \in [Threads -> Thread]
      <3>1. [thread[t] EXCEPT !.pc = "delete"] \in Thread
        BY <1>0 DEF TypeA, Thread
      <3> QED
        BY <1>0, <1>7, <3>1 DEF emit_event, TypeA
    <2> QED
      BY <1>0, <1>7, <2>6, <2>7, <2>8 DEF emit_event, TypeA
  <1>8. ASSUME NEW t \in Threads, check_state_write(t) PROVE TypeA' /\ TypeB'
    BY <1>0, <1>8, <1>20 DEF check_state_write, TypeA, Thread
  <1>9. ASSUME NEW t \in Threads, CloseDone(t) PROVE TypeA' /\ TypeB'
    <2>1. thread' \in [Threads -> Thread] /\ sk' \in [Socks -> Pairs \cup {Unused}]
      BY <1>0, <1>9 DEF CloseDone, TypeA
    <2>2. conn_map' \in [Pairs -> 0 .. 4]
      BY <1>0, <1>9 DEF CloseDone, TypeA, Forgotten, None, Thread
    <2> QED
      BY <1>0, <1>9, <1>20, <2>1, <2>2 DEF CloseDone, TypeA
  <1>10. ASSUME NEW t \in Threads, NEW c \in Conns, NEW type \in {RECV_CLEAN_RBUF, SEND_ENTRY},
                SendOrReceive(t, c, type) PROVE TypeA' /\ TypeB'
    <2>1. [Idle EXCEPT !.pc = "check", !.conn = c, !.type = type] \in Thread
      BY <1>0, type \in 0 .. 4, ThreadChanges DEF RECV_CLEAN_RBUF, SEND_ENTRY
    <2>2. Race(t, c) \in SUBSET Pairs
      BY <1>0 DEF Race, TypeA, Odd
    <2>3. odd' \in Odd
      BY <1>0, <1>10, <2>2 DEF SendOrReceive, TypeA, Odd
    <2> QED
      BY <1>0, <1>10, <1>20, <2>1, <2>3 DEF SendOrReceive, TypeA
  <1>11. ASSUME NEW t \in Threads, NEW c \in Conns, kprobe_tcp_close(t, c) PROVE TypeA' /\ TypeB'
    <2>1. [Idle EXCEPT !.pc = IF Changes(c, DISCONNECT) THEN "check" ELSE "delete",
                       !.conn = c, !.type = DISCONNECT] \in Thread
      <3>1. DISCONNECT \in 0 .. 4
        BY DEF DISCONNECT
      <3>2. PICK pc \in {"check", "delete"} : pc = IF Changes(c, DISCONNECT) THEN "check" ELSE "delete"
        OBVIOUS
      <3>3. c \in Pairs /\ thread[t] \in Thread
        BY <1>0 DEF TypeA
      <3>4. [Idle EXCEPT !.pc = pc, !.conn = c, !.type = DISCONNECT] \in Thread
        BY ZenonT(40), <3>1, <3>2, <3>3, ThreadChanges
      <3> QED
        BY <3>2, <3>4
    <2>2. Race(t, c) \in SUBSET Pairs
      BY <1>0 DEF Race, TypeA, Odd
    <2>3. odd' \in Odd
      BY <1>0, <1>11, <2>2 DEF kprobe_tcp_close, TypeA, Odd
    <2> QED
      BY <1>0, <1>11, <1>20, <2>1, <2>3 DEF kprobe_tcp_close, TypeA
  <1>12. ASSUME NEW v \in Levels \cup {0}, SetVerbose(v) PROVE TypeA' /\ TypeB'
    BY <1>0, <1>12, <1>20 DEF SetVerbose, TypeA
  <1>13. ASSUME NEW k \in Buffers, bufferEvent(k) PROVE TypeA' /\ TypeB'
    <2>. DEFINE e == Head(samples[k])
    <2>1. samples[k] \in Seq(Event) /\ samples[k] # <<>> /\ Len(samples[k]) <= RingSize
      BY <1>0, <1>13 DEF bufferEvent, TypeB
    <2>2. e \in Event /\ Tail(samples[k]) \in Seq(Event) /\ Len(Tail(samples[k])) = Len(samples[k]) - 1
          /\ Len(samples[k]) \in Nat
      BY <2>1
    <2>3. Cardinality({e}) = 1 /\ e.conn \in Pairs
      BY <2>2, FS_Singleton DEF Event
    <2>4. machine' = [machine EXCEPT ![e.conn] = {e}] /\ samples' = [samples EXCEPT ![k] = Tail(@)]
      BY <1>13 DEF bufferEvent, Remembered
    <2>. HIDE DEF e
    <2>5. TypeB'
      <3>1. samples' \in [Buffers -> Seq(Event)] /\ \A j \in Buffers : Len(samples'[j]) <= RingSize
        BY <1>0, <2>1, <2>2, <2>4, RingAssumption DEF TypeB
      <3>2. machine' \in [Pairs -> SUBSET Event]
        BY <1>0, <2>2, <2>3, <2>4 DEF TypeB
      <3>3. \A c \in Pairs : Cardinality(machine'[c]) <= 1
        BY <1>0, <2>2, <2>3, <2>4 DEF TypeB
      <3> QED
        BY <1>0, <1>13, <3>1, <3>2, <3>3 DEF TypeB, bufferEvent
    <2>6. odd' \in Odd
      <3>1. \E b \in BOOLEAN : odd' = [odd EXCEPT !.late = IF b THEN odd.late \cup {e.conn} ELSE odd.late]
        BY <1>13 DEF bufferEvent, e
      <3> QED
        BY <1>0, <2>3, <3>1 DEF TypeA, Odd
    <2> QED
      BY <1>0, <1>13, <2>5, <2>6 DEF bufferEvent, TypeA
  <1>14. CASE UNCHANGED tvars
    BY <1>0, <1>14, <1>20 DEF tvars, TypeA, eventVars
  <1>15. QED
    BY <1>1, <1>2, <1>3, <1>4, <1>5, <1>6, <1>7, <1>8, <1>9, <1>10, <1>11, <1>12, <1>13, <1>14
    DEF TNext, Probe

(* Facts of the threads that every step needs.                             *)
LEMMA Distinct ==
  /\ NoConn \notin Conns /\ Unused \notin Pairs /\ Pairs = Conns \cup {NoConn}
  /\ Idle.pc = "idle" /\ Idle.own = NoConn /\ Idle.sock = NoSock /\ Idle.conn = NoConn /\ Idle.type = None
  BY NoConnAssumption, UnusedAssumption DEF Pairs, Idle

(* An accept begins.                                                       *)
LEMMA AcceptBegins ==
  ASSUME TypeA, TypeB, TInv, NEW t \in Threads, NEW s \in Socks, kprobe_security_socket_accept(t, s)
  PROVE  TInv'
  <1>1. /\ thread[t].pc = "idle" /\ sk[s] = Unused
        /\ thread'[t].pc = "accepting" /\ thread'[t].sock = s /\ thread'[t].own = NoConn
        /\ \A u \in Threads : u # t => thread'[u] = thread[u]
        /\ sk'[s] = NoConn /\ \A x \in Socks \ {s} : sk'[x] = sk[x]
        /\ ptr_map' \in {ptr_map, s}
        /\ odd.mixed => odd'.mixed
        /\ \A u \in Threads : u # t /\ Accepting(u) => odd'.mixed
        /\ odd'.raced = odd.raced /\ odd'.unseen = odd.unseen
        /\ conn_map' = conn_map /\ sent' = sent
    BY Distinct DEF TypeA, Odd, Thread, kprobe_security_socket_accept, Entered, eventVars, Idle
  <1>2. ThreadShapes'
    BY <1>1, Distinct DEF TypeA, Thread, TInv, ConnectionsFollowed, ThreadShapes, OwnSockets,
       Handling, Types, CONNECT, DISCONNECT
  <1>3. OwnSockets'
    BY <1>1, Distinct DEF TypeA, Thread, TInv, ConnectionsFollowed, ThreadShapes, OwnSockets
  <1>4. OpenHandled'
    BY <1>1, Distinct DEF TypeA, Thread, TInv, ConnectionsFollowed, ThreadShapes, OpenHandled,
       Handling, Open, CONNECT, DISCONNECT
  <1>5. Unmixed'
    <2>. SUFFICES ASSUME ~odd'.mixed PROVE Unmixed'
      BY DEF Unmixed
    <2>1. ~odd.mixed /\ Unmixed /\ ThreadShapes /\ OpenHandled
      BY <1>1 DEF TInv
    <2>2. (\A u, v \in Threads : Accepting(u) /\ Accepting(v) => u = v)'
      BY <1>1, <2>1 DEF Unmixed, Accepting, TypeA, Thread
    <2>3. (ptr_map # NoSock => \E u \in Threads : Accepting(u) /\ thread[u].sock = ptr_map)'
      BY <1>1, <2>1 DEF Unmixed, Accepting, TypeA, Thread
    <2>4. (\A u \in Threads : thread[u].pc \in {"accepted", "returned"} =>
             thread[u].own \in Conns /\ sk[thread[u].sock] = thread[u].own)'
      BY <1>1, <2>1, Distinct DEF TypeA, Thread, Unmixed, ThreadShapes, Accepting
    <2>5. (\A u, v \in Threads : Accepting(u) /\ Handling(v, thread[u].own) => thread[v].type # DISCONNECT)'
      BY <1>1, <2>1, Distinct DEF TypeA, Thread, Unmixed, ThreadShapes, OpenHandled, Accepting,
         Handling, CONNECT, DISCONNECT
    <2>6. conn_map'[NoConn] = None
      BY <1>1, <2>1, Distinct DEF TypeA, Thread, Unmixed, ThreadShapes, Handling
    <2> QED
      BY <2>2, <2>3, <2>4, <2>5, <2>6 DEF Unmixed
  <1>6. Entry'
    BY <1>1, Distinct DEF TypeA, Thread, TInv, ConnectionsFollowed, ThreadShapes, Entry,
       Handling, Changes, None
  <1>7. AcceptNamesItsConnection'
    BY <1>1, Distinct DEF TypeA, Thread, TInv, ConnectionsFollowed, ThreadShapes,
       AcceptNamesItsConnection, Unmixed, CONNECT, DISCONNECT
  <1>8. EventsAlternate'
    BY <1>1, Distinct DEF TypeA, Thread, TInv, ConnectionsFollowed, EventsAlternate, Entry, Handling
  <1>9. ClosedIsForgotten'
    BY <1>1, Distinct DEF TypeA, Thread, TInv, ConnectionsFollowed, ThreadShapes, OpenHandled,
       Unmixed, ClosedIsForgotten, Handling, None, CONNECT
  <1>10. QED BY <1>2, <1>3, <1>4, <1>5, <1>6, <1>7, <1>8, <1>9 DEF TInv, ConnectionsFollowed

(* An accept has got its connection.                                       *)
LEMMA AcceptGets ==
  ASSUME TypeA, TypeB, TInv, NEW t \in Threads, NEW c \in Conns, AcceptDone(t, c)
  PROVE  TInv'
  <1>1. /\ thread[t].pc = "accepting" /\ thread[t].sock \in Socks /\ \A s \in Socks : sk[s] # c
        /\ thread'[t].pc = "accepted" /\ thread'[t].sock = thread[t].sock /\ thread'[t].own = c
        /\ \A u \in Threads : u # t => thread'[u] = thread[u]
        /\ sk'[thread[t].sock] = c /\ \A x \in Socks \ {thread[t].sock} : sk'[x] = sk[x]
        /\ ptr_map' = ptr_map /\ odd' = odd
        /\ conn_map' = conn_map /\ sent' = sent
    BY Distinct DEF TypeA, Odd, Thread, AcceptDone, eventVars, TInv, ThreadShapes
  <1>2. ThreadShapes'
    BY <1>1, Distinct DEF TypeA, Thread, TInv, ConnectionsFollowed, ThreadShapes, OwnSockets,
       Handling, Types, CONNECT, DISCONNECT
  <1>3. OwnSockets'
    BY <1>1, Distinct DEF TypeA, Thread, TInv, ConnectionsFollowed, ThreadShapes, OwnSockets
  <1>4. OpenHandled'
    BY <1>1, Distinct DEF TypeA, Thread, TInv, ConnectionsFollowed, ThreadShapes, OpenHandled,
       Handling, Open, CONNECT, DISCONNECT
  <1>5. Unmixed'
    BY <1>1, Distinct DEF TypeA, Thread, TInv, ConnectionsFollowed, ThreadShapes, OwnSockets,
       OpenHandled, Unmixed, Handling, Accepting, CONNECT, DISCONNECT, None
  <1>6. Entry'
    BY <1>1, Distinct DEF TypeA, Thread, TInv, ConnectionsFollowed, ThreadShapes, Entry,
       Handling, Changes, None
  <1>7. AcceptNamesItsConnection'
    BY <1>1, Distinct DEF TypeA, Thread, TInv, ConnectionsFollowed, ThreadShapes,
       AcceptNamesItsConnection, Unmixed, CONNECT, DISCONNECT
  <1>8. EventsAlternate'
    BY <1>1, Distinct DEF TypeA, Thread, TInv, ConnectionsFollowed, EventsAlternate, Entry, Handling
  <1>9. ClosedIsForgotten'
    BY <1>1, Distinct DEF TypeA, Thread, TInv, ConnectionsFollowed, ThreadShapes, OpenHandled,
       Unmixed, ClosedIsForgotten, Handling, None, CONNECT
  <1>10. QED BY <1>2, <1>3, <1>4, <1>5, <1>6, <1>7, <1>8, <1>9 DEF TInv, ConnectionsFollowed

(* An accept fails.                                                        *)
LEMMA AcceptFails ==
  ASSUME TypeA, TypeB, TInv, NEW t \in Threads, AcceptFailed(t)
  PROVE  TInv'
  <1>1. /\ thread[t].pc = "accepting" /\ thread[t].sock \in Socks /\ thread'[t].pc = "idle"
        /\ \A u \in Threads : u # t => thread'[u] = thread[u]
        /\ sk'[thread[t].sock] = Unused /\ \A x \in Socks \ {thread[t].sock} : sk'[x] = sk[x]
        /\ ptr_map' = ptr_map
        /\ odd.mixed \/ ptr_map = thread[t].sock => odd'.mixed
        /\ odd'.raced = odd.raced /\ odd'.unseen = odd.unseen
        /\ conn_map' = conn_map /\ sent' = sent
    BY Distinct DEF TypeA, Odd, Thread, AcceptFailed, eventVars, TInv, ThreadShapes
  <1>2. ThreadShapes'
    BY <1>1, Distinct DEF TypeA, Thread, TInv, ConnectionsFollowed, ThreadShapes, OwnSockets,
       Handling, Types, CONNECT, DISCONNECT
  <1>3. OwnSockets'
    BY <1>1, Distinct DEF TypeA, Thread, TInv, ConnectionsFollowed, ThreadShapes, OwnSockets
  <1>4. OpenHandled'
    BY <1>1, Distinct DEF TypeA, Thread, TInv, ConnectionsFollowed, ThreadShapes, OpenHandled,
       Handling, Open, CONNECT, DISCONNECT
  <1>5. Unmixed'
    <2>. SUFFICES ASSUME ~odd'.mixed PROVE Unmixed'
      BY DEF Unmixed
    <2>1. ~odd.mixed /\ Unmixed /\ ThreadShapes /\ OpenHandled
      BY <1>1 DEF TInv
    <2>2. (\A u, v \in Threads : Accepting(u) /\ Accepting(v) => u = v)'
      BY <1>1, <2>1 DEF Unmixed, Accepting, TypeA, Thread
    <2>3. (ptr_map # NoSock => \E u \in Threads : Accepting(u) /\ thread[u].sock = ptr_map)'
      BY <1>1, <2>1 DEF Unmixed, Accepting, TypeA, Thread
    <2>4. (\A u \in Threads : thread[u].pc \in {"accepted", "returned"} =>
             thread[u].own \in Conns /\ sk[thread[u].sock] = thread[u].own)'
      BY <1>1, <2>1, Distinct DEF TypeA, Thread, Unmixed, ThreadShapes, Accepting
    <2>5. (\A u, v \in Threads : Accepting(u) /\ Handling(v, thread[u].own) => thread[v].type # DISCONNECT)'
      BY <1>1, <2>1, Distinct DEF TypeA, Thread, Unmixed, ThreadShapes, OpenHandled, Accepting,
         Handling, CONNECT, DISCONNECT
    <2>6. conn_map'[NoConn] = None
      BY <1>1, <2>1, Distinct DEF TypeA, Thread, Unmixed, ThreadShapes, Handling
    <2> QED
      BY <2>2, <2>3, <2>4, <2>5, <2>6 DEF Unmixed
  <1>6. Entry'
    BY <1>1, Distinct DEF TypeA, Thread, TInv, ConnectionsFollowed, ThreadShapes, Entry,
       Handling, Changes, None
  <1>7. AcceptNamesItsConnection'
    BY <1>1, Distinct DEF TypeA, Thread, TInv, ConnectionsFollowed, ThreadShapes,
       AcceptNamesItsConnection, Unmixed, CONNECT, DISCONNECT
  <1>8. EventsAlternate'
    BY <1>1, Distinct DEF TypeA, Thread, TInv, ConnectionsFollowed, EventsAlternate, Entry, Handling
  <1>9. ClosedIsForgotten'
    BY <1>1, Distinct DEF TypeA, Thread, TInv, ConnectionsFollowed, ThreadShapes, OpenHandled,
       Unmixed, ClosedIsForgotten, Handling, None, CONNECT
  <1>10. QED BY <1>2, <1>3, <1>4, <1>5, <1>6, <1>7, <1>8, <1>9 DEF TInv, ConnectionsFollowed

(* An accept ends without its return probe.                                *)
LEMMA AcceptUnasked ==
  ASSUME TypeA, TypeB, TInv, NEW t \in Threads, AcceptNoAddress(t)
  PROVE  TInv'
  <1>1. /\ thread[t].pc = "accepted" /\ thread'[t].pc = "idle"
        /\ \A u \in Threads : u # t => thread'[u] = thread[u]
        /\ sk' = sk /\ ptr_map' = ptr_map
        /\ odd.mixed \/ ptr_map = thread[t].sock => odd'.mixed
        /\ odd'.raced = odd.raced /\ odd'.unseen = odd.unseen
        /\ conn_map' = conn_map /\ sent' = sent
    BY Distinct DEF TypeA, Odd, Thread, AcceptNoAddress, eventVars
  <1>2. ThreadShapes'
    BY <1>1, Distinct DEF TypeA, Thread, TInv, ConnectionsFollowed, ThreadShapes, OwnSockets,
       Handling, Types, CONNECT, DISCONNECT
  <1>3. OwnSockets'
    BY <1>1, Distinct DEF TypeA, Thread, TInv, ConnectionsFollowed, ThreadShapes, OwnSockets
  <1>4. OpenHandled'
    BY <1>1, Distinct DEF TypeA, Thread, TInv, ConnectionsFollowed, ThreadShapes, OpenHandled,
       Handling, Open, CONNECT, DISCONNECT
  <1>5. Unmixed'
    <2>. SUFFICES ASSUME ~odd'.mixed PROVE Unmixed'
      BY DEF Unmixed
    <2>1. ~odd.mixed /\ Unmixed /\ ThreadShapes /\ OpenHandled
      BY <1>1 DEF TInv
    <2>2. (\A u, v \in Threads : Accepting(u) /\ Accepting(v) => u = v)'
      BY <1>1, <2>1 DEF Unmixed, Accepting, TypeA, Thread
    <2>3. (ptr_map # NoSock => \E u \in Threads : Accepting(u) /\ thread[u].sock = ptr_map)'
      BY <1>1, <2>1 DEF Unmixed, Accepting, TypeA, Thread
    <2>4. (\A u \in Threads : thread[u].pc \in {"accepted", "returned"} =>
             thread[u].own \in Conns /\ sk[thread[u].sock] = thread[u].own)'
      BY <1>1, <2>1, Distinct DEF TypeA, Thread, Unmixed, ThreadShapes, Accepting
    <2>5. (\A u, v \in Threads : Accepting(u) /\ Handling(v, thread[u].own) => thread[v].type # DISCONNECT)'
      BY <1>1, <2>1, Distinct DEF TypeA, Thread, Unmixed, ThreadShapes, OpenHandled, Accepting,
         Handling, CONNECT, DISCONNECT
    <2>6. conn_map'[NoConn] = None
      BY <1>1, <2>1, Distinct DEF TypeA, Thread, Unmixed, ThreadShapes, Handling
    <2> QED
      BY <2>2, <2>3, <2>4, <2>5, <2>6 DEF Unmixed
  <1>6. Entry'
    BY <1>1, Distinct DEF TypeA, Thread, TInv, ConnectionsFollowed, ThreadShapes, Entry,
       Handling, Changes, None
  <1>7. AcceptNamesItsConnection'
    BY <1>1, Distinct DEF TypeA, Thread, TInv, ConnectionsFollowed, ThreadShapes,
       AcceptNamesItsConnection, Unmixed, CONNECT, DISCONNECT
  <1>8. EventsAlternate'
    BY <1>1, Distinct DEF TypeA, Thread, TInv, ConnectionsFollowed, EventsAlternate, Entry, Handling
  <1>9. ClosedIsForgotten'
    BY <1>1, Distinct DEF TypeA, Thread, TInv, ConnectionsFollowed, ThreadShapes, OpenHandled,
       Unmixed, ClosedIsForgotten, Handling, None, CONNECT
  <1>10. QED BY <1>2, <1>3, <1>4, <1>5, <1>6, <1>7, <1>8, <1>9 DEF TInv, ConnectionsFollowed

(* A return probe looks the slot up.                                       *)
LEMMA AddressReturned ==
  ASSUME TypeA, TypeB, TInv, NEW t \in Threads, kretprobe_move_addr_to_user(t)
  PROVE  TInv'
  <1>1. /\ thread[t].pc \in {"idle", "accepted"}
        /\ \/ thread'[t].pc = "idle" /\ ptr_map = NoSock
           \/ /\ thread'[t].pc = "returned" /\ thread'[t].own = thread[t].own
              /\ thread'[t].sock = ptr_map /\ ptr_map # NoSock /\ ptr_map \in Socks
        /\ \A u \in Threads : u # t => thread'[u] = thread[u]
        /\ sk' = sk /\ ptr_map' = ptr_map
        /\ odd.mixed => odd'.mixed
        /\ thread[t].pc = "idle" => \A u \in Threads : Accepting(u) => odd'.mixed
        /\ odd'.raced = odd.raced /\ odd'.unseen = odd.unseen
        /\ conn_map' = conn_map /\ sent' = sent
    <2>1. /\ thread[t].pc \in {"idle", "accepted"} /\ thread[t] \in Thread
          /\ UNCHANGED <<sk, ptr_map, conn_map, sent>>
          /\ odd' = [odd EXCEPT !.mixed = @ \/ (thread[t].pc = "idle" /\ \E u \in Threads : Accepting(u))]
      BY DEF TypeA, kretprobe_move_addr_to_user, eventVars
    <2>2. CASE ptr_map = NoSock
      <3>1. thread' = [thread EXCEPT ![t] = Idle]
        BY <2>2 DEF kretprobe_move_addr_to_user
      <3> QED
        BY <2>1, <2>2, <3>1, Distinct DEF TypeA, Odd
    <2>3. CASE ptr_map # NoSock
      <3>1. thread' = [thread EXCEPT ![t].pc = "returned", ![t].sock = ptr_map]
        BY <2>3 DEF kretprobe_move_addr_to_user
      <3> QED
        BY <2>1, <2>3, <3>1 DEF TypeA, Odd, Thread
    <2> QED
      BY <2>2, <2>3
  <1>2. ThreadShapes'
    BY <1>1, Distinct DEF TypeA, Thread, TInv, ConnectionsFollowed, ThreadShapes, OwnSockets,
       Handling, Types, CONNECT, DISCONNECT
  <1>3. OwnSockets'
    BY <1>1, Distinct DEF TypeA, Thread, TInv, ConnectionsFollowed, ThreadShapes, OwnSockets
  <1>4. OpenHandled'
    BY <1>1, Distinct DEF TypeA, Thread, TInv, ConnectionsFollowed, ThreadShapes, OpenHandled,
       Handling, Open, CONNECT, DISCONNECT
  <1>5. Unmixed'
    BY <1>1, Distinct DEF TypeA, Thread, TInv, ConnectionsFollowed, ThreadShapes, OwnSockets,
       OpenHandled, Unmixed, Handling, Accepting, CONNECT, DISCONNECT, None
  <1>6. Entry'
    BY <1>1, Distinct DEF TypeA, Thread, TInv, ConnectionsFollowed, ThreadShapes, Entry,
       Handling, Changes, None
  <1>7. AcceptNamesItsConnection'
    BY <1>1, Distinct DEF TypeA, Thread, TInv, ConnectionsFollowed, ThreadShapes,
       AcceptNamesItsConnection, Unmixed, CONNECT, DISCONNECT
  <1>8. EventsAlternate'
    BY <1>1, Distinct DEF TypeA, Thread, TInv, ConnectionsFollowed, EventsAlternate, Entry, Handling
  <1>9. ClosedIsForgotten'
    BY <1>1, Distinct DEF TypeA, Thread, TInv, ConnectionsFollowed, ThreadShapes, OpenHandled,
       Unmixed, ClosedIsForgotten, Handling, None, CONNECT
  <1>10. QED BY <1>2, <1>3, <1>4, <1>5, <1>6, <1>7, <1>8, <1>9 DEF TInv, ConnectionsFollowed

(* The entry of an accepted connection is written.                         *)
LEMMA AcceptRecorded ==
  ASSUME TypeA, TypeB, TInv, NEW t \in Threads, RecordAccept(t)
  PROVE  TInv'
  <1>0. PICK c \in IF sk[thread[t].sock] = Unused THEN Pairs ELSE {sk[thread[t].sock]} :
          /\ conn_map' = [conn_map EXCEPT ![c] = CONNECT]
          /\ thread' = [thread EXCEPT ![t].pc = "emit", ![t].conn = c, ![t].type = CONNECT]
          /\ odd' = [odd EXCEPT !.raced = Race(t, c), !.unseen = @ \ {c}]
    BY DEF RecordAccept
  <1>1. /\ thread[t].pc = "returned" /\ thread[t].sock \in Socks /\ c \in Pairs
        /\ sk[thread[t].sock] # Unused => sk[thread[t].sock] = c
        /\ thread'[t].pc = "emit" /\ thread'[t].conn = c /\ thread'[t].type = CONNECT /\ thread'[t].own = thread[t].own
        /\ \A u \in Threads : u # t => thread'[u] = thread[u]
        /\ sk' = sk /\ ptr_map' = NoSock /\ sent' = sent
        /\ conn_map'[c] = CONNECT /\ \A d \in Pairs \ {c} : conn_map'[d] = conn_map[d]
        /\ odd'.mixed = odd.mixed /\ odd.raced \subseteq odd'.raced /\ odd'.unseen = odd.unseen \ {c}
        /\ \A u \in Threads : u # t /\ Handling(u, c) => c \in odd'.raced
    BY <1>0, Distinct DEF TypeA, Odd, Thread, RecordAccept, eventVars, Taken, Race, TInv,
       ThreadShapes
  <1>2. ThreadShapes'
    BY <1>1, <1>0, Distinct DEF TypeA, Thread, TInv, ConnectionsFollowed, ThreadShapes,
       OwnSockets, Handling, Types, CONNECT, DISCONNECT
  <1>3. OwnSockets'
    BY <1>1, <1>0, Distinct DEF TypeA, Thread, TInv, ConnectionsFollowed, ThreadShapes, OwnSockets
  <1>4. OpenHandled'
    BY <1>1, <1>0, Distinct DEF TypeA, Thread, TInv, ConnectionsFollowed, ThreadShapes,
       OpenHandled, Handling, Open, CONNECT, DISCONNECT
  <1>5. Unmixed'
    BY <1>1, <1>0, Distinct DEF TypeA, Thread, TInv, ConnectionsFollowed, ThreadShapes,
       OwnSockets, OpenHandled, Unmixed, Handling, Accepting, CONNECT, DISCONNECT, None
  <1>6. Entry'
    BY <1>1, <1>0, Distinct DEF TypeA, Thread, TInv, ConnectionsFollowed, ThreadShapes, Entry,
       Handling, Changes, None
  <1>7. AcceptNamesItsConnection'
    BY <1>1, <1>0, Distinct DEF TypeA, Thread, TInv, ConnectionsFollowed, ThreadShapes,
       AcceptNamesItsConnection, Unmixed, CONNECT, DISCONNECT
  <1>8. EventsAlternate'
    BY <1>1, <1>0, Distinct DEF TypeA, Thread, TInv, ConnectionsFollowed, EventsAlternate, Entry,
       Handling
  <1>9. ClosedIsForgotten'
    BY <1>1, <1>0, Distinct DEF TypeA, Thread, TInv, ConnectionsFollowed, ThreadShapes,
       OpenHandled, Unmixed, ClosedIsForgotten, Handling, None, CONNECT
  <1>10. QED BY <1>2, <1>3, <1>4, <1>5, <1>6, <1>7, <1>8, <1>9 DEF TInv, ConnectionsFollowed

(* A handler has its event put out.                                        *)
LEMMA EventEmitted ==
  ASSUME TypeA, TypeB, TInv, NEW t \in Threads, NEW k \in Buffers, emit_event(t, k)
  PROVE  TInv'
  <1>1. /\ thread[t].pc = "emit" /\ thread[t].conn \in Pairs
        /\ IF thread[t].type = DISCONNECT THEN thread'[t] = [thread[t] EXCEPT !.pc = "delete"] ELSE thread'[t].pc = "idle"
        /\ \A u \in Threads : u # t => thread'[u] = thread[u]
        /\ sk' = sk /\ ptr_map' = ptr_map /\ conn_map' = conn_map
        /\ sent'[thread[t].conn].type = thread[t].type /\ \A d \in Pairs \ {thread[t].conn} : sent'[d] = sent[d]
        /\ odd'.mixed = odd.mixed /\ odd'.raced = odd.raced /\ odd'.unseen = odd.unseen
    BY Distinct DEF TypeA, Odd, Thread, emit_event, TypeB
  <1>2. ThreadShapes'
    BY <1>1, Distinct DEF TypeA, Thread, TInv, ConnectionsFollowed, ThreadShapes, OwnSockets,
       Handling, Types, CONNECT, DISCONNECT
  <1>3. OwnSockets'
    BY <1>1, Distinct DEF TypeA, Thread, TInv, ConnectionsFollowed, ThreadShapes, OwnSockets
  <1>4. OpenHandled'
    BY <1>1, Distinct DEF TypeA, Thread, TInv, ConnectionsFollowed, ThreadShapes, OpenHandled,
       Handling, Open, CONNECT, DISCONNECT
  <1>5. Unmixed'
    BY <1>1, Distinct DEF TypeA, Thread, TInv, ConnectionsFollowed, ThreadShapes, OwnSockets,
       OpenHandled, Unmixed, Handling, Accepting, CONNECT, DISCONNECT, None
  <1>6. Entry'
    BY <1>1, Distinct DEF TypeA, Thread, TInv, ConnectionsFollowed, ThreadShapes, Entry,
       Handling, Changes, None
  <1>7. AcceptNamesItsConnection'
    BY <1>1, Distinct DEF TypeA, Thread, TInv, ConnectionsFollowed, ThreadShapes,
       AcceptNamesItsConnection, Unmixed, CONNECT, DISCONNECT
  <1>8. EventsAlternate'
    BY <1>1, Distinct DEF TypeA, Thread, TInv, ConnectionsFollowed, EventsAlternate, Entry, Handling
  <1>9. ClosedIsForgotten'
    BY <1>1, Distinct DEF TypeA, Thread, TInv, ConnectionsFollowed, ThreadShapes, OpenHandled,
       Unmixed, ClosedIsForgotten, Handling, None, CONNECT
  <1>10. QED BY <1>2, <1>3, <1>4, <1>5, <1>6, <1>7, <1>8, <1>9 DEF TInv, ConnectionsFollowed

(* check_state writes the type.                                            *)
LEMMA TypeWritten ==
  ASSUME TypeA, TypeB, TInv, NEW t \in Threads, check_state_write(t)
  PROVE  TInv'
  <1>1. /\ thread[t].pc = "check" /\ thread[t].conn \in Pairs
        /\ thread'[t] = [thread[t] EXCEPT !.pc = "emit"]
        /\ \A u \in Threads : u # t => thread'[u] = thread[u]
        /\ sk' = sk /\ ptr_map' = ptr_map /\ sent' = sent /\ odd' = odd
        /\ conn_map'[thread[t].conn] = thread[t].type /\ \A d \in Pairs \ {thread[t].conn} : conn_map'[d] = conn_map[d]
    BY Distinct DEF TypeA, Odd, Thread, check_state_write, eventVars
  <1>2. ThreadShapes'
    BY <1>1, Distinct DEF TypeA, Thread, TInv, ConnectionsFollowed, ThreadShapes, OwnSockets,
       Handling, Types, CONNECT, DISCONNECT
  <1>3. OwnSockets'
    BY <1>1, Distinct DEF TypeA, Thread, TInv, ConnectionsFollowed, ThreadShapes, OwnSockets
  <1>4. OpenHandled'
    BY <1>1, Distinct DEF TypeA, Thread, TInv, ConnectionsFollowed, ThreadShapes, OpenHandled,
       Handling, Open, CONNECT, DISCONNECT
  <1>5. Unmixed'
    <2>. SUFFICES ASSUME ~odd'.mixed PROVE Unmixed'
      BY DEF Unmixed
    <2>1. ~odd.mixed /\ Unmixed /\ ThreadShapes /\ OpenHandled
      BY <1>1 DEF TInv
    <2>2. (\A u, v \in Threads : Accepting(u) /\ Accepting(v) => u = v)'
      BY <1>1, <2>1 DEF Unmixed, Accepting, TypeA, Thread
    <2>3. (ptr_map # NoSock => \E u \in Threads : Accepting(u) /\ thread[u].sock = ptr_map)'
      BY <1>1, <2>1 DEF Unmixed, Accepting, TypeA, Thread
    <2>4. (\A u \in Threads : thread[u].pc \in {"accepted", "returned"} =>
             thread[u].own \in Conns /\ sk[thread[u].sock] = thread[u].own)'
      BY <1>1, <2>1, Distinct DEF TypeA, Thread, Unmixed, ThreadShapes, Accepting
    <2>5. (\A u, v \in Threads : Accepting(u) /\ Handling(v, thread[u].own) => thread[v].type # DISCONNECT)'
      BY <1>1, <2>1, Distinct DEF TypeA, Thread, Unmixed, ThreadShapes, OpenHandled, Accepting,
         Handling, CONNECT, DISCONNECT
    <2>6. conn_map'[NoConn] = None
      BY <1>1, <2>1, Distinct DEF TypeA, Thread, Unmixed, ThreadShapes, Handling
    <2> QED
      BY <2>2, <2>3, <2>4, <2>5, <2>6 DEF Unmixed
  <1>6. Entry'
    BY <1>1, Distinct DEF TypeA, Thread, TInv, ConnectionsFollowed, ThreadShapes, Entry,
       Handling, Changes, None
  <1>7. AcceptNamesItsConnection'
    BY <1>1, Distinct DEF TypeA, Thread, TInv, ConnectionsFollowed, ThreadShapes,
       AcceptNamesItsConnection, Unmixed, CONNECT, DISCONNECT
  <1>8. EventsAlternate'
    BY <1>1, Distinct DEF TypeA, Thread, TInv, ConnectionsFollowed, EventsAlternate, Entry, Handling
  <1>9. ClosedIsForgotten'
    BY <1>1, Distinct DEF TypeA, Thread, TInv, ConnectionsFollowed, ThreadShapes, OpenHandled,
       Unmixed, ClosedIsForgotten, Handling, None, CONNECT
  <1>10. QED BY <1>2, <1>3, <1>4, <1>5, <1>6, <1>7, <1>8, <1>9 DEF TInv, ConnectionsFollowed

(* A connection's last use ends.                                           *)
LEMMA CloseEnds ==
  ASSUME TypeA, TypeB, TInv, NEW t \in Threads, CloseDone(t)
  PROVE  TInv'
  <1>1. /\ thread[t].pc = "delete" /\ thread[t].conn \in Conns
        /\ thread'[t].pc = "idle"
        /\ \A u \in Threads : u # t => thread'[u] = thread[u]
        /\ \A s \in Socks : sk'[s] = IF sk[s] = thread[t].conn THEN Unused ELSE sk[s]
        /\ ptr_map' = ptr_map /\ sent' = sent /\ odd' = odd
        /\ conn_map'[thread[t].conn] = None /\ \A d \in Pairs \ {thread[t].conn} : conn_map'[d] = conn_map[d]
    BY Distinct DEF TypeA, Odd, Thread, CloseDone, Forgotten, eventVars, TInv, ThreadShapes,
       Handling, CONNECT, DISCONNECT
  <1>2. ThreadShapes'
    BY <1>1, Distinct DEF TypeA, Thread, TInv, ConnectionsFollowed, ThreadShapes, OwnSockets,
       Handling, Types, CONNECT, DISCONNECT
  <1>3. OwnSockets'
    BY <1>1, Distinct DEF TypeA, Thread, TInv, ConnectionsFollowed, ThreadShapes, OwnSockets
  <1>4. OpenHandled'
    BY <1>1, Distinct DEF TypeA, Thread, TInv, ConnectionsFollowed, ThreadShapes, OpenHandled,
       Handling, Open, CONNECT, DISCONNECT
  <1>5. Unmixed'
    BY <1>1, Distinct DEF TypeA, Thread, TInv, ConnectionsFollowed, ThreadShapes, OwnSockets,
       OpenHandled, Unmixed, Handling, Accepting, CONNECT, DISCONNECT, None
  <1>6. Entry'
    BY <1>1, Distinct DEF TypeA, Thread, TInv, ConnectionsFollowed, ThreadShapes, Entry,
       Handling, Changes, None
  <1>7. AcceptNamesItsConnection'
    BY <1>1, Distinct DEF TypeA, Thread, TInv, ConnectionsFollowed, ThreadShapes,
       AcceptNamesItsConnection, Unmixed, CONNECT, DISCONNECT
  <1>8. EventsAlternate'
    BY <1>1, Distinct DEF TypeA, Thread, TInv, ConnectionsFollowed, EventsAlternate, Entry, Handling
  <1>9. ClosedIsForgotten'
    BY <1>1, Distinct DEF TypeA, Thread, TInv, ConnectionsFollowed, ThreadShapes, OpenHandled,
       Unmixed, ClosedIsForgotten, Handling, None, CONNECT
  <1>10. QED BY <1>2, <1>3, <1>4, <1>5, <1>6, <1>7, <1>8, <1>9 DEF TInv, ConnectionsFollowed

(* Data goes through a connection.                                         *)
LEMMA DataSeen ==
  ASSUME TypeA, TypeB, TInv, NEW t \in Threads, NEW c \in Conns, NEW type \in {RECV_CLEAN_RBUF, SEND_ENTRY},
         SendOrReceive(t, c, type)
  PROVE  TInv'
  <1>1. /\ thread[t].pc = "idle" /\ Open(c) /\ c \in Pairs
        /\ conn_map[c] # None /\ conn_map[c] # type /\ type \in Types /\ type # CONNECT /\ type # DISCONNECT
        /\ thread'[t].pc = "check" /\ thread'[t].conn = c /\ thread'[t].type = type
        /\ \A u \in Threads : u # t => thread'[u] = thread[u]
        /\ sk' = sk /\ ptr_map' = ptr_map
        /\ conn_map' = conn_map /\ sent' = sent
        /\ odd'.mixed = odd.mixed /\ odd'.unseen = odd.unseen
        /\ odd.raced \subseteq odd'.raced /\ \A u \in Threads : u # t /\ Handling(u, c) => c \in odd'.raced
    BY Distinct DEF TypeA, Odd, Thread, SendOrReceive, eventVars, Race, Changes, Idle,
       RECV_CLEAN_RBUF, SEND_ENTRY, CONNECT, DISCONNECT, Types
  <1>2. ThreadShapes'
    BY <1>1, Distinct DEF TypeA, Thread, TInv, ConnectionsFollowed, ThreadShapes, OwnSockets,
       Handling, Types, CONNECT, DISCONNECT
  <1>3. OwnSockets'
    BY <1>1, Distinct DEF TypeA, Thread, TInv, ConnectionsFollowed, ThreadShapes, OwnSockets
  <1>4. OpenHandled'
    BY <1>1, Distinct DEF TypeA, Thread, TInv, ConnectionsFollowed, ThreadShapes, OpenHandled,
       Handling, Open, CONNECT, DISCONNECT
  <1>5. Unmixed'
    BY <1>1, Distinct DEF TypeA, Thread, TInv, ConnectionsFollowed, ThreadShapes, OwnSockets,
       OpenHandled, Unmixed, Handling, Accepting, CONNECT, DISCONNECT, None
  <1>6. Entry'
    BY <1>1, Distinct DEF TypeA, Thread, TInv, ConnectionsFollowed, ThreadShapes, Entry,
       Handling, Changes, None
  <1>7. AcceptNamesItsConnection'
    BY <1>1, Distinct DEF TypeA, Thread, TInv, ConnectionsFollowed, ThreadShapes,
       AcceptNamesItsConnection, Unmixed, CONNECT, DISCONNECT
  <1>8. EventsAlternate'
    BY <1>1, Distinct DEF TypeA, Thread, TInv, ConnectionsFollowed, EventsAlternate, Entry, Handling
  <1>9. ClosedIsForgotten'
    BY <1>1, Distinct DEF TypeA, Thread, TInv, ConnectionsFollowed, ThreadShapes, OpenHandled,
       Unmixed, ClosedIsForgotten, Handling, None, CONNECT
  <1>10. QED BY <1>2, <1>3, <1>4, <1>5, <1>6, <1>7, <1>8, <1>9 DEF TInv, ConnectionsFollowed

(* The last use of a connection begins, while the process is listened to.  *)
LEMMA CloseBegins ==
  ASSUME TypeA, TypeB, TInv, NEW t \in Threads, NEW c \in Conns, verbose # 0,
         kprobe_tcp_close(t, c)
  PROVE  TInv'
  <1>1. /\ thread[t].pc = "idle" /\ Open(c) /\ c \in Pairs
        /\ \A u \in Threads : ~Handling(u, c) /\ ~(Accepting(u) /\ thread[u].own = c)
        /\ thread'[t].pc = IF Changes(c, DISCONNECT) THEN "check" ELSE "delete"
        /\ thread'[t].conn = c /\ thread'[t].type = DISCONNECT
        /\ \A u \in Threads : u # t => thread'[u] = thread[u]
        /\ sk' = sk /\ ptr_map' = ptr_map
        /\ conn_map' = conn_map /\ sent' = sent
        /\ odd'.mixed = odd.mixed /\ odd'.unseen = odd.unseen
        /\ odd.raced \subseteq odd'.raced /\ \A u \in Threads : u # t /\ Handling(u, c) => c \in odd'.raced
    <2>1. /\ thread[t].pc = "idle" /\ Open(c)
          /\ \A u \in Threads : ~Handling(u, c) /\ ~(Accepting(u) /\ thread[u].own = c)
          /\ thread' = [thread EXCEPT ![t] = [Idle EXCEPT !.pc = IF Changes(c, DISCONNECT) THEN "check" ELSE "delete",
                                                        !.conn = c, !.type = DISCONNECT]]
          /\ odd' = [odd EXCEPT !.raced = Race(t, c)]
          /\ UNCHANGED <<sk, ptr_map, conn_map, sent>>
      BY DEF kprobe_tcp_close, eventVars
    <2>2. c \in Pairs /\ odd.raced \subseteq Race(t, c)
      BY Distinct DEF Race
    <2> QED
      BY <2>1, <2>2 DEF TypeA, Odd, Idle
  <1>2. ThreadShapes'
    BY <1>1, Distinct DEF TypeA, Thread, TInv, ConnectionsFollowed, ThreadShapes, OwnSockets,
       Handling, Types, CONNECT, DISCONNECT
  <1>3. OwnSockets'
    BY <1>1, Distinct DEF TypeA, Thread, TInv, ConnectionsFollowed, ThreadShapes, OwnSockets
  <1>4. OpenHandled'
    BY <1>1, Distinct DEF TypeA, Thread, TInv, ConnectionsFollowed, ThreadShapes, OpenHandled,
       Handling, Open, CONNECT, DISCONNECT
  <1>5. Unmixed'
    BY <1>1, Distinct DEF TypeA, Thread, TInv, ConnectionsFollowed, ThreadShapes, OwnSockets,
       OpenHandled, Unmixed, Handling, Accepting, CONNECT, DISCONNECT, None
  <1>6. Entry'
    BY <1>1, Distinct DEF TypeA, Thread, TInv, ConnectionsFollowed, ThreadShapes, Entry,
       Handling, Changes, None
  <1>7. AcceptNamesItsConnection'
    BY <1>1, Distinct DEF TypeA, Thread, TInv, ConnectionsFollowed, ThreadShapes,
       AcceptNamesItsConnection, Unmixed, CONNECT, DISCONNECT
  <1>8. EventsAlternate'
    BY <1>1, Distinct DEF TypeA, Thread, TInv, ConnectionsFollowed, EventsAlternate, Entry, Handling
  <1>9. ClosedIsForgotten'
    BY <1>1, Distinct DEF TypeA, Thread, TInv, ConnectionsFollowed, ThreadShapes, OpenHandled,
       Unmixed, ClosedIsForgotten, Handling, None, CONNECT
  <1>10. QED BY <1>2, <1>3, <1>4, <1>5, <1>6, <1>7, <1>8, <1>9 DEF TInv, ConnectionsFollowed

(* A connection is closed while the process is not listened to.            *)
LEMMA CloseUnseen ==
  ASSUME TypeA, TypeB, TInv, NEW t \in Threads, NEW c \in Conns, verbose = 0,
         kprobe_tcp_close(t, c)
  PROVE  TInv'
  <1>1. /\ c \in Pairs /\ \A u \in Threads : ~Handling(u, c) /\ ~(Accepting(u) /\ thread[u].own = c)
        /\ thread' = thread
        /\ \A s \in Socks : sk'[s] = IF sk[s] = c THEN Unused ELSE sk[s]
        /\ ptr_map' = ptr_map
        /\ conn_map' = conn_map /\ sent' = sent
        /\ odd'.mixed = odd.mixed /\ odd'.raced = odd.raced /\ odd.unseen \subseteq odd'.unseen
        /\ conn_map[c] # None => c \in odd'.unseen
    BY Distinct DEF TypeA, Odd, Thread, kprobe_tcp_close, eventVars
  <1>2. ThreadShapes'
    BY <1>1, Distinct DEF TypeA, Thread, TInv, ConnectionsFollowed, ThreadShapes, OwnSockets,
       Handling, Types, CONNECT, DISCONNECT
  <1>3. OwnSockets'
    BY <1>1, Distinct DEF TypeA, Thread, TInv, ConnectionsFollowed, ThreadShapes, OwnSockets
  <1>4. OpenHandled'
    BY <1>1, Distinct DEF TypeA, Thread, TInv, ConnectionsFollowed, ThreadShapes, OpenHandled,
       Handling, Open, CONNECT, DISCONNECT
  <1>5. Unmixed'
    BY <1>1, Distinct DEF TypeA, Thread, TInv, ConnectionsFollowed, ThreadShapes, OwnSockets,
       OpenHandled, Unmixed, Handling, Accepting, CONNECT, DISCONNECT, None
  <1>6. Entry'
    BY <1>1, Distinct DEF TypeA, Thread, TInv, ConnectionsFollowed, ThreadShapes, Entry,
       Handling, Changes, None
  <1>7. AcceptNamesItsConnection'
    BY <1>1, Distinct DEF TypeA, Thread, TInv, ConnectionsFollowed, ThreadShapes,
       AcceptNamesItsConnection, Unmixed, CONNECT, DISCONNECT
  <1>8. EventsAlternate'
    BY <1>1, Distinct DEF TypeA, Thread, TInv, ConnectionsFollowed, EventsAlternate, Entry, Handling
  <1>9. ClosedIsForgotten'
    BY <1>1, Distinct DEF TypeA, Thread, TInv, ConnectionsFollowed, ThreadShapes, OpenHandled,
       Unmixed, ClosedIsForgotten, Handling, None, CONNECT
  <1>10. QED BY <1>2, <1>3, <1>4, <1>5, <1>6, <1>7, <1>8, <1>9 DEF TInv, ConnectionsFollowed


-----------------------------------------------------------------------------
(* An event comes into a buffer, or leaves it.                             *)
LEMMA PutIn ==
  ASSUME TypeB, Apart, NEW k \in Buffers, NEW e \in Event, \A f \in InBuffers : f.n # e.n,
         samples' = [samples EXCEPT ![k] = Append(@, e)]
  PROVE  InBuffers' = InBuffers \cup {e} /\ Apart'
  <1>1. /\ \A j \in Buffers : samples[j] \in Seq(Event) /\ samples'[j] \in Seq(Event)
        /\ \A j \in Buffers \ {k} : samples'[j] = samples[j]
        /\ samples'[k] = Append(samples[k], e)
    BY DEF TypeB
  <1>2. /\ Len(samples[k]) \in Nat /\ Len(samples'[k]) = Len(samples[k]) + 1
        /\ samples'[k][Len(samples[k]) + 1] = e
        /\ \A i \in 1 .. Len(samples[k]) : samples'[k][i] = samples[k][i]
    BY <1>1
  <1>3. \A j \in Buffers : \A i \in 1 .. Len(samples[j]) : samples[j][i] \in InBuffers /\ samples[j][i].n # e.n
    BY <1>1 DEF InBuffers
  <1>4. \A j \in Buffers : \A i \in 1 .. Len(samples'[j]) :
          \/ i \in 1 .. Len(samples[j]) /\ samples'[j][i] = samples[j][i]
          \/ j = k /\ i = Len(samples[k]) + 1 /\ samples'[j][i] = e
    BY <1>1, <1>2
  <1>5. Apart'
    BY <1>3, <1>4 DEF Apart
  <1>6. \A j \in Buffers : \A i \in 1 .. Len(samples[j]) :
          i \in 1 .. Len(samples'[j]) /\ samples'[j][i] = samples[j][i]
    BY <1>1, <1>2
  <1>7. InBuffers' \subseteq InBuffers \cup {e}
    BY <1>4 DEF InBuffers
  <1>8. InBuffers \subseteq InBuffers'
    BY <1>6 DEF InBuffers
  <1>9. e \in InBuffers'
    <2>1. Len(samples[k]) + 1 \in 1 .. Len(samples'[k])
      BY <1>2
    <2> QED
      BY <1>2, <2>1 DEF InBuffers
  <1>10. QED BY <1>5, <1>7, <1>8, <1>9

LEMMA TookOut ==
  ASSUME TypeB, Apart, NEW k \in Buffers, samples[k] # <<>>,
         samples' = [samples EXCEPT ![k] = Tail(@)]
  PROVE  /\ Head(samples[k]) \in InBuffers
         /\ InBuffers' = InBuffers \ {Head(samples[k])}
         /\ \A f \in InBuffers' : f.n # Head(samples[k]).n
         /\ Apart'
  <1>. DEFINE e == Head(samples[k])
  <1>1. /\ \A j \in Buffers : samples[j] \in Seq(Event)
        /\ \A j \in Buffers \ {k} : samples'[j] = samples[j]
        /\ samples'[k] = Tail(samples[k])
    BY DEF TypeB
  <1>2. /\ Len(samples[k]) \in Nat /\ Len(samples[k]) >= 1 /\ e = samples[k][1] /\ e \in Event
        /\ Len(samples'[k]) = Len(samples[k]) - 1
        /\ \A i \in 1 .. Len(samples'[k]) : samples'[k][i] = samples[k][i + 1]
    <2>1. ASSUME NEW s \in Seq(Event), s # <<>>
          PROVE  /\ Len(s) \in Nat /\ Len(s) >= 1 /\ Head(s) = s[1] /\ Head(s) \in Event
                 /\ Len(Tail(s)) = Len(s) - 1
                 /\ \A i \in 1 .. Len(Tail(s)) : Tail(s)[i] = s[i + 1]
      BY <2>1
    <2>2. samples[k] \in Seq(Event) /\ samples[k] # <<>>
      BY <1>1
    <2>3. /\ Len(samples[k]) \in Nat /\ Len(samples[k]) >= 1 /\ e = samples[k][1] /\ e \in Event
          /\ Len(Tail(samples[k])) = Len(samples[k]) - 1
          /\ \A i \in 1 .. Len(Tail(samples[k])) : Tail(samples[k])[i] = samples[k][i + 1]
      BY <2>1, <2>2
    <2> QED
      BY <1>1, <2>3
  <1>. HIDE DEF e
  <1>3. \A j \in Buffers : \A i \in 1 .. Len(samples'[j]) :
          /\ j # k => i \in 1 .. Len(samples[j]) /\ samples'[j][i] = samples[j][i]
          /\ j = k => i + 1 \in 1 .. Len(samples[j]) /\ samples'[j][i] = samples[j][i + 1]
    BY <1>1, <1>2
  <1>4. 1 \in 1 .. Len(samples[k])
    BY <1>2
  <1>5. \A j \in Buffers : \A i \in 1 .. Len(samples'[j]) : samples'[j][i].n # e.n
    <2>1. TAKE j \in Buffers
    <2>2. TAKE i \in 1 .. Len(samples'[j])
    <2>3. CASE j # k
      BY <1>2, <1>3, <1>4, <2>3 DEF Apart
    <2>4. CASE j = k
      <3>1. i + 1 \in 1 .. Len(samples[k]) /\ samples'[k][i] = samples[k][i + 1] /\ i + 1 # 1
        BY <1>3, <2>4
      <3>2. samples[k][i + 1].n # samples[k][1].n
        BY <1>4, <3>1 DEF Apart
      <3> QED
        BY <1>2, <2>4, <3>1, <3>2
    <2> QED
      BY <2>3, <2>4
  <1>6. Apart'
    <2>1. SUFFICES ASSUME NEW j \in Buffers, NEW l \in Buffers,
                          NEW i \in 1 .. Len(samples'[j]), NEW h \in 1 .. Len(samples'[l]),
                          samples'[j][i].n = samples'[l][h].n
                   PROVE  j = l /\ i = h
      BY DEF Apart
    <2>2. j = l
      BY <1>3, <2>1 DEF Apart
    <2>3. CASE j = k
      <3>1. i + 1 = h + 1
        <4>1. /\ i + 1 \in 1 .. Len(samples[k]) /\ samples'[k][i] = samples[k][i + 1]
              /\ h + 1 \in 1 .. Len(samples[k]) /\ samples'[k][h] = samples[k][h + 1]
          <5>1. i \in 1 .. Len(samples'[k]) /\ h \in 1 .. Len(samples'[k])
            BY <2>1, <2>2, <2>3
          <5> QED
            BY <1>3, <5>1
        <4>2. samples[k][i + 1].n = samples[k][h + 1].n
          BY <2>1, <2>2, <2>3, <4>1
        <4> QED
          BY <4>1, <4>2 DEF Apart
      <3> QED
        BY <2>2, <3>1
    <2>4. CASE j # k
      BY <1>3, <2>1, <2>2, <2>4 DEF Apart
    <2> QED
      BY <2>3, <2>4
  <1>7. InBuffers' \subseteq InBuffers
    BY <1>3 DEF InBuffers
  <1>8. ASSUME NEW f \in InBuffers, f # e PROVE f \in InBuffers'
    <2>1. PICK j \in Buffers : \E i \in 1 .. Len(samples[j]) : samples[j][i] = f
      BY <1>8 DEF InBuffers
    <2>2. PICK i \in 1 .. Len(samples[j]) : samples[j][i] = f
      BY <2>1
    <2>3. CASE j # k
      BY <1>1, <2>2, <2>3 DEF InBuffers
    <2>4. CASE j = k
      <3>1. i - 1 \in 1 .. Len(samples'[k]) /\ (i - 1) + 1 = i
        BY <1>2, <1>8, <2>2, <2>4
      <3>2. samples'[k][i - 1] = f
        BY <1>2, <2>2, <2>4, <3>1
      <3> QED
        BY <1>8, <3>1, <3>2 DEF InBuffers
    <2> QED
      BY <2>3, <2>4
  <1>9. e \in InBuffers
    BY <1>2, <1>4 DEF InBuffers
  <1>10. \A f \in InBuffers' : f.n # e.n
    BY <1>5 DEF InBuffers
  <1>11. QED BY <1>6, <1>7, <1>8, <1>9, <1>10 DEF e

(* The steps that put out and read no event.                               *)
LEMMA NoEvent ==
  ASSUME DInv, UNCHANGED eventVars, odd'.lost = odd.lost, odd'.late = odd.late
  PROVE  DInv'
  BY DEF DInv, Apart, Numbers, InOrder, Somewhere, InBuffers, eventVars

LEMMA EventCounted ==
  ASSUME TypeA, TypeB, ThreadShapes, DInv, NEW t \in Threads, NEW k \in Buffers, emit_event(t, k)
  PROVE  DInv'
  <1>. DEFINE c == thread[t].conn
             e == [type |-> thread[t].type, conn |-> c, n |-> count + 1, prev |-> sent[c].n]
  <1>1. /\ c \in Pairs /\ thread[t].type \in Types /\ count \in Nat /\ count + 1 \in 1 .. MaxEvents
        /\ sent[c].n \in 0 .. MaxEvents
    BY RingAssumption DEF emit_event, TypeA, TypeB, ThreadShapes, Thread
  <1>2. /\ e \in Event /\ e.n = count + 1 /\ e.prev = sent[c].n /\ e.conn = c
    BY <1>1 DEF Event
  <1>3. /\ samples' = Emitted(k, e) /\ count' = count + 1 /\ machine' = machine
        /\ sent'[c].n = count + 1 /\ \A d \in Pairs \ {c} : sent'[d] = sent[d]
        /\ odd'.late = odd.late
        /\ odd'.lost = IF samples' = samples THEN odd.lost \cup {count + 1} ELSE odd.lost
    BY <1>1 DEF emit_event, TypeA, TypeB, Odd
  <1>. HIDE DEF c, e
  <1>4. /\ \A f \in InBuffers : f.n \in Nat /\ f.prev \in Nat /\ f.conn \in Pairs /\ f.n <= count
        /\ \A d \in Pairs : sent[d].n \in Nat /\ \A m \in machine[d] : m.n \in Nat
    <2>1. \A f \in InBuffers : f.n \in Nat /\ f.prev \in Nat /\ f.conn \in Pairs
      BY DEF InBuffers, Event
    <2>2. \A d \in Pairs : sent[d].n \in Nat /\ \A m \in machine[d] : m.n \in Nat
      BY DEF TypeB, Event
    <2>3. \A f \in InBuffers : f.n <= sent[f.conn].n /\ sent[f.conn].n <= count
      BY <2>1 DEF DInv, Numbers
    <2> QED
      BY <1>1, <2>1, <2>2, <2>3
  <1>5. \/ samples' = samples /\ InBuffers' = InBuffers /\ odd'.lost = odd.lost \cup {count + 1} /\ Apart'
        \/ InBuffers' = InBuffers \cup {e} /\ odd'.lost = odd.lost /\ Apart'
    <2>1. CASE Len(samples[k]) < RingSize
      <3>1. samples' = [samples EXCEPT ![k] = Append(@, e)]
        BY <1>3, <2>1 DEF Emitted
      <3>2. \A f \in InBuffers : f.n # e.n
        BY <1>1, <1>2, <1>4
      <3>3. InBuffers' = InBuffers \cup {e} /\ Apart'
        BY <1>2, <3>1, <3>2, PutIn DEF DInv
      <3>4. samples' # samples
        <4>1. samples[k] \in Seq(Event) /\ samples'[k] = Append(samples[k], e)
          BY <3>1 DEF TypeB
        <4> QED
          BY <1>2, <4>1
      <3> QED
        BY <1>3, <3>3, <3>4
    <2>2. CASE ~(Len(samples[k]) < RingSize)
      <3>1. samples' = samples
        BY <1>3, <2>2 DEF Emitted
      <3> QED
        BY <1>3, <3>1 DEF DInv, Apart, InBuffers
    <2> QED
      BY <2>1, <2>2
  <1>6. \A d \in Pairs : sent'[d].n \in Nat /\ sent[d].n <= sent'[d].n /\ sent'[d].n <= count + 1
    BY <1>1, <1>3, <1>4 DEF DInv, Numbers
  <1>7. Numbers'
    <2>1. \A f \in InBuffers' : f.n <= sent'[f.conn].n /\ f.prev < f.n
      <3>1. \A f \in InBuffers : f.n <= sent'[f.conn].n /\ f.prev < f.n
        <4> TAKE f \in InBuffers
        <4>1. f.n <= sent[f.conn].n /\ f.prev < f.n /\ f.conn \in Pairs
          BY <1>4 DEF DInv, Numbers
        <4> QED
          BY <1>4, <1>6, <4>1
      <3>2. e.n <= sent'[e.conn].n /\ e.prev < e.n
        BY <1>1, <1>2, <1>3 DEF DInv, Numbers
      <3> QED
        BY <1>5, <3>1, <3>2
    <2>2. \A f, g \in InBuffers' : f.conn = g.conn => g.n <= f.prev \/ f.n <= g.n
      <3>1. \A f, g \in InBuffers : f.conn = g.conn => g.n <= f.prev \/ f.n <= g.n
        BY DEF DInv, Numbers
      <3>2. \A f \in InBuffers : f.n <= e.n /\ (f.conn = c => f.n <= e.prev) /\ e.n <= e.n
        BY <1>1, <1>2, <1>4 DEF DInv, Numbers
      <3> QED
        BY <1>1, <1>2, <1>5, <3>1, <3>2
    <2>3. \A d \in Pairs : sent'[d].n <= count'
      BY <1>3, <1>6
    <2>4. \A d \in Pairs : \A m \in machine'[d] : m.conn = d /\ m.n <= sent'[d].n
      <3> TAKE d \in Pairs
      <3> TAKE m \in machine'[d]
      <3>1. m.conn = d /\ m.n <= sent[d].n /\ m.n \in Nat
        BY <1>3, <1>4 DEF DInv, Numbers
      <3> QED
        BY <1>4, <1>6, <3>1
    <2>5. \A d \in Pairs : \A m, q \in machine'[d] : m = q
      BY <1>3 DEF DInv, Numbers
    <2> QED
      BY <2>1, <2>2, <2>3, <2>4, <2>5 DEF Numbers
  <1>8. InOrder'
    <2>1. SUFFICES ASSUME NEW d \in Pairs \ odd.late
                   PROVE  /\ Somewhere(d, sent[d].n)'
                          /\ \A f \in InBuffers' : f.conn = d =>
                               Somewhere(d, f.prev)' /\ \A m \in machine[d] : m.n <= f.prev
      BY <1>3 DEF InOrder
    <2>2. \A n : Somewhere(d, n) => Somewhere(d, n)'
      BY <1>3, <1>5 DEF Somewhere
    <2>3. Somewhere(d, sent[d].n)
      BY DEF DInv, InOrder
    <2>4. Somewhere(d, sent[d].n)'
      <3>1. CASE d = c
        BY <1>2, <1>3, <1>5, <3>1 DEF Somewhere
      <3>2. CASE d # c
        <4>1. sent'[d] = sent[d]
          BY <1>3, <3>2
        <4> QED
          BY <1>3, <1>5, <2>3, <4>1 DEF Somewhere
      <3> QED
        BY <3>1, <3>2
    <2>5. ASSUME NEW f \in InBuffers', f.conn = d
          PROVE  Somewhere(d, f.prev)' /\ \A m \in machine[d] : m.n <= f.prev
      <3>1. CASE f \in InBuffers
        BY <1>3, <1>5, <2>5, <3>1 DEF Somewhere, DInv, InOrder
      <3>2. CASE f \notin InBuffers
        <4>1. f = e /\ d = c /\ f.prev = sent[d].n
          BY <1>2, <1>5, <2>5, <3>2
        <4>2. \A m \in machine[d] : m.n <= f.prev
          BY <4>1 DEF DInv, Numbers
        <4> QED
          BY <1>3, <1>5, <2>3, <4>1, <4>2 DEF Somewhere
      <3> QED
        BY <3>1, <3>2
    <2> QED
      BY <2>4, <2>5
  <1>9. QED BY <1>5, <1>7, <1>8 DEF DInv

\* a sequence is neither its own tail nor an extension of it
LEMMA NotItsTail ==
  ASSUME NEW S, NEW s \in Seq(S), s # <<>>
  PROVE  Tail(s) # s /\ \A e : Tail(s) # Append(s, e)
  OBVIOUS

LEMMA EventRead ==
  ASSUME TypeA, TypeB, DInv, NEW k \in Buffers, bufferEvent(k)
  PROVE  /\ DInv'
         /\ LET e == Head(samples[k])
            IN  e.conn \in odd'.late
                \/ \A pre \in machine[e.conn] : pre.n = e.prev \/ e.prev \in odd.lost
  <1>. DEFINE e == Head(samples[k])
  <1>1. /\ e \in InBuffers /\ InBuffers' = InBuffers \ {e} /\ Apart'
        /\ \A f \in InBuffers' : f.n # e.n
    BY TookOut DEF bufferEvent, DInv
  <1>2. /\ e \in Event /\ e.conn \in Pairs /\ e.n \in Nat /\ e.prev \in Nat
        /\ \A f \in InBuffers : f.n \in Nat /\ f.prev \in Nat /\ f.conn \in Pairs
        /\ \A c \in Pairs : sent[c].n \in Nat /\ \A m \in machine[c] : m.n \in Nat /\ m.n >= 1
    <2>1. \A f \in InBuffers : f \in Event
      BY DEF InBuffers
    <2>2. \A c \in Pairs : sent[c].n \in Nat /\ \A m \in machine[c] : m \in Event
      BY DEF TypeB
    <2>3. \A f \in Event : f.n \in Nat /\ f.n >= 1 /\ f.prev \in Nat /\ f.conn \in Pairs
      BY DEF Event
    <2> QED
      BY <1>1, <2>1, <2>2, <2>3
  <1>3. /\ machine'[e.conn] = {e} /\ \A c \in Pairs \ {e.conn} : machine'[c] = machine[c]
        /\ sent' = sent /\ count' = count
    BY <1>2 DEF bufferEvent, Remembered, TypeB
  <1>4. /\ odd'.lost = odd.lost /\ odd.late \subseteq odd'.late
        /\ e.conn \notin odd'.late => \A f \in InBuffers : f.conn = e.conn => ~(f.n < e.n)
    <2>1. odd' = [odd EXCEPT !.late =
              IF \E j \in Buffers : \E i \in DOMAIN samples[j] :
                   samples[j][i].conn = e.conn /\ samples[j][i].n < e.n
                THEN @ \cup {e.conn} ELSE @]
      BY DEF bufferEvent
    <2>2. \A f \in InBuffers : \E j \in Buffers : \E i \in DOMAIN samples[j] : samples[j][i] = f
      BY DEF InBuffers, TypeB
    <2> QED
      BY <2>1, <2>2 DEF TypeA, Odd
  <1>. HIDE DEF e
  <1>5. e.conn \notin odd'.late =>
          \A f \in InBuffers' : f.conn = e.conn => e.n <= f.prev
    BY <1>1, <1>2, <1>4 DEF DInv, Numbers
  <1>6. Numbers'
    <2>1. /\ \A f \in InBuffers' : f.n <= sent'[f.conn].n /\ f.prev < f.n
          /\ \A f, g \in InBuffers' : f.conn = g.conn => g.n <= f.prev \/ f.n <= g.n
          /\ \A c \in Pairs : sent'[c].n <= count'
      BY <1>1, <1>3 DEF DInv, Numbers
    <2>2. \A c \in Pairs : \A m \in machine'[c] : m.conn = c /\ m.n <= sent'[c].n
      BY <1>1, <1>3 DEF DInv, Numbers
    <2>3. \A c \in Pairs : \A m, q \in machine'[c] : m = q
      BY <1>1, <1>3 DEF DInv, Numbers
    <2> QED
      BY <2>1, <2>2, <2>3 DEF Numbers
  <1>7. ASSUME NEW c \in Pairs \ odd'.late
        PROVE  /\ Somewhere(c, sent[c].n)'
               /\ \A f \in InBuffers' : f.conn = c =>
                    Somewhere(c, f.prev)' /\ \A m \in machine'[c] : m.n <= f.prev
    <2>1. /\ Somewhere(c, sent[c].n)
          /\ \A f \in InBuffers : f.conn = c =>
               Somewhere(c, f.prev) /\ \A m \in machine[c] : m.n <= f.prev
      BY <1>4, <1>7 DEF DInv, InOrder
    <2>2. CASE c # e.conn
      <3>1. \A n : Somewhere(c, n) => Somewhere(c, n)'
        BY <1>1, <1>3, <1>4, <1>7, <2>2 DEF Somewhere
      <3> QED
        BY <1>1, <1>3, <1>7, <2>1, <2>2, <3>1 DEF Somewhere
    <2>3. CASE c = e.conn
      <3>1. \A m \in machine[c] : m.n <= e.prev
        BY <1>1, <2>1, <2>3
      <3>2. e.prev < e.n /\ e.n <= sent[c].n
        BY <1>1, <2>3 DEF DInv, Numbers
      <3>3. \A n \in Nat : e.n <= n /\ Somewhere(c, n) => Somewhere(c, n)'
        <4>1. SUFFICES ASSUME NEW n \in Nat, e.n <= n, Somewhere(c, n) PROVE Somewhere(c, n)'
          OBVIOUS
        <4>2. CASE \E m \in machine[c] : m.n = n
          BY <1>2, <3>1, <3>2, <4>1, <4>2
        <4>3. CASE n = 0 \/ n \in odd.lost
          BY <1>4, <4>3 DEF Somewhere
        <4>4. CASE \E f \in InBuffers : f.conn = c /\ f.n = n
          BY <1>1, <1>3, <2>3, <4>4 DEF Somewhere
        <4> QED
          BY <4>1, <4>2, <4>3, <4>4 DEF Somewhere
      <3>4. Somewhere(c, sent[c].n)'
        BY <1>2, <1>3, <2>1, <3>2, <3>3 DEF Somewhere
      <3>5. \A f \in InBuffers' : f.conn = c => e.n <= f.prev
        BY <1>5, <1>7, <2>3
      <3>6. \A f \in InBuffers' : f.conn = c => Somewhere(c, f.prev)'
        <4> TAKE f \in InBuffers'
        <4> HAVE f.conn = c
        <4>1. f \in InBuffers /\ f.prev \in Nat /\ e.n <= f.prev /\ Somewhere(c, f.prev)
          BY <1>1, <1>2, <2>1, <3>5
        <4> QED
          BY <3>3, <4>1 DEF Somewhere
      <3>7. \A f \in InBuffers' : f.conn = c => \A m \in machine'[c] : m.n <= f.prev
        BY <1>3, <2>3, <3>5
      <3> QED
        BY <3>4, <3>6, <3>7
    <2> QED
      BY <2>2, <2>3
  <1>8. DInv'
    <2>1. InOrder'
      BY <1>7 DEF InOrder
    <2> QED
      BY <1>1, <1>6, <2>1 DEF DInv
  <1>9. e.conn \in odd'.late \/ \A pre \in machine[e.conn] : pre.n = e.prev \/ e.prev \in odd.lost
    <2>1. SUFFICES ASSUME e.conn \notin odd'.late, NEW pre \in machine[e.conn], e.prev \notin odd.lost
                   PROVE  pre.n = e.prev
      OBVIOUS
    <2>2. Somewhere(e.conn, e.prev) /\ pre.n <= e.prev /\ pre.n \in Nat /\ pre.n >= 1
      BY <1>1, <1>2, <1>4, <2>1 DEF DInv, InOrder
    <2>3. ~ \E f \in InBuffers : f.conn = e.conn /\ f.n = e.prev
      BY <1>1, <1>2, <1>4, <2>1 DEF DInv, Numbers
    <2>4. e.prev # 0
      BY <1>2, <2>2
    <2>5. PICK m \in machine[e.conn] : m.n = e.prev
      BY <2>1, <2>2, <2>3, <2>4 DEF Somewhere
    <2>6. m = pre
      BY <1>1, <1>2, <2>1 DEF DInv, Numbers
    <2> QED
      BY <2>5, <2>6
  <1>10. QED BY <1>8, <1>9 DEF e

-----------------------------------------------------------------------------
Everything == TTypeOK /\ TInv /\ DInv

(* What a step means for a duration.                                       *)
SpanOneStep ==
  \A k \in Buffers :
    samples[k] # <<>> /\ samples'[k] = Tail(samples[k]) =>
      LET e == Head(samples[k])
      IN  e.conn \in odd'.late
          \/ \A pre \in machine[e.conn] : pre.n = e.prev \/ e.prev \in odd.lost

(* A step that leaves conn_map and what its handlers use alone.            *)
LEMMA UsesNot ==
  ASSUME TInv, UNCHANGED <<ptr_map, conn_map, sk, thread, sent>>,
         odd'.mixed = odd.mixed, odd'.raced = odd.raced, odd'.unseen = odd.unseen
  PROVE  TInv'
  BY DEF TInv, ThreadShapes, OwnSockets, OpenHandled, Unmixed, Entry, AcceptNamesItsConnection,
         ConnectionsFollowed, EventsAlternate, ClosedIsForgotten, Handling, Accepting

LEMMA TStep ==
  ASSUME Everything, [TNext]_tvars
  PROVE  Everything' /\ SpanOneStep
  <1>. SUFFICES TInv' /\ DInv' /\ SpanOneStep
    BY TypesStay DEF Everything, TInv
  <1>1. TypeA /\ TypeB /\ TInv /\ DInv /\ ThreadShapes
    BY DEF Everything, TTypeOK, TypeA, TypeB, TInv
  <1>2. ASSUME UNCHANGED samples PROVE SpanOneStep
    BY <1>1, <1>2, NotItsTail DEF SpanOneStep, TypeB
  <1>3. ASSUME UNCHANGED eventVars, odd'.lost = odd.lost, odd'.late = odd.late PROVE DInv' /\ SpanOneStep
    BY <1>1, <1>2, <1>3, NoEvent DEF eventVars
  <1>4. ASSUME NEW t \in Threads, NEW s \in Socks, kprobe_security_socket_accept(t, s) PROVE TInv' /\ DInv' /\ SpanOneStep
    <2>1. UNCHANGED eventVars /\ odd'.lost = odd.lost /\ odd'.late = odd.late
      BY <1>1, <1>4 DEF kprobe_security_socket_accept, TypeA, Odd
    <2> QED
      BY <1>1, <1>3, <1>4, <2>1, AcceptBegins
  <1>5. ASSUME NEW t \in Threads, NEW c \in Conns, AcceptDone(t, c) PROVE TInv' /\ DInv' /\ SpanOneStep
    <2>1. UNCHANGED eventVars /\ odd'.lost = odd.lost /\ odd'.late = odd.late
      BY <1>5 DEF AcceptDone
    <2> QED
      BY <1>1, <1>3, <1>5, <2>1, AcceptGets
  <1>6. ASSUME NEW t \in Threads, AcceptFailed(t) PROVE TInv' /\ DInv' /\ SpanOneStep
    <2>1. UNCHANGED eventVars /\ odd'.lost = odd.lost /\ odd'.late = odd.late
      BY <1>1, <1>6 DEF AcceptFailed, TypeA, Odd
    <2> QED
      BY <1>1, <1>3, <1>6, <2>1, AcceptFails
  <1>7. ASSUME NEW t \in Threads, AcceptNoAddress(t) PROVE TInv' /\ DInv' /\ SpanOneStep
    <2>1. UNCHANGED eventVars /\ odd'.lost = odd.lost /\ odd'.late = odd.late
      BY <1>1, <1>7 DEF AcceptNoAddress, TypeA, Odd
    <2> QED
      BY <1>1, <1>3, <1>7, <2>1, AcceptUnasked
  <1>8. ASSUME NEW t \in Threads, kretprobe_move_addr_to_user(t) PROVE TInv' /\ DInv' /\ SpanOneStep
    <2>1. UNCHANGED eventVars /\ odd'.lost = odd.lost /\ odd'.late = odd.late
      BY <1>1, <1>8 DEF kretprobe_move_addr_to_user, TypeA, Odd
    <2> QED
      BY <1>1, <1>3, <1>8, <2>1, AddressReturned
  <1>9. ASSUME NEW t \in Threads, RecordAccept(t) PROVE TInv' /\ DInv' /\ SpanOneStep
    <2>1. UNCHANGED eventVars /\ odd'.lost = odd.lost /\ odd'.late = odd.late
      BY <1>1, <1>9 DEF RecordAccept, TypeA, Odd
    <2> QED
      BY <1>1, <1>3, <1>9, <2>1, AcceptRecorded
  <1>10. ASSUME NEW t \in Threads, NEW k \in Buffers, emit_event(t, k) PROVE TInv' /\ DInv' /\ SpanOneStep
    <2>1. SpanOneStep
      <3>1. SUFFICES ASSUME NEW j \in Buffers, samples[j] # <<>>, samples'[j] = Tail(samples[j]) PROVE FALSE
        BY DEF SpanOneStep
      <3>2. samples[j] \in Seq(Event) /\ \E e : samples'[j] \in {samples[j], Append(samples[j], e)}
        BY <1>1, <1>10 DEF emit_event, Emitted, TypeB
      <3> QED
        BY <3>1, <3>2, NotItsTail
    <2> QED
      BY <1>1, <1>10, <2>1, EventCounted, EventEmitted
  <1>11. ASSUME NEW t \in Threads, check_state_write(t) PROVE TInv' /\ DInv' /\ SpanOneStep
    <2>1. UNCHANGED eventVars /\ odd'.lost = odd.lost /\ odd'.late = odd.late
      BY <1>11 DEF check_state_write
    <2> QED
      BY <1>1, <1>3, <1>11, <2>1, TypeWritten
  <1>12. ASSUME NEW t \in Threads, CloseDone(t) PROVE TInv' /\ DInv' /\ SpanOneStep
    <2>1. UNCHANGED eventVars /\ odd'.lost = odd.lost /\ odd'.late = odd.late
      BY <1>12 DEF CloseDone
    <2> QED
      BY <1>1, <1>3, <1>12, <2>1, CloseEnds
  <1>13. ASSUME NEW t \in Threads, NEW c \in Conns, NEW type \in {RECV_CLEAN_RBUF, SEND_ENTRY},
                SendOrReceive(t, c, type) PROVE TInv' /\ DInv' /\ SpanOneStep
    <2>1. UNCHANGED eventVars /\ odd'.lost = odd.lost /\ odd'.late = odd.late
      BY <1>1, <1>13 DEF SendOrReceive, TypeA, Odd
    <2> QED
      BY <1>1, <1>3, <1>13, <2>1, DataSeen
  <1>14. ASSUME NEW t \in Threads, NEW c \in Conns, kprobe_tcp_close(t, c) PROVE TInv' /\ DInv' /\ SpanOneStep
    <2>1. UNCHANGED eventVars /\ odd'.lost = odd.lost /\ odd'.late = odd.late
      BY <1>1, <1>14 DEF kprobe_tcp_close, TypeA, Odd
    <2> QED
      BY <1>1, <1>3, <1>14, <2>1, CloseBegins, CloseUnseen
  <1>15. ASSUME NEW v \in Levels \cup {0}, SetVerbose(v) PROVE TInv' /\ DInv' /\ SpanOneStep
    <2>1. UNCHANGED <<ptr_map, conn_map, sk, thread, odd, eventVars, accepts>>
      BY <1>15 DEF SetVerbose
    <2>2. TInv'
      BY <1>1, <2>1, UsesNot DEF eventVars
    <2> QED
      BY <1>1, <1>3, <2>1, <2>2
  <1>16. ASSUME NEW k \in Buffers, bufferEvent(k) PROVE TInv' /\ DInv' /\ SpanOneStep
    <2>1. TInv'
      <3>1. UNCHANGED <<ptr_map, conn_map, sk, thread, sent>> /\ odd'.mixed = odd.mixed
            /\ odd'.raced = odd.raced /\ odd'.unseen = odd.unseen
        BY <1>1, <1>16 DEF bufferEvent, TypeA, Odd
      <3> QED
        BY <1>1, <3>1, UsesNot
    <2>2. SpanOneStep
      <3>1. SUFFICES ASSUME NEW j \in Buffers, samples[j] # <<>>, samples'[j] = Tail(samples[j])
                     PROVE  j = k
        BY <1>1, <1>16, EventRead DEF SpanOneStep
      <3>2. samples[j] \in Seq(Event) /\ (j # k => samples'[j] = samples[j])
        BY <1>1, <1>16 DEF bufferEvent, TypeB
      <3> QED
        BY <3>1, <3>2, NotItsTail
    <2> QED
      BY <1>1, <1>16, <2>1, <2>2, EventRead
  <1>17. CASE UNCHANGED tvars
    <2>1. UNCHANGED <<ptr_map, conn_map, sk, thread, odd, sent>> /\ UNCHANGED eventVars
      BY <1>17 DEF tvars, eventVars
    <2>2. TInv'
      BY <1>1, <2>1, UsesNot
    <2> QED
      BY <1>1, <1>3, <2>1, <2>2
  <1>18. QED
    BY <1>4, <1>5, <1>6, <1>7, <1>8, <1>9, <1>10, <1>11, <1>12, <1>13, <1>14, <1>15, <1>16, <1>17
    DEF TNext, Probe

-----------------------------------------------------------------------------
(* The maps of tcpreq.c, the threads in its probes, the events and the     *)
(* event machine of tcpreq.go keep their types, a CPU's buffer its size.   *)
THEOREM TcpTypes == TSpec => []TTypeOK
  BY TStart, TStep, PTL DEF TSpec, Everything

(* kprobe_security_socket_accept and kretprobe_move_addr_to_user: an       *)
(* accept's event names the connection that was accepted.                  *)
THEOREM AcceptNamed == TSpec => []AcceptNamesItsConnection
  <1>1. Everything => AcceptNamesItsConnection
    BY DEF Everything, TInv
  <1>2. QED BY <1>1, TStart, TStep, PTL DEF TSpec, Everything

(* check_state, kprobe_tcp_close: conn_map follows every connection.       *)
THEOREM ConnectionFollowed == TSpec => []ConnectionsFollowed
  <1>1. Everything => ConnectionsFollowed
    BY DEF Everything, TInv
  <1>2. QED BY <1>1, TStart, TStep, PTL DEF TSpec, Everything

(* bufferEvent: a duration is between an event and the one before it.      *)
THEOREM DurationsRight == TSpec => DurationsSpanOneStep
  <1>1. ASSUME Everything, [TNext]_tvars PROVE [SpanOneStep]_tvars
    BY <1>1, TStep
  <1>2. QED BY <1>1, TStart, TStep, PTL DEF TSpec, DurationsSpanOneStep, SpanOneStep, Everything

-----------------------------------------------------------------------------
(* Positions and their remainders, for any size of a ring.                 *)
LEMMA Division ==
  ASSUME NEW s \in Nat, s > 0, NEW a \in Int
  PROVE  /\ a % s \in 0 .. s - 1
         /\ \E q \in Int : a = (q * s) + (a % s)
  OBVIOUS

LEMMA Remainder ==
  ASSUME NEW s \in Nat, s > 0, NEW q \in Int, NEW r \in 0 .. s - 1
  PROVE  ((q * s) + r) % s = r
  OBVIOUS

\* numbers that differ by a multiple of s have one remainder
LEMMA SameRemainder ==
  ASSUME NEW s \in Nat, s > 0, NEW a \in Int, NEW q \in Int
  PROVE  (a + (q * s)) % s = a % s
  <1>1. PICK k \in Int : a = (k * s) + (a % s)
    BY Division
  <1>2. a + (q * s) = ((k + q) * s) + (a % s)
    BY <1>1
  <1>3. k + q \in Int /\ a % s \in 0 .. s - 1
    BY <1>1, Division
  <1>4. QED BY <1>2, <1>3, Remainder

\* numbers less than s apart have different ones
LEMMA OtherRemainder ==
  ASSUME NEW s \in Nat, s > 0, NEW a \in Int, NEW b \in Int, a < b, b < a + s
  PROVE  a % s # b % s
  <1>1. PICK k \in Int : a = (k * s) + (a % s)
    BY Division
  <1>2. PICK l \in Int : b = (l * s) + (b % s)
    BY Division
  <1>3. a % s \in 0 .. s - 1 /\ b % s \in 0 .. s - 1
    BY Division
  <1>4. SUFFICES ASSUME a % s = b % s PROVE FALSE
    OBVIOUS
  <1>5. b - a = (l - k) * s
    BY <1>1, <1>2, <1>3, <1>4
  <1>6. CASE l - k <= 0
    <2>1. (l - k) * s <= 0
      BY <1>6
    <2> QED
      BY <1>5, <2>1
  <1>7. CASE l - k >= 1
    <2>1. (l - k) * s >= s
      BY <1>7
    <2> QED
      BY <1>5, <2>1
  <1>8. QED BY <1>6, <1>7

LEMMA Small ==
  ASSUME NEW s \in Nat, s > 0, NEW a \in 0 .. s - 1
  PROVE  a % s = a
  OBVIOUS

\* remainders of sums
LEMMA SumRemainder ==
  ASSUME NEW s \in Nat, s > 0, NEW a \in Int, NEW b \in Int
  PROVE  ((a % s) + b) % s = (a + b) % s
  <1>1. PICK k \in Int : a = (k * s) + (a % s)
    BY Division
  <1>2. a % s \in Int
    BY Division
  <1>3. a + b = ((a % s) + b) + (k * s)
    BY <1>1, <1>2
  <1>4. (a % s) + b \in Int
    BY <1>2
  <1>5. QED BY <1>3, <1>4, SameRemainder

(* Every set of numbers has a least one: the induction of the proofs       *)
(* below about how far a reader has to go.                                 *)
LEMMA Least ==
  ASSUME NEW T \in SUBSET Nat, T # {}
  PROVE \E m \in T : \A n \in T : m <= n
<1> DEFINE U == {0 .. n : n \in T}
<1>1. U \subseteq FiniteSubsetsOf(Nat) /\ U # {}
  <2>1. \A n \in T : IsFiniteSet(0 .. n) /\ 0 .. n \in SUBSET Nat
    BY FS_Interval
  <2> QED
    BY <2>1 DEF FiniteSubsetsOf
<1>2. PICK S \in U : \A R \in U : ~ (<<R, S>> \in StrictSubsetOrdering(Nat))
  <2> HIDE DEF U
  <2> QED
    BY <1>1, FS_StrictSubsetOrderingWellFounded, WFMin
<1>3. PICK m \in T : S = 0 .. m
  BY <1>2
<1>4. ASSUME NEW n \in T, ~ (m <= n) PROVE FALSE
  <2>1. 0 .. n \in U /\ 0 .. n \subseteq 0 .. m /\ m \notin 0 .. n /\ m \in 0 .. m
    BY <1>4
  <2>2. 0 .. n # 0 .. m
    BY <2>1
  <2>3. 0 .. n \in SUBSET Nat /\ 0 .. m \in SUBSET Nat
    OBVIOUS
  <2> QED
    BY <2>1, <2>2, <2>3, <1>2, <1>3 DEF StrictSubsetOrdering
<1> QED
  BY <1>4

-----------------------------------------------------------------------------
(* PerfBuffer: what perf_buffer__new has got, and perf_buffer__free has    *)
(* left.                                                                   *)

\* what a CPU has after n steps of perf_buffer__new's loop
Stage(n) == {Order[i] : i \in 1 .. n}

(* The CPUs in the order of the loops: those before perf_buffer__new's     *)
(* place have all they need and those behind it nothing; those before      *)
(* perf_buffer__free's place have nothing, and no CPU behind one without a *)
(* buffer has one.                                                         *)
InStages ==
  /\ DOMAIN pb = {"pc", "cpu", "ready", "head", "tail"}
  /\ pb.pc \in {"none", "new", "free", "open", "poll", "read", "error"}
  /\ pb.pc = "none" => \A c \in CPUs : res[c] = {}
  /\ pb.pc = "new" =>
       /\ pb.cpu \in CPUs
       /\ \A c \in CPUs : (c < pb.cpu => res[c] # {}) /\ (c > pb.cpu => res[c] = {})
       /\ \E n \in 0 .. 4 : res[pb.cpu] = Stage(n)
  /\ pb.pc = "free" =>
       /\ pb.cpu \in 1 .. Max_cpu + 1
       /\ \A c \in CPUs : c < pb.cpu => res[c] = {}
       /\ \A c, d \in CPUs : pb.cpu <= c /\ c < d /\ res[d] # {} => res[c] # {}
  /\ pb.pc \in {"open", "poll", "read", "error"} => \A c \in CPUs : res[c] # {}
  /\ res \in [CPUs -> SUBSET Resources]

-----------------------------------------------------------------------------
(* The next thing a CPU needs after n steps.                               *)
LEMMA NextNeed ==
  ASSUME NEW n \in 0 .. 4
  PROVE  /\ (CHOOSE i \in 1 .. 5 : Order[i] \notin Stage(n)
                                   /\ \A j \in 1 .. i - 1 : Order[j] \in Stage(n)) = n + 1
         /\ Stage(n) \cup {Order[n + 1]} = Stage(n + 1)
         /\ Stage(n + 1) # {} /\ Stage(n) \subseteq Resources /\ Stage(n + 1) \subseteq Resources
         /\ n > 0 => Stage(n) # {}
  <1>1. \A i \in 1 .. 5, j \in 1 .. 5 : Order[i] = Order[j] => i = j
    BY DEF Order
  <1>2. \A i \in 1 .. 5 : Order[i] \in Stage(n) <=> i <= n
    BY <1>1 DEF Stage
  <1>3. \A i \in 1 .. 5 : (Order[i] \notin Stage(n) /\ \A j \in 1 .. i - 1 : Order[j] \in Stage(n)) <=> i = n + 1
    BY <1>2
  <1>4. n + 1 \in 1 .. 5
    OBVIOUS
  <1>5. (CHOOSE i \in 1 .. 5 : Order[i] \notin Stage(n)
                               /\ \A j \in 1 .. i - 1 : Order[j] \in Stage(n)) = n + 1
    BY <1>3, <1>4
  <1>6. Stage(n) \cup {Order[n + 1]} = Stage(n + 1)
    BY DEF Stage
  <1>7. /\ Stage(n + 1) # {} /\ Stage(n) \subseteq Resources /\ Stage(n + 1) \subseteq Resources
        /\ n > 0 => Stage(n) # {}
    <2>1. Order[1] = "fd" /\ Order[2] = "mmap" /\ Order[3] = "enabled" /\ Order[4] = "key" /\ Order[5] = "epoll"
      BY DEF Order
    <2> QED
      BY <2>1 DEF Stage, Resources
  <1>8. QED BY <1>5, <1>6, <1>7

LEMMA StagesStart == PerfInit => InStages
  BY DEF PerfInit, InStages, Resting

(* The steps of the buffer's life.                                         *)
LEMMA StagesPassed ==
  ASSUME InStages, PerfNext
  PROVE  InStages'
  <1>0. /\ Max_cpu \in Nat \ {0} /\ Resting.pc = "none"
        /\ \A x : [Resting EXCEPT !.pc = x].pc = x
        /\ DOMAIN Resting = {"pc", "cpu", "ready", "head", "tail"}
        /\ [Resting EXCEPT !.pc = "free", !.cpu = 1].cpu = 1 /\ [Resting EXCEPT !.pc = "new", !.cpu = 1].cpu = 1
        /\ [Resting EXCEPT !.pc = "free", !.cpu = 1].pc = "free" /\ [Resting EXCEPT !.pc = "new", !.cpu = 1].pc = "new"
    BY MmapAssumption DEF Resting
  <1>1. CASE New
    <2>1. Stage(0) = {}
      BY DEF Stage
    <2>2. pb' = [Resting EXCEPT !.pc = "new", !.cpu = 1] /\ res' = res /\ \A c \in CPUs : res[c] = {}
      BY <1>1 DEF New, InStages
    <2>3. pb'.pc = "new" /\ pb'.cpu = 1 /\ 1 \in CPUs /\ DOMAIN pb' = {"pc", "cpu", "ready", "head", "tail"}
      BY <1>0, <2>2 DEF CPUs
    <2>4. \E n \in 0 .. 4 : res'[pb'.cpu] = Stage(n)
      BY <2>1, <2>2, <2>3
    <2> QED
      BY <2>2, <2>3, <2>4, <1>1 DEF InStages, CPUs
  <1>2. CASE OpenStep
    <2>1. PICK n \in 0 .. 4 : res[pb.cpu] = Stage(n)
      BY <1>2 DEF OpenStep, InStages
    <2>2. pb.pc = "new" /\ pb.cpu \in CPUs /\ res \in [CPUs -> SUBSET Resources]
          /\ \A c \in CPUs : (c < pb.cpu => res[c] # {}) /\ (c > pb.cpu => res[c] = {})
      BY <1>2 DEF OpenStep, InStages
    <2>3. \/ /\ res' = [res EXCEPT ![pb.cpu] = Stage(n + 1)]
             /\ pb' = IF n + 1 < 5 THEN pb ELSE IF pb.cpu < Max_cpu THEN [pb EXCEPT !.cpu = pb.cpu + 1]
                                                 ELSE [Resting EXCEPT !.pc = "open"]
          \/ /\ pb' = [Resting EXCEPT !.pc = "free", !.cpu = 1]
             /\ res' = IF n + 1 <= 3 THEN [res EXCEPT ![pb.cpu] = {}] ELSE res
      <3>. DEFINE k == CHOOSE i \in 1 .. 5 : Order[i] \notin res[pb.cpu] /\ \A j \in 1 .. i - 1 : Order[j] \in res[pb.cpu]
      <3>1. k = n + 1
        BY <2>1, NextNeed
      <3>2. \/ /\ res' = [res EXCEPT ![pb.cpu] = @ \cup {Order[k]}]
               /\ pb' = IF k < 5 THEN pb ELSE IF pb.cpu < Max_cpu THEN [pb EXCEPT !.cpu = pb.cpu + 1]
                                                   ELSE [Resting EXCEPT !.pc = "open"]
            \/ /\ pb' = [Resting EXCEPT !.pc = "free", !.cpu = 1]
               /\ res' = IF k <= 3 THEN [res EXCEPT ![pb.cpu] = {}] ELSE res
        BY <1>2 DEF OpenStep
      <3>. HIDE DEF k
      <3>3. res[pb.cpu] \cup {Order[n + 1]} = Stage(n + 1)
        BY <2>1, NextNeed
      <3> QED
        BY <3>1, <3>2, <3>3
    <2>4. CASE /\ res' = [res EXCEPT ![pb.cpu] = Stage(n + 1)] /\ n + 1 < 5 /\ pb' = pb
      BY <2>2, <2>4, NextNeed DEF InStages
    <2>5. CASE /\ res' = [res EXCEPT ![pb.cpu] = Stage(n + 1)] /\ n + 1 = 5
               /\ pb.cpu < Max_cpu /\ pb' = [pb EXCEPT !.cpu = pb.cpu + 1]
      <3>1. res'[pb.cpu] # {} /\ \A c \in CPUs : c # pb.cpu => res'[c] = res[c]
        BY <2>2, <2>5, NextNeed
      <3>2. pb'.pc = "new" /\ pb'.cpu = pb.cpu + 1 /\ DOMAIN pb' = {"pc", "cpu", "ready", "head", "tail"}
        BY <1>2, <2>2, <2>5 DEF InStages
      <3>3. pb'.cpu \in CPUs /\ res'[pb'.cpu] = Stage(0)
        BY <1>0, <2>2, <2>5, <3>1, <3>2 DEF CPUs, Stage
      <3>4. res' \in [CPUs -> SUBSET Resources]
        BY <2>2, <2>5, NextNeed
      <3>5. \A c \in CPUs : (c < pb'.cpu => res'[c] # {}) /\ (c > pb'.cpu => res'[c] = {})
        BY <1>0, <2>2, <3>1, <3>2 DEF CPUs
      <3> QED
        BY <3>2, <3>3, <3>4, <3>5 DEF InStages
    <2>6. CASE /\ res' = [res EXCEPT ![pb.cpu] = Stage(n + 1)] /\ n + 1 = 5
               /\ ~(pb.cpu < Max_cpu) /\ pb' = [Resting EXCEPT !.pc = "open"]
      BY <1>0, <2>2, <2>6, NextNeed DEF InStages, CPUs
    <2>7. CASE /\ pb' = [Resting EXCEPT !.pc = "free", !.cpu = 1]
               /\ res' = IF n + 1 <= 3 THEN [res EXCEPT ![pb.cpu] = {}] ELSE res
      <3>1. pb'.pc = "free" /\ pb'.cpu = 1 /\ DOMAIN pb' = {"pc", "cpu", "ready", "head", "tail"}
        BY <1>0, <2>7
      <3>2. /\ res' \in [CPUs -> SUBSET Resources]
            /\ \A c \in CPUs : (c < pb.cpu => res'[c] # {}) /\ (c > pb.cpu => res'[c] = {})
        BY <2>2, <2>7
      <3> QED
        BY <1>0, <2>2, <3>1, <3>2 DEF InStages, CPUs
    <2> QED
      BY <2>3, <2>4, <2>5, <2>6, <2>7
  <1>3. CASE Free
    BY <1>0, <1>3 DEF Free, InStages, CPUs
  <1>4. CASE FreeStep
    <2>1. pb.pc = "free" /\ pb.cpu \in 1 .. Max_cpu + 1 /\ res \in [CPUs -> SUBSET Resources]
      BY <1>4 DEF FreeStep, InStages
    <2>2. CASE Present(pb.cpu)
      <3>1. pb' = [pb EXCEPT !.cpu = pb.cpu + 1] /\ res' = [res EXCEPT ![pb.cpu] = {}] /\ pb.cpu \in CPUs
        BY <1>0, <1>4, <2>1, <2>2 DEF FreeStep, Present, CPUs
      <3>2. pb'.pc = "free" /\ pb'.cpu = pb.cpu + 1 /\ DOMAIN pb' = {"pc", "cpu", "ready", "head", "tail"}
        BY <1>4, <2>1, <3>1 DEF InStages
      <3>3. /\ res' \in [CPUs -> SUBSET Resources] /\ res'[pb.cpu] = {}
            /\ \A c \in CPUs : c # pb.cpu => res'[c] = res[c]
        BY <2>1, <3>1
      <3>4. \A c \in CPUs : c < pb'.cpu => res'[c] = {}
        BY <1>0, <2>1, <3>2, <3>3 DEF InStages, CPUs
      <3>5. \A c, d \in CPUs : pb'.cpu <= c /\ c < d /\ res'[d] # {} => res'[c] # {}
        BY <1>0, <2>1, <3>2, <3>3 DEF InStages, CPUs
      <3> QED
        BY <1>0, <2>1, <3>1, <3>2, <3>3, <3>4, <3>5 DEF InStages, CPUs
    <2>3. CASE ~Present(pb.cpu)
      BY <1>0, <1>4, <2>1, <2>3 DEF FreeStep, InStages, Present, CPUs
    <2> QED
      BY <2>2, <2>3
  <1>5. CASE Poll
    BY <1>5, <1>0 DEF Poll, InStages
  <1>6. CASE ReadHead
    BY <1>6 DEF ReadHead, InStages
  <1>7. CASE ReadRecord
    <2>1. pb'.pc = pb.pc
      BY <1>7 DEF ReadRecord
    <2> QED
      BY <1>7, <2>1 DEF ReadRecord, InStages
  <1>8. CASE ReadEnd
    <2>1. pb'.pc \in {"open", "poll"}
      BY <1>0, <1>8 DEF ReadEnd
    <2> QED
      BY <1>0, <1>8, <2>1 DEF ReadEnd, InStages
  <1>9. CASE ReadNoMemory
    BY <1>0, <1>9 DEF ReadNoMemory, InStages
  <1>10. QED
    BY <1>1, <1>2, <1>3, <1>4, <1>5, <1>6, <1>7, <1>8, <1>9 DEF PerfNext

(* The programs in the kernel and the listener leave the buffer's parts    *)
(* as they are.                                                            *)
LEMMA ProgramsKeepStages ==
  ASSUME InStages, [Next]_vars
  PROVE  InStages'
  <1>1. CASE PerfNext
    BY <1>1, StagesPassed
  <1>2. CASE UNCHANGED <<pb, res>>
    BY <1>2 DEF InStages
  <1>3. QED
    BY <1>1, <1>2 DEF Next, Program, OpenOutput, OpenDelete, WriteBlock, detect_file_open,
       detect_file_open_ret,
                      detect_file_write, Listen, SetFilter, vars, perfVars

(* perf_buffer__new and perf_buffer__free: when the buffer has been given  *)
(* up, after whichever failure, no CPU has anything of it left.            *)
THEOREM NothingStays == Spec => []NothingLeft
  <1>1. Init => InStages
    BY StagesStart DEF Init
  <1>2. InStages => NothingLeft
    BY DEF InStages, NothingLeft
  <1>3. QED BY <1>1, <1>2, ProgramsKeepStages, PTL DEF Spec

-----------------------------------------------------------------------------
(* PerfBuffer and FileReader: records in words, and in the order in which  *)
(* they were put out.                                                      *)

\* records as they are put into a ring, and the memory of one
Sampled == [rec : Reports, size : 1 .. mmap_size]
Memory == [0 .. mmap_size - 1 -> Words \cup {Nothing}]

\* the word at position p
Word(mem, p) == mem[p % mmap_size]

\* from position a to h there are whole records
Whole(mem, h, a) ==
  \A p \in a .. h - 1 :
    LET w == Word(mem, p)
    IN  /\ w \in Words /\ w.i < w.s.size
        /\ a <= p - w.i /\ p - w.i + w.s.size <= h
        /\ \A j \in 0 .. w.s.size - 1 : Word(mem, p - w.i + j) = [s |-> w.s, i |-> j]

\* a record starts at p, or nothing is there yet
Starts(mem, h, p) == p = h \/ Word(mem, p).i = 0

(* A ring has words.                                                       *)
LEMMA MmapSize == mmap_size \in Nat /\ mmap_size > 0
  BY MmapAssumption

(* Behind a record there starts another one, or none.                      *)
LEMMA NextStarts ==
  ASSUME NEW mem, NEW h \in Nat, NEW a \in Nat, a < h, Whole(mem, h, a), Starts(mem, h, a),
         NEW w, w = Word(mem, a)
  PROVE  /\ w \in Words /\ w.s.size \in 1 .. mmap_size
         /\ a + w.s.size \in a + 1 .. h
         /\ Starts(mem, h, a + w.s.size) /\ Whole(mem, h, a + w.s.size)
         /\ \A j \in 0 .. w.s.size - 1 : Word(mem, a + j) = [s |-> w.s, i |-> j]
  <1> DEFINE n == a + w.s.size
  <1>1. /\ w \in Words /\ w.i = 0 /\ w.s.size \in 1 .. mmap_size
        /\ a + w.s.size <= h
        /\ \A j \in 0 .. w.s.size - 1 : Word(mem, a + j) = [s |-> w.s, i |-> j]
    <2>1. a \in a .. h - 1
      OBVIOUS
    <2>2. /\ w \in Words /\ a - w.i + w.s.size <= h /\ w.i = 0
          /\ \A j \in 0 .. w.s.size - 1 : Word(mem, a - w.i + j) = [s |-> w.s, i |-> j]
      BY <2>1 DEF Whole, Starts
    <2>3. w.s.size \in 1 .. mmap_size
      BY <2>2 DEF Words, Sampled
    <2>4. \A j \in 0 .. w.s.size - 1 : a - w.i + j = a + j
      BY <2>2, <2>3
    <2>5. a - w.i + w.s.size = a + w.s.size
      BY <2>2, <2>3, MmapSize
    <2> QED
      BY <2>2, <2>3, <2>4, <2>5
  <1>2. n \in a + 1 .. h /\ n \in Nat
    BY <1>1, MmapSize
  <1>3. \A q \in n .. h - 1 :
          LET v == Word(mem, q)
          IN  /\ v \in Words /\ v.i \in Nat /\ v.s.size \in 1 .. mmap_size /\ v.i < v.s.size
              /\ a <= q - v.i /\ q - v.i + v.s.size <= h
              /\ \A j \in 0 .. v.s.size - 1 : Word(mem, q - v.i + j) = [s |-> v.s, i |-> j]
    BY <1>2, MmapSize DEF Whole, Words, Sampled
  <1>4. ASSUME NEW q \in n .. h - 1 PROVE n <= q - Word(mem, q).i
    <2> DEFINE v == Word(mem, q)
    <2>1. SUFFICES ASSUME q - v.i < n PROVE FALSE
      BY <1>2, <1>3
    <2>2. v.i \in Nat /\ v.s.size \in Nat /\ v.i < v.s.size /\ a <= q - v.i
          /\ \A j \in 0 .. v.s.size - 1 : Word(mem, q - v.i + j) = [s |-> v.s, i |-> j]
      BY <1>3, MmapSize
    <2>3. n - 1 - (q - v.i) \in 0 .. v.s.size - 1 /\ q - v.i + (n - 1 - (q - v.i)) = a + (w.s.size - 1)
      BY <1>1, <1>2, <2>1, <2>2, MmapSize
    <2>4. Word(mem, a + (w.s.size - 1)) = [s |-> v.s, i |-> n - 1 - (q - v.i)]
      BY <2>2, <2>3
    <2>5. Word(mem, a + (w.s.size - 1)) = [s |-> w.s, i |-> w.s.size - 1]
      BY <1>1, MmapSize
    <2>6. w.s = v.s /\ w.s.size - 1 = n - 1 - (q - v.i)
      BY <2>4, <2>5
    <2>7. q - v.i = a
      BY <1>1, <1>2, <2>2, <2>6, MmapSize
    <2> QED
      BY <1>1, <1>2, <2>2, <2>6, <2>7, MmapSize
  <1>5. Whole(mem, h, n)
    BY <1>3, <1>4 DEF Whole
  <1>6. Starts(mem, h, n)
    <2>1. CASE n = h
      BY <2>1 DEF Starts
    <2>2. CASE n < h
      <3>1. n \in n .. h - 1
        BY <1>2, <2>2
      <3>2. Word(mem, n).i = 0
        BY <1>2, <1>3, <1>4, <3>1
      <3> QED
        BY <3>2 DEF Starts
    <2> QED
      BY <1>2, <2>1, <2>2
  <1> QED
    BY <1>1, <1>2, <1>5, <1>6

(* The record that starts at a position is read as it was put.             *)
LEMMA ReadsAsPut ==
  ASSUME NEW mem, NEW a \in Nat, NEW s \in Sampled,
         \A j \in 0 .. s.size - 1 : Word(mem, a + j) = [s |-> s, i |-> j]
  PROVE  Meaning(RecordAt(mem, a)) = s.rec
  <1> DEFINE off == a % mmap_size
             size == mem[off].s.size
             words == RecordAt(mem, a)
  <1>1. s.size \in Nat /\ s.size >= 1 /\ s.size <= mmap_size /\ off \in 0 .. mmap_size - 1
    BY MmapSize, Division DEF Sampled
  <1>2. mem[off] = [s |-> s, i |-> 0] /\ size = s.size
    <2>1. 0 \in 0 .. s.size - 1 /\ a + 0 = a
      BY <1>1
    <2>2. Word(mem, a + 0) = [s |-> s, i |-> 0]
      BY <2>1
    <2> QED
      BY <2>1, <2>2 DEF Word
  <1>3. \A i \in 0 .. size - 1 :
          /\ off + i < mmap_size => mem[off + i] = [s |-> s, i |-> i]
          /\ off + i >= mmap_size => mem[i - (mmap_size - off)] = [s |-> s, i |-> i]
    <2> TAKE i \in 0 .. size - 1
    <2>1. mem[(a + i) % mmap_size] = [s |-> s, i |-> i]
      BY <1>2 DEF Word
    <2>2. (a + i) % mmap_size = (off + i) % mmap_size
      <3>1. a \in Int /\ i \in Int
        BY <1>1, <1>2
      <3>2. ((a % mmap_size) + i) % mmap_size = (a + i) % mmap_size
        BY ONLY <3>1, MmapSize, SumRemainder
      <3> QED
        BY <3>2
    <2>3. ASSUME off + i < mmap_size PROVE (off + i) % mmap_size = off + i
      BY <1>1, <1>2, <2>3, MmapSize, Small
    <2>4. ASSUME off + i >= mmap_size PROVE (off + i) % mmap_size = i - (mmap_size - off)
      <3>1. off + i = (i - (mmap_size - off)) + (1 * mmap_size) /\ i - (mmap_size - off) \in 0 .. mmap_size - 1
        BY <1>1, <1>2, <2>4, MmapSize
      <3>2. ((i - (mmap_size - off)) + (1 * mmap_size)) % mmap_size = (i - (mmap_size - off)) % mmap_size
        BY <1>1, <3>1, MmapSize, SameRemainder
      <3> QED
        BY <3>1, <3>2, MmapSize, Small
    <2> QED
      BY <2>1, <2>2, <2>3, <2>4
  <1>4. words = [i \in 0 .. size - 1 |-> [s |-> s, i |-> i]]
    <2>1. CASE off + size > mmap_size
      <3>1. words = Pieces(mem, off, size)
        BY <2>1 DEF RecordAt
      <3>2. \A i \in 0 .. size - 1 : (IF i < mmap_size - off THEN mem[off + i] ELSE mem[i - (mmap_size - off)]) = [s |-> s, i |-> i]
        BY <1>1, <1>2, <1>3, MmapSize
      <3> QED
        BY <3>1, <3>2 DEF Pieces
    <2>2. CASE ~(off + size > mmap_size)
      <3>1. words = [i \in 0 .. size - 1 |-> mem[off + i]]
        BY <2>2 DEF RecordAt
      <3>2. \A i \in 0 .. size - 1 : mem[off + i] = [s |-> s, i |-> i]
        BY <1>1, <1>2, <1>3, <2>2, MmapSize
      <3> QED
        BY <3>1, <3>2
    <2> QED
      BY <2>1, <2>2
  <1> HIDE DEF words
  <1>5. DOMAIN words = 0 .. s.size - 1 /\ \A i \in DOMAIN words : words[i] = [s |-> s, i |-> i]
    BY <1>2, <1>4
  <1>6. words[0] = [s |-> s, i |-> 0]
    BY <1>1, <1>5
  <1>7. \A i \in DOMAIN words : words[i] # Nothing /\ words[i].s = words[0].s /\ words[i].i = i
    <2> TAKE i \in DOMAIN words
    <2>1. words[i] = [s |-> s, i |-> i] /\ i \in 0 .. mmap_size - 1
      BY <1>1, <1>5, MmapSize
    <2>2. words[i] \in Words
      BY <2>1 DEF Words, Sampled
    <2> QED
      BY <2>1, <2>2, <1>6, NothingAssumption
  <1>8. Meaning(words) = s.rec
    BY <1>6, <1>7 DEF Meaning
  <1> QED
    BY <1>8 DEF words

(* A record is put at the head of a ring that has room for it.             *)
LEMMA PutAtHead ==
  ASSUME NEW r, r \in [mem : Memory, head : Nat, tail : Nat], NEW s \in Sampled, NEW a \in Nat,
         r.tail <= a, a <= r.head, r.head + s.size - r.tail <= mmap_size, Whole(r.mem, r.head, a),
         NEW q, q = Placed(r, s)
  PROVE  /\ q \in [mem : Memory, head : Nat, tail : Nat]
         /\ q.head = r.head + s.size /\ q.tail = r.tail
         /\ Whole(q.mem, q.head, a)
         /\ \A p \in a .. r.head - 1 : Word(q.mem, p) = Word(r.mem, p)
         /\ \A j \in 0 .. s.size - 1 : Word(q.mem, r.head + j) = [s |-> s, i |-> j]
  <1> DEFINE At(w) == (w + mmap_size - (r.head % mmap_size)) % mmap_size
  <1>1. /\ mmap_size \in Nat /\ mmap_size > 0 /\ r.head \in Nat /\ r.tail \in Nat /\ r.mem \in Memory
        /\ s.size \in Nat /\ s.size >= 1 /\ s.size <= mmap_size
    BY MmapSize DEF Sampled
  <1>2. /\ q.mem = [w \in 0 .. mmap_size - 1 |-> IF At(w) < s.size THEN [s |-> s, i |-> At(w)] ELSE r.mem[w]]
        /\ q.head = r.head + s.size /\ q.tail = r.tail
        /\ q = [mem |-> q.mem, head |-> q.head, tail |-> q.tail]
    BY DEF Placed
  <1>3. \A p \in Int : At(p % mmap_size) = (p - r.head) % mmap_size
    <2> TAKE p \in Int
    <2>1. p % mmap_size \in 0 .. mmap_size - 1 /\ r.head % mmap_size \in 0 .. mmap_size - 1
      BY MmapSize, <1>1, Division
    <2>2. PICK k \in Int : r.head = (k * mmap_size) + (r.head % mmap_size)
      <3>1. r.head \in Int
        BY <1>1
      <3> QED
        BY ONLY <3>1, MmapSize, Division
    <2>3. (p % mmap_size) + mmap_size - (r.head % mmap_size)
            = (p % mmap_size) + (mmap_size - (r.head % mmap_size)) /\ mmap_size - (r.head % mmap_size) \in Int
      BY <1>1, <2>1
    <2>4. ((p % mmap_size) + (mmap_size - (r.head % mmap_size))) % mmap_size
            = (p + (mmap_size - (r.head % mmap_size))) % mmap_size
      BY <1>1, <2>3, SumRemainder
    <2>5. p + (mmap_size - (r.head % mmap_size)) = (p - r.head) + ((k + 1) * mmap_size)
      BY <1>1, <2>1, <2>2
    <2>6. ((p - r.head) + ((k + 1) * mmap_size)) % mmap_size = (p - r.head) % mmap_size
      <3>1. p - r.head \in Int /\ k + 1 \in Int
        BY <1>1, <2>2
      <3> QED
        BY ONLY <3>1, MmapSize, SameRemainder
    <2> QED
      BY <2>3, <2>4, <2>5, <2>6
  <1>4. \A p \in Int : p % mmap_size \in 0 .. mmap_size - 1
    BY MmapSize, <1>1, Division
  <1>5. \A p \in a .. r.head - 1 : Word(q.mem, p) = Word(r.mem, p)
    <2> TAKE p \in a .. r.head - 1
    <2>1. p - r.head = (p - r.head + mmap_size) + ((-1) * mmap_size)
            /\ p - r.head + mmap_size \in 0 .. mmap_size - 1 /\ p - r.head + mmap_size >= s.size
      BY <1>1
    <2>2. (p - r.head) % mmap_size = p - r.head + mmap_size
      <3>1. ((p - r.head + mmap_size) + ((-1) * mmap_size)) % mmap_size = (p - r.head + mmap_size) % mmap_size
        BY <1>1, <2>1, SameRemainder
      <3> QED
        BY <1>1, <2>1, <3>1, Small
    <2>3. ~(At(p % mmap_size) < s.size)
      <3>1. p \in Int
        BY <1>1
      <3>2. At(p % mmap_size) = (p - r.head) % mmap_size
        BY <1>3, <3>1
      <3> HIDE DEF At
      <3> QED
        BY <1>1, <2>1, <2>2, <3>2
    <2> QED
      BY <1>2, <1>4, <2>3 DEF Word
  <1>6. \A j \in 0 .. s.size - 1 : Word(q.mem, r.head + j) = [s |-> s, i |-> j]
    <2> TAKE j \in 0 .. s.size - 1
    <2>1. r.head + j - r.head = j /\ j \in 0 .. mmap_size - 1 /\ r.head + j \in Int /\ j < s.size
      BY <1>1
    <2>2. j % mmap_size = j
      BY ONLY <2>1, MmapSize, Small
    <2>3. At((r.head + j) % mmap_size) = j
      <3>1. At((r.head + j) % mmap_size) = (r.head + j - r.head) % mmap_size
        BY <1>3, <2>1
      <3> QED
        BY <2>1, <2>2, <3>1
    <2>4. (r.head + j) % mmap_size \in 0 .. mmap_size - 1
      BY <1>4, <2>1
    <2> HIDE DEF At
    <2> QED
      BY <1>2, <2>1, <2>3, <2>4 DEF Word
  <1>7. q.mem \in Memory
    <2>1. \A w \in 0 .. mmap_size - 1 : At(w) \in 0 .. mmap_size - 1
      BY <1>1, <1>4
    <2>2. \A w \in 0 .. mmap_size - 1 : [s |-> s, i |-> At(w)] \in Words
      BY <2>1 DEF Words, Sampled
    <2>3. \A w \in 0 .. mmap_size - 1 : r.mem[w] \in Words \cup {Nothing}
      BY <1>1 DEF Memory
    <2> HIDE DEF At
    <2>4. \A w \in 0 .. mmap_size - 1 : q.mem[w] \in Words \cup {Nothing}
      BY <1>2, <2>2, <2>3
    <2> QED
      BY <1>2, <2>4 DEF Memory
  <1> HIDE DEF At
  <1>8. Whole(q.mem, q.head, a)
    <2> SUFFICES ASSUME NEW p \in a .. q.head - 1
                 PROVE  LET w == Word(q.mem, p)
                        IN  /\ w \in Words /\ w.i < w.s.size
                            /\ a <= p - w.i /\ p - w.i + w.s.size <= q.head
                            /\ \A j \in 0 .. w.s.size - 1 : Word(q.mem, p - w.i + j) = [s |-> w.s, i |-> j]
      BY DEF Whole
    <2>1. CASE p < r.head
      <3>1. p \in a .. r.head - 1
        BY <1>1, <2>1
      <3> DEFINE w == Word(r.mem, p)
      <3>2. /\ w \in Words /\ w.i < w.s.size /\ Word(q.mem, p) = w
            /\ a <= p - w.i /\ p - w.i + w.s.size <= r.head
            /\ \A j \in 0 .. w.s.size - 1 : Word(r.mem, p - w.i + j) = [s |-> w.s, i |-> j]
        BY <3>1, <1>5 DEF Whole
      <3>3. w.i \in Nat /\ w.s.size \in Nat
        BY <3>2, MmapSize DEF Words
      <3>4. \A j \in 0 .. w.s.size - 1 : p - w.i + j \in a .. r.head - 1
        BY <1>1, <3>1, <3>2, <3>3
      <3> HIDE DEF w
      <3>5. p - w.i + w.s.size <= q.head
        <4>1. p - w.i + w.s.size <= r.head /\ w.i \in Nat /\ w.s.size \in Nat /\ q.head = r.head + s.size
              /\ r.head \in Nat /\ s.size \in Nat /\ p \in Int
          BY <1>1, <1>2, <3>1, <3>2, <3>3
        <4> QED
          BY ONLY <4>1
      <3> QED
        BY <3>2, <3>4, <3>5, <1>5
    <2>2. CASE p >= r.head
      <3>1. p - r.head \in 0 .. s.size - 1 /\ r.head + (p - r.head) = p
        BY <1>1, <1>2, <2>2
      <3>2. Word(q.mem, p) = [s |-> s, i |-> p - r.head]
        BY <1>6, <3>1
      <3>3. Word(q.mem, p) \in Words
        BY <3>1, <3>2, <1>1 DEF Words, Sampled
      <3>4. p - (p - r.head) = r.head /\ r.head + s.size <= q.head /\ a <= r.head /\ p - r.head < s.size
        <4>1. p \in Int /\ r.head \in Int /\ s.size \in Int /\ q.head = r.head + s.size /\ a <= r.head
          BY <1>1, <1>2
        <4> QED
          BY ONLY <4>1, <3>1
      <3> DEFINE w == Word(q.mem, p)
      <3>5. w.s = s /\ w.i = p - r.head /\ p - w.i = r.head
        BY <3>2, <3>4
      <3> HIDE DEF w
      <3>6. w \in Words
        BY <3>3 DEF w
      <3>7. /\ w.i < w.s.size /\ a <= p - w.i /\ p - w.i + w.s.size <= q.head
            /\ \A j \in 0 .. w.s.size - 1 : Word(q.mem, p - w.i + j) = [s |-> w.s, i |-> j]
        BY ONLY <1>6, <3>4, <3>5
      <3> QED
        BY <3>6, <3>7 DEF w
    <2>3. p \in Int /\ r.head \in Int
      BY <1>1, <1>2
    <2>4. p < r.head \/ p >= r.head
      BY ONLY <2>3
    <2> QED
      BY <2>1, <2>2, <2>4
  <1>9. q \in [mem : Memory, head : Nat, tail : Nat]
    <2>1. q.head \in Nat
      BY <1>1, <1>2
    <2> QED
      BY <1>1, <1>2, <1>7, <2>1
  <1> QED
    BY <1>2, <1>5, <1>6, <1>8, <1>9

(* InFlight's function, for a ring's memory, its head and a place in it.   *)
Turn(mem, h, f, p) ==
  IF p >= h THEN <<>> ELSE <<Meaning(RecordAt(mem, p))>> \o f[p + mem[p % mmap_size].s.size]

\* f tells what there is from each position on
Collects(f, mem, h, a) == f = [p \in a .. h + mmap_size |-> Turn(mem, h, f, p)]

\* records from position a to the head h
InRing(mem, h, a) == (CHOOSE f : Collects(f, mem, h, a))[a]

(* Its recursion ends, since each record takes a word.                     *)
LEMMA Collected ==
  ASSUME NEW mem, NEW h \in Nat, NEW a \in 0 .. h,
         \A p \in a .. h - 1 : Word(mem, p).s.size \in 1 .. mmap_size
  PROVE  \E f : Collects(f, mem, h, a)
  <1> DEFINE Good(d) == \E f : Collects(f, mem, h, h - d)
             T == {d \in 0 .. h - a : ~Good(d)}
  <1>1. SUFFICES ASSUME T # {} PROVE FALSE
    <2>1. h - a \in 0 .. h - a /\ h - (h - a) = a
      OBVIOUS
    <2> QED
      BY <2>1
  <1>2. PICK d \in T : \A e \in T : d <= e
    <2>1. T \in SUBSET Nat
      OBVIOUS
    <2> HIDE DEF T
    <2> QED
      BY <1>1, <2>1, Least
  <1>3. CASE d = 0
    <2> DEFINE f == [p \in h .. h + mmap_size |-> <<>>]
    <2>1. \A p \in h .. h + mmap_size : Turn(mem, h, f, p) = <<>>
      BY DEF Turn
    <2>2. f = [p \in h .. h + mmap_size |-> Turn(mem, h, f, p)]
      BY <2>1
    <2>3. h - d = h
      BY <1>3
    <2> HIDE DEF f
    <2>4. Collects(f, mem, h, h - d)
      BY <2>2, <2>3 DEF Collects
    <2> QED
      BY <1>2, <2>4
  <1>4. CASE d # 0
    <2>1. d \in 0 .. h - a /\ d - 1 \in 0 .. h - a /\ d - 1 < d
      BY <1>2, <1>4
    <2>2. Good(d - 1)
      <3>1. d - 1 \notin T
        BY <1>2, <2>1
      <3> QED
        BY <2>1, <3>1
    <2> DEFINE b == h - d
    <2>3. b \in a .. h - 1 /\ h - (d - 1) = b + 1 /\ b \in Nat
      BY <1>2, <1>4, <2>1
    <2>4. PICK f : Collects(f, mem, h, b + 1)
      BY <2>2, <2>3
    <2> DEFINE g == [p \in b .. h + mmap_size |-> IF p = b THEN Turn(mem, h, f, b) ELSE f[p]]
    <2>5. \A p \in b .. h + mmap_size : g[p] = Turn(mem, h, g, p)
      <3> TAKE p \in b .. h + mmap_size
      <3>1. CASE p >= h
        <4>1. p # b /\ p \in b + 1 .. h + mmap_size
          BY <2>3, <3>1
        <4>2. f[p] = <<>>
          BY <2>4, <3>1, <4>1 DEF Collects, Turn
        <4> QED
          BY <3>1, <4>1, <4>2 DEF Turn
      <3>2. CASE ~(p >= h)
        <4> DEFINE n == p + mem[p % mmap_size].s.size
        <4>1. p \in a .. h - 1 /\ p \in Nat
          BY <2>3, <3>2
        <4>2. mem[p % mmap_size].s.size \in 1 .. mmap_size
          BY <4>1 DEF Word
        <4>3. n \in b + 1 .. h + mmap_size
          BY <2>3, <3>2, <4>1, <4>2, MmapSize
        <4>4. g[n] = f[n]
          BY <2>3, <4>3
        <4> HIDE DEF g
        <4>5. Turn(mem, h, g, p) = Turn(mem, h, f, p)
          BY <3>2, <4>4 DEF Turn
        <4>6. g[p] = Turn(mem, h, f, p)
          <5>1. CASE p = b
            BY <5>1 DEF g
          <5>2. CASE p # b
            <6>1. p \in b + 1 .. h + mmap_size
              BY <2>3, <5>2
            <6>2. f[p] = Turn(mem, h, f, p)
              BY <2>4, <6>1 DEF Collects
            <6> QED
              BY <5>2, <6>2 DEF g
          <5> QED
            BY <5>1, <5>2
        <4> QED
          BY <4>5, <4>6
      <3> QED
        BY <3>1, <3>2
    <2>6. g = [p \in b .. h + mmap_size |-> Turn(mem, h, g, p)]
      <3>1. DOMAIN g = b .. h + mmap_size /\ g = [p \in DOMAIN g |-> g[p]]
        OBVIOUS
      <3> HIDE DEF g
      <3> QED
        BY <2>5, <3>1
    <2> HIDE DEF g
    <2>7. Collects(g, mem, h, b)
      BY <2>6 DEF Collects
    <2> QED
      BY <1>2, <2>7
  <1> QED
    BY <1>3, <1>4

(* The function is the same wherever it begins.                            *)
LEMMA CollectedOnce ==
  ASSUME NEW mem, NEW h \in Nat, NEW a \in 0 .. h, NEW b \in a .. h,
         \A p \in a .. h - 1 : Word(mem, p).s.size \in 1 .. mmap_size,
         NEW f, NEW g, Collects(f, mem, h, a), Collects(g, mem, h, b)
  PROVE  f[b] = g[b]
  <1> DEFINE T == {d \in 0 .. h - b : f[h - d] # g[h - d]}
  <1>1. SUFFICES ASSUME T # {} PROVE FALSE
    <2>1. h - b \in 0 .. h - b /\ h - (h - b) = b
      OBVIOUS
    <2> QED
      BY <2>1
  <1>2. PICK d \in T : \A e \in T : d <= e
    <2>1. T \in SUBSET Nat
      OBVIOUS
    <2> HIDE DEF T
    <2> QED
      BY <1>1, <2>1, Least
  <1> DEFINE p == h - d
  <1>3. p \in b .. h /\ p \in Nat /\ d \in Nat
    BY <1>2
  <1>4. \A q \in p + 1 .. h + mmap_size : f[q] = g[q]
    <2> TAKE q \in p + 1 .. h + mmap_size
    <2>1. q \in a .. h + mmap_size /\ q \in b .. h + mmap_size
      BY <1>3
    <2>2. CASE q >= h
      BY <2>1, <2>2 DEF Collects, Turn
    <2>3. CASE q < h
      <3>1. h - q \in 0 .. h - b /\ h - q < d /\ h - (h - q) = q
        BY <1>3, <2>1, <2>3
      <3>2. h - q \notin T
        <4>1. \A e \in T : d <= e
          BY <1>2
        <4>2. ~(d <= h - q)
          BY <1>3, <3>1
        <4> HIDE DEF T
        <4> QED
          BY <4>1, <4>2
      <3> QED
        BY <3>1, <3>2
    <2> QED
      BY <1>3, <2>2, <2>3
  <1>5. p \in a .. h + mmap_size /\ p \in b .. h + mmap_size
    BY <1>3, MmapSize
  <1>6. f[p] = Turn(mem, h, f, p) /\ g[p] = Turn(mem, h, g, p)
    BY <1>5 DEF Collects
  <1>7. Turn(mem, h, f, p) = Turn(mem, h, g, p)
    <2>1. CASE p >= h
      BY <2>1 DEF Turn
    <2>2. CASE ~(p >= h)
      <3>1. p \in a .. h - 1
        BY <1>3, <2>2
      <3>2. mem[p % mmap_size].s.size \in 1 .. mmap_size
        BY <3>1 DEF Word
      <3>3. p + mem[p % mmap_size].s.size \in p + 1 .. h + mmap_size
        BY <1>3, <3>2, MmapSize
      <3> QED
        BY <1>4, <3>3, <2>2 DEF Turn
    <2> QED
      BY <2>1, <2>2
  <1> QED
    BY <1>2, <1>6, <1>7

(* What is in a ring, record by record.                                    *)
LEMMA FirstOf ==
  ASSUME NEW mem, NEW h \in Nat, NEW a \in 0 .. h, Whole(mem, h, a), Starts(mem, h, a)
  PROVE  /\ a = h => InRing(mem, h, a) = <<>>
         /\ a < h => InRing(mem, h, a) = <<Word(mem, a).s.rec>> \o InRing(mem, h, a + Word(mem, a).s.size)
  <1>1. \A p \in a .. h - 1 : Word(mem, p).s.size \in 1 .. mmap_size
    BY DEF Whole, Words
  <1> DEFINE f == CHOOSE f : Collects(f, mem, h, a)
  <1>2. Collects(f, mem, h, a)
    BY <1>1, Collected
  <1> HIDE DEF f
  <1>3. f[a] = Turn(mem, h, f, a)
    <2>1. a \in a .. h + mmap_size
      BY MmapSize
    <2> QED
      BY <1>2, <2>1 DEF Collects
  <1>4. InRing(mem, h, a) = f[a]
    BY DEF f, InRing
  <1>5. ASSUME a = h PROVE InRing(mem, h, a) = <<>>
    BY <1>3, <1>4, <1>5 DEF Turn
  <1>6. ASSUME a < h
        PROVE  InRing(mem, h, a) = <<Word(mem, a).s.rec>> \o InRing(mem, h, a + Word(mem, a).s.size)
    <2> DEFINE w == Word(mem, a)
               b == a + w.s.size
               g == CHOOSE g : Collects(g, mem, h, b)
    <2>1. /\ w \in Words /\ b \in a + 1 .. h
          /\ \A j \in 0 .. w.s.size - 1 : Word(mem, a + j) = [s |-> w.s, i |-> j]
      BY <1>6, NextStarts
    <2>2. b \in a .. h /\ b \in 0 .. h
      BY <2>1
    <2>3. Collects(g, mem, h, b)
      <3>1. \A p \in b .. h - 1 : Word(mem, p).s.size \in 1 .. mmap_size
        BY <1>1, <2>2
      <3> HIDE DEF b
      <3> QED
        BY <2>2, <3>1, Collected
    <2> HIDE DEF g
    <2>4. f[b] = g[b]
      <3> HIDE DEF b
      <3> QED
        BY <1>1, <1>2, <2>2, <2>3, CollectedOnce
    <2>5. InRing(mem, h, b) = g[b]
      BY DEF g, InRing
    <2>6. Meaning(RecordAt(mem, a)) = w.s.rec
      <3>1. w.s \in Sampled
        BY <2>1 DEF Words, Sampled
      <3> QED
        BY <2>1, <3>1, ReadsAsPut
    <2>7. Turn(mem, h, f, a) = <<w.s.rec>> \o f[b]
      BY <1>6, <2>6 DEF Turn, Word
    <2> QED
      BY <1>3, <1>4, <2>4, <2>5, <2>7
  <1> QED
    BY <1>5, <1>6

(* A ring holds reports, one behind the other.                             *)
LEMMA RingHolds ==
  ASSUME NEW mem, NEW h \in Nat, NEW a \in 0 .. h, Whole(mem, h, a), Starts(mem, h, a)
  PROVE  InRing(mem, h, a) \in Seq(Reports)
  <1> DEFINE Bad(d) == Whole(mem, h, h - d) /\ Starts(mem, h, h - d)
               /\ InRing(mem, h, h - d) \notin Seq(Reports)
             T == {d \in 0 .. h : Bad(d)}
  <1>1. SUFFICES ASSUME T # {} PROVE FALSE
    <2>1. h - a \in 0 .. h /\ h - (h - a) = a
      OBVIOUS
    <2> QED
      BY <2>1
  <1>2. PICK d \in T : \A e \in T : d <= e
    <2>1. T \in SUBSET Nat
      OBVIOUS
    <2> HIDE DEF T
    <2> QED
      BY <1>1, <2>1, Least
  <1> DEFINE p == h - d
  <1>3. p \in 0 .. h /\ d \in 0 .. h /\ Whole(mem, h, p) /\ Starts(mem, h, p)
          /\ InRing(mem, h, p) \notin Seq(Reports)
    BY <1>2
  <1>4. \A e \in T : d <= e
    BY <1>2
  <1>5. CASE p = h
    <2> HIDE DEF p
    <2>1. InRing(mem, h, p) = <<>>
      BY <1>3, <1>5, FirstOf
    <2> QED
      BY <1>3, <2>1
  <1>6. CASE p < h
    <2> DEFINE w == Word(mem, p)
               n == p + w.s.size
    <2>1. w \in Words /\ n \in p + 1 .. h /\ Starts(mem, h, n) /\ Whole(mem, h, n)
      <3>1. p \in Nat
        BY <1>3
      <3> HIDE DEF p
      <3> QED
        BY <1>3, <1>6, <3>1, NextStarts
    <2>2. InRing(mem, h, p) = <<w.s.rec>> \o InRing(mem, h, n)
      <3> HIDE DEF p
      <3> QED
        BY <1>3, <1>6, FirstOf
    <2>3. w.s.rec \in Reports
      BY <2>1 DEF Words
    <2> HIDE DEF n, p
    <2>4. h - n \in 0 .. h /\ h - (h - n) = n /\ ~(d <= h - n)
      BY <1>3, <2>1 DEF p
    <2>5. ~Bad(h - n)
      <3>1. h - n \notin T
        <4> HIDE DEF T
        <4> QED
          BY <1>4, <2>4
      <3> QED
        BY <2>4, <3>1
    <2>6. InRing(mem, h, n) \in Seq(Reports)
      BY <2>1, <2>4, <2>5
    <2> HIDE DEF w
    <2>7. <<w.s.rec>> \o InRing(mem, h, n) \in Seq(Reports)
      BY <2>3, <2>6
    <2> QED
      BY <1>3, <2>2, <2>7
  <1> QED
    BY <1>3, <1>5, <1>6

(* A ring to which s was added has what it had, and s.                     *)
LEMMA RingGrows ==
  ASSUME NEW mem, NEW h \in Nat, NEW a \in 0 .. h, Whole(mem, h, a), Starts(mem, h, a),
         NEW new, NEW s \in Sampled, Whole(new, h + s.size, a),
         \A p \in a .. h - 1 : Word(new, p) = Word(mem, p),
         \A j \in 0 .. s.size - 1 : Word(new, h + j) = [s |-> s, i |-> j]
  PROVE  /\ Starts(new, h + s.size, a)
         /\ InRing(new, h + s.size, a) = InRing(mem, h, a) \o <<s.rec>>
  <1> DEFINE k == h + s.size
             Here(p) == Whole(mem, h, p) /\ Starts(mem, h, p) /\ Whole(new, k, p)
             Bad(d) == Here(h - d) /\ InRing(new, k, h - d) # InRing(mem, h, h - d) \o <<s.rec>>
             T == {d \in 0 .. h - a : Bad(d)}
  <1>1. s.size \in 1 .. mmap_size /\ s.size \in Nat /\ s.size > 0 /\ k \in Nat /\ k > h /\ s.rec \in Reports
    BY MmapSize DEF Sampled
  <1>2. ASSUME NEW p \in a .. h, Starts(mem, h, p) PROVE Starts(new, k, p)
    <2>1. CASE p = h
      <3>1. 0 \in 0 .. s.size - 1 /\ h + 0 = h
        BY <1>1
      <3>2. Word(new, h + 0) = [s |-> s, i |-> 0]
        BY <3>1
      <3> QED
        BY <2>1, <3>1, <3>2 DEF Starts
    <2>2. CASE p # h
      <3>1. p \in a .. h - 1
        BY <2>2
      <3> QED
        BY <1>2, <2>2, <3>1 DEF Starts
    <2> QED
      BY <2>1, <2>2
  <1>3. ASSUME T # {} PROVE FALSE
    <2>1. T \in SUBSET Nat
      OBVIOUS
    <2>2. PICK d \in T : \A e \in T : d <= e
      <3> HIDE DEF T
      <3> QED
        BY <1>3, <2>1, Least
    <2> DEFINE p == h - d
    <2>3. p \in a .. h /\ p \in 0 .. h /\ d \in 0 .. h - a
          /\ Here(p) /\ InRing(new, k, p) # InRing(mem, h, p) \o <<s.rec>>
      BY <2>2
    <2>4. \A e \in T : d <= e
      BY <2>2
    <2> HIDE DEF k
    <2>5. p \in 0 .. k /\ p < k /\ Starts(new, k, p)
      BY <1>1, <1>2, <2>3
    <2> HIDE DEF p
    <2>6. InRing(new, k, p) = <<Word(new, p).s.rec>> \o InRing(new, k, p + Word(new, p).s.size)
      BY <1>1, <2>3, <2>5, FirstOf
    <2>7. CASE p = h
      <3>1. 0 \in 0 .. s.size - 1 /\ h + 0 = h
        BY <1>1
      <3>2. Word(new, h + 0) = [s |-> s, i |-> 0]
        BY <3>1
      <3>3. Word(new, p) = [s |-> s, i |-> 0]
        BY <2>7, <3>1, <3>2
      <3>4. p + Word(new, p).s.size = k /\ Word(new, p).s.rec = s.rec
        BY <2>7, <3>3 DEF k
      <3>5. InRing(new, k, k) = <<>> /\ InRing(mem, h, p) = <<>>
        <4>1. k \in 0 .. k /\ Whole(new, k, k) /\ Starts(new, k, k)
          BY <1>1 DEF Whole, Starts
        <4> QED
          BY <1>1, <2>3, <2>7, <4>1, FirstOf
      <3>6. <<s.rec>> \o <<>> = <<>> \o <<s.rec>>
        BY <1>1
      <3> QED
        BY <2>3, <2>6, <3>4, <3>5, <3>6
    <2>8. CASE p # h
      <3> DEFINE w == Word(mem, p)
                 n == p + w.s.size
      <3>1. p \in a .. h - 1 /\ p < h /\ p \in Nat
        BY <2>3, <2>8
      <3>2. Word(new, p) = w
        BY <3>1
      <3>3. w \in Words /\ n \in p + 1 .. h /\ Starts(mem, h, n) /\ Whole(mem, h, n)
        BY <2>3, <3>1, NextStarts
      <3>4. Whole(new, k, n)
        BY <1>1, <2>3, <2>5, <3>1, <3>2, NextStarts
      <3>5. InRing(mem, h, p) = <<w.s.rec>> \o InRing(mem, h, n)
        BY <2>3, <3>1, FirstOf
      <3> HIDE DEF n
      <3>6. h - n \in 0 .. h - a /\ h - (h - n) = n /\ ~(d <= h - n) /\ n \in 0 .. h
        BY <2>3, <3>3 DEF p
      <3>7. ~Bad(h - n)
        <4>1. h - n \notin T
          <5> HIDE DEF T
          <5> QED
            BY <2>4, <3>6
        <4> QED
          BY <3>6, <4>1
      <3>8. InRing(new, k, n) = InRing(mem, h, n) \o <<s.rec>>
        BY <3>3, <3>4, <3>6, <3>7
      <3>9. InRing(mem, h, n) \in Seq(Reports) /\ w.s.rec \in Reports
        BY <3>3, <3>6, RingHolds DEF Words
      <3>10. InRing(new, k, p) = <<w.s.rec>> \o InRing(new, k, n)
        BY <2>6, <3>2 DEF n
      <3> HIDE DEF w
      <3>11. <<w.s.rec>> \o (InRing(mem, h, n) \o <<s.rec>>) = (<<w.s.rec>> \o InRing(mem, h, n)) \o <<s.rec>>
        BY <3>9, <1>1
      <3> QED
        BY <2>3, <3>5, <3>8, <3>10, <3>11
    <2> QED
      BY <2>7, <2>8
  <1>4. h - a \in 0 .. h - a /\ h - (h - a) = a
    OBVIOUS
  <1>5. InRing(new, k, a) = InRing(mem, h, a) \o <<s.rec>>
    <2>1. ~Bad(h - a)
      BY <1>3, <1>4
    <2>2. Here(a)
      OBVIOUS
    <2> QED
      BY <2>1, <2>2, <1>4
  <1> QED
    BY <1>2, <1>5

\* the reader's place in a ring
From(c) == IF pb.pc = "read" /\ pb.cpu = c THEN pb.tail ELSE ring[c].tail

\* what is on its way, CPU by CPU
Queue == [c \in CPUs |-> InRing(ring[c].mem, ring[c].head, From(c))]

(* It is what InFlight tells, in this state and in the next.               *)
LEMMA QueueInFlight ==
  /\ Queue = [c \in CPUs |-> InFlight(c)]
  /\ Queue' = [c \in CPUs |-> InFlight(c)']
  <1>1. ASSUME NEW c \in CPUs PROVE InFlight(c) = InRing(ring[c].mem, ring[c].head, From(c))
    BY DEF InFlight, InRing, Collects, Turn, From
  <1>2. ASSUME NEW c \in CPUs PROVE InFlight(c)' = InRing(ring'[c].mem, ring'[c].head, From(c)')
    BY DEF InFlight, InRing, Collects, Turn, From
  <1>3. Queue' = [c \in CPUs |-> InRing(ring'[c].mem, ring'[c].head, From(c)')]
    BY DEF Queue
  <1> QED
    BY <1>1, <1>2, <1>3 DEF Queue

\* what the programs put out, and the type of a ring
FileEvents == OpenEvents \cup WriteEvents

RingT == [mem : Memory, head : Nat, tail : Nat]

\* types of the programs' state, and of the buffer's
TasksTyped ==
  /\ task \in [Tasks -> TaskState] /\ tmp_map \in Files \cup {NoFile}
  /\ listen_map \subseteq Files /\ ops \in 0 .. MaxOut
  /\ mixed \in BOOLEAN /\ pid_filter \in BOOLEAN

\* types of the reader, and of the buffer
ReaderT == [pc : {"none", "new", "free", "open", "poll", "read", "error"}, cpu : 0 .. Max_cpu + 1,
            ready : Seq(CPUs), head : Nat, tail : Nat]

BufferTyped ==
  /\ ring \in [CPUs -> RingT] /\ lost \in [CPUs -> Nat]
  /\ got \in [CPUs -> Seq(Reports)] /\ gap \subseteq CPUs
  /\ pb \in ReaderT

\* a thread's fields that belong to where it is; it has its CPU to itself
Running(t) ==
  /\ task[t].pc \in {"opening", "opened", "output"} => task[t].file \in Files
  /\ task[t].pc = "opened" => task[t].name \in Files
  /\ task[t].pc = "written" => /\ task[t].name \in Files /\ task[t].op \in 1 .. MaxOut
                               /\ task[t].block \in 0 .. Blocks - 1 /\ task[t].total \in WriteSizes
                               /\ task[t].block < task[t].total
  /\ IF task[t].pc \in {"opened", "output", "written"} THEN task[t].cpu \in CPUs ELSE task[t].cpu = 0

\* no two threads run a program on one CPU
OwnCpus ==
  \A t, u \in Tasks : task[t].cpu = task[u].cpu /\ task[t].cpu # 0 => t = u

\* the reader is in front of the records that it was told of
InFront ==
  pb.pc = "read" =>
    /\ pb.cpu \in CPUs /\ pb.tail <= pb.head /\ pb.head <= ring[pb.cpu].head
    /\ Starts(ring[pb.cpu].mem, ring[pb.cpu].head, pb.head)

\* a ring from the reader's place to the head
RingRight(r, a) ==
  /\ r.tail <= a /\ a <= r.head /\ r.head - r.tail <= mmap_size
  /\ Whole(r.mem, r.head, a) /\ Starts(r.mem, r.head, a)

\* the kernel puts nothing into a ring that is not up
Shut == \A c \in CPUs : ~({"enabled", "key"} \subseteq res[c]) => ring[c] = NewRing /\ lost[c] = 0

(* The inductive invariant under the three theorems: the threads, the      *)
(* rings with their reader, and the stages of perf_buffer__new and         *)
(* perf_buffer__free.                                                      *)
TasksRight == TasksTyped /\ (\A t \in Tasks : Running(t)) /\ OwnCpus
RingsRight == BufferTyped /\ InFront /\ (\A c \in CPUs : RingRight(ring[c], From(c))) /\ Shut

ChInv == InStages /\ TasksRight /\ RingsRight

(* A record moves the head by its words.                                   *)
LEMMA PlacedHead ==
  ASSUME NEW r \in RingT, NEW s
  PROVE  Placed(r, s).head = r.head + s.size
  BY DEF RingT, Placed

(* What an output leaves in a ring: nothing, a loss that is counted, or    *)
(* the record behind what was there and behind the losses.                 *)
LEMMA Outputs ==
  ASSUME NEW r, NEW a \in Nat, r \in RingT, RingRight(r, a), NEW n \in Nat,
         NEW e \in FileEvents, NEW words \in 1 .. mmap_size,
         NEW told, told = (IF n = 0 THEN r ELSE Placed(r, LostSample(n))),
         told.head + words - r.tail <= mmap_size,
         NEW q, q = Placed(told, Sample(e, words))
  PROVE  /\ q \in RingT /\ RingRight(q, a) /\ q.head > r.head
         /\ InRing(q.mem, q.head, a)
              = InRing(r.mem, r.head, a) \o (IF n = 0 THEN <<>> ELSE <<[lost |-> n]>>) \o <<e>>
         /\ \A p \in a .. r.head : Starts(r.mem, r.head, p) => Starts(q.mem, q.head, p)
  <1>0. /\ mmap_size \in Nat /\ r.head \in Nat /\ r.tail \in Nat /\ r.mem \in Memory /\ a \in 0 .. r.head
        /\ words \in Nat /\ words > 0
    BY MmapSize DEF RingT, RingRight
  <1> DEFINE s == Sample(e, words)
             l == LostSample(n)
  <1>1. s \in Sampled /\ s.rec = e /\ s.size = words
    BY DEF Sample, Sampled, Reports, FileEvents
  <1>2. n # 0 => l \in Sampled /\ l.rec = [lost |-> n] /\ l.size = LostWords /\ LostWords \in Nat
          /\ LostWords > 0
    BY MmapAssumption DEF LostSample, Sampled, Reports
  <1> HIDE DEF s, l
  <1>3. /\ told \in RingT /\ told.tail = r.tail /\ told.head >= r.head
        /\ Whole(told.mem, told.head, a)
        /\ Starts(told.mem, told.head, a)
        /\ InRing(told.mem, told.head, a) = InRing(r.mem, r.head, a)
             \o (IF n = 0 THEN <<>> ELSE <<[lost |-> n]>>)
        /\ \A p \in a .. r.head : Starts(r.mem, r.head, p) => Starts(told.mem, told.head, p)
    <2>1. InRing(r.mem, r.head, a) \in Seq(Reports)
      BY <1>0, RingHolds DEF RingRight
    <2>2. CASE n = 0
      <3>1. told = r
        BY <2>2
      <3>2. InRing(r.mem, r.head, a) = InRing(r.mem, r.head, a) \o <<>>
        BY <2>1
      <3> QED
        BY <1>0, <2>2, <3>1, <3>2 DEF RingRight
    <2>3. CASE n # 0
      <3>1. told = Placed(r, l)
        BY <2>3 DEF l
      <3>2. told.head = r.head + l.size
        BY <3>1, PlacedHead
      <3>3. r.head + l.size - r.tail <= mmap_size /\ l.size \in Nat /\ l.size > 0
        BY <1>0, <1>2, <2>3, <3>2
      <3>4. /\ told \in RingT /\ told.tail = r.tail
            /\ Whole(told.mem, told.head, a)
            /\ \A p \in a .. r.head - 1 : Word(told.mem, p) = Word(r.mem, p)
            /\ \A j \in 0 .. l.size - 1 : Word(told.mem, r.head + j) = [s |-> l, i |-> j]
        BY <1>2, <2>3, <3>1, <3>3, PutAtHead DEF RingT, RingRight
      <3>5. ASSUME NEW p \in 0 .. r.head, p >= a, Starts(r.mem, r.head, p)
            PROVE  Starts(told.mem, told.head, p)
        <4>1. CASE p = r.head
          <5>1. Word(told.mem, r.head + 0) = [s |-> l, i |-> 0] /\ r.head + 0 = r.head
            BY <1>0, <3>3, <3>4
          <5> QED
            BY <4>1, <5>1 DEF Starts
        <4>2. CASE p # r.head
          <5>1. p \in a .. r.head - 1
            BY <1>0, <3>5, <4>2
          <5> QED
            BY <3>4, <3>5, <4>2, <5>1 DEF Starts
        <4> QED
          BY <4>1, <4>2
      <3>6. InRing(told.mem, told.head, a) = InRing(r.mem, r.head, a) \o <<l.rec>>
        <4>1. Whole(told.mem, r.head + l.size, a) /\ Whole(r.mem, r.head, a) /\ Starts(r.mem, r.head, a)
              /\ r.head \in Nat /\ a \in 0 .. r.head /\ l \in Sampled
          BY <1>0, <1>2, <2>3, <3>2, <3>4 DEF RingRight
        <4>2. InRing(told.mem, r.head + l.size, a) = InRing(r.mem, r.head, a) \o <<l.rec>>
          BY ONLY ZenonT(40), <4>1, <3>4, RingGrows
        <4> QED
          BY <3>2, <4>2
      <3>7. told.head >= r.head /\ \A p \in a .. r.head : p \in 0 .. r.head /\ p >= a
        BY <1>0, <3>2, <3>3
      <3>8. Starts(told.mem, told.head, a)
        BY <1>0, <3>5 DEF RingRight
      <3>9. InRing(told.mem, told.head, a) = InRing(r.mem, r.head, a)
              \o (IF n = 0 THEN <<>> ELSE <<[lost |-> n]>>)
        BY <1>2, <2>3, <3>6
      <3> QED
        BY <3>4, <3>5, <3>7, <3>8, <3>9
    <2> QED
      BY <2>2, <2>3
  <1>4. /\ q \in RingT /\ q.tail = r.tail /\ q.head = told.head + words
        /\ Whole(q.mem, q.head, a)
        /\ \A p \in a .. told.head - 1 : Word(q.mem, p) = Word(told.mem, p)
        /\ \A j \in 0 .. s.size - 1 : Word(q.mem, told.head + j) = [s |-> s, i |-> j]
    <2>1. q = Placed(told, s) /\ told.head + s.size - told.tail <= mmap_size /\ told.tail <= a /\ a <= told.head
          /\ told \in [mem : Memory, head : Nat, tail : Nat]
      BY <1>0, <1>1, <1>3 DEF s, RingRight, RingT
    <2>2. told.head + s.size = told.head + words /\ a \in Nat /\ s \in Sampled /\ Whole(told.mem, told.head, a)
      BY <1>1, <1>3
    <2>3. /\ q \in [mem : Memory, head : Nat, tail : Nat]
          /\ q.head = told.head + s.size /\ q.tail = told.tail
          /\ Whole(q.mem, q.head, a)
          /\ \A p \in a .. told.head - 1 : Word(q.mem, p) = Word(told.mem, p)
          /\ \A j \in 0 .. s.size - 1 : Word(q.mem, told.head + j) = [s |-> s, i |-> j]
      BY ONLY <2>1, <2>2, PutAtHead
    <2> QED
      BY <1>3, <2>2, <2>3 DEF RingT
  <1>5. told.head \in Nat /\ a \in 0 .. told.head
    BY <1>0, <1>3 DEF RingT
  <1>6. InRing(q.mem, q.head, a) = InRing(told.mem, told.head, a) \o <<e>>
    <2>1. Whole(q.mem, told.head + s.size, a) /\ told.head + s.size = q.head
      BY <1>1, <1>4
    <2>2. InRing(q.mem, told.head + s.size, a) = InRing(told.mem, told.head, a) \o <<s.rec>>
      BY ONLY ZenonT(40), <1>1, <1>3, <1>4, <1>5, <2>1, RingGrows
    <2> QED
      BY <1>1, <2>1, <2>2
  <1>7. ASSUME NEW p \in a .. r.head, Starts(r.mem, r.head, p)
        PROVE  Starts(q.mem, q.head, p)
    <2>1. Starts(told.mem, told.head, p) /\ p \in a .. told.head
      BY <1>0, <1>3, <1>5, <1>7
    <2>2. CASE p = told.head
      <3>1. 0 \in 0 .. s.size - 1 /\ told.head + 0 = told.head
        BY <1>0, <1>1, <1>5
      <3>2. Word(q.mem, told.head + 0) = [s |-> s, i |-> 0]
        BY <1>4, <3>1
      <3> QED
        BY <2>2, <3>1, <3>2 DEF Starts
    <2>3. CASE p # told.head
      <3>1. p \in a .. told.head - 1
        BY <1>0, <1>5, <2>1, <2>3
      <3> QED
        BY <1>4, <2>1, <2>3, <3>1 DEF Starts
    <2> QED
      BY <2>2, <2>3
  <1>8. RingRight(q, a)
    <2>1. Starts(q.mem, q.head, a)
      BY <1>0, <1>7 DEF RingRight
    <2> QED
      BY <1>0, <1>3, <1>4, <1>5, <2>1 DEF RingRight
  <1>9. InRing(q.mem, q.head, a)
          = InRing(r.mem, r.head, a) \o (IF n = 0 THEN <<>> ELSE <<[lost |-> n]>>) \o <<e>>
    BY <1>3, <1>6
  <1>10. q.head > r.head
    BY <1>0, <1>3, <1>4, <1>5
  <1> QED
    BY <1>4, <1>7, <1>8, <1>9, <1>10

(* Types of what the programs make of a thread.                            *)
LEMMA TaskChanges ==
  ASSUME NEW w \in TaskState
  PROVE  /\ [w EXCEPT !.pc = "output"] \in TaskState
         /\ \A n \in Files, c \in CPUs : [w EXCEPT !.pc = "opened", !.name = n, !.cpu = c] \in TaskState
         /\ \A k \in Nat : [w EXCEPT !.block = k] \in TaskState
  <1>1. CPUs \subseteq 0 .. Max_cpu
    BY MmapAssumption DEF CPUs
  <1>2. [w EXCEPT !.pc = "output"] \in TaskState
    BY DEF TaskState
  <1>3. ASSUME NEW n \in Files, NEW c \in CPUs
        PROVE  [w EXCEPT !.pc = "opened", !.name = n, !.cpu = c] \in TaskState
    <2>1. c \in 0 .. Max_cpu
      BY <1>1
    <2> QED
      BY <2>1 DEF TaskState
  <1>4. \A k \in Nat : [w EXCEPT !.block = k] \in TaskState
    BY DEF TaskState
  <1> QED
    BY <1>2, <1>3, <1>4

(* A thread that begins, or has ended, a program.                          *)
LEMMA TaskAtRest ==
  /\ AtRest \in TaskState /\ AtRest.pc = "idle" /\ AtRest.cpu = 0
  /\ \A f \in Files : [AtRest EXCEPT !.pc = "opening", !.file = f] \in TaskState
  /\ \A f \in Files, c \in CPUs, blocks \in WriteSizes, n \in Nat :
       [AtRest EXCEPT !.pc = "written", !.name = f, !.cpu = c, !.total = blocks, !.op = n] \in TaskState
  <1>1. CPUs \subseteq 0 .. Max_cpu /\ WriteSizes \subseteq Nat /\ 0 \in 0 .. Max_cpu
    BY MmapAssumption, SizesAssumption DEF CPUs
  <1>2. AtRest \in TaskState /\ AtRest.pc = "idle" /\ AtRest.cpu = 0
    BY <1>1 DEF AtRest, TaskState
  <1>3. \A f \in Files : [AtRest EXCEPT !.pc = "opening", !.file = f] \in TaskState
    BY <1>2 DEF TaskState
  <1>4. ASSUME NEW f \in Files, NEW c \in CPUs, NEW blocks \in WriteSizes, NEW n \in Nat
        PROVE  [AtRest EXCEPT !.pc = "written", !.name = f, !.cpu = c, !.total = blocks, !.op = n] \in TaskState
    <2>1. c \in 0 .. Max_cpu /\ blocks \in Nat
      BY <1>1
    <2> QED
      BY <1>2, <2>1 DEF TaskState
  <1> QED
    BY <1>2, <1>3, <1>4

(* One thread's step: it is right where it is, and takes a CPU only when   *)
(* no other one runs there.                                                *)
LEMMA OneTask ==
  ASSUME TasksRight, NEW t \in Tasks, NEW w \in TaskState, task' = [task EXCEPT ![t] = w],
         Running(t)', w.cpu \in {0, task[t].cpu} \/ ~Runs(w.cpu),
         tmp_map' \in Files \cup {NoFile}, listen_map' \subseteq Files, ops' \in 0 .. MaxOut,
         mixed' \in BOOLEAN, pid_filter' \in BOOLEAN
  PROVE  TasksRight'
  <1>1. /\ task'[t] = w /\ \A u \in Tasks : u # t => task'[u] = task[u]
        /\ task' \in [Tasks -> TaskState]
    BY DEF TasksRight, TasksTyped
  <1>2. \A u \in Tasks : Running(u)'
    BY <1>1 DEF TasksRight, Running
  <1>3. OwnCpus'
    BY <1>1 DEF TasksRight, OwnCpus, Runs
  <1> QED
    BY <1>1, <1>2, <1>3 DEF TasksRight, TasksTyped

(* Whatever happens, the threads stay right: what libbpf does is nothing   *)
(* to them.                                                                *)
LEMMA TasksStay ==
  ASSUME TasksRight, [Next]_vars
  PROVE  TasksRight'
  <1>0. /\ \A t \in Tasks : Running(t) /\ task[t] \in TaskState
        /\ task \in [Tasks -> TaskState] /\ tmp_map \in Files \cup {NoFile}
        /\ listen_map \subseteq Files /\ ops \in 0 .. MaxOut
        /\ mixed \in BOOLEAN /\ pid_filter \in BOOLEAN
    BY DEF TasksRight, TasksTyped
  <1>1. ASSUME UNCHANGED task, tmp_map' \in Files \cup {NoFile}, listen_map' \subseteq Files, ops' \in 0 .. MaxOut,
               mixed' \in BOOLEAN, pid_filter' \in BOOLEAN
        PROVE  TasksRight'
    BY <1>0, <1>1 DEF TasksRight, TasksTyped, Running, OwnCpus
  <1>2. CASE (PerfNext /\ UNCHANGED <<pid_filter, task, tmp_map, listen_map, ops, mixed>>) \/ UNCHANGED vars
    BY <1>0, <1>1, <1>2 DEF vars
  <1>3. ASSUME NEW t \in Tasks, OpenOutput(t) PROVE TasksRight'
    <2> DEFINE w == [task[t] EXCEPT !.pc = "output"]
    <2>1. /\ task' = [task EXCEPT ![t] = w] /\ task[t].pc = "opened"
          /\ UNCHANGED <<tmp_map, listen_map, ops, mixed, pid_filter>>
      BY <1>0, <1>3 DEF OpenOutput
    <2>2. w \in TaskState /\ w.pc = "output" /\ w.cpu = task[t].cpu /\ w.file = task[t].file
      BY ZenonT(40), <1>0, TaskChanges DEF TaskState
    <2> HIDE DEF w
    <2>3. task'[t] = w
      BY <1>0, <2>1
    <2>4. Running(t)'
      BY <1>0, <2>1, <2>2, <2>3 DEF Running
    <2> QED
      BY <1>0, <2>1, <2>2, <2>4, OneTask
  <1>4. ASSUME NEW t \in Tasks, OpenDelete(t) PROVE TasksRight'
    <2>1. task' = [task EXCEPT ![t] = AtRest] /\ tmp_map' = NoFile
            /\ UNCHANGED <<listen_map, ops, mixed, pid_filter>>
      BY <1>4 DEF OpenDelete, Deleted
    <2>2. Running(t)'
      BY <1>0, <2>1, TaskAtRest DEF Running
    <2> QED
      BY <1>0, <2>1, <2>2, TaskAtRest, OneTask
  <1>5. ASSUME NEW t \in Tasks, WriteBlock(t) PROVE TasksRight'
    <2>1. /\ task' = IF LastBlock(task[t].block, task[t].total) THEN [task EXCEPT ![t] = AtRest]
                                                  ELSE [task EXCEPT ![t].block = @ + 1]
          /\ UNCHANGED <<tmp_map, listen_map, ops, mixed, pid_filter>>
          /\ task[t].pc = "written"
      BY <1>5 DEF WriteBlock
    <2>2. CASE LastBlock(task[t].block, task[t].total)
      <3>1. Running(t)'
        BY <1>0, <2>1, <2>2, TaskAtRest DEF Running
      <3> QED
        BY <1>0, <2>1, <2>2, <3>1, TaskAtRest, OneTask
    <2>3. CASE ~LastBlock(task[t].block, task[t].total)
      <3> DEFINE w == [task[t] EXCEPT !.block = task[t].block + 1]
      <3>1. task' = [task EXCEPT ![t] = w]
        BY <1>0, <2>1, <2>3
      <3>2. w \in TaskState /\ w.pc = task[t].pc /\ w.cpu = task[t].cpu /\ w.name = task[t].name
            /\ w.op = task[t].op /\ w.total = task[t].total /\ w.block = task[t].block + 1
        BY <1>0 DEF TaskState
      <3> HIDE DEF w
      <3>3. task'[t] = w
        BY <1>0, <3>1
      <3>4. w.block \in 0 .. Blocks - 1 /\ w.block < w.total
        <4>1. task[t].block \in 0 .. Blocks - 1 /\ task[t].total \in Nat /\ Blocks \in Nat
          BY <1>0, <2>1, SizesAssumption DEF Running
        <4> QED
          BY <4>1, <2>3, <3>2 DEF LastBlock
      <3>5. Running(t)'
        BY <1>0, <2>1, <3>2, <3>3, <3>4 DEF Running
      <3> QED
        BY <1>0, <2>1, <3>1, <3>2, <3>5, OneTask
    <2> QED
      BY <2>2, <2>3
  <1>6. ASSUME NEW t \in Tasks, NEW f \in Files, detect_file_open(t, f) PROVE TasksRight'
    <2> DEFINE w == [AtRest EXCEPT !.pc = "opening", !.file = f]
    <2>1. /\ task' = [task EXCEPT ![t] = w] /\ tmp_map' \in Files \cup {NoFile}
          /\ UNCHANGED <<listen_map, pid_filter>> /\ ops' = ops + 1 /\ ops < MaxOut /\ mixed' \in BOOLEAN
      BY <1>0, <1>6 DEF detect_file_open
    <2>2. w \in TaskState /\ w.pc = "opening" /\ w.cpu = 0 /\ w.file = f
      BY TaskAtRest DEF AtRest
    <2> HIDE DEF w
    <2>3. task'[t] = w /\ ops' \in 0 .. MaxOut
      BY <1>0, <2>1, SizesAssumption
    <2>4. Running(t)'
      BY <2>2, <2>3 DEF Running
    <2> QED
      BY <1>0, <2>1, <2>2, <2>3, <2>4, OneTask
  <1>7. ASSUME NEW t \in Tasks, NEW c \in CPUs, detect_file_open_ret(t, c) PROVE TasksRight'
    <2>1. CASE tmp_map = NoFile
      <3>1. task' = [task EXCEPT ![t] = AtRest] /\ UNCHANGED <<tmp_map, listen_map, ops, mixed, pid_filter>>
        BY <1>7, <2>1 DEF detect_file_open_ret
      <3>2. Running(t)'
        BY <1>0, <3>1, TaskAtRest DEF Running
      <3> QED
        BY <1>0, <3>1, <3>2, TaskAtRest, OneTask
    <2>2. CASE tmp_map # NoFile
      <3> DEFINE w == [task[t] EXCEPT !.pc = "opened", !.name = tmp_map, !.cpu = c]
      <3>1. task' = [task EXCEPT ![t] = w] /\ UNCHANGED <<tmp_map, listen_map, ops, mixed, pid_filter>>
              /\ ~Runs(c)
            /\ task[t].pc = "opening" /\ tmp_map \in Files
        BY <1>0, <1>7, <2>2 DEF detect_file_open_ret
      <3>2. w \in TaskState /\ w.pc = "opened" /\ w.cpu = c /\ w.file = task[t].file /\ w.name = tmp_map
        <4>1. w.pc = "opened" /\ w.cpu = c /\ w.file = task[t].file /\ w.name = tmp_map
          BY <1>0 DEF TaskState
        <4> QED
          BY <1>0, <3>1, <4>1, TaskChanges
      <3> HIDE DEF w
      <3>3. task'[t] = w
        BY <1>0, <3>1
      <3>4. Running(t)'
        BY <1>0, <3>1, <3>2, <3>3 DEF Running
      <3> QED
        BY <1>0, <3>1, <3>2, <3>4, OneTask
    <2> QED
      BY <2>1, <2>2
  <1>8. ASSUME NEW t \in Tasks, NEW f \in Files, NEW c \in CPUs,
                 NEW blocks \in WriteSizes, detect_file_write(t, f, c, blocks)
        PROVE  TasksRight'
    <2> DEFINE w == [AtRest EXCEPT !.pc = "written", !.name = f, !.cpu = c, !.total = blocks, !.op = ops + 1]
    <2>1. /\ task' = [task EXCEPT ![t] = w] /\ UNCHANGED <<tmp_map, listen_map, mixed, pid_filter>>
          /\ ops' = ops + 1 /\ ops < MaxOut /\ ~Runs(c)
      BY <1>8 DEF detect_file_write
    <2>2. ops + 1 \in 1 .. MaxOut /\ ops' \in 0 .. MaxOut
      BY <1>0, <2>1, SizesAssumption
    <2>3. w \in TaskState
      <3>1. ops + 1 \in Nat
        BY <2>2
      <3> QED
        BY <3>1, TaskAtRest
    <2>4. w.pc = "written" /\ w.cpu = c /\ w.name = f /\ w.total = blocks /\ w.op = ops + 1 /\ w.block = 0
      BY DEF AtRest
    <2>5. blocks \in Nat /\ blocks > 0 /\ Blocks \in Nat /\ Blocks > 0
      BY SizesAssumption
    <2> HIDE DEF w
    <2>6. task'[t] = w
      BY <1>0, <2>1
    <2>7. Running(t)'
      <3>1. w.block \in 0 .. Blocks - 1 /\ w.block < w.total
        BY <2>4, <2>5
      <3> QED
        BY <2>2, <2>4, <2>6, <3>1 DEF Running
    <2> QED
      BY <1>0, <2>1, <2>2, <2>3, <2>4, <2>7, OneTask
  <1>9. ASSUME NEW f \in Files, Listen(f) PROVE TasksRight'
    BY <1>0, <1>1, <1>9 DEF Listen
  <1>10. CASE SetFilter
    BY <1>0, <1>1, <1>10 DEF SetFilter
  <1> QED
    BY <1>2, <1>3, <1>4, <1>5, <1>6, <1>7, <1>8, <1>9, <1>10 DEF Next, Program

\* losses are told before the next record
Told(c) == IF lost[c] = 0 THEN <<>> ELSE <<[lost |-> lost[c]]>>

\* what a step does to what is on its way
Still == Queue' = Queue /\ UNCHANGED <<lost, got>>
Puts(c, e) ==
  /\ Queue' = [Queue EXCEPT ![c] = @ \o Told(c) \o <<e>>]
  /\ lost' = [lost EXCEPT ![c] = 0] /\ got' = got
Loses(c) == Queue' = Queue /\ lost' = [lost EXCEPT ![c] = @ + 1] /\ got' = got
Gets(c) ==
  /\ Queue[c] # <<>> /\ Queue' = [Queue EXCEPT ![c] = Tail(@)]
  /\ got' = [got EXCEPT ![c] = Append(@, Head(Queue[c]))] /\ lost' = lost
Drops(c) ==
  Queue' = [Queue EXCEPT ![c] = <<>>] /\ lost' = [lost EXCEPT ![c] = 0] /\ got' = got

(* Where no ring is changed and no place of the reader, nothing moves.     *)
LEMMA SameRings ==
  ASSUME RingsRight, UNCHANGED <<ring, lost, got>>, \A c \in CPUs : From(c)' = From(c)
  PROVE  Still /\ \A c \in CPUs : RingRight(ring[c], From(c))'
  <1>1. Queue' = [c \in CPUs |-> InRing(ring'[c].mem, ring'[c].head, From(c)')]
    BY DEF Queue
  <1>2. Queue' = Queue
    BY <1>1 DEF Queue
  <1>3. ASSUME NEW c \in CPUs PROVE RingRight(ring[c], From(c))'
    <2>1. RingRight(ring[c], From(c)) /\ ring'[c] = ring[c] /\ From(c)' = From(c)
      BY DEF RingsRight
    <2> QED
      BY SMTT(30), <2>1 DEF RingRight, Whole, Starts, Word
  <1> QED
    BY <1>2, <1>3 DEF Still

(* The kernel's step.                                                      *)
LEMMA OutputStep ==
  ASSUME RingsRight, InStages, NEW c \in CPUs, NEW e \in FileEvents, NEW words \in 1 .. mmap_size,
         Output(c, Sample(e, words)), UNCHANGED <<pb, res, got>>
  PROVE  /\ RingsRight'
         /\ \/ Still /\ gap' = gap \cup {c}
            \/ (Loses(c) \/ Puts(c, e)) /\ gap' = gap
  <1> DEFINE s == Sample(e, words)
             told == IF lost[c] = 0 THEN ring[c] ELSE Placed(ring[c], LostSample(lost[c]))
  <1>0. /\ ring \in [CPUs -> RingT] /\ lost \in [CPUs -> Nat] /\ got \in [CPUs -> Seq(Reports)]
        /\ gap \subseteq CPUs /\ pb \in ReaderT /\ s.size = words
    BY DEF RingsRight, BufferTyped, Sample
  <1>1. \/ gap' = gap \cup {c} /\ UNCHANGED <<ring, lost>>
        \/ /\ gap' = gap /\ {"enabled", "key"} \subseteq res[c]
           /\ \/ ring' = ring /\ lost' = [lost EXCEPT ![c] = @ + 1]
              \/ /\ told.head + words - ring[c].tail <= mmap_size
                 /\ ring' = [ring EXCEPT ![c] = Placed(told, s)]
                 /\ lost' = [lost EXCEPT ![c] = 0]
    BY <1>0 DEF Output
  <1>2. CASE gap' = gap \cup {c} /\ UNCHANGED <<ring, lost>>
    <2>1. \A d \in CPUs : From(d)' = From(d)
      BY <1>2 DEF From
    <2>2. Still /\ \A d \in CPUs : RingRight(ring[d], From(d))'
      BY <1>2, <2>1, SameRings
    <2>3. BufferTyped' /\ InFront' /\ Shut'
      BY <1>0, <1>2 DEF RingsRight, BufferTyped, InFront, Shut, Starts, Word
    <2> QED
      BY <1>2, <2>2, <2>3 DEF RingsRight
  <1>3. CASE gap' = gap /\ {"enabled", "key"} \subseteq res[c] /\ ring' = ring
               /\ lost' = [lost EXCEPT ![c] = @ + 1]
    <2>1. ASSUME NEW d \in CPUs
          PROVE  RingRight(ring[d], From(d))' /\ From(d)' = From(d)
      <3>1. RingRight(ring[d], From(d)) /\ ring'[d] = ring[d] /\ From(d)' = From(d)
        BY <1>3 DEF RingsRight, From
      <3> QED
        BY SMTT(30), <3>1 DEF RingRight, Whole, Starts, Word
    <2>2. Queue' = Queue
      <3>1. Queue' = [d \in CPUs |-> InRing(ring'[d].mem, ring'[d].head, From(d)')]
        BY DEF Queue
      <3> QED
        BY <1>3, <2>1, <3>1 DEF Queue
    <2>3. BufferTyped' /\ InFront' /\ Shut'
      BY <1>0, <1>3 DEF RingsRight, BufferTyped, InFront, Shut, Starts, Word
    <2> QED
      BY <1>3, <2>1, <2>2, <2>3 DEF RingsRight, Loses
  <1>4. CASE /\ gap' = gap /\ {"enabled", "key"} \subseteq res[c]
             /\ told.head + words - ring[c].tail <= mmap_size
             /\ ring' = [ring EXCEPT ![c] = Placed(told, s)]
             /\ lost' = [lost EXCEPT ![c] = 0]
    <2> DEFINE r == ring[c]
               a == From(c)
               q == Placed(told, s)
    <2>1. r \in RingT /\ RingRight(r, a) /\ a \in Nat /\ lost[c] \in Nat
      BY <1>0 DEF RingsRight, From, ReaderT, RingT
    <2>2. /\ q \in RingT /\ RingRight(q, a) /\ q.head > r.head
          /\ InRing(q.mem, q.head, a) = InRing(r.mem, r.head, a) \o Told(c) \o <<e>>
          /\ \A p \in a .. r.head : Starts(r.mem, r.head, p) => Starts(q.mem, q.head, p)
      <3> HIDE DEF r, a
      <3>1. \A t : t = (IF lost[c] = 0 THEN r ELSE Placed(r, LostSample(lost[c])))
                   /\ t.head + words - r.tail <= mmap_size =>
                   LET x == Placed(t, Sample(e, words))
                   IN  /\ x \in RingT /\ RingRight(x, a) /\ x.head > r.head
                       /\ InRing(x.mem, x.head, a)
                            = InRing(r.mem, r.head, a)
                              \o (IF lost[c] = 0 THEN <<>> ELSE <<[lost |-> lost[c]]>>) \o <<e>>
                       /\ \A p \in a .. r.head : Starts(r.mem, r.head, p) => Starts(x.mem, x.head, p)
        BY <2>1, Outputs
      <3>2. told = (IF lost[c] = 0 THEN r ELSE Placed(r, LostSample(lost[c])))
              /\ told.head + words - r.tail <= mmap_size
        BY <1>4 DEF r
      <3> HIDE DEF told
      <3> QED
        BY <3>1, <3>2 DEF Told
    <2> HIDE DEF q, told
    <2>3. /\ ring' = [ring EXCEPT ![c] = q] /\ ring'[c] = q /\ \A d \in CPUs : d # c => ring'[d] = ring[d]
      BY <1>0, <1>4 DEF q
    <2>4. q.tail = r.tail
      BY DEF q, Placed, told
    <2>5. \A d \in CPUs : From(d)' = From(d)
      BY <2>3, <2>4 DEF From
    <2>6. ASSUME NEW d \in CPUs PROVE RingRight(ring[d], From(d))'
      <3>1. CASE d = c
        <4>1. RingRight(ring'[d], From(d)')
          BY <2>2, <2>3, <2>5, <3>1
        <4> QED
          BY <4>1 DEF RingRight, Whole, Starts, Word
      <3>2. CASE d # c
        <4>1. RingRight(ring'[d], From(d)')
          BY <2>3, <2>5, <3>2 DEF RingsRight
        <4> QED
          BY <4>1 DEF RingRight, Whole, Starts, Word
      <3> QED
        BY <3>1, <3>2
    <2>7. Queue' = [Queue EXCEPT ![c] = @ \o Told(c) \o <<e>>]
      <3>1. Queue' = [d \in CPUs |-> InRing(ring'[d].mem, ring'[d].head, From(d)')]
        BY DEF Queue
      <3>2. \A d \in CPUs : InRing(ring'[d].mem, ring'[d].head, From(d)')
                              = IF d = c THEN Queue[c] \o Told(c) \o <<e>> ELSE Queue[d]
        <4>1. Queue[c] = InRing(r.mem, r.head, a)
                /\ \A d \in CPUs : Queue[d] = InRing(ring[d].mem, ring[d].head, From(d))
          BY DEF Queue
        <4>2. InRing(ring'[c].mem, ring'[c].head, From(c)') = InRing(q.mem, q.head, a)
          BY <2>3, <2>5
        <4>3. \A d \in CPUs : d # c => InRing(ring'[d].mem, ring'[d].head, From(d)')
                = InRing(ring[d].mem, ring[d].head, From(d))
          BY <2>3, <2>5
        <4> HIDE DEF r, a
        <4> QED
          BY <2>2, <4>1, <4>2, <4>3
      <3>3. DOMAIN Queue = CPUs
        BY DEF Queue
      <3>4. Queue' = [d \in CPUs |-> IF d = c THEN Queue[c] \o Told(c) \o <<e>> ELSE Queue[d]]
        BY <3>1, <3>2
      <3> HIDE DEF r, a
      <3>5. [Queue EXCEPT ![c] = Queue[c] \o Told(c) \o <<e>>]
              = [d \in CPUs |-> IF d = c THEN Queue[c] \o Told(c) \o <<e>> ELSE Queue[d]]
        BY <3>3
      <3> QED
        BY <3>4, <3>5
    <2>8. InFront'
      <3>1. SUFFICES ASSUME pb.pc = "read"
                     PROVE  /\ pb.cpu \in CPUs /\ pb.tail <= pb.head /\ pb.head <= ring'[pb.cpu].head
                            /\ Starts(ring'[pb.cpu].mem, ring'[pb.cpu].head, pb.head)
        BY DEF InFront, Starts, Word
      <3>2. /\ pb.cpu \in CPUs /\ pb.tail <= pb.head /\ pb.head <= ring[pb.cpu].head
            /\ Starts(ring[pb.cpu].mem, ring[pb.cpu].head, pb.head)
        BY <3>1 DEF RingsRight, InFront
      <3>3. CASE pb.cpu = c
        <4>1. a = pb.tail /\ pb.head \in a .. r.head
          BY <1>0, <3>1, <3>2, <3>3 DEF From, ReaderT
        <4>2. pb.head <= q.head
          <5>1. pb.head \in Nat /\ r.head \in Nat /\ q.head \in Nat /\ pb.head <= r.head /\ q.head > r.head
            BY <1>0, <2>1, <2>2, <3>2, <3>3 DEF ReaderT, RingT
          <5> QED
            BY ONLY <5>1
        <4> QED
          BY <2>2, <2>3, <3>2, <3>3, <4>1, <4>2
      <3>4. CASE pb.cpu # c
        BY <2>3, <3>2, <3>4
      <3> QED
        BY <3>3, <3>4
    <2>9. Shut'
      BY <1>0, <1>4, <2>3 DEF Shut, RingsRight
    <2>10. BufferTyped'
      <3>1. ring' \in [CPUs -> RingT] /\ lost' \in [CPUs -> Nat]
        BY <1>0, <1>4, <2>2, <2>3
      <3> QED
        BY <1>0, <1>4, <3>1 DEF BufferTyped
    <2> QED
      BY <1>4, <2>6, <2>7, <2>8, <2>9, <2>10 DEF RingsRight, Puts
  <1> QED
    BY <1>1, <1>2, <1>3, <1>4

(* Steps of the buffer's life that leave the rings, and the reader, alone. *)
LEMMA QuietStep ==
  ASSUME RingsRight, InStages, UNCHANGED <<ring, lost, got, gap>>,
         pb' \in ReaderT, \A c \in CPUs : From(c)' = From(c), InFront', Shut'
  PROVE  RingsRight' /\ Still
  BY SameRings DEF RingsRight, BufferTyped

(* A reader that rests, or begins a stage, has its type.                   *)
LEMMA RestingRight ==
  /\ Resting \in ReaderT /\ Resting.pc = "none"
  /\ \A x \in {"new", "free", "open", "poll", "error"} : [Resting EXCEPT !.pc = x] \in ReaderT
  /\ \A x \in {"new", "free"} : [Resting EXCEPT !.pc = x, !.cpu = 1] \in ReaderT
  /\ \A order \in Seq(CPUs) : [Resting EXCEPT !.pc = "poll", !.ready = order] \in ReaderT
  <1>1. Max_cpu \in Nat /\ 0 \in 0 .. Max_cpu + 1 /\ 1 \in 0 .. Max_cpu + 1
    BY MmapAssumption
  <1>2. Resting \in ReaderT
    BY <1>1 DEF Resting, ReaderT
  <1> QED
    BY <1>1, <1>2 DEF Resting, ReaderT

\* a reader that does not read is in front of nothing
LEMMA NotReading ==
  ASSUME pb'.pc # "read", pb.pc # "read", UNCHANGED ring
  PROVE  InFront' /\ \A c \in CPUs : From(c)' = From(c)
  BY DEF InFront, From

(* Shut speaks of the rings, the losses and the resources only.            *)
LEMMA Unshut ==
  ASSUME Shut, UNCHANGED <<ring, lost, res>>
  PROVE  Shut'
  BY DEF Shut

(* The steps that prepare: perf_buffer__new is called, perf_buffer__free   *)
(* is called, epoll_wait returns, and a head is read.                      *)
LEMMA LifeSteps ==
  ASSUME RingsRight, InStages, New \/ Free \/ Poll \/ ReadHead
  PROVE  RingsRight' /\ Still
  <1>0. pb \in ReaderT /\ Shut /\ InFront /\ ring \in [CPUs -> RingT]
          /\ \A c \in CPUs : RingRight(ring[c], From(c))
    BY DEF RingsRight, BufferTyped
  <1>1. CASE New \/ Free
    <2>1. /\ pb' \in ReaderT /\ pb'.pc # "read" /\ pb.pc # "read" /\ UNCHANGED <<ring, lost, got, gap, res>>
      BY <1>0, <1>1, RestingRight DEF New, Free, Resting
    <2> QED
      BY <1>0, <2>1, NotReading, Unshut, QuietStep
  <1>2. CASE Poll
    <2>1. PICK order \in UNION {[1 .. n -> CPUs] : n \in 1 .. Max_cpu} :
             pb' = [Resting EXCEPT !.pc = "poll", !.ready = order]
      BY <1>2 DEF Poll
    <2>2. order \in Seq(CPUs)
      <3>1. PICK n \in 1 .. Max_cpu : order \in [1 .. n -> CPUs]
        OBVIOUS
      <3> QED
        BY <3>1, MmapAssumption
    <2>3. pb' \in ReaderT
      BY <2>1, <2>2, RestingRight
    <2>4. pb'.pc = "poll"
      BY <2>1 DEF Resting
    <2>5. pb.pc # "read" /\ UNCHANGED <<ring, lost, got, gap, res>>
      BY <1>2 DEF Poll
    <2> QED
      BY <1>0, <2>3, <2>4, <2>5, NotReading, Unshut, QuietStep
  <1>3. CASE ReadHead
    <2> DEFINE c == Head(pb.ready)
    <2>1. /\ pb.pc = "poll" /\ pb.ready # <<>> /\ UNCHANGED <<ring, lost, got, gap, res>>
          /\ pb' = [pc |-> "read", cpu |-> c, ready |-> Tail(pb.ready), head |-> ring[c].head, tail |-> ring[c].tail]
      BY <1>3 DEF ReadHead
    <2>2. pb.ready \in Seq(CPUs)
      BY <1>0 DEF ReaderT
    <2>3. c \in CPUs /\ Tail(pb.ready) \in Seq(CPUs)
      BY <2>1, <2>2
    <2>4. ring[c] \in RingT /\ RingRight(ring[c], ring[c].tail)
      BY <1>0, <2>1, <2>3 DEF From
    <2> HIDE DEF c
    <2>5. pb' \in ReaderT
      <3>1. c \in 0 .. Max_cpu + 1
        BY <2>3, MmapAssumption DEF CPUs
      <3> QED
        BY <2>1, <2>3, <2>4, <3>1 DEF ReaderT, RingT
    <2>6. \A d \in CPUs : From(d)' = From(d)
      BY <2>1 DEF From
    <2>7. InFront'
      <3>1. pb'.pc = "read" /\ pb'.cpu = c /\ pb'.tail = ring[c].tail /\ pb'.head = ring[c].head
        BY <2>1
      <3>2. ring[c].head <= ring[c].head /\ ring[c].tail <= ring[c].head
        BY <2>4 DEF RingRight, RingT
      <3> QED
        BY <2>1, <2>3, <3>1, <3>2 DEF InFront, Starts
    <2> QED
      BY <1>0, <2>1, <2>5, <2>6, <2>7, Unshut, QuietStep
  <1> QED
    BY <1>1, <1>2, <1>3

(* A new ring has nothing.                                                 *)
LEMMA EmptyRing ==
  /\ NewRing \in RingT /\ RingRight(NewRing, 0) /\ NewRing.head = 0 /\ NewRing.tail = 0
  /\ InRing(NewRing.mem, NewRing.head, 0) = <<>>
  <1>1. NewRing.head = 0 /\ NewRing.tail = 0 /\ NewRing \in RingT
    BY DEF NewRing, RingT, Memory
  <1>2. Whole(NewRing.mem, 0, 0) /\ Starts(NewRing.mem, 0, 0)
    BY DEF Whole, Starts
  <1>3. RingRight(NewRing, 0)
    BY <1>1, <1>2, MmapSize DEF RingRight
  <1>4. InRing(NewRing.mem, 0, 0) = <<>>
    <2>1. 0 \in Nat /\ 0 \in 0 .. 0
      OBVIOUS
    <2> QED
      BY ONLY <1>2, <2>1, FirstOf
  <1> QED
    BY <1>1, <1>3, <1>4

(* perf_buffer__new: a ring that is mapped had nothing, as the kernel puts *)
(* nothing into a ring without an enabled event at its key.                *)
LEMMA OpenStepRight ==
  ASSUME RingsRight, InStages, OpenStep
  PROVE  RingsRight' /\ Still
  <1>0. pb \in ReaderT /\ Shut /\ InFront /\ ring \in [CPUs -> RingT]
          /\ \A c \in CPUs : RingRight(ring[c], From(c))
    BY DEF RingsRight, BufferTyped
  <1>1. PICK n \in 0 .. 4 : res[pb.cpu] = Stage(n)
    BY DEF OpenStep, InStages
  <1>2. pb.pc = "new" /\ pb.cpu \in CPUs /\ res \in [CPUs -> SUBSET Resources] /\ UNCHANGED <<lost, got, gap>>
    BY DEF OpenStep, InStages
  <1>3. \/ /\ res' = [res EXCEPT ![pb.cpu] = Stage(n + 1)]
           /\ ring' = IF Order[n + 1] = "mmap" THEN [ring EXCEPT ![pb.cpu] = NewRing] ELSE ring
           /\ pb' = IF n + 1 < 5 THEN pb ELSE IF pb.cpu < Max_cpu THEN [pb EXCEPT !.cpu = pb.cpu + 1]
                                               ELSE [Resting EXCEPT !.pc = "open"]
        \/ /\ pb' = [Resting EXCEPT !.pc = "free", !.cpu = 1]
           /\ res' = IF n + 1 <= 3 THEN [res EXCEPT ![pb.cpu] = {}] ELSE res
           /\ ring' = ring
    <2>. DEFINE k == CHOOSE i \in 1 .. 5 : Order[i] \notin res[pb.cpu]
                  /\ \A j \in 1 .. i - 1 : Order[j] \in res[pb.cpu]
    <2>1. k = n + 1
      BY <1>1, NextNeed
    <2>2. \/ /\ res' = [res EXCEPT ![pb.cpu] = @ \cup {Order[k]}]
             /\ ring' = IF Order[k] = "mmap" THEN [ring EXCEPT ![pb.cpu] = NewRing] ELSE ring
             /\ pb' = IF k < 5 THEN pb ELSE IF pb.cpu < Max_cpu THEN [pb EXCEPT !.cpu = pb.cpu + 1]
                                                 ELSE [Resting EXCEPT !.pc = "open"]
          \/ /\ pb' = [Resting EXCEPT !.pc = "free", !.cpu = 1]
             /\ res' = IF k <= 3 THEN [res EXCEPT ![pb.cpu] = {}] ELSE res
             /\ ring' = ring
      BY DEF OpenStep
    <2>. HIDE DEF k
    <2>3. res[pb.cpu] \cup {Order[n + 1]} = Stage(n + 1)
      BY <1>1, NextNeed
    <2> QED
      BY <2>1, <2>2, <2>3
  <1>4. /\ \A k \in 0 .. 3 : ~({"enabled", "key"} \subseteq Stage(k))
        /\ Order[n + 1] = "mmap" => n = 1
    <2>1. Order[1] = "fd" /\ Order[2] = "mmap" /\ Order[3] = "enabled" /\ Order[4] = "key" /\ Order[5] = "epoll"
      BY DEF Order
    <2>2. \A k \in 0 .. 3 : "key" \notin Stage(k)
      BY <2>1 DEF Stage
    <2> QED
      BY <2>1, <2>2
  <1>5. ring' = ring
    <2>1. CASE Order[n + 1] = "mmap"
      <3>1. ring[pb.cpu] = NewRing
        BY <1>0, <1>1, <1>2, <1>4, <2>1 DEF Shut
      <3> QED
        BY <1>0, <1>3, <3>1
    <2>2. CASE Order[n + 1] # "mmap"
      BY <1>3, <2>2
    <2> QED
      BY <2>1, <2>2
  <1>6. Shut'
    <2>1. ASSUME NEW c \in CPUs, ~({"enabled", "key"} \subseteq res'[c])
        PROVE ~({"enabled", "key"} \subseteq res[c]) \/ c = pb.cpu
      BY <1>2, <1>3, <2>1
    <2>2. ASSUME ~({"enabled", "key"} \subseteq res'[pb.cpu]) PROVE ~({"enabled", "key"} \subseteq res[pb.cpu])
      <3>1. CASE res' = [res EXCEPT ![pb.cpu] = Stage(n + 1)]
        <4>1. Stage(n) \subseteq Stage(n + 1)
          BY DEF Stage
        <4> QED
          BY <1>1, <1>2, <2>2, <3>1, <4>1
      <3>2. CASE res' = IF n + 1 <= 3 THEN [res EXCEPT ![pb.cpu] = {}] ELSE res
        BY <1>1, <1>4, <2>2, <3>2
      <3> QED
        BY <1>3, <3>1, <3>2
    <2> QED
      BY <1>0, <1>2, <1>5, <2>1, <2>2 DEF Shut
  <1>7. pb' \in ReaderT /\ pb'.pc # "read"
    <2>1. [Resting EXCEPT !.pc = "open"].pc = "open" /\ [Resting EXCEPT !.pc = "free", !.cpu = 1].pc = "free"
      BY DEF Resting
    <2>2. ASSUME pb.cpu < Max_cpu PROVE [pb EXCEPT !.cpu = pb.cpu + 1] \in ReaderT
                   /\ [pb EXCEPT !.cpu = pb.cpu + 1].pc = "new"
      <3>1. pb.cpu + 1 \in 0 .. Max_cpu + 1
        BY <1>2, MmapAssumption DEF CPUs
      <3> QED
        BY <1>0, <1>2, <3>1 DEF ReaderT
    <2> QED
      BY <1>0, <1>2, <1>3, <2>1, <2>2, RestingRight
  <1> QED
    BY <1>2, <1>5, <1>6, <1>7, NotReading, QuietStep

(* One ring is changed: the others hold what they held.                    *)
LEMMA OneRing ==
  ASSUME RingsRight, NEW c \in CPUs, NEW q, q \in RingT, NEW a, RingRight(q, a),
         ring' = [ring EXCEPT ![c] = q], From(c)' = a,
         \A d \in CPUs : d # c => From(d)' = From(d)
  PROVE  /\ Queue' = [Queue EXCEPT ![c] = InRing(q.mem, q.head, a)]
         /\ ring' \in [CPUs -> RingT]
         /\ \A d \in CPUs : RingRight(ring[d], From(d))'
  <1>1. /\ ring \in [CPUs -> RingT] /\ ring'[c] = q /\ \A d \in CPUs : d # c => ring'[d] = ring[d]
    BY DEF RingsRight, BufferTyped
  <1>2. ASSUME NEW d \in CPUs PROVE RingRight(ring[d], From(d))'
    <2>1. RingRight(ring'[d], From(d)')
      BY <1>1 DEF RingsRight
    <2> QED
      BY <2>1 DEF RingRight, Whole, Starts, Word
  <1>3. Queue' = [d \in CPUs |-> InRing(ring'[d].mem, ring'[d].head, From(d)')]
    BY DEF Queue
  <1>4. \A d \in CPUs : InRing(ring'[d].mem, ring'[d].head, From(d)')
                          = IF d = c THEN InRing(q.mem, q.head, a) ELSE Queue[d]
    BY <1>1 DEF Queue
  <1>5. DOMAIN Queue = CPUs
    BY DEF Queue
  <1>6. Queue' = [Queue EXCEPT ![c] = InRing(q.mem, q.head, a)]
    BY <1>3, <1>4, <1>5
  <1> QED
    BY <1>1, <1>2, <1>6

(* perf_buffer__free drops what the CPU still had.                         *)
LEMMA FreeStepRight ==
  ASSUME RingsRight, InStages, FreeStep
  PROVE  /\ RingsRight'
         /\ (Still /\ gap' = gap) \/ \E c \in CPUs : Drops(c) /\ gap' = gap \cup {c}
  <1>0. /\ pb \in ReaderT /\ Shut /\ InFront /\ ring \in [CPUs -> RingT] /\ lost \in [CPUs -> Nat]
        /\ got \in [CPUs -> Seq(Reports)] /\ gap \subseteq CPUs /\ res \in [CPUs -> SUBSET Resources]
        /\ \A c \in CPUs : RingRight(ring[c], From(c))
    BY DEF RingsRight, BufferTyped, InStages
  <1>1. CASE Present(pb.cpu)
    <2>c. PICK c : c = pb.cpu
      OBVIOUS
    <2>1. /\ pb.pc = "free" /\ res' = [res EXCEPT ![c] = {}] /\ ring' = [ring EXCEPT ![c] = NewRing]
          /\ lost' = [lost EXCEPT ![c] = 0] /\ gap' = gap \cup {c} /\ pb' = [pb EXCEPT !.cpu = c + 1]
               /\ got' = got
      BY <1>1, <2>c DEF FreeStep
    <2>2. c \in CPUs /\ c + 1 \in 0 .. Max_cpu + 1
      <3>1. c <= Max_cpu /\ c \in 0 .. Max_cpu + 1 /\ res[c] # {}
        BY <1>0, <1>1, <2>c DEF Present, ReaderT
      <3>2. c # 0
        BY <1>0, <2>1, <2>c DEF InStages
      <3> QED
        BY <3>1, <3>2, MmapAssumption DEF CPUs
    <2>3. pb' \in ReaderT /\ pb'.pc = "free"
      BY <1>0, <2>1, <2>2 DEF ReaderT
    <2>4. \A d \in CPUs : From(d) = ring[d].tail /\ From(d)' = ring'[d].tail
      BY <2>1, <2>3 DEF From
    <2>5. From(c)' = 0 /\ \A d \in CPUs : d # c => From(d)' = From(d)
      <3>1. ring'[c] = NewRing /\ \A d \in CPUs : d # c => ring'[d] = ring[d]
        BY <1>0, <2>1, <2>2
      <3> QED
        BY <2>2, <2>4, <3>1, EmptyRing
    <2>6. Queue' = [Queue EXCEPT ![c] = <<>>] /\ ring' \in [CPUs -> RingT]
            /\ \A d \in CPUs : RingRight(ring[d], From(d))'
      <3>1. PICK q, z : q = NewRing /\ z = 0
        OBVIOUS
      <3>2. q \in RingT /\ RingRight(q, z) /\ InRing(q.mem, q.head, z) = <<>>
        BY <3>1, EmptyRing
      <3>3. ring' = [ring EXCEPT ![c] = q] /\ From(c)' = z /\ \A d \in CPUs : d # c => From(d)' = From(d)
        BY <2>1, <2>5, <3>1
      <3>4. Queue' = [Queue EXCEPT ![c] = InRing(q.mem, q.head, z)] /\ ring' \in [CPUs -> RingT]
              /\ \A d \in CPUs : RingRight(ring[d], From(d))'
        BY <2>2, <3>2, <3>3, OneRing
      <3> QED
        BY <3>2, <3>4
    <2>7. BufferTyped' /\ InFront'
      BY <1>0, <2>1, <2>2, <2>3, <2>6 DEF BufferTyped, InFront
    <2>8. Shut'
      BY <1>0, <2>1, <2>2 DEF Shut
    <2> QED
      BY <2>1, <2>2, <2>6, <2>7, <2>8 DEF RingsRight, Drops
  <1>2. CASE ~Present(pb.cpu)
    <2>1. pb.pc = "free" /\ pb' = Resting /\ UNCHANGED <<res, ring, lost, gap, got>>
      BY <1>2 DEF FreeStep
    <2> QED
      BY <1>0, <2>1, RestingRight, NotReading, Unshut, QuietStep
  <1> QED
    BY <1>1, <1>2

(* The callback gets the first record that is on its way; the reader does  *)
(* not go past the head it was told of, since a record begins there.       *)
LEMMA ReadRecordRight ==
  ASSUME RingsRight, InStages, ReadRecord
  PROVE  RingsRight' /\ Gets(pb.cpu) /\ pb.cpu \in CPUs /\ gap' = gap
  <1>c. PICK c : c = pb.cpu
    OBVIOUS
  <1>a. PICK a : a = pb.tail
    OBVIOUS
  <1> DEFINE r == ring[c]
             w == Word(r.mem, a)
             n == a + w.s.size
  <1>0. /\ pb \in ReaderT /\ Shut /\ InFront /\ ring \in [CPUs -> RingT] /\ lost \in [CPUs -> Nat]
        /\ got \in [CPUs -> Seq(Reports)] /\ gap \subseteq CPUs
        /\ \A d \in CPUs : RingRight(ring[d], From(d))
    BY DEF RingsRight, BufferTyped
  <1>1. /\ pb.pc = "read" /\ pb.head # pb.tail /\ UNCHANGED <<res, ring, lost, gap>>
        /\ got' = [got EXCEPT ![c] = Append(@, Meaning(RecordAt(r.mem, a)))]
        /\ pb' = [pb EXCEPT !.tail = n]
    BY <1>c, <1>a DEF ReadRecord, Word
  <1>2. /\ c \in CPUs /\ a <= pb.head /\ pb.head <= r.head /\ Starts(r.mem, r.head, pb.head)
        /\ a \in Nat /\ pb.head \in Nat /\ r \in RingT /\ r.head \in Nat /\ r.mem \in Memory /\ r.tail \in Nat
        /\ From(c) = a /\ RingRight(r, a)
    <2>1. c \in CPUs
      BY <1>0, <1>1, <1>c DEF InFront
    <2> QED
      BY <1>0, <1>1, <1>c, <1>a, <2>1 DEF InFront, ReaderT, RingT, From
  <1>3. a < r.head /\ a < pb.head /\ a \in 0 .. r.head
    BY <1>1, <1>2, <1>a
  <1>4. /\ w \in Words /\ w.s.size \in 1 .. mmap_size /\ n \in a + 1 .. r.head
        /\ Starts(r.mem, r.head, n) /\ Whole(r.mem, r.head, n)
        /\ \A j \in 0 .. w.s.size - 1 : Word(r.mem, a + j) = [s |-> w.s, i |-> j]
    <2>1. Whole(r.mem, r.head, a) /\ Starts(r.mem, r.head, a) /\ r.head \in Nat /\ a \in Nat /\ a < r.head
      BY <1>2, <1>3 DEF RingRight
    <2> HIDE DEF r
    <2> QED
      BY <2>1, NextStarts
  <1>5. Meaning(RecordAt(r.mem, a)) = w.s.rec
    <2>1. w.s \in Sampled
      BY <1>4 DEF Words, Sampled
    <2> HIDE DEF r
    <2> QED
      BY <1>2, <1>4, <2>1, ReadsAsPut
  <1>6. InRing(r.mem, r.head, a) = <<w.s.rec>> \o InRing(r.mem, r.head, n)
    <2> HIDE DEF r
    <2> QED
      BY <1>2, <1>3, FirstOf DEF RingRight
  <1>7. InRing(r.mem, r.head, n) \in Seq(Reports) /\ w.s.rec \in Reports
    <2>1. n \in 0 .. r.head
      BY <1>2, <1>4
    <2>2. w.s.rec \in Reports
      BY <1>4 DEF Words
    <2> HIDE DEF n, r
    <2> QED
      BY <1>2, <1>4, <2>1, <2>2, RingHolds
  \* the records that the reader was told of are whole too
  <1>8. n <= pb.head
    <2>1. SUFFICES ASSUME n > pb.head PROVE FALSE
      BY <1>2, <1>4
    <2>2. pb.head # r.head /\ pb.head - a \in 1 .. w.s.size - 1 /\ a + (pb.head - a) = pb.head
      BY <1>2, <1>3, <1>4, <2>1, MmapSize
    <2>3. Word(r.mem, pb.head).i = 0
      BY <1>2, <2>2 DEF Starts
    <2>4. pb.head - a \in 0 .. w.s.size - 1
      BY <2>2, <1>4, MmapSize
    <2>5. Word(r.mem, a + (pb.head - a)) = [s |-> w.s, i |-> pb.head - a]
      BY <1>4, <2>4
    <2> HIDE DEF r, w
    <2> QED
      BY <2>2, <2>3, <2>5
  <1> HIDE DEF n
  <1>9. pb'.pc = "read" /\ pb'.cpu = c /\ pb'.tail = n /\ pb'.head = pb.head /\ pb' \in ReaderT /\ n \in Nat
    <2>1. n \in Nat
      BY <1>2, <1>4
    <2> QED
      BY <1>0, <1>1, <1>c, <2>1 DEF ReaderT
  <1>10. From(c)' = n /\ \A d \in CPUs : d # c => From(d)' = From(d)
    BY <1>1, <1>9, <1>c DEF From
  <1>11. RingRight(r, n)
    <2>1. r.tail <= n /\ n <= r.head
      BY <1>2, <1>4 DEF RingRight
    <2> QED
      BY <1>2, <1>4, <2>1 DEF RingRight
  <1>12. ring' = [ring EXCEPT ![c] = r]
    BY <1>0, <1>1
  <1>13. /\ Queue' = [Queue EXCEPT ![c] = InRing(r.mem, r.head, n)]
         /\ ring' \in [CPUs -> RingT] /\ \A d \in CPUs : RingRight(ring[d], From(d))'
    <2> HIDE DEF r
    <2> QED
      BY <1>2, <1>10, <1>11, <1>12, OneRing
  <1>14. Queue[c] = <<w.s.rec>> \o InRing(r.mem, r.head, n)
    BY <1>2, <1>6 DEF Queue
  <1>15. Gets(c)
    <2> DEFINE rest == InRing(r.mem, r.head, n)
               e == w.s.rec
    <2> HIDE DEF rest, e
    <2>1. Queue[c] = <<e>> \o rest /\ rest \in Seq(Reports) /\ e \in Reports
      BY <1>7, <1>14 DEF rest, e
    <2>2. Queue[c] # <<>> /\ Head(Queue[c]) = e /\ Tail(Queue[c]) = rest
      BY <2>1
    <2>3. Queue' = [Queue EXCEPT ![c] = rest] /\ got' = [got EXCEPT ![c] = Append(@, e)]
      BY <1>1, <1>5, <1>13 DEF rest, e
    <2> QED
      BY <1>1, <2>2, <2>3 DEF Gets
  <1>16. BufferTyped'
    <2>1. got' \in [CPUs -> Seq(Reports)]
      <3>1. got' = [got EXCEPT ![c] = Append(@, w.s.rec)] /\ got[c] \in Seq(Reports)
        BY <1>0, <1>1, <1>2, <1>5
      <3>2. Append(got[c], w.s.rec) \in Seq(Reports)
        BY <1>7, <3>1
      <3> HIDE DEF w
      <3> QED
        BY <1>0, <3>1, <3>2
    <2> QED
      BY <1>0, <1>1, <1>9, <1>13, <2>1 DEF BufferTyped
  <1>17. InFront'
    BY <1>1, <1>2, <1>8, <1>9, <1>c DEF InFront, Starts, Word
  <1>18. Shut'
    BY <1>0, <1>1, Unshut
  <1> QED
    BY <1>1, <1>2, <1>13, <1>15, <1>16, <1>17, <1>18, <1>c DEF RingsRight

(* The place up to which the reader came is given back.                    *)
LEMMA ReleaseRight ==
  ASSUME RingsRight, InStages, ReadEnd \/ ReadNoMemory
  PROVE  RingsRight' /\ Still /\ gap' = gap
  <1>c. PICK c : c = pb.cpu
    OBVIOUS
  <1>a. PICK a : a = pb.tail
    OBVIOUS
  <1> DEFINE r == ring[c]
             q == [r EXCEPT !.tail = a]
  <1>0. /\ pb \in ReaderT /\ Shut /\ InFront /\ ring \in [CPUs -> RingT] /\ lost \in [CPUs -> Nat]
        /\ got \in [CPUs -> Seq(Reports)] /\ gap \subseteq CPUs
        /\ \A d \in CPUs : RingRight(ring[d], From(d))
    BY DEF RingsRight, BufferTyped
  <1>1. /\ pb.pc = "read" /\ UNCHANGED <<res, lost, got, gap>> /\ ring' = [ring EXCEPT ![c] = q]
        /\ pb' \in {[Resting EXCEPT !.pc = "open"], [pb EXCEPT !.pc = "poll"], [Resting EXCEPT !.pc = "error"]}
    <2>1. ring' = [ring EXCEPT ![c].tail = a]
      BY <1>c, <1>a DEF ReadEnd, ReadNoMemory, Released
    <2> QED
      BY <2>1, <1>c DEF ReadEnd, ReadNoMemory
  <1>2. /\ c \in CPUs /\ a \in Nat /\ r \in RingT /\ r.head \in Nat /\ r.tail \in Nat
        /\ From(c) = a /\ RingRight(r, a)
    <2>1. c \in CPUs
      BY <1>0, <1>1, <1>c DEF InFront
    <2> QED
      BY <1>0, <1>1, <1>c, <1>a, <2>1 DEF InFront, ReaderT, RingT, From
  <1>3. pb' \in ReaderT /\ pb'.pc # "read"
    <2>1. [pb EXCEPT !.pc = "poll"] \in ReaderT /\ [pb EXCEPT !.pc = "poll"].pc = "poll"
      BY <1>0 DEF ReaderT
    <2>2. [Resting EXCEPT !.pc = "open"].pc = "open" /\ [Resting EXCEPT !.pc = "error"].pc = "error"
      BY DEF Resting
    <2> QED
      BY <1>1, <2>1, <2>2, RestingRight
  <1>4. q \in RingT /\ q.mem = r.mem /\ q.head = r.head /\ q.tail = a
    BY <1>2 DEF RingT
  <1>5. RingRight(q, a)
    BY <1>2, <1>4, MmapSize DEF RingRight
  <1> HIDE DEF q
  <1>6. From(c)' = a /\ \A d \in CPUs : d # c => From(d)' = From(d)
    <2>1. ring'[c] = q /\ \A d \in CPUs : d # c => ring'[d] = ring[d]
      BY <1>0, <1>1, <1>2
    <2> QED
      BY <1>1, <1>3, <1>4, <1>c, <2>1 DEF From
  <1>7. /\ Queue' = [Queue EXCEPT ![c] = InRing(q.mem, q.head, a)]
        /\ ring' \in [CPUs -> RingT] /\ \A d \in CPUs : RingRight(ring[d], From(d))'
    <2> QED
      BY <1>1, <1>2, <1>4, <1>5, <1>6, OneRing
  <1>8. Queue' = Queue
    <2>1. InRing(q.mem, q.head, a) = Queue[c] /\ DOMAIN Queue = CPUs
      BY <1>2, <1>4 DEF Queue
    <2>2. Queue = [d \in CPUs |-> Queue[d]]
      BY DEF Queue
    <2>3. [Queue EXCEPT ![c] = Queue[c]] = Queue
      BY <1>2, <2>2
    <2> QED
      BY <1>7, <2>1, <2>3
  <1>9. BufferTyped' /\ InFront'
    BY <1>0, <1>1, <1>3, <1>7 DEF BufferTyped, InFront
  <1>10. Shut'
    <2>1. pb.pc = "read" /\ \A d \in CPUs : d # c => ring'[d] = ring[d]
      BY <1>0, <1>1, <1>2
    <2>2. ASSUME NEW d \in CPUs, ~({"enabled", "key"} \subseteq res[d]) PROVE ring'[d] = NewRing /\ lost[d] = 0
      <3>1. ring[d] = NewRing /\ lost[d] = 0
        BY <1>0, <2>2 DEF Shut
      <3>2. CASE d # c
        BY <2>1, <3>1, <3>2
      <3>3. CASE d = c
        <4>1. a = 0
          BY <1>2, <3>1, <3>3, EmptyRing DEF RingRight
        <4>2. q = r
          BY <1>2, <3>1, <3>3, <4>1, EmptyRing DEF q, RingT
        <4> QED
          BY <1>0, <1>1, <1>2, <3>1, <3>3, <4>2
      <3> QED
        BY <3>2, <3>3
    <2> QED
      BY <1>1, <2>2 DEF Shut
  <1> QED
    BY <1>1, <1>7, <1>8, <1>9, <1>10 DEF RingsRight, Still

\* user space has the buffer
UserReads == pb.pc \in {"open", "poll", "read", "error"}

\* a step of the buffer
Moves ==
  \/ Still /\ gap' = gap
  \/ \E c \in CPUs : Gets(c) /\ gap' = gap /\ UserReads' = UserReads
  \/ \E c \in CPUs : Drops(c) /\ gap' = gap \cup {c} /\ ~UserReads /\ ~UserReads'

\* a step that puts e out on c
PutsOut(c, e) ==
  /\ pb' = pb
  /\ \/ Still /\ gap' = gap \cup {c}
     \/ (Loses(c) \/ Puts(c, e)) /\ gap' = gap

(* What a step of libbpf is to the rings.                                  *)
LEMMA BufferStep ==
  ASSUME RingsRight, InStages, PerfNext
  PROVE  RingsRight' /\ Moves
  <1>1. CASE New \/ Free \/ Poll \/ ReadHead
    <2>1. gap' = gap
      BY <1>1 DEF New, Free, Poll, ReadHead
    <2> QED
      BY <1>1, <2>1, LifeSteps DEF Moves
  <1>2. CASE OpenStep
    <2>1. gap' = gap
      BY <1>2 DEF OpenStep
    <2> QED
      BY <1>2, <2>1, OpenStepRight DEF Moves
  <1>3. CASE FreeStep
    <2>1. pb.pc = "free" /\ pb'.pc \in {"free", "none"}
      <3>1. pb.pc = "free" /\ (pb' = Resting \/ pb' = [pb EXCEPT !.cpu = pb.cpu + 1])
        BY <1>3 DEF FreeStep
      <3>2. [pb EXCEPT !.cpu = pb.cpu + 1].pc = pb.pc
        BY DEF RingsRight, BufferTyped, ReaderT
      <3> QED
        BY <3>1, <3>2, RestingRight
    <2> QED
      BY <1>3, <2>1, FreeStepRight DEF Moves, UserReads
  <1>4. CASE ReadRecord
    <2>1. pb.pc = "read" /\ pb'.pc = "read"
      BY <1>4 DEF ReadRecord, RingsRight, BufferTyped, ReaderT
    <2> QED
      BY <1>4, <2>1, ReadRecordRight DEF Moves, UserReads
  <1>5. CASE ReadEnd \/ ReadNoMemory
    BY <1>5, ReleaseRight DEF Moves
  <1> QED
    BY <1>1, <1>2, <1>3, <1>4, <1>5 DEF PerfNext

\* the records that thread t is about to put out
OpenRecord(t) == [file |-> task[t].file, name |-> task[t].name]
BlockRecord(t) == [file |-> task[t].name, op |-> task[t].op, cur_len |-> task[t].block, total_len |-> task[t].total]

(* What a program's output is to the rings.                                *)
LEMMA ProgramStep ==
  ASSUME RingsRight, InStages, TasksRight, NEW t \in Tasks
  PROVE  /\ OpenOutput(t) => /\ RingsRight' /\ task[t].cpu \in CPUs /\ OpenRecord(t) \in OpenEvents
                             /\ PutsOut(task[t].cpu, OpenRecord(t))
         /\ WriteBlock(t) => /\ RingsRight' /\ task[t].cpu \in CPUs /\ BlockRecord(t) \in WriteEvents
                             /\ BlockRecord(t).cur_len < BlockRecord(t).total_len
                             /\ PutsOut(task[t].cpu, BlockRecord(t))
  <1>1. Running(t)
    BY DEF TasksRight
  <1>2. ASSUME OpenOutput(t)
        PROVE  /\ RingsRight' /\ task[t].cpu \in CPUs /\ OpenRecord(t) \in OpenEvents
               /\ PutsOut(task[t].cpu, OpenRecord(t))
    <2>1. /\ task[t].pc = "opened" /\ Output(task[t].cpu, Sample(OpenRecord(t), OpenWords))
          /\ UNCHANGED <<pb, res, got>>
      BY <1>2 DEF OpenOutput, OpenRecord
    <2>2. task[t].cpu \in CPUs /\ OpenRecord(t) \in OpenEvents /\ OpenRecord(t) \in FileEvents
      BY <1>1, <2>1 DEF Running, OpenRecord, OpenEvents, FileEvents
    <2>3. OpenWords \in 1 .. mmap_size
      BY SizesAssumption
    <2> QED
      BY <2>1, <2>2, <2>3, OutputStep DEF PutsOut
  <1>3. ASSUME WriteBlock(t)
        PROVE  /\ RingsRight' /\ task[t].cpu \in CPUs /\ BlockRecord(t) \in WriteEvents
               /\ BlockRecord(t).cur_len < BlockRecord(t).total_len
               /\ PutsOut(task[t].cpu, BlockRecord(t))
    <2>1. /\ task[t].pc = "written" /\ Output(task[t].cpu, Sample(BlockRecord(t), WriteWords))
          /\ UNCHANGED <<pb, res, got>>
      BY <1>3 DEF WriteBlock, BlockRecord
    <2>2. task[t].cpu \in CPUs /\ BlockRecord(t) \in WriteEvents /\ BlockRecord(t) \in FileEvents
          /\ BlockRecord(t).cur_len < BlockRecord(t).total_len
      BY <1>1, <2>1 DEF Running, BlockRecord, WriteEvents, FileEvents
    <2>3. WriteWords \in 1 .. mmap_size
      BY SizesAssumption
    <2> QED
      BY <2>1, <2>2, <2>3, OutputStep DEF PutsOut
  <1> QED
    BY <1>2, <1>3

\* the steps of the programs that put nothing out
Quiet ==
  \/ UNCHANGED vars
  \/ \E t \in Tasks : OpenDelete(t)
  \/ \E t \in Tasks, f \in Files : detect_file_open(t, f)
  \/ \E t \in Tasks, c \in CPUs : detect_file_open_ret(t, c)
  \/ \E t \in Tasks, f \in Files, c \in CPUs, blocks \in WriteSizes : detect_file_write(t, f, c, blocks)
  \/ \E f \in Files : Listen(f)
  \/ SetFilter

(* The steps that there are.                                               *)
LEMMA Kinds ==
  [Next]_vars =>
    \/ PerfNext /\ UNCHANGED <<pid_filter, task, tmp_map, listen_map, ops, mixed>>
    \/ \E t \in Tasks : OpenOutput(t)
    \/ \E t \in Tasks : WriteBlock(t)
    \/ Quiet /\ UNCHANGED perfVars
  <1>1. Quiet => UNCHANGED perfVars
    BY DEF Quiet, vars, OpenDelete, detect_file_open, detect_file_open_ret, detect_file_write, Listen, SetFilter
  <1> QED
    <2>1. \A t \in Tasks : Program(t) => OpenOutput(t) \/ WriteBlock(t) \/ Quiet
      BY DEF Program, Quiet
    <2>2. [Next]_vars => Quiet \/ (\E t \in Tasks : Program(t))
                         \/ (PerfNext /\ UNCHANGED <<pid_filter, task, tmp_map, listen_map, ops, mixed>>)
      <3>1. Next => (PerfNext /\ UNCHANGED <<pid_filter, task, tmp_map, listen_map, ops, mixed>>)
                    \/ (\E t \in Tasks : Program(t)) \/ Quiet
        BY DEF Next, Quiet
      <3>2. UNCHANGED vars => Quiet
        BY DEF Quiet
      <3> QED
        BY <3>1, <3>2
    <2> QED
      BY <1>1, <2>1, <2>2

(* What leaves the buffer alone moves nothing.                             *)
LEMMA QuietRight ==
  ASSUME RingsRight, InStages, UNCHANGED perfVars
  PROVE  RingsRight' /\ Still /\ gap' = gap
  <1>1. UNCHANGED <<pb, res, ring, lost, got, gap>>
    BY DEF perfVars
  <1>2. \A c \in CPUs : From(c)' = From(c)
    BY <1>1 DEF From
  <1>3. pb' \in ReaderT /\ InFront' /\ Shut'
    BY <1>1 DEF RingsRight, BufferTyped, InFront, Shut, Starts, Word
  <1> QED
    BY <1>1, <1>2, <1>3, QuietStep

(* The invariant holds at first, and stays.                                *)
LEMMA ChInvStarts == Init => ChInv
  <1> SUFFICES ASSUME Init PROVE ChInv
    OBVIOUS
  <1>1. InStages
    BY StagesStart DEF Init
  <1>2. TasksRight
    <2>1. \A t \in Tasks : task[t] = AtRest
      BY DEF Init
    <2>2. TasksTyped
      <3>1. AtRest \in TaskState /\ MaxOut \in Nat
        BY TaskAtRest, SizesAssumption
      <3>2. 0 \in 0 .. MaxOut
        BY <3>1
      <3> QED
        BY <3>1, <3>2 DEF Init, TasksTyped
    <2>3. OwnCpus /\ \A t \in Tasks : Running(t)
      BY <2>1, TaskAtRest DEF Running, OwnCpus
    <2> QED
      BY <2>2, <2>3 DEF TasksRight
  <1>3. pb = Resting /\ ring = [c \in CPUs |-> NewRing] /\ lost = [c \in CPUs |-> 0]
          /\ got = [c \in CPUs |-> <<>>]
        /\ gap = {}
    BY DEF Init, PerfInit
  <1>4. <<>> \in Seq(Reports) /\ 0 \in Nat
    OBVIOUS
  <1>5. BufferTyped
    BY <1>3, <1>4, RestingRight, EmptyRing DEF BufferTyped
  <1>6. \A c \in CPUs : From(c) = 0
    BY <1>3, RestingRight, EmptyRing DEF From
  <1>7. InFront /\ Shut /\ \A c \in CPUs : RingRight(ring[c], From(c))
    BY <1>3, <1>6, RestingRight, EmptyRing DEF InFront, Shut
  <1> QED
    BY <1>1, <1>2, <1>5, <1>7 DEF ChInv, RingsRight

LEMMA ChInvStays == ChInv /\ [Next]_vars => ChInv'
  <1> SUFFICES ASSUME ChInv, [Next]_vars PROVE ChInv'
    OBVIOUS
  <1>1. InStages /\ TasksRight /\ RingsRight
    BY DEF ChInv
  <1>2. InStages' /\ TasksRight'
    BY <1>1, ProgramsKeepStages, TasksStay
  <1>3. RingsRight'
    BY <1>1, Kinds, BufferStep, ProgramStep, QuietRight
  <1> QED
    BY <1>2, <1>3 DEF ChInv

(* file_reader.c and perf_buffer: every state has its type; no ring is     *)
(* filled beyond its size, and the reader stays between its tail and its   *)
(* head.                                                                   *)
THEOREM FileReaderTypes == Spec => []TypeOK
  <1>1. ChInv => TypeOK
    <2> SUFFICES ASSUME ChInv PROVE TypeOK
      OBVIOUS
    <2>1. InStages /\ TasksTyped /\ BufferTyped /\ InFront /\ \A c \in CPUs : RingRight(ring[c], From(c))
      BY DEF ChInv, TasksRight, RingsRight
    <2>2. \A c \in CPUs : ring[c].tail <= ring[c].head /\ ring[c].head - ring[c].tail <= mmap_size
      <3> TAKE c \in CPUs
      <3>1. ring[c] \in RingT /\ From(c) \in Nat /\ RingRight(ring[c], From(c))
        BY <2>1 DEF BufferTyped, From, RingT, ReaderT
      <3> QED
        BY <3>1 DEF RingRight, RingT
    <2>3. pb.pc = "read" => ring[pb.cpu].tail <= pb.tail /\ pb.tail <= pb.head
      BY <2>1 DEF InFront, RingRight, From
    <2> QED
      BY <2>1, <2>2, <2>3 DEF TypeOK, PerfTypeOK, InStages, TasksTyped, BufferTyped, ReaderT
  <1>2. QED
    BY <1>1, ChInvStarts, ChInvStays, PTL DEF Spec

-----------------------------------------------------------------------------
(* What is on its way are reports.                                         *)
LEMMA QueueTyped ==
  ASSUME RingsRight
  PROVE  \A c \in CPUs : Queue[c] \in Seq(Reports) /\ Told(c) \in Seq(Reports) /\ lost[c] \in Nat
           /\ got[c] \in Seq(Reports)
  <1> TAKE c \in CPUs
  <1>1. ring[c] \in RingT /\ lost[c] \in Nat /\ From(c) \in Nat /\ RingRight(ring[c], From(c))
          /\ got[c] \in Seq(Reports)
    BY DEF RingsRight, BufferTyped, From, ReaderT, RingT
  <1>2. From(c) \in 0 .. ring[c].head /\ ring[c].head \in Nat
    BY <1>1 DEF RingRight, RingT
  <1>3. InRing(ring[c].mem, ring[c].head, From(c)) \in Seq(Reports)
    BY <1>1, <1>2, RingHolds DEF RingRight
  <1>4. Told(c) \in Seq(Reports)
    <2>1. CASE lost[c] = 0
      BY <2>1 DEF Told
    <2>2. CASE lost[c] # 0
      <3>1. [lost |-> lost[c]] \in Reports
        BY <1>1, <2>2 DEF Reports
      <3> QED
        BY <2>2, <3>1 DEF Told
    <2> QED
      BY <2>1, <2>2
  <1> QED
    BY <1>1, <1>3, <1>4 DEF Queue

(* Every step is one of the channel, or nothing to it.                     *)
LEMMA ChannelStep ==
  ASSUME ChInv, [Next]_vars
  PROVE  Channel!Next \/ (UNCHANGED <<UserReads, Queue, lost, got>>)
  <1> DEFINE coming == [c \in CPUs |-> InFlight(c)]
  <1>0. InStages /\ TasksRight /\ RingsRight
    BY DEF ChInv
  <1>1. coming = Queue /\ coming' = Queue'
    BY QueueInFlight
  <1> HIDE DEF coming
  <1>2. UserReads \in BOOLEAN /\ UserReads' \in BOOLEAN
    BY DEF UserReads
  <1>3. ASSUME Still PROVE Channel!Next \/ (UNCHANGED <<UserReads, Queue, lost, got>>)
    <2>1. UNCHANGED <<coming, lost, got>>
      BY <1>1, <1>3 DEF Still
    <2>2. CASE UserReads' = UserReads
      BY <1>1, <2>1, <2>2
    <2>3. CASE UserReads' # UserReads
      <3>1. (~UserReads /\ UserReads' = TRUE) \/ (UserReads /\ UserReads' = FALSE)
        BY <1>2, <2>3
      <3>2. Channel!Open \/ Channel!GiveUp
        BY <2>1, <3>1 DEF Channel!Open, Channel!GiveUp, UserReads, coming
      <3> QED
        BY <3>2 DEF Channel!Next
    <2> QED
      BY <2>2, <2>3
  <1>4. ASSUME NEW c \in CPUs, Gets(c), UserReads' = UserReads PROVE Channel!Next
    <2>1. Channel!Get(c)
      <3>1. /\ coming[c] # <<>> /\ coming' = [coming EXCEPT ![c] = Tail(@)]
            /\ got' = [got EXCEPT ![c] = Append(@, Head(coming[c]))] /\ UNCHANGED <<lost, UserReads>>
        BY <1>1, <1>4 DEF Gets
      <3> QED
        BY <3>1 DEF Channel!Get, UserReads, coming
    <2> QED
      BY <2>1 DEF Channel!Next
  <1>5. ASSUME NEW c \in CPUs, Drops(c), ~UserReads, ~UserReads' PROVE Channel!Next
    <2>1. Channel!Drop(c)
      <3>1. /\ ~UserReads /\ coming' = [coming EXCEPT ![c] = <<>>] /\ lost' = [lost EXCEPT ![c] = 0]
            /\ UNCHANGED got /\ UserReads' = UserReads
        BY <1>1, <1>2, <1>5 DEF Drops
      <3> QED
        BY <3>1 DEF Channel!Drop, UserReads, coming
    <2> QED
      BY <2>1 DEF Channel!Next
  <1>6. ASSUME NEW c \in CPUs, Loses(c), UserReads' = UserReads PROVE Channel!Next
    <2>1. Channel!Lose(c)
      <3>1. lost' = [lost EXCEPT ![c] = @ + 1] /\ UNCHANGED <<coming, got, UserReads>>
        BY <1>1, <1>6 DEF Loses
      <3> QED
        BY <3>1 DEF Channel!Lose, UserReads, coming
    <2> QED
      BY <2>1 DEF Channel!Next
  <1>7. ASSUME NEW c \in CPUs, NEW e \in FileEvents, Puts(c, e), UserReads' = UserReads PROVE Channel!Next
    <2> DEFINE all == coming[c] \o Told(c) \o <<e>>
    <2>1. coming[c] \in Seq(Reports) /\ Told(c) \in Seq(Reports) /\ e \in Reports /\ lost[c] \in Nat
      BY <1>0, <1>1, QueueTyped DEF FileEvents, Reports
    <2>2. Len(all) = Len(coming[c]) + Len(Told(c)) + 1 /\ all[Len(all)] = e /\ Len(all) > Len(coming[c])
      BY <2>1
    <2>3. /\ coming' = [coming EXCEPT ![c] = all] /\ lost' = [lost EXCEPT ![c] = 0]
               /\ UNCHANGED <<got, UserReads>>
      BY <1>1, <1>7 DEF Puts
    <2>4. coming'[c] = all
      BY <1>1, <2>3 DEF Queue
    <2>5. Told(c) = IF lost[c] = 0 THEN <<>> ELSE <<Channel!Lost(lost[c])>>
      BY DEF Told, Channel!Lost
    <2>6. Channel!Put(c)
      <3>1. /\ Len(coming'[c]) > Len(coming[c]) /\ coming'[c][Len(coming'[c])] = e
            /\ coming' = [coming EXCEPT ![c] = @ \o Told(c) \o <<e>>]
        BY <2>2, <2>3, <2>4
      <3> HIDE DEF all
      <3> QED
        BY <2>3, <2>5, <3>1 DEF Channel!Put, FileEvents, UserReads, coming
    <2> QED
      BY <2>6 DEF Channel!Next
  <1>8. CASE PerfNext
    BY <1>0, <1>3, <1>4, <1>5, <1>8, BufferStep DEF Moves
  <1>9. ASSUME NEW c \in CPUs, NEW e \in FileEvents, PutsOut(c, e)
        PROVE  Channel!Next \/ (UNCHANGED <<UserReads, Queue, lost, got>>)
    BY <1>3, <1>6, <1>7, <1>9 DEF PutsOut, UserReads
  <1>10. ASSUME NEW t \in Tasks, OpenOutput(t) \/ WriteBlock(t)
         PROVE  Channel!Next \/ (UNCHANGED <<UserReads, Queue, lost, got>>)
    BY <1>0, <1>9, <1>10, ProgramStep DEF FileEvents
  <1>11. CASE UNCHANGED perfVars
    BY <1>0, <1>3, <1>11, QuietRight
  <1> QED
    BY <1>8, <1>10, <1>11, Kinds

(* perf_buffer__poll over bpf_perf_event_output: for any number of CPUs    *)
(* and rings of any size, records come whole, once and in the order they   *)
(* were put out, round the end of a ring or not, and losses are told       *)
(* before the next record.                                                 *)
THEOREM RecordsComeWhole == Spec => IsChannel
  <1>1. Init => Channel!Init
    <2> SUFFICES ASSUME Init PROVE Channel!Init
      OBVIOUS
    <2>1. pb.pc = "none" /\ ring = [c \in CPUs |-> NewRing] /\ lost = [c \in CPUs |-> 0]
            /\ got = [c \in CPUs |-> <<>>]
      BY RestingRight DEF Init, PerfInit
    <2>2. \A c \in CPUs : Queue[c] = <<>>
      BY <2>1, EmptyRing DEF Queue, From
    <2>3. Queue = [c \in CPUs |-> <<>>]
      BY <2>2 DEF Queue
    <2>4. [c \in CPUs |-> InFlight(c)] = [c \in CPUs |-> <<>>]
      BY <2>3, QueueInFlight
    <2> QED
      BY <2>1, <2>4 DEF Channel!Init
  <1>2. ChInv /\ [Next]_vars
          => [Channel!Next]_(<<pb.pc \in {"open", "poll", "read", "error"}, [c \in CPUs |-> InFlight(c)], lost, got>>)
    BY ChannelStep, QueueInFlight DEF UserReads
  <1>3. QED
    BY <1>1, <1>2, ChInvStarts, ChInvStays, PTL DEF Spec, IsChannel, Channel!Spec

\* what came on a CPU, and what is on its way
All(c) == got[c] \o InFlight(c)

\* an open event has the name of its file
WellNamed(r) == r \in OpenEvents => r.name = r.file

\* the opens of the process, when no two of them overlapped
OpensApart ==
  /\ \A t, u \in Tasks : Opening(t) /\ Opening(u) => t = u
  /\ tmp_map # NoFile => \E t \in Tasks : Opening(t) /\ tmp_map = task[t].file
  /\ \A t \in Tasks : task[t].pc = "opened" => task[t].name = task[t].file
  /\ \A c \in CPUs : \A i \in DOMAIN All(c) : WellNamed(All(c)[i])

\* the last block of a write, as user space can tell
Complete(r) == LastBlock(r.cur_len, r.total_len)

\* y may come right behind x
Pair(x, y) ==
  /\ y \in WriteEvents /\ y.cur_len > 0 => x = [y EXCEPT !.cur_len = @ - 1] \/ "lost" \in DOMAIN x
  /\ x \in WriteEvents => y = [x EXCEPT !.cur_len = @ + 1] \/ "lost" \in DOMAIN y \/ Complete(x)

\* a block is one of its write
Sized(r) == r \in WriteEvents => r.cur_len < r.total_len

\* a write's blocks come one behind the other
InBlocks(s) ==
  /\ \A i \in DOMAIN s : Sized(s[i])
  /\ s # <<>> => ~(s[1] \in WriteEvents /\ s[1].cur_len > 0)
  /\ \A i \in 1 .. Len(s) - 1 : Pair(s[i], s[i+1])

\* the block that thread t put out before
BlockBefore(t) == [BlockRecord(t) EXCEPT !.cur_len = @ - 1]

\* what came last is from the write that goes on
Continues(c) ==
  LET s == All(c)
  IN  lost[c] = 0 =>
        /\ s # <<>> /\ s[Len(s)] \in WriteEvents /\ ~Complete(s[Len(s)]) =>
             \E t \in Tasks : task[t].pc = "written" /\ task[t].cpu = c /\ task[t].block > 0
                                /\ s[Len(s)] = BlockBefore(t)
        /\ \A t \in Tasks : task[t].pc = "written" /\ task[t].cpu = c /\ task[t].block > 0 =>
             s # <<>> /\ s[Len(s)] = BlockBefore(t)

(* The inductive invariant of the reports: it speaks of all that came or   *)
(* is on its way, so that the callback only moves a record within it.      *)
ReportInv ==
  /\ ChInv
  /\ ~mixed => OpensApart
  /\ \A c \in CPUs \ gap : InBlocks(All(c)) /\ Continues(c)

(* What the steps make of what came and is on its way: the kernel adds to  *)
(* it, the reader leaves it, perf_buffer__free cuts it.                    *)
LEMMA AllMoves ==
  ASSUME RingsRight, NEW c \in CPUs
  PROVE  /\ All(c) \in Seq(Reports) /\ got[c] \in Seq(Reports)
           /\ \A i \in DOMAIN got[c] : i \in DOMAIN All(c) /\ All(c)[i] = got[c][i]
         /\ lost[c] \in Nat
         /\ Still => All(c)' = All(c) /\ lost'[c] = lost[c]
         /\ \A d \in CPUs :
              /\ Loses(d) => All(c)' = All(c) /\ lost'[c] = IF c = d THEN lost[c] + 1 ELSE lost[c]
              /\ Gets(d) => All(c)' = All(c) /\ lost'[c] = lost[c]
              /\ Drops(d) => IF c = d THEN All(c)' = got[c] ELSE All(c)' = All(c) /\ lost'[c] = lost[c]
              /\ \A e \in FileEvents : Puts(d, e) =>
                   IF c = d
                     THEN /\ All(c)' = Append(IF lost[c] = 0 THEN All(c) ELSE Append(All(c), [lost |-> lost[c]]), e)
                          /\ lost'[c] = 0
                     ELSE All(c)' = All(c) /\ lost'[c] = lost[c]
  <1>1. All(c) = got[c] \o Queue[c] /\ All(c)' = got'[c] \o Queue'[c]
    <2>1. InFlight(c) = Queue[c] /\ InFlight(c)' = Queue'[c]
      BY QueueInFlight
    <2> QED
      BY <2>1 DEF All
  <1>2. /\ Queue[c] \in Seq(Reports) /\ lost[c] \in Nat /\ got[c] \in Seq(Reports)
        /\ lost \in [CPUs -> Nat] /\ got \in [CPUs -> Seq(Reports)] /\ DOMAIN Queue = CPUs
    BY QueueTyped DEF RingsRight, BufferTyped, Queue
  <1> HIDE DEF Queue
  <1>3. /\ All(c) \in Seq(Reports)
        /\ \A i \in DOMAIN got[c] : i \in DOMAIN All(c) /\ All(c)[i] = got[c][i]
    <2>1. All(c) \in Seq(Reports)
      BY <1>1, <1>2
    <2>2. ASSUME NEW i \in DOMAIN got[c] PROVE i \in DOMAIN All(c) /\ All(c)[i] = got[c][i]
      <3>1. i \in 1 .. Len(got[c]) /\ Len(All(c)) = Len(got[c]) + Len(Queue[c]) /\ Len(Queue[c]) \in Nat
              /\ Len(got[c]) \in Nat
        BY <1>1, <1>2
      <3>2. i \in 1 .. Len(All(c)) /\ All(c)[i] = got[c][i]
        BY <1>1, <1>2, <3>1
      <3> QED
        BY <2>1, <3>2
    <2> QED
      BY <2>1, <2>2
  <1>4. Still => All(c)' = All(c) /\ lost'[c] = lost[c]
    BY <1>1 DEF Still
  <1>5. ASSUME NEW d \in CPUs, Loses(d)
        PROVE  All(c)' = All(c) /\ lost'[c] = IF c = d THEN lost[c] + 1 ELSE lost[c]
    BY <1>1, <1>2, <1>5 DEF Loses
  <1>6. ASSUME NEW d \in CPUs, Gets(d) PROVE All(c)' = All(c) /\ lost'[c] = lost[c]
    <2>1. CASE c = d
      <3> DEFINE q == Queue[c]
                 g == got[c]
      <3>1. Queue'[c] = Tail(q) /\ got'[c] = Append(g, Head(q)) /\ q # <<>> /\ lost' = lost
        BY <1>2, <1>6, <2>1 DEF Gets
      <3> HIDE DEF q, g
      <3>2. q \in Seq(Reports) /\ g \in Seq(Reports)
        BY <1>2 DEF q, g
      <3>3. Append(g, Head(q)) \o Tail(q) = g \o q
        BY <3>1, <3>2
      <3> QED
        BY <1>1, <3>1, <3>3 DEF q, g
    <2>2. CASE c # d
      BY <1>1, <1>2, <1>6, <2>2 DEF Gets
    <2> QED
      BY <2>1, <2>2
  <1>7. ASSUME NEW d \in CPUs, Drops(d)
        PROVE  IF c = d THEN All(c)' = got[c] ELSE All(c)' = All(c) /\ lost'[c] = lost[c]
    <2>1. CASE c = d
      <3>1. Queue'[c] = <<>> /\ got'[c] = got[c]
        BY <1>2, <1>7, <2>1 DEF Drops
      <3> QED
        BY <1>1, <1>2, <2>1, <3>1
    <2>2. CASE c # d
      BY <1>1, <1>2, <1>7, <2>2 DEF Drops
    <2> QED
      BY <2>1, <2>2
  <1>8. ASSUME NEW d \in CPUs, NEW e \in FileEvents, Puts(d, e)
        PROVE  IF c = d
                 THEN /\ All(c)' = Append(IF lost[c] = 0 THEN All(c) ELSE Append(All(c), [lost |-> lost[c]]), e)
                      /\ lost'[c] = 0
                 ELSE All(c)' = All(c) /\ lost'[c] = lost[c]
    <2>1. CASE c = d
      <3> DEFINE q == Queue[c]
                 g == got[c]
                 l == Told(c)
      <3>1. Queue'[c] = q \o l \o <<e>> /\ got'[c] = g /\ lost'[c] = 0
        BY <1>2, <1>8, <2>1 DEF Puts
      <3>2. q \in Seq(Reports) /\ g \in Seq(Reports) /\ l \in Seq(Reports) /\ e \in Reports
        BY <1>2, QueueTyped DEF Reports, FileEvents
      <3>3. l = IF lost[c] = 0 THEN <<>> ELSE <<[lost |-> lost[c]]>>
        BY DEF Told
      <3> HIDE DEF q, g, l
      <3>4. CASE lost[c] = 0
        <4>1. g \o (q \o <<>> \o <<e>>) = Append(g \o q, e)
          BY <3>2
        <4> QED
          BY <1>1, <2>1, <3>1, <3>3, <3>4, <4>1 DEF q, g
      <3>5. CASE lost[c] # 0
        <4> DEFINE n == [lost |-> lost[c]]
        <4>1. n \in Reports
          BY <1>2, <3>5 DEF Reports
        <4>2. l = <<n>>
          BY <3>3, <3>5
        <4> HIDE DEF n
        <4>3. g \o (q \o <<n>> \o <<e>>) = Append(Append(g \o q, n), e)
          <5>1. q \o <<n>> = Append(q, n) /\ Append(q, n) \in Seq(Reports)
            BY <3>2, <4>1
          <5>2. q \o <<n>> \o <<e>> = Append(Append(q, n), e) /\ Append(Append(q, n), e) \in Seq(Reports)
            BY <3>2, <5>1
          <5>3. g \o Append(q, n) = Append(g \o q, n)
            BY <3>2, <4>1
          <5>4. g \o Append(Append(q, n), e) = Append(g \o Append(q, n), e)
            BY <3>2, <5>1
          <5> QED
            BY <5>2, <5>3, <5>4
        <4> QED
          BY <1>1, <2>1, <3>1, <3>5, <4>2, <4>3 DEF q, g, n
      <3> QED
        BY <3>4, <3>5
    <2>2. CASE c # d
      BY <1>1, <1>2, <1>8, <2>2 DEF Puts
    <2> QED
      BY <2>1, <2>2
  <1> QED
    BY <1>2, <1>3, <1>4, <1>5, <1>6, <1>7, <1>8

(* Adding a record that may come there.                                    *)
LEMMA MoreBlocks ==
  ASSUME NEW s \in Seq(Reports), NEW x \in Reports, InBlocks(s), Sized(x),
         s = <<>> => ~(x \in WriteEvents /\ x.cur_len > 0),
         s # <<>> => Pair(s[Len(s)], x)
  PROVE  Append(s, x) \in Seq(Reports) /\ Append(s, x) # <<>> /\ Append(s, x)[Len(Append(s, x))] = x
         /\ InBlocks(Append(s, x))
  <1> DEFINE q == Append(s, x)
             n == Len(s)
  <1>1. /\ q \in Seq(Reports) /\ Len(q) = n + 1 /\ q[n + 1] = x /\ \A i \in 1 .. n : q[i] = s[i]
        /\ q # <<>> /\ n \in Nat /\ DOMAIN q = 1 .. n + 1 /\ DOMAIN s = 1 .. n
    OBVIOUS
  <1> HIDE DEF q
  <1>2. \A i \in DOMAIN q : Sized(q[i])
    <2> TAKE i \in DOMAIN q
    <2>1. i \in 1 .. n \/ i = n + 1
      BY <1>1
    <2> QED
      BY <1>1, <2>1 DEF InBlocks
  <1>3. ~(q[1] \in WriteEvents /\ q[1].cur_len > 0)
    <2>1. CASE s = <<>>
      BY <1>1, <2>1
    <2>2. CASE s # <<>>
      <3>1. Len(s) # 0
        BY <2>2
      <3>2. 1 \in 1 .. n
        BY <1>1, <3>1
      <3> QED
        BY <1>1, <2>2, <3>2 DEF InBlocks
    <2> QED
      BY <2>1, <2>2
  <1>4. \A i \in 1 .. Len(q) - 1 : Pair(q[i], q[i+1])
    <2> TAKE i \in 1 .. Len(q) - 1
    <2>1. CASE i = n
      <3>1. s # <<>> /\ q[i] = s[n] /\ q[i+1] = x
        BY <1>1, <2>1
      <3> QED
        BY <3>1
    <2>2. CASE i # n
      <3> HIDE DEF n
      <3>0. n \in Nat /\ i \in 1 .. n
        BY <1>1
      <3>1. i \in 1 .. n - 1 /\ i + 1 \in 1 .. n
        BY ONLY <3>0, <2>2
      <3> QED
        BY <1>1, <3>0, <3>1 DEF InBlocks, n
    <2> QED
      BY <2>1, <2>2
  <1> QED
    BY <1>1, <1>2, <1>3, <1>4 DEF InBlocks, q

(* InBlocks is about records, in whichever state.                          *)
LEMMA Lifted ==
  ASSUME NEW c \in CPUs
  PROVE  InBlocks(All(c)') => InBlocks(All(c))'
  BY DEF InBlocks, Pair, Sized, Complete, LastBlock

\* nothing came on c, and the write that goes on there goes on
LEMMA ContinuesStays ==
  ASSUME NEW c \in CPUs, Continues(c), All(c)' = All(c), lost'[c] = lost[c],
         \A t \in Tasks :
           LET on == task[t].pc = "written" /\ task[t].cpu = c /\ task[t].block > 0
               after == task'[t].pc = "written" /\ task'[t].cpu = c /\ task'[t].block > 0
           IN  (on <=> after) /\ (on => task'[t] = task[t])
  PROVE  Continues(c)'
  <1>1. \A t \in Tasks : task'[t] = task[t] => BlockBefore(t)' = BlockBefore(t)
    BY DEF BlockBefore, BlockRecord
  <1> QED
    BY <1>1 DEF Continues, Complete, LastBlock

\* the records do not look like one another
LEMMA NotAlike ==
  /\ \A r \in OpenEvents : r \notin WriteEvents /\ "lost" \notin DOMAIN r
  /\ \A r \in WriteEvents : r \notin OpenEvents /\ "lost" \notin DOMAIN r
  /\ \A n : [lost |-> n] \notin OpenEvents \cup WriteEvents /\ "lost" \in DOMAIN [lost |-> n]
  BY DEF OpenEvents, WriteEvents

\* thread t is between two blocks of a write on c
WritesOn(t, c) == task[t].pc = "written" /\ task[t].cpu = c /\ task[t].block > 0

(* A record is added that may come behind the last one, or behind a record *)
(* of losses.                                                              *)
LEMMA PutBlocks ==
  ASSUME RingsRight, NEW c \in CPUs, NEW d \in CPUs,
           NEW e \in FileEvents, Puts(d, e), InBlocks(All(c)), Sized(e),
         c = d /\ lost[c] = 0 =>
           /\ All(c) = <<>> => ~(e \in WriteEvents /\ e.cur_len > 0)
           /\ All(c) # <<>> => Pair(All(c)[Len(All(c))], e)
  PROVE  /\ InBlocks(All(c))'
         /\ c = d => All(c)' # <<>> /\ All(c)'[Len(All(c)')] = e
         /\ c # d => All(c)' = All(c) /\ lost'[c] = lost[c]
  <1>0. All(c) \in Seq(Reports) /\ lost[c] \in Nat /\ e \in Reports
    BY AllMoves DEF FileEvents, Reports
  <1>1. CASE c # d
    <2>1. All(c)' = All(c) /\ lost'[c] = lost[c]
      BY <1>1, AllMoves
    <2> QED
      BY <1>1, <2>1, Lifted
  <1>2. CASE c = d /\ lost[c] = 0
    <2>1. All(c)' = Append(All(c), e)
      BY <1>2, AllMoves
    <2>2. InBlocks(Append(All(c), e)) /\ Append(All(c), e) # <<>>
            /\ Append(All(c), e)[Len(Append(All(c), e))] = e
      BY <1>0, <1>2, MoreBlocks
    <2> QED
      BY <1>2, <2>1, <2>2, Lifted
  <1>3. CASE c = d /\ lost[c] # 0
    <2> DEFINE n == [lost |-> lost[c]]
               s == Append(All(c), n)
    <2>1. All(c)' = Append(s, e)
      BY <1>3, AllMoves
    <2>2. n \in Reports
      BY <1>0, <1>3 DEF Reports
    <2>3. n \notin WriteEvents /\ "lost" \in DOMAIN n
      BY NotAlike
    <2> HIDE DEF n
    <2>4. Sized(n) /\ \A x : Pair(x, n)
      BY <2>3 DEF Sized, Pair
    <2>5. s \in Seq(Reports) /\ s # <<>> /\ s[Len(s)] = n /\ InBlocks(s)
      BY <1>0, <2>2, <2>3, <2>4, MoreBlocks
    <2> HIDE DEF s
    <2>6. Pair(n, e)
      BY <2>3 DEF Pair
    <2>7. InBlocks(Append(s, e)) /\ Append(s, e) # <<>> /\ Append(s, e)[Len(Append(s, e))] = e
      BY <1>0, <2>5, <2>6, MoreBlocks
    <2> QED
      BY <1>3, <2>1, <2>7, Lifted
  <1> QED
    BY <1>1, <1>2, <1>3

\* blocks stay in order
Ordered(c) == InBlocks(All(c)) /\ Continues(c)

(* Nothing came on c, and nobody began or ended a write there.             *)
LEMMA OrderedStays ==
  ASSUME NEW c \in CPUs, Ordered(c), All(c)' = All(c), lost'[c] = lost[c],
         \A t \in Tasks : (WritesOn(t, c) <=> WritesOn(t, c)') /\ (WritesOn(t, c) => task'[t] = task[t])
  PROVE  Ordered(c)'
  BY Lifted, ContinuesStays DEF Ordered, WritesOn

(* A record is lost on c: what comes next says so.                         *)
LEMMA LostStays ==
  ASSUME NEW c \in CPUs, Ordered(c), All(c)' = All(c), lost'[c] # 0
  PROVE  Ordered(c)'
  BY Lifted DEF Ordered, Continues

(* detect_file_open_ret puts its event out: no write is between two blocks *)
(* on its CPU.                                                             *)
LEMMA PutOpen ==
  ASSUME RingsRight, TasksRight,
           NEW t \in Tasks, OpenOutput(t), task[t].cpu \in CPUs, OpenRecord(t) \in OpenEvents,
         PutsOut(task[t].cpu, OpenRecord(t)), NEW c \in CPUs, c \notin gap', Ordered(c)
  PROVE  c \notin gap /\ Ordered(c)'
  <1> DEFINE e == OpenRecord(t)
  <1>d. PICK d : d = task[t].cpu
    OBVIOUS
  <1>1. /\ task[t].pc = "opened" /\ task \in [Tasks -> TaskState]
        /\ task' = [task EXCEPT ![t].pc = "output"]
    BY DEF OpenOutput, TasksRight, TasksTyped
  <1>2. task'[t].pc = "output" /\ \A u \in Tasks : u # t => task'[u] = task[u]
    BY <1>1 DEF TaskState
  <1>3. \A u \in Tasks : (WritesOn(u, c) <=> WritesOn(u, c)') /\ (WritesOn(u, c) => task'[u] = task[u])
    BY <1>1, <1>2 DEF WritesOn
  <1>4. d \in CPUs /\ d # 0 /\ \A u \in Tasks : ~WritesOn(u, d)
    BY <1>1, <1>d, MmapAssumption DEF WritesOn, TasksRight, OwnCpus, CPUs
  <1> HIDE DEF e
  <1>5. e \in OpenEvents /\ e \in FileEvents /\ e \notin WriteEvents /\ PutsOut(d, e)
    BY <1>d, NotAlike DEF FileEvents, e
  <1>6. CASE Still /\ gap' = gap \cup {d}
    BY <1>3, <1>6, AllMoves, OrderedStays
  <1>7. CASE Loses(d) /\ gap' = gap
    <2>1. All(c)' = All(c) /\ (lost'[c] = IF c = d THEN lost[c] + 1 ELSE lost[c]) /\ lost[c] \in Nat
      BY <1>4, <1>7, AllMoves
    <2>2. CASE c = d
      <3>1. lost'[c] # 0
        BY <2>1, <2>2
      <3> QED
        BY <1>7, <2>1, <3>1, LostStays
    <2>3. CASE c # d
      BY <1>3, <1>7, <2>1, <2>3, OrderedStays
    <2> QED
      BY <2>2, <2>3
  <1>8. CASE Puts(d, e) /\ gap' = gap
    <2>1. Sized(e) /\ InBlocks(All(c))
      BY <1>5 DEF Sized, Ordered
    <2>2. ASSUME c = d, lost[c] = 0
          PROVE  /\ All(c) = <<>> => ~(e \in WriteEvents /\ e.cur_len > 0)
                 /\ All(c) # <<>> => Pair(All(c)[Len(All(c))], e)
      BY <1>4, <1>5, <2>2 DEF Ordered, Continues, Pair, WritesOn
    <2>3. /\ InBlocks(All(c))'
          /\ c = d => All(c)' # <<>> /\ All(c)'[Len(All(c)')] = e
          /\ c # d => All(c)' = All(c) /\ lost'[c] = lost[c]
      BY <1>4, <1>5, <1>8, <2>1, <2>2, PutBlocks
    <2>4. CASE c = d
      <3>1. Continues(c)'
        BY <1>3, <1>4, <1>5, <2>3, <2>4 DEF Continues, WritesOn
      <3> QED
        BY <1>8, <2>3, <3>1 DEF Ordered
    <2>5. CASE c # d
      BY <1>3, <1>8, <2>3, <2>5, OrderedStays
    <2> QED
      BY <2>4, <2>5
  <1> QED
    BY <1>5, <1>6, <1>7, <1>8 DEF PutsOut

(* detect_file_write puts a block out: the one before it came last, unless *)
(* one was lost.                                                           *)
LEMMA PutBlock ==
  ASSUME RingsRight, TasksRight,
           NEW t \in Tasks, WriteBlock(t), task[t].cpu \in CPUs, BlockRecord(t) \in WriteEvents,
         BlockRecord(t).cur_len < BlockRecord(t).total_len,
         PutsOut(task[t].cpu, BlockRecord(t)), NEW c \in CPUs, c \notin gap', Ordered(c)
  PROVE  c \notin gap /\ Ordered(c)'
  <1>d. PICK d, e : d = task[t].cpu /\ e = BlockRecord(t)
    OBVIOUS
  <1>1. /\ task[t].pc = "written" /\ task \in [Tasks -> TaskState] /\ Running(t)
        /\ task' = IF LastBlock(task[t].block, task[t].total) THEN [task EXCEPT ![t] = AtRest]
                                                             ELSE [task EXCEPT ![t].block = @ + 1]
    BY DEF WriteBlock, TasksRight, TasksTyped
  <1>2. /\ \A u \in Tasks : u # t => task'[u] = task[u]
        /\ LastBlock(task[t].block, task[t].total) => task'[t].pc = "idle"
        /\ ~LastBlock(task[t].block, task[t].total) => task'[t] = [task[t] EXCEPT !.block = @ + 1]
    BY <1>1, TaskAtRest
  <1>3. d \in CPUs /\ d # 0 /\ \A u \in Tasks : task[u].cpu = d => u = t
    BY <1>1, <1>d, MmapAssumption DEF TasksRight, OwnCpus, CPUs
  <1>4. c # d => \A u \in Tasks : (WritesOn(u, c) <=> WritesOn(u, c)') /\ (WritesOn(u, c) => task'[u] = task[u])
    <2>1. SUFFICES ASSUME c # d PROVE ~WritesOn(t, c) /\ ~WritesOn(t, c)'
      BY <1>2 DEF WritesOn
    <2>2. task'[t].pc = "idle" \/ task'[t].cpu = task[t].cpu
      BY <1>1, <1>2 DEF TaskState
    <2> QED
      BY <1>d, <2>1, <2>2 DEF WritesOn
  <1>5. e \in WriteEvents /\ e \in FileEvents /\ Sized(e) /\ PutsOut(d, e) /\ "lost" \notin DOMAIN e
    BY <1>d, NotAlike DEF FileEvents, Sized
  <1>6. /\ e.file = task[t].name /\ e.op = task[t].op /\ e.cur_len = task[t].block
             /\ e.total_len = task[t].total
        /\ task[t].block \in Nat
        /\ Complete(e) <=> LastBlock(task[t].block, task[t].total)
        /\ BlockBefore(t) = [e EXCEPT !.cur_len = @ - 1]
    BY <1>d, <1>1 DEF BlockRecord, Complete, Running, BlockBefore
  <1>7. CASE Still /\ gap' = gap \cup {d}
    BY <1>4, <1>7, AllMoves, OrderedStays
  <1>8. CASE Loses(d) /\ gap' = gap
    <2>1. All(c)' = All(c) /\ (lost'[c] = IF c = d THEN lost[c] + 1 ELSE lost[c]) /\ lost[c] \in Nat
      BY <1>3, <1>8, AllMoves
    <2>2. CASE c = d
      <3>1. lost'[c] # 0
        BY <2>1, <2>2
      <3> QED
        BY <1>8, <2>1, <3>1, LostStays
    <2>3. CASE c # d
      BY <1>4, <1>8, <2>1, <2>3, OrderedStays
    <2> QED
      BY <2>2, <2>3
  <1>9. CASE Puts(d, e) /\ gap' = gap
    <2>1. InBlocks(All(c))
      BY DEF Ordered
    <2>2. ASSUME c = d, lost[c] = 0
          PROVE  /\ All(c) = <<>> => ~(e \in WriteEvents /\ e.cur_len > 0)
                 /\ All(c) # <<>> => Pair(All(c)[Len(All(c))], e)
      <3> DEFINE x == All(c)[Len(All(c))]
      <3>1. e.cur_len > 0 => All(c) # <<>> /\ x = BlockBefore(t)
        BY <1>1, <1>6, <1>d, <2>2 DEF Ordered, Continues
      <3>2. All(c) # <<>> /\ x \in WriteEvents /\ ~Complete(x) => x = BlockBefore(t) /\ task[t].block > 0
        BY <1>3, <2>2 DEF Ordered, Continues
      <3>3. x = BlockBefore(t) /\ task[t].block > 0 => e = [x EXCEPT !.cur_len = @ + 1]
        <4>1. [[e EXCEPT !.cur_len = @ - 1] EXCEPT !.cur_len = @ + 1] = e
          <5>1. e = [file |-> e.file, op |-> e.op, cur_len |-> e.cur_len, total_len |-> e.total_len]
            BY <1>5 DEF WriteEvents
          <5>2. e.cur_len - 1 + 1 = e.cur_len
            BY <1>6
          <5>3. [e EXCEPT !.cur_len = @ - 1]
                  = [file |-> e.file, op |-> e.op, cur_len |-> e.cur_len - 1, total_len |-> e.total_len]
            BY <5>1
          <5>4. [[e EXCEPT !.cur_len = @ - 1] EXCEPT !.cur_len = @ + 1]
                  = [file |-> e.file, op |-> e.op, cur_len |-> e.cur_len - 1 + 1, total_len |-> e.total_len]
            <6> DEFINE b == [e EXCEPT !.cur_len = @ - 1]
            <6>1. b = [file |-> e.file, op |-> e.op, cur_len |-> e.cur_len - 1, total_len |-> e.total_len]
              BY <5>3
            <6> HIDE DEF b
            <6>2. [b EXCEPT !.cur_len = @ + 1]
                    = [file |-> e.file, op |-> e.op, cur_len |-> e.cur_len - 1 + 1, total_len |-> e.total_len]
              BY <6>1
            <6> QED
              BY <6>2 DEF b
          <5> QED
            BY <5>1, <5>2, <5>4
        <4> QED
          BY <1>6, <4>1
      <3> HIDE DEF x
      <3> QED
        BY <1>6, <3>1, <3>2, <3>3 DEF Pair, x
    <2>3. /\ InBlocks(All(c))'
          /\ c = d => All(c)' # <<>> /\ All(c)'[Len(All(c)')] = e
          /\ c # d => All(c)' = All(c) /\ lost'[c] = lost[c]
      BY <1>3, <1>5, <1>9, <2>1, <2>2, PutBlocks
    <2>4. CASE c = d
      <3>1. ASSUME ~Complete(e)
            PROVE  /\ task'[t].pc = "written" /\ task'[t].cpu = c /\ task'[t].block > 0
                   /\ BlockBefore(t)' = e
        <4>1. task'[t] = [task[t] EXCEPT !.block = @ + 1] /\ task[t] \in TaskState
          BY <1>1, <1>2, <1>6, <3>1
        <4>2. /\ task'[t].pc = "written" /\ task'[t].cpu = c /\ task'[t].block = task[t].block + 1
              /\ task'[t].name = task[t].name /\ task'[t].op = task[t].op /\ task'[t].total = task[t].total
          BY <1>1, <1>d, <2>4, <4>1 DEF TaskState
        <4>3. BlockRecord(t)' = [file |-> task[t].name, op |-> task[t].op, cur_len |-> task[t].block + 1, total_len |-> task[t].total]
          BY <4>2 DEF BlockRecord
        <4>4. BlockBefore(t)' = BlockRecord(t)
          BY <1>6, <4>3 DEF BlockBefore, BlockRecord
        <4> QED
          BY <1>6, <1>d, <4>2, <4>4
      <3>2. ASSUME NEW u \in Tasks, WritesOn(u, c)' PROVE u = t /\ ~Complete(e)
        <4>1. u = t
          BY <1>2, <1>3, <2>4, <3>2 DEF WritesOn
        <4> QED
          BY <1>2, <1>6, <3>2, <4>1 DEF WritesOn
      <3>3. Complete(e)' <=> Complete(e)
        BY DEF Complete, LastBlock
      <3>4. Continues(c)'
        <4>1. All(c)' # <<>> /\ All(c)'[Len(All(c)')] = e
          BY <2>3, <2>4
        <4>2. ASSUME ~Complete(e) PROVE \E u \in Tasks : WritesOn(u, c)' /\ e = BlockBefore(u)'
          BY <3>1, <4>2 DEF WritesOn
        <4>3. ASSUME NEW u \in Tasks, WritesOn(u, c)' PROVE e = BlockBefore(u)'
          BY <3>1, <3>2, <4>3
        <4> QED
          BY <4>1, <4>2, <4>3 DEF Continues, Complete, LastBlock, WritesOn
      <3> QED
        BY <1>9, <2>3, <3>4 DEF Ordered
    <2>5. CASE c # d
      BY <1>4, <1>9, <2>3, <2>5, OrderedStays
    <2> QED
      BY <2>4, <2>5
  <1> QED
    BY <1>5, <1>7, <1>8, <1>9 DEF PutsOut

\* all open events of c have the name of their file
Named(c) == \A i \in DOMAIN All(c) : WellNamed(All(c)[i])

(* They keep it.                                                           *)
LEMMA NamedStays ==
  ASSUME RingsRight, NEW c \in CPUs, Named(c)
  PROVE  /\ All(c)' = All(c) => Named(c)'
         /\ All(c)' = got[c] => Named(c)'
         /\ \A d \in CPUs, e \in FileEvents : Puts(d, e) /\ WellNamed(e) => Named(c)'
  <1>0. /\ All(c) \in Seq(Reports) /\ \A i \in DOMAIN got[c] : i \in DOMAIN All(c) /\ All(c)[i] = got[c][i]
    BY AllMoves
  <1>1. ASSUME All(c)' = All(c) PROVE Named(c)'
    BY <1>1 DEF Named, WellNamed
  <1>2. ASSUME All(c)' = got[c] PROVE Named(c)'
    BY <1>0, <1>2 DEF Named, WellNamed
  <1>3. ASSUME NEW s \in Seq(Reports), NEW x, \A i \in DOMAIN s : WellNamed(s[i]), WellNamed(x)
        PROVE  \A i \in DOMAIN Append(s, x) : WellNamed(Append(s, x)[i])
    <2> TAKE i \in DOMAIN Append(s, x)
    <2>1. i \in 1 .. Len(s) + 1 /\ Len(s) \in Nat
      OBVIOUS
    <2>2. CASE i = Len(s) + 1
      BY <1>3, <2>2
    <2>3. CASE i # Len(s) + 1
      <3>1. i \in DOMAIN s /\ Append(s, x)[i] = s[i]
        BY <2>1, <2>3
      <3> QED
        BY <1>3, <3>1
    <2> QED
      BY <2>2, <2>3
  <1>4. ASSUME NEW d \in CPUs, NEW e \in FileEvents, Puts(d, e), WellNamed(e) PROVE Named(c)'
    <2> DEFINE n == [lost |-> lost[c]]
               s == IF lost[c] = 0 THEN All(c) ELSE Append(All(c), n)
    <2>1. All(c)' = All(c) \/ All(c)' = Append(s, e)
      BY <1>4, AllMoves
    <2>2. s \in Seq(Reports) /\ \A i \in DOMAIN s : WellNamed(s[i])
      <3>1. WellNamed(n)
        BY NotAlike DEF WellNamed
      <3>2. lost[c] # 0 => n \in Reports
        <4>1. lost[c] \in Nat
          BY AllMoves
        <4> QED
          BY <4>1 DEF Reports
      <3> HIDE DEF n
      <3> QED
        BY <1>0, <1>3, <3>1, <3>2 DEF Named
    <2> HIDE DEF s
    <2>3. \A i \in DOMAIN Append(s, e) : WellNamed(Append(s, e)[i])
      BY <1>3, <1>4, <2>2
    <2>4. (\A i \in DOMAIN All(c)' : WellNamed(All(c)'[i])) => Named(c)'
      BY DEF Named, WellNamed
    <2> QED
      BY <1>1, <2>1, <2>3, <2>4
  <1> QED
    BY <1>1, <1>2, <1>4

\* the opens of the process, without the records
OpenedApart ==
  /\ \A t, u \in Tasks : Opening(t) /\ Opening(u) => t = u
  /\ tmp_map # NoFile => \E t \in Tasks : Opening(t) /\ tmp_map = task[t].file
  /\ \A t \in Tasks : task[t].pc = "opened" => task[t].name = task[t].file

(* One thread's step.                                                      *)
LEMMA ApartStays ==
  ASSUME TasksRight, ~mixed => OpenedApart, [Next]_vars
  PROVE  ~mixed' => OpenedApart'
  <1> SUFFICES ASSUME ~mixed' PROVE OpenedApart'
    OBVIOUS
  <1>0. task \in [Tasks -> TaskState] /\ \A t \in Tasks : Running(t)
    BY DEF TasksRight, TasksTyped
  <1>1. CASE UNCHANGED <<task, tmp_map, mixed>>
    BY <1>1 DEF OpenedApart, Opening
  <1>2. ASSUME NEW t \in Tasks, NEW w, task' = [task EXCEPT ![t] = w], UNCHANGED mixed,
               w.pc \in {"opened", "output"} => Opening(t) /\ w.file = task[t].file
                                            /\ (w.pc = "opened" => w.name = w.file),
               w.pc # "opening",
               tmp_map' = NoFile \/ (tmp_map' = tmp_map /\ (Opening(t) => w.pc \in {"opened", "output"} ))
        PROVE  OpenedApart'
    <2>1. task'[t] = w /\ \A u \in Tasks : u # t => task'[u] = task[u]
      BY <1>0, <1>2
    <2>2. OpenedApart
      BY <1>2
    <2>3. \A u \in Tasks : Opening(u)' => Opening(u) /\ task'[u].file = task[u].file
      BY <1>2, <2>1 DEF Opening
    <2>4. Opening(t) /\ w.pc \in {"opened", "output"} => Opening(t)'
      BY <1>2, <2>1 DEF Opening
    <2>5. \A u \in Tasks : u # t => (Opening(u)' <=> Opening(u))
      BY <2>1 DEF Opening
    <2> QED
      BY <1>2, <2>1, <2>2, <2>3, <2>4, <2>5 DEF OpenedApart
  <1>3. ASSUME NEW t \in Tasks, OpenOutput(t) PROVE OpenedApart'
    <2> DEFINE w == [task[t] EXCEPT !.pc = "output"]
    <2>1. task' = [task EXCEPT ![t] = w] /\ task[t].pc = "opened" /\ UNCHANGED <<tmp_map, mixed>>
      BY <1>3 DEF OpenOutput
    <2>2. w.pc = "output" /\ w.file = task[t].file /\ Opening(t)
      BY <1>0, <2>1, NothingAssumption DEF TaskState, Running, Opening
    <2> HIDE DEF w
    <2> QED
      BY <1>2, <2>1, <2>2
  <1>4. ASSUME NEW t \in Tasks, OpenDelete(t) PROVE OpenedApart'
    <2>1. task' = [task EXCEPT ![t] = AtRest] /\ tmp_map' = NoFile /\ mixed' = mixed
      BY <1>4 DEF OpenDelete, Deleted
    <2> QED
      BY <1>2, <2>1, TaskAtRest
  <1>5. ASSUME NEW t \in Tasks, WriteBlock(t) PROVE OpenedApart'
    <2>1. /\ task[t].pc = "written" /\ UNCHANGED <<tmp_map, mixed>>
          /\ \/ task' = [task EXCEPT ![t] = AtRest]
             \/ task' = [task EXCEPT ![t] = [task[t] EXCEPT !.block = @ + 1]]
      BY <1>5 DEF WriteBlock
    <2>2. [task[t] EXCEPT !.block = @ + 1].pc = "written"
      BY <1>0, <2>1 DEF TaskState
    <2>3. ~Opening(t)
      BY <2>1 DEF Opening
    <2> QED
      BY <1>2, <2>1, <2>2, <2>3, TaskAtRest
  <1>6. ASSUME NEW t \in Tasks, NEW f \in Files, detect_file_open(t, f) PROVE OpenedApart'
    <2> DEFINE w == [AtRest EXCEPT !.pc = "opening", !.file = f]
    <2>1. /\ task[t].pc = "idle" /\ task' = [task EXCEPT ![t] = w]
          /\ tmp_map' = tmp_map \/ tmp_map' = f
          /\ mixed' = (mixed \/ \E u \in Tasks \ {t} : Opening(u))
      BY <1>6 DEF detect_file_open
    <2>2. w.pc = "opening" /\ w.file = f /\ f # NoFile
      BY NothingAssumption DEF AtRest
    <2> HIDE DEF w
    <2>3. task'[t] = w /\ \A u \in Tasks : u # t => task'[u] = task[u]
      BY <1>0, <2>1
    <2>4. OpenedApart /\ (\A u \in Tasks : ~Opening(u)) /\ tmp_map = NoFile
      BY <2>1 DEF OpenedApart, Opening
    <2>5. Opening(t)' /\ \A u \in Tasks : Opening(u)' => u = t
      BY <2>2, <2>3, <2>4 DEF Opening
    <2> QED
      BY <2>1, <2>2, <2>3, <2>4, <2>5 DEF OpenedApart
  <1>7. ASSUME NEW t \in Tasks, NEW c \in CPUs, detect_file_open_ret(t, c) PROVE OpenedApart'
    <2>1. task[t].pc = "opening" /\ UNCHANGED <<tmp_map, mixed>>
      BY <1>7 DEF detect_file_open_ret
    <2>2. CASE tmp_map = NoFile
      <3>1. task' = [task EXCEPT ![t] = AtRest]
        BY <1>7, <2>2 DEF detect_file_open_ret
      <3> QED
        BY <1>2, <2>1, <2>2, <3>1, TaskAtRest
    <2>3. CASE tmp_map # NoFile
      <3> DEFINE w == [task[t] EXCEPT !.pc = "opened", !.name = tmp_map, !.cpu = c]
      <3>1. task' = [task EXCEPT ![t] = w]
        BY <1>0, <1>7, <2>3 DEF detect_file_open_ret
      <3>2. w.pc = "opened" /\ w.file = task[t].file /\ w.name = tmp_map
        BY <1>0 DEF TaskState
      <3>3. Opening(t)
        BY <1>0, <2>1, NothingAssumption DEF Running, Opening
      <3>4. tmp_map = task[t].file
        BY <2>1, <2>3, <3>3 DEF OpenedApart
      <3> HIDE DEF w
      <3> QED
        BY <1>2, <2>1, <3>1, <3>2, <3>3, <3>4
    <2> QED
      BY <2>2, <2>3
  <1>8. ASSUME NEW t \in Tasks, NEW f \in Files, NEW c \in CPUs,
                 NEW blocks \in WriteSizes, detect_file_write(t, f, c, blocks)
        PROVE  OpenedApart'
    <2> DEFINE w == [AtRest EXCEPT !.pc = "written", !.name = f, !.cpu = c, !.total = blocks, !.op = ops + 1]
    <2>1. task[t].pc = "idle" /\ task' = [task EXCEPT ![t] = w] /\ UNCHANGED <<tmp_map, mixed>>
      BY <1>8 DEF detect_file_write
    <2>2. w.pc = "written" /\ ~Opening(t)
      BY <2>1 DEF AtRest, Opening
    <2> HIDE DEF w
    <2> QED
      BY <1>2, <2>1, <2>2
  <1>9. (\E f \in Files : Listen(f)) \/ SetFilter \/ UNCHANGED vars => UNCHANGED <<task, tmp_map, mixed>>
    BY DEF Listen, SetFilter, vars
  <1> QED
    BY <1>1, <1>3, <1>4, <1>5, <1>6, <1>7, <1>8, <1>9, Kinds DEF Quiet

(* The programs that put nothing out leave the writes where they are.      *)
LEMMA WritesStay ==
  ASSUME TasksRight, Quiet, NEW c \in CPUs, NEW u \in Tasks
  PROVE  (WritesOn(u, c) <=> WritesOn(u, c)') /\ (WritesOn(u, c) => task'[u] = task[u])
  <1>0. task \in [Tasks -> TaskState]
    BY DEF TasksRight, TasksTyped
  <1>1. ASSUME NEW t \in Tasks, NEW w, task' = [task EXCEPT ![t] = w], task[t].pc # "written",
               w.pc # "written" \/ w.block = 0
        PROVE  (WritesOn(u, c) <=> WritesOn(u, c)') /\ (WritesOn(u, c) => task'[u] = task[u])
    BY <1>0, <1>1 DEF WritesOn
  <1>2. CASE task' = task
    BY <1>2 DEF WritesOn
  <1>3. ASSUME NEW t \in Tasks, OpenDelete(t)
        PROVE  (WritesOn(u, c) <=> WritesOn(u, c)') /\ (WritesOn(u, c) => task'[u] = task[u])
    BY <1>1, <1>3, TaskAtRest DEF OpenDelete
  <1>4. ASSUME NEW t \in Tasks, NEW f \in Files, detect_file_open(t, f)
        PROVE  (WritesOn(u, c) <=> WritesOn(u, c)') /\ (WritesOn(u, c) => task'[u] = task[u])
    <2>1. [AtRest EXCEPT !.pc = "opening", !.file = f].pc = "opening"
      BY DEF AtRest
    <2> QED
      BY <1>1, <1>4, <2>1 DEF detect_file_open
  <1>5. ASSUME NEW t \in Tasks, NEW d \in CPUs, detect_file_open_ret(t, d)
        PROVE  (WritesOn(u, c) <=> WritesOn(u, c)') /\ (WritesOn(u, c) => task'[u] = task[u])
    <2> DEFINE w == [task[t] EXCEPT !.pc = "opened", !.name = tmp_map, !.cpu = d]
    <2>1. task[t].pc = "opening" /\ (task' = [task EXCEPT ![t] = AtRest] \/ task' = [task EXCEPT ![t] = w])
      BY <1>0, <1>5 DEF detect_file_open_ret
    <2>2. w.pc = "opened"
      BY <1>0 DEF TaskState
    <2> HIDE DEF w
    <2> QED
      BY <1>1, <2>1, <2>2, TaskAtRest
  <1>6. ASSUME NEW t \in Tasks, NEW f \in Files, NEW d \in CPUs,
                 NEW blocks \in WriteSizes, detect_file_write(t, f, d, blocks)
        PROVE  (WritesOn(u, c) <=> WritesOn(u, c)') /\ (WritesOn(u, c) => task'[u] = task[u])
    <2> DEFINE w == [AtRest EXCEPT !.pc = "written", !.name = f, !.cpu = d, !.total = blocks, !.op = ops + 1]
    <2>1. task[t].pc = "idle" /\ task' = [task EXCEPT ![t] = w] /\ w.block = 0
      BY <1>6 DEF detect_file_write, AtRest
    <2> HIDE DEF w
    <2> QED
      BY <1>1, <2>1
  <1>7. (\E f \in Files : Listen(f)) \/ SetFilter \/ UNCHANGED vars => task' = task
    BY DEF Listen, SetFilter, vars
  <1> QED
    BY <1>2, <1>3, <1>4, <1>5, <1>6, <1>7 DEF Quiet

(* The invariant of the reports stays, and holds at first.                 *)
LEMMA ReportInvStays == ReportInv /\ [Next]_vars => ReportInv'
  <1> SUFFICES ASSUME ReportInv, [Next]_vars PROVE ReportInv'
    OBVIOUS
  <1>0. InStages /\ TasksRight /\ RingsRight /\ (~mixed => OpensApart) /\ \A c \in CPUs \ gap : Ordered(c)
    BY DEF ReportInv, ChInv, Ordered
  <1>1. ChInv'
    BY ChInvStays DEF ReportInv
  <1>2. (~mixed => OpenedApart) /\ (~mixed => \A c \in CPUs : Named(c))
    BY <1>0 DEF OpensApart, OpenedApart, Named
  <1>3. ~mixed' => OpenedApart' /\ ~mixed
    <2>1. ~mixed' => ~mixed
      BY Kinds DEF OpenOutput, WriteBlock, Quiet, OpenDelete, detect_file_open, detect_file_open_ret,
         detect_file_write, Listen, SetFilter, vars
    <2> QED
      BY <1>0, <1>2, <2>1, ApartStays
  <1>4. ASSUME NEW c \in CPUs, c \notin gap' PROVE Ordered(c)'
    <2>1. CASE PerfNext /\ UNCHANGED task
      <3>1. Moves
        BY <1>0, <2>1, BufferStep
      <3>2. c \notin gap /\ All(c)' = All(c) /\ lost'[c] = lost[c]
        BY <1>0, <1>4, <3>1, AllMoves DEF Moves
      <3>3. \A t \in Tasks : (WritesOn(t, c) <=> WritesOn(t, c)') /\ (WritesOn(t, c) => task'[t] = task[t])
        BY <2>1 DEF WritesOn
      <3> QED
        BY <1>0, <3>2, <3>3, OrderedStays
    <2>2. ASSUME NEW t \in Tasks, OpenOutput(t) PROVE Ordered(c)'
      <3>1. c \notin gap
        BY <1>0, <1>4, <2>2, ProgramStep DEF PutsOut
      <3> QED
        BY <1>0, <1>4, <2>2, <3>1, ProgramStep, PutOpen
    <2>3. ASSUME NEW t \in Tasks, WriteBlock(t) PROVE Ordered(c)'
      <3>1. c \notin gap
        BY <1>0, <1>4, <2>3, ProgramStep DEF PutsOut
      <3> QED
        BY <1>0, <1>4, <2>3, <3>1, ProgramStep, PutBlock
    <2>4. CASE Quiet /\ UNCHANGED perfVars
      <3>1. Still /\ gap' = gap
        BY <1>0, <2>4, QuietRight
      <3>2. All(c)' = All(c) /\ lost'[c] = lost[c]
        BY <1>0, <3>1, AllMoves
      <3> QED
        BY <1>0, <1>4, <2>4, <3>1, <3>2, WritesStay, OrderedStays
    <2> QED
      BY <2>1, <2>2, <2>3, <2>4, Kinds
  <1>5. ASSUME NEW c \in CPUs, ~mixed' PROVE Named(c)'
    <2>0. Named(c)
      BY <1>2, <1>3, <1>5
    <2>1. CASE PerfNext
      <3>1. Moves
        BY <1>0, <2>1, BufferStep
      <3>2. All(c)' = All(c) \/ All(c)' = got[c]
        BY <1>0, <3>1, AllMoves DEF Moves
      <3> QED
        BY <1>0, <2>0, <3>2, NamedStays
    <2>2. ASSUME NEW d \in CPUs, NEW e \in FileEvents, PutsOut(d, e), WellNamed(e) PROVE Named(c)'
      <3>1. CASE Puts(d, e)
        BY <1>0, <2>0, <2>2, <3>1, NamedStays
      <3>2. CASE Still \/ Loses(d)
        <4>1. All(c)' = All(c)
          BY <1>0, <3>2, AllMoves
        <4> QED
          BY <1>0, <2>0, <4>1, NamedStays
      <3> QED
        BY <2>2, <3>1, <3>2 DEF PutsOut
    <2>3. ASSUME NEW t \in Tasks, OpenOutput(t) PROVE Named(c)'
      <3>1. WellNamed(OpenRecord(t))
        BY <1>2, <1>3, <1>5, <2>3 DEF OpenOutput, OpenedApart, WellNamed, OpenRecord
      <3> QED
        BY <1>0, <2>2, <2>3, <3>1, ProgramStep DEF FileEvents
    <2>4. ASSUME NEW t \in Tasks, WriteBlock(t) PROVE Named(c)'
      <3>1. BlockRecord(t) \in WriteEvents /\ PutsOut(task[t].cpu, BlockRecord(t)) /\ task[t].cpu \in CPUs
        BY <1>0, <2>4, ProgramStep
      <3>2. WellNamed(BlockRecord(t))
        BY <3>1, NotAlike DEF WellNamed
      <3> QED
        BY <2>2, <3>1, <3>2 DEF FileEvents
    <2>5. CASE UNCHANGED perfVars
      <3>1. Still
        BY <1>0, <2>5, QuietRight
      <3>2. All(c)' = All(c)
        BY <1>0, <3>1, AllMoves
      <3> QED
        BY <1>0, <2>0, <3>2, NamedStays
    <2> QED
      BY <2>1, <2>3, <2>4, <2>5, Kinds
  <1>6. ~mixed' => OpensApart'
    BY <1>3, <1>5 DEF OpensApart, OpenedApart, Named
  <1> QED
    BY <1>1, <1>4, <1>6 DEF ReportInv, Ordered

LEMMA ReportInvStarts == Init => ReportInv
  <1> SUFFICES ASSUME Init PROVE ReportInv
    OBVIOUS
  <1>1. ChInv
    BY ChInvStarts
  <1>2. /\ task = [t \in Tasks |-> AtRest] /\ tmp_map = NoFile /\ got = [c \in CPUs |-> <<>>]
        /\ pb = Resting /\ ring = [c \in CPUs |-> NewRing] /\ lost = [c \in CPUs |-> 0]
    BY DEF Init, PerfInit
  <1>3. \A c \in CPUs : All(c) = <<>>
    <2> TAKE c \in CPUs
    <2>1. Queue[c] = <<>>
      BY <1>2, RestingRight, EmptyRing DEF Queue, From
    <2>2. InFlight(c) = <<>>
      BY <2>1, QueueInFlight
    <2> QED
      BY <1>2, <2>2 DEF All
  <1>4. \A t \in Tasks : task[t].pc = "idle"
    BY <1>2, TaskAtRest
  <1>5. OpensApart
    BY <1>2, <1>3, <1>4 DEF OpensApart, Opening
  <1>6. \A c \in CPUs : InBlocks(All(c)) /\ Continues(c)
    BY <1>3, <1>4 DEF InBlocks, Continues
  <1> QED
    BY <1>1, <1>5, <1>6 DEF ReportInv

(* detect_file_open_ret, detect_file_write and perf_buffer__poll: for any  *)
(* threads, files and CPUs, an open event has the name of its file unless  *)
(* two opens overlapped, and the blocks of a write come one behind the     *)
(* other, to the last, or with a record of losses between them.            *)
THEOREM FilesReported == Spec => []FilesAreReported
  <1>1. ReportInv => FilesAreReported
    <2> SUFFICES ASSUME ReportInv PROVE FilesAreReported
      OBVIOUS
    <2>0. RingsRight
      BY DEF ReportInv, ChInv
    <2>1. OpenEventsNameTheirFile
      <3> SUFFICES ASSUME ~mixed, NEW c \in CPUs, NEW i \in DOMAIN got[c], got[c][i] \in OpenEvents
                   PROVE  got[c][i].name = got[c][i].file
        BY DEF OpenEventsNameTheirFile
      <3>1. i \in DOMAIN All(c) /\ All(c)[i] = got[c][i]
        BY <2>0, AllMoves
      <3>2. WellNamed(All(c)[i])
        BY <3>1 DEF ReportInv, OpensApart
      <3> QED
        BY <3>1, <3>2 DEF WellNamed
    <2>2. BlocksFollow
      <3> SUFFICES ASSUME NEW c \in CPUs \ gap, NEW i \in DOMAIN got[c], got[c][i] \in WriteEvents
                   PROVE  LET r == got[c][i]
                          IN  /\ r.cur_len < r.total_len
                              /\ r.cur_len > 0 => i > 1 /\ (\/ got[c][i-1] = [r EXCEPT !.cur_len = @ - 1]
                                                            \/ "lost" \in DOMAIN got[c][i-1])
                              /\ i < Len(got[c]) =>
                                   \/ got[c][i+1] = [r EXCEPT !.cur_len = @ + 1]
                                   \/ "lost" \in DOMAIN got[c][i+1]
                                   \/ r.cur_len + 1 = (IF r.total_len < Blocks THEN r.total_len ELSE Blocks)
        BY DEF BlocksFollow
      <3> DEFINE s == All(c)
                 g == got[c]
                 r == got[c][i]
      <3>1. InBlocks(s) /\ s \in Seq(Reports) /\ g \in Seq(Reports)
              /\ \A j \in DOMAIN g : j \in DOMAIN s /\ s[j] = g[j]
        BY <2>0, AllMoves DEF ReportInv
      <3>2. i \in 1 .. Len(g) /\ Len(g) \in Nat /\ Len(s) \in Nat /\ i \in 1 .. Len(s)
              /\ DOMAIN g = 1 .. Len(g) /\ DOMAIN s = 1 .. Len(s)
        BY <3>1
      <3>3. r \in WriteEvents /\ r = s[i] /\ r.cur_len \in 0 .. Blocks - 1 /\ r.total_len \in Nat
              /\ Blocks \in Nat
        BY <3>1, SizesAssumption DEF WriteEvents
      <3> HIDE DEF s, g, r
      <3>4. r.cur_len < r.total_len
        BY <3>1, <3>2, <3>3 DEF InBlocks, Sized
      <3>5. ASSUME r.cur_len > 0
            PROVE  i > 1 /\ (g[i-1] = [r EXCEPT !.cur_len = @ - 1] \/ "lost" \in DOMAIN g[i-1])
        <4>1. i # 1
          <5>1. s # <<>>
            BY <3>2
          <5> QED
            BY <3>1, <3>3, <3>5, <5>1 DEF InBlocks
        <4>2. i - 1 \in 1 .. Len(s) - 1 /\ i - 1 \in 1 .. Len(g) /\ i - 1 + 1 = i
          BY <3>2, <4>1
        <4>3. Pair(s[i-1], s[i-1+1]) /\ s[i-1] = g[i-1]
          BY <3>1, <3>2, <4>2 DEF InBlocks
        <4>4. Pair(g[i-1], r)
          BY <3>3, <4>2, <4>3
        <4> QED
          BY <3>2, <3>3, <3>5, <4>1, <4>4 DEF Pair
      <3>6. ASSUME i < Len(g)
            PROVE  \/ g[i+1] = [r EXCEPT !.cur_len = @ + 1]
                   \/ "lost" \in DOMAIN g[i+1]
                   \/ r.cur_len + 1 = (IF r.total_len < Blocks THEN r.total_len ELSE Blocks)
        <4>1. i + 1 \in 1 .. Len(g) /\ i + 1 \in 1 .. Len(s) /\ i \in 1 .. Len(s) - 1
          <5>1. i + 1 \in 1 .. Len(g)
            BY <3>2, <3>6
          <5>2. i + 1 \in 1 .. Len(s)
            BY <3>1, <3>2, <5>1
          <5> QED
            BY <3>2, <5>1, <5>2
        <4>2. Pair(r, g[i+1])
          BY <3>1, <3>2, <3>3, <4>1 DEF InBlocks
        <4>3. Complete(r) => r.cur_len + 1 = (IF r.total_len < Blocks THEN r.total_len ELSE Blocks)
          BY <3>3, <3>4 DEF Complete, LastBlock
        <4> QED
          BY <3>3, <4>2, <4>3 DEF Pair
      <3> QED
        BY <3>4, <3>5, <3>6 DEF g, r
    <2> QED
      BY <2>1, <2>2 DEF FilesAreReported
  <1>2. QED
    BY <1>1, ReportInvStarts, ReportInvStays, PTL DEF Spec

-----------------------------------------------------------------------------
(* XskRing.                                                                *)

\* entries of a ring in the program's call
Held(r) == IF app.pc # "none" /\ app.ring = r THEN app.nb ELSE 0

\* entries from position x on are those of q
Holds(e, x, q) == \A i \in 1 .. Len(q) : e[Slot(x + i - 1)] = q[i]

(* A ring.  Its shared positions are as far apart as there are entries     *)
(* submitted and not released; these are in its entries, and the copies    *)
(* show no more room, or no more entries, than there are.  The kernel is   *)
(* in an entry that is submitted, or in the one behind them.               *)
RingOK(r) ==
  /\ Len(queue[r]) <= Size
  /\ shared[r].prod = (shared[r].cons + Len(queue[r])) % W
  /\ Holds(slots[r], shared[r].cons, queue[r])
  /\ r \in Producing =>
       /\ cached[r].prod = (shared[r].prod + Held(r)) % W
       /\ Len(queue[r]) + Held(r) + NbFree(cached[r]) <= Size
       /\ kernel[r] # NoFrame => Len(queue[r]) >= 1
  /\ r \in Consuming =>
       /\ cached[r].cons = (shared[r].cons + Held(r)) % W
       /\ Held(r) + NbAvail(cached[r]) <= Len(queue[r])
       /\ kernel[r] # NoFrame => Len(queue[r]) < Size /\ slots[r][Slot(shared[r].prod)] = kernel[r]

\* the call in progress is at the position the shared one has
Calls ==
  /\ app.pc \in {"reserved", "written"} => app.ring \in Producing /\ app.idx = shared[app.ring].prod
  /\ app.pc \in {"peeked", "read"} => app.ring \in Consuming /\ app.idx = shared[app.ring].cons
  /\ app.pc = "written" =>
       Len(app.read) = app.nb /\ \A i \in 1 .. app.nb : slots[app.ring][Slot(app.idx + i - 1)] = app.read[i]
  /\ app.pc = "read" =>
       Len(app.read) = app.nb /\ \A i \in 1 .. app.nb : app.read[i] = queue[app.ring][i]

XInv == RTypeOK /\ (\A r \in Rings : RingOK(r)) /\ Calls

-----------------------------------------------------------------------------
(* Positions modulo W.                                                     *)
LEMMA Sizes ==
  /\ Size \in Nat /\ Size > 0 /\ W \in Nat /\ W > Size /\ W > 0
  /\ \E k \in Int : W = k * Size
  <1>1. Size \in Nat /\ Size > 0 /\ W \in Nat /\ W > Size /\ W > 0 /\ W % Size = 0
    BY FramesAssumption
  <1>2. PICK k \in Int : W = (k * Size) + (W % Size)
    BY <1>1, Division
  <1>3. W = k * Size
    BY <1>1, <1>2
  <1>4. QED BY <1>1, <1>3

\* from position x, d further on; and how far y is from x
LEMMA Advance ==
  ASSUME NEW x \in Pos, NEW d \in Nat
  PROVE  /\ ((x + d) % W) \in Pos
         /\ \A e \in Int : (((x + d) % W) + e) % W = (x + d + e) % W
         /\ d < W => (((x + d) % W) - x) % W = d
  <1>1. W \in Nat /\ W > 0 /\ x \in Int /\ d \in Int /\ x + d \in Int
    BY Sizes DEF Pos
  <1>2. ((x + d) % W) \in Pos
    BY <1>1, Division DEF Pos
  <1>3. \A e \in Int : (((x + d) % W) + e) % W = (x + d + e) % W
    BY <1>1, SumRemainder
  <1>4. ASSUME d < W PROVE (((x + d) % W) - x) % W = d
    <2>1. (((x + d) % W) + (0 - x)) % W = (x + d + (0 - x)) % W
      BY <1>1, <1>3
    <2>2. x + d + (0 - x) = d /\ ((x + d) % W) + (0 - x) = ((x + d) % W) - x
      BY <1>1, <1>2 DEF Pos
    <2>3. d % W = d
      BY <1>1, <1>4, Small
    <2> QED
      BY <2>1, <2>2, <2>3
  <1>5. QED BY <1>2, <1>3, <1>4

LEMMA Distance ==
  ASSUME NEW x \in Pos, NEW y \in Pos
  PROVE  /\ ((y - x) % W) \in 0 .. W - 1
         /\ y = (x + ((y - x) % W)) % W
  <1>1. W \in Nat /\ W > 0 /\ x \in Int /\ y \in Int /\ y - x \in Int /\ y \in 0 .. W - 1
    BY Sizes DEF Pos
  <1>2. ((y - x) % W) \in 0 .. W - 1
    BY <1>1, Division
  <1>3. (((y - x) % W) + x) % W = (y - x + x) % W
    BY <1>1, SumRemainder
  <1>4. y - x + x = y /\ ((y - x) % W) + x = x + ((y - x) % W)
    BY <1>1, <1>2
  <1>5. y % W = y
    BY <1>1, Small
  <1>6. QED BY <1>2, <1>3, <1>4, <1>5

\* the entry at a position is the same when the position has passed W
LEMMA SlotAt ==
  ASSUME NEW x \in Pos, NEW d \in Nat, NEW e \in Int
  PROVE  /\ Slot(((x + d) % W) + e) = Slot(x + d + e)
         /\ Slot(x + d) \in 0 .. Size - 1
  <1>1. W \in Nat /\ W > 0 /\ Size \in Nat /\ Size > 0 /\ x \in Int /\ x + d \in Int /\ ((x + d) % W) \in Int
    BY Sizes, Division DEF Pos
  <1>2. PICK k \in Int : W = k * Size
    BY Sizes
  <1>3. PICK q \in Int : x + d = (q * W) + ((x + d) % W)
    BY <1>1, Division
  <1>4. x + d + e = (((x + d) % W) + e) + ((q * k) * Size)
    <2>1. q * W = (q * k) * Size
      BY <1>1, <1>2
    <2>2. (q * k) * Size \in Int
      BY <1>1
    <2>3. (q * W) + ((x + d) % W) = ((q * k) * Size) + ((x + d) % W)
      BY <2>1
    <2>. DEFINE z == (q * k) * Size
               m == ((x + d) % W)
    <2>4. x + d = z + m /\ z \in Int /\ m \in Int
      BY <1>1, <1>3, <2>2, <2>3
    <2>. HIDE DEF z, m
    <2>5. x + d + e = (m + e) + z
      BY <1>1, <2>4
    <2> QED
      BY <2>5 DEF z, m
  <1>5. ((x + d) % W) + e \in Int /\ q * k \in Int
    BY <1>1
  <1>6. Slot(((x + d) % W) + e) = Slot(x + d + e)
    <2>. DEFINE n == q * k
               z == ((x + d) % W) + e
    <2>1. z \in Int /\ n \in Int /\ x + d + e = z + (n * Size)
      BY <1>4, <1>5
    <2>. HIDE DEF n, z
    <2>2. (z + (n * Size)) % Size = z % Size
      BY <1>1, <2>1, SameRemainder
    <2>3. Slot(z) = Slot(x + d + e)
      BY <2>1, <2>2 DEF Slot
    <2> QED
      BY <2>3 DEF z
  <1>7. Slot(x + d) \in 0 .. Size - 1
    BY <1>1, Division DEF Slot
  <1>8. QED BY <1>6, <1>7

\* entries of a ring of less than Size entries do not meet
LEMMA SlotsDiffer ==
  ASSUME NEW x \in Pos, NEW i \in Nat, NEW j \in Nat, i < Size, j < Size, i # j
  PROVE  Slot(x + i) # Slot(x + j)
  <1>1. Size \in Nat /\ Size > 0 /\ x + i \in Int /\ x + j \in Int
    BY Sizes DEF Pos
  <1>2. CASE i < j
    <2>1. x + i < x + j /\ x + j < (x + i) + Size
      BY <1>2, Sizes DEF Pos
    <2> QED
      BY <1>1, <2>1, OtherRemainder DEF Slot
  <1>3. CASE j < i
    <2>1. x + j < x + i /\ x + i < (x + j) + Size
      BY <1>3, Sizes DEF Pos
    <2> QED
      BY <1>1, <2>1, OtherRemainder DEF Slot
  <1>4. QED BY <1>2, <1>3

\* the distance of two positions
LEMMA Between ==
  ASSUME NEW x \in Pos, NEW a \in Nat, NEW b \in Nat, a <= b, b - a < W
  PROVE  (((x + b) % W) - ((x + a) % W)) % W = b - a
  <1>1. b - a \in Nat /\ x + a \in Int /\ x + b \in Int /\ x + a + (b - a) = x + b
    BY DEF Pos
  <1>2. (x + a) % W \in Pos
    BY Advance
  <1>3. (((x + a) % W) + (b - a)) % W = (x + b) % W
    BY <1>1, Advance
  <1>4. (((((x + a) % W) + (b - a)) % W) - ((x + a) % W)) % W = b - a
    BY <1>1, <1>2, Advance
  <1>5. QED BY <1>3, <1>4

-----------------------------------------------------------------------------
(* Records and rings of records.                                           *)
Both == [prod : Pos, cons : Pos]
Stages == {"none", "reserved", "written", "peeked", "read"}
Call == [pc : Stages, ring : Rings, idx : Pos, nb : 0 .. Size, read : Seq(Frames)]
SlotValues == [0 .. Size - 1 -> Frames \cup {NoFrame}]

LEMMA Copies ==
  ASSUME NEW c \in Both, NEW x \in Pos
  PROVE  /\ [c EXCEPT !.prod = x] \in Both
         /\ [c EXCEPT !.cons = x] \in Both
         /\ [c EXCEPT !.prod = x].prod = x /\ [c EXCEPT !.prod = x].cons = c.cons
         /\ [c EXCEPT !.cons = x].cons = x /\ [c EXCEPT !.cons = x].prod = c.prod
  BY DEF Both

LEMMA NewCall ==
  ASSUME NEW a \in Call, NEW p \in Stages, NEW q \in Rings, NEW x \in Pos, NEW n \in 0 .. Size
  PROVE  [a EXCEPT !.pc = p, !.ring = q, !.idx = x, !.nb = n] \in Call
  BY DEF Call

LEMMA NextCall ==
  ASSUME NEW a \in Call, NEW p \in Stages, NEW s \in Seq(Frames)
  PROVE  [a EXCEPT !.pc = p, !.read = s] \in Call
  BY DEF Call

LEMMA RingsTyped ==
  /\ RTypeOK <=> /\ shared \in [Rings -> Both] /\ slots \in [Rings -> SlotValues] /\ cached \in [Rings -> Both]
                 /\ app \in Call /\ kernel \in [Rings -> Frames \cup {NoFrame}]
                 /\ mine \subseteq Frames /\ theirs \subseteq Frames /\ queue \in [Rings -> Seq(Frames)]
  /\ RTypeOK' <=> /\ shared' \in [Rings -> Both] /\ slots' \in [Rings -> SlotValues]
        /\ cached' \in [Rings -> Both]
                  /\ app' \in Call /\ kernel' \in [Rings -> Frames \cup {NoFrame}]
                  /\ mine' \subseteq Frames /\ theirs' \subseteq Frames /\ queue' \in [Rings -> Seq(Frames)]
  BY DEF RTypeOK, Both, Call, Stages, SlotValues

\* a ring is of one kind
LEMMA OneKind ==
  /\ Rings = Producing \cup Consuming
  /\ \A r : ~(r \in Producing /\ r \in Consuming)
  /\ NoCall.pc = "none" /\ NoCall \in Call
  /\ 0 \in Pos /\ \A x \in Pos : (x + 0) % W = x
  <1>1. Rings = Producing \cup Consuming /\ \A r : ~(r \in Producing /\ r \in Consuming)
    BY FramesAssumption DEF Rings
  <1>2. (CHOOSE r \in Rings : TRUE) \in Rings /\ 0 \in Pos /\ 0 \in 0 .. Size
    BY FramesAssumption, Sizes DEF Rings, Pos
  <1>3. NoCall.pc = "none" /\ NoCall \in Call
    BY <1>2 DEF NoCall, Call, Stages
  <1>4. \A x \in Pos : x + 0 = x /\ x \in 0 .. W - 1
    BY Sizes DEF Pos
  <1>5. \A x \in Pos : x % W = x
    BY <1>4, Sizes, Small
  <1>6. QED BY <1>1, <1>2, <1>3, <1>4, <1>5

\* the types of one ring
LEMMA RingTypes ==
  ASSUME RTypeOK, NEW r \in Rings
  PROVE  /\ shared[r] \in Both /\ shared[r].prod \in Pos /\ shared[r].cons \in Pos
         /\ cached[r] \in Both /\ cached[r].prod \in Pos /\ cached[r].cons \in Pos
         /\ slots[r] \in SlotValues /\ kernel[r] \in Frames \cup {NoFrame}
         /\ queue[r] \in Seq(Frames) /\ Len(queue[r]) \in Nat
         /\ NbFree(cached[r]) \in Nat /\ NbAvail(cached[r]) \in Nat /\ Held(r) \in Nat
         /\ Size \in Nat /\ Size > 0 /\ W \in Nat /\ Size < W
  <1>1. /\ shared[r] \in Both /\ cached[r] \in Both /\ slots[r] \in SlotValues /\ app \in Call
        /\ queue[r] \in Seq(Frames) /\ kernel[r] \in Frames \cup {NoFrame}
    BY RingsTyped
  <1>2. /\ shared[r].prod \in Pos /\ shared[r].cons \in Pos /\ cached[r].prod \in Pos /\ cached[r].cons \in Pos
    BY <1>1 DEF Both
  <1>3. (cached[r].cons - cached[r].prod) % W \in 0 .. W - 1
          /\ (cached[r].prod - cached[r].cons) % W \in 0 .. W - 1
    BY <1>2, Distance
  <1>4. NbFree(cached[r]) \in Nat /\ NbAvail(cached[r]) \in Nat
    BY <1>3, Sizes DEF NbFree, NbAvail
  <1>5. Held(r) \in Nat
    BY <1>1, Sizes DEF Held, Call
  <1>6. QED BY <1>1, <1>2, <1>4, <1>5, Sizes

\* what a call in progress is about
LEMMA CallTypes ==
  ASSUME XInv, app.pc # "none"
  PROVE  /\ app.ring \in Rings /\ app.nb \in 0 .. Size /\ app.nb \in Nat /\ app.idx \in Pos
         /\ app.read \in Seq(Frames) /\ Held(app.ring) = app.nb
         /\ \A q \in Rings : q # app.ring => Held(q) = 0
  BY Sizes, RingsTyped DEF XInv, Call, Held

\* a ring that a step leaves alone
LEMMA Untouched ==
  ASSUME NEW r, RingOK(r), shared'[r] = shared[r], slots'[r] = slots[r], cached'[r] = cached[r],
         kernel'[r] = kernel[r], queue'[r] = queue[r], Held(r)' = Held(r)
  PROVE  RingOK(r)'
  BY DEF RingOK, NbFree, NbAvail

-----------------------------------------------------------------------------
(* Entries of a ring, seen from the consumer's and the producer's end.     *)
LEMMA Behind ==
  ASSUME NEW x \in Pos, NEW d \in Nat, NEW i \in Nat, i >= 1
  PROVE  /\ Slot(((x + d) % W) + i - 1) = Slot(x + (d + i) - 1)
         /\ Slot(x + (d + i) - 1) = Slot(x + (d + (i - 1)))
         /\ Slot(x + (d + (i - 1))) \in 0 .. Size - 1
         /\ Slot((x + d) % W) = Slot(x + (d + 1) - 1)
  <1>0. (x + d) % W \in Pos
    BY Advance
  <1>1. i - 1 \in Nat /\ (x + d) % W \in Int /\ x \in Int /\ d + (i - 1) \in Nat /\ 0 \in Int
    BY <1>0 DEF Pos
  <1>2. /\ ((x + d) % W) + i - 1 = ((x + d) % W) + (i - 1)
        /\ x + (d + i) - 1 = x + d + (i - 1) /\ x + (d + (i - 1)) = x + d + (i - 1)
        /\ (x + d) % W = ((x + d) % W) + 0 /\ x + (d + 1) - 1 = x + d + 0
    BY <1>1 DEF Pos
  <1>7. \A z \in Int : Slot(((x + d) % W) + z) = Slot(x + d + z)
    BY SlotAt
  <1>3. Slot(((x + d) % W) + (i - 1)) = Slot(x + d + (i - 1))
    BY <1>1, <1>7
  <1>4. Slot(((x + d) % W) + 0) = Slot(x + d + 0)
    BY <1>1, <1>7
  <1>5. Slot(x + (d + (i - 1))) \in 0 .. Size - 1
    BY <1>1, Sizes, Division DEF Slot
  <1>6. QED BY <1>2, <1>3, <1>4, <1>5

\* p is q without the first n; p is q and n more, which the entries from y on have
Moved(x, y, n) == y = (x + n) % W
Rest(p, q, n) == Len(q) = n + Len(p) /\ \A i \in 1 .. Len(p) : p[i] = q[n + i]
More(e, y, p, q, n) ==
  /\ Len(p) = Len(q) + n
  /\ \A i \in 1 .. Len(q) : p[i] = q[i]
  /\ \A i \in 1 .. n : e[Slot(y + i - 1)] = p[Len(q) + i]

\* n entries fewer
LEMMA TakenOff ==
  ASSUME NEW x \in Pos, NEW q \in Seq(Frames), NEW p \in Seq(Frames), NEW n \in Nat, NEW e, NEW y,
         Holds(e, x, q), Moved(x, y, n), Rest(p, q, n)
  PROVE  Holds(e, y, p) /\ (y + Len(p)) % W = (x + Len(q)) % W /\ y \in Pos
  <1>0. Len(q) = n + Len(p) /\ \A i \in 1 .. Len(p) : p[i] = q[n + i]
    BY DEF Rest
  <1>a. y = (x + n) % W
    BY DEF Moved
  <1>1. Len(p) \in Nat /\ Len(q) \in Nat
    OBVIOUS
  <1>2. y \in Pos
    BY <1>a, Advance
  <1>3. (y + Len(p)) % W = (x + n + Len(p)) % W
    BY <1>1, <1>a, Advance
  <1>4. x + n + Len(p) = x + Len(q)
    BY <1>0, <1>1 DEF Pos
  <1>5. ASSUME NEW i \in 1 .. Len(p) PROVE e[Slot(y + i - 1)] = p[i]
    <2>1. i \in Nat /\ i >= 1 /\ n + i \in 1 .. Len(q)
      BY <1>0, <1>1
    <2>2. Slot(y + i - 1) = Slot(x + (n + i) - 1)
      BY <1>a, <2>1, Behind
    <2>3. e[Slot(x + (n + i) - 1)] = q[n + i]
      BY <2>1 DEF Holds
    <2> QED
      BY <1>0, <2>2, <2>3
  <1>6. QED BY <1>2, <1>3, <1>4, <1>5 DEF Holds

\* n entries more
LEMMA PutOn ==
  ASSUME NEW x \in Pos, NEW q \in Seq(Frames), NEW p \in Seq(Frames), NEW n \in Nat, NEW e, NEW y,
         Holds(e, x, q), y = (x + Len(q)) % W, More(e, y, p, q, n)
  PROVE  Holds(e, x, p) /\ (y + n) % W = (x + Len(p)) % W
  <1>0. /\ Len(p) = Len(q) + n /\ \A i \in 1 .. Len(q) : p[i] = q[i]
        /\ \A i \in 1 .. n : e[Slot(y + i - 1)] = p[Len(q) + i]
    BY DEF More
  <1>1. Len(p) \in Nat /\ Len(q) \in Nat
    OBVIOUS
  <1>2. (y + n) % W = (x + Len(q) + n) % W
    BY <1>1, Advance
  <1>3. x + Len(q) + n = x + Len(p)
    BY <1>0, <1>1 DEF Pos
  <1>4. ASSUME NEW i \in 1 .. Len(p) PROVE e[Slot(x + i - 1)] = p[i]
    <2>1. CASE i \in 1 .. Len(q)
      BY <1>0, <2>1 DEF Holds
    <2>2. CASE i > Len(q)
      <3>1. PICK j \in 1 .. n : i = Len(q) + j
        <4>1. i - Len(q) \in 1 .. n /\ i = Len(q) + (i - Len(q))
          BY <1>0, <1>1, <2>2
        <4> QED
          BY <4>1
      <3>2. Slot(y + j - 1) = Slot(x + (Len(q) + j) - 1)
        <4>1. j \in Nat /\ j >= 1
          BY <1>1
        <4> QED
          BY <1>1, <4>1, Behind
      <3>3. e[Slot(y + j - 1)] = p[Len(q) + j]
        BY <1>0
      <3> QED
        BY <3>1, <3>2, <3>3
    <2> QED
      BY <1>1, <2>1, <2>2
  <1>5. QED BY <1>2, <1>3, <1>4 DEF Holds

\* an entry behind the first n is none of these
LEMMA NotAmong ==
  ASSUME NEW x \in Pos, NEW n \in Nat, NEW h \in 1 .. n, NEW i \in Nat, i >= 1, n + i <= Size
  PROVE  /\ Slot(x + h - 1) # Slot(((x + n) % W) + i - 1)
         /\ Slot(x + h - 1) \in 0 .. Size - 1
  <1>1. /\ n + (i - 1) \in Nat /\ h - 1 \in Nat /\ n + (i - 1) < Size /\ h - 1 < Size
        /\ h - 1 # n + (i - 1)
    BY Sizes
  <1>2. Slot(x + (h - 1)) # Slot(x + (n + (i - 1)))
    BY <1>1, SlotsDiffer
  <1>3. Slot(((x + n) % W) + i - 1) = Slot(x + (n + (i - 1)))
    BY Behind
  <1>4. x + h - 1 = x + (h - 1) /\ x + (h - 1) \in Int
    BY <1>1 DEF Pos
  <1>5. Slot(x + (h - 1)) \in 0 .. Size - 1
    BY <1>4, Sizes, Division DEF Slot
  <1>6. QED BY <1>2, <1>3, <1>4, <1>5

LEMMA XStart == RInit => XInv
  <1>. SUFFICES ASSUME RInit PROVE XInv
    OBVIOUS
  <1>1. 0 \in Pos /\ Size \in Pos /\ Size \in Nat
    BY Sizes DEF Pos
  <1>2. RTypeOK
    <2>1. [prod |-> 0, cons |-> 0] \in Both /\ [prod |-> 0, cons |-> Size] \in Both
      BY <1>1 DEF Both
    <2>2. shared \in [Rings -> Both] /\ cached \in [Rings -> Both]
      BY <2>1 DEF RInit
    <2>3. slots \in [Rings -> SlotValues] /\ kernel \in [Rings -> Frames \cup {NoFrame}]
          /\ queue \in [Rings -> Seq(Frames)] /\ app \in Call
      BY OneKind DEF RInit, SlotValues
    <2> QED
      BY <2>2, <2>3, RingsTyped DEF RInit
  <1>3. app.pc = "none"
    BY OneKind DEF RInit
  <1>4. ASSUME NEW r \in Rings PROVE RingOK(r)
    <2>1. /\ shared[r].prod = 0 /\ shared[r].cons = 0 /\ queue[r] = <<>> /\ kernel[r] = NoFrame
          /\ cached[r].prod = 0 /\ (r \in Producing => cached[r].cons = Size)
          /\ (r \notin Producing => cached[r].cons = 0) /\ Held(r) = 0
      BY <1>3 DEF RInit, Held
    <2>2. (0 + 0) % W = 0
      BY OneKind
    <2>3. Size - 0 = Size /\ 0 - 0 = 0 /\ Size \in 0 .. W - 1 /\ 0 \in 0 .. W - 1
      BY <1>1, Sizes
    <2>4. (Size - 0) % W = Size /\ (0 - 0) % W = 0
      BY <2>3, Sizes, Small
    <2>5. r \in Producing => NbFree(cached[r]) = Size
      BY <2>1, <2>4 DEF NbFree
    <2>6. r \in Consuming => NbAvail(cached[r]) = 0
      BY <2>1, <2>4, OneKind DEF NbAvail
    <2>7. Len(queue[r]) = 0
      BY <2>1
    <2> QED
      BY <1>1, <2>1, <2>2, <2>5, <2>6, <2>7, OneKind DEF RingOK, Holds
  <1>5. QED BY <1>2, <1>3, <1>4 DEF XInv, Calls

-----------------------------------------------------------------------------
(* The program's calls.                                                    *)

\* what xsk_prod_nb_free can promise: with the copy as it is, or renewed
LEMMA Room ==
  ASSUME XInv, NEW r \in Producing, app.pc = "none",
         NEW c, c = cached[r] \/ c = [cached[r] EXCEPT !.cons = Refreshed(r)]
  PROVE  /\ c \in Both /\ c.prod = shared[r].prod
         /\ NbFree(c) \in Nat /\ Len(queue[r]) + NbFree(c) <= Size
         /\ c.cons = (c.prod + NbFree(c)) % W
  <1>1. r \in Rings /\ RTypeOK /\ RingOK(r) /\ Held(r) = 0
    BY OneKind DEF XInv, Held
  <1>2. /\ cached[r] \in Both /\ shared[r].prod \in Pos /\ shared[r].cons \in Pos /\ cached[r].prod \in Pos
        /\ Len(queue[r]) \in Nat /\ Size \in Nat /\ W \in Nat /\ Size < W /\ NbFree(cached[r]) \in Nat
    BY <1>1, RingTypes
  <1>3. cached[r].prod = (shared[r].prod + 0) % W /\ Len(queue[r]) + 0 + NbFree(cached[r]) <= Size
        /\ Len(queue[r]) <= Size /\ shared[r].prod = (shared[r].cons + Len(queue[r])) % W
    BY <1>1 DEF RingOK
  <1>4. cached[r].prod = shared[r].prod /\ Len(queue[r]) + NbFree(cached[r]) <= Size
    BY <1>2, <1>3, OneKind
  <1>5. ASSUME c = [cached[r] EXCEPT !.cons = Refreshed(r)]
        PROVE  c \in Both /\ c.prod = shared[r].prod /\ NbFree(c) = Size - Len(queue[r])
    <2>1. Refreshed(r) \in Pos
      BY <1>2, Advance DEF Refreshed
    <2>2. c.prod = shared[r].prod /\ c.cons = Refreshed(r) /\ c \in Both
      BY <1>2, <1>4, <1>5, <2>1, Copies
    <2>3. Size - Len(queue[r]) < W
      BY <1>2, <1>3
    <2>4. (((shared[r].cons + Size) % W) - ((shared[r].cons + Len(queue[r])) % W)) % W = Size - Len(queue[r])
      BY <1>2, <1>3, <2>3, Between
    <2>5. NbFree(c) = (((shared[r].cons + Size) % W) - ((shared[r].cons + Len(queue[r])) % W)) % W
      BY <1>3, <2>2 DEF NbFree, Refreshed
    <2> QED
      BY <2>2, <2>4, <2>5
  <1>6. c \in Both /\ c.prod = shared[r].prod
    BY <1>2, <1>4, <1>5
  <1>7. NbFree(c) \in Nat /\ Len(queue[r]) + NbFree(c) <= Size
    BY <1>2, <1>3, <1>4, <1>5
  <1>8. c.prod \in Pos /\ c.cons \in Pos
    BY <1>6 DEF Both
  <1>9. c.cons = (c.prod + NbFree(c)) % W
    BY <1>8, Distance DEF NbFree
  <1>10. QED BY <1>6, <1>7, <1>9

\* what xsk_cons_nb_avail can promise
LEMMA Available ==
  ASSUME XInv, NEW r \in Consuming, app.pc = "none",
         NEW c, c = cached[r] \/ c = [cached[r] EXCEPT !.prod = shared[r].prod]
  PROVE  /\ c \in Both /\ c.cons = shared[r].cons
         /\ NbAvail(c) \in Nat /\ NbAvail(c) <= Len(queue[r])
         /\ c.prod = (c.cons + NbAvail(c)) % W
  <1>1. r \in Rings /\ RTypeOK /\ RingOK(r) /\ Held(r) = 0
    BY OneKind DEF XInv, Held
  <1>2. /\ cached[r] \in Both /\ shared[r].prod \in Pos /\ shared[r].cons \in Pos /\ cached[r].cons \in Pos
        /\ Len(queue[r]) \in Nat /\ Size \in Nat /\ W \in Nat /\ Size < W /\ NbAvail(cached[r]) \in Nat
    BY <1>1, RingTypes
  <1>3. cached[r].cons = (shared[r].cons + 0) % W /\ 0 + NbAvail(cached[r]) <= Len(queue[r])
        /\ Len(queue[r]) <= Size /\ shared[r].prod = (shared[r].cons + Len(queue[r])) % W
    BY <1>1 DEF RingOK
  <1>4. cached[r].cons = shared[r].cons /\ NbAvail(cached[r]) <= Len(queue[r])
    BY <1>2, <1>3, OneKind
  <1>5. ASSUME c = [cached[r] EXCEPT !.prod = shared[r].prod]
        PROVE  c \in Both /\ c.cons = shared[r].cons /\ NbAvail(c) = Len(queue[r])
    <2>1. c.cons = shared[r].cons /\ c.prod = shared[r].prod /\ c \in Both
      BY <1>2, <1>4, <1>5, Copies
    <2>2. Len(queue[r]) < W
      BY <1>2, <1>3
    <2>3. (((shared[r].cons + Len(queue[r])) % W) - shared[r].cons) % W = Len(queue[r])
      BY <1>2, <2>2, Advance
    <2>4. NbAvail(c) = (((shared[r].cons + Len(queue[r])) % W) - shared[r].cons) % W
      BY <1>3, <2>1 DEF NbAvail
    <2> QED
      BY <2>1, <2>3, <2>4
  <1>6. c \in Both /\ c.cons = shared[r].cons
    BY <1>2, <1>4, <1>5
  <1>7. NbAvail(c) \in Nat /\ NbAvail(c) <= Len(queue[r])
    BY <1>2, <1>3, <1>4, <1>5
  <1>8. c.prod \in Pos /\ c.cons \in Pos
    BY <1>6 DEF Both
  <1>9. c.prod = (c.cons + NbAvail(c)) % W
    BY <1>8, Distance DEF NbAvail
  <1>10. QED BY <1>6, <1>7, <1>9

LEMMA Reserving ==
  ASSUME XInv, NEW r \in Rings, NEW nb \in 1 .. Size, xsk_ring_prod__reserve(r, nb)
  PROVE  XInv'
  <1>. DEFINE c == IF NbFree(cached[r]) >= nb THEN cached[r] ELSE [cached[r] EXCEPT !.cons = Refreshed(r)]
  <1>1. /\ app.pc = "none" /\ r \in Producing
        /\ UNCHANGED <<shared, slots, kernel, mine, theirs, queue>>
        /\ \/ /\ NbFree(c) >= nb
              /\ cached' = [cached EXCEPT ![r] = [c EXCEPT !.prod = (c.prod + nb) % W]]
              /\ app' = [NoCall EXCEPT !.pc = "reserved", !.ring = r, !.idx = c.prod, !.nb = nb]
           \/ cached' = [cached EXCEPT ![r] = c] /\ app' = app
    BY DEF xsk_ring_prod__reserve
  <1>2. /\ c \in Both /\ c.prod = shared[r].prod
        /\ NbFree(c) \in Nat /\ Len(queue[r]) + NbFree(c) <= Size
        /\ c.cons = (c.prod + NbFree(c)) % W
    BY <1>1, Room
  <1>. HIDE DEF c
  <1>3. /\ RTypeOK /\ Calls /\ \A q \in Rings : RingOK(q) /\ Held(q) = 0
    BY <1>1 DEF XInv, Held
  <1>4. /\ Size \in Nat /\ W \in Nat /\ Size < W /\ Len(queue[r]) \in Nat /\ shared[r].prod \in Pos
    BY <1>3, RingTypes
  <1>5. cached \in [Rings -> Both] /\ app \in Call
    BY <1>3, RingsTyped
  <1>6. CASE cached' = [cached EXCEPT ![r] = c] /\ app' = app
    <2>1. cached' \in [Rings -> Both] /\ cached'[r] = c /\ \A q \in Rings : q # r => cached'[q] = cached[q]
      BY <1>2, <1>5, <1>6
    <2>2. RTypeOK'
      BY <1>1, <1>3, <1>6, <2>1, RingsTyped
    <2>3. Calls'
      BY <1>1, <1>3, <1>6 DEF Calls
    <2>4. \A q \in Rings : Held(q)' = 0
      BY <1>1, <1>6 DEF Held
    <2>5. RingOK(r)'
      <3>1. c.prod = (shared[r].prod + 0) % W
        BY <1>2, <1>4, OneKind
      <3>2. Len(queue[r]) + 0 + NbFree(c) <= Size
        BY <1>2, <1>4
      <3>3. ~ (r \in Consuming)
        BY <1>1, OneKind
      <3>4. RingOK(r) /\ Held(r)' = 0
        BY <1>3, <2>4
      <3> QED
        BY <1>1, <2>1, <3>1, <3>2, <3>3, <3>4 DEF RingOK, NbFree
    <2>6. \A q \in Rings : q # r => RingOK(q)'
      BY <1>1, <1>3, <2>1, <2>4, Untouched
    <2> QED
      BY <2>2, <2>3, <2>5, <2>6 DEF XInv
  <1>7. CASE /\ NbFree(c) >= nb
             /\ cached' = [cached EXCEPT ![r] = [c EXCEPT !.prod = (c.prod + nb) % W]]
             /\ app' = [NoCall EXCEPT !.pc = "reserved", !.ring = r, !.idx = c.prod, !.nb = nb]
    <2>1. (c.prod + nb) % W \in Pos /\ c.prod \in Pos /\ nb \in Nat /\ nb \in 0 .. Size
      BY <1>2, <1>4, Advance
    <2>2. /\ app'.pc = "reserved" /\ app'.ring = r /\ app'.idx = c.prod /\ app'.nb = nb
      BY <1>7, OneKind DEF Call
    <2>3. app' \in Call
      <3>1. "reserved" \in Stages
        BY DEF Stages
      <3> QED
        BY <1>7, <2>1, <3>1, NewCall, OneKind
    <2>4. /\ [c EXCEPT !.prod = (c.prod + nb) % W] \in Both
          /\ [c EXCEPT !.prod = (c.prod + nb) % W].prod = (c.prod + nb) % W
          /\ [c EXCEPT !.prod = (c.prod + nb) % W].cons = c.cons
      BY <1>2, <2>1, Copies
    <2>5. /\ cached' \in [Rings -> Both] /\ cached'[r].prod = (c.prod + nb) % W /\ cached'[r].cons = c.cons
          /\ \A q \in Rings : q # r => cached'[q] = cached[q]
      BY <1>5, <1>7, <2>4
    <2>6. RTypeOK'
      BY <1>1, <1>3, <2>3, <2>5, RingsTyped
    <2>7. Calls'
      BY <1>1, <1>2, <2>2 DEF Calls
    <2>8. Held(r)' = nb /\ \A q \in Rings : q # r => Held(q)' = 0
      BY <2>2 DEF Held
    <2>9. NbFree(cached'[r]) = NbFree(c) - nb
      <3>1. nb <= NbFree(c) /\ NbFree(c) - nb < W
        BY <1>2, <1>4, <1>7, <2>1
      <3>2. (((c.prod + NbFree(c)) % W) - ((c.prod + nb) % W)) % W = NbFree(c) - nb
        BY <1>2, <2>1, <3>1, Between
      <3>3. NbFree(cached'[r]) = (((c.prod + NbFree(c)) % W) - ((c.prod + nb) % W)) % W
        BY <1>2, <2>5 DEF NbFree
      <3> QED
        BY <3>2, <3>3
    <2>10. RingOK(r)'
      <3>1. Len(queue[r]) + nb + NbFree(cached'[r]) <= Size
        BY <1>2, <1>4, <2>1, <2>9
      <3>2. cached'[r].prod = (shared[r].prod + nb) % W
        BY <1>2, <2>5
      <3>3. ~ (r \in Consuming) /\ RingOK(r)
        BY <1>1, <1>3, OneKind
      <3> QED
        BY <1>1, <2>8, <3>1, <3>2, <3>3 DEF RingOK, NbFree
    <2>11. \A q \in Rings : q # r => RingOK(q)'
      BY <1>1, <1>3, <2>5, <2>8, Untouched
    <2> QED
      BY <2>6, <2>7, <2>10, <2>11 DEF XInv
  <1>8. QED BY <1>1, <1>6, <1>7

LEMMA Writing ==
  ASSUME XInv, Write
  PROVE  XInv'
  <1>0. PICK r \in Rings : r = app.ring
    BY CallTypes DEF Write
  <1>. DEFINE at(i) == Slot(app.idx + i - 1)
  <1>1. PICK f \in [1 .. app.nb -> mine] :
          /\ slots' = [slots EXCEPT ![app.ring] =
               [k \in DOMAIN slots[app.ring] |->
                  IF \E i \in 1 .. app.nb : at(i) = k
                  THEN f[CHOOSE i \in 1 .. app.nb : at(i) = k] ELSE slots[app.ring][k]]]
          /\ app' = [app EXCEPT !.pc = "written", !.read = [i \in 1 .. app.nb |-> f[i]]]
    BY DEF Write
  <1>2. app.pc = "reserved" /\ UNCHANGED <<shared, cached, kernel, mine, theirs, queue>>
    BY DEF Write
  <1>3. /\ RTypeOK /\ Calls /\ \A q \in Rings : RingOK(q)
        /\ r \in Producing /\ app.idx = shared[r].prod /\ r \notin Consuming
    BY <1>0, <1>2, OneKind DEF XInv, Calls
  <1>4. r \in Rings /\ app.nb \in Nat /\ Held(r) = app.nb
    BY <1>0, <1>2, CallTypes
  <1>. HIDE DEF at
  <1>5. /\ Size \in Nat /\ Len(queue[r]) \in Nat /\ shared[r].cons \in Pos /\ NbFree(cached[r]) \in Nat
        /\ slots \in [Rings -> SlotValues] /\ slots[r] \in SlotValues /\ app \in Call /\ mine \subseteq Frames
    BY <1>3, <1>4, RingTypes, RingsTyped
  <1>6. /\ Len(queue[r]) + app.nb <= Size /\ app.idx = (shared[r].cons + Len(queue[r])) % W
        /\ Holds(slots[r], shared[r].cons, queue[r])
    BY <1>3, <1>4, <1>5 DEF RingOK
  \* what is written is behind what was submitted
  <1>7. ASSUME NEW i \in 1 .. app.nb
        PROVE  /\ at(i) = Slot(shared[r].cons + (Len(queue[r]) + (i - 1))) /\ at(i) \in 0 .. Size - 1
               /\ \A h \in 1 .. Len(queue[r]) : Slot(shared[r].cons + h - 1) # at(i)
    <2>1. i \in Nat /\ i >= 1 /\ Len(queue[r]) + i <= Size
      BY <1>4, <1>5, <1>6
    <2>2. /\ at(i) = Slot(shared[r].cons + (Len(queue[r]) + (i - 1))) /\ at(i) \in 0 .. Size - 1
      <3>1. /\ Slot(((shared[r].cons + Len(queue[r])) % W) + i - 1) = Slot(shared[r].cons + (Len(queue[r]) + i) - 1)
            /\ Slot(shared[r].cons + (Len(queue[r]) + i) - 1) = Slot(shared[r].cons + (Len(queue[r]) + (i - 1)))
            /\ Slot(shared[r].cons + (Len(queue[r]) + (i - 1))) \in 0 .. Size - 1
        BY <1>5, <2>1, Behind
      <3> QED
        BY <1>6, <3>1 DEF at
    <2>3. \A h \in 1 .. Len(queue[r]) : Slot(shared[r].cons + h - 1) # at(i)
      BY <1>5, <1>6, <2>1, NotAmong DEF at
    <2> QED
      BY <2>2, <2>3
  <1>8. ASSUME NEW i \in 1 .. app.nb, NEW j \in 1 .. app.nb, at(i) = at(j)
        PROVE  i = j
    <2>1. /\ Len(queue[r]) + (i - 1) \in Nat /\ Len(queue[r]) + (j - 1) \in Nat
          /\ Len(queue[r]) + (i - 1) < Size /\ Len(queue[r]) + (j - 1) < Size
      BY <1>4, <1>5, <1>6
    <2>2. Len(queue[r]) + (i - 1) = Len(queue[r]) + (j - 1)
      BY <1>5, <1>7, <1>8, <2>1, SlotsDiffer
    <2> QED
      BY <1>5, <2>2
  <1>9. ASSUME NEW h \in 1 .. Len(queue[r])
        PROVE  Slot(shared[r].cons + h - 1) \in 0 .. Size - 1
    <2>1. h - 1 \in Nat /\ shared[r].cons + h - 1 = shared[r].cons + (h - 1)
      BY <1>5 DEF Pos
    <2>2. Slot(shared[r].cons + (h - 1)) \in 0 .. Size - 1
      BY <1>5, <2>1, SlotAt
    <2> QED
      BY <2>1, <2>2
  <1>. DEFINE new == [k \in 0 .. Size - 1 |->
                       IF \E i \in 1 .. app.nb : at(i) = k
                       THEN f[CHOOSE i \in 1 .. app.nb : at(i) = k] ELSE slots[r][k]]
  <1>10. slots' = [slots EXCEPT ![r] = new]
    <2>1. DOMAIN slots[r] = 0 .. Size - 1
      BY <1>5 DEF SlotValues
    <2> QED
      BY <1>0, <1>1, <2>1
  <1>11. ASSUME NEW i \in 1 .. app.nb PROVE new[at(i)] = f[i]
    <2>1. (CHOOSE j \in 1 .. app.nb : at(j) = at(i)) = i
      BY <1>8
    <2> QED
      BY <1>7, <2>1
  <1>12. ASSUME NEW h \in 1 .. Len(queue[r])
         PROVE  new[Slot(shared[r].cons + h - 1)] = slots[r][Slot(shared[r].cons + h - 1)]
    <2>1. ~ \E i \in 1 .. app.nb : at(i) = Slot(shared[r].cons + h - 1)
      BY <1>7
    <2> QED
      BY <1>9, <2>1
  <1>13. ASSUME NEW k \in 0 .. Size - 1 PROVE new[k] \in Frames \cup {NoFrame}
    <2>1. CASE \E i \in 1 .. app.nb : at(i) = k
      <3>1. (CHOOSE i \in 1 .. app.nb : at(i) = k) \in 1 .. app.nb
        BY <2>1
      <3> QED
        BY <1>5, <2>1, <3>1
    <2>2. CASE ~ \E i \in 1 .. app.nb : at(i) = k
      BY <1>5, <2>2 DEF SlotValues
    <2> QED
      BY <2>1, <2>2
  <1>14. new \in SlotValues
    BY <1>13 DEF SlotValues
  <1>. HIDE DEF new
  <1>15. slots' \in [Rings -> SlotValues] /\ slots'[r] = new /\ \A q \in Rings : q # r => slots'[q] = slots[q]
    BY <1>4, <1>5, <1>10, <1>14
  <1>. DEFINE s == [i \in 1 .. app.nb |-> f[i]]
  <1>16. s \in Seq(Frames) /\ Len(s) = app.nb /\ \A i \in 1 .. app.nb : s[i] = f[i]
    <2>1. \A i \in 1 .. app.nb : f[i] \in Frames
      BY <1>5
    <2> QED
      BY <1>4, <2>1
  <1>. HIDE DEF s
  <1>17. app' = [app EXCEPT !.pc = "written", !.read = s]
    BY <1>1 DEF s
  <1>18. /\ app' \in Call /\ app'.pc = "written" /\ app'.ring = r /\ app'.idx = app.idx /\ app'.nb = app.nb
         /\ app'.read = s
    <2>1. "written" \in Stages
      BY DEF Stages
    <2>2. app' \in Call
      BY <1>5, <1>16, <1>17, <2>1, NextCall
    <2> QED
      BY <1>0, <1>5, <1>17, <2>2 DEF Call
  <1>19. RTypeOK'
    BY <1>2, <1>3, <1>15, <1>18, RingsTyped
  <1>20. Calls'
    <2>1. \A i \in 1 .. app'.nb : slots'[app'.ring][Slot(app'.idx + i - 1)] = app'.read[i]
      BY <1>11, <1>15, <1>16, <1>18 DEF at
    <2>2. Len(app'.read) = app'.nb /\ app'.ring \in Producing /\ app'.idx = shared'[app'.ring].prod
      BY <1>2, <1>3, <1>16, <1>18
    <2> QED
      BY <1>18, <2>1, <2>2 DEF Calls
  <1>21. \A q \in Rings : Held(q)' = Held(q)
    BY <1>0, <1>2, <1>18 DEF Held
  <1>22. RingOK(r)'
    <2>1. Holds(new, shared[r].cons, queue[r])
      BY <1>6, <1>12 DEF Holds
    <2> QED
      BY <1>2, <1>3, <1>4, <1>15, <1>21, <2>1 DEF RingOK, NbFree
  <1>23. \A q \in Rings : q # r => RingOK(q)'
    BY <1>2, <1>3, <1>15, <1>21, Untouched
  <1>24. QED BY <1>19, <1>20, <1>22, <1>23 DEF XInv

\* the call is over: of no ring is anything held
LEMMA CallOver ==
  ASSUME app' = NoCall
  PROVE  Calls' /\ app' \in Call /\ \A q \in Rings : Held(q)' = 0
  BY OneKind DEF Calls, Held

LEMMA Submitting ==
  ASSUME XInv, xsk_ring_prod__submit
  PROVE  XInv'
  <1>0. PICK r \in Rings : r = app.ring
    BY CallTypes DEF xsk_ring_prod__submit
  <1>a. PICK n \in Nat : n = app.nb
    BY CallTypes DEF xsk_ring_prod__submit
  <1>1. /\ app.pc = "written" /\ app' = NoCall /\ UNCHANGED <<slots, cached, kernel, theirs>>
        /\ shared' = [shared EXCEPT ![r].prod = (shared[r].prod + n) % W]
        /\ queue' = [queue EXCEPT ![r] = queue[r] \o app.read]
        /\ mine' = mine \ Ran(app.read)
    BY <1>0, <1>a DEF xsk_ring_prod__submit, Submitted
  <1>2. /\ RTypeOK /\ \A q \in Rings : RingOK(q)
        /\ r \in Producing /\ app.idx = shared[r].prod /\ r \notin Consuming
        /\ Len(app.read) = n /\ \A i \in 1 .. n : slots[r][Slot(app.idx + i - 1)] = app.read[i]
    BY <1>0, <1>a, <1>1, OneKind DEF XInv, Calls
  <1>3. r \in Rings /\ n \in Nat /\ Held(r) = n /\ app.read \in Seq(Frames)
          /\ \A q \in Rings : q # r => Held(q) = 0
    BY <1>0, <1>a, <1>1, CallTypes
  <1>4. /\ Size \in Nat /\ Len(queue[r]) \in Nat /\ shared[r].cons \in Pos /\ NbFree(cached[r]) \in Nat
        /\ shared[r].prod \in Pos /\ queue[r] \in Seq(Frames)
        /\ shared \in [Rings -> Both] /\ queue \in [Rings -> Seq(Frames)] /\ mine \subseteq Frames
    BY <1>2, <1>3, RingTypes, RingsTyped
  <1>5. /\ Len(queue[r]) + n + NbFree(cached[r]) <= Size
             /\ shared[r].prod = (shared[r].cons + Len(queue[r])) % W
        /\ Holds(slots[r], shared[r].cons, queue[r]) /\ cached[r].prod = (shared[r].prod + n) % W
    BY <1>2, <1>3 DEF RingOK
  <1>. DEFINE p == queue[r] \o app.read
  <1>6. /\ p \in Seq(Frames) /\ Len(p) = Len(queue[r]) + n
        /\ \A i \in 1 .. Len(queue[r]) : p[i] = queue[r][i]
        /\ \A i \in 1 .. n : p[Len(queue[r]) + i] = app.read[i]
    <2>1. /\ p \in Seq(Frames) /\ Len(p) = Len(queue[r]) + Len(app.read)
      BY <1>3, <1>4
    <2>2. \A i \in 1 .. Len(queue[r]) : p[i] = queue[r][i]
      BY <1>3, <1>4
    <2>3. \A i \in 1 .. Len(app.read) : p[Len(queue[r]) + i] = app.read[i]
      BY <1>3, <1>4
    <2> QED
      BY <1>2, <2>1, <2>2, <2>3
  <1>7. queue' = [queue EXCEPT ![r] = p]
    BY <1>1
  <1>. HIDE DEF p
  <1>8. Holds(slots[r], shared[r].cons, p) /\ (shared[r].prod + n) % W = (shared[r].cons + Len(p)) % W
    <2>1. \A i \in 1 .. n : slots[r][Slot(shared[r].prod + i - 1)] = p[Len(queue[r]) + i]
      BY <1>2, <1>6
    <2> QED
      <3>1. More(slots[r], shared[r].prod, p, queue[r], n)
        BY <1>6, <2>1 DEF More
      <3> QED
        BY <1>4, <1>5, <1>6, <3>1, PutOn
  <1>9. PICK x \in Pos : x = (shared[r].prod + n) % W
    BY <1>3, <1>4, Advance
  <1>10. /\ shared' \in [Rings -> Both] /\ shared'[r].prod = x
         /\ shared'[r].cons = shared[r].cons /\ \A q \in Rings : q # r => shared'[q] = shared[q]
    <2>1. shared' = [shared EXCEPT ![r] = [shared[r] EXCEPT !.prod = x]]
      BY <1>1, <1>9
    <2>2. /\ [shared[r] EXCEPT !.prod = x] \in Both /\ [shared[r] EXCEPT !.prod = x].prod = x
          /\ [shared[r] EXCEPT !.prod = x].cons = shared[r].cons
      BY <1>4, Copies
    <2> QED
      BY <1>4, <2>1, <2>2
  <1>11. queue' \in [Rings -> Seq(Frames)] /\ queue'[r] = p /\ \A q \in Rings : q # r => queue'[q] = queue[q]
    BY <1>3, <1>4, <1>6, <1>7
  <1>12. Calls' /\ app' \in Call /\ \A q \in Rings : Held(q)' = 0
    BY <1>1, CallOver
  <1>13. RTypeOK'
    BY <1>1, <1>2, <1>4, <1>10, <1>11, <1>12, RingsTyped
  <1>14. RingOK(r)'
    <2>1. Len(p) <= Size /\ Len(p) + 0 + NbFree(cached[r]) <= Size /\ (Len(queue[r]) >= 1 => Len(p) >= 1)
      BY <1>3, <1>4, <1>5, <1>6
    <2>2. cached[r].prod = (x + 0) % W
      BY <1>5, <1>9, OneKind
    <2>3. kernel[r] # NoFrame => Len(p) >= 1
      BY <1>2, <1>3, <2>1 DEF RingOK
    <2>4. Held(r)' = 0
      BY <1>3, <1>12
    <2> QED
      BY <1>1, <1>2, <1>8, <1>9, <1>10, <1>11, <2>1, <2>2, <2>3, <2>4 DEF RingOK, NbFree
  <1>15. \A q \in Rings : q # r => RingOK(q)'
    BY <1>1, <1>2, <1>3, <1>10, <1>11, <1>12, Untouched
  <1>16. QED BY <1>12, <1>13, <1>14, <1>15 DEF XInv

LEMMA Peeking ==
  ASSUME XInv, NEW r \in Rings, NEW nb \in 1 .. Size, xsk_ring_cons__peek(r, nb)
  PROVE  XInv'
  <1>. DEFINE c == IF NbAvail(cached[r]) = 0 THEN [cached[r] EXCEPT !.prod = shared[r].prod] ELSE cached[r]
  <1>. DEFINE m == IF NbAvail(c) > nb THEN nb ELSE NbAvail(c)
  <1>1. /\ app.pc = "none" /\ r \in Consuming
        /\ UNCHANGED <<shared, slots, kernel, mine, theirs, queue>>
        /\ cached' = [cached EXCEPT ![r] = [c EXCEPT !.cons = (c.cons + m) % W]]
        /\ app' = IF m = 0 THEN NoCall
                  ELSE [NoCall EXCEPT !.pc = "peeked", !.ring = r, !.idx = c.cons, !.nb = m]
    BY DEF xsk_ring_cons__peek
  <1>2. /\ c \in Both /\ c.cons = shared[r].cons
        /\ NbAvail(c) \in Nat /\ NbAvail(c) <= Len(queue[r])
        /\ c.prod = (c.cons + NbAvail(c)) % W
    <2>1. c = cached[r] \/ c = [cached[r] EXCEPT !.prod = shared[r].prod]
      OBVIOUS
    <2>2. app.pc = "none" /\ r \in Consuming
      BY <1>1
    <2>. HIDE DEF c
    <2> QED
      BY <2>1, <2>2, Available
  <1>. HIDE DEF c
  <1>3. /\ RTypeOK /\ Calls /\ \A q \in Rings : RingOK(q) /\ Held(q) = 0
    BY <1>1 DEF XInv, Held
  <1>4. /\ Size \in Nat /\ W \in Nat /\ Size < W /\ Len(queue[r]) \in Nat /\ shared[r].cons \in Pos
        /\ Len(queue[r]) <= Size
    BY <1>3, RingTypes DEF RingOK
  <1>5. cached \in [Rings -> Both] /\ app \in Call
    BY <1>3, RingsTyped
  <1>6. PICK n \in Nat :
          /\ n <= NbAvail(c)
          /\ cached' = [cached EXCEPT ![r] = [c EXCEPT !.cons = (c.cons + n) % W]]
          /\ app' = IF n = 0 THEN NoCall
                    ELSE [NoCall EXCEPT !.pc = "peeked", !.ring = r, !.idx = c.cons, !.nb = n]
    <2>1. m \in Nat /\ m <= NbAvail(c)
      BY <1>2
    <2>. HIDE DEF m
    <2> QED
      BY <1>1, <2>1
  <1>. HIDE DEF m
  <1>7. (c.cons + n) % W \in Pos /\ c.cons \in Pos /\ n \in 0 .. Size
    <2>1. c.cons \in Pos /\ n <= Size
      BY <1>2, <1>4, <1>6
    <2> QED
      BY <1>4, <2>1, Advance
  <1>8. /\ [c EXCEPT !.cons = (c.cons + n) % W] \in Both
        /\ [c EXCEPT !.cons = (c.cons + n) % W].cons = (c.cons + n) % W
        /\ [c EXCEPT !.cons = (c.cons + n) % W].prod = c.prod
    BY <1>2, <1>7, Copies
  <1>9. /\ cached' \in [Rings -> Both] /\ cached'[r].cons = (c.cons + n) % W /\ cached'[r].prod = c.prod
        /\ \A q \in Rings : q # r => cached'[q] = cached[q]
    BY <1>5, <1>6, <1>8
  <1>10. app' \in Call /\ Calls' /\ Held(r)' = n /\ \A q \in Rings : q # r => Held(q)' = 0
    <2>1. CASE n = 0
      BY <1>6, <2>1, CallOver
    <2>2. CASE n # 0
      <3>1. app' = [NoCall EXCEPT !.pc = "peeked", !.ring = r, !.idx = c.cons, !.nb = n]
        BY <1>6, <2>2
      <3>2. app'.pc = "peeked" /\ app'.ring = r /\ app'.idx = c.cons /\ app'.nb = n
        BY <3>1, OneKind DEF Call
      <3>3. "peeked" \in Stages
        BY DEF Stages
      <3>4. app' \in Call
        BY <1>7, <3>1, <3>3, NewCall, OneKind
      <3>5. Calls'
        BY <1>1, <1>2, <3>2 DEF Calls
      <3>6. Held(r)' = n /\ \A q \in Rings : q # r => Held(q)' = 0
        BY <3>2 DEF Held
      <3> QED
        BY <3>4, <3>5, <3>6
    <2> QED
      BY <2>1, <2>2
  <1>11. RTypeOK'
    BY <1>1, <1>3, <1>9, <1>10, RingsTyped
  <1>12. NbAvail(cached'[r]) = NbAvail(c) - n
    <2>1. NbAvail(c) - n < W
      BY <1>2, <1>4, <1>6
    <2>2. (((c.cons + NbAvail(c)) % W) - ((c.cons + n) % W)) % W = NbAvail(c) - n
      BY <1>2, <1>6, <1>7, <2>1, Between
    <2>3. NbAvail(cached'[r]) = (((c.cons + NbAvail(c)) % W) - ((c.cons + n) % W)) % W
      BY <1>2, <1>9 DEF NbAvail
    <2> QED
      BY <2>2, <2>3
  <1>13. RingOK(r)'
    <2>1. n + NbAvail(cached'[r]) <= Len(queue[r])
      BY <1>2, <1>4, <1>6, <1>12
    <2>2. cached'[r].cons = (shared[r].cons + n) % W
      BY <1>2, <1>9
    <2>3. r \notin Producing /\ RingOK(r)
      BY <1>1, <1>3, OneKind
    <2> QED
      BY <1>1, <1>10, <2>1, <2>2, <2>3 DEF RingOK, NbAvail
  <1>14. \A q \in Rings : q # r => RingOK(q)'
    BY <1>1, <1>3, <1>9, <1>10, Untouched
  <1>15. QED BY <1>10, <1>11, <1>13, <1>14 DEF XInv

LEMMA Reading ==
  ASSUME XInv, Read
  PROVE  XInv'
  <1>1. PICK r \in Rings : r = app.ring
    BY CallTypes DEF Read
  <1>2. PICK n \in Nat : n = app.nb
    BY CallTypes DEF Read
  <1>. DEFINE s == [i \in 1 .. n |-> slots[r][Slot(app.idx + i - 1)]]
  <1>3. /\ app.pc = "peeked" /\ UNCHANGED <<shared, slots, cached, kernel, mine, theirs, queue>>
        /\ app' = [app EXCEPT !.pc = "read", !.read = s]
    BY <1>1, <1>2 DEF Read
  <1>4. /\ RTypeOK /\ \A q \in Rings : RingOK(q)
        /\ r \in Consuming /\ app.idx = shared[r].cons /\ app \in Call
    BY <1>1, <1>3, RingsTyped DEF XInv, Calls
  <1>5. Held(r) = n
    BY <1>1, <1>2, <1>3, CallTypes
  <1>6. Len(queue[r]) \in Nat /\ queue[r] \in Seq(Frames) /\ NbAvail(cached[r]) \in Nat
    BY <1>4, RingTypes
  <1>7. n <= Len(queue[r]) /\ Holds(slots[r], app.idx, queue[r])
    BY <1>4, <1>5, <1>6 DEF RingOK
  <1>a. \A i \in 1 .. n : slots[r][Slot(app.idx + i - 1)] = queue[r][i] /\ queue[r][i] \in Frames
    <2> TAKE i \in 1 .. n
    <2>1. i \in 1 .. Len(queue[r])
      BY <1>6, <1>7
    <2> QED
      BY <1>6, <1>7, <2>1 DEF Holds
  <1>8. \A i \in 1 .. n : s[i] = queue[r][i]
    BY <1>a
  <1>9. s \in Seq(Frames) /\ Len(s) = n
    <2>1. \A i \in 1 .. n : slots[r][Slot(app.idx + i - 1)] \in Frames
      BY <1>a
    <2> QED
      BY <2>1
  <1>. HIDE DEF s
  <1>10. app' \in Call /\ app'.pc = "read" /\ app'.ring = r /\ app'.idx = app.idx /\ app'.nb = n
           /\ app'.read = s
    <2>1. "read" \in Stages
      BY DEF Stages
    <2>2. app' \in Call
      BY <1>3, <1>4, <1>9, <2>1, NextCall
    <2> QED
      BY <1>1, <1>2, <1>3, <1>4, <2>2 DEF Call
  <1>11. RTypeOK'
    BY <1>3, <1>4, <1>10, RingsTyped
  <1>12. Calls'
    BY <1>3, <1>4, <1>8, <1>9, <1>10 DEF Calls
  <1>13. \A q \in Rings : Held(q)' = Held(q)
    BY <1>1, <1>2, <1>3, <1>10 DEF Held
  <1>14. \A q \in Rings : RingOK(q)'
    BY <1>3, <1>4, <1>13, Untouched
  <1>15. QED BY <1>11, <1>12, <1>14 DEF XInv

LEMMA Releasing ==
  ASSUME XInv, xsk_ring_cons__release
  PROVE  XInv'
  <1>1. PICK r \in Rings : r = app.ring
    BY CallTypes DEF xsk_ring_cons__release
  <1>2. PICK n \in Nat : n = app.nb
    BY CallTypes DEF xsk_ring_cons__release
  <1>3. /\ app.pc = "read" /\ app' = NoCall /\ UNCHANGED <<slots, cached, kernel, theirs>>
        /\ shared' = [shared EXCEPT ![r] = [shared[r] EXCEPT !.cons = (shared[r].cons + n) % W]]
        /\ queue' = [queue EXCEPT ![r] = SubSeq(queue[r], n + 1, Len(queue[r]))]
        /\ mine' = mine \cup Ran(app.read)
    BY <1>1, <1>2 DEF xsk_ring_cons__release, Submitted
  <1>4. /\ RTypeOK /\ \A q \in Rings : RingOK(q)
        /\ r \in Consuming /\ r \notin Producing
    BY <1>1, <1>3, OneKind DEF XInv, Calls
  <1>5. Held(r) = n /\ app.read \in Seq(Frames) /\ \A q \in Rings : q # r => Held(q) = 0
    BY <1>1, <1>2, <1>3, CallTypes
  <1>6. /\ Size \in Nat /\ Len(queue[r]) \in Nat /\ shared[r].cons \in Pos /\ NbAvail(cached[r]) \in Nat
        /\ shared[r] \in Both /\ queue[r] \in Seq(Frames)
        /\ shared \in [Rings -> Both] /\ queue \in [Rings -> Seq(Frames)] /\ mine \subseteq Frames
    BY <1>4, RingTypes, RingsTyped
  <1>7. /\ Len(queue[r]) <= Size /\ n + NbAvail(cached[r]) <= Len(queue[r])
        /\ shared[r].prod = (shared[r].cons + Len(queue[r])) % W
        /\ Holds(slots[r], shared[r].cons, queue[r]) /\ cached[r].cons = (shared[r].cons + n) % W
    BY <1>4, <1>5 DEF RingOK
  <1>. DEFINE p == SubSeq(queue[r], n + 1, Len(queue[r]))
  <1>8. p \in Seq(Frames) /\ Rest(p, queue[r], n)
    <2>1. n <= Len(queue[r])
      BY <1>6, <1>7
    <2>2. p \in Seq(Frames) /\ Len(p) = Len(queue[r]) - n
            /\ \A i \in 1 .. Len(queue[r]) - n : p[i] = queue[r][n + i]
      BY <1>6, <2>1
    <2> QED
      <3>1. Len(queue[r]) = n + Len(p) /\ Len(queue[r]) - n = Len(p)
        BY <1>6, <2>1, <2>2
      <3>2. \A i \in 1 .. Len(p) : p[i] = queue[r][n + i]
        BY <2>2, <3>1
      <3>. HIDE DEF p
      <3> QED
        BY <2>2, <3>1, <3>2 DEF Rest
  <1>9. queue' = [queue EXCEPT ![r] = p]
    BY <1>3
  <1>. HIDE DEF p
  <1>10. PICK x \in Pos : x = (shared[r].cons + n) % W
    BY <1>6, Advance
  <1>11. Holds(slots[r], x, p) /\ (x + Len(p)) % W = shared[r].prod
    <2>1. Holds(slots[r], x, p) /\ (x + Len(p)) % W = (shared[r].cons + Len(queue[r])) % W
      <3>1. Moved(shared[r].cons, x, n)
        BY <1>10 DEF Moved
      <3> QED
        BY <1>6, <1>7, <1>8, <3>1, TakenOff
    <2> QED
      BY <1>7, <2>1
  <1>12. /\ shared' \in [Rings -> Both] /\ shared'[r].cons = x
         /\ shared'[r].prod = shared[r].prod /\ \A q \in Rings : q # r => shared'[q] = shared[q]
    <2>1. shared' = [shared EXCEPT ![r] = [shared[r] EXCEPT !.cons = x]]
      BY <1>3, <1>10
    <2>2. /\ [shared[r] EXCEPT !.cons = x] \in Both /\ [shared[r] EXCEPT !.cons = x].cons = x
          /\ [shared[r] EXCEPT !.cons = x].prod = shared[r].prod
      BY <1>6, Copies
    <2> QED
      BY <1>6, <2>1, <2>2
  <1>13. queue' \in [Rings -> Seq(Frames)] /\ queue'[r] = p /\ \A q \in Rings : q # r => queue'[q] = queue[q]
    BY <1>6, <1>8, <1>9
  <1>14. Calls' /\ app' \in Call /\ \A q \in Rings : Held(q)' = 0
    BY <1>3, CallOver
  <1>15. RTypeOK'
    <2>1. mine' \subseteq Frames
      BY <1>3, <1>5, <1>6 DEF Ran
    <2> QED
      BY <1>3, <1>4, <1>12, <1>13, <1>14, <2>1, RingsTyped
  <1>16. RingOK(r)'
    <2>1. Len(queue[r]) = n + Len(p) /\ Len(p) \in Nat
      BY <1>8 DEF Rest
    <2>2. Len(p) <= Size /\ 0 + NbAvail(cached[r]) <= Len(p) /\ (Len(queue[r]) < Size => Len(p) < Size)
      BY <1>6, <1>7, <2>1
    <2>3. cached[r].cons = (x + 0) % W
      BY <1>7, <1>10, OneKind
    <2>4. kernel[r] # NoFrame => Len(p) < Size /\ slots[r][Slot(shared[r].prod)] = kernel[r]
      BY <1>4, <2>2 DEF RingOK
    <2>5. Held(r)' = 0
      BY <1>14
    <2> QED
      BY <1>3, <1>4, <1>11, <1>12, <1>13, <2>2, <2>3, <2>4, <2>5 DEF RingOK, NbAvail
  <1>17. \A q \in Rings : q # r => RingOK(q)'
    BY <1>3, <1>4, <1>5, <1>12, <1>13, <1>14, Untouched
  <1>18. QED BY <1>14, <1>15, <1>16, <1>17 DEF XInv

-----------------------------------------------------------------------------
(* The kernel's steps: no ring's place in the program's call changes.      *)
LEMMA CallStays ==
  ASSUME app' = app
  PROVE  \A q \in Rings : Held(q)' = Held(q)
  BY DEF Held

LEMMA Fetching ==
  ASSUME XInv, NEW r \in Rings, Fetch(r)
  PROVE  XInv'
  <1>1. /\ r \in Producing /\ r \notin Consuming /\ shared[r].prod # shared[r].cons
        /\ kernel' = [kernel EXCEPT ![r] = slots[r][Slot(shared[r].cons)]]
        /\ UNCHANGED <<shared, slots, cached, app, mine, theirs, queue>>
    BY OneKind DEF Fetch
  <1>2. RTypeOK /\ Calls /\ \A q \in Rings : RingOK(q)
    BY DEF XInv
  <1>3. /\ Len(queue[r]) \in Nat /\ shared[r].cons \in Pos /\ queue[r] \in Seq(Frames)
        /\ kernel \in [Rings -> Frames \cup {NoFrame}]
    BY <1>2, RingTypes, RingsTyped
  <1>4. Len(queue[r]) >= 1
    <2>1. shared[r].prod = (shared[r].cons + Len(queue[r])) % W
      BY <1>2 DEF RingOK
    <2>2. Len(queue[r]) # 0
      BY <1>1, <1>3, <2>1, OneKind
    <2> QED
      BY <1>3, <2>2
  <1>5. slots[r][Slot(shared[r].cons)] \in Frames
    <2>1. Holds(slots[r], shared[r].cons, queue[r]) /\ 1 \in 1 .. Len(queue[r])
      BY <1>2, <1>3, <1>4 DEF RingOK
    <2>2. slots[r][Slot(shared[r].cons + 1 - 1)] = queue[r][1]
      BY <2>1 DEF Holds
    <2>3. shared[r].cons + 1 - 1 = shared[r].cons
      BY <1>3 DEF Pos
    <2> QED
      BY <1>3, <2>1, <2>2, <2>3
  <1>6. /\ kernel' \in [Rings -> Frames \cup {NoFrame}]
        /\ \A q \in Rings : q # r => kernel'[q] = kernel[q]
    BY <1>1, <1>3, <1>5
  <1>7. RTypeOK' /\ Calls'
    <2>1. RTypeOK'
      BY <1>1, <1>2, <1>6, RingsTyped
    <2> QED
      BY <1>1, <1>2, <2>1 DEF Calls
  <1>8. \A q \in Rings : Held(q)' = Held(q)
    BY <1>1, CallStays
  <1>9. RingOK(r)'
    BY <1>1, <1>2, <1>4, <1>8 DEF RingOK, NbFree
  <1>10. \A q \in Rings : q # r => RingOK(q)'
    BY <1>1, <1>2, <1>6, <1>8, Untouched
  <1>11. QED BY <1>7, <1>9, <1>10 DEF XInv

LEMMA Taking ==
  ASSUME XInv, NEW r \in Rings, Fetched(r)
  PROVE  XInv'
  <1>1. /\ r \in Producing /\ r \notin Consuming /\ kernel[r] # NoFrame
        /\ UNCHANGED <<slots, cached, app, mine>>
        /\ shared' = [shared EXCEPT ![r] = [shared[r] EXCEPT !.cons = (shared[r].cons + 1) % W]]
        /\ queue' = [queue EXCEPT ![r] = Tail(queue[r])]
        /\ theirs' = theirs \cup {kernel[r]} /\ kernel' = [kernel EXCEPT ![r] = NoFrame]
    BY OneKind DEF Fetched
  <1>2. RTypeOK /\ Calls /\ \A q \in Rings : RingOK(q)
    BY DEF XInv
  <1>3. /\ Size \in Nat /\ Len(queue[r]) \in Nat /\ shared[r].cons \in Pos /\ queue[r] \in Seq(Frames)
        /\ shared[r] \in Both /\ NbFree(cached[r]) \in Nat /\ Held(r) \in Nat /\ kernel[r] \in Frames
        /\ shared \in [Rings -> Both] /\ queue \in [Rings -> Seq(Frames)] /\ theirs \subseteq Frames
        /\ kernel \in [Rings -> Frames \cup {NoFrame}]
    BY <1>1, <1>2, RingTypes, RingsTyped
  <1>4. /\ Len(queue[r]) <= Size /\ Len(queue[r]) >= 1 /\ cached[r].prod = (shared[r].prod + Held(r)) % W
        /\ Len(queue[r]) + Held(r) + NbFree(cached[r]) <= Size
        /\ shared[r].prod = (shared[r].cons + Len(queue[r])) % W
        /\ Holds(slots[r], shared[r].cons, queue[r])
    BY <1>1, <1>2 DEF RingOK
  <1>5. PICK p \in Seq(Frames) : p = Tail(queue[r]) /\ Len(queue[r]) = 1 + Len(p)
                                 /\ \A i \in 1 .. Len(p) : p[i] = queue[r][1 + i]
    <2>1. queue[r] # <<>>
      BY <1>4
    <2>2. Tail(queue[r]) \in Seq(Frames) /\ Len(queue[r]) = 1 + Len(Tail(queue[r]))
      BY <1>3, <2>1
    <2>3. \A i \in 1 .. Len(Tail(queue[r])) : Tail(queue[r])[i] = queue[r][1 + i]
      BY <1>3, <2>1
    <2> QED
      BY <2>2, <2>3
  <1>6. PICK x \in Pos : x = (shared[r].cons + 1) % W
    BY <1>3, Advance
  <1>7. Holds(slots[r], x, p) /\ (x + Len(p)) % W = shared[r].prod
    <2>1. Moved(shared[r].cons, x, 1) /\ Rest(p, queue[r], 1) /\ 1 \in Nat
      BY <1>5, <1>6 DEF Moved, Rest
    <2>2. Holds(slots[r], x, p) /\ (x + Len(p)) % W = (shared[r].cons + Len(queue[r])) % W
      BY <1>3, <1>4, <2>1, TakenOff
    <2> QED
      BY <1>4, <2>2
  <1>8. /\ shared' \in [Rings -> Both] /\ shared'[r].cons = x
        /\ shared'[r].prod = shared[r].prod /\ \A q \in Rings : q # r => shared'[q] = shared[q]
    <2>1. shared' = [shared EXCEPT ![r] = [shared[r] EXCEPT !.cons = x]]
      BY <1>1, <1>6
    <2>2. /\ [shared[r] EXCEPT !.cons = x] \in Both /\ [shared[r] EXCEPT !.cons = x].cons = x
          /\ [shared[r] EXCEPT !.cons = x].prod = shared[r].prod
      BY <1>3, Copies
    <2> QED
      BY <1>3, <2>1, <2>2
  <1>9. /\ queue' \in [Rings -> Seq(Frames)] /\ queue'[r] = p /\ \A q \in Rings : q # r => queue'[q] = queue[q]
        /\ kernel' \in [Rings -> Frames \cup {NoFrame}] /\ kernel'[r] = NoFrame
        /\ \A q \in Rings : q # r => kernel'[q] = kernel[q]
    BY <1>1, <1>3, <1>5
  <1>10. RTypeOK'
    BY <1>1, <1>2, <1>3, <1>8, <1>9, RingsTyped
  <1>11. Calls'
    <2>1. /\ \A q \in Rings : shared'[q].prod = shared[q].prod
          /\ \A q \in Consuming : shared'[q] = shared[q] /\ queue'[q] = queue[q]
      BY <1>1, <1>8, <1>9, OneKind
    <2> QED
      BY <1>1, <1>2, <2>1, OneKind DEF Calls
  <1>12. \A q \in Rings : Held(q)' = Held(q)
    BY <1>1, CallStays
  <1>13. RingOK(r)'
    <2>1. Len(p) <= Size /\ Len(p) + Held(r) + NbFree(cached[r]) <= Size
      BY <1>3, <1>4, <1>5
    <2> QED
      BY <1>1, <1>4, <1>7, <1>8, <1>9, <1>12, <2>1 DEF RingOK, NbFree
  <1>14. \A q \in Rings : q # r => RingOK(q)'
    BY <1>1, <1>2, <1>8, <1>9, <1>12, Untouched
  <1>15. QED BY <1>10, <1>11, <1>13, <1>14 DEF XInv

LEMMA Posting ==
  ASSUME XInv, NEW r \in Rings, NEW f \in Frames, Post(r, f)
  PROVE  XInv'
  <1>1. /\ r \in Consuming /\ r \notin Producing /\ (shared[r].prod - shared[r].cons) % W < Size
        /\ UNCHANGED <<shared, cached, app, mine, theirs, queue>>
        /\ slots' = [slots EXCEPT ![r] = [slots[r] EXCEPT ![Slot(shared[r].prod)] = f]]
        /\ kernel' = [kernel EXCEPT ![r] = f]
    BY OneKind DEF Post
  <1>2. RTypeOK /\ Calls /\ \A q \in Rings : RingOK(q)
    BY DEF XInv
  <1>3. /\ Size \in Nat /\ Len(queue[r]) \in Nat /\ shared[r].cons \in Pos /\ shared[r].prod \in Pos
        /\ slots[r] \in SlotValues /\ slots \in [Rings -> SlotValues]
             /\ kernel \in [Rings -> Frames \cup {NoFrame}]
        /\ W \in Nat /\ Size < W
    BY <1>2, RingTypes, RingsTyped
  <1>4. /\ Len(queue[r]) <= Size /\ shared[r].prod = (shared[r].cons + Len(queue[r])) % W
        /\ Holds(slots[r], shared[r].cons, queue[r])
    BY <1>2 DEF RingOK
  <1>5. Len(queue[r]) < Size
    <2>1. (((shared[r].cons + Len(queue[r])) % W) - shared[r].cons) % W = Len(queue[r])
      <3>1. Len(queue[r]) < W
        BY <1>3, <1>4
      <3> QED
        BY <1>3, <3>1, Advance
    <2> QED
      BY <1>1, <1>4, <2>1
  <1>6. Slot(shared[r].prod) \in 0 .. Size - 1
    BY <1>3, Sizes, Division DEF Slot, Pos
  <1>7. \A h \in 1 .. Len(queue[r]) : Slot(shared[r].cons + h - 1) # Slot(shared[r].prod)
    <2> TAKE h \in 1 .. Len(queue[r])
    <2>1. Slot(shared[r].cons + h - 1) # Slot(((shared[r].cons + Len(queue[r])) % W) + 1 - 1)
      <3>1. \A i \in Nat : i >= 1 /\ Len(queue[r]) + i <= Size =>
              Slot(shared[r].cons + h - 1) # Slot(((shared[r].cons + Len(queue[r])) % W) + i - 1)
        BY <1>3, NotAmong
      <3>2. 1 \in Nat /\ 1 >= 1 /\ Len(queue[r]) + 1 <= Size
        BY <1>3, <1>5
      <3> QED
        BY <3>1, <3>2
    <2>2. shared[r].prod + 1 - 1 = shared[r].prod
      BY <1>3 DEF Pos
    <2> QED
      BY <1>4, <2>1, <2>2
  <1>8. \A h \in 1 .. Len(queue[r]) : Slot(shared[r].cons + h - 1) \in 0 .. Size - 1
    BY <1>3, Sizes, Division DEF Slot, Pos
  <1>9. PICK e \in SlotValues : e = [slots[r] EXCEPT ![Slot(shared[r].prod)] = f]
    BY <1>3, <1>6 DEF SlotValues
  <1>10. e[Slot(shared[r].prod)] = f /\ Holds(e, shared[r].cons, queue[r])
    <2>1. \A k \in 0 .. Size - 1 : e[k] = IF k = Slot(shared[r].prod) THEN f ELSE slots[r][k]
      BY <1>3, <1>9 DEF SlotValues
    <2>2. e[Slot(shared[r].prod)] = f
      BY <1>6, <2>1
    <2>3. \A h \in 1 .. Len(queue[r]) : e[Slot(shared[r].cons + h - 1)] = slots[r][Slot(shared[r].cons + h - 1)]
      BY <1>7, <1>8, <2>1
    <2> QED
      BY <1>4, <2>2, <2>3 DEF Holds
  <1>11. /\ slots' \in [Rings -> SlotValues] /\ slots'[r] = e /\ \A q \in Rings : q # r => slots'[q] = slots[q]
         /\ kernel' \in [Rings -> Frames \cup {NoFrame}] /\ kernel'[r] = f
         /\ \A q \in Rings : q # r => kernel'[q] = kernel[q]
    <2>1. slots' = [slots EXCEPT ![r] = e]
      BY <1>1, <1>9
    <2> QED
      BY <1>1, <1>3, <2>1
  <1>12. RTypeOK'
    BY <1>1, <1>2, <1>11, RingsTyped
  <1>13. Calls'
    <2>1. \A q \in Producing : slots'[q] = slots[q]
      BY <1>1, <1>11, OneKind
    <2> QED
      BY <1>1, <1>2, <2>1 DEF Calls
  <1>14. \A q \in Rings : Held(q)' = Held(q)
    BY <1>1, CallStays
  <1>15. RingOK(r)'
    BY <1>1, <1>2, <1>5, <1>10, <1>11, <1>14 DEF RingOK, NbAvail
  <1>16. \A q \in Rings : q # r => RingOK(q)'
    BY <1>1, <1>2, <1>11, <1>14, Untouched
  <1>17. QED BY <1>12, <1>13, <1>15, <1>16 DEF XInv

LEMMA Giving ==
  ASSUME XInv, NEW r \in Rings, Posted(r)
  PROVE  XInv'
  <1>1. /\ r \in Consuming /\ r \notin Producing /\ kernel[r] # NoFrame
        /\ UNCHANGED <<slots, cached, app, mine>>
        /\ shared' = [shared EXCEPT ![r] = [shared[r] EXCEPT !.prod = (shared[r].prod + 1) % W]]
        /\ queue' = [queue EXCEPT ![r] = Append(queue[r], kernel[r])]
        /\ theirs' = theirs \ {kernel[r]} /\ kernel' = [kernel EXCEPT ![r] = NoFrame]
    BY OneKind DEF Posted
  <1>2. RTypeOK /\ Calls /\ \A q \in Rings : RingOK(q)
    BY DEF XInv
  <1>3. /\ Size \in Nat /\ Len(queue[r]) \in Nat /\ shared[r].cons \in Pos /\ queue[r] \in Seq(Frames)
        /\ shared[r] \in Both /\ NbAvail(cached[r]) \in Nat /\ Held(r) \in Nat /\ kernel[r] \in Frames
        /\ shared \in [Rings -> Both] /\ queue \in [Rings -> Seq(Frames)] /\ theirs \subseteq Frames
        /\ kernel \in [Rings -> Frames \cup {NoFrame}] /\ shared[r].prod \in Pos
    BY <1>1, <1>2, RingTypes, RingsTyped
  <1>4. /\ Len(queue[r]) < Size /\ slots[r][Slot(shared[r].prod)] = kernel[r]
        /\ cached[r].cons = (shared[r].cons + Held(r)) % W /\ Held(r) + NbAvail(cached[r]) <= Len(queue[r])
        /\ shared[r].prod = (shared[r].cons + Len(queue[r])) % W
        /\ Holds(slots[r], shared[r].cons, queue[r])
    BY <1>1, <1>2 DEF RingOK
  <1>5. PICK p \in Seq(Frames) : /\ p = Append(queue[r], kernel[r]) /\ Len(p) = Len(queue[r]) + 1
                                 /\ \A i \in 1 .. Len(queue[r]) : p[i] = queue[r][i]
                                 /\ p[Len(queue[r]) + 1] = kernel[r]
    <2>1. /\ Append(queue[r], kernel[r]) \in Seq(Frames)
          /\ Len(Append(queue[r], kernel[r])) = Len(queue[r]) + 1
      BY <1>3
    <2>2. \A i \in 1 .. Len(queue[r]) : Append(queue[r], kernel[r])[i] = queue[r][i]
      BY <1>3
    <2>3. Append(queue[r], kernel[r])[Len(queue[r]) + 1] = kernel[r]
      BY <1>3
    <2> QED
      BY <2>1, <2>2, <2>3
  <1>6. PICK x \in Pos : x = (shared[r].prod + 1) % W
    BY <1>3, Advance
  <1>7. Holds(slots[r], shared[r].cons, p) /\ x = (shared[r].cons + Len(p)) % W
    <2>1. shared[r].prod + 1 - 1 = shared[r].prod
      BY <1>3 DEF Pos
    <2>2. \A i \in 1 .. 1 : slots[r][Slot(shared[r].prod + i - 1)] = p[Len(queue[r]) + i]
      BY <1>4, <1>5, <2>1
    <2>3. PICK n \in Nat : n = 1
      OBVIOUS
    <2>4. More(slots[r], shared[r].prod, p, queue[r], n) /\ x = (shared[r].prod + n) % W
      BY <1>5, <1>6, <2>2, <2>3 DEF More
    <2> QED
      <3>1. Holds(slots[r], shared[r].cons, p) /\ (shared[r].prod + n) % W = (shared[r].cons + Len(p)) % W
        <4>1. More(slots[r], shared[r].prod, p, queue[r], n)
          BY <2>4
        <4> QED
          BY <1>3, <1>4, <4>1, PutOn
      <3> QED
        BY <2>4, <3>1
  <1>8. /\ shared' \in [Rings -> Both] /\ shared'[r].prod = x
        /\ shared'[r].cons = shared[r].cons /\ \A q \in Rings : q # r => shared'[q] = shared[q]
    <2>1. shared' = [shared EXCEPT ![r] = [shared[r] EXCEPT !.prod = x]]
      BY <1>1, <1>6
    <2>2. /\ [shared[r] EXCEPT !.prod = x] \in Both /\ [shared[r] EXCEPT !.prod = x].prod = x
          /\ [shared[r] EXCEPT !.prod = x].cons = shared[r].cons
      BY <1>3, Copies
    <2> QED
      BY <1>3, <2>1, <2>2
  <1>9. /\ queue' \in [Rings -> Seq(Frames)] /\ queue'[r] = p /\ \A q \in Rings : q # r => queue'[q] = queue[q]
        /\ kernel' \in [Rings -> Frames \cup {NoFrame}] /\ kernel'[r] = NoFrame
        /\ \A q \in Rings : q # r => kernel'[q] = kernel[q]
    BY <1>1, <1>3, <1>5
  <1>10. RTypeOK'
    BY <1>1, <1>2, <1>3, <1>8, <1>9, RingsTyped
  <1>11. \A q \in Rings : Held(q)' = Held(q)
    BY <1>1, CallStays
  <1>12. Calls'
    <2>1. /\ \A q \in Rings : shared'[q].cons = shared[q].cons
          /\ \A q \in Producing : shared'[q] = shared[q]
      BY <1>1, <1>8, <1>9, OneKind
    <2>2. ASSUME app.pc = "read", NEW i \in 1 .. app.nb
          PROVE  queue'[app.ring][i] = queue[app.ring][i]
      <3>1. CASE app.ring = r
        <4>1. Held(r) = app.nb /\ app.nb \in Nat
          BY <2>2, <3>1, CallTypes
        <4>2. i \in 1 .. Len(queue[r])
          BY <1>3, <1>4, <4>1
        <4> QED
          BY <1>5, <1>9, <3>1, <4>2
      <3>2. CASE app.ring # r
        BY <1>9, <2>2, <3>2, CallTypes
      <3> QED
        BY <3>1, <3>2
    <2> QED
      BY ZenonT(40), <1>1, <1>2, <2>1, <2>2, OneKind DEF Calls
  <1>13. RingOK(r)'
    <2>1. Len(p) <= Size /\ Held(r) + NbAvail(cached[r]) <= Len(p)
      BY <1>3, <1>4, <1>5
    <2> QED
      BY <1>1, <1>4, <1>7, <1>8, <1>9, <1>11, <2>1 DEF RingOK, NbAvail
  <1>14. \A q \in Rings : q # r => RingOK(q)'
    BY <1>1, <1>2, <1>8, <1>9, <1>11, Untouched
  <1>15. QED BY <1>10, <1>12, <1>13, <1>14 DEF XInv

LEMMA XStep ==
  ASSUME XInv, [RNext]_rvars
  PROVE  XInv'
  <1>1. CASE UNCHANGED rvars
    <2>1. RTypeOK' /\ Calls'
      BY <1>1 DEF rvars, XInv, RTypeOK, Calls
    <2>2. \A q \in Rings : RingOK(q)'
      BY <1>1, Untouched, CallStays DEF rvars, XInv
    <2> QED
      BY <2>1, <2>2 DEF XInv
  <1>2. CASE RNext
    BY <1>2, Reserving, Writing, Submitting, Peeking, Reading, Releasing,
       Fetching, Taking, Posting, Giving DEF RNext
  <1>3. QED BY <1>1, <1>2

\* the invariant says what lies between the positions
LEMMA XMeans == XInv => RingIsQueue
  <1>. SUFFICES ASSUME XInv PROVE RingIsQueue
    OBVIOUS
  <1>1. ASSUME NEW r \in Rings PROVE Contents(r) = queue[r]
    <2>1. /\ RTypeOK /\ Len(queue[r]) <= Size /\ shared[r].prod = (shared[r].cons + Len(queue[r])) % W
          /\ Holds(slots[r], shared[r].cons, queue[r])
      BY DEF XInv, RingOK
    <2>2. /\ Len(queue[r]) \in Nat /\ queue[r] \in Seq(Frames) /\ shared[r].cons \in Pos /\ Len(queue[r]) < W
      BY <2>1, RingTypes
    <2>3. (((shared[r].cons + Len(queue[r])) % W) - shared[r].cons) % W = Len(queue[r])
      BY <2>2, Advance
    <2>4. Contents(r) = [i \in 1 .. Len(queue[r]) |-> slots[r][Slot(shared[r].cons + i - 1)]]
      BY <2>1, <2>3 DEF Contents
    <2>5. \A i \in 1 .. Len(queue[r]) : slots[r][Slot(shared[r].cons + i - 1)] = queue[r][i]
      BY <2>1 DEF Holds
    <2>6. queue[r] = [i \in 1 .. Len(queue[r]) |-> queue[r][i]]
      BY <2>2
    <2> QED
      BY <2>4, <2>5, <2>6
  <1>2. ASSUME app.pc = "read" PROVE app.read = SubSeq(queue[app.ring], 1, app.nb)
    <2>1. /\ app.ring \in Rings /\ app.nb \in Nat /\ app.read \in Seq(Frames) /\ Held(app.ring) = app.nb
          /\ app.ring \in Consuming /\ Len(app.read) = app.nb
          /\ \A i \in 1 .. app.nb : app.read[i] = queue[app.ring][i]
      BY <1>2, CallTypes DEF XInv, Calls
    <2>2. /\ RTypeOK /\ Held(app.ring) + NbAvail(cached[app.ring]) <= Len(queue[app.ring])
      BY <2>1 DEF XInv, RingOK
    <2>3. queue[app.ring] \in Seq(Frames) /\ Len(queue[app.ring]) \in Nat /\ NbAvail(cached[app.ring]) \in Nat
      BY <2>1, <2>2, RingTypes
    <2>4. app.nb <= Len(queue[app.ring])
      BY <2>1, <2>2, <2>3
    <2>5. SubSeq(queue[app.ring], 1, app.nb) = [i \in 1 .. app.nb |-> queue[app.ring][i]]
      BY <2>1, <2>3, <2>4
    <2>6. app.read = [i \in 1 .. app.nb |-> app.read[i]]
      BY <2>1
    <2> QED
      BY <2>1, <2>5, <2>6
  <1>3. QED BY <1>1, <1>2 DEF RingIsQueue

(* Whatever the sizes of the rings and whichever of them the program and   *)
(* the kernel use in which order: between its positions a ring has what    *)
(* was submitted and is not released yet, in this order, and what the      *)
(* program has read is the front of it.                                    *)
THEOREM RingsAreQueues == RSpec => []RingIsQueue
  <1>1. XInv /\ [RNext]_rvars => XInv'
    BY XStep
  <1>2. QED BY <1>1, XStart, XMeans, PTL DEF RSpec
=============================================================================
