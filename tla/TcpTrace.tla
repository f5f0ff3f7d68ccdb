------------------------------ MODULE TcpTrace ------------------------------
(***************************************************************************)
(* The tcpreq BPF program (release/bcc/tcpreq.c) for the threads of one    *)
(* process, its perf buffers, and the event machine of the collector       *)
(* (tcpreq.go, bufferEvent).                                               *)
(*                                                                         *)
(* The program links an accept's entry (kprobe_security_socket_accept) to  *)
(* its return (kretprobe_move_addr_to_user) by ptr_map, which has one slot *)
(* for a process; an accept may fail, or not ask for the address, and      *)
(* other calls return from move_addr_to_user too.  check_state reads and   *)
(* writes a connection's entry in separate steps.  An event goes to the    *)
(* buffer of the CPU its thread runs on; the buffers are read in any       *)
(* order, and an event that finds its buffer full is lost.                 *)
(***************************************************************************)
EXTENDS Naturals, Sequences, FiniteSets

CONSTANTS
  Threads, Socks,
  Conns,     \* address pairs
  NoConn,    \* the address pair of a socket without sk: all zero
  NoSock, Buffers,
  RingSize,  \* events that fit in a CPU's buffer
  Levels,    \* verbose levels that are configured; 0 stands for no entry
  MaxEvents, \* bound: events submitted
  MaxAccepts \* bound: accepts entered

ASSUME NoConnAssumption == NoConn \notin Conns
ASSUME RingAssumption == RingSize \in Nat \ {0} /\ MaxEvents \in Nat /\ MaxAccepts \in Nat
ASSUME LevelsAssumption == Levels \subseteq Nat

\* MSG_TYPE_*, None for no entry in conn_map
None == 0
RECV_CLEAN_RBUF == 1
SEND_ENTRY == 2
CONNECT == 3
DISCONNECT == 4
Types == 1 .. 4

Unused == "free"
Pairs == Conns \cup {NoConn}

ASSUME UnusedAssumption == Unused \notin Pairs

\* an event; prev is auxiliary: the event before it of its pair, 0 for none
Event == [type : Types, conn : Pairs, n : 1 .. MaxEvents, prev : 0 .. MaxEvents]

VARIABLES
  verbose,  \* control_map: verbose level of the process, 0 for no entry
  ptr_map,  \* the process's entry, NoSock for none
  conn_map, \* pair -> type of its last event
  sk,       \* struct socket -> its sk's pair, NoConn before it has one
  thread,   \* what a thread is doing
  samples,  \* perf buffer of a CPU
  machine,  \* tcpEventMachine: pair -> its last event, as a set
  sent,     \* auxiliary: number and type of the last event of a pair
  count,    \* auxiliary: events submitted: the timestamps
  accepts,  \* auxiliary: accepts entered
  odd       \* auxiliary: what has happened that spoils the data

tvars == <<verbose, ptr_map, conn_map, sk, thread, samples, machine, sent, count, accepts, odd>>

\* mixed: an accept overlapped with another or with another call that returns an
\* address, or ended without its return probe
\* raced: pairs with two handlers at once; unseen: closed while not listened to
\* lost: events; late: pairs of which an event was overtaken
Odd == [mixed : BOOLEAN, raced : SUBSET Pairs, unseen : SUBSET Pairs,
        lost : SUBSET (1 .. MaxEvents), late : SUBSET Pairs]

Thread == [pc : {"idle", "accepting", "accepted", "returned", "check", "emit", "delete"},
           sock : Socks \cup {NoSock}, conn : Pairs, type : 0 .. 4, own : Pairs]
Idle == [pc |-> "idle", sock |-> NoSock, conn |-> NoConn, type |-> None, own |-> NoConn]

(* Type invariant of tcpreq.c's maps and tcpreq.go's event machine.        *)
TTypeOK ==
  /\ verbose \in Levels \cup {0}
  /\ ptr_map \in Socks \cup {NoSock}
  /\ conn_map \in [Pairs -> 0 .. 4]
  /\ sk \in [Socks -> Pairs \cup {Unused}]
  /\ thread \in [Threads -> Thread]
  /\ samples \in [Buffers -> Seq(Event)] /\ \A k \in Buffers : Len(samples[k]) <= RingSize
  /\ machine \in [Pairs -> SUBSET Event] /\ \A c \in Pairs : Cardinality(machine[c]) <= 1
  /\ sent \in [Pairs -> [n : 0 .. MaxEvents, type : 0 .. 4]]
  /\ count \in 0 .. MaxEvents
  /\ accepts \in 0 .. MaxAccepts
  /\ odd \in Odd

TInit ==
  /\ verbose = 0
  /\ ptr_map = NoSock
  /\ conn_map = [c \in Pairs |-> None]
  /\ sk = [s \in Socks |-> Unused]
  /\ thread = [t \in Threads |-> Idle]
  /\ samples = [k \in Buffers |-> <<>>]
  /\ machine = [c \in Pairs |-> {}]
  /\ sent = [c \in Pairs |-> [n |-> 0, type |-> None]]
  /\ count = 0
  /\ accepts = 0
  /\ odd = [mixed |-> FALSE, raced |-> {}, unseen |-> {}, lost |-> {}, late |-> {}]

eventVars == <<samples, machine, sent, count>>

Handling(t, c) == thread[t].conn = c /\ thread[t].pc \in {"check", "emit", "delete"}

\* pairs of which another thread is in a handler too
Race(t, c) == IF \E u \in Threads \ {t} : Handling(u, c) THEN odd.raced \cup {c} ELSE odd.raced

Accepting(t) == thread[t].pc \in {"accepting", "accepted", "returned"}

\* a thread is free, and a connection is open and not being closed
Open(c) == /\ \E s \in Socks : sk[s] = c
           /\ \A t \in Threads : ~(Handling(t, c) /\ thread[t].type = DISCONNECT)

-----------------------------------------------------------------------------
(* tcpreq.c                                                                *)

\* the slot of ptr_map after an accept of socket s was entered
Entered(s) == IF verbose = 0 THEN ptr_map ELSE s

(* A new socket s, without sk, and the probe; then the accept waits.       *)
kprobe_security_socket_accept(t, s) ==
  /\ thread[t].pc = "idle" /\ sk[s] = Unused /\ accepts < MaxAccepts
  /\ accepts' = accepts + 1
  /\ sk' = [sk EXCEPT ![s] = NoConn]
  /\ thread' = [thread EXCEPT ![t] = [Idle EXCEPT !.pc = "accepting", !.sock = s]]
  /\ ptr_map' = Entered(s)
  /\ odd' = [odd EXCEPT !.mixed = @ \/ \E u \in Threads \ {t} : Accepting(u)]
  /\ UNCHANGED <<verbose, conn_map, eventVars>>

(* The kernel: the accept gets a connection, or fails and drops the socket.*)
AcceptDone(t, c) ==
  /\ thread[t].pc = "accepting"
  /\ \A s \in Socks : sk[s] # c
  /\ sk' = [sk EXCEPT ![thread[t].sock] = c]
  /\ thread' = [thread EXCEPT ![t].pc = "accepted", ![t].own = c]
  /\ UNCHANGED <<verbose, ptr_map, conn_map, odd, eventVars, accepts>>

AcceptFailed(t) ==
  /\ thread[t].pc = "accepting"
  /\ sk' = [sk EXCEPT ![thread[t].sock] = Unused]
  /\ thread' = [thread EXCEPT ![t] = Idle]
  /\ odd' = [odd EXCEPT !.mixed = @ \/ ptr_map = thread[t].sock]
  /\ UNCHANGED <<verbose, ptr_map, conn_map, eventVars, accepts>>

\* the caller did not ask for the address
AcceptNoAddress(t) ==
  /\ thread[t].pc = "accepted"
  /\ thread' = [thread EXCEPT ![t] = Idle]
  /\ odd' = [odd EXCEPT !.mixed = @ \/ ptr_map = thread[t].sock]
  /\ UNCHANGED <<verbose, ptr_map, conn_map, sk, eventVars, accepts>>

(* A return of move_addr_to_user, from an accept or another call.          *)
kretprobe_move_addr_to_user(t) ==
  /\ thread[t].pc \in {"idle", "accepted"}
  /\ IF ptr_map = NoSock
       THEN thread' = [thread EXCEPT ![t] = Idle]
       ELSE thread' = [thread EXCEPT ![t].pc = "returned", ![t].sock = ptr_map]
  /\ odd' = [odd EXCEPT !.mixed = @ \/ (thread[t].pc = "idle" /\ \E u \in Threads : Accepting(u))]
  /\ UNCHANGED <<verbose, ptr_map, conn_map, sk, eventVars, accepts>>

\* the entry stays
TakenNot(p) == p

\* the slot after a return probe has read it: "ptr_map.delete"
Taken(p) == NoSock

(* sockp->sk of a socket that is gone may be anything.                     *)
RecordAccept(t) ==
  /\ thread[t].pc = "returned"
  /\ ptr_map' = Taken(ptr_map)
  /\ \E c \in IF sk[thread[t].sock] = Unused THEN Pairs ELSE {sk[thread[t].sock]} :
       /\ conn_map' = [conn_map EXCEPT ![c] = CONNECT]
       /\ thread' = [thread EXCEPT ![t].pc = "emit", ![t].conn = c, ![t].type = CONNECT]
       /\ odd' = [odd EXCEPT !.raced = Race(t, c), !.unseen = @ \ {c}]
  /\ UNCHANGED <<verbose, sk, eventVars, accepts>>

\* without the room check
EmittedAlways(k, e) == [samples EXCEPT ![k] = Append(@, e)]

\* perf_submit: the buffer of the CPU, when there is room
Emitted(k, e) == IF Len(samples[k]) < RingSize THEN [samples EXCEPT ![k] = Append(@, e)] ELSE samples

emit_event(t, k) ==
  LET c == thread[t].conn
      e == [type |-> thread[t].type, conn |-> c, n |-> count + 1, prev |-> sent[c].n]
  IN  /\ thread[t].pc = "emit" /\ count < MaxEvents
      /\ samples' = Emitted(k, e)
      /\ count' = count + 1
      /\ sent' = [sent EXCEPT ![c] = [n |-> count + 1, type |-> thread[t].type]]
      /\ odd' = [odd EXCEPT !.lost = IF samples' = samples THEN @ \cup {count + 1} ELSE @]
      /\ thread' = IF thread[t].type = DISCONNECT THEN [thread EXCEPT ![t].pc = "delete"]
                                                  ELSE [thread EXCEPT ![t] = Idle]
      /\ UNCHANGED <<verbose, ptr_map, conn_map, sk, machine, accepts>>

\* check_state goes on when there is an entry of another type
Changes(c, type) == conn_map[c] # None /\ conn_map[c] # type

(* kprobe_tcp_sendmsg_entry, kprobe_tcp_cleanup_rbuf_entry and the lookup  *)
(* of check_state                                                          *)
SendOrReceive(t, c, type) ==
  /\ thread[t].pc = "idle" /\ Open(c)
  /\ verbose > 1 /\ Changes(c, type)
  /\ thread' = [thread EXCEPT ![t] = [Idle EXCEPT !.pc = "check", !.conn = c, !.type = type]]
  /\ odd' = [odd EXCEPT !.raced = Race(t, c)]
  /\ UNCHANGED <<verbose, ptr_map, conn_map, sk, eventVars, accepts>>

\* "state->type = type", through the pointer that was looked up: only the
\* thread that has the last use of the socket deletes the entry
check_state_write(t) ==
  /\ thread[t].pc = "check"
  /\ thread' = [thread EXCEPT ![t].pc = "emit"]
  /\ conn_map' = [conn_map EXCEPT ![thread[t].conn] = thread[t].type]
  /\ UNCHANGED <<verbose, ptr_map, sk, odd, eventVars, accepts>>

(* kprobe_tcp_close: the last use of the socket                            *)
kprobe_tcp_close(t, c) ==
  /\ thread[t].pc = "idle" /\ Open(c)
  /\ \A u \in Threads : ~Handling(u, c) /\ ~(Accepting(u) /\ thread[u].own = c)
  /\ IF verbose = 0
       THEN /\ sk' = [s \in Socks |-> IF sk[s] = c THEN Unused ELSE sk[s]]
            /\ odd' = [odd EXCEPT !.unseen = IF conn_map[c] # None THEN @ \cup {c} ELSE @]
            /\ UNCHANGED thread
       ELSE /\ thread' = [thread EXCEPT ![t] =
                 [Idle EXCEPT !.pc = IF Changes(c, DISCONNECT) THEN "check" ELSE "delete",
                              !.conn = c, !.type = DISCONNECT]]
            /\ odd' = [odd EXCEPT !.raced = Race(t, c)]
            /\ UNCHANGED sk
  /\ UNCHANGED <<verbose, ptr_map, conn_map, eventVars, accepts>>

\* the entry stays
ForgottenNot(c) == conn_map

Forgotten(c) == [conn_map EXCEPT ![c] = None]

\* "conn_map.delete"; then the socket goes
CloseDone(t) ==
  /\ thread[t].pc = "delete"
  /\ conn_map' = Forgotten(thread[t].conn)
  /\ sk' = [s \in Socks |-> IF sk[s] = thread[t].conn THEN Unused ELSE sk[s]]
  /\ thread' = [thread EXCEPT ![t] = Idle]
  /\ UNCHANGED <<verbose, ptr_map, odd, eventVars, accepts>>

-----------------------------------------------------------------------------
(* tcpreq.go                                                               *)

(* The signal loop and onConfigChange write control_map.                   *)
SetVerbose(v) ==
  /\ verbose # v
  /\ verbose' = v
  /\ UNCHANGED <<ptr_map, conn_map, sk, thread, odd, eventVars, accepts>>

\* only the first event of a connection is remembered
RememberedFirst(e) == [machine EXCEPT ![e.conn] = IF @ = {} THEN {e} ELSE @]

\* the event replaces the one before it of its connection
Remembered(e) == [machine EXCEPT ![e.conn] = {e}]

(* The reader takes an event, the signal loop gives it to bufferEvent.     *)
bufferEvent(k) ==
  /\ samples[k] # <<>>
  /\ LET e == Head(samples[k])
     IN  /\ machine' = Remembered(e)
         /\ odd' = [odd EXCEPT !.late =
              IF \E j \in Buffers : \E i \in DOMAIN samples[j] :
                   samples[j][i].conn = e.conn /\ samples[j][i].n < e.n
                THEN @ \cup {e.conn} ELSE @]
  /\ samples' = [samples EXCEPT ![k] = Tail(@)]
  /\ UNCHANGED <<verbose, ptr_map, conn_map, sk, thread, sent, count, accepts>>

Probe(t) ==
  \/ RecordAccept(t)
  \/ \E k \in Buffers : emit_event(t, k)
  \/ check_state_write(t)
  \/ CloseDone(t)

TNext ==
  \/ \E t \in Threads : Probe(t)
  \/ \E t \in Threads, s \in Socks : kprobe_security_socket_accept(t, s)
  \/ \E t \in Threads, c \in Conns : AcceptDone(t, c)
  \/ \E t \in Threads : AcceptFailed(t)
  \/ \E t \in Threads : AcceptNoAddress(t)
  \/ \E t \in Threads : kretprobe_move_addr_to_user(t)
  \/ \E t \in Threads, c \in Conns, type \in {RECV_CLEAN_RBUF, SEND_ENTRY} : SendOrReceive(t, c, type)
  \/ \E t \in Threads, c \in Conns : kprobe_tcp_close(t, c)
  \/ \E v \in Levels \cup {0} : SetVerbose(v)
  \/ \E k \in Buffers : bufferEvent(k)

TSpec == TInit /\ [][TNext]_tvars

-----------------------------------------------------------------------------
(* kprobe_security_socket_accept and kretprobe_move_addr_to_user: an       *)
(* accept event names the connection its thread has accepted, as long as   *)
(* no accept of the process overlaps with another call that gets to the    *)
(* return probe and every accept that was noted comes to it.               *)
AcceptNamesItsConnection ==
  ~odd.mixed => \A t \in Threads :
    thread[t].pc = "emit" /\ thread[t].type = CONNECT => thread[t].conn = thread[t].own

\* check_state: an event differs in type from the one before it of its
\* connection, unless two handlers were in the entry at once
EventsAlternate ==
  \A t \in Threads, c \in Conns \ odd.raced :
    thread[t].pc = "emit" /\ thread[t].conn = c /\ thread[t].type # CONNECT =>
      sent[c].type # thread[t].type

\* kprobe_tcp_close: conn_map holds no connection that is closed, unless it was
\* closed while the process was not listened to, or an accept of the process was
\* mixed up with another call
ClosedIsForgotten ==
  ~odd.mixed => \A c \in Pairs \ odd.unseen :
    conn_map[c] # None => \E s \in Socks : sk[s] = c

(* check_state, kprobe_tcp_close: conn_map follows a connection from its   *)
(* first event to its end.  It is reported when its direction changes and  *)
(* at no other time, and is forgotten when it is closed.                   *)
ConnectionsFollowed == EventsAlternate /\ ClosedIsForgotten

(* bufferEvent: the previous event it takes a duration from is the last    *)
(* one before it of the same connection, unless that was lost or came      *)
(* late over another CPU's buffer.                                         *)
DurationsSpanOneStep ==
  [][\A k \in Buffers :
       samples[k] # <<>> /\ samples'[k] = Tail(samples[k]) =>
         LET e == Head(samples[k])
         IN  e.conn \in odd'.late
             \/ \A pre \in machine[e.conn] : pre.n = e.prev \/ e.prev \in odd.lost]_tvars
=============================================================================
