---------------------------- MODULE ObjectProofs ----------------------------
(***************************************************************************)
(* Proofs about what libbpf opens, pins and closes.  Of BpfLink, for any   *)
(* number of descriptors: that links run and that no descriptor is lost or *)
(* closed twice.  Of XskSocket, for any processes, queues and programs:    *)
(* that what a process has is what its umem and sockets say, whichever     *)
(* call fails, and that the sockets that receive are found from the        *)
(* interface.  Of BpfObject, for any processes, maps and programs: that    *)
(* descriptors are accounted for, that pinned maps are at their paths and  *)
(* that a call which fails undoes its pins and no others.  And of Hashmap, *)
(* for any keys, values and hash function: that the table is a multimap.   *)
(* Of ProgLoad, for any kernel: that a program is loaded if it can be.  Of *)
(* ProgLinfo, for any program: that every line is found.  Of Netlink, for  *)
(* any interfaces: that a call gets the right program or error.            *)
(***************************************************************************)
EXTENDS BpfLink, XskSocket, BpfObject, Hashmap, ProgLoad, ProgLinfo, Netlink,
        FiniteSetTheorems, TLAPS

Event == [kind : Probes \cup RawTargets \cup {"none", "perf", "hardware"},
          prog : BOOLEAN, on : BOOLEAN]

(* An event of the caller is one it has opened itself, and not of a probe. *)
OwnEvents == \A f \in own : event[f].kind = "perf"

Inv == LTypeOK /\ LinksRun /\ OwnEvents

-----------------------------------------------------------------------------
(* An attempt on an event keeps its kind; one that succeeds has the        *)
(* program set and the event enabled, and is not of a hardware event.      *)
LEMMA Attempts ==
  ASSUME NEW e \in Event, NEW o \in AttachOutcomes(e)
  PROVE  /\ o.e \in Event /\ o.ok \in BOOLEAN
         /\ o.e.kind = e.kind
         /\ o.ok => o.e = RunningEvent(e.kind) /\ e.kind # "hardware"
  <1>1. CASE o = [e |-> e, ok |-> FALSE]
    BY <1>1
  <1>2. CASE o = [e |-> [kind |-> e.kind, prog |-> TRUE, on |-> e.on], ok |-> FALSE]
    BY <1>2 DEF Event
  <1>3. CASE o = [e |-> RunningEvent(e.kind), ok |-> TRUE] /\ e.kind # "hardware"
    BY <1>3 DEF Event, RunningEvent
  <1>4. QED BY <1>1, <1>2, <1>3 DEF AttachOutcomes

LEMMA Start == LInit => Inv
  <1>. SUFFICES ASSUME LInit PROVE Inv
    OBVIOUS
  <1>1. DOMAIN link = {}
    BY DEF LInit
  <1>2. LTypeOK
    BY <1>1 DEF LInit, LTypeOK, NoEvent
  <1>3. LinksRun /\ OwnEvents
    BY <1>1 DEF LInit, LinksRun, OwnEvents, NoEvent
  <1>4. QED BY <1>2, <1>3 DEF Inv

-----------------------------------------------------------------------------
(* The steps, one lemma for each that changes events.                      *)

LEMMA Opening ==
  ASSUME Inv, OpenOwn
  PROVE  Inv'
  <1>1. PICK f \in FreeFds :
          /\ event' = [event EXCEPT ![f] = OpenedEvent("perf")]
          /\ own' = own \cup {f}
    BY DEF OpenOwn
  <1>2. f \in Fds /\ f \notin own /\ f \notin DOMAIN link
    BY DEF FreeFds, Inv, LinksRun
  <1>3. OpenedEvent("perf") \in Event /\ OpenedEvent("perf").kind = "perf"
    BY DEF OpenedEvent, Event
  <1>4. LTypeOK'
    BY <1>1, <1>2, <1>3 DEF OpenOwn, Inv, LTypeOK, Event
  <1>5. LinksRun' /\ OwnEvents'
    BY <1>1, <1>2, <1>3 DEF OpenOwn, Inv, LTypeOK, LinksRun, OwnEvents
  <1>6. QED BY <1>4, <1>5 DEF Inv

LEMMA Closing ==
  ASSUME Inv, NEW f \in Fds, CloseOwn(f)
  PROVE  Inv'
  <1>1. LTypeOK'
    BY DEF CloseOwn, Inv, LTypeOK, NoEvent
  <1>2. LinksRun' /\ OwnEvents'
    BY DEF CloseOwn, Inv, LTypeOK, LinksRun, OwnEvents, NoEvent
  <1>3. QED BY <1>1, <1>2 DEF Inv

(* The caller's event becomes the link's, or stays the caller's.           *)
LEMMA AttachingOwn ==
  ASSUME Inv, NEW f \in Fds, bpf_program__attach_perf_event(f)
  PROVE  Inv'
  <1>. event[f] \in Event /\ f \in own /\ f \notin DOMAIN link /\ event[f].kind = "perf"
    BY DEF bpf_program__attach_perf_event, Inv, LTypeOK, LinksRun, OwnEvents, Event
  <1>1. PICK o \in AttachOutcomes(event[f]) :
          /\ event' = [event EXCEPT ![f] = o.e]
          /\ own' = IF o.ok THEN own \ {f} ELSE own
          /\ link' = IF o.ok THEN LinkedTo(f, "perf") ELSE link
    BY DEF bpf_program__attach_perf_event
  <1>2. /\ o.e \in Event /\ o.ok \in BOOLEAN /\ o.e.kind = "perf"
        /\ o.ok => o.e = RunningEvent("perf")
    BY Attempts
  <1>3. /\ DOMAIN LinkedTo(f, "perf") = DOMAIN link \cup {f}
        /\ LinkedTo(f, "perf")[f] = "perf"
        /\ \A g \in DOMAIN link \ {f} : LinkedTo(f, "perf")[g] = link[g]
    BY DEF LinkedTo
  <1>4. LTypeOK'
    BY <1>1, <1>2, <1>3 DEF bpf_program__attach_perf_event, Inv, LTypeOK, Event
  <1>5. LinksRun' /\ OwnEvents'
    <2>1. CASE o.ok
      BY <2>1, <1>1, <1>2, <1>3 DEF Inv, LTypeOK, LinksRun, OwnEvents
    <2>2. CASE ~o.ok
      BY <2>2, <1>1, <1>2 DEF Inv, LTypeOK, LinksRun, OwnEvents
    <2>3. QED BY <2>1, <2>2
  <1>6. QED BY <1>4, <1>5 DEF Inv

(* A link of an event that was free.                                       *)
LEMMA Adding ==
  ASSUME Inv, NEW f \in FreeFds, NEW kind \in Probes \cup RawTargets,
         event' = [event EXCEPT ![f] = RunningEvent(kind)], link' = LinkedTo(f, kind),
         UNCHANGED <<loaded, own>>
  PROVE  Inv'
  <1>1. f \in Fds /\ f \notin own /\ f \notin DOMAIN link
    BY DEF FreeFds, Inv, LinksRun
  <1>2. DOMAIN link' = DOMAIN link \cup {f} /\ link'[f] = kind
    BY DEF LinkedTo
  <1>3. \A g \in DOMAIN link : link'[g] = link[g]
    BY <1>1 DEF LinkedTo
  <1>4. event'[f] = RunningEvent(kind) /\ \A g \in Fds \ {f} : event'[g] = event[g]
    BY <1>1 DEF Inv, LTypeOK
  <1>5. RunningEvent(kind).kind # "none"
    BY DEF RunningEvent, Probes, RawTargets
  <1>6. LTypeOK'
    BY <1>1, <1>2 DEF Inv, LTypeOK, RunningEvent
  <1>7. {g \in Fds : event'[g].kind # "none"} = own' \cup DOMAIN link'
    BY <1>1, <1>2, <1>4, <1>5 DEF Inv, LTypeOK, LinksRun
  <1>8. \A g \in DOMAIN link' : event'[g] = RunningEvent(link'[g])
    BY <1>1, <1>2, <1>3, <1>4 DEF Inv, LTypeOK, LinksRun
  <1>9. own' \cap DOMAIN link' = {} /\ OwnEvents'
    BY <1>1, <1>2, <1>4 DEF Inv, LTypeOK, LinksRun, OwnEvents
  <1>10. QED BY <1>6, <1>7, <1>8, <1>9 DEF Inv, LinksRun

(* An event that libbpf opens is closed again or has its link.             *)
LEMMA AttachingProbe ==
  ASSUME Inv, NEW kind \in Probes, attach_probe(kind)
  PROVE  Inv'
  <1>1. PICK f \in FreeFds, opened \in EventOf(kind) :
          \E o \in AttachOutcomes(OpenedEvent(opened)) :
            /\ event' = [event EXCEPT ![f] = IF o.ok THEN o.e ELSE EventClosed(o.e)]
            /\ link' = IF o.ok THEN LinkedTo(f, kind) ELSE link
    BY DEF attach_probe
  <1>. DEFINE e == OpenedEvent(opened)
  <1>2. PICK o \in AttachOutcomes(e) :
          /\ event' = [event EXCEPT ![f] = IF o.ok THEN o.e ELSE EventClosed(o.e)]
          /\ link' = IF o.ok THEN LinkedTo(f, kind) ELSE link
    BY <1>1
  <1>3. f \in Fds /\ f \notin own /\ f \notin DOMAIN link
    BY DEF FreeFds, Inv, LinksRun
  <1>4. e \in Event /\ e.kind = opened /\ opened \in {kind, "hardware"}
    BY DEF OpenedEvent, EventOf, Event, Probes
  <1>. HIDE DEF e
  <1>5. /\ o.e \in Event /\ o.ok \in BOOLEAN
        /\ o.ok => o.e = RunningEvent(kind)
    BY <1>4, Attempts
  <1>6. UNCHANGED <<loaded, own>>
    BY DEF attach_probe
  <1>8. CASE o.ok
    <2>1. event' = [event EXCEPT ![f] = RunningEvent(kind)] /\ link' = LinkedTo(f, kind)
      BY <1>8, <1>2, <1>5
    <2>2. QED BY <2>1, <1>6, Adding
  <1>9. CASE ~o.ok
    <2>1. event' = [event EXCEPT ![f] = NoEvent] /\ link' = link
      BY <1>9, <1>2 DEF EventClosed
    <2>2. LTypeOK'
      BY <2>1, <1>3, <1>6 DEF Inv, LTypeOK, NoEvent
    <2>3. LinksRun' /\ OwnEvents'
      BY <2>1, <1>3, <1>6 DEF Inv, LTypeOK, LinksRun, OwnEvents, NoEvent
    <2>4. QED BY <2>2, <2>3 DEF Inv
  <1>10. QED BY <1>8, <1>9

LEMMA AttachingRaw ==
  ASSUME Inv, NEW kind \in RawTargets, attach_raw(kind)
  PROVE  Inv'
  BY Adding DEF attach_raw

LEMMA Destroying ==
  ASSUME Inv, NEW f \in Fds, bpf_link__destroy(f)
  PROVE  Inv'
  <1>1. DOMAIN link' = DOMAIN link \ {f} /\ \A g \in DOMAIN link' : link'[g] = link[g]
    BY DEF bpf_link__destroy
  <1>2. LTypeOK'
    BY <1>1 DEF bpf_link__destroy, Inv, LTypeOK, NoEvent
  <1>3. LinksRun' /\ OwnEvents'
    BY <1>1 DEF bpf_link__destroy, Inv, LTypeOK, LinksRun, OwnEvents, NoEvent
  <1>4. QED BY <1>2, <1>3 DEF Inv

-----------------------------------------------------------------------------
(* Loading and unloading leave events alone.                               *)
LEMMA LinkStep == ASSUME Inv, [LNext]_lvars PROVE Inv'
  <1>1. CASE Load \/ Unload \/ UNCHANGED lvars
    BY <1>1 DEF Load, Unload, lvars, Inv, LTypeOK, LinksRun, OwnEvents
  <1>2. QED
    BY <1>1, Opening, Closing, AttachingOwn, AttachingProbe, AttachingRaw, Destroying DEF LNext

LEMMA Inductive == LSpec => []Inv
  <1>1. LInit => Inv
    BY Start
  <1>2. Inv /\ [LNext]_lvars => Inv'
    BY LinkStep
  <1>3. QED BY <1>1, <1>2, PTL DEF LSpec

(* Whatever step of an attachment fails, every open event belongs to one   *)
(* link or to the caller, and a link is of an enabled event of the kind    *)
(* that was asked for, with the program set (bpf_program__attach_..., for  *)
(* any number of descriptors).                                             *)
THEOREM LinksAlwaysRun == LSpec => []LinksRun
  <1>1. Inv => LinksRun
    BY DEF Inv
  <1>2. QED BY <1>1, Inductive, PTL

-----------------------------------------------------------------------------
(***************************************************************************)
(* Sockets.  What a process has is the sum of what its umem and its two    *)
(* slots say (Counts), where a slot in creation says what its next step    *)
(* presumes (Fits), and of two slots one is at rest (Together).  That      *)
(* processes do not take each other's queues comes from the kernel's bind  *)
(* (Queued), that a program is on the interface from the order of lookup   *)
(* and attachment (OnInterface), and from both that an entry stays         *)
(* (Entered).                                                              *)
(***************************************************************************)
One(b) == IF b THEN 1 ELSE 0

\* the steps of xsk_setup_xdp_prog
Setup == {"getid", "load", "attach", "getfd", "lookup", "update"}

Fits(m, s) ==
  /\ s.pc = "none" => ~s.own /\ s.maps = 0 /\ s.prog = 0 /\ s.map = 0
  /\ s.pc # "none" => s.q \in Queues
  /\ s.own => s.inhibit
  /\ s.pc = "rx" => s.maps = 0
  /\ s.pc = "tx" => s.maps <= 1
  /\ s.pc \in {"rx", "tx", "bind", "getid", "load"} => s.prog = 0 /\ s.map = 0
  /\ s.pc \in {"attach", "update"} => s.prog # 0 /\ s.map = s.prog
  /\ s.pc \in {"getfd", "lookup"} => s.prog # 0 /\ s.map = 0
  /\ s.pc = "up" /\ s.inhibit => s.prog = 0 /\ s.map = 0
  /\ s.pc = "up" /\ ~s.inhibit => s.prog # 0 /\ s.map = s.prog
  /\ s.pc \in Setup => ~s.inhibit
  /\ s.pc \in Setup \cup {"up"} => m.bound = s.q
  /\ s.pc \notin {"none", "up"} => (s.own <=> m.refcount > 1)

Together(s, t) ==
  /\ s.pc \in {"none", "up"} \/ t.pc \in {"none", "up"}
  /\ s.pc # "none" /\ t.pc # "none" => s.inhibit \/ t.inhibit

Opens(s, n) == s.prog = n /\ s.pc \notin {"none", "getfd"}

Counts(m, s, t, h, l) ==
  /\ m.refcount = One(s.pc # "none") + One(t.pc # "none") + l.refs
  /\ ~m.up => m.refcount = 0
  /\ h.fds = One(m.up) + One(s.own) + One(t.own)
  /\ h.mmaps = (2 * One(m.up)) + s.maps + t.maps + l.mmaps
  /\ \A n \in ProgIds : h.progs[n] = One(Opens(s, n)) + One(Opens(t, n))
                        /\ h.maps[n] = One(s.map = n) + One(t.map = n)

UserOK(u) ==
  /\ Fits(umem[u], sock[u][1]) /\ Fits(umem[u], sock[u][2])
  /\ Together(sock[u][1], sock[u][2])
  /\ Counts(umem[u], sock[u][1], sock[u][2], has[u], lost[u])

\* a socket that has to do with libbpf's program and its map
Served(s) == s.pc \in Setup \cup {"up"} /\ ~s.inhibit

Queued ==
  \A u, v \in Users : \A k, j \in Slots :
    u # v /\ Served(sock[u][k]) /\ Served(sock[v][j]) => sock[u][k].q # sock[v][j].q

OnInterface ==
  \A u \in Users : \A k \in Slots :
    LET s == sock[u][k]
    IN  s.pc \in {"getfd", "lookup", "update", "up"} /\ s.prog # 0 => iface = s.prog \/ s.prog \in replaced

Entered ==
  \A u \in Users : \A k \in Slots :
    LET s == sock[u][k]
    IN  s.pc = "up" /\ s.rx /\ ~s.inhibit => entries[s.map][s.q] = <<u, k>>

SInv == XTypeOK /\ (\A u \in Users : UserOK(u)) /\ Queued /\ OnInterface /\ Entered

-----------------------------------------------------------------------------
(* Records.                                                                *)
UmemT == [up : BOOLEAN, refcount : Nat, bound : Queues \cup {0}]
SockPcs == {"none", "rx", "tx", "bind", "getid", "load", "attach", "getfd", "lookup", "update", "up"}
SockT == [pc : SockPcs, q : Queues \cup {0}, own : BOOLEAN, rx : BOOLEAN, inhibit : BOOLEAN, noexist : BOOLEAN,
          maps : 0 .. 2, prog : 0 .. MaxProgs, map : 0 .. MaxProgs]
HasT == [fds : Nat, mmaps : Nat, progs : [ProgIds -> Nat], maps : [ProgIds -> Nat]]
LostT == [refs : Nat, mmaps : Nat, bound : SUBSET Queues]
EntriesT == [ProgIds -> [Queues -> (Users \X Slots) \cup {NoEntry}]]

\* the type invariant, with its records by name
LEMMA Types ==
  /\ XTypeOK <=> /\ umem \in [Users -> UmemT] /\ sock \in [Users -> [Slots -> SockT]] /\ has \in [Users -> HasT]
                 /\ iface \in 0 .. MaxProgs /\ next_prog \in 1 .. MaxProgs + 1 /\ entries \in EntriesT
                 /\ calls \in 0 .. MaxCalls /\ lost \in [Users -> LostT] /\ replaced \subseteq ProgIds
  /\ XTypeOK' <=> /\ umem' \in [Users -> UmemT] /\ sock' \in [Users -> [Slots -> SockT]] /\ has' \in [Users -> HasT]
                  /\ iface' \in 0 .. MaxProgs /\ next_prog' \in 1 .. MaxProgs + 1 /\ entries' \in EntriesT
                  /\ calls' \in 0 .. MaxCalls /\ lost' \in [Users -> LostT] /\ replaced' \subseteq ProgIds
  BY DEF XTypeOK, UmemT, SockPcs, SockT, HasT, LostT, EntriesT

\* where there is nothing
LEMMA Nones ==
  /\ NoSocket \in SockT /\ NoSocket.pc = "none" /\ ~NoSocket.own /\ NoSocket.maps = 0
  /\ NoSocket.prog = 0 /\ NoSocket.map = 0 /\ ~NoSocket.inhibit
  /\ NoUmem \in UmemT /\ ~NoUmem.up /\ NoUmem.refcount = 0
  /\ Nothing \in HasT /\ Nothing.fds = 0 /\ Nothing.mmaps = 0
  /\ \A n \in ProgIds : Nothing.progs[n] = 0 /\ Nothing.maps[n] = 0
  /\ MaxProgs \in Nat /\ MaxCalls \in Nat /\ ProgIds = 1 .. MaxProgs /\ Slots = {1, 2} /\ 0 \notin ProgIds
  BY CallsAssumption DEF NoSocket, SockT, SockPcs, NoUmem, UmemT, Nothing, HasT, ProgIds, Slots

\* a field is changed
LEMMA UmemSet ==
  ASSUME NEW m \in UmemT, NEW x \in Nat, NEW q \in Queues \cup {0}
  PROVE  /\ [m EXCEPT !.refcount = x] \in UmemT /\ [m EXCEPT !.refcount = x].refcount = x
         /\ [m EXCEPT !.refcount = x].up = m.up /\ [m EXCEPT !.refcount = x].bound = m.bound
         /\ [m EXCEPT !.bound = q] \in UmemT /\ [m EXCEPT !.bound = q].bound = q
         /\ [m EXCEPT !.bound = q].up = m.up /\ [m EXCEPT !.bound = q].refcount = m.refcount
  BY DEF UmemT

LEMMA HasSet ==
  ASSUME NEW h \in HasT, NEW x \in Nat, NEW y \in Nat
  PROVE  /\ [h EXCEPT !.mmaps = x, !.fds = y] \in HasT
         /\ [h EXCEPT !.mmaps = x, !.fds = y].mmaps = x /\ [h EXCEPT !.mmaps = x, !.fds = y].fds = y
         /\ [h EXCEPT !.mmaps = x, !.fds = y].progs = h.progs /\ [h EXCEPT !.mmaps = x, !.fds = y].maps = h.maps
  BY DEF HasT

LEMMA LostSet ==
  ASSUME NEW l \in LostT, NEW x \in Nat
  PROVE  /\ [l EXCEPT !.refs = x] \in LostT /\ [l EXCEPT !.refs = x].refs = x
         /\ [l EXCEPT !.refs = x].mmaps = l.mmaps
         /\ [l EXCEPT !.mmaps = x] \in LostT /\ [l EXCEPT !.mmaps = x].mmaps = x
         /\ [l EXCEPT !.mmaps = x].refs = l.refs
  BY DEF LostT

\* nothing is lost
LEMMA NoneLost == NoLoss \in LostT /\ NoLoss.refs = 0 /\ NoLoss.mmaps = 0
  BY DEF NoLoss, LostT

\* the references of a creation are closed
Released(h, s, g) ==
  /\ g.fds = h.fds /\ g.mmaps = h.mmaps
  /\ \A n \in ProgIds : g.progs[n] = h.progs[n] - One(Opens(s, n)) /\ g.maps[n] = h.maps[n] - One(s.map = n)

\* its count, rings and descriptor go
Backed(m, s, g, m2, h2) ==
  /\ m2 = [m EXCEPT !.refcount = m.refcount - 1]
  /\ h2 = [g EXCEPT !.mmaps = g.mmaps - s.maps, !.fds = g.fds - One(s.own)]

\* what the unwinding of a creation leaves, when the references are closed
LEMMA Unwound ==
  ASSUME NEW m \in UmemT, NEW s \in SockT, NEW t \in SockT, NEW h \in HasT, NEW l \in LostT, NEW g \in HasT,
         Fits(m, s), Fits(m, t), Together(s, t), Counts(m, s, t, h, l), s.pc # "none", t.pc \in {"none", "up"},
         Released(h, s, g), NEW m2, NEW h2, Backed(m, s, g, m2, h2)
  PROVE  /\ m2 \in UmemT /\ h2 \in HasT
         /\ Fits(m2, NoSocket) /\ Fits(m2, t) /\ Together(NoSocket, t) /\ Counts(m2, NoSocket, t, h2, l)
  <1>. USE DEF Released, Backed
  <1>1. /\ m.refcount \in Nat /\ m.up \in BOOLEAN /\ s.maps \in Nat /\ t.maps \in Nat /\ s.own \in BOOLEAN
        /\ t.own \in BOOLEAN /\ h.fds \in Nat /\ h.mmaps \in Nat /\ l.refs \in Nat /\ l.mmaps \in Nat
        /\ t.inhibit \in BOOLEAN
    BY DEF UmemT, SockT, HasT, LostT
  <1>2. m.refcount = 1 + One(t.pc # "none") + l.refs /\ m.refcount >= 1
    BY <1>1 DEF Counts, One
  <1>3. m.refcount - 1 \in Nat
    BY <1>1, <1>2
  <1>4. m2 \in UmemT /\ m2.refcount = m.refcount - 1 /\ m2.up = m.up /\ m2.bound = m.bound
    BY <1>3, UmemSet
  <1>6. h.fds = One(m.up) + One(s.own) + One(t.own) /\ h.mmaps = (2 * One(m.up)) + s.maps + t.maps + l.mmaps
        /\ One(m.up) \in {0, 1} /\ One(s.own) \in {0, 1} /\ One(t.own) \in {0, 1}
    BY DEF Counts, One
  <1>7. g.fds - One(s.own) \in Nat /\ g.mmaps - s.maps \in Nat
        /\ g.fds - One(s.own) = One(m.up) + One(t.own) /\ g.mmaps - s.maps = (2 * One(m.up)) + t.maps + l.mmaps
    BY <1>1, <1>6
  <1>8. /\ h2 \in HasT /\ h2.fds = One(m.up) + One(t.own) /\ h2.mmaps = (2 * One(m.up)) + t.maps + l.mmaps
        /\ h2.progs = g.progs /\ h2.maps = g.maps
    <2>1. PICK x \in Nat : x = g.mmaps - s.maps
      BY <1>7
    <2>2. PICK y \in Nat : y = g.fds - One(s.own)
      BY <1>7
    <2>3. h2 = [g EXCEPT !.mmaps = x, !.fds = y]
      BY <2>1, <2>2
    <2>4. h2 \in HasT /\ h2.mmaps = x /\ h2.fds = y /\ h2.progs = g.progs /\ h2.maps = g.maps
      BY <2>3 DEF HasT
    <2> QED
      BY <1>7, <2>1, <2>2, <2>4
  <1>10. Fits(m2, NoSocket) /\ Together(NoSocket, t)
    BY Nones DEF Fits, Together, Setup
  <1>11. Fits(m2, t)
    BY <1>4 DEF Fits, Setup
  <1>12. Counts(m2, NoSocket, t, h2, l)
    <2>1. m2.refcount = One(NoSocket.pc # "none") + One(t.pc # "none") + l.refs
      BY <1>1, <1>2, <1>4, Nones DEF One
    <2>2. ~m2.up => m2.refcount = 0
      <3>1. m.up
        BY <1>2 DEF Counts
      <3> QED
        BY <1>4, <3>1
    <2>3. h2.fds = One(m2.up) + One(NoSocket.own) + One(t.own)
      BY <1>4, <1>6, <1>8, Nones DEF One
    <2>4. h2.mmaps = (2 * One(m2.up)) + NoSocket.maps + t.maps + l.mmaps
      BY <1>1, <1>4, <1>6, <1>8, Nones
    <2>5. ASSUME NEW n \in ProgIds
          PROVE  h2.progs[n] = One(Opens(NoSocket, n)) + One(Opens(t, n)) /\ h2.maps[n] = One(NoSocket.map = n) + One(t.map = n)
      <3>1. h.progs[n] = One(Opens(s, n)) + One(Opens(t, n)) /\ h.maps[n] = One(s.map = n) + One(t.map = n)
        BY DEF Counts
      <3>2. h2.progs[n] = h.progs[n] - One(Opens(s, n)) /\ h2.maps[n] = h.maps[n] - One(s.map = n)
        BY <1>8
      <3>3. ~Opens(NoSocket, n) /\ NoSocket.map # n
        BY Nones DEF Opens
      <3>4. One(Opens(NoSocket, n)) = 0 /\ One(NoSocket.map = n) = 0
        BY <3>3 DEF One
      <3>5. One(Opens(s, n)) \in {0, 1} /\ One(Opens(t, n)) \in {0, 1} /\ One(s.map = n) \in {0, 1} /\ One(t.map = n) \in {0, 1}
        BY DEF One
      <3> QED
        BY <3>1, <3>2, <3>4, <3>5
    <2> QED
      BY <2>1, <2>2, <2>3, <2>4, <2>5 DEF Counts
  <1>13. QED BY <1>4, <1>8, <1>10, <1>11, <1>12

-----------------------------------------------------------------------------
(* Steps of one user, about its umem and one of its sockets.               *)

\* beside a slot there is one other
LEMMA TwoSlots ==
  ASSUME NEW k \in Slots
  PROVE  \E j \in Slots : j # k /\ \A i \in Slots : i = k \/ i = j
  BY DEF Slots

\* nothing depends on which of the slots comes first
LEMMA EitherSlot ==
  ASSUME NEW m \in UmemT, NEW s \in SockT, NEW t \in SockT, NEW h \in HasT, NEW l \in LostT,
         Together(s, t), Counts(m, s, t, h, l)
  PROVE  Together(t, s) /\ Counts(m, t, s, h, l)
  <1>1. /\ s.maps \in Nat /\ t.maps \in Nat /\ l.refs \in Nat /\ l.mmaps \in Nat /\ \A b : One(b) \in {0, 1}
    BY DEF SockT, LostT, One
  <1>2. Together(t, s)
    BY DEF Together
  <1>3. /\ m.refcount = One(t.pc # "none") + One(s.pc # "none") + l.refs
        /\ ~m.up => m.refcount = 0
        /\ h.fds = One(m.up) + One(t.own) + One(s.own)
        /\ h.mmaps = (2 * One(m.up)) + t.maps + s.maps + l.mmaps
    BY <1>1 DEF Counts
  <1>4. \A n \in ProgIds : h.progs[n] = One(Opens(t, n)) + One(Opens(s, n))
                           /\ h.maps[n] = One(t.map = n) + One(s.map = n)
    BY <1>1 DEF Counts
  <1>5. QED BY <1>2, <1>3, <1>4 DEF Counts

\* the invariant, at any slot
LEMMA AtSlot ==
  ASSUME SInv, NEW u \in Users, NEW k \in Slots, NEW j \in Slots, j # k
  PROVE  /\ umem[u] \in UmemT /\ sock[u][k] \in SockT /\ sock[u][j] \in SockT /\ has[u] \in HasT /\ lost[u] \in LostT
         /\ Fits(umem[u], sock[u][k]) /\ Fits(umem[u], sock[u][j]) /\ Together(sock[u][k], sock[u][j])
         /\ Counts(umem[u], sock[u][k], sock[u][j], has[u], lost[u])
  <1>1. /\ umem[u] \in UmemT /\ \A i \in Slots : sock[u][i] \in SockT /\ has[u] \in HasT /\ lost[u] \in LostT
    BY Types DEF SInv
  <1>2. UserOK(u) /\ 1 \in Slots /\ 2 \in Slots
    BY DEF SInv, Slots
  <1>3. (k = 1 /\ j = 2) \/ (k = 2 /\ j = 1)
    BY DEF Slots
  <1>4. Together(sock[u][2], sock[u][1]) /\ Counts(umem[u], sock[u][2], sock[u][1], has[u], lost[u])
    BY <1>1, <1>2, EitherSlot DEF UserOK
  <1>5. QED BY <1>1, <1>2, <1>3, <1>4 DEF UserOK

\* the changes of one step
Changes(u, k, m, s, h, l) ==
  /\ umem' = [umem EXCEPT ![u] = m] \/ (umem' = umem /\ m = umem[u])
  /\ sock' = [sock EXCEPT ![u][k] = s] \/ (sock' = sock /\ s = sock[u][k])
  /\ has' = [has EXCEPT ![u] = h] \/ (has' = has /\ h = has[u])
  /\ lost' = [lost EXCEPT ![u] = l] \/ (lost' = lost /\ l = lost[u])

\* a step of one user that keeps its counts keeps those of everyone
LEMMA Stepped ==
  ASSUME SInv, NEW u \in Users, NEW k \in Slots, NEW j \in Slots, j # k,
         NEW m \in UmemT, NEW s \in SockT, NEW h \in HasT, NEW l \in LostT, Changes(u, k, m, s, h, l),
         Fits(m, s), Fits(m, sock[u][j]), Together(s, sock[u][j]), Counts(m, s, sock[u][j], h, l)
  PROVE  /\ umem' \in [Users -> UmemT] /\ sock' \in [Users -> [Slots -> SockT]] /\ has' \in [Users -> HasT]
         /\ lost' \in [Users -> LostT]
         /\ \A v \in Users : UserOK(v)'
         /\ sock'[u][k] = s /\ sock'[u][j] = sock[u][j] /\ \A v \in Users \ {u} : sock'[v] = sock[v]
         /\ \A i \in Slots : i = k \/ i = j
  <1>1. /\ umem \in [Users -> UmemT] /\ sock \in [Users -> [Slots -> SockT]] /\ has \in [Users -> HasT]
        /\ lost \in [Users -> LostT] /\ \A v \in Users : UserOK(v)
    BY Types DEF SInv
  <1>2. umem' \in [Users -> UmemT] /\ umem'[u] = m /\ \A v \in Users \ {u} : umem'[v] = umem[v]
    BY <1>1 DEF Changes
  <1>3. has' \in [Users -> HasT] /\ has'[u] = h /\ \A v \in Users \ {u} : has'[v] = has[v]
    BY <1>1 DEF Changes
  <1>4. lost' \in [Users -> LostT] /\ lost'[u] = l /\ \A v \in Users \ {u} : lost'[v] = lost[v]
    BY <1>1 DEF Changes
  <1>5. /\ sock' \in [Users -> [Slots -> SockT]] /\ sock'[u][k] = s /\ sock'[u][j] = sock[u][j]
        /\ \A v \in Users \ {u} : sock'[v] = sock[v]
    <2>1. CASE sock' = sock /\ s = sock[u][k]
      BY <1>1, <2>1
    <2>2. CASE sock' = [sock EXCEPT ![u][k] = s]
      <3>1. PICK r \in [Slots -> SockT] : r = [sock[u] EXCEPT ![k] = s]
        BY <1>1
      <3>2. sock' = [sock EXCEPT ![u] = r]
        BY <2>2, <3>1
      <3>3. r[k] = s /\ r[j] = sock[u][j]
        BY <1>1, <3>1
      <3> QED
        BY <1>1, <3>2, <3>3
    <2> QED
      BY <2>1, <2>2 DEF Changes
  <1>6. /\ (k = 1 /\ j = 2) \/ (k = 2 /\ j = 1)
        /\ \A i \in Slots : i = k \/ i = j
    BY DEF Slots
  <1>7. UserOK(u)'
    <2>1. Together(sock[u][j], s) /\ Counts(m, sock[u][j], s, h, l)
      BY <1>1, EitherSlot
    <2> QED
      BY <1>2, <1>3, <1>4, <1>5, <1>6, <2>1 DEF UserOK
  <1>8. \A v \in Users \ {u} : UserOK(v)'
    BY <1>1, <1>2, <1>3, <1>4, <1>5 DEF UserOK
  <1>9. QED BY <1>2, <1>3, <1>4, <1>5, <1>6, <1>7, <1>8

\* the program on the interface, or others over it
Attached(n) == iface = n \/ n \in replaced

\* what such a step has to leave alone on the interface
LEMMA ElsewhereStays ==
  ASSUME SInv, NEW u \in Users, NEW k \in Slots, NEW j \in Slots, NEW s \in SockT,
         sock'[u][k] = s, sock'[u][j] = sock[u][j], \A v \in Users \ {u} : sock'[v] = sock[v],
         \A i \in Slots : i = k \/ i = j,
         \* its queue was its own, or is no other's
         Served(s) => (Served(sock[u][k]) /\ s.q = sock[u][k].q) \/ \A v \in Users \ {u} : umem[v].bound # s.q,
         \* its program is the one on the interface, and others' were and are
         s.pc \in {"getfd", "lookup", "update", "up"} /\ s.prog # 0 => Attached(s.prog)',
         \A n \in ProgIds : Attached(n) => Attached(n)',
         \* its entry is made, and others' are left
         s.pc = "up" /\ s.rx /\ ~s.inhibit => entries'[s.map][s.q] = <<u, k>>,
         \A n \in ProgIds, q \in Queues :
           entries'[n][q] = entries[n][q] \/ entries[n][q] = <<u, k>>
           \/ (Served(sock[u][k]) /\ sock[u][k].map = n /\ sock[u][k].q = q)
  PROVE  Queued' /\ OnInterface' /\ Entered'
  <1>1. /\ Queued /\ OnInterface /\ Entered /\ \A v \in Users : UserOK(v)
        /\ \A v \in Users, i \in Slots : sock[v][i] \in SockT
    BY Types DEF SInv
  <1>2. \A v \in Users, i \in Slots : (v = u /\ i = k) \/ sock'[v][i] = sock[v][i]
    OBVIOUS
  <1>3. \A v \in Users, i \in Slots : Served(sock[v][i]) => umem[v].bound = sock[v][i].q
    BY <1>1 DEF UserOK, Served, Fits, Slots
  <1>4. Queued'
    <2>1. ASSUME NEW v \in Users \ {u}, NEW i \in Slots, Served(s), Served(sock[v][i])
          PROVE  s.q # sock[v][i].q
      BY <1>1, <1>3, <2>1 DEF Queued
    <2>2. ASSUME NEW v \in Users, NEW w \in Users, NEW i \in Slots, NEW g \in Slots, v # w,
                 Served(sock'[v][i]), Served(sock'[w][g])
          PROVE  sock'[v][i].q # sock'[w][g].q
      <3>1. CASE v = u /\ i = k
        BY <1>2, <2>1, <2>2, <3>1
      <3>2. CASE w = u /\ g = k
        BY <1>2, <2>1, <2>2, <3>2
      <3>3. CASE ~(v = u /\ i = k) /\ ~(w = u /\ g = k)
        BY <1>1, <1>2, <2>2, <3>3 DEF Queued
      <3> QED
        BY <3>1, <3>2, <3>3
    <2> QED
      BY <2>2 DEF Queued, Served
  <1>5. OnInterface'
    <2>1. ASSUME NEW v \in Users, NEW i \in Slots,
                 sock'[v][i].pc \in {"getfd", "lookup", "update", "up"}, sock'[v][i].prog # 0
          PROVE  iface' = sock'[v][i].prog \/ sock'[v][i].prog \in replaced'
      <3>1. CASE v = u /\ i = k
        BY <2>1, <3>1 DEF Attached
      <3>2. CASE ~(v = u /\ i = k)
        <4>1. sock'[v][i] = sock[v][i] /\ sock[v][i].prog \in ProgIds
          BY <1>1, <1>2, <2>1, <3>2, Nones DEF SockT
        <4>2. Attached(sock[v][i].prog)
          BY <1>1, <2>1, <4>1 DEF OnInterface, Attached
        <4> QED
          BY <4>1, <4>2 DEF Attached
      <3> QED
        BY <3>1, <3>2
    <2> QED
      BY <2>1 DEF OnInterface, Attached
  <1>6. Entered'
    <2>1. ASSUME NEW v \in Users, NEW i \in Slots,
                 sock'[v][i].pc = "up", sock'[v][i].rx, ~sock'[v][i].inhibit
          PROVE  entries'[sock'[v][i].map][sock'[v][i].q] = <<v, i>>
      <3>1. CASE v = u /\ i = k
        BY <2>1, <3>1
      <3>2. CASE ~(v = u /\ i = k)
        <4>1. sock'[v][i] = sock[v][i] /\ Served(sock[v][i])
          BY <1>2, <2>1, <3>2 DEF Served
        <4>2. Fits(umem[v], sock[v][i])
          BY <1>1 DEF UserOK, Slots
        <4>3. sock[v][i].map \in ProgIds /\ sock[v][i].q \in Queues
          BY <1>1, <2>1, <4>1, <4>2, Nones DEF Fits, SockT
        <4>4. entries[sock[v][i].map][sock[v][i].q] = <<v, i>>
          BY <1>1, <2>1, <4>1 DEF Entered
        <4>5. ~(Served(sock[u][k]) /\ sock[u][k].q = sock[v][i].q)
          <5>1. CASE v # u
            BY <1>1, <4>1, <5>1 DEF Queued
          <5>2. CASE v = u
            <6>1. sock[u][k].pc # "none" /\ sock[u][i].pc # "none" => sock[u][k].inhibit \/ sock[u][i].inhibit
              BY <1>1, <3>2, <5>2 DEF UserOK, Together, Slots
            <6> QED
              BY <4>1, <5>2, <6>1 DEF Served, Setup
          <5> QED
            BY <5>1, <5>2
        <4> QED
          BY SMTT(30), <3>2, <4>1, <4>3, <4>4, <4>5
      <3> QED
        BY <3>1, <3>2
    <2> QED
      BY <2>1 DEF Entered
  <1>7. QED BY <1>4, <1>5, <1>6

\* together: the step keeps the invariant
LEMMA Whole ==
  ASSUME SInv, NEW u \in Users, NEW k \in Slots, NEW j \in Slots, j # k,
         NEW m \in UmemT, NEW s \in SockT, NEW h \in HasT, NEW l \in LostT, Changes(u, k, m, s, h, l),
         Fits(m, s), Fits(m, sock[u][j]), Together(s, sock[u][j]), Counts(m, s, sock[u][j], h, l),
         iface' \in 0 .. MaxProgs, next_prog' \in 1 .. MaxProgs + 1, entries' \in EntriesT,
         calls' \in 0 .. MaxCalls, replaced' \subseteq ProgIds,
         Served(s) => (Served(sock[u][k]) /\ s.q = sock[u][k].q) \/ \A v \in Users \ {u} : umem[v].bound # s.q,
         s.pc \in {"getfd", "lookup", "update", "up"} /\ s.prog # 0 => Attached(s.prog)',
         \A n \in ProgIds : Attached(n) => Attached(n)',
         s.pc = "up" /\ s.rx /\ ~s.inhibit => entries'[s.map][s.q] = <<u, k>>,
         \A n \in ProgIds, q \in Queues :
           entries'[n][q] = entries[n][q] \/ entries[n][q] = <<u, k>>
           \/ (Served(sock[u][k]) /\ sock[u][k].map = n /\ sock[u][k].q = q)
  PROVE  SInv'
  <1>1. /\ umem' \in [Users -> UmemT] /\ sock' \in [Users -> [Slots -> SockT]] /\ has' \in [Users -> HasT]
        /\ lost' \in [Users -> LostT]
        /\ \A v \in Users : UserOK(v)'
        /\ sock'[u][k] = s /\ sock'[u][j] = sock[u][j] /\ \A v \in Users \ {u} : sock'[v] = sock[v]
        /\ \A i \in Slots : i = k \/ i = j
    BY Stepped
  <1>2. XTypeOK'
    BY <1>1, Types
  <1>3. Queued' /\ OnInterface' /\ Entered'
    BY SMTT(30), <1>1, ElsewhereStays
  <1>4. QED BY <1>1, <1>2, <1>3 DEF SInv

\* and when it does not touch the interface and the maps
LEMMA Quiet ==
  ASSUME SInv, NEW u \in Users, NEW k \in Slots, NEW j \in Slots, j # k,
         NEW m \in UmemT, NEW s \in SockT, NEW h \in HasT, NEW l \in LostT, Changes(u, k, m, s, h, l),
         Fits(m, s), Fits(m, sock[u][j]), Together(s, sock[u][j]), Counts(m, s, sock[u][j], h, l),
         UNCHANGED <<iface, entries, replaced>>,
         next_prog' \in 1 .. MaxProgs + 1, calls' \in 0 .. MaxCalls,
         s = sock[u][k] \/
           /\ Served(s) => (Served(sock[u][k]) /\ s.q = sock[u][k].q) \/ \A v \in Users \ {u} : umem[v].bound # s.q
           /\ s.pc \in {"getfd", "lookup", "update", "up"} /\ s.prog # 0 => Attached(s.prog)
           /\ s.pc = "up" => s.inhibit
  PROVE  SInv'
  <1>1. /\ iface' \in 0 .. MaxProgs /\ entries' \in EntriesT /\ replaced' \subseteq ProgIds
        /\ OnInterface /\ Entered
    BY Types DEF SInv
  <1>2. \A n : Attached(n)' <=> Attached(n)
    BY DEF Attached
  <1>3. s.pc \in {"getfd", "lookup", "update", "up"} /\ s.prog # 0 => Attached(s.prog)'
    BY <1>1, <1>2 DEF OnInterface, Attached
  <1>4. s.pc = "up" /\ s.rx /\ ~s.inhibit => entries'[s.map][s.q] = <<u, k>>
    BY <1>1 DEF Entered
  <1>5. Served(s) => (Served(sock[u][k]) /\ s.q = sock[u][k].q) \/ \A v \in Users \ {u} : umem[v].bound # s.q
    OBVIOUS
  <1>6. /\ \A n \in ProgIds : Attached(n) => Attached(n)'
        /\ \A n \in ProgIds, q \in Queues : entries'[n][q] = entries[n][q]
    BY <1>2
  <1>7. QED BY <1>1, <1>3, <1>4, <1>5, <1>6, Whole

\* the entry of a socket's queue is taken out
LEMMA Removed ==
  ASSUME SInv, NEW s \in SockT, s.q \in Queues
  PROVE  /\ Deleted(s) \in EntriesT
         /\ \A n \in ProgIds, q \in Queues : Deleted(s)[n][q] = entries[n][q] \/ (s.map = n /\ s.q = q)
  <1>1. entries \in EntriesT /\ NoEntry \in (Users \X Slots) \cup {NoEntry}
    BY Types DEF SInv
  <1>2. CASE s.map = 0
    BY <1>1, <1>2 DEF Deleted
  <1>3. CASE s.map # 0
    <2>1. s.map \in ProgIds
      BY <1>3, Nones DEF SockT
    <2>2. Deleted(s) = [entries EXCEPT ![s.map] = [entries[s.map] EXCEPT ![s.q] = NoEntry]]
      BY <1>3 DEF Deleted
    <2>3. [entries[s.map] EXCEPT ![s.q] = NoEntry] \in [Queues -> (Users \X Slots) \cup {NoEntry}]
      BY <1>1, <2>1 DEF EntriesT
    <2> QED
      BY <1>1, <2>1, <2>2, <2>3 DEF EntriesT
  <1>4. QED BY <1>2, <1>3

\* a socket's references are closed
LEMMA RefsClosed ==
  ASSUME NEW h \in HasT, NEW s \in SockT,
         \A n \in ProgIds : h.progs[n] >= One(s.prog = n) /\ h.maps[n] >= One(s.map = n)
  PROVE  /\ WithoutRefs(h, s) \in HasT
         /\ WithoutRefs(h, s).fds = h.fds /\ WithoutRefs(h, s).mmaps = h.mmaps
         /\ \A n \in ProgIds : /\ WithoutRefs(h, s).progs[n] = h.progs[n] - One(s.prog = n)
                               /\ WithoutRefs(h, s).maps[n] = h.maps[n] - One(s.map = n)
  <1>. DEFINE P == [n \in ProgIds |-> IF n = s.prog THEN h.progs[n] - 1 ELSE h.progs[n]]
  <1>. DEFINE M == [n \in ProgIds |-> IF n = s.map THEN h.maps[n] - 1 ELSE h.maps[n]]
  <1>1. \A n \in ProgIds : h.progs[n] \in Nat /\ h.maps[n] \in Nat
    BY DEF HasT
  <1>2. /\ P \in [ProgIds -> Nat] /\ M \in [ProgIds -> Nat]
        /\ \A n \in ProgIds : P[n] = h.progs[n] - One(s.prog = n) /\ M[n] = h.maps[n] - One(s.map = n)
    BY <1>1 DEF One
  <1>3. WithoutRefs(h, s) = [h EXCEPT !.progs = P, !.maps = M]
    BY DEF WithoutRefs
  <1>. HIDE DEF P, M
  <1>4. /\ WithoutRefs(h, s) \in HasT
        /\ WithoutRefs(h, s).fds = h.fds /\ WithoutRefs(h, s).mmaps = h.mmaps
        /\ WithoutRefs(h, s).progs = P /\ WithoutRefs(h, s).maps = M
    BY <1>2, <1>3 DEF HasT
  <1>5. QED BY <1>2, <1>4

\* a creation that is given up, with what the process has beside it
LEMMA CreationUnwound ==
  ASSUME SInv, NEW u \in Users, NEW k \in Slots, sock[u][k].pc \notin {"none", "up"}, NEW g \in HasT,
         Released(has[u], sock[u][k], g),
         Unwind(u, k, g), UNCHANGED <<iface, next_prog, calls, lost, replaced>>,
         entries' = entries \/ (sock[u][k].pc \in Setup /\ entries' = Deleted(sock[u][k]))
  PROVE  SInv'
  <1>1. PICK j \in Slots : j # k
    BY TwoSlots
  <1>. DEFINE s == sock[u][k]
  <1>. DEFINE m2 == [umem[u] EXCEPT !.refcount = umem[u].refcount - 1]
  <1>. DEFINE h2 == [g EXCEPT !.mmaps = g.mmaps - s.maps,
                              !.fds = g.fds - One(s.own)]
  <1>2. /\ umem[u] \in UmemT /\ s \in SockT /\ sock[u][j] \in SockT /\ has[u] \in HasT /\ lost[u] \in LostT
        /\ Fits(umem[u], s) /\ Fits(umem[u], sock[u][j]) /\ Together(s, sock[u][j])
        /\ Counts(umem[u], s, sock[u][j], has[u], lost[u])
    BY <1>1, AtSlot
  <1>3. /\ m2 \in UmemT /\ h2 \in HasT
        /\ Fits(m2, NoSocket) /\ Fits(m2, sock[u][j]) /\ Together(NoSocket, sock[u][j])
        /\ Counts(m2, NoSocket, sock[u][j], h2, lost[u])
    <2>1. Backed(umem[u], s, g, m2, h2)
      BY DEF Backed
    <2>2. s.pc # "none" /\ sock[u][j].pc \in {"none", "up"} /\ Released(has[u], s, g)
      BY <1>2 DEF Together
    <2>. HIDE DEF s, m2, h2
    <2> QED
      BY <1>2, <2>1, <2>2, Unwound
  <1>4. Changes(u, k, m2, NoSocket, h2, lost[u])
    <2>1. (IF ClosesOwn(umem[u].refcount) THEN 1 ELSE 0) = One(s.own)
      BY <1>2 DEF Fits, ClosesOwn, One, UmemT
    <2> QED
      BY <2>1 DEF Unwind, Put, Changes
  <1>. HIDE DEF m2, h2
  <1>5. s.q \in Queues /\ (s.pc \in Setup => Served(s))
    BY <1>2 DEF Fits, Served
  <1>6. /\ entries' \in EntriesT
        /\ \A n \in ProgIds, q \in Queues :
             entries'[n][q] = entries[n][q] \/ (Served(s) /\ s.map = n /\ s.q = q)
    BY <1>2, <1>5, Removed, Types DEF SInv
  <1>7. /\ iface' \in 0 .. MaxProgs /\ next_prog' \in 1 .. MaxProgs + 1 /\ calls' \in 0 .. MaxCalls
        /\ replaced' \subseteq ProgIds /\ \A n \in ProgIds : Attached(n) => Attached(n)'
    BY Types DEF SInv, Attached
  <1>8. ~Served(NoSocket) /\ NoSocket.prog = 0 /\ NoSocket.pc # "up" /\ NoSocket \in SockT
    BY Nones DEF Served, Setup
  <1>9. QED BY <1>1, <1>2, <1>3, <1>4, <1>6, <1>7, <1>8, Whole

\* the umem is created, in whole or in part
LEMMA UmemCreated == ASSUME SInv, NEW u \in Users, xsk_umem__create(u)  PROVE  SInv'
  <1>1. 1 \in Slots /\ 2 \in Slots /\ 1 # 2
    BY DEF Slots
  <1>. DEFINE s == sock[u][1]
  <1>. DEFINE t == sock[u][2]
  <1>2. /\ umem[u] \in UmemT /\ s \in SockT /\ t \in SockT /\ has[u] \in HasT /\ lost[u] \in LostT
        /\ Fits(umem[u], s) /\ Fits(umem[u], t) /\ Together(s, t)
        /\ Counts(umem[u], s, t, has[u], lost[u]) /\ has \in [Users -> HasT] /\ lost \in [Users -> LostT]
        /\ umem \in [Users -> UmemT]
    BY <1>1, AtSlot, Types DEF SInv
  <1>3. /\ has[u].fds \in Nat /\ has[u].mmaps \in Nat /\ lost[u].refs \in Nat /\ lost[u].mmaps \in Nat
        /\ s.maps \in Nat /\ t.maps \in Nat
    BY <1>2 DEF HasT, LostT, SockT
  <1>4. s.pc = "none" /\ t.pc = "none" /\ lost[u].refs = 0 /\ umem[u].refcount = 0
    BY <1>2, <1>3 DEF xsk_umem__create, Counts, One
  <1>5. /\ UNCHANGED <<iface, entries, replaced>> /\ next_prog' \in 1 .. MaxProgs + 1 /\ calls' \in 0 .. MaxCalls
    BY Types, Nones DEF xsk_umem__create, SInv
  <1>6. CASE umem' = [umem EXCEPT ![u] = [NoUmem EXCEPT !.up = TRUE]]
             /\ has' = [has EXCEPT ![u].fds = @ + 1, ![u].mmaps = @ + 2] /\ UNCHANGED lost
    <2>1. PICK m \in UmemT : m = [NoUmem EXCEPT !.up = TRUE] /\ m.up /\ m.refcount = 0
        <3>1. /\ [NoUmem EXCEPT !.up = TRUE] \in UmemT /\ [NoUmem EXCEPT !.up = TRUE].up
            /\ [NoUmem EXCEPT !.up = TRUE].refcount = NoUmem.refcount
        BY Nones DEF UmemT
      <3> QED
        BY <3>1, Nones
    <2>2. PICK x \in Nat : x = has[u].mmaps + 2
      BY <1>3
    <2>3. PICK y \in Nat : y = has[u].fds + 1
      BY <1>3
    <2>4. PICK h : h = [has[u] EXCEPT !.mmaps = x, !.fds = y]
      OBVIOUS
    <2>5. h \in HasT /\ h.mmaps = x /\ h.fds = y /\ h.progs = has[u].progs /\ h.maps = has[u].maps
      BY <1>2, <2>4 DEF HasT
    <2>6. has' = [has EXCEPT ![u].fds = y, ![u].mmaps = x]
      BY <1>6, <2>2, <2>3
    <2>7. has' = [has EXCEPT ![u] = h]
      BY <1>2, <2>4, <2>6 DEF HasT
    <2>8. Changes(u, 1, m, s, h, lost[u])
      BY <1>6, <2>1, <2>7 DEF Changes, xsk_umem__create
    <2>9. Fits(m, s) /\ Fits(m, t)
      BY <1>2, <1>4 DEF Fits, Setup
    <2>10. Counts(m, s, t, h, lost[u])
      <3>1. /\ has[u].fds = One(umem[u].up) + One(s.own) + One(t.own) /\ ~umem[u].up
            /\ has[u].mmaps = (2 * One(umem[u].up)) + s.maps + t.maps + lost[u].mmaps
        BY <1>2 DEF Counts, xsk_umem__create
      <3>2. h.fds = One(m.up) + One(s.own) + One(t.own) /\ h.mmaps = (2 * One(m.up)) + s.maps + t.maps + lost[u].mmaps
        BY <1>3, <2>1, <2>2, <2>3, <2>5, <3>1 DEF One
      <3>3. m.refcount = One(s.pc # "none") + One(t.pc # "none") + lost[u].refs
        BY <1>4, <2>1 DEF One
      <3>4. \A n \in ProgIds : h.progs[n] = One(Opens(s, n)) + One(Opens(t, n))
                               /\ h.maps[n] = One(s.map = n) + One(t.map = n)
        BY <1>2, <2>5 DEF Counts
      <3> QED
        BY <2>1, <3>2, <3>3, <3>4 DEF Counts
    <2>. HIDE DEF s, t
    <2>11. QED BY <1>1, <1>2, <1>5, <2>5, <2>8, <2>9, <2>10, Quiet DEF s, t
  <1>7. CASE has' = [has EXCEPT ![u].mmaps = @ + 1] /\ lost' = [lost EXCEPT ![u].mmaps = @ + 1] /\ UNCHANGED umem
    <2>1. PICK x \in Nat : x = has[u].mmaps + 1
      BY <1>3
    <2>2. PICK z \in Nat : z = lost[u].mmaps + 1
      BY <1>3
    <2>3. PICK h : h = [has[u] EXCEPT !.mmaps = x]
      OBVIOUS
    <2>4. h \in HasT /\ h.mmaps = x /\ h.fds = has[u].fds /\ h.progs = has[u].progs /\ h.maps = has[u].maps
      BY <1>2, <2>3 DEF HasT
    <2>5. PICK l : l = [lost[u] EXCEPT !.mmaps = z]
      OBVIOUS
    <2>6. l \in LostT /\ l.mmaps = z /\ l.refs = lost[u].refs
      BY <1>2, <2>5, LostSet
    <2>7. has' = [has EXCEPT ![u] = h] /\ lost' = [lost EXCEPT ![u] = l]
      BY <1>7, <2>1, <2>2, <2>3, <2>5
    <2>8. Changes(u, 1, umem[u], s, h, l)
      BY <1>7, <2>7 DEF Changes, xsk_umem__create
    <2>9. Counts(umem[u], s, t, h, l)
      BY <1>2, <1>3, <1>4, <2>1, <2>2, <2>4, <2>6 DEF Counts, One
    <2>. HIDE DEF s, t
    <2>10. QED BY <1>1, <1>2, <1>5, <2>4, <2>6, <2>8, <2>9, Quiet DEF s, t
  <1>8. CASE UNCHANGED <<umem, has, lost>>
    <2>1. Changes(u, 1, umem[u], s, has[u], lost[u])
      BY <1>8 DEF Changes, xsk_umem__create
    <2>. HIDE DEF s, t
    <2>2. QED BY <1>1, <1>2, <1>5, <2>1, Quiet DEF s, t
  <1>9. QED BY <1>6, <1>7, <1>8 DEF xsk_umem__create

\* the umem is deleted, which has no socket
LEMMA UmemDeleted == ASSUME SInv, NEW u \in Users, xsk_umem__delete(u)  PROVE  SInv'
  <1>1. 1 \in Slots /\ 2 \in Slots /\ 1 # 2
    BY DEF Slots
  <1>. DEFINE s == sock[u][1]
  <1>. DEFINE t == sock[u][2]
  <1>2. /\ umem[u] \in UmemT /\ s \in SockT /\ t \in SockT /\ has[u] \in HasT /\ lost[u] \in LostT
        /\ Fits(umem[u], s) /\ Fits(umem[u], t) /\ Together(s, t)
        /\ Counts(umem[u], s, t, has[u], lost[u]) /\ has \in [Users -> HasT] /\ lost \in [Users -> LostT]
        /\ umem \in [Users -> UmemT]
    BY <1>1, AtSlot, Types DEF SInv
  <1>3. /\ has[u].fds \in Nat /\ has[u].mmaps \in Nat /\ lost[u].refs \in Nat /\ lost[u].mmaps \in Nat
        /\ s.maps \in Nat /\ t.maps \in Nat
    BY <1>2 DEF HasT, LostT, SockT
  <1>4. s.pc = "none" /\ t.pc = "none" /\ lost[u].refs = 0
    <2>1. umem[u].refcount = One(s.pc # "none") + One(t.pc # "none") + lost[u].refs /\ umem[u].refcount = 0
      BY <1>2 DEF xsk_umem__delete, Deletable, Counts
    <2>2. /\ One(s.pc # "none") \in {0, 1} /\ One(t.pc # "none") \in {0, 1}
          /\ One(s.pc # "none") = 0 => s.pc = "none"
          /\ One(t.pc # "none") = 0 => t.pc = "none"
      BY DEF One
    <2> QED
      BY <1>3, <2>1, <2>2
  <1>5. ~s.own /\ ~t.own /\ s.maps = 0 /\ t.maps = 0 /\ has[u].fds = 1 /\ has[u].mmaps = 2 + lost[u].mmaps
    BY <1>2, <1>3, <1>4 DEF xsk_umem__delete, Fits, Counts, One
  <1>6. PICK y \in Nat : y = has[u].fds - 1
    BY <1>3, <1>5
  <1>7. PICK g : g = [has[u] EXCEPT !.fds = y]
    OBVIOUS
  <1>8. g \in HasT /\ g.mmaps = has[u].mmaps /\ g.fds = y /\ g.progs = has[u].progs /\ g.maps = has[u].maps
    BY <1>2, <1>7 DEF HasT
  <1>9. Unmap(u, 2, g)
    BY <1>6, <1>7 DEF xsk_umem__delete
  <1>10. Fits(NoUmem, s) /\ Fits(NoUmem, t)
    BY <1>2, <1>4 DEF Fits, Setup
  <1>11. /\ UNCHANGED <<iface, entries, replaced>> /\ next_prog' \in 1 .. MaxProgs + 1 /\ calls' \in 0 .. MaxCalls
    BY Types DEF xsk_umem__delete, SInv
  <1>12. CASE has' = [has EXCEPT ![u] = [g EXCEPT !.mmaps = @ - 2]] /\ UNCHANGED lost
    <2>1. PICK x \in Nat : x = has[u].mmaps - 2
      BY <1>3, <1>5
    <2>2. PICK h : h = [g EXCEPT !.mmaps = x]
      OBVIOUS
    <2>3. h \in HasT /\ h.mmaps = x /\ h.fds = y /\ h.progs = has[u].progs /\ h.maps = has[u].maps
      BY <1>8, <2>2 DEF HasT
    <2>4. has' = [has EXCEPT ![u] = h]
      BY <1>8, <1>12, <2>1, <2>2
    <2>5. Changes(u, 1, NoUmem, s, h, lost[u])
      BY <1>12, <2>4 DEF Changes, xsk_umem__delete
    <2>6. Counts(NoUmem, s, t, h, lost[u])
      BY <1>2, <1>3, <1>4, <1>5, <1>6, <2>1, <2>3, Nones DEF Counts, One
    <2>. HIDE DEF s, t
    <2>7. QED BY <1>1, <1>2, <1>10, <1>11, <2>3, <2>5, <2>6, Nones, Quiet DEF s, t
  <1>13. CASE /\ has' = [has EXCEPT ![u] = g]
              /\ lost' = [lost EXCEPT ![u] = [refs |-> @.refs, mmaps |-> @.mmaps + 2,
                                              bound |-> @.bound \cup ({umem[u].bound} \ {0})]]
    <2>1. PICK x \in Nat : x = lost[u].mmaps + 2
      BY <1>3
    <2>2. PICK b \in SUBSET Queues : b = lost[u].bound \cup ({umem[u].bound} \ {0})
      BY <1>2 DEF LostT, UmemT
    <2>3. PICK l : l = [refs |-> lost[u].refs, mmaps |-> x, bound |-> b]
      OBVIOUS
    <2>4. l \in LostT /\ l.mmaps = x /\ l.refs = lost[u].refs
      BY <1>2, <2>3 DEF LostT
    <2>5. lost' = [lost EXCEPT ![u] = l]
      BY <1>13, <2>1, <2>2, <2>3
    <2>6. Changes(u, 1, NoUmem, s, g, l)
      BY <1>13, <2>5 DEF Changes, xsk_umem__delete
    <2>7. Counts(NoUmem, s, t, g, l)
      BY <1>2, <1>3, <1>4, <1>5, <1>6, <1>8, <2>1, <2>4, Nones DEF Counts, One
    <2>. HIDE DEF s, t
    <2>8. QED BY <1>1, <1>2, <1>8, <1>10, <1>11, <2>4, <2>6, <2>7, Nones, Quiet DEF s, t
  <1>14. QED BY <1>9, <1>12, <1>13 DEF Unmap

\* a process ends, at any of its steps
LEMMA ProcessEnded == ASSUME SInv, NEW u \in Users, ProcessExit(u)  PROVE  SInv'
  <1>1. /\ umem \in [Users -> UmemT] /\ sock \in [Users -> [Slots -> SockT]] /\ has \in [Users -> HasT]
        /\ entries \in EntriesT /\ lost \in [Users -> LostT] /\ \A v \in Users : UserOK(v)
        /\ Queued /\ OnInterface /\ Entered
    BY Types DEF SInv
  <1>2. PICK l \in LostT : l = NoLoss /\ l.refs = 0 /\ l.mmaps = 0
    BY NoneLost
  <1>3. /\ umem' \in [Users -> UmemT] /\ umem'[u] = NoUmem /\ \A v \in Users \ {u} : umem'[v] = umem[v]
        /\ has' \in [Users -> HasT] /\ has'[u] = Nothing /\ \A v \in Users \ {u} : has'[v] = has[v]
        /\ lost' \in [Users -> LostT] /\ lost'[u] = l /\ \A v \in Users \ {u} : lost'[v] = lost[v]
    BY <1>1, <1>2, Nones DEF ProcessExit
  <1>4. PICK r \in [Slots -> SockT] : r = [k \in Slots |-> NoSocket]
    BY Nones
  <1>5. sock' = [sock EXCEPT ![u] = r]
    BY <1>4 DEF ProcessExit
  <1>6. /\ sock' \in [Users -> [Slots -> SockT]] /\ \A v \in Users \ {u} : sock'[v] = sock[v]
        /\ \A k \in Slots : sock'[u][k] = NoSocket
    BY <1>1, <1>4, <1>5
  <1>7. /\ entries' \in EntriesT
        /\ \A n \in ProgIds, q \in Queues : entries'[n][q] = entries[n][q] \/ entries[n][q] \in {u} \X Slots
    <2>1. NoEntry \in (Users \X Slots) \cup {NoEntry}
      OBVIOUS
    <2>2. entries' = [n \in ProgIds |-> [q \in Queues |->
                        IF entries[n][q] \in {u} \X Slots THEN NoEntry ELSE entries[n][q]]]
      BY DEF ProcessExit, Purged
    <2> QED
      BY <1>1, <2>1, <2>2 DEF EntriesT
  <1>8. XTypeOK'
    BY <1>3, <1>6, <1>7, Types DEF SInv, ProcessExit
  <1>9. ASSUME NEW v \in Users  PROVE  UserOK(v)'
    <2>1. CASE v # u
      BY <1>1, <1>3, <1>6, <2>1 DEF UserOK
    <2>2. CASE v = u
      <3>1. Fits(NoUmem, NoSocket) /\ Together(NoSocket, NoSocket)
        BY Nones DEF Fits, Together, Setup
      <3>2. Counts(NoUmem, NoSocket, NoSocket, Nothing, l)
        BY <1>2, Nones DEF Counts, One, Opens
      <3> QED
        BY <1>3, <1>6, <2>2, <3>1, <3>2 DEF UserOK, Slots
    <2> QED
      BY <2>1, <2>2
  <1>10. ASSUME NEW v \in Users, NEW k \in Slots, sock'[v][k].pc # "none"  PROVE  v # u /\ sock'[v] = sock[v]
    BY <1>6, <1>10, Nones
  <1>11. Queued'
    BY <1>1, <1>10 DEF Queued, Served, Setup
  <1>12. OnInterface'
    BY <1>1, <1>10 DEF OnInterface, ProcessExit
  <1>13. Entered'
    <2>1. ASSUME NEW v \in Users, NEW i \in Slots,
                 sock'[v][i].pc = "up", sock'[v][i].rx, ~sock'[v][i].inhibit
          PROVE  entries'[sock'[v][i].map][sock'[v][i].q] = <<v, i>>
      <3>1. v # u /\ sock'[v] = sock[v] /\ Fits(umem[v], sock[v][i]) /\ sock[v][i] \in SockT
        BY <1>1, <1>10, <2>1 DEF UserOK, Slots
      <3>2. entries[sock[v][i].map][sock[v][i].q] = <<v, i>>
        BY <1>1, <2>1, <3>1 DEF Entered
      <3>3. sock[v][i].map \in ProgIds /\ sock[v][i].q \in Queues
        BY <2>1, <3>1, Nones DEF Fits, SockT
      <3> QED
        BY SMTT(30), <1>7, <3>1, <3>2, <3>3
    <2> QED
      BY <2>1 DEF Entered
  <1>14. QED BY <1>8, <1>9, <1>11, <1>12, <1>13 DEF SInv

\* the parts of the invariant that a step of a socket's creation needs
LEMMA Part ==
  ASSUME SInv, NEW u \in Users, NEW k \in Slots, sock[u][k].pc \notin {"none", "up"}
  PROVE  \E j \in Slots :
           /\ j # k /\ umem[u] \in UmemT /\ sock[u][k] \in SockT /\ sock[u][j] \in SockT
           /\ has[u] \in HasT /\ lost[u] \in LostT
           /\ Fits(umem[u], sock[u][k]) /\ Fits(umem[u], sock[u][j]) /\ Together(sock[u][k], sock[u][j])
           /\ Counts(umem[u], sock[u][k], sock[u][j], has[u], lost[u])
           /\ sock[u][j].pc \in {"none", "up"}
           /\ next_prog \in 1 .. MaxProgs + 1 /\ calls \in 0 .. MaxCalls /\ iface \in 0 .. MaxProgs
           /\ has \in [Users -> HasT] /\ sock \in [Users -> [Slots -> SockT]]
  <1>1. PICK j \in Slots : j # k
    BY TwoSlots
  <1>2. /\ umem[u] \in UmemT /\ sock[u][k] \in SockT /\ sock[u][j] \in SockT /\ has[u] \in HasT /\ lost[u] \in LostT
        /\ Fits(umem[u], sock[u][k]) /\ Fits(umem[u], sock[u][j]) /\ Together(sock[u][k], sock[u][j])
        /\ Counts(umem[u], sock[u][k], sock[u][j], has[u], lost[u])
    BY <1>1, AtSlot
  <1>3. sock[u][j].pc \in {"none", "up"}
    BY <1>2 DEF Together
  <1>4. QED BY <1>1, <1>2, <1>3, Types DEF SInv

\* the counts of a process, when a socket's step has changed what it says
LEMMA Counted ==
  ASSUME NEW m \in UmemT, NEW s \in SockT, NEW t \in SockT, NEW h \in HasT, NEW l \in LostT,
         NEW s2 \in SockT, NEW h2 \in HasT, Counts(m, s, t, h, l),
         s.pc # "none", s2.pc # "none", s2.own = s.own, h2.fds = h.fds,
         NEW x \in Nat, s2.maps = s.maps + x, h2.mmaps = h.mmaps + x,
         \A n \in ProgIds : /\ h2.progs[n] + One(Opens(s, n)) = h.progs[n] + One(Opens(s2, n))
                            /\ h2.maps[n] + One(s.map = n) = h.maps[n] + One(s2.map = n)
  PROVE  Counts(m, s2, t, h2, l)
  <1>1. /\ s.maps \in Nat /\ t.maps \in Nat /\ l.mmaps \in Nat /\ \A b : One(b) \in {0, 1}
        /\ \A n \in ProgIds : h.progs[n] \in Nat /\ h.maps[n] \in Nat /\ h2.progs[n] \in Nat /\ h2.maps[n] \in Nat
    BY DEF SockT, LostT, HasT, One
  <1>2. m.refcount = One(s2.pc # "none") + One(t.pc # "none") + l.refs /\ (~m.up => m.refcount = 0)
    BY DEF Counts, One
  <1>3. h2.fds = One(m.up) + One(s2.own) + One(t.own)
    BY DEF Counts
  <1>4. h2.mmaps = (2 * One(m.up)) + s2.maps + t.maps + l.mmaps
    <2>1. h.mmaps = (2 * One(m.up)) + s.maps + t.maps + l.mmaps /\ One(m.up) \in {0, 1}
      BY <1>1 DEF Counts
    <2> QED
      BY <1>1, <2>1
  <1>5. ASSUME NEW n \in ProgIds
        PROVE  h2.progs[n] = One(Opens(s2, n)) + One(Opens(t, n)) /\ h2.maps[n] = One(s2.map = n) + One(t.map = n)
    <2>1. h.progs[n] = One(Opens(s, n)) + One(Opens(t, n)) /\ h.maps[n] = One(s.map = n) + One(t.map = n)
      BY DEF Counts
    <2>2. /\ One(Opens(s, n)) \in {0, 1} /\ One(Opens(t, n)) \in {0, 1} /\ One(s.map = n) \in {0, 1}
          /\ One(t.map = n) \in {0, 1} /\ One(Opens(s2, n)) \in {0, 1} /\ One(s2.map = n) \in {0, 1}
      BY DEF One
    <2> QED
      BY <1>1, <2>1, <2>2
  <1>6. QED BY <1>2, <1>3, <1>4, <1>5 DEF Counts

\* the process has more or less, and the references that the socket says
More(h, s, h2, s2, x) ==
  /\ s2.own = s.own /\ h2.fds = h.fds /\ s2.maps = s.maps + x /\ h2.mmaps = h.mmaps + x
  /\ \A n \in ProgIds : /\ h2.progs[n] + One(Opens(s, n)) = h.progs[n] + One(Opens(s2, n))
                        /\ h2.maps[n] + One(s.map = n) = h.maps[n] + One(s2.map = n)

LEMMA CountedMore ==
  ASSUME NEW m \in UmemT, NEW s \in SockT, NEW t \in SockT, NEW h \in HasT, NEW l \in LostT,
         NEW s2 \in SockT, NEW h2 \in HasT, Counts(m, s, t, h, l), s.pc # "none", s2.pc # "none",
         NEW x \in Nat, More(h, s, h2, s2, x)
  PROVE  Counts(m, s2, t, h2, l)
  BY Counted DEF More

\* a creation is given up before it has references
LEMMA GivenUp ==
  ASSUME SInv, NEW u \in Users, NEW k \in Slots, sock[u][k].pc \in {"rx", "tx", "bind", "getid", "load", "getfd"},
         GiveUp(u, k), UNCHANGED <<iface, entries, next_prog, calls, lost, replaced>>
  PROVE  SInv'
  <1>1. /\ has[u] \in HasT /\ Fits(umem[u], sock[u][k])
        /\ sock[u][k].pc \notin {"none", "up"}
    BY Part
  <1>2. Released(has[u], sock[u][k], has[u])
    <2>1. \A n \in ProgIds : has[u].progs[n] \in Nat /\ has[u].maps[n] \in Nat
      BY <1>1 DEF HasT
    <2>2. \A n \in ProgIds : ~Opens(sock[u][k], n) /\ sock[u][k].map # n
      BY <1>1, Nones DEF Fits, Opens
    <2> QED
      BY <2>1, <2>2 DEF Released, One
  <1>3. Unwind(u, k, has[u])
    BY DEF GiveUp
  <1>4. QED BY <1>1, <1>2, <1>3, CreationUnwound

\* a ring is set up
LEMMA RingUp ==
  ASSUME SInv, NEW u \in Users, NEW k \in Slots, NEW pc, NEW then, NEW wanted \in BOOLEAN,
         (pc = "rx" /\ then = "tx") \/ (pc = "tx" /\ then = "bind"), Ring(u, k, pc, wanted, then)
  PROVE  SInv'
  <1>1. CASE GiveUp(u, k)
    BY <1>1, GivenUp DEF Ring
  <1>2. CASE /\ sock[u][k].own \/ umem[u].bound = 0
             /\ Put(u, k, [sock[u][k] EXCEPT !.pc = then, !.maps = @ + (IF wanted THEN 1 ELSE 0)])
             /\ has' = [has EXCEPT ![u].mmaps = @ + (IF wanted THEN 1 ELSE 0)]
             /\ UNCHANGED umem
    <2>1. PICK s : s = sock[u][k]
      OBVIOUS
    <2>2. s.pc = pc /\ s.pc \notin {"none", "up"}
      BY <2>1 DEF Ring
    <2>3. PICK j \in Slots :
           /\ j # k /\ umem[u] \in UmemT /\ s \in SockT /\ sock[u][j] \in SockT
           /\ has[u] \in HasT /\ lost[u] \in LostT
           /\ Fits(umem[u], s) /\ Fits(umem[u], sock[u][j]) /\ Together(s, sock[u][j])
           /\ Counts(umem[u], s, sock[u][j], has[u], lost[u])
           /\ sock[u][j].pc \in {"none", "up"}
           /\ next_prog \in 1 .. MaxProgs + 1 /\ calls \in 0 .. MaxCalls
      BY <2>1, <2>2, Part
    <2>4. PICK x \in {0, 1} : x = (IF wanted THEN 1 ELSE 0)
      OBVIOUS
    <2>5. PICK y \in 0 .. 2 : y = s.maps + x
      BY <2>2, <2>3 DEF Fits, SockT
    <2>6. PICK z \in Nat : z = has[u].mmaps + x
      BY <2>3 DEF HasT
    <2>7. PICK s2 : s2 = [s EXCEPT !.pc = then, !.maps = y]
      OBVIOUS
    <2>8. PICK h2 : h2 = [has[u] EXCEPT !.mmaps = z]
      OBVIOUS
    <2>9. /\ s2 \in SockT /\ s2.pc = then /\ s2.maps = y /\ s2.q = s.q /\ s2.own = s.own /\ s2.inhibit = s.inhibit
          /\ s2.prog = s.prog /\ s2.map = s.map
      BY <2>3, <2>7 DEF SockT, SockPcs
    <2>10. h2 \in HasT /\ h2.mmaps = z /\ h2.fds = has[u].fds /\ h2.progs = has[u].progs /\ h2.maps = has[u].maps
      BY <2>3, <2>8 DEF HasT
    <2>11. Changes(u, k, umem[u], s2, h2, lost[u])
      BY <1>2, <2>1, <2>4, <2>5, <2>6, <2>7, <2>8 DEF Changes, Put, Ring
    <2>12. Fits(umem[u], s2)
      BY <2>2, <2>3, <2>4, <2>5, <2>9 DEF Fits, Setup, SockT
    <2>13. Together(s2, sock[u][j])
      BY <2>2, <2>3, <2>9 DEF Together
    <2>14. More(has[u], s, h2, s2, x)
      <3>1. \A n \in ProgIds : Opens(s2, n) <=> Opens(s, n)
        BY <2>2, <2>9 DEF Opens
      <3>2. \A n \in ProgIds : One(Opens(s2, n)) = One(Opens(s, n))
        BY <3>1 DEF One
      <3> QED
        BY <2>5, <2>6, <2>9, <2>10, <3>2 DEF More
    <2>15. Counts(umem[u], s2, sock[u][j], h2, lost[u])
      BY <2>2, <2>3, <2>4, <2>9, <2>10, <2>14, CountedMore
    <2>16. s2.pc \in {"tx", "bind"} /\ ~Served(s2)
      BY <2>9 DEF Served, Setup
    <2>17. UNCHANGED <<iface, entries, replaced>> /\ next_prog' \in 1 .. MaxProgs + 1 /\ calls' \in 0 .. MaxCalls
      BY <2>3 DEF Ring
    <2>18. QED BY <2>3, <2>9, <2>10, <2>11, <2>12, <2>13, <2>15, <2>16, <2>17, Quiet
  <1>3. QED BY <1>1, <1>2 DEF Ring

\* either of its rings
LEMMA RingsUp == ASSUME SInv, NEW u \in Users, NEW k \in Slots, RxRing(u, k) \/ TxRing(u, k)  PROVE  SInv'
  <1>1. sock[u][k].rx \in BOOLEAN
    BY Types DEF SInv, SockT
  <1>2. QED BY <1>1, RingUp DEF RxRing, TxRing

\* a socket is bound to its queue
LEMMA Bound == ASSUME SInv, NEW u \in Users, NEW k \in Slots, Bind(u, k)  PROVE  SInv'
  <1>1. CASE GiveUp(u, k)
    BY <1>1, GivenUp DEF Bind
  <1>2. CASE /\ IF sock[u][k].own THEN umem[u].bound = sock[u][k].q ELSE Free(u, sock[u][k].q)
             /\ umem' = [umem EXCEPT ![u].bound = sock[u][k].q]
             /\ Put(u, k, [sock[u][k] EXCEPT !.pc = IF sock[u][k].inhibit THEN "up" ELSE "getid"])
             /\ UNCHANGED has
    <2>1. PICK s : s = sock[u][k]
      OBVIOUS
    <2>2. s.pc = "bind"
      BY <2>1 DEF Bind
    <2>3. PICK j \in Slots :
           /\ j # k /\ umem[u] \in UmemT /\ s \in SockT /\ sock[u][j] \in SockT
           /\ has[u] \in HasT /\ lost[u] \in LostT
           /\ Fits(umem[u], s) /\ Fits(umem[u], sock[u][j]) /\ Together(s, sock[u][j])
           /\ Counts(umem[u], s, sock[u][j], has[u], lost[u])
           /\ sock[u][j].pc \in {"none", "up"}
           /\ next_prog \in 1 .. MaxProgs + 1 /\ calls \in 0 .. MaxCalls
      BY <2>1, <2>2, Part
    <2>4. s.q \in Queues /\ s.inhibit \in BOOLEAN /\ s.own \in BOOLEAN
      BY <2>2, <2>3 DEF Fits, SockT
    <2>5. PICK then \in {"up", "getid"} : then = (IF s.inhibit THEN "up" ELSE "getid")
      OBVIOUS
    <2>6. PICK s2 : s2 = [s EXCEPT !.pc = then]
      OBVIOUS
    <2>7. /\ s2 \in SockT /\ s2.pc = then /\ s2.maps = s.maps /\ s2.q = s.q /\ s2.own = s.own /\ s2.inhibit = s.inhibit
          /\ s2.prog = s.prog /\ s2.map = s.map
      BY <2>3, <2>6 DEF SockT, SockPcs
    <2>8. PICK m : m = [umem[u] EXCEPT !.bound = s.q]
      OBVIOUS
    <2>9. m \in UmemT /\ m.bound = s.q /\ m.up = umem[u].up /\ m.refcount = umem[u].refcount
      BY <2>3, <2>4, <2>8, UmemSet
    <2>10. Changes(u, k, m, s2, has[u], lost[u])
      BY <1>2, <2>1, <2>5, <2>6, <2>8 DEF Changes, Put, Bind
    <2>11. Fits(m, s2)
      BY <2>2, <2>3, <2>4, <2>5, <2>7, <2>9 DEF Fits, Setup
    <2>12. sock[u][j].pc = "up" => s.own
      <3>1. sock[u][j].pc = "up" => umem[u].refcount > 1
        <4>1. umem[u].refcount = One(s.pc # "none") + One(sock[u][j].pc # "none") + lost[u].refs /\ lost[u].refs \in Nat
          BY <2>3 DEF Counts, LostT
        <4>2. One(s.pc # "none") = 1 /\ (sock[u][j].pc = "up" => One(sock[u][j].pc # "none") = 1)
          BY <2>2 DEF One
        <4> QED
          BY <4>1, <4>2
      <3> QED
        BY <2>2, <2>3, <3>1 DEF Fits
    <2>13. Fits(m, sock[u][j])
      <3>1. sock[u][j].pc = "up" => umem[u].bound = s.q
        BY <1>2, <2>1, <2>12
      <3> QED
        BY <2>3, <2>9, <3>1 DEF Fits, Setup
    <2>14. Together(s2, sock[u][j])
      BY <2>2, <2>3, <2>7 DEF Together
    <2>15. Counts(m, s2, sock[u][j], has[u], lost[u])
      <3>1. \A n \in ProgIds : One(Opens(s2, n)) = One(Opens(s, n))
        BY <2>2, <2>7 DEF Opens, One
      <3>2. One(s2.pc # "none") = One(s.pc # "none")
        BY <2>2, <2>7 DEF One
      <3> QED
        BY <2>3, <2>7, <2>9, <3>1, <3>2 DEF Counts
    <2>16. Served(s2) => \A v \in Users \ {u} : umem[v].bound # s2.q
      <3>1. Served(s2) => ~s.own
        BY <2>3, <2>7 DEF Served, Fits
      <3> QED
        BY <1>2, <2>1, <2>7, <3>1 DEF Free
    <2>17. s2.prog = 0 /\ (s2.pc = "up" => s2.inhibit)
      BY <2>2, <2>3, <2>5, <2>7 DEF Fits
    <2>18. UNCHANGED <<iface, entries, replaced>> /\ next_prog' \in 1 .. MaxProgs + 1 /\ calls' \in 0 .. MaxCalls
      BY <2>3 DEF Bind
    <2>19. QED BY <2>3, <2>7, <2>9, <2>10, <2>11, <2>13, <2>14, <2>15, <2>16, <2>17, <2>18, Quiet
  <1>3. QED BY <1>1, <1>2 DEF Bind

\* the program on the interface is looked for
LEMMA Asked == ASSUME SInv, NEW u \in Users, NEW k \in Slots, GetId(u, k)  PROVE  SInv'
  <1>1. CASE GiveUp(u, k)
    BY <1>1, GivenUp DEF GetId
  <1>2. CASE /\ Put(u, k, IF iface = 0 THEN [sock[u][k] EXCEPT !.pc = "load"]
                          ELSE [sock[u][k] EXCEPT !.pc = "getfd", !.prog = iface])
             /\ UNCHANGED <<umem, has>>
    <2>1. PICK s : s = sock[u][k]
      OBVIOUS
    <2>2. s.pc = "getid"
      BY <2>1 DEF GetId
    <2>3. PICK j \in Slots :
           /\ j # k /\ umem[u] \in UmemT /\ s \in SockT /\ sock[u][j] \in SockT
           /\ has[u] \in HasT /\ lost[u] \in LostT
           /\ Fits(umem[u], s) /\ Fits(umem[u], sock[u][j]) /\ Together(s, sock[u][j])
           /\ Counts(umem[u], s, sock[u][j], has[u], lost[u])
           /\ sock[u][j].pc \in {"none", "up"} /\ iface \in 0 .. MaxProgs
           /\ next_prog \in 1 .. MaxProgs + 1 /\ calls \in 0 .. MaxCalls
      BY <2>1, <2>2, Part
    <2>4. s.prog = 0 /\ s.map = 0 /\ ~s.inhibit /\ Served(s)
      BY <2>2, <2>3 DEF Fits, Served, Setup
    <2>5. PICK s2 : s2 = (IF iface = 0 THEN [s EXCEPT !.pc = "load"] ELSE [s EXCEPT !.pc = "getfd", !.prog = iface])
      OBVIOUS
    <2>6. /\ s2 \in SockT /\ s2.maps = s.maps /\ s2.q = s.q /\ s2.own = s.own /\ s2.inhibit = s.inhibit /\ s2.map = 0
          /\ \/ s2.pc = "load" /\ s2.prog = 0
             \/ s2.pc = "getfd" /\ s2.prog = iface /\ iface # 0
      <3>1. CASE iface = 0
        BY <2>3, <2>4, <2>5, <3>1 DEF SockT, SockPcs
      <3>2. CASE iface # 0
        <4>1. s2 = [s EXCEPT !.pc = "getfd", !.prog = iface]
          BY <2>5, <3>2
        <4> QED
          BY <2>3, <2>4, <3>2, <4>1 DEF SockT, SockPcs
      <3> QED
        BY <3>1, <3>2
    <2>7. Changes(u, k, umem[u], s2, has[u], lost[u])
      BY <1>2, <2>1, <2>5 DEF Changes, Put, GetId
    <2>8. Fits(umem[u], s2)
      BY <2>2, <2>3, <2>6 DEF Fits, Setup
    <2>9. Together(s2, sock[u][j])
      BY <2>2, <2>3, <2>6 DEF Together
    <2>10. Counts(umem[u], s2, sock[u][j], has[u], lost[u])
      <3>1. \A n \in ProgIds : /\ ~Opens(s2, n) /\ ~Opens(s, n)
                               /\ s.map # n /\ s2.map # n
        BY <2>2, <2>4, <2>6, Nones DEF Opens
      <3>2. More(has[u], s, has[u], s2, 0)
        BY <2>3, <2>6, <3>1 DEF More, One, HasT, SockT
      <3> QED
        BY <2>2, <2>3, <2>6, <3>2, CountedMore
    <2>11. s2.pc \in {"getfd", "lookup", "update", "up"} /\ s2.prog # 0 => Attached(s2.prog)
      BY <2>6 DEF Attached
    <2>12. UNCHANGED <<iface, entries, replaced>> /\ next_prog' \in 1 .. MaxProgs + 1 /\ calls' \in 0 .. MaxCalls
      BY <2>3 DEF GetId
    <2>13. Served(sock[u][k]) /\ s2.q = sock[u][k].q /\ s2.pc # "up"
      BY <2>1, <2>4, <2>6
    <2>14. QED BY <2>3, <2>6, <2>7, <2>8, <2>9, <2>10, <2>11, <2>12, <2>13, Quiet
  <1>3. QED BY <1>1, <1>2 DEF GetId

\* the program is loaded, and its map made
LEMMA XdpLoaded == ASSUME SInv, NEW u \in Users, NEW k \in Slots, LoadProg(u, k)  PROVE  SInv'
  <1>1. CASE GiveUp(u, k) /\ UNCHANGED next_prog
    BY <1>1, GivenUp DEF LoadProg
  <1>2. CASE /\ next_prog <= MaxProgs
             /\ Put(u, k, [sock[u][k] EXCEPT !.pc = "attach", !.prog = next_prog, !.map = next_prog])
             /\ has' = [has EXCEPT ![u].progs[next_prog] = @ + 1, ![u].maps[next_prog] = @ + 1]
             /\ next_prog' = next_prog + 1
             /\ UNCHANGED umem
    <2>1. PICK s : s = sock[u][k]
      OBVIOUS
    <2>2. s.pc = "load"
      BY <2>1 DEF LoadProg
    <2>3. PICK j \in Slots :
           /\ j # k /\ umem[u] \in UmemT /\ s \in SockT /\ sock[u][j] \in SockT
           /\ has[u] \in HasT /\ lost[u] \in LostT
           /\ Fits(umem[u], s) /\ Fits(umem[u], sock[u][j]) /\ Together(s, sock[u][j])
           /\ Counts(umem[u], s, sock[u][j], has[u], lost[u])
           /\ sock[u][j].pc \in {"none", "up"} /\ has \in [Users -> HasT]
           /\ next_prog \in 1 .. MaxProgs + 1 /\ calls \in 0 .. MaxCalls
      BY <2>1, <2>2, Part
    <2>4. s.prog = 0 /\ s.map = 0 /\ ~s.inhibit /\ Served(s)
      BY <2>2, <2>3 DEF Fits, Served, Setup
    <2>5. PICK p \in ProgIds : p = next_prog /\ p # 0 /\ p \in 0 .. MaxProgs
      BY <1>2, <2>3, Nones
    <2>6. PICK s2 : s2 = [s EXCEPT !.pc = "attach", !.prog = p, !.map = p]
      OBVIOUS
    <2>7. /\ s2 \in SockT /\ s2.maps = s.maps /\ s2.q = s.q /\ s2.own = s.own /\ s2.inhibit = s.inhibit
          /\ s2.map = p /\ s2.prog = p /\ s2.pc = "attach"
      BY <2>3, <2>5, <2>6 DEF SockT, SockPcs
    <2>8. PICK x \in Nat : x = has[u].progs[p] + 1
      BY <2>3, <2>5 DEF HasT
    <2>9. PICK y \in Nat : y = has[u].maps[p] + 1
      BY <2>3, <2>5 DEF HasT
    <2>10. PICK h : h = [has[u] EXCEPT !.progs = [has[u].progs EXCEPT ![p] = x], !.maps = [has[u].maps EXCEPT ![p] = y]]
      OBVIOUS
    <2>11. /\ h \in HasT /\ h.fds = has[u].fds /\ h.mmaps = has[u].mmaps
           /\ h.progs = [has[u].progs EXCEPT ![p] = x] /\ h.maps = [has[u].maps EXCEPT ![p] = y]
      BY <2>3, <2>5, <2>10 DEF HasT
    <2>12. has' = [has EXCEPT ![u] = h]
      <3>1. has' = [has EXCEPT ![u].progs[p] = x, ![u].maps[p] = y]
        BY <1>2, <2>5, <2>8, <2>9
      <3> QED
        BY <2>3, <2>10, <3>1 DEF HasT
    <2>13. Changes(u, k, umem[u], s2, h, lost[u])
      BY <1>2, <2>1, <2>5, <2>6, <2>12 DEF Changes, Put, LoadProg
    <2>14. Fits(umem[u], s2)
      BY <2>2, <2>3, <2>5, <2>7 DEF Fits, Setup
    <2>15. Together(s2, sock[u][j])
      BY <2>2, <2>3, <2>7 DEF Together
    <2>16. Counts(umem[u], s2, sock[u][j], h, lost[u])
      <3>1. \A n \in ProgIds : ~Opens(s, n) /\ s.map # n /\ (Opens(s2, n) <=> n = p) /\ (s2.map = n <=> n = p)
        BY <2>4, <2>7, Nones DEF Opens
      <3>2. \A n \in ProgIds : /\ h.progs[n] + One(Opens(s, n)) = has[u].progs[n] + One(Opens(s2, n))
                               /\ h.maps[n] + One(s.map = n) = has[u].maps[n] + One(s2.map = n)
        <4>1. has[u].progs \in [ProgIds -> Nat] /\ has[u].maps \in [ProgIds -> Nat]
          BY <2>3 DEF HasT
        <4>2. ASSUME NEW n \in ProgIds
              PROVE  /\ h.progs[n] = has[u].progs[n] + One(n = p) /\ h.maps[n] = has[u].maps[n] + One(n = p)
                     /\ has[u].progs[n] \in Nat /\ has[u].maps[n] \in Nat
          <5>1. CASE n = p
            BY <2>8, <2>9, <2>11, <4>1, <5>1 DEF One
          <5>2. CASE n # p
            BY <2>11, <4>1, <5>2 DEF One
          <5> QED
            BY <5>1, <5>2
        <4>3. ASSUME NEW n \in ProgIds
              PROVE  /\ One(Opens(s, n)) = 0 /\ One(s.map = n) = 0
                     /\ One(Opens(s2, n)) = One(n = p) /\ One(s2.map = n) = One(n = p) /\ One(n = p) \in {0, 1}
          BY <3>1 DEF One
        <4> QED
          BY <4>2, <4>3
      <3>3. More(has[u], s, h, s2, 0)
        BY <2>3, <2>7, <2>11, <3>2 DEF More, HasT, SockT
      <3> QED
        BY <2>2, <2>3, <2>7, <2>11, <3>3, CountedMore
    <2>17. UNCHANGED <<iface, entries, replaced>> /\ next_prog' \in 1 .. MaxProgs + 1 /\ calls' \in 0 .. MaxCalls
      BY <1>2, <2>3, Nones DEF LoadProg
    <2>18. /\ Served(sock[u][k]) /\ s2.q = sock[u][k].q /\ s2.pc # "up"
           /\ s2.pc \notin {"getfd", "lookup", "update", "up"}
      BY <2>1, <2>4, <2>7
    <2>19. QED BY <2>3, <2>7, <2>11, <2>13, <2>14, <2>15, <2>16, <2>17, <2>18, Quiet
  <1>3. QED BY <1>1, <1>2 DEF LoadProg

\* the references of a socket whose program's descriptor is open
LEMMA References ==
  ASSUME SInv, NEW u \in Users, NEW k \in Slots, sock[u][k].pc \notin {"none", "getfd"}
  PROVE  /\ WithoutRefs(has[u], sock[u][k]) \in HasT
         /\ Released(has[u], sock[u][k], WithoutRefs(has[u], sock[u][k]))
  <1>1. PICK j \in Slots : j # k
    BY TwoSlots
  <1>2. PICK s : s = sock[u][k]
    OBVIOUS
  <1>3. /\ s \in SockT /\ has[u] \in HasT /\ Counts(umem[u], s, sock[u][j], has[u], lost[u])
    BY <1>1, <1>2, AtSlot
  <1>4. \A n \in ProgIds : One(Opens(s, n)) = One(s.prog = n)
    BY <1>2 DEF Opens, One
  <1>5. \A n \in ProgIds : has[u].progs[n] >= One(s.prog = n) /\ has[u].maps[n] >= One(s.map = n)
    <2>1. ASSUME NEW n \in ProgIds
          PROVE  has[u].progs[n] >= One(s.prog = n) /\ has[u].maps[n] >= One(s.map = n)
      <3>1. has[u].progs[n] = One(s.prog = n) + One(Opens(sock[u][j], n))
            /\ has[u].maps[n] = One(s.map = n) + One(sock[u][j].map = n)
        BY <1>3, <1>4 DEF Counts
      <3>2. /\ One(s.prog = n) \in {0, 1} /\ One(Opens(sock[u][j], n)) \in {0, 1}
            /\ One(s.map = n) \in {0, 1} /\ One(sock[u][j].map = n) \in {0, 1}
        BY DEF One
      <3> QED
        BY <3>1, <3>2
    <2> QED
      BY <2>1
  <1>6. /\ WithoutRefs(has[u], s) \in HasT
        /\ WithoutRefs(has[u], s).fds = has[u].fds /\ WithoutRefs(has[u], s).mmaps = has[u].mmaps
        /\ \A n \in ProgIds : /\ WithoutRefs(has[u], s).progs[n] = has[u].progs[n] - One(s.prog = n)
                              /\ WithoutRefs(has[u], s).maps[n] = has[u].maps[n] - One(s.map = n)
    <2>1. PICK h \in HasT : h = has[u]
      BY <1>3
    <2>2. /\ WithoutRefs(h, s) \in HasT
          /\ WithoutRefs(h, s).fds = h.fds /\ WithoutRefs(h, s).mmaps = h.mmaps
          /\ \A n \in ProgIds : /\ WithoutRefs(h, s).progs[n] = h.progs[n] - One(s.prog = n)
                                /\ WithoutRefs(h, s).maps[n] = h.maps[n] - One(s.map = n)
      BY <1>3, <1>5, <2>1, RefsClosed
    <2> QED
      BY <2>1, <2>2
  <1>7. Released(has[u], s, WithoutRefs(has[u], s))
    BY <1>4, <1>6 DEF Released
  <1>8. QED BY <1>2, <1>6, <1>7

\* a creation is given up when it has references
LEMMA GivenBack ==
  ASSUME SInv, NEW u \in Users, NEW k \in Slots, sock[u][k].pc \in {"attach", "lookup", "update"},
         Unwind(u, k, WithoutRefs(has[u], sock[u][k])), UNCHANGED <<iface, next_prog, calls, lost, replaced>>,
         entries' = entries \/ entries' = Deleted(sock[u][k])
  PROVE  SInv'
  <1>1. PICK g : g = WithoutRefs(has[u], sock[u][k])
    OBVIOUS
  <1>2. g \in HasT /\ Released(has[u], sock[u][k], g) /\ Unwind(u, k, g)
    BY <1>1, References
  <1>3. sock[u][k].pc \in Setup /\ sock[u][k].pc \notin {"none", "up"}
    BY DEF Setup
  <1>4. QED BY <1>2, <1>3, CreationUnwound

\* the program that was found is opened
LEMMA Found == ASSUME SInv, NEW u \in Users, NEW k \in Slots, GetFd(u, k)  PROVE  SInv'
  <1>1. CASE GiveUp(u, k)
    BY <1>1, GivenUp DEF GetFd
  <1>2. CASE /\ Put(u, k, [sock[u][k] EXCEPT !.pc = "lookup"])
             /\ has' = [has EXCEPT ![u].progs[sock[u][k].prog] = @ + 1]
             /\ UNCHANGED umem
    <2>1. PICK s : s = sock[u][k]
      OBVIOUS
    <2>2. s.pc = "getfd"
      BY <2>1 DEF GetFd
    <2>3. PICK j \in Slots :
           /\ j # k /\ umem[u] \in UmemT /\ s \in SockT /\ sock[u][j] \in SockT
           /\ has[u] \in HasT /\ lost[u] \in LostT
           /\ Fits(umem[u], s) /\ Fits(umem[u], sock[u][j]) /\ Together(s, sock[u][j])
           /\ Counts(umem[u], s, sock[u][j], has[u], lost[u])
           /\ sock[u][j].pc \in {"none", "up"} /\ has \in [Users -> HasT]
           /\ next_prog \in 1 .. MaxProgs + 1 /\ calls \in 0 .. MaxCalls
      BY <2>1, <2>2, Part
    <2>4. s.prog # 0 /\ s.map = 0 /\ ~s.inhibit /\ Served(s) /\ s.prog \in 0 .. MaxProgs
      BY <2>2, <2>3 DEF Fits, Served, Setup, SockT
    <2>5. PICK p \in ProgIds : p = s.prog
      BY <2>4, Nones
    <2>6. PICK s2 : s2 = [s EXCEPT !.pc = "lookup"]
      OBVIOUS
    <2>7. /\ s2 \in SockT /\ s2.maps = s.maps /\ s2.q = s.q /\ s2.own = s.own /\ s2.inhibit = s.inhibit
          /\ s2.map = 0 /\ s2.prog = p /\ s2.pc = "lookup"
      BY <2>3, <2>4, <2>5, <2>6 DEF SockT, SockPcs
    <2>8. PICK x \in Nat : x = has[u].progs[p] + 1
      BY <2>3, <2>5 DEF HasT
    <2>9. PICK h : h = [has[u] EXCEPT !.progs = [has[u].progs EXCEPT ![p] = x]]
      OBVIOUS
    <2>10. /\ h \in HasT /\ h.fds = has[u].fds /\ h.mmaps = has[u].mmaps /\ h.maps = has[u].maps
           /\ h.progs = [has[u].progs EXCEPT ![p] = x]
      BY <2>3, <2>5, <2>9 DEF HasT
    <2>11. has' = [has EXCEPT ![u] = h]
      <3>1. has' = [has EXCEPT ![u].progs[p] = x]
        BY <1>2, <2>1, <2>5, <2>8
      <3> QED
        BY <2>3, <2>9, <3>1 DEF HasT
    <2>12. Changes(u, k, umem[u], s2, h, lost[u])
      BY <1>2, <2>1, <2>6, <2>11 DEF Changes, Put, GetFd
    <2>13. Fits(umem[u], s2)
      BY <2>2, <2>3, <2>4, <2>5, <2>7 DEF Fits, Setup
    <2>14. Together(s2, sock[u][j])
      BY <2>2, <2>3, <2>7 DEF Together
    <2>15. Counts(umem[u], s2, sock[u][j], h, lost[u])
      <3>1. ASSUME NEW n \in ProgIds
            PROVE  /\ h.progs[n] + One(Opens(s, n)) = has[u].progs[n] + One(Opens(s2, n))
                   /\ h.maps[n] + One(s.map = n) = has[u].maps[n] + One(s2.map = n)
        <4>1. has[u].progs \in [ProgIds -> Nat] /\ has[u].maps \in [ProgIds -> Nat]
          BY <2>3 DEF HasT
        <4>2. ~Opens(s, n) /\ (Opens(s2, n) <=> n = p) /\ s.map # n /\ s2.map # n
          BY <2>2, <2>4, <2>7, Nones DEF Opens
        <4>3. One(Opens(s, n)) = 0 /\ One(s.map = n) = 0 /\ One(s2.map = n) = 0 /\ One(Opens(s2, n)) = One(n = p)
          BY <4>2 DEF One
        <4>4. CASE n = p
          BY <2>8, <2>10, <4>1, <4>3, <4>4 DEF One
        <4>5. CASE n # p
          BY <2>10, <4>1, <4>3, <4>5 DEF One
        <4> QED
          BY <4>4, <4>5
      <3>2. More(has[u], s, h, s2, 0)
        BY <2>3, <2>7, <2>10, <3>1 DEF More, HasT, SockT
      <3> QED
        BY <2>2, <2>3, <2>7, <2>10, <3>2, CountedMore
    <2>16. Attached(s2.prog)
      BY <2>1, <2>2, <2>4, <2>5, <2>7 DEF SInv, OnInterface, Attached
    <2>17. UNCHANGED <<iface, entries, replaced>> /\ next_prog' \in 1 .. MaxProgs + 1 /\ calls' \in 0 .. MaxCalls
      BY <2>3 DEF GetFd
    <2>18. Served(sock[u][k]) /\ s2.q = sock[u][k].q /\ s2.pc # "up"
      BY <2>1, <2>4, <2>7
    <2>19. QED BY <2>3, <2>7, <2>10, <2>12, <2>13, <2>14, <2>15, <2>16, <2>17, <2>18, Quiet
  <1>3. QED BY <1>1, <1>2 DEF GetFd

\* its map is found
LEMMA LookedUp == ASSUME SInv, NEW u \in Users, NEW k \in Slots, Lookup(u, k)  PROVE  SInv'
  <1>1. CASE Unwind(u, k, WithoutRefs(has[u], sock[u][k]))
    <2>1. sock[u][k].pc = "lookup" /\ UNCHANGED <<iface, next_prog, calls, lost, replaced>> /\ entries' = entries
      BY DEF Lookup
    <2> QED
      BY <1>1, <2>1, GivenBack
  <1>2. CASE /\ Put(u, k, [sock[u][k] EXCEPT !.pc = "update", !.map = sock[u][k].prog])
             /\ has' = [has EXCEPT ![u].maps[sock[u][k].prog] = @ + 1]
             /\ UNCHANGED umem
    <2>1. PICK s : s = sock[u][k]
      OBVIOUS
    <2>2. s.pc = "lookup"
      BY <2>1 DEF Lookup
    <2>3. PICK j \in Slots :
           /\ j # k /\ umem[u] \in UmemT /\ s \in SockT /\ sock[u][j] \in SockT
           /\ has[u] \in HasT /\ lost[u] \in LostT
           /\ Fits(umem[u], s) /\ Fits(umem[u], sock[u][j]) /\ Together(s, sock[u][j])
           /\ Counts(umem[u], s, sock[u][j], has[u], lost[u])
           /\ sock[u][j].pc \in {"none", "up"} /\ has \in [Users -> HasT]
           /\ next_prog \in 1 .. MaxProgs + 1 /\ calls \in 0 .. MaxCalls
      BY <2>1, <2>2, Part
    <2>4. s.prog # 0 /\ s.map = 0 /\ ~s.inhibit /\ Served(s) /\ s.prog \in 0 .. MaxProgs
      BY <2>2, <2>3 DEF Fits, Served, Setup, SockT
    <2>5. PICK p \in ProgIds : p = s.prog
      BY <2>4, Nones
    <2>6. PICK s2 : s2 = [s EXCEPT !.pc = "update", !.map = p]
      OBVIOUS
    <2>7. /\ s2 \in SockT /\ s2.maps = s.maps /\ s2.q = s.q /\ s2.own = s.own /\ s2.inhibit = s.inhibit
          /\ s2.map = p /\ s2.prog = p /\ s2.pc = "update"
      BY <2>3, <2>4, <2>5, <2>6 DEF SockT, SockPcs
    <2>8. PICK x \in Nat : x = has[u].maps[p] + 1
      BY <2>3, <2>5 DEF HasT
    <2>9. PICK h : h = [has[u] EXCEPT !.maps = [has[u].maps EXCEPT ![p] = x]]
      OBVIOUS
    <2>10. /\ h \in HasT /\ h.fds = has[u].fds /\ h.mmaps = has[u].mmaps /\ h.progs = has[u].progs
           /\ h.maps = [has[u].maps EXCEPT ![p] = x]
      BY <2>3, <2>5, <2>9 DEF HasT
    <2>11. has' = [has EXCEPT ![u] = h]
      <3>1. has' = [has EXCEPT ![u].maps[p] = x]
        BY <1>2, <2>1, <2>5, <2>8
      <3> QED
        BY <2>3, <2>9, <3>1 DEF HasT
    <2>12. Changes(u, k, umem[u], s2, h, lost[u])
      BY <1>2, <2>1, <2>5, <2>6, <2>11 DEF Changes, Put, Lookup
    <2>13. Fits(umem[u], s2)
      BY <2>2, <2>3, <2>4, <2>5, <2>7 DEF Fits, Setup
    <2>14. Together(s2, sock[u][j])
      BY <2>2, <2>3, <2>7 DEF Together
    <2>15. Counts(umem[u], s2, sock[u][j], h, lost[u])
      <3>1. ASSUME NEW n \in ProgIds
            PROVE  /\ h.progs[n] + One(Opens(s, n)) = has[u].progs[n] + One(Opens(s2, n))
                   /\ h.maps[n] + One(s.map = n) = has[u].maps[n] + One(s2.map = n)
        <4>1. has[u].progs \in [ProgIds -> Nat] /\ has[u].maps \in [ProgIds -> Nat]
          BY <2>3 DEF HasT
        <4>2. (Opens(s, n) <=> n = p) /\ (Opens(s2, n) <=> n = p) /\ s.map # n /\ (s2.map = n <=> n = p)
          BY <2>2, <2>4, <2>5, <2>7, Nones DEF Opens
        <4>3. One(Opens(s, n)) = One(Opens(s2, n)) /\ One(s.map = n) = 0 /\ One(s2.map = n) = One(n = p)
              /\ One(Opens(s, n)) \in {0, 1}
          BY <4>2 DEF One
        <4>4. CASE n = p
          BY <2>8, <2>10, <4>1, <4>3, <4>4 DEF One
        <4>5. CASE n # p
          BY <2>10, <4>1, <4>3, <4>5 DEF One
        <4> QED
          BY <4>4, <4>5
      <3>2. More(has[u], s, h, s2, 0)
        BY <2>3, <2>7, <2>10, <3>1 DEF More, HasT, SockT
      <3> QED
        BY <2>2, <2>3, <2>7, <2>10, <3>2, CountedMore
    <2>16. Attached(s2.prog)
      BY <2>1, <2>2, <2>4, <2>5, <2>7 DEF SInv, OnInterface, Attached
    <2>17. UNCHANGED <<iface, entries, replaced>> /\ next_prog' \in 1 .. MaxProgs + 1 /\ calls' \in 0 .. MaxCalls
      BY <2>3 DEF Lookup
    <2>18. Served(sock[u][k]) /\ s2.q = sock[u][k].q /\ s2.pc # "up"
      BY <2>1, <2>4, <2>7
    <2>19. QED BY <2>3, <2>7, <2>10, <2>12, <2>13, <2>14, <2>15, <2>16, <2>17, <2>18, Quiet
  <1>3. QED BY <1>1, <1>2 DEF Lookup

\* the program is attached, over another one or not
LEMMA Attaching == ASSUME SInv, NEW u \in Users, NEW k \in Slots, Attach(u, k)  PROVE  SInv'
  <1>1. CASE Unwind(u, k, WithoutRefs(has[u], sock[u][k])) /\ entries' = Deleted(sock[u][k])
             /\ UNCHANGED <<iface, replaced>>
    <2>1. sock[u][k].pc = "attach" /\ UNCHANGED <<next_prog, calls, lost>>
      BY DEF Attach
    <2> QED
      BY <1>1, <2>1, GivenBack
  <1>2. CASE /\ iface' = sock[u][k].prog /\ replaced' = replaced \cup ({iface} \ {0})
             /\ Put(u, k, [sock[u][k] EXCEPT !.pc = "update"])
             /\ UNCHANGED <<umem, has, entries>>
    <2>1. PICK s : s = sock[u][k]
      OBVIOUS
    <2>2. s.pc = "attach"
      BY <2>1 DEF Attach
    <2>3. PICK j \in Slots :
           /\ j # k /\ umem[u] \in UmemT /\ s \in SockT /\ sock[u][j] \in SockT
           /\ has[u] \in HasT /\ lost[u] \in LostT
           /\ Fits(umem[u], s) /\ Fits(umem[u], sock[u][j]) /\ Together(s, sock[u][j])
           /\ Counts(umem[u], s, sock[u][j], has[u], lost[u])
           /\ sock[u][j].pc \in {"none", "up"} /\ iface \in 0 .. MaxProgs
           /\ next_prog \in 1 .. MaxProgs + 1 /\ calls \in 0 .. MaxCalls
      BY <2>1, <2>2, Part
    <2>4. s.prog # 0 /\ ~s.inhibit /\ Served(s) /\ s.prog \in 0 .. MaxProgs
      BY <2>2, <2>3 DEF Fits, Served, Setup, SockT
    <2>5. PICK s2 : s2 = [s EXCEPT !.pc = "update"]
      OBVIOUS
    <2>6. /\ s2 \in SockT /\ s2.maps = s.maps /\ s2.q = s.q /\ s2.own = s.own /\ s2.inhibit = s.inhibit
          /\ s2.map = s.map /\ s2.prog = s.prog /\ s2.pc = "update"
      BY <2>3, <2>5 DEF SockT, SockPcs
    <2>7. Changes(u, k, umem[u], s2, has[u], lost[u])
      BY <1>2, <2>1, <2>5 DEF Changes, Put, Attach
    <2>8. Fits(umem[u], s2)
      BY <2>2, <2>3, <2>6 DEF Fits, Setup
    <2>9. Together(s2, sock[u][j])
      BY <2>2, <2>3, <2>6 DEF Together
    <2>10. Counts(umem[u], s2, sock[u][j], has[u], lost[u])
      <3>1. \A n \in ProgIds : One(Opens(s2, n)) = One(Opens(s, n))
        BY <2>2, <2>6 DEF Opens, One
      <3>2. One(s2.pc # "none") = One(s.pc # "none")
        BY <2>2, <2>6 DEF One
      <3> QED
        BY <2>3, <2>6, <3>1, <3>2 DEF Counts
    <2>11. \A n \in ProgIds : Attached(n) => Attached(n)'
      BY <1>2, Nones DEF Attached
    <2>12. Attached(s2.prog)'
      <3>1. PICK p : p = s2.prog
        OBVIOUS
      <3>2. iface' = p
        BY <1>2, <2>1, <2>6, <3>1
      <3> QED
        BY <3>1, <3>2 DEF Attached
    <2>13. replaced' \subseteq ProgIds /\ iface' \in 0 .. MaxProgs /\ entries' \in EntriesT /\ entries' = entries
      <3>1. replaced \subseteq ProgIds /\ entries \in EntriesT
        BY Types DEF SInv
      <3> QED
        BY <1>2, <2>1, <2>3, <2>4, <3>1, Nones
    <2>14. next_prog' \in 1 .. MaxProgs + 1 /\ calls' \in 0 .. MaxCalls
      BY <2>3 DEF Attach
    <2>15. Served(sock[u][k]) /\ s2.q = sock[u][k].q /\ s2.pc # "up"
      BY <2>1, <2>4, <2>6
    <2>16. QED BY <2>3, <2>6, <2>7, <2>8, <2>9, <2>10, <2>11, <2>12, <2>13, <2>14, <2>15, Whole
  <1>3. QED BY <1>1, <1>2 DEF Attach

\* the socket is entered in the map
LEMMA Entering == ASSUME SInv, NEW u \in Users, NEW k \in Slots, Update(u, k)  PROVE  SInv'
  <1>1. CASE Unwind(u, k, WithoutRefs(has[u], sock[u][k])) /\ entries' = Deleted(sock[u][k])
    <2>1. sock[u][k].pc = "update" /\ UNCHANGED <<iface, next_prog, calls, lost, replaced>>
      BY DEF Update
    <2> QED
      BY <1>1, <2>1, GivenBack
  <1>2. CASE /\ Put(u, k, [sock[u][k] EXCEPT !.pc = "up"])
             /\ entries' = IF Updates(sock[u][k])
                           THEN [entries EXCEPT ![sock[u][k].map][sock[u][k].q] = <<u, k>>] ELSE entries
             /\ UNCHANGED <<umem, has>>
    <2>1. PICK s : s = sock[u][k]
      OBVIOUS
    <2>2. s.pc = "update"
      BY <2>1 DEF Update
    <2>3. PICK j \in Slots :
           /\ j # k /\ umem[u] \in UmemT /\ s \in SockT /\ sock[u][j] \in SockT
           /\ has[u] \in HasT /\ lost[u] \in LostT
           /\ Fits(umem[u], s) /\ Fits(umem[u], sock[u][j]) /\ Together(s, sock[u][j])
           /\ Counts(umem[u], s, sock[u][j], has[u], lost[u])
           /\ sock[u][j].pc \in {"none", "up"} /\ iface \in 0 .. MaxProgs
           /\ next_prog \in 1 .. MaxProgs + 1 /\ calls \in 0 .. MaxCalls
      BY <2>1, <2>2, Part
    <2>4. /\ s.prog # 0 /\ s.map = s.prog /\ ~s.inhibit /\ Served(s) /\ s.map \in ProgIds /\ s.q \in Queues
          /\ s.rx \in BOOLEAN
      BY <2>2, <2>3, Nones DEF Fits, Served, Setup, SockT
    <2>5. PICK s2 : s2 = [s EXCEPT !.pc = "up"]
      OBVIOUS
    <2>6. /\ s2 \in SockT /\ s2.maps = s.maps /\ s2.q = s.q /\ s2.own = s.own /\ s2.inhibit = s.inhibit
          /\ s2.map = s.map /\ s2.prog = s.prog /\ s2.pc = "up" /\ s2.rx = s.rx
      BY <2>3, <2>5 DEF SockT, SockPcs
    <2>7. Changes(u, k, umem[u], s2, has[u], lost[u])
      BY <1>2, <2>1, <2>5 DEF Changes, Put, Update
    <2>8. Fits(umem[u], s2)
      BY <2>2, <2>3, <2>4, <2>6 DEF Fits, Setup
    <2>9. Together(s2, sock[u][j])
      BY <2>2, <2>3, <2>6 DEF Together
    <2>10. Counts(umem[u], s2, sock[u][j], has[u], lost[u])
      <3>1. \A n \in ProgIds : One(Opens(s2, n)) = One(Opens(s, n))
        BY <2>2, <2>6 DEF Opens, One
      <3>2. One(s2.pc # "none") = One(s.pc # "none")
        BY <2>2, <2>6 DEF One
      <3> QED
        BY <2>3, <2>6, <3>1, <3>2 DEF Counts
    <2>11. UNCHANGED <<iface, replaced>>
      BY DEF Update
    <2>12. Attached(s2.prog)' /\ \A n \in ProgIds : Attached(n) => Attached(n)'
      <3>1. Attached(s.prog)
        BY <2>1, <2>2, <2>4 DEF SInv, OnInterface, Attached
      <3>2. PICK p : p = s2.prog
        OBVIOUS
      <3>3. Attached(p)' <=> Attached(p)
        BY <2>11 DEF Attached
      <3> QED
        BY <2>6, <2>11, <3>1, <3>2, <3>3 DEF Attached
    <2>13. /\ entries' \in EntriesT
           /\ s.rx => entries'[s.map][s.q] = <<u, k>>
           /\ \A n \in ProgIds, q \in Queues : entries'[n][q] = entries[n][q] \/ (s.map = n /\ s.q = q)
      <3>1. entries \in EntriesT
        BY Types DEF SInv
      <3>2. CASE ~s.rx
        BY <1>2, <2>1, <3>1, <3>2 DEF Updates
      <3>3. CASE s.rx
        <4>1. PICK e \in (Users \X Slots) \cup {NoEntry} : e = <<u, k>>
          OBVIOUS
        <4>2. PICK r \in [Queues -> (Users \X Slots) \cup {NoEntry}] : r = [entries[s.map] EXCEPT ![s.q] = e]
          BY <2>4, <3>1 DEF EntriesT
        <4>3. entries' = [entries EXCEPT ![s.map] = r]
          BY <1>2, <2>1, <3>3, <4>1, <4>2 DEF Updates
        <4>4. r[s.q] = e /\ \A q \in Queues : q # s.q => r[q] = entries[s.map][q]
          BY <2>4, <3>1, <4>2 DEF EntriesT
        <4> QED
          BY <2>4, <3>1, <4>1, <4>3, <4>4 DEF EntriesT
      <3> QED
        BY <2>4, <3>2, <3>3
    <2>14. replaced' \subseteq ProgIds /\ iface' \in 0 .. MaxProgs
      BY <2>11, Types DEF SInv
    <2>15. next_prog' \in 1 .. MaxProgs + 1 /\ calls' \in 0 .. MaxCalls
      BY <2>3 DEF Update
    <2>16. /\ Served(sock[u][k]) /\ s2.q = sock[u][k].q
           /\ s2.rx => entries'[s2.map][s2.q] = <<u, k>>
           /\ \A n \in ProgIds, q \in Queues :
                entries'[n][q] = entries[n][q] \/ (sock[u][k].map = n /\ sock[u][k].q = q)
      BY <2>1, <2>4, <2>6, <2>13
    <2>17. QED BY SMTT(30), <2>3, <2>6, <2>7, <2>8, <2>9, <2>10, <2>12, <2>13, <2>14, <2>15, <2>16, Whole
  <1>3. QED BY <1>1, <1>2 DEF Update

\* a socket is deleted
LEMMA SocketDeleted == ASSUME SInv, NEW u \in Users, NEW k \in Slots, xsk_socket__delete(u, k)  PROVE  SInv'
  <1>1. PICK j \in Slots : j # k
    BY TwoSlots
  <1>2. PICK s : s = sock[u][k]
    OBVIOUS
  <1>3. PICK g : g = WithoutRefs(has[u], s)
    OBVIOUS
  <1>4. PICK m2 : m2 = [umem[u] EXCEPT !.refcount = umem[u].refcount - 1]
    OBVIOUS
  <1>5. PICK h2 : h2 = [g EXCEPT !.mmaps = g.mmaps - s.maps, !.fds = g.fds - One(s.own)]
    OBVIOUS
  <1>6. /\ s.pc = "up" /\ sock[u][j].pc \in {"none", "up"}
        /\ UNCHANGED <<iface, next_prog, calls, replaced>>
    BY <1>2 DEF xsk_socket__delete, Idle
  <1>7. /\ umem[u] \in UmemT /\ s \in SockT /\ sock[u][j] \in SockT /\ has[u] \in HasT /\ lost[u] \in LostT
        /\ Fits(umem[u], s) /\ Fits(umem[u], sock[u][j]) /\ Together(s, sock[u][j])
        /\ Counts(umem[u], s, sock[u][j], has[u], lost[u])
    BY <1>1, <1>2, AtSlot
  <1>8. g \in HasT /\ Released(has[u], s, g)
    BY <1>2, <1>3, <1>6, References
  <1>9. Backed(umem[u], s, g, m2, h2) /\ s.pc # "none"
    BY <1>4, <1>5, <1>6 DEF Backed
  <1>10. /\ m2 \in UmemT /\ h2 \in HasT
         /\ Fits(m2, NoSocket) /\ Fits(m2, sock[u][j]) /\ Together(NoSocket, sock[u][j])
         /\ Counts(m2, NoSocket, sock[u][j], h2, lost[u])
    BY <1>6, <1>7, <1>8, <1>9, Unwound
  <1>11. PICK e : e = [g EXCEPT !.fds = g.fds - One(s.own)]
    OBVIOUS
  <1>12. Unmap(u, s.maps, e) /\ umem' = [umem EXCEPT ![u] = m2] /\ Put(u, k, NoSocket)
    BY <1>2, <1>3, <1>4, <1>11 DEF xsk_socket__delete, One
  <1>13. s.q \in Queues /\ (s.map \in ProgIds => Served(s))
    BY <1>6, <1>7, Nones DEF Fits, Served, SockT
  <1>14. /\ entries' \in EntriesT
         /\ \A n \in ProgIds, q \in Queues :
              entries'[n][q] = entries[n][q] \/ entries[n][q] = <<u, k>> \/ (Served(s) /\ s.map = n /\ s.q = q)
    <2>1. entries' = Deleted(s)
      BY <1>2 DEF xsk_socket__delete
    <2> QED
      BY <1>7, <1>13, <2>1, Removed
  <1>15. /\ iface' \in 0 .. MaxProgs /\ next_prog' \in 1 .. MaxProgs + 1 /\ calls' \in 0 .. MaxCalls
         /\ replaced' \subseteq ProgIds /\ \A n \in ProgIds : Attached(n) => Attached(n)'
    BY <1>6, Types DEF SInv, Attached
  <1>16. ~Served(NoSocket) /\ NoSocket.prog = 0 /\ NoSocket.pc # "up" /\ NoSocket \in SockT
    BY Nones DEF Served, Setup
  <1>17. /\ g.fds \in Nat /\ g.mmaps \in Nat /\ s.maps \in Nat /\ lost[u].mmaps \in Nat
         /\ g.mmaps - s.maps \in Nat /\ g.fds - One(s.own) \in Nat
    <2>1. /\ g.fds \in Nat /\ g.mmaps \in Nat /\ s.maps \in Nat /\ lost[u].mmaps \in Nat
          /\ h2.mmaps \in Nat /\ h2.fds \in Nat
      BY <1>7, <1>8, <1>10 DEF HasT, SockT, LostT
    <2>2. h2.mmaps = g.mmaps - s.maps /\ h2.fds = g.fds - One(s.own)
      BY <1>5, <1>8 DEF HasT
    <2> QED
      BY <2>1, <2>2
  <1>18. PICK x \in Nat : x = g.mmaps - s.maps
    BY <1>17
  <1>19. PICK y \in Nat : y = g.fds - One(s.own)
    BY <1>17
  <1>20. /\ e \in HasT /\ e.mmaps = g.mmaps /\ e.fds = y /\ e.progs = g.progs /\ e.maps = g.maps
         /\ h2 = [e EXCEPT !.mmaps = x] /\ h2.mmaps = x /\ h2.fds = y /\ h2.progs = g.progs /\ h2.maps = g.maps
    BY <1>5, <1>8, <1>11, <1>18, <1>19 DEF HasT
  <1>21. CASE has' = [has EXCEPT ![u] = [e EXCEPT !.mmaps = @ - s.maps]] /\ UNCHANGED lost
    <2>1. has' = [has EXCEPT ![u] = h2]
      BY <1>18, <1>20, <1>21
    <2>2. Changes(u, k, m2, NoSocket, h2, lost[u])
      BY <1>12, <1>21, <2>1 DEF Put, Changes
    <2>3. QED BY <1>1, <1>2, <1>7, <1>10, <1>14, <1>15, <1>16, <2>2, Whole
  <1>22. CASE /\ has' = [has EXCEPT ![u] = e]
              /\ lost' = [lost EXCEPT ![u] = [refs |-> @.refs, mmaps |-> @.mmaps + s.maps,
                                              bound |-> @.bound \cup ({umem[u].bound} \ {0})]]
    <2>1. PICK z \in Nat : z = lost[u].mmaps + s.maps
      BY <1>17
    <2>2. PICK b \in SUBSET Queues : b = lost[u].bound \cup ({umem[u].bound} \ {0})
      BY <1>7 DEF LostT, UmemT
    <2>3. PICK l : l = [refs |-> lost[u].refs, mmaps |-> z, bound |-> b]
      OBVIOUS
    <2>4. l \in LostT /\ l.mmaps = z /\ l.refs = lost[u].refs
      BY <1>7, <2>3 DEF LostT
    <2>5. lost' = [lost EXCEPT ![u] = l]
      BY <1>22, <2>1, <2>2, <2>3
    <2>6. Changes(u, k, m2, NoSocket, e, l)
      BY <1>12, <1>22, <2>5 DEF Put, Changes
    <2>7. Counts(m2, NoSocket, sock[u][j], e, l)
      <3>1. /\ m2.refcount = One(NoSocket.pc # "none") + One(sock[u][j].pc # "none") + l.refs
            /\ ~m2.up => m2.refcount = 0
            /\ e.fds = One(m2.up) + One(NoSocket.own) + One(sock[u][j].own)
            /\ \A n \in ProgIds : /\ e.progs[n] = One(Opens(NoSocket, n)) + One(Opens(sock[u][j], n))
                                  /\ e.maps[n] = One(NoSocket.map = n) + One(sock[u][j].map = n)
        BY <1>10, <1>20, <2>4 DEF Counts
      <3>2. h2.mmaps = (2 * One(m2.up)) + NoSocket.maps + sock[u][j].maps + lost[u].mmaps
        BY <1>10 DEF Counts
      <3>3. One(m2.up) \in {0, 1} /\ NoSocket.maps = 0 /\ sock[u][j].maps \in Nat
        BY <1>7, Nones DEF One, SockT
      <3>4. e.mmaps = (2 * One(m2.up)) + NoSocket.maps + sock[u][j].maps + l.mmaps
        BY <1>17, <1>18, <1>20, <2>1, <2>4, <3>2, <3>3
      <3> QED
        BY <3>1, <3>4 DEF Counts
    <2>8. QED BY <1>1, <1>2, <1>7, <1>10, <1>14, <1>15, <1>16, <1>20, <2>4, <2>6, <2>7, Whole
  <1>23. QED BY <1>12, <1>21, <1>22 DEF Unmap

\* the creation of a socket begins
LEMMA Begun == ASSUME SInv, NEW u \in Users, NEW k \in Slots, BeginCreate(u, k)  PROVE  SInv'
  <1>1. PICK j \in Slots : j # k
    BY TwoSlots
  <1>2. PICK s : s = sock[u][k]
    OBVIOUS
  <1>3. /\ s.pc = "none" /\ sock[u][j].pc \in {"none", "up"} /\ umem[u].up
        /\ UNCHANGED <<iface, entries, next_prog, replaced>> /\ calls < MaxCalls /\ calls' = calls + 1
    BY <1>2 DEF BeginCreate, Idle
  <1>4. /\ umem[u] \in UmemT /\ s \in SockT /\ sock[u][j] \in SockT /\ has[u] \in HasT /\ lost[u] \in LostT
        /\ Fits(umem[u], s) /\ Fits(umem[u], sock[u][j]) /\ Together(s, sock[u][j])
        /\ Counts(umem[u], s, sock[u][j], has[u], lost[u]) /\ has \in [Users -> HasT] /\ lost \in [Users -> LostT]
    BY <1>1, <1>2, AtSlot, Types DEF SInv
  <1>5. /\ umem[u].refcount \in Nat /\ sock[u][j].maps \in Nat /\ has[u].fds \in Nat /\ has[u].mmaps \in Nat
        /\ lost[u].refs \in Nat /\ lost[u].mmaps \in Nat
    BY <1>4 DEF UmemT, SockT, HasT, LostT
  <1>6. /\ umem[u].refcount = One(sock[u][j].pc # "none") + lost[u].refs
        /\ has[u].fds = 1 + One(sock[u][j].own) /\ has[u].mmaps = 2 + sock[u][j].maps + lost[u].mmaps
        /\ \A n \in ProgIds : has[u].progs[n] = One(Opens(sock[u][j], n)) /\ has[u].maps[n] = One(sock[u][j].map = n)
    <2>1. /\ One(s.pc # "none") = 0 /\ One(umem[u].up) = 1 /\ s.maps = 0 /\ One(s.own) = 0
          /\ \A n \in ProgIds : One(Opens(s, n)) = 0 /\ One(s.map = n) = 0
      BY <1>3, <1>4, Nones DEF Fits, One, Opens
    <2>2. /\ One(sock[u][j].pc # "none") \in {0, 1} /\ One(sock[u][j].own) \in {0, 1}
          /\ \A n \in ProgIds : One(Opens(sock[u][j], n)) \in {0, 1} /\ One(sock[u][j].map = n) \in {0, 1}
      BY DEF One
    <2> QED
      BY <1>4, <1>5, <2>1, <2>2 DEF Counts
  <1>7. PICK q \in Queues, rx \in BOOLEAN, inhibit \in BOOLEAN, noexist \in BOOLEAN :
          /\ umem[u].refcount > 0 => inhibit
          /\ umem' = [umem EXCEPT ![u].refcount = @ + 1]
          /\ \/ /\ Put(u, k, [NoSocket EXCEPT !.pc = "rx", !.q = q, !.rx = rx, !.inhibit = inhibit,
                                !.noexist = noexist, !.own = umem[u].refcount > 0])
                /\ has' = [has EXCEPT ![u].fds = @ + (IF umem[u].refcount > 0 THEN 1 ELSE 0)]
                /\ UNCHANGED lost
             \/ /\ umem[u].refcount > 0
                /\ lost' = [lost EXCEPT ![u].refs = @ + 1]
                /\ UNCHANGED <<sock, has>>
    BY DEF BeginCreate
  <1>8. PICK c \in Nat : c = umem[u].refcount + 1
    BY <1>5
  <1>9. PICK m : m = [umem[u] EXCEPT !.refcount = c]
    OBVIOUS
  <1>10. m \in UmemT /\ m.refcount = c /\ m.up /\ m.bound = umem[u].bound
    BY ZenonT(40), <1>3, <1>4, <1>9, UmemSet
  <1>11. umem' = [umem EXCEPT ![u] = m]
    BY <1>7, <1>8, <1>9
  <1>12. Fits(m, sock[u][j])
    BY <1>3, <1>4, <1>10 DEF Fits, Setup
  <1>13. next_prog' \in 1 .. MaxProgs + 1 /\ calls' \in 0 .. MaxCalls
    BY <1>3, Types, Nones DEF SInv
  <1>14. CASE /\ Put(u, k, [NoSocket EXCEPT !.pc = "rx", !.q = q, !.rx = rx, !.inhibit = inhibit,
                              !.noexist = noexist, !.own = umem[u].refcount > 0])
              /\ has' = [has EXCEPT ![u].fds = @ + (IF umem[u].refcount > 0 THEN 1 ELSE 0)]
              /\ UNCHANGED lost
    <2>1. PICK mine \in BOOLEAN : mine = (umem[u].refcount > 0)
      <3>1. (umem[u].refcount > 0) \in BOOLEAN
        BY <1>5
      <3> QED
        BY <3>1
    <2>2. PICK s2 : s2 = [NoSocket EXCEPT !.pc = "rx", !.q = q, !.rx = rx, !.inhibit = inhibit,
                            !.noexist = noexist, !.own = mine]
      OBVIOUS
    <2>3. /\ s2 \in SockT /\ s2.pc = "rx" /\ s2.q = q /\ s2.inhibit = inhibit /\ s2.own = mine
          /\ s2.maps = 0 /\ s2.prog = 0 /\ s2.map = 0
      BY ZenonT(40), <2>2, Nones DEF SockT, SockPcs
    <2>4. PICK y \in Nat : y = has[u].fds + (IF umem[u].refcount > 0 THEN 1 ELSE 0)
      BY <1>5
    <2>5. PICK h : h = [has[u] EXCEPT !.fds = y]
      OBVIOUS
    <2>6. h \in HasT /\ h.fds = y /\ h.mmaps = has[u].mmaps /\ h.progs = has[u].progs /\ h.maps = has[u].maps
      BY <1>4, <2>5 DEF HasT
    <2>7. Changes(u, k, m, s2, h, lost[u])
      BY <1>11, <1>14, <2>1, <2>2, <2>4, <2>5 DEF Changes, Put
    <2>8. Fits(m, s2)
      <3>1. (mine => inhibit) /\ (mine <=> m.refcount > 1)
        <4>1. mine <=> (umem[u].refcount > 0)
          BY <2>1, Zenon
        <4>2. (m.refcount > 1) <=> (umem[u].refcount > 0)
          BY <1>5, <1>8, <1>10
        <4>3. (umem[u].refcount > 0) => inhibit
          BY <1>7
        <4> QED
          BY <4>1, <4>2, <4>3, Zenon
      <3> QED
        BY <2>3, <3>1 DEF Fits, Setup
    <2>9. Together(s2, sock[u][j])
      <3>1. sock[u][j].pc # "none" => umem[u].refcount > 0
        BY <1>5, <1>6 DEF One
      <3> QED
        BY <1>3, <1>7, <2>3, <3>1 DEF Together
    <2>10. Counts(m, s2, sock[u][j], h, lost[u])
      <3>1. /\ One(s2.pc # "none") = 1 /\ One(m.up) = 1 /\ One(s2.own) = (IF umem[u].refcount > 0 THEN 1 ELSE 0)
            /\ \A n \in ProgIds : One(Opens(s2, n)) = 0 /\ One(s2.map = n) = 0
        BY <1>10, <2>1, <2>3, Nones DEF One, Opens
      <3>2. /\ One(sock[u][j].pc # "none") \in {0, 1} /\ One(sock[u][j].own) \in {0, 1}
            /\ \A n \in ProgIds : One(Opens(sock[u][j], n)) \in {0, 1} /\ One(sock[u][j].map = n) \in {0, 1}
        BY DEF One
      <3>3. m.refcount = One(s2.pc # "none") + One(sock[u][j].pc # "none") + lost[u].refs
        BY <1>5, <1>6, <1>8, <1>10, <3>1, <3>2
      <3>4. /\ h.fds = One(m.up) + One(s2.own) + One(sock[u][j].own)
            /\ h.mmaps = (2 * One(m.up)) + s2.maps + sock[u][j].maps + lost[u].mmaps
        BY <1>5, <1>6, <2>3, <2>4, <2>6, <3>1, <3>2
      <3>5. \A n \in ProgIds : h.progs[n] = One(Opens(s2, n)) + One(Opens(sock[u][j], n))
                               /\ h.maps[n] = One(s2.map = n) + One(sock[u][j].map = n)
        BY <1>6, <2>6, <3>1, <3>2
      <3> QED
        BY <1>10, <3>3, <3>4, <3>5 DEF Counts
    <2>11. ~Served(s2) /\ s2.pc \notin {"getfd", "lookup", "update", "up"}
      BY <2>3 DEF Served, Setup
    <2>12. QED BY <1>1, <1>3, <1>4, <1>10, <1>12, <1>13, <2>3, <2>6, <2>7, <2>8, <2>9, <2>10, <2>11, Quiet
  <1>15. CASE lost' = [lost EXCEPT ![u].refs = @ + 1] /\ UNCHANGED <<sock, has>>
    <2>1. PICK z \in Nat : z = lost[u].refs + 1
      BY <1>5
    <2>2. PICK l : l = [lost[u] EXCEPT !.refs = z]
      OBVIOUS
    <2>3. l \in LostT /\ l.refs = z /\ l.mmaps = lost[u].mmaps
      BY <1>4, <2>2, LostSet
    <2>4. Changes(u, k, m, s, has[u], l)
      BY <1>2, <1>11, <1>15, <2>1, <2>2 DEF Changes
    <2>5. Fits(m, s)
      BY <1>3, <1>4, <1>10 DEF Fits, Setup
    <2>6. Counts(m, s, sock[u][j], has[u], l)
      <3>1. m.refcount = One(s.pc # "none") + One(sock[u][j].pc # "none") + l.refs
        BY <1>3, <1>5, <1>6, <1>8, <1>10, <2>1, <2>3 DEF One
      <3>2. m.up <=> umem[u].up
        BY <1>3, <1>10
      <3>3. One(m.up) = One(umem[u].up)
        BY <3>2 DEF One
      <3> QED
        BY <1>4, <1>10, <2>3, <3>1, <3>3 DEF Counts
    <2>7. QED BY <1>1, <1>2, <1>3, <1>4, <1>10, <1>12, <1>13, <2>3, <2>4, <2>5, <2>6, Quiet
  <1>16. QED BY <1>7, <1>14, <1>15

-----------------------------------------------------------------------------
\* the invariant at the start
LEMMA SStart == XInit => SInv
  <1> SUFFICES ASSUME XInit  PROVE  SInv
    OBVIOUS
  <1>1. XTypeOK
    <2>1. entries \in EntriesT
      BY DEF XInit, EntriesT
    <2> QED
      BY <2>1, NoneLost, Nones, Types DEF XInit
  <1>2. \A u \in Users : UserOK(u)
    <2>1. Fits(NoUmem, NoSocket) /\ Together(NoSocket, NoSocket)
      BY Nones DEF Fits, Together, Setup
    <2>2. PICK l \in LostT : l = NoLoss /\ l.refs = 0 /\ l.mmaps = 0
      BY NoneLost
    <2>3. Counts(NoUmem, NoSocket, NoSocket, Nothing, l)
      BY <2>2, Nones DEF Counts, One, Opens
    <2> QED
      BY <2>1, <2>2, <2>3, Nones DEF UserOK, XInit
  <1>3. \A u \in Users, k \in Slots : sock[u][k].pc = "none"
    BY Nones DEF XInit
  <1>4. Queued /\ OnInterface /\ Entered
    BY <1>3 DEF Queued, OnInterface, Entered, Served, Setup
  <1>5. QED BY <1>1, <1>2, <1>4 DEF SInv

\* and over every step
LEMMA SStep == SInv /\ [XNext]_xvars => SInv'
  <1> SUFFICES ASSUME SInv, [XNext]_xvars  PROVE  SInv'
    OBVIOUS
  <1>1. CASE \E u \in Users : xsk_umem__create(u)
    BY <1>1, UmemCreated
  <1>2. CASE \E u \in Users : xsk_umem__delete(u)
    BY <1>2, UmemDeleted
  <1>3. CASE \E u \in Users : ProcessExit(u)
    BY <1>3, ProcessEnded
  <1>4. CASE \E u \in Users, k \in Slots : BeginCreate(u, k)
    BY <1>4, Begun
  <1>5. CASE \E u \in Users, k \in Slots : RxRing(u, k) \/ TxRing(u, k)
    BY <1>5, RingsUp
  <1>6. CASE \E u \in Users, k \in Slots : Bind(u, k)
    BY <1>6, Bound
  <1>7. CASE \E u \in Users, k \in Slots : GetId(u, k)
    BY <1>7, Asked
  <1>8. CASE \E u \in Users, k \in Slots : LoadProg(u, k)
    BY <1>8, XdpLoaded
  <1>9. CASE \E u \in Users, k \in Slots : Attach(u, k)
    BY <1>9, Attaching
  <1>10. CASE \E u \in Users, k \in Slots : GetFd(u, k)
    BY <1>10, Found
  <1>11. CASE \E u \in Users, k \in Slots : Lookup(u, k)
    BY <1>11, LookedUp
  <1>12. CASE \E u \in Users, k \in Slots : Update(u, k)
    BY <1>12, Entering
  <1>13. CASE \E u \in Users, k \in Slots : xsk_socket__delete(u, k)
    BY <1>13, SocketDeleted
  <1>14. CASE UNCHANGED xvars
    BY <1>14 DEF xvars, SInv, XTypeOK, UserOK, Queued, OnInterface, Entered
  <1>15. QED
    BY <1>1, <1>2, <1>3, <1>4, <1>5, <1>6, <1>7, <1>8, <1>9, <1>10, <1>11, <1>12, <1>13, <1>14 DEF XNext

\* of two slots, as many as satisfy a condition
LEMMA OfTwo ==
  ASSUME NEW S \in SUBSET Slots
  PROVE  Cardinality(S) = One(1 \in S) + One(2 \in S)
  <1>1. S = {} \/ S = {1} \/ S = {2} \/ S = {1, 2}
    BY DEF Slots
  <1>2. Cardinality({}) = 0
    BY FS_EmptySet
  <1>3. Cardinality({1}) = 1 /\ Cardinality({2}) = 1
    BY FS_Singleton
  <1>4. Cardinality({1, 2}) = 2
    <2>1. {1, 2} = {1} \cup {2} /\ 2 \notin {1} /\ IsFiniteSet({1})
      BY FS_Singleton
    <2>2. Cardinality({1} \cup {2}) = Cardinality({1}) + 1
      BY <2>1, FS_AddElement
    <2> QED
      BY <1>3, <2>1, <2>2
  <1>5. QED BY <1>1, <1>2, <1>3, <1>4 DEF One

\* what it says of a process, counted as the property does
LEMMA Accounted == SInv => ResourcesAccounted
  <1> SUFFICES ASSUME SInv  PROVE  ResourcesAccounted
    OBVIOUS
  <1>1. UmemOutlivesSockets
    <2>1. ASSUME NEW u \in Users, NEW k \in Slots, sock[u][k].pc # "none"
          PROVE  umem[u].up /\ umem[u].refcount > 0
      <3>1. PICK j \in Slots : j # k
        BY TwoSlots
      <3>2. Counts(umem[u], sock[u][k], sock[u][j], has[u], lost[u]) /\ lost[u].refs \in Nat
        BY <3>1, AtSlot DEF LostT
      <3>3. One(sock[u][k].pc # "none") = 1 /\ One(sock[u][j].pc # "none") \in {0, 1}
        BY <2>1 DEF One
      <3>4. umem[u].refcount > 0 /\ (~umem[u].up => umem[u].refcount = 0)
        BY <3>2, <3>3 DEF Counts
      <3> QED
        BY <3>4
    <2> QED
      BY <2>1 DEF UmemOutlivesSockets
  <1>2. ASSUME NEW u \in Users
        PROVE  LET up == IF umem[u].up THEN 1 ELSE 0
                   rings == sock[u][1].maps + sock[u][2].maps
               IN  /\ has[u].fds = up + Cardinality({k \in Slots : sock[u][k].own})
                   /\ has[u].mmaps = 2 * up + rings + lost[u].mmaps
                   /\ \A n \in ProgIds : /\ has[u].progs[n] = Cardinality(Open(u, n))
                                     /\ has[u].maps[n] = Cardinality({k \in Slots : sock[u][k].map = n})
    <2>1. PICK s : s = sock[u][1]
      OBVIOUS
    <2>2. PICK t : t = sock[u][2]
      OBVIOUS
    <2>3. Counts(umem[u], s, t, has[u], lost[u]) /\ s \in SockT /\ t \in SockT /\ lost[u] \in LostT
      BY <2>1, <2>2, Types DEF SInv, UserOK, Slots
    <2>4. Cardinality({k \in Slots : sock[u][k].own}) = One(s.own) + One(t.own)
      <3>1. PICK S \in SUBSET Slots : S = {k \in Slots : sock[u][k].own}
        OBVIOUS
      <3>2. (1 \in S <=> s.own) /\ (2 \in S <=> t.own)
        BY <2>1, <2>2, <3>1 DEF Slots
      <3> QED
        BY <3>1, <3>2, OfTwo DEF One
    <2>5. ASSUME NEW n \in ProgIds
          PROVE  /\ Cardinality(Open(u, n)) = One(Opens(s, n)) + One(Opens(t, n))
                 /\ Cardinality({k \in Slots : sock[u][k].map = n}) = One(s.map = n) + One(t.map = n)
      <3>1. PICK S \in SUBSET Slots : S = Open(u, n)
        BY DEF Open
      <3>2. (1 \in S <=> Opens(s, n)) /\ (2 \in S <=> Opens(t, n))
        BY <2>1, <2>2, <3>1 DEF Slots, Open, Opens
      <3>3. PICK T \in SUBSET Slots : T = {k \in Slots : sock[u][k].map = n}
        OBVIOUS
      <3>4. (1 \in T <=> s.map = n) /\ (2 \in T <=> t.map = n)
        BY <2>1, <2>2, <3>3 DEF Slots
      <3>5. Cardinality(S) = One(Opens(s, n)) + One(Opens(t, n))
        BY <3>2, OfTwo DEF One
      <3>6. Cardinality(T) = One(s.map = n) + One(t.map = n)
        BY <3>4, OfTwo DEF One
      <3> QED
        BY <3>1, <3>3, <3>5, <3>6
    <2>6. /\ s.maps \in Nat /\ t.maps \in Nat /\ lost[u].mmaps \in Nat /\ One(s.own) \in {0, 1} /\ One(t.own) \in {0, 1}
          /\ One(umem[u].up) = (IF umem[u].up THEN 1 ELSE 0) /\ One(umem[u].up) \in {0, 1}
      BY <2>3 DEF SockT, LostT, One
    <2>7. has[u].fds = One(umem[u].up) + Cardinality({k \in Slots : sock[u][k].own})
      BY <2>3, <2>4, <2>6 DEF Counts
    <2>8. has[u].mmaps = 2 * One(umem[u].up) + (s.maps + t.maps) + lost[u].mmaps
      <3>1. has[u].mmaps = (2 * One(umem[u].up)) + s.maps + t.maps + lost[u].mmaps
        BY <2>3 DEF Counts
      <3> QED
        BY <2>6, <3>1
    <2>9. \A n \in ProgIds : /\ has[u].progs[n] = Cardinality(Open(u, n))
                             /\ has[u].maps[n] = Cardinality({k \in Slots : sock[u][k].map = n})
      BY <2>3, <2>5 DEF Counts
    <2> QED
      BY <2>1, <2>2, <2>6, <2>7, <2>8, <2>9
  <1>3. QED BY <1>1, <1>2 DEF ResourcesAccounted

\* and of the interface
LEMMA ServedOnes == SInv => ReceiversAreServed
  <1> SUFFICES ASSUME SInv, NEW u \in Users, NEW k \in Slots,
                      sock[u][k].pc = "up", sock[u][k].rx, ~sock[u][k].inhibit
               PROVE  /\ entries[sock[u][k].map][sock[u][k].q] = <<u, k>>
                      /\ iface = sock[u][k].prog \/ sock[u][k].prog \in replaced
    BY DEF ReceiversAreServed
  <1>1. sock[u][k].prog # 0
    BY DEF SInv, UserOK, Fits, Slots
  <1>2. QED BY <1>1 DEF SInv, Entered, OnInterface

(***************************************************************************)
(* The types of the two structs, of what the kernel keeps behind an        *)
(* interface, and of what a process has.                                   *)
(***************************************************************************)
THEOREM SocketTypes == XSpec => []XTypeOK
  <1>1. SInv => XTypeOK
    BY DEF SInv
  <1>2. QED BY <1>1, SStart, SStep, PTL DEF XSpec

(***************************************************************************)
(* xsk_socket__create and its labels, xsk_socket__delete,                  *)
(* xsk_umem__delete: at every moment a process has the descriptors and     *)
(* mappings that its umem and sockets say, whichever call has failed, and  *)
(* the umem is there while one of its sockets is.                          *)
(***************************************************************************)
THEOREM ResourcesKept == XSpec => []ResourcesAccounted
  <1>1. QED BY Accounted, SStart, SStep, PTL DEF XSpec

(***************************************************************************)
(* xsk_setup_xdp_prog: of any number of processes that set up their        *)
(* sockets at the same time, each one whose socket receives is entered in  *)
(* the map of its program, and the program is on the interface or was      *)
(* attached over.                                                          *)
(***************************************************************************)
THEOREM ReceiversServed == XSpec => []ReceiversAreServed
  <1>1. QED BY ServedOnes, SStart, SStep, PTL DEF XSpec

-----------------------------------------------------------------------------
(***************************************************************************)
(* Objects.  The inductive invariant is, of each process: where its call   *)
(* is in its object, and which maps and programs are there then (ObjOK);   *)
(* that its descriptors are those of its object and the lost ones (FdsOf); *)
(* that a map which counts as pinned is at its path, unless that was       *)
(* unlinked by another process (PinnedOf); that all numbers are below the  *)
(* kernel's next (NumberedOf); and that what a load has pinned is of maps  *)
(* that its unwinding has still to unpin (PinsOf).  A step of one process  *)
(* can disturb another's part through the BPF file system alone            *)
(* (PinsKeep), so that each step is about the process that takes it        *)
(* (OwnStep).                                                              *)
(***************************************************************************)
Making == {"get", "create", "populate", "autopin", "relocate", "progs"}
Pinning == {"pinmaps", "unpinmaps", "pinprogs", "unpinprogs", "rollprogs"}
Fresh(m) == m.fd = 0 /\ ~m.pinned /\ ~m.reused
Filled(o) == \A i \in Maps : o.map[i].fd # 0
NoProgs(o, j) == \A k \in Progs : k >= j => o.prog[k] = 0

\* where a call is in its object
Placed(o) ==
  /\ o.pc \in Making \cup Pinning \cup {"unpin", "rollback"}
  /\ o.pc \in {"get", "create", "populate", "autopin", "pinmaps", "unpinmaps"} => o.i \in Maps
  /\ o.pc \in {"progs", "pinprogs", "unpinprogs"} => o.i \in Progs
  /\ o.pc = "unpin" => o.i \in 1 .. NMaps + 1
  /\ o.pc = "rollback" => o.failed \in Maps /\ o.i \in 0 .. o.failed - 1
  /\ o.pc = "rollprogs" => o.i \in 0 .. NProgs - 1
  /\ o.pc \in {"get", "create"} => \A k \in Maps : IF k < o.i THEN o.map[k].fd # 0 ELSE Fresh(o.map[k])
  /\ o.pc \in {"populate", "autopin"} =>
       /\ \A k \in Maps : IF k <= o.i THEN o.map[k].fd # 0 ELSE Fresh(o.map[k])
       /\ ~o.map[o.i].pinned /\ ~o.map[o.i].reused
  /\ o.pc \in {"get", "create", "populate", "autopin", "relocate"} => NoProgs(o, 1)
  /\ o.pc = "progs" => NoProgs(o, o.i)
  /\ o.pc \in {"relocate", "progs", "rollback"} \cup Pinning => Filled(o)
  /\ o.pc \in Making \cup Pinning => o.failed = 0
  /\ o.pc = "rollback" /\ ~o.stuck => \A k \in Maps : o.i < k /\ k < o.failed => ~o.map[k].pinned

ObjOK(o) ==
  /\ o.state \in {"closed", "open"} => (\A i \in Maps : Fresh(o.map[i])) /\ NoProgs(o, 1) /\ o.failed = 0
  /\ o.state = "busy" => Placed(o)
  /\ o.state = "loaded" => Filled(o)
  /\ o.state = "loaded" /\ o.failed # 0 /\ ~o.stuck => \A i \in Maps : i < o.failed => ~o.map[i].pinned
  /\ \A i \in Maps : o.map[i].pinned => o.map[i].path

\* the descriptors of a process are those of its object, and the lost ones
FdsOf(o, h, l) == \A n \in Ids : h[n] = Held(o, n) + l[n]

\* maps that count as pinned are there
PinnedOf(o, t, f) ==
  \A i \in Maps : o.map[i].pinned /\ i \notin t /\ o.state \in {"busy", "loaded"} =>
                    o.map[i].fd \in {0, f[i]} /\ f[i] # 0

\* what is numbered exists
NumberedOf(o, l, n) ==
  /\ \A i \in Maps : o.map[i].fd < n
  /\ \A j \in Progs : o.prog[j] < n
  /\ \A k \in Ids : k >= n => l[k] = 0

Loading(o) == o.state = "busy" /\ o.pc \in Making \cup {"unpin"}

\* the pins that a load has made are of the maps that it will unpin
PinsOf(p, o, t, w) ==
  /\ Loading(o) => \A x \in Paths :
       /\ w[x] = p => /\ x \in Maps /\ o.map[x].pinned /\ ~o.map[x].reused
                      /\ o.pc = "unpin" => o.i <= x \/ o.stuck
       /\ x \in Maps /\ o.map[x].pinned /\ ~o.map[x].reused /\ x \notin t => w[x] = p
  /\ o.state = "failed" /\ ~o.stuck => \A x \in Paths : w[x] # p

ProcOK(p, o, h, l, t, f, w, n) ==
  ObjOK(o) /\ FdsOf(o, h, l) /\ PinnedOf(o, t, f) /\ NumberedOf(o, l, n) /\ PinsOf(p, o, t, w)

OInv ==
  /\ TypeOK
  /\ \A p \in Procs : ProcOK(p, obj[p], fds[p], leaked[p], taken[p], fs, pinner, next)
  /\ \A x \in Paths : fs[x] < next

-----------------------------------------------------------------------------
MapT == [fd : 0 .. MaxIds, pinned : BOOLEAN, reused : BOOLEAN, path : BOOLEAN]
Pcs == {"", "get", "create", "populate", "autopin", "relocate", "progs", "unpin",
        "pinmaps", "unpinmaps", "unpinmaps_end", "rollback", "pinprogs", "unpinprogs", "rollprogs"}
ObjT == [state : {"closed", "open", "busy", "loaded", "failed"}, pc : Pcs,
         i : 0 .. NMaps + NProgs + 1, given : BOOLEAN, failed : 0 .. NMaps, stuck : BOOLEAN,
         map : [Maps -> MapT], prog : [Progs -> 0 .. MaxIds]]
CountT == [Ids -> Nat]

\* the type invariant, with its records by name
LEMMA OTypes ==
  /\ TypeOK <=> /\ obj \in [Procs -> ObjT] /\ fds \in [Procs -> CountT] /\ fs \in [Paths -> 0 .. MaxIds]
                /\ next \in 1 .. MaxIds + 1 /\ opens \in 0 .. MaxOpens /\ leaked \in [Procs -> CountT]
                /\ pinner \in [Paths -> Procs \cup {Nobody}] /\ taken \in [Procs -> SUBSET Paths]
  /\ TypeOK' <=> /\ obj' \in [Procs -> ObjT] /\ fds' \in [Procs -> CountT] /\ fs' \in [Paths -> 0 .. MaxIds]
                 /\ next' \in 1 .. MaxIds + 1 /\ opens' \in 0 .. MaxOpens /\ leaked' \in [Procs -> CountT]
                 /\ pinner' \in [Paths -> Procs \cup {Nobody}] /\ taken' \in [Procs -> SUBSET Paths]
  BY DEF TypeOK, MapT, Pcs, ObjT, CountT

\* what the assumptions on the constants say
LEMMA Sizes ==
  /\ NMaps \in Nat /\ NProgs \in Nat /\ NMaps >= 1 /\ NProgs >= 1 /\ MaxIds \in Nat /\ MaxOpens \in Nat
  /\ Maps = 1 .. NMaps /\ Progs = 1 .. NProgs /\ Ids = 1 .. MaxIds /\ Paths = 1 .. NMaps + NProgs
  /\ Maps \subseteq Paths /\ Nobody \notin Procs
  /\ \A j \in Progs : ProgPath(j) \in Paths /\ ProgPath(j) \notin Maps
  BY SizesAssumption, NobodyAssumption DEF Maps, Progs, Ids, Paths, ProgPath

-----------------------------------------------------------------------------
(* Steps of one process, and what they do to the others.                   *)

\* what a step of p does to the BPF file system
Touched(p) ==
  \/ UNCHANGED <<fs, pinner>> /\ \A q \in Procs : q # p => taken'[q] = taken[q]
  \/ \E x \in Paths, n \in 0 .. MaxIds : Pin(p, x, n) /\ UNCHANGED taken
  \/ \E x \in Paths : /\ fs' = [fs EXCEPT ![x] = 0] /\ pinner' = [pinner EXCEPT ![x] = Nobody]
                      /\ taken' = [Taken(p, x) EXCEPT ![p] = @ \ {x}]
  \/ UNCHANGED <<fs, taken>> /\ pinner' = [x \in Paths |-> IF pinner[x] = p THEN Nobody ELSE pinner[x]]

\* pins that are another process's are not touched, or it is told
LEMMA PinsKeep ==
  ASSUME OInv, NEW p \in Procs, NEW q \in Procs, q # p, Touched(p)
  PROVE  /\ PinnedOf(obj[q], taken'[q], fs')
         /\ PinsOf(q, obj[q], taken'[q], pinner')
  <1>. DEFINE o == obj[q]
  <1>1. /\ obj \in [Procs -> ObjT] /\ fs \in [Paths -> 0 .. MaxIds]
        /\ pinner \in [Paths -> Procs \cup {Nobody}] /\ taken \in [Procs -> SUBSET Paths]
        /\ PinnedOf(o, taken[q], fs) /\ PinsOf(q, o, taken[q], pinner) /\ Nobody # q /\ Maps \subseteq Paths
    BY OTypes, Sizes DEF OInv, ProcOK
  <1>2. CASE UNCHANGED <<fs, pinner>> /\ taken'[q] = taken[q]
    BY <1>1, <1>2
  <1>3. CASE \E x \in Paths, n \in 0 .. MaxIds : Pin(p, x, n) /\ UNCHANGED taken
    <2>1. PICK x \in Paths, n \in 0 .. MaxIds : Pin(p, x, n) /\ UNCHANGED taken
      BY <1>3
    <2>2. PICK t : t = taken[q] /\ taken'[q] = t
      BY <2>1
    <2>3. /\ fs[x] = 0 /\ pinner'[x] = p
          /\ \A y \in Paths : y # x => fs'[y] = fs[y] /\ pinner'[y] = pinner[y]
      BY <1>1, <2>1 DEF Pin
    <2>4. PinnedOf(o, t, fs')
      BY <1>1, <2>2, <2>3 DEF PinnedOf
    <2>5. PinsOf(q, o, t, pinner')
      <3>1. ASSUME o.state = "busy", x \in Maps, o.map[x].pinned, x \notin t  PROVE  FALSE
        BY <1>1, <2>2, <2>3, <3>1 DEF PinnedOf
      <3> QED
        BY <1>1, <2>2, <2>3, <3>1 DEF PinsOf, Loading
    <2> QED
      BY <2>2, <2>4, <2>5
  <1>4. CASE \E x \in Paths : /\ fs' = [fs EXCEPT ![x] = 0] /\ pinner' = [pinner EXCEPT ![x] = Nobody]
                              /\ taken' = [Taken(p, x) EXCEPT ![p] = @ \ {x}]
    <2>1. PICK x \in Paths : /\ fs' = [fs EXCEPT ![x] = 0] /\ pinner' = [pinner EXCEPT ![x] = Nobody]
                             /\ taken' = [Taken(p, x) EXCEPT ![p] = @ \ {x}]
      BY <1>4
    <2>2. PICK t : t = taken'[q]
      OBVIOUS
    <2>3. /\ pinner'[x] = Nobody
          /\ \A y \in Paths : y # x => fs'[y] = fs[y] /\ pinner'[y] = pinner[y]
      BY <1>1, <2>1
    <2>4. t = (IF x \in Maps /\ o.map[x].pinned THEN taken[q] \cup {x} ELSE taken[q])
      BY <2>1, <2>2 DEF Taken
    <2>5. taken[q] \subseteq t /\ (x \in Maps /\ o.map[x].pinned => x \in t)
      BY <2>4
    <2>6. PinnedOf(o, t, fs')
      BY <1>1, <2>3, <2>5 DEF PinnedOf
    <2>7. PinsOf(q, o, t, pinner')
      BY <1>1, <2>3, <2>5 DEF PinsOf
    <2> QED
      BY <2>2, <2>6, <2>7
  <1>5. CASE UNCHANGED <<fs, taken>> /\ pinner' = [x \in Paths |-> IF pinner[x] = p THEN Nobody ELSE pinner[x]]
    <2>1. \A y \in Paths : (pinner'[y] = q) <=> (pinner[y] = q)
      BY <1>1, <1>5
    <2>2. PICK t : t = taken[q] /\ taken'[q] = t
      BY <1>5
    <2>3. PinsOf(q, o, t, pinner')
      BY <1>1, <2>1, <2>2 DEF PinsOf
    <2> QED
      BY <1>1, <1>5, <2>2, <2>3
  <1>6. QED BY <1>2, <1>3, <1>4, <1>5 DEF Touched

\* what a step of p makes of its object and its descriptors
Becomes(p, o, h, l) ==
  /\ obj' = [obj EXCEPT ![p] = o]
  /\ fds' = [fds EXCEPT ![p] = h] \/ (fds' = fds /\ h = fds[p])
  /\ leaked' = [leaked EXCEPT ![p] = l] \/ (leaked' = leaked /\ l = leaked[p])

\* a step of p that keeps what the invariant says of p keeps it
LEMMA OwnStep ==
  ASSUME OInv, NEW p \in Procs, NEW o \in ObjT, NEW h \in CountT, NEW l \in CountT, Becomes(p, o, h, l),
         Touched(p), fs' \in [Paths -> 0 .. MaxIds], \A x \in Paths : fs'[x] < next',
         next' \in 1 .. MaxIds + 1, next' >= next, opens' \in 0 .. MaxOpens,
         pinner' \in [Paths -> Procs \cup {Nobody}], taken' \in [Procs -> SUBSET Paths],
         ProcOK(p, o, h, l, taken'[p], fs', pinner', next')
  PROVE  OInv'
  <1>1. /\ obj \in [Procs -> ObjT] /\ fds \in [Procs -> CountT] /\ leaked \in [Procs -> CountT]
        /\ next \in 1 .. MaxIds + 1 /\ MaxIds \in Nat
    BY OTypes, Sizes DEF OInv
  <1>2. /\ obj' \in [Procs -> ObjT] /\ fds' \in [Procs -> CountT] /\ leaked' \in [Procs -> CountT]
        /\ obj'[p] = o /\ fds'[p] = h /\ leaked'[p] = l
        /\ \A q \in Procs : q # p => obj'[q] = obj[q] /\ fds'[q] = fds[q] /\ leaked'[q] = leaked[q]
    BY <1>1 DEF Becomes
  <1>3. TypeOK'
    BY <1>2, OTypes
  <1>4. ASSUME NEW q \in Procs
        PROVE  ProcOK(q, obj'[q], fds'[q], leaked'[q], taken'[q], fs', pinner', next')
    <2>1. CASE q = p
      BY <1>2, <2>1
    <2>2. CASE q # p
      <3>1. /\ ObjOK(obj[q]) /\ FdsOf(obj[q], fds[q], leaked[q]) /\ NumberedOf(obj[q], leaked[q], next)
        BY DEF OInv, ProcOK
      <3>2. PinnedOf(obj[q], taken'[q], fs') /\ PinsOf(q, obj[q], taken'[q], pinner')
        BY <2>2, PinsKeep
      <3>3. NumberedOf(obj[q], leaked[q], next')
        <4>1. PICK r \in ObjT : r = obj[q]
          BY <1>1
        <4>2. (\A i \in Maps : r.map[i].fd \in Nat) /\ (\A j \in Progs : r.prog[j] \in Nat)
          BY <1>1 DEF ObjT, MapT
        <4>3. \A k \in Ids : k \in Nat
          BY DEF Ids
        <4> QED
          BY <1>1, <3>1, <4>1, <4>2, <4>3 DEF NumberedOf
      <3> QED
        BY <1>2, <2>2, <3>1, <3>2, <3>3 DEF ProcOK
    <2> QED
      BY <2>1, <2>2
  <1>5. QED BY <1>3, <1>4 DEF OInv

\* an object with the same descriptors has as many of each
LEMMA HeldAlike ==
  ASSUME NEW o \in ObjT, NEW r \in ObjT, \A k \in Maps : r.map[k].fd = o.map[k].fd, r.prog = o.prog, NEW n
  PROVE  Held(r, n) = Held(o, n)
  <1>1. {i \in Maps : r.map[i].fd = n} = {i \in Maps : o.map[i].fd = n}
    OBVIOUS
  <1>2. {j \in Progs : r.prog[j] = n} = {j \in Progs : o.prog[j] = n}
    OBVIOUS
  <1>3. QED BY <1>1, <1>2 DEF Held

\* a step that is about its own call alone
Same(o, r) ==
  /\ \A k \in Maps : /\ r.map[k].fd = o.map[k].fd /\ r.map[k].pinned = o.map[k].pinned
                     /\ r.map[k].reused = o.map[k].reused
  /\ r.prog = o.prog

\* so does an object that differs in its call alone
LEMMA SameHeld ==
  ASSUME NEW o \in ObjT, NEW r \in ObjT, Same(o, r), NEW n
  PROVE  Held(r, n) = Held(o, n)
  BY HeldAlike DEF Same

\* together: a step that is about its own call alone keeps the invariant
LEMMA QuietStep ==
  ASSUME OInv, NEW p \in Procs, NEW o \in ObjT, obj' = [obj EXCEPT ![p] = o],
         UNCHANGED <<fds, fs, next, opens, leaked, pinner, taken>>,
         Same(obj[p], o), ObjOK(o), o.state \in {"busy", "loaded"}, obj[p].state \in {"busy", "loaded"},
         Loading(o) => /\ Loading(obj[p])
                       /\ o.pc = "unpin" => \A x \in Maps : pinner[x] = p => o.i <= x \/ o.stuck
  PROVE  OInv'
  <1>1. PICK r \in ObjT : r = obj[p]
    BY OTypes DEF OInv
  <1>2. PICK h \in CountT : h = fds[p]
    BY OTypes DEF OInv
  <1>3. PICK l \in CountT : l = leaked[p]
    BY OTypes DEF OInv
  <1>4. PICK t : t = taken[p]
    OBVIOUS
  <1>5. /\ FdsOf(r, h, l) /\ PinnedOf(r, t, fs) /\ NumberedOf(r, l, next) /\ PinsOf(p, r, t, pinner) /\ Same(r, o)
    BY <1>1, <1>2, <1>3, <1>4 DEF OInv, ProcOK
  <1>6. FdsOf(o, h, l)
    BY <1>5, SameHeld DEF FdsOf
  <1>7. PinnedOf(o, t, fs)
    BY <1>1, <1>5 DEF PinnedOf, Same
  <1>8. NumberedOf(o, l, next)
    BY <1>5 DEF NumberedOf, Same
  <1>9. PinsOf(p, o, t, pinner)
    BY <1>1, <1>5 DEF PinsOf, Same
  <1>10. ProcOK(p, o, h, l, t, fs, pinner, next)
    BY <1>6, <1>7, <1>8, <1>9 DEF ProcOK
  <1>11. Becomes(p, o, h, l) /\ Touched(p)
    BY <1>2, <1>3 DEF Becomes, Touched
  <1>12. /\ fs' = fs /\ next' = next /\ opens' = opens /\ pinner' = pinner /\ taken' = taken
         /\ fs \in [Paths -> 0 .. MaxIds] /\ next \in 1 .. MaxIds + 1 /\ opens \in 0 .. MaxOpens
         /\ pinner \in [Paths -> Procs \cup {Nobody}] /\ taken \in [Procs -> SUBSET Paths]
         /\ \A x \in Paths : fs[x] < next
    BY OTypes, Sizes DEF OInv
  <1>13. ProcOK(p, o, h, l, taken'[p], fs', pinner', next')
    BY <1>4, <1>10, <1>12
  <1>14. next' >= next
    BY <1>12, Sizes
  <1>15. QED BY <1>11, <1>12, <1>13, <1>14, OwnStep

\* a file is made for what the object has
PinStep(p, x, n, o, r) ==
  /\ Pin(p, x, n) /\ n < next
  /\ \A k \in Maps : /\ r.map[k].fd = o.map[k].fd /\ r.map[k].reused = o.map[k].reused
                     /\ IF k = x THEN r.map[k].pinned /\ o.map[k].fd = n /\ n # 0
                                 ELSE r.map[k].pinned = o.map[k].pinned
  /\ r.prog = o.prog
  /\ o.state \in {"busy", "loaded"} /\ r.state \in {"busy", "loaded"}
  /\ Loading(r) => Loading(o) /\ r.pc # "unpin" /\ x \in Maps /\ ~r.map[x].reused

\* together: the step keeps the invariant
LEMMA Pinned ==
  ASSUME OInv, NEW p \in Procs, NEW r \in ObjT, obj' = [obj EXCEPT ![p] = r],
         UNCHANGED <<fds, next, opens, leaked, taken>>, ObjOK(r),
         NEW x \in Paths, NEW n \in 0 .. MaxIds, PinStep(p, x, n, obj[p], r)
  PROVE  OInv'
  <1>1. /\ fs \in [Paths -> 0 .. MaxIds] /\ next \in 1 .. MaxIds + 1 /\ opens \in 0 .. MaxOpens
        /\ pinner \in [Paths -> Procs \cup {Nobody}] /\ taken \in [Procs -> SUBSET Paths]
        /\ \A y \in Paths : fs[y] < next
    BY OTypes DEF OInv
  <1>2. PICK o \in ObjT : o = obj[p]
    BY OTypes DEF OInv
  <1>3. PICK h \in CountT : h = fds[p]
    BY OTypes DEF OInv
  <1>4. PICK l \in CountT : l = leaked[p]
    BY OTypes DEF OInv
  <1>5. PICK t : t = taken[p]
    OBVIOUS
  <1>6. FdsOf(o, h, l) /\ PinnedOf(o, t, fs) /\ NumberedOf(o, l, next) /\ PinsOf(p, o, t, pinner)
    BY <1>2, <1>3, <1>4, <1>5 DEF OInv, ProcOK
  <1>7. PinStep(p, x, n, o, r)
    BY <1>2
  <1>8. /\ fs[x] = 0 /\ fs' \in [Paths -> 0 .. MaxIds] /\ fs'[x] = n
        /\ pinner' \in [Paths -> Procs \cup {Nobody}] /\ pinner'[x] = p
        /\ \A y \in Paths : y # x => fs'[y] = fs[y] /\ pinner'[y] = pinner[y]
    BY <1>1, <1>7 DEF PinStep, Pin
  <1>9. FdsOf(r, h, l)
    BY <1>6, <1>7, HeldAlike DEF FdsOf, PinStep
  <1>10. PinnedOf(r, t, fs')
    <2>1. ASSUME NEW i \in Maps, r.map[i].pinned, i \notin t
          PROVE  r.map[i].fd \in {0, fs'[i]} /\ fs'[i] # 0
      <3>1. i \in Paths
        BY Sizes
      <3>2. CASE i = x
        BY <1>7, <1>8, <3>2 DEF PinStep
      <3>3. CASE i # x
        BY <1>6, <1>7, <1>8, <2>1, <3>1, <3>3 DEF PinStep, PinnedOf
      <3> QED
        BY <3>2, <3>3
    <2> QED
      BY <2>1 DEF PinnedOf
  <1>11. NumberedOf(r, l, next)
    BY <1>6, <1>7 DEF NumberedOf, PinStep
  <1>12. PinsOf(p, r, t, pinner')
    <2>1. ASSUME Loading(r), NEW y \in Paths
          PROVE  /\ pinner'[y] = p => y \in Maps /\ r.map[y].pinned /\ ~r.map[y].reused
                 /\ y \in Maps /\ r.map[y].pinned /\ ~r.map[y].reused /\ y \notin t => pinner'[y] = p
      <3>1. CASE y = x
        BY <1>7, <1>8, <2>1, <3>1 DEF PinStep
      <3>2. CASE y # x
        BY <1>6, <1>7, <1>8, <2>1, <3>2 DEF PinStep, PinsOf
      <3> QED
        BY <3>1, <3>2
    <2> QED
      BY <1>7, <2>1 DEF PinsOf, PinStep
  <1>13. taken' = taken /\ next' = next /\ opens' = opens
    OBVIOUS
  <1>14. ProcOK(p, r, h, l, taken'[p], fs', pinner', next')
    BY <1>5, <1>9, <1>10, <1>11, <1>12, <1>13 DEF ProcOK
  <1>15. Becomes(p, r, h, l)
    BY <1>3, <1>4 DEF Becomes
  <1>16. Touched(p)
    BY <1>7, <1>13 DEF Touched, PinStep
  <1>17. \A y \in Paths : fs'[y] < next'
    BY <1>1, <1>7, <1>8, <1>13 DEF PinStep
  <1>18. next' >= next
    BY <1>1, <1>13, Sizes
  <1>19. QED BY <1>1, <1>8, <1>13, <1>14, <1>15, <1>16, <1>17, <1>18, OwnStep

\* a file goes, and the map does not count as pinned
UnlinkStep(p, x, o, r) ==
  /\ fs' = [fs EXCEPT ![x] = 0] /\ pinner' = [pinner EXCEPT ![x] = Nobody]
  /\ taken' = [Taken(p, x) EXCEPT ![p] = @ \ {x}]
  /\ \A k \in Maps : /\ r.map[k].fd = o.map[k].fd /\ r.map[k].reused = o.map[k].reused
                     /\ IF k = x THEN ~r.map[k].pinned ELSE r.map[k].pinned = o.map[k].pinned
  /\ r.prog = o.prog
  /\ o.state \in {"busy", "loaded"} /\ r.state \in {"busy", "loaded"}
  /\ Loading(r) => /\ Loading(o)
                   /\ r.pc = "unpin" => \A y \in Maps : pinner[y] = p /\ y # x => r.i <= y \/ r.stuck

\* together: that step keeps it, too
LEMMA Unlinked ==
  ASSUME OInv, NEW p \in Procs, NEW r \in ObjT, obj' = [obj EXCEPT ![p] = r],
         UNCHANGED <<fds, next, opens, leaked>>, ObjOK(r),
         NEW x \in Paths, UnlinkStep(p, x, obj[p], r)
  PROVE  OInv'
  <1>1. /\ fs \in [Paths -> 0 .. MaxIds] /\ next \in 1 .. MaxIds + 1 /\ opens \in 0 .. MaxOpens
        /\ pinner \in [Paths -> Procs \cup {Nobody}] /\ taken \in [Procs -> SUBSET Paths]
        /\ \A y \in Paths : fs[y] < next
    BY OTypes DEF OInv
  <1>2. PICK o \in ObjT : o = obj[p]
    BY OTypes DEF OInv
  <1>3. PICK h \in CountT : h = fds[p]
    BY OTypes DEF OInv
  <1>4. PICK l \in CountT : l = leaked[p]
    BY OTypes DEF OInv
  <1>5. PICK t : t = taken[p]
    OBVIOUS
  <1>6. FdsOf(o, h, l) /\ PinnedOf(o, t, fs) /\ NumberedOf(o, l, next) /\ PinsOf(p, o, t, pinner)
    BY <1>2, <1>3, <1>4, <1>5 DEF OInv, ProcOK
  <1>7. UnlinkStep(p, x, o, r)
    BY <1>2
  <1>8. /\ fs' \in [Paths -> 0 .. MaxIds] /\ fs'[x] = 0
        /\ pinner' \in [Paths -> Procs \cup {Nobody}] /\ pinner'[x] = Nobody
        /\ \A y \in Paths : y # x => fs'[y] = fs[y] /\ pinner'[y] = pinner[y]
    BY SMTT(20), <1>1, <1>7, Sizes DEF UnlinkStep
  <1>9. taken' \in [Procs -> SUBSET Paths] /\ taken'[p] = t \ {x}
    <2>1. Taken(p, x) \in [Procs -> SUBSET Paths] /\ Taken(p, x)[p] = t
      BY <1>1, <1>5 DEF Taken
    <2> QED
      BY <1>7, <2>1 DEF UnlinkStep
  <1>10. FdsOf(r, h, l)
    BY <1>6, <1>7, HeldAlike DEF FdsOf, UnlinkStep
  <1>11. PinnedOf(r, t \ {x}, fs')
    <2>1. ASSUME NEW i \in Maps, r.map[i].pinned, i \notin t \ {x}
          PROVE  r.map[i].fd \in {0, fs'[i]} /\ fs'[i] # 0
      <3>1. i \in Paths
        BY Sizes
      <3>2. i # x
        BY <1>7, <2>1 DEF UnlinkStep
      <3> QED
        BY <1>6, <1>7, <1>8, <2>1, <3>1, <3>2 DEF UnlinkStep, PinnedOf
    <2> QED
      BY <2>1 DEF PinnedOf
  <1>12. NumberedOf(r, l, next)
    BY <1>6, <1>7 DEF NumberedOf, UnlinkStep
  <1>13. PinsOf(p, r, t \ {x}, pinner')
    <2>1. ASSUME Loading(r), NEW y \in Paths
          PROVE  /\ pinner'[y] = p => /\ y \in Maps /\ r.map[y].pinned /\ ~r.map[y].reused
                                      /\ r.pc = "unpin" => r.i <= y \/ r.stuck
                 /\ y \in Maps /\ r.map[y].pinned /\ ~r.map[y].reused /\ y \notin t \ {x} => pinner'[y] = p
      <3>1. CASE y = x
        BY <1>7, <1>8, <2>1, <3>1, Sizes DEF UnlinkStep
      <3>2. CASE y # x
        BY <1>6, <1>7, <1>8, <2>1, <3>2 DEF UnlinkStep, PinsOf
      <3> QED
        BY <3>1, <3>2
    <2> QED
      BY <1>7, <2>1 DEF PinsOf, UnlinkStep
  <1>14. next' = next /\ opens' = opens
    OBVIOUS
  <1>15. ProcOK(p, r, h, l, taken'[p], fs', pinner', next')
    BY <1>9, <1>10, <1>11, <1>12, <1>13, <1>14 DEF ProcOK
  <1>16. Becomes(p, r, h, l)
    BY <1>3, <1>4 DEF Becomes
  <1>17. Touched(p)
    BY <1>7 DEF Touched, UnlinkStep
  <1>18. \A y \in Paths : fs'[y] < next'
    <2>1. 0 < next
      BY <1>1, Sizes
    <2> QED
      BY <1>1, <1>8, <1>14, <2>1
  <1>19. next' >= next
    BY <1>1, <1>14, Sizes
  <1>20. QED BY <1>1, <1>8, <1>9, <1>14, <1>15, <1>16, <1>17, <1>18, <1>19, OwnStep

-----------------------------------------------------------------------------
(* What an object becomes.                                                 *)

Places == 0 .. NMaps + NProgs + 1

\* it goes to another step
Goes(o, r, pc, j) ==
  /\ r \in ObjT /\ r.state = o.state /\ r.pc = pc /\ r.i = j /\ r.failed = o.failed /\ r.stuck = o.stuck
  /\ r.given = o.given /\ r.map = o.map /\ r.prog = o.prog

\* Go is such a step
LEMMA GoSet ==
  ASSUME NEW o \in ObjT, NEW pc \in Pcs, NEW j \in Places
  PROVE  Goes(o, Go(o, pc, j), pc, j)
  BY DEF Go, Goes, ObjT, Places

\* a call ends
LEMMA LoadedSet ==
  ASSUME NEW o \in ObjT
  PROVE  /\ Loaded(o) \in ObjT /\ Loaded(o).state = "loaded" /\ Loaded(o).failed = o.failed
         /\ Loaded(o).stuck = o.stuck /\ Loaded(o).map = o.map /\ Loaded(o).prog = o.prog
  <1>1. PICK r \in ObjT : r = [o EXCEPT !.state = "loaded"] /\ r.state = "loaded" /\ r.failed = o.failed
                          /\ r.stuck = o.stuck /\ r.map = o.map /\ r.prog = o.prog
    <2>1. PICK r : r = [o EXCEPT !.state = "loaded"]
      OBVIOUS
    <2>2. /\ r \in ObjT /\ r.state = "loaded" /\ r.failed = o.failed
          /\ r.stuck = o.stuck /\ r.map = o.map /\ r.prog = o.prog
      BY <2>1 DEF ObjT
    <2> QED
      BY <2>1, <2>2
  <1>2. 0 \in Places /\ "" \in Pcs
    BY Sizes DEF Places, Pcs
  <1>3. Goes(r, Go(r, "", 0), "", 0)
    BY <1>2, GoSet
  <1>4. Loaded(o) = Go(r, "", 0)
    BY <1>1 DEF Loaded
  <1>5. QED BY <1>1, <1>3, <1>4 DEF Goes

\* one of its maps changes
MapGoes(o, r, i, m) ==
  /\ r \in ObjT /\ r.state = o.state /\ r.pc = o.pc /\ r.i = o.i /\ r.failed = o.failed /\ r.stuck = o.stuck
  /\ r.given = o.given /\ r.prog = o.prog
  /\ r.map[i] = m /\ \A k \in Maps : k # i => r.map[k] = o.map[k]

\* EXCEPT on one map does that
LEMMA MapSet ==
  ASSUME NEW o \in ObjT, NEW i \in Maps, NEW m \in MapT
  PROVE  MapGoes(o, [o EXCEPT !.map[i] = m], i, m)
  <1>1. PICK f \in [Maps -> MapT] : f = [o.map EXCEPT ![i] = m]
    BY DEF ObjT
  <1>2. [o EXCEPT !.map[i] = m] = [o EXCEPT !.map = f]
    BY <1>1
  <1>3. f[i] = m /\ \A k \in Maps : k # i => f[k] = o.map[k]
    BY <1>1 DEF ObjT
  <1>4. QED BY <1>2, <1>3 DEF ObjT, MapGoes

-----------------------------------------------------------------------------
\* a load fails
LEMMA Failing ==
  ASSUME OInv, NEW p \in Procs, obj[p].state = "busy", obj[p].pc \in Making,
         obj' = [obj EXCEPT ![p] = Fail(obj[p])],
         UNCHANGED <<fds, fs, next, opens, leaked, pinner, taken>>
  PROVE  OInv'
  <1>1. PICK o \in ObjT : o = obj[p]
    BY OTypes DEF OInv
  <1>2. ObjOK(o) /\ o.pc \in Making /\ o.state = "busy"
    BY <1>1 DEF OInv, ProcOK
  <1>3. PICK r : r = Fail(o)
    OBVIOUS
  <1>4. PICK j : j = 1
    OBVIOUS
  <1>5. j \in Places /\ "unpin" \in Pcs /\ r = Go(o, "unpin", j)
    BY <1>3, <1>4, Sizes DEF Places, Pcs, Fail
  <1>6. Goes(o, r, "unpin", j)
    BY <1>5, GoSet
  <1>7. r \in ObjT /\ Same(o, r) /\ r.state = "busy" /\ r.pc = "unpin" /\ r.i = 1
    BY <1>2, <1>4, <1>6 DEF Goes, Same
  <1>8. ObjOK(r)
    BY <1>2, <1>6, <1>7, Sizes DEF ObjOK, Goes, Placed, Making, Pinning
  <1>9. Loading(o) /\ \A x \in Maps : r.i <= x
    BY <1>2, <1>7, Sizes DEF Loading
  <1>10. QED BY <1>1, <1>2, <1>3, <1>7, <1>8, <1>9, QuietStep

\* the next map of a load, or its relocation
LEMMA NextMapSet ==
  ASSUME NEW o \in ObjT, NEW i \in Maps, o.state = "busy",
         \A k \in Maps : IF k <= i THEN o.map[k].fd # 0 ELSE Fresh(o.map[k]),
         NoProgs(o, 1), o.failed = 0, \A k \in Maps : o.map[k].pinned => o.map[k].path
  PROVE  /\ NextMap(o, i) \in ObjT /\ NextMap(o, i).state = "busy" /\ NextMap(o, i).map = o.map
         /\ NextMap(o, i).prog = o.prog /\ NextMap(o, i).pc \in {"get", "relocate"} /\ ObjOK(NextMap(o, i))
  <1>1. PICK r : r = NextMap(o, i)
    OBVIOUS
  <1>2. i \in 1 .. NMaps /\ NMaps \in Nat /\ NProgs \in Nat
    BY Sizes
  <1>3. CASE i < NMaps
    <2>1. PICK j \in Places : j = i + 1
      BY <1>2, <1>3 DEF Places
    <2>2. r = Go(o, "get", j)
      BY <1>1, <1>3, <2>1 DEF NextMap
    <2>3. Goes(o, r, "get", j)
      BY <2>2, GoSet DEF Pcs
    <2>4. j \in Maps /\ \A k \in Maps : (k < j <=> k <= i)
      BY <1>2, <1>3, <2>1, Sizes
    <2>5. ObjOK(r)
      BY <2>3, <2>4 DEF ObjOK, Goes, Placed, Making, Pinning, NoProgs
    <2> QED
      BY <1>1, <2>3, <2>5 DEF Goes
  <1>4. CASE ~(i < NMaps)
    <2>1. PICK j \in Places : j = 0
      BY <1>2 DEF Places
    <2>2. r = Go(o, "relocate", j)
      BY <1>1, <1>4, <2>1 DEF NextMap
    <2>3. Goes(o, r, "relocate", j)
      BY <2>2, GoSet DEF Pcs
    <2>4. Filled(r)
      BY <1>2, <1>4, <2>3, Sizes DEF Goes, Filled
    <2>5. ObjOK(r)
      BY <2>3, <2>4 DEF ObjOK, Goes, Placed, Making, Pinning, NoProgs
    <2> QED
      BY <1>1, <2>3, <2>5 DEF Goes
  <1>5. QED BY <1>3, <1>4

\* the relocation of a program
LEMMA Relocated == ASSUME OInv, NEW p \in Procs, relocate(p)  PROVE  OInv'
  <1>1. PICK o \in ObjT : o = obj[p]
    BY OTypes DEF OInv
  <1>2. ObjOK(o) /\ o.pc = "relocate" /\ o.state = "busy" /\ UNCHANGED <<fds, fs, next, opens, leaked, pinner, taken>>
    BY <1>1 DEF OInv, ProcOK, relocate, At
  <1>3. CASE obj' = [obj EXCEPT ![p] = Fail(@)]
    BY <1>1, <1>2, <1>3, Failing DEF Making
  <1>4. CASE obj' = [obj EXCEPT ![p] = Go(@, "progs", 1)]
    <2>1. PICK j \in Places : j = 1
      BY Sizes DEF Places
    <2>2. PICK r : r = Go(o, "progs", j)
      OBVIOUS
    <2>3. Goes(o, r, "progs", j)
      BY <2>2, GoSet DEF Pcs
    <2>4. obj' = [obj EXCEPT ![p] = r]
      BY <1>1, <1>4, <2>1, <2>2
    <2>5. r \in ObjT /\ Same(o, r) /\ r.state = "busy" /\ r.pc = "progs" /\ r.i = 1
      BY <1>2, <2>1, <2>3 DEF Goes, Same
    <2>6. ObjOK(r)
      BY <1>2, <2>3, <2>5, Sizes DEF ObjOK, Goes, Placed, Making, Pinning, NoProgs, Filled
    <2>7. Loading(o)
      BY <1>2 DEF Loading, Making
    <2>8. QED BY <1>1, <1>2, <2>4, <2>5, <2>6, <2>7, QuietStep
  <1>5. QED BY <1>3, <1>4 DEF relocate

\* a map that was made is pinned, when it has a path
LEMMA AutoPinned == ASSUME OInv, NEW p \in Procs, autopin_map(p)  PROVE  OInv'
  <1>1. PICK o \in ObjT : o = obj[p]
    BY OTypes DEF OInv
  <1>2. /\ ObjOK(o) /\ o.pc = "autopin" /\ o.state = "busy" /\ UNCHANGED <<fds, next, opens, leaked, taken>>
        /\ Loading(o) /\ NumberedOf(o, leaked[p], next)
    BY <1>1 DEF OInv, ProcOK, autopin_map, At, Loading, Making
  <1>3. PICK i \in Maps : i = o.i
    BY <1>2 DEF ObjOK, Placed
  <1>4. /\ \A k \in Maps : IF k <= i THEN o.map[k].fd # 0 ELSE Fresh(o.map[k])
        /\ NoProgs(o, 1) /\ o.failed = 0 /\ ~o.map[i].pinned /\ ~o.map[i].reused
        /\ \A k \in Maps : o.map[k].pinned => o.map[k].path
    BY <1>2, <1>3 DEF ObjOK, Placed, Making
  <1>5. CASE obj' = [obj EXCEPT ![p] = NextMap(o, i)] /\ UNCHANGED <<fs, pinner>>
    <2>1. PICK r : r = NextMap(o, i)
      OBVIOUS
    <2>2. r \in ObjT /\ Same(o, r) /\ ObjOK(r) /\ r.state = "busy" /\ r.pc # "unpin"
      BY <1>2, <1>4, <2>1, NextMapSet DEF Same
    <2>3. QED BY <1>1, <1>2, <1>5, <2>1, <2>2, QuietStep
  <1>6. CASE /\ o.map[i].path /\ Pin(p, i, o.map[i].fd)
             /\ obj' = [obj EXCEPT ![p] = NextMap([o EXCEPT !.map[i].pinned = TRUE], i)]
    <2>1. PICK m : m = [o.map[i] EXCEPT !.pinned = TRUE]
      OBVIOUS
    <2>2. m \in MapT /\ m.pinned /\ m.fd = o.map[i].fd /\ m.reused = o.map[i].reused /\ m.path = o.map[i].path
      BY ZenonT(40), <2>1 DEF ObjT, MapT
    <2>3. PICK q : q = [o EXCEPT !.map[i] = m]
      OBVIOUS
    <2>4. MapGoes(o, q, i, m)
      BY <2>2, <2>3, MapSet
    <2>5. q = [o EXCEPT !.map[i].pinned = TRUE]
      BY <2>1, <2>3
    <2>6. PICK r : r = NextMap(q, i)
      OBVIOUS
    <2>7. /\ \A k \in Maps : IF k <= i THEN q.map[k].fd # 0 ELSE Fresh(q.map[k])
          /\ NoProgs(q, 1) /\ q.failed = 0 /\ q.state = "busy" /\ q \in ObjT
          /\ \A k \in Maps : q.map[k].pinned => q.map[k].path
      <3>1. NoProgs(q, 1) /\ q.failed = 0 /\ q.state = "busy" /\ q \in ObjT
        BY <1>2, <1>4, <2>4 DEF MapGoes, NoProgs
      <3>2. ASSUME NEW k \in Maps
            PROVE  /\ IF k <= i THEN q.map[k].fd # 0 ELSE Fresh(q.map[k])
                   /\ q.map[k].pinned => q.map[k].path
        <4>1. CASE k = i
          <5>1. k <= i /\ q.map[k] = m /\ m.fd # 0 /\ m.path
            BY <1>4, <1>6, <2>2, <2>4, <4>1, Sizes DEF MapGoes
          <5> QED
            BY <5>1
        <4>2. CASE k # i
          <5>1. q.map[k] = o.map[k]
            BY <2>4, <4>2 DEF MapGoes
          <5> QED
            BY <1>4, <5>1
        <4> QED
          BY <4>1, <4>2
      <3> QED
        BY <3>1, <3>2
    <2>8. r \in ObjT /\ r.map = q.map /\ r.prog = q.prog /\ ObjOK(r) /\ r.state = "busy" /\ r.pc # "unpin"
      BY <2>6, <2>7, NextMapSet
    <2>9. PICK n \in 0 .. MaxIds : n = o.map[i].fd
      BY DEF ObjT, MapT
    <2>10. n # 0 /\ n < next /\ i \in Paths
      BY <1>2, <1>3, <1>4, <2>9, Sizes DEF NumberedOf
    <2>11. PinStep(p, i, n, o, r)
      BY <1>2, <1>4, <1>6, <2>2, <2>4, <2>8, <2>9, <2>10 DEF PinStep, MapGoes
    <2>12. obj' = [obj EXCEPT ![p] = r]
      BY <1>6, <2>5, <2>6
    <2>13. QED BY <1>1, <1>2, <2>8, <2>10, <2>11, <2>12, Pinned
  <1>7. CASE obj' = [obj EXCEPT ![p] = Fail(o)] /\ UNCHANGED <<fs, pinner>>
    BY <1>1, <1>2, <1>7, Failing DEF Making
  <1>8. QED BY <1>1, <1>3, <1>5, <1>6, <1>7 DEF autopin_map

\* a pinning, unpinning of a loaded object begins
LEMMA PinBegun ==
  ASSUME OInv, NEW p \in Procs, NEW pc \in {"pinmaps", "unpinmaps", "pinprogs", "unpinprogs"},
         NEW given \in BOOLEAN, Begin(p, pc, given)
  PROVE  OInv'
  <1>1. PICK o \in ObjT : o = obj[p]
    BY OTypes DEF OInv
  <1>2. ObjOK(o) /\ o.state = "loaded" /\ UNCHANGED <<fds, fs, next, opens, leaked, pinner, taken>>
    BY <1>1 DEF OInv, ProcOK, Begin
  <1>3. PICK z \in 0 .. NMaps : z = 0
    BY Sizes
  <1>4. PICK q : q = [o EXCEPT !.state = "busy", !.given = given, !.failed = z, !.stuck = FALSE]
    OBVIOUS
  <1>5. q \in ObjT /\ q.state = "busy" /\ q.failed = z /\ q.map = o.map /\ q.prog = o.prog
    BY <1>4 DEF ObjT
  <1>6. PICK j \in Places : j = 1
    BY Sizes DEF Places
  <1>7. PICK r : r = Go(q, pc, j)
    OBVIOUS
  <1>8. Goes(q, r, pc, j)
    BY <1>5, <1>7, GoSet DEF Pcs
  <1>9. obj' = [obj EXCEPT ![p] = r]
    BY <1>1, <1>3, <1>4, <1>6, <1>7 DEF Begin
  <1>10. r \in ObjT /\ Same(o, r) /\ r.state = "busy" /\ r.pc = pc /\ r.i = 1 /\ r.map = o.map /\ r.failed = 0
    BY <1>3, <1>5, <1>6, <1>8 DEF Goes, Same
  <1>11. ObjOK(r)
    BY <1>2, <1>10, Sizes DEF ObjOK, Placed, Making, Pinning, Filled
  <1>12. ~Loading(r)
    BY <1>10 DEF Loading, Making
  <1>13. QED BY <1>1, <1>2, <1>9, <1>10, <1>11, <1>12, QuietStep

\* each of the calls
LEMMA PinCalled == ASSUME OInv, NEW p \in Procs, PinCall(p)  PROVE  OInv'
  <1>1. FALSE \in BOOLEAN
    OBVIOUS
  <1>2. QED BY <1>1, PinBegun DEF PinCall

\* a map of a loaded object is pinned, or the rollback begins
LEMMA MapPinned == ASSUME OInv, NEW p \in Procs, pin_map(p)  PROVE  OInv'
  <1>1. PICK o \in ObjT : o = obj[p]
    BY OTypes DEF OInv
  <1>2. /\ ObjOK(o) /\ o.pc = "pinmaps" /\ o.state = "busy" /\ UNCHANGED <<fds, next, opens, leaked, taken>>
        /\ NumberedOf(o, leaked[p], next)
    BY <1>1 DEF OInv, ProcOK, pin_map, At
  <1>3. PICK i \in Maps : i = o.i
    BY <1>2 DEF ObjOK, Placed
  <1>4. /\ Filled(o) /\ o.failed = 0 /\ \A k \in Maps : o.map[k].pinned => o.map[k].path
        /\ i \in 1 .. NMaps /\ NMaps \in Nat /\ NProgs \in Nat
    BY <1>2, Sizes DEF ObjOK, Placed, Pinning
  <1>. DEFINE after(q) == IF i < NMaps THEN [q EXCEPT !.i = i + 1]
                          ELSE IF o.given THEN Go(q, "pinprogs", 1) ELSE Loaded(q)
  <1>. DEFINE pathed == [o EXCEPT !.map[i].path = TRUE]
  <1>5. ASSUME NEW q \in ObjT, q.state = "busy", q.pc = "pinmaps", q.i = i, q.failed = 0, Filled(q),
               \A k \in Maps : q.map[k].pinned => q.map[k].path
        PROVE  /\ after(q) \in ObjT /\ after(q).map = q.map /\ after(q).prog = q.prog /\ ObjOK(after(q))
               /\ after(q).state \in {"busy", "loaded"} /\ ~Loading(after(q))
    <2>1. CASE i < NMaps
      <3>1. PICK j \in Places : j = i + 1 /\ j \in Maps
        BY <1>4, <2>1, Sizes DEF Places
      <3>2. PICK r : r = [q EXCEPT !.i = j]
        OBVIOUS
      <3>3. /\ r \in ObjT /\ r.state = "busy" /\ r.pc = "pinmaps" /\ r.i = j /\ r.failed = 0
            /\ r.map = q.map /\ r.prog = q.prog
        BY <1>5, <3>2 DEF ObjT, Places
      <3>4. ObjOK(r) /\ ~Loading(r)
        BY <1>5, <3>1, <3>3 DEF ObjOK, Placed, Making, Pinning, Filled, Loading
      <3>5. after(q) = r
        BY <2>1, <3>1, <3>2
      <3> QED
        BY <3>3, <3>4, <3>5
    <2>2. CASE ~(i < NMaps) /\ o.given
      <3>1. PICK j \in Places : j = 1 /\ j \in Progs
        BY Sizes DEF Places
      <3>2. PICK r : r = Go(q, "pinprogs", j)
        OBVIOUS
      <3>3. Goes(q, r, "pinprogs", j)
        BY <3>2, GoSet DEF Pcs
      <3>4. ObjOK(r) /\ ~Loading(r)
        BY <1>5, <3>1, <3>3 DEF ObjOK, Placed, Making, Pinning, Filled, Loading, Goes
      <3>5. after(q) = r
        BY <2>2, <3>1, <3>2
      <3> QED
        BY <1>5, <3>3, <3>4, <3>5 DEF Goes
    <2>3. CASE ~(i < NMaps) /\ ~o.given
      <3>1. PICK r : r = Loaded(q)
        OBVIOUS
      <3>2. /\ r \in ObjT /\ r.state = "loaded" /\ r.failed = 0 /\ r.map = q.map /\ r.prog = q.prog
        BY <1>5, <3>1, LoadedSet
      <3>3. ObjOK(r) /\ ~Loading(r)
        BY <1>5, <3>2 DEF ObjOK, Filled, Loading
      <3>4. after(q) = r
        BY <2>3, <3>1
      <3> QED
        BY <3>2, <3>3, <3>4
    <2> QED
      BY <2>1, <2>2, <2>3
  <1>6. /\ pathed \in ObjT /\ pathed.state = "busy" /\ pathed.pc = "pinmaps" /\ pathed.i = i /\ pathed.failed = 0
        /\ pathed.prog = o.prog /\ Filled(pathed) /\ pathed.map[i].path
        /\ \A k \in Maps : /\ pathed.map[k].fd = o.map[k].fd /\ pathed.map[k].pinned = o.map[k].pinned
                           /\ pathed.map[k].reused = o.map[k].reused /\ (pathed.map[k].pinned => pathed.map[k].path)
        /\ Same(o, pathed)
    <2>1. PICK m : m = [o.map[i] EXCEPT !.path = TRUE]
      OBVIOUS
    <2>2. m \in MapT /\ m.path /\ m.fd = o.map[i].fd /\ m.reused = o.map[i].reused /\ m.pinned = o.map[i].pinned
      BY ZenonT(40), <2>1 DEF ObjT, MapT
    <2>3. PICK q : q = [o EXCEPT !.map[i] = m]
      OBVIOUS
    <2>4. MapGoes(o, q, i, m)
      BY <2>2, <2>3, MapSet
    <2>5. q = pathed
      BY <2>1, <2>3
    <2>6. \A k \in Maps : /\ q.map[k].fd = o.map[k].fd /\ q.map[k].pinned = o.map[k].pinned
                          /\ q.map[k].reused = o.map[k].reused /\ (q.map[k].pinned => q.map[k].path)
      BY <1>4, <2>2, <2>4 DEF MapGoes
    <2>7. Filled(q) /\ Same(o, q)
      BY <1>4, <2>4, <2>6 DEF MapGoes, Filled, Same
    <2>. HIDE DEF pathed
    <2> QED
      BY <1>2, <1>3, <1>4, <2>2, <2>4, <2>5, <2>6, <2>7 DEF MapGoes
  <1>7. CASE obj' = [obj EXCEPT ![p] = after(o)] /\ UNCHANGED <<fs, pinner>>
    <2>1. PICK r : r = after(o)
      OBVIOUS
    <2>2. r \in ObjT /\ r.map = o.map /\ r.prog = o.prog /\ ObjOK(r) /\ r.state \in {"busy", "loaded"} /\ ~Loading(r)
      BY <1>2, <1>3, <1>4, <1>5, <2>1
    <2>3. obj' = [obj EXCEPT ![p] = r]
      BY <1>7, <2>1
    <2>. HIDE DEF after
    <2>4. Same(o, r)
      BY <2>2 DEF Same
    <2>5. QED BY <1>1, <1>2, <1>7, <2>2, <2>3, <2>4, QuietStep
  <1>8. CASE /\ ~o.map[i].pinned /\ Pin(p, i, o.map[i].fd)
             /\ obj' = [obj EXCEPT ![p] = after([pathed EXCEPT !.map[i].pinned = TRUE])]
    <2>1. PICK g \in ObjT : g = pathed
      BY <1>6
    <2>2. PICK m : m = [g.map[i] EXCEPT !.pinned = TRUE]
      OBVIOUS
    <2>3. m \in MapT /\ m.pinned /\ m.fd = g.map[i].fd /\ m.reused = g.map[i].reused /\ m.path = g.map[i].path
      <3>1. g.map[i] \in MapT
        BY <2>1 DEF ObjT
      <3> QED
        BY <2>2, <3>1 DEF MapT
    <2>4. PICK q : q = [g EXCEPT !.map[i] = m]
      OBVIOUS
    <2>5. MapGoes(g, q, i, m)
      BY <2>3, <2>4, MapSet
    <2>6. q = [pathed EXCEPT !.map[i].pinned = TRUE]
      BY <2>1, <2>2, <2>4
    <2>7. PICK r : r = after(q)
      OBVIOUS
    <2>8. obj' = [obj EXCEPT ![p] = r]
      BY <1>8, <2>6, <2>7
    <2>9. /\ g.state = "busy" /\ g.pc = "pinmaps" /\ g.i = i /\ g.failed = 0
          /\ g.prog = o.prog /\ Filled(g) /\ g.map[i].path
          /\ \A k \in Maps : /\ g.map[k].fd = o.map[k].fd /\ g.map[k].pinned = o.map[k].pinned
                             /\ g.map[k].reused = o.map[k].reused /\ (g.map[k].pinned => g.map[k].path)
      BY <1>6, <2>1
    <2>. HIDE DEF pathed
    <2>10. /\ q \in ObjT /\ q.state = "busy" /\ q.pc = "pinmaps" /\ q.i = i /\ q.failed = 0 /\ Filled(q)
           /\ \A k \in Maps : q.map[k].pinned => q.map[k].path
      <3>1. q \in ObjT /\ q.state = "busy" /\ q.pc = "pinmaps" /\ q.i = i /\ q.failed = 0
        BY <2>5, <2>9 DEF MapGoes
      <3>2. ASSUME NEW k \in Maps  PROVE  q.map[k].fd # 0 /\ (q.map[k].pinned => q.map[k].path)
        <4>1. CASE k = i
          BY <2>3, <2>5, <2>9, <4>1 DEF MapGoes, Filled
        <4>2. CASE k # i
          BY <2>5, <2>9, <4>2 DEF MapGoes, Filled
        <4> QED
          BY <4>1, <4>2
      <3> QED
        BY <3>1, <3>2 DEF Filled
    <2>11. /\ r \in ObjT /\ r.map = q.map /\ r.prog = q.prog /\ ObjOK(r)
           /\ r.state \in {"busy", "loaded"} /\ ~Loading(r)
      BY <1>5, <2>7, <2>10
    <2>. HIDE DEF after
    <2>12. PICK n \in 0 .. MaxIds : n = o.map[i].fd
      BY DEF ObjT, MapT
    <2>13. n # 0 /\ n < next /\ i \in Paths
      BY <1>2, <1>4, <2>12, Sizes DEF NumberedOf, Filled
    <2>14. PinStep(p, i, n, o, r)
      BY <1>2, <1>8, <2>3, <2>5, <2>9, <2>11, <2>12, <2>13 DEF PinStep, MapGoes
    <2>15. QED BY <1>1, <1>2, <2>8, <2>11, <2>13, <2>14, Pinned
  <1>9. CASE /\ obj' = [obj EXCEPT ![p] = Go([pathed EXCEPT !.failed = i], "rollback", RollbackFrom(i))]
             /\ UNCHANGED <<fs, pinner>>
    <2>1. PICK g \in ObjT : g = pathed
      BY <1>6
    <2>2. PICK q : q = [g EXCEPT !.failed = i]
      OBVIOUS
    <2>3. /\ q \in ObjT /\ q.state = g.state /\ q.failed = i /\ q.map = g.map /\ q.prog = g.prog /\ q.stuck = g.stuck
      BY <1>4, <2>2 DEF ObjT
    <2>4. PICK j \in Places : j = RollbackFrom(i) /\ j = i - 1
      BY <1>4 DEF Places, RollbackFrom
    <2>5. PICK r : r = Go(q, "rollback", j)
      OBVIOUS
    <2>6. Goes(q, r, "rollback", j)
      BY <2>3, <2>5, GoSet DEF Pcs
    <2>7. obj' = [obj EXCEPT ![p] = r]
      BY <1>9, <2>1, <2>2, <2>4, <2>5
    <2>8. /\ g.state = "busy" /\ g.pc = "pinmaps" /\ g.i = i /\ g.failed = 0 /\ g.prog = o.prog /\ Filled(g) /\ Same(o, g)
          /\ \A k \in Maps : g.map[k].pinned => g.map[k].path
      BY <1>6, <2>1
    <2>. HIDE DEF pathed, after
    <2>9. /\ r \in ObjT /\ r.state = "busy" /\ r.pc = "rollback" /\ r.i = j /\ r.failed = i /\ r.map = g.map
          /\ r.prog = o.prog
      BY <2>3, <2>6, <2>8 DEF Goes
    <2>10. j \in 0 .. i - 1 /\ \A k \in Maps : ~(j < k /\ k < i)
      BY <1>4, <2>4, Sizes
    <2>11. ObjOK(r)
      BY <2>8, <2>9, <2>10 DEF ObjOK, Placed, Making, Pinning, Filled
    <2>12. Same(o, r) /\ ~Loading(r)
      BY <2>8, <2>9 DEF Same, Loading, Making
    <2>13. QED BY <1>1, <1>2, <1>9, <2>7, <2>9, <2>11, <2>12, QuietStep
  <1>10. QED BY <1>1, <1>3, <1>7, <1>8, <1>9 DEF pin_map

\* a call goes on in the same loop
LEMMA TurnSet ==
  ASSUME NEW o \in ObjT, NEW j \in Places
  PROVE  Goes(o, [o EXCEPT !.i = j], o.pc, j)
  BY DEF Goes, ObjT, Places

\* an unlink fails
LEMMA StuckSet ==
  ASSUME NEW o \in ObjT
  PROVE  LET r == [o EXCEPT !.stuck = TRUE]
         IN  /\ r \in ObjT /\ r.state = o.state /\ r.pc = o.pc /\ r.i = o.i /\ r.failed = o.failed /\ r.stuck
             /\ r.given = o.given /\ r.map = o.map /\ r.prog = o.prog
  BY DEF ObjT

\* a map does not count as pinned
Unmade(o, r, i) ==
  /\ r \in ObjT /\ r.state = o.state /\ r.pc = o.pc /\ r.i = o.i /\ r.failed = o.failed /\ r.stuck = o.stuck
  /\ r.given = o.given /\ r.prog = o.prog
  /\ \A k \in Maps : /\ r.map[k].fd = o.map[k].fd /\ r.map[k].reused = o.map[k].reused /\ r.map[k].path = o.map[k].path
                     /\ IF k = i THEN ~r.map[k].pinned ELSE r.map[k].pinned = o.map[k].pinned

\* bpf_map__unpin does that
LEMMA UnmadeSet == ASSUME NEW o \in ObjT, NEW i \in Maps  PROVE  Unmade(o, Unpinned(o, i), i)
  <1>1. PICK m : m = [o.map[i] EXCEPT !.pinned = FALSE]
    OBVIOUS
  <1>2. m \in MapT /\ ~m.pinned /\ m.fd = o.map[i].fd /\ m.reused = o.map[i].reused /\ m.path = o.map[i].path
    <2>1. o.map[i] \in MapT
      BY DEF ObjT
    <2> QED
      BY <1>1, <2>1 DEF MapT
  <1>3. PICK q : q = [o EXCEPT !.map[i] = m]
    OBVIOUS
  <1>4. MapGoes(o, q, i, m)
    BY <1>2, <1>3, MapSet
  <1>5. q = Unpinned(o, i)
    BY <1>1, <1>3 DEF Unpinned
  <1>6. Unmade(o, q, i)
    <2>1. ASSUME NEW k \in Maps
          PROVE  /\ q.map[k].fd = o.map[k].fd /\ q.map[k].reused = o.map[k].reused /\ q.map[k].path = o.map[k].path
                 /\ IF k = i THEN ~q.map[k].pinned ELSE q.map[k].pinned = o.map[k].pinned
      <3>1. CASE k = i
        BY <1>2, <1>4, <3>1 DEF MapGoes
      <3>2. CASE k # i
        BY <1>4, <3>2 DEF MapGoes
      <3> QED
        BY <3>1, <3>2
    <2> QED
      BY <1>4, <2>1 DEF MapGoes, Unmade
  <1>7. QED BY <1>5, <1>6

\* a failed load unpins a map, cannot, or has not pinned it
LEMMA Unwinding ==
  ASSUME OInv, NEW p \in Procs, NEW o \in ObjT, o = obj[p], o.state = "busy", o.pc = "unpin",
         UNCHANGED <<fds, next, opens, leaked>>, NEW i \in Maps, i = o.i,
         \/ /\ ToUnpin(o.map[i])
            /\ Unlink(p, i, [Unpinned(o, i) EXCEPT !.i = i + 1], [o EXCEPT !.stuck = TRUE, !.i = i + 1])
         \/ /\ ~ToUnpin(o.map[i]) /\ obj' = [obj EXCEPT ![p].i = i + 1] /\ UNCHANGED <<fs, pinner, taken>>
  PROVE  OInv'
  <1>1. ObjOK(o) /\ PinsOf(p, o, taken[p], pinner) /\ Loading(o) /\ \A k \in Maps : o.map[k].pinned => o.map[k].path
    BY DEF OInv, ProcOK, ObjOK, Loading
  <1>2. PICK j \in Places : j = i + 1 /\ j \in 1 .. NMaps + 1
    BY Sizes DEF Places
  <1>3. /\ i \in Int /\ \A x \in Maps : x \in Int /\ x \in Paths
        /\ \A x \in Maps : pinner[x] = p => (i <= x \/ o.stuck) /\ ToUnpin(o.map[x])
    BY SMTT(30), <1>1, Sizes DEF PinsOf, ToUnpin
  <1>4. CASE /\ fs' = [fs EXCEPT ![i] = 0] /\ pinner' = [pinner EXCEPT ![i] = Nobody]
             /\ taken' = [Taken(p, i) EXCEPT ![p] = @ \ {i}]
             /\ obj' = [obj EXCEPT ![p] = [Unpinned(o, i) EXCEPT !.i = i + 1]]
    <2>1. PICK q : q = Unpinned(o, i)
      OBVIOUS
    <2>2. Unmade(o, q, i)
      BY <2>1, UnmadeSet
    <2>3. PICK r : r = [q EXCEPT !.i = j]
      OBVIOUS
    <2>4. Goes(q, r, q.pc, j)
      BY <2>2, <2>3, TurnSet DEF Unmade
    <2>5. /\ r \in ObjT /\ r.state = "busy" /\ r.pc = "unpin" /\ r.i = j /\ r.stuck = o.stuck /\ r.prog = o.prog
          /\ r.map = q.map
      BY <2>2, <2>4 DEF Unmade, Goes
    <2>6. \A k \in Maps : /\ r.map[k].fd = o.map[k].fd /\ r.map[k].reused = o.map[k].reused /\ r.map[k].path = o.map[k].path
                          /\ IF k = i THEN ~r.map[k].pinned ELSE r.map[k].pinned = o.map[k].pinned
      BY <2>2, <2>5 DEF Unmade
    <2>7. ObjOK(r)
      <3>1. \A k \in Maps : r.map[k].pinned => r.map[k].path
        BY <1>1, <2>6
      <3> QED
        BY <1>2, <2>5, <3>1 DEF ObjOK, Placed, Making, Pinning
    <2>8. \A y \in Maps : pinner[y] = p /\ y # i => r.i <= y \/ r.stuck
      BY <1>2, <1>3, <2>5
    <2>9. UnlinkStep(p, i, o, r)
      BY <1>1, <1>4, <2>5, <2>6, <2>8 DEF UnlinkStep
    <2>10. obj' = [obj EXCEPT ![p] = r]
      BY <1>2, <1>4, <2>1, <2>3
    <2>11. QED BY <1>3, <2>5, <2>7, <2>9, <2>10, Unlinked
  <1>5. CASE obj' = [obj EXCEPT ![p] = [o EXCEPT !.stuck = TRUE, !.i = i + 1]] /\ UNCHANGED <<fs, pinner, taken>>
    <2>1. PICK q : q = [o EXCEPT !.stuck = TRUE]
      OBVIOUS
    <2>2. q \in ObjT /\ q.state = "busy" /\ q.pc = "unpin" /\ q.stuck /\ q.map = o.map /\ q.prog = o.prog
      BY <2>1, StuckSet
    <2>3. PICK r : r = [q EXCEPT !.i = j]
      OBVIOUS
    <2>4. Goes(q, r, q.pc, j)
      BY <2>2, <2>3, TurnSet
    <2>5. r \in ObjT /\ r.state = "busy" /\ r.pc = "unpin" /\ r.i = j /\ r.stuck /\ r.prog = o.prog /\ r.map = o.map
      BY <2>2, <2>4 DEF Goes
    <2>6. Same(o, r) /\ ObjOK(r)
      BY <1>1, <1>2, <2>5 DEF Same, ObjOK, Placed, Making, Pinning
    <2>7. obj' = [obj EXCEPT ![p] = r]
      BY <1>2, <1>5, <2>1, <2>3
    <2>8. QED BY <1>1, <1>5, <2>5, <2>6, <2>7, QuietStep
  <1>6. CASE ~ToUnpin(o.map[i]) /\ obj' = [obj EXCEPT ![p].i = i + 1] /\ UNCHANGED <<fs, pinner, taken>>
    <2>1. PICK r : r = [o EXCEPT !.i = j]
      OBVIOUS
    <2>2. Goes(o, r, o.pc, j)
      BY <2>1, TurnSet
    <2>3. r \in ObjT /\ r.state = "busy" /\ r.pc = "unpin" /\ r.i = j /\ r.stuck = o.stuck /\ r.prog = o.prog /\ r.map = o.map
      BY <2>2 DEF Goes
    <2>4. Same(o, r) /\ ObjOK(r)
      BY <1>1, <1>2, <2>3 DEF Same, ObjOK, Placed, Making, Pinning
    <2>5. obj' = [obj EXCEPT ![p] = r]
      BY <1>2, <1>6, <2>1
    <2>6. \A x \in Maps : pinner[x] = p => r.i <= x \/ r.stuck
      BY <1>2, <1>3, <1>6, <2>3
    <2>7. QED BY <1>1, <1>6, <2>3, <2>4, <2>5, <2>6, QuietStep
  <1>7. QED BY <1>4, <1>5, <1>6 DEF Unlink

\* a step of the rollback of bpf_object__pin_maps
LEMMA RolledBack == ASSUME OInv, NEW p \in Procs, pin_maps_rollback(p)  PROVE  OInv'
  <1>1. PICK o \in ObjT : o = obj[p]
    BY OTypes DEF OInv
  <1>2. /\ ObjOK(o) /\ o.pc = "rollback" /\ o.state = "busy" /\ UNCHANGED <<fds, next, opens, leaked>>
        /\ ~Loading(o)
    BY <1>1 DEF OInv, ProcOK, pin_maps_rollback, At, Loading, Making
  <1>3. PICK i \in Places : i = o.i
    BY DEF ObjT, Places
  <1>4. PICK f \in Maps : f = o.failed /\ i \in 0 .. f - 1
    BY <1>2, <1>3 DEF ObjOK, Placed
  <1>5. /\ Filled(o) /\ i \in Int /\ f \in Int /\ i < f /\ i >= 0 /\ f <= NMaps /\ NMaps \in Nat /\ Maps = 1 .. NMaps
        /\ \A k \in Maps : o.map[k].pinned => o.map[k].path
        /\ ~o.stuck => \A k \in Maps : i < k /\ k < f => ~o.map[k].pinned
    BY <1>2, <1>3, <1>4, Sizes DEF ObjOK, Placed
  <1>6. CASE i = 0 /\ obj' = [obj EXCEPT ![p] = Loaded(o)] /\ UNCHANGED <<fs, pinner, taken>>
    <2>1. PICK r : r = Loaded(o)
      OBVIOUS
    <2>2. r \in ObjT /\ r.state = "loaded" /\ r.failed = f /\ r.stuck = o.stuck /\ r.map = o.map /\ r.prog = o.prog
      BY <1>4, <2>1, LoadedSet
    <2>3. ~o.stuck => \A k \in Maps : k < f => ~o.map[k].pinned
      BY <1>5, <1>6
    <2>4. ObjOK(r) /\ Same(o, r) /\ ~Loading(r)
      BY <1>5, <2>2, <2>3 DEF ObjOK, Filled, Loading, Same
    <2>5. QED BY <1>1, <1>2, <1>6, <2>1, <2>2, <2>4, QuietStep
  <1>. DEFINE down == [o EXCEPT !.i = i - 1]
  <1>7. ASSUME i > 0
        PROVE  /\ down \in ObjT /\ down.state = "busy" /\ down.pc = "rollback" /\ down.failed = f /\ down.i = i - 1
               /\ down.stuck = o.stuck /\ down.map = o.map /\ down.prog = o.prog
               /\ i \in Maps /\ i \in Paths /\ i - 1 \in 0 .. f - 1
               /\ \A k \in Maps : i - 1 < k /\ k < f => k = i \/ (i < k /\ k < f)
    <2>1. PICK j \in Places : j = i - 1
      BY <1>5, <1>7, Sizes DEF Places
    <2>2. PICK r : r = [o EXCEPT !.i = j]
      OBVIOUS
    <2>3. Goes(o, r, o.pc, j)
      BY <2>2, TurnSet
    <2>4. r = down
      BY <2>1, <2>2
    <2>5. i \in Maps /\ i \in Paths /\ i - 1 \in 0 .. f - 1 /\ \A k \in Maps : i - 1 < k /\ k < f => k = i \/ (i < k /\ k < f)
      BY <1>5, <1>7, Sizes
    <2>6. /\ r \in ObjT /\ r.state = "busy" /\ r.pc = "rollback" /\ r.failed = f /\ r.i = j
          /\ r.stuck = o.stuck /\ r.map = o.map /\ r.prog = o.prog
      BY <1>2, <1>4, <2>3 DEF Goes
    <2>. HIDE DEF down
    <2> QED
      BY <2>1, <2>4, <2>5, <2>6
  <1>8. CASE i > 0 /\ ~o.map[i].path /\ obj' = [obj EXCEPT ![p] = down] /\ UNCHANGED <<fs, pinner, taken>>
    <2>1. PICK r : r = down
      OBVIOUS
    <2>2. /\ r \in ObjT /\ r.state = "busy" /\ r.pc = "rollback" /\ r.failed = f /\ r.i = i - 1
          /\ r.stuck = o.stuck /\ r.map = o.map /\ r.prog = o.prog /\ i - 1 \in 0 .. f - 1 /\ i \in Maps
          /\ obj' = [obj EXCEPT ![p] = r]
      BY <1>7, <1>8, <2>1
    <2>. HIDE DEF down
    <2>3. ~o.stuck => \A k \in Maps : i - 1 < k /\ k < f => ~o.map[k].pinned
      BY <1>5, <1>7, <1>8
    <2>4. ObjOK(r) /\ Same(o, r) /\ ~Loading(r)
      BY <1>4, <1>5, <2>2, <2>3 DEF ObjOK, Placed, Making, Pinning, Filled, Loading, Same
    <2>5. QED BY <1>1, <1>2, <1>8, <2>2, <2>4, QuietStep
  <1>9. CASE /\ i > 0 /\ o.map[i].path
             /\ fs' = [fs EXCEPT ![i] = 0] /\ pinner' = [pinner EXCEPT ![i] = Nobody]
             /\ taken' = [Taken(p, i) EXCEPT ![p] = @ \ {i}]
             /\ obj' = [obj EXCEPT ![p] = Unpinned(down, i)]
    <2>1. PICK q \in ObjT : q = down
      BY <1>7, <1>9
    <2>2. PICK r : r = Unpinned(q, i)
      OBVIOUS
    <2>3. /\ q.state = "busy" /\ q.pc = "rollback" /\ q.failed = f /\ q.i = i - 1 /\ q.stuck = o.stuck /\ q.map = o.map
          /\ q.prog = o.prog /\ i \in Maps /\ i \in Paths /\ i - 1 \in 0 .. f - 1
          /\ \A k \in Maps : i - 1 < k /\ k < f => k = i \/ (i < k /\ k < f)
          /\ obj' = [obj EXCEPT ![p] = r]
      BY <1>7, <1>9, <2>1, <2>2
    <2>. HIDE DEF down
    <2>4. Unmade(q, r, i)
      BY <2>2, <2>3, UnmadeSet
    <2>5. /\ r \in ObjT /\ r.state = "busy" /\ r.pc = "rollback" /\ r.failed = f /\ r.i = i - 1 /\ r.stuck = o.stuck
          /\ r.prog = o.prog
          /\ \A k \in Maps : /\ r.map[k].fd = o.map[k].fd /\ r.map[k].reused = o.map[k].reused
                             /\ r.map[k].path = o.map[k].path
                             /\ IF k = i THEN ~r.map[k].pinned ELSE r.map[k].pinned = o.map[k].pinned
      BY <2>3, <2>4 DEF Unmade
    <2>6. ~r.stuck => \A k \in Maps : i - 1 < k /\ k < f => ~r.map[k].pinned
      BY <1>5, <2>3, <2>5
    <2>7. \A k \in Maps : r.map[k].pinned => r.map[k].path
      BY <1>5, <2>5
    <2>8. ObjOK(r) /\ ~Loading(r)
      BY <1>4, <1>5, <2>3, <2>5, <2>6, <2>7 DEF ObjOK, Placed, Making, Pinning, Filled, Loading
    <2>9. UnlinkStep(p, i, o, r)
      BY <1>2, <1>9, <2>5, <2>8 DEF UnlinkStep
    <2>10. QED BY <1>1, <1>2, <2>3, <2>5, <2>8, <2>9, Unlinked
  <1>10. CASE /\ i > 0 /\ o.map[i].path /\ obj' = [obj EXCEPT ![p] = [down EXCEPT !.stuck = TRUE]]
              /\ UNCHANGED <<fs, pinner, taken>>
    <2>1. PICK q \in ObjT : q = down
      BY <1>7, <1>10
    <2>2. PICK r : r = [q EXCEPT !.stuck = TRUE]
      OBVIOUS
    <2>3. /\ q.state = "busy" /\ q.pc = "rollback" /\ q.failed = f /\ q.i = i - 1 /\ q.map = o.map
          /\ q.prog = o.prog /\ i - 1 \in 0 .. f - 1 /\ obj' = [obj EXCEPT ![p] = r]
      BY <1>7, <1>10, <2>1, <2>2
    <2>. HIDE DEF down
    <2>4. /\ r \in ObjT /\ r.state = "busy" /\ r.pc = "rollback" /\ r.failed = f /\ r.i = i - 1 /\ r.stuck
          /\ r.prog = o.prog /\ r.map = o.map
      BY <2>2, <2>3, StuckSet
    <2>5. ObjOK(r) /\ ~Loading(r) /\ Same(o, r)
      BY <1>4, <1>5, <2>3, <2>4 DEF ObjOK, Placed, Making, Pinning, Filled, Loading, Same
    <2>6. QED BY <1>1, <1>2, <1>10, <2>3, <2>4, <2>5, QuietStep
  <1>11. QED BY <1>1, <1>3, <1>6, <1>8, <1>9, <1>10 DEF pin_maps_rollback, Unlink

\* what a loaded object is before, while and after programs or maps are (un)pinned
Settled(o, r) ==
  /\ r \in ObjT /\ r.map = o.map /\ r.prog = o.prog /\ ObjOK(r) /\ r.state \in {"busy", "loaded"} /\ ~Loading(r)

\* a step on to place j, or the end
LEMMA Onward ==
  ASSUME NEW o \in ObjT, ObjOK(o), o.state = "busy", o.failed = 0, Filled(o), NEW pc \in {"unpinmaps", "pinprogs", "unpinprogs", "rollprogs"},
         NEW j \in Places,
         /\ pc = "unpinmaps" => j \in Maps
         /\ pc \in {"pinprogs", "unpinprogs"} => j \in Progs
         /\ pc = "rollprogs" => j \in 0 .. NProgs - 1
  PROVE  Settled(o, Go(o, pc, j)) /\ (o.pc = pc => Settled(o, [o EXCEPT !.i = j]))
  <1>1. Goes(o, Go(o, pc, j), pc, j) /\ Goes(o, [o EXCEPT !.i = j], o.pc, j)
    BY GoSet, TurnSet DEF Pcs
  <1>2. ASSUME NEW r, Goes(o, r, pc, j)  PROVE  Settled(o, r)
    BY <1>2 DEF Goes, Settled, ObjOK, Placed, Making, Pinning, Filled, Loading
  <1>3. QED BY <1>1, <1>2

\* a call on a loaded object ends
LEMMA Ended ==
  ASSUME NEW o \in ObjT, ObjOK(o), o.state = "busy", o.failed = 0, Filled(o)
  PROVE  Settled(o, Loaded(o))
  <1>1. PICK r : r = Loaded(o)
    OBVIOUS
  <1>2. /\ r \in ObjT /\ r.state = "loaded" /\ r.failed = 0 /\ r.map = o.map /\ r.prog = o.prog
    BY <1>1, LoadedSet
  <1>3. Settled(o, r)
    BY <1>2 DEF Settled, ObjOK, Filled, Loading
  <1>4. QED BY <1>1, <1>3

\* nothing but the place changes
LEMMA OnlyMoves ==
  ASSUME OInv, NEW p \in Procs, NEW r, Settled(obj[p], r), obj[p].state \in {"busy", "loaded"}, obj' = [obj EXCEPT ![p] = r],
         UNCHANGED <<fds, fs, next, opens, leaked, pinner, taken>>
  PROVE  OInv'
  BY QuietStep DEF Settled, Same

\* the file of a program goes
LEMMA ProgUnlinked ==
  ASSUME OInv, NEW p \in Procs, NEW o \in ObjT, o = obj[p], o.state = "busy", NEW j \in Progs, NEW r, NEW u,
         Settled(o, r), Settled(o, u), bpf_program__unpin(p, j, r, u), UNCHANGED <<fds, next, opens, leaked>>
  PROVE  OInv'
  <1>1. PICK x \in Paths : x = ProgPath(j) /\ x \notin Maps
    BY Sizes
  <1>2. CASE /\ fs' = [fs EXCEPT ![x] = 0] /\ pinner' = [pinner EXCEPT ![x] = Nobody]
             /\ taken' = [Taken(p, x) EXCEPT ![p] = @ \ {x}] /\ obj' = [obj EXCEPT ![p] = r]
    <2>1. UnlinkStep(p, x, o, r)
      BY <1>1, <1>2 DEF UnlinkStep, Settled
    <2>2. QED BY <1>2, <2>1, Unlinked DEF Settled
  <1>3. CASE obj' = [obj EXCEPT ![p] = u] /\ UNCHANGED <<fs, pinner, taken>>
    BY <1>3, OnlyMoves
  <1>4. QED BY <1>1, <1>2, <1>3 DEF bpf_program__unpin, Unlink

\* a program is pinned, or the rollback begins
LEMMA ProgPinned == ASSUME OInv, NEW p \in Procs, pin_prog(p)  PROVE  OInv'
  <1>1. PICK o \in ObjT : o = obj[p]
    BY OTypes DEF OInv
  <1>2. /\ ObjOK(o) /\ o.pc = "pinprogs" /\ o.state = "busy" /\ UNCHANGED <<fds, next, opens, leaked, taken>>
        /\ NumberedOf(o, leaked[p], next)
    BY <1>1 DEF OInv, ProcOK, pin_prog, At
  <1>3. PICK j \in Progs : j = o.i
    BY <1>2 DEF ObjOK, Placed
  <1>4. Filled(o) /\ o.failed = 0
    BY <1>2 DEF ObjOK, Placed, Pinning
  <1>5. CASE /\ Pin(p, ProgPath(j), o.prog[j])
             /\ obj' = [obj EXCEPT ![p] = IF j < NProgs THEN [o EXCEPT !.i = j + 1] ELSE Loaded(o)]
    <2>1. PICK r : r = (IF j < NProgs THEN [o EXCEPT !.i = j + 1] ELSE Loaded(o))
      OBVIOUS
    <2>2. Settled(o, r)
      <3>1. CASE j < NProgs
        <4>1. PICK k \in Places : k = j + 1 /\ k \in Progs
          BY <3>1, Sizes DEF Places
        <4> QED
          BY <1>2, <1>4, <2>1, <3>1, <4>1, Onward
      <3>2. CASE ~(j < NProgs)
        BY <1>2, <1>4, <2>1, <3>2, Ended
      <3> QED
        BY <3>1, <3>2
    <2>3. PICK n \in 0 .. MaxIds : n = o.prog[j]
      BY DEF ObjT
    <2>4. n < next
      BY <1>2, <2>3 DEF NumberedOf
    <2>5. PICK x \in Paths : x = ProgPath(j) /\ x \notin Maps
      BY Sizes
    <2>6. PinStep(p, x, n, o, r)
      BY <1>2, <1>5, <2>2, <2>3, <2>4, <2>5 DEF PinStep, Settled
    <2>7. obj' = [obj EXCEPT ![p] = r]
      BY <1>5, <2>1
    <2>8. QED BY <1>1, <1>2, <2>2, <2>6, <2>7, Pinned DEF Settled
  <1>6. CASE obj' = [obj EXCEPT ![p] = Go(o, "rollprogs", j - 1)] /\ UNCHANGED <<fs, pinner>>
    <2>1. PICK k \in Places : k = j - 1 /\ k \in 0 .. NProgs - 1
      BY Sizes DEF Places
    <2>2. Settled(o, Go(o, "rollprogs", k))
      BY <1>2, <1>4, <2>1, Onward
    <2>3. QED BY <1>1, <1>2, <1>6, <2>1, <2>2, OnlyMoves
  <1>7. QED BY <1>1, <1>3, <1>5, <1>6 DEF pin_prog

\* a step of the rollback of bpf_object__pin_programs
LEMMA ProgsRolledBack == ASSUME OInv, NEW p \in Procs, pin_progs_rollback(p)  PROVE  OInv'
  <1>1. PICK o \in ObjT : o = obj[p]
    BY OTypes DEF OInv
  <1>2. /\ ObjOK(o) /\ o.pc = "rollprogs" /\ o.state = "busy" /\ UNCHANGED <<fds, next, opens, leaked>>
    BY <1>1 DEF OInv, ProcOK, pin_progs_rollback, At
  <1>3. PICK j \in Places : j = o.i
    BY DEF ObjT, Places
  <1>4. Filled(o) /\ o.failed = 0 /\ j \in 0 .. NProgs - 1
    BY <1>2, <1>3 DEF ObjOK, Placed, Pinning
  <1>5. CASE /\ obj' = [obj EXCEPT ![p] = IF o.given THEN Go(o, "unpinmaps", 1) ELSE Loaded(o)]
             /\ UNCHANGED <<fs, pinner, taken>>
    <2>1. PICK k \in Places : k = 1 /\ k \in Maps
      BY Sizes DEF Places
    <2>2. Settled(o, Go(o, "unpinmaps", k)) /\ Settled(o, Loaded(o))
      BY <1>2, <1>4, <2>1, Onward, Ended
    <2>3. QED BY <1>1, <1>2, <1>5, <2>1, <2>2, OnlyMoves
  <1>6. CASE j > 0 /\ bpf_program__unpin(p, j, [o EXCEPT !.i = j - 1], [o EXCEPT !.i = j - 1])
    <2>1. PICK k \in Places : k = j - 1 /\ k \in 0 .. NProgs - 1 /\ j \in Progs
      BY <1>4, <1>6, Sizes DEF Places
    <2>2. Settled(o, [o EXCEPT !.i = k])
      BY <1>2, <1>4, <2>1, Onward
    <2>3. QED BY <1>1, <1>2, <1>6, <2>1, <2>2, ProgUnlinked
  <1>7. QED BY <1>1, <1>3, <1>5, <1>6 DEF pin_progs_rollback

\* a step of bpf_object__unpin_programs
LEMMA ProgUnpinned == ASSUME OInv, NEW p \in Procs, unpin_prog(p)  PROVE  OInv'
  <1>1. PICK o \in ObjT : o = obj[p]
    BY OTypes DEF OInv
  <1>2. /\ ObjOK(o) /\ o.pc = "unpinprogs" /\ o.state = "busy" /\ UNCHANGED <<fds, next, opens, leaked>>
    BY <1>1 DEF OInv, ProcOK, unpin_prog, At
  <1>3. PICK j \in Progs : j = o.i
    BY <1>2 DEF ObjOK, Placed
  <1>4. Filled(o) /\ o.failed = 0
    BY <1>2 DEF ObjOK, Placed, Pinning
  <1>5. PICK r : r = (IF j < NProgs THEN [o EXCEPT !.i = j + 1] ELSE Loaded(o))
    OBVIOUS
  <1>6. Settled(o, r)
    <2>1. CASE j < NProgs
      <3>1. PICK k \in Places : k = j + 1 /\ k \in Progs
        BY <2>1, Sizes DEF Places
      <3> QED
        BY <1>2, <1>4, <1>5, <2>1, <3>1, Onward
    <2>2. CASE ~(j < NProgs)
      BY <1>2, <1>4, <1>5, <2>2, Ended
    <2> QED
      BY <2>1, <2>2
  <1>7. Settled(o, Loaded(o))
    BY <1>2, <1>4, Ended
  <1>8. bpf_program__unpin(p, j, r, Loaded(o))
    BY <1>1, <1>3, <1>5 DEF unpin_prog
  <1>9. QED BY <1>1, <1>2, <1>6, <1>7, <1>8, ProgUnlinked

\* a step of bpf_object__unpin_maps
LEMMA MapUnpinned == ASSUME OInv, NEW p \in Procs, unpin_map(p)  PROVE  OInv'
  <1>1. PICK o \in ObjT : o = obj[p]
    BY OTypes DEF OInv
  <1>2. /\ ObjOK(o) /\ o.pc = "unpinmaps" /\ o.state = "busy" /\ UNCHANGED <<fds, next, opens, leaked>>
    BY <1>1 DEF OInv, ProcOK, unpin_map, At
  <1>3. PICK i \in Maps : i = o.i
    BY <1>2 DEF ObjOK, Placed
  <1>4. Filled(o) /\ o.failed = 0 /\ i \in Paths /\ \A k \in Maps : o.map[k].pinned => o.map[k].path
    BY <1>2, Sizes DEF ObjOK, Placed, Pinning
  <1>. DEFINE after(q) == IF i < NMaps THEN [q EXCEPT !.i = i + 1] ELSE Loaded(q)
  <1>5. ASSUME NEW q \in ObjT, ObjOK(q), q.state = "busy", q.failed = 0, Filled(q), q.pc = "unpinmaps"
        PROVE  Settled(q, after(q))
    <2>1. CASE i < NMaps
      <3>1. PICK k \in Places : k = i + 1 /\ k \in Maps
        BY <2>1, Sizes DEF Places
      <3> QED
        BY <1>5, <2>1, <3>1, Onward
    <2>2. CASE ~(i < NMaps)
      BY <1>5, <2>2, Ended
    <2> QED
      BY <2>1, <2>2
  <1>6. CASE obj' = [obj EXCEPT ![p] = after(o)] /\ UNCHANGED <<fs, pinner, taken>>
    <2>1. PICK r : r = after(o)
      OBVIOUS
    <2>2. Settled(o, r) /\ obj' = [obj EXCEPT ![p] = r]
      BY <1>2, <1>4, <1>5, <1>6, <2>1
    <2>3. QED BY <1>1, <1>2, <1>6, <2>2, OnlyMoves
  <1>7. CASE obj' = [obj EXCEPT ![p] = Loaded(o)] /\ UNCHANGED <<fs, pinner, taken>>
    <2>1. Settled(o, Loaded(o))
      BY <1>2, <1>4, Ended
    <2>2. QED BY <1>1, <1>2, <1>7, <2>1, OnlyMoves
  <1>8. CASE /\ fs' = [fs EXCEPT ![i] = 0] /\ pinner' = [pinner EXCEPT ![i] = Nobody]
             /\ taken' = [Taken(p, i) EXCEPT ![p] = @ \ {i}]
             /\ obj' = [obj EXCEPT ![p] = after(Unpinned(o, i))]
    <2>1. PICK q : q = Unpinned(o, i)
      OBVIOUS
    <2>2. Unmade(o, q, i)
      BY <2>1, UnmadeSet
    <2>3. PICK r : r = after(q)
      OBVIOUS
    <2>4. \A k \in Maps : (q.map[k].pinned => q.map[k].path) /\ q.map[k].fd # 0
      BY <1>4, <2>2 DEF Unmade, Filled
    <2>5. /\ q \in ObjT /\ q.state = "busy" /\ q.failed = 0 /\ Filled(q) /\ q.pc = "unpinmaps" /\ q.i \in Maps
          /\ q.prog = o.prog
      BY <1>2, <1>3, <1>4, <2>2, <2>4 DEF Unmade, Filled
    <2>6. ObjOK(q)
      BY <2>4, <2>5 DEF ObjOK, Placed, Making, Pinning
    <2>7. Settled(q, r)
      BY <1>5, <2>3, <2>5, <2>6
    <2>8. obj' = [obj EXCEPT ![p] = r]
      BY <1>8, <2>1, <2>3
    <2>. HIDE DEF after
    <2>9. UnlinkStep(p, i, o, r)
      BY <1>2, <1>8, <2>2, <2>5, <2>7 DEF UnlinkStep, Unmade, Settled
    <2>10. QED BY <1>1, <1>2, <1>4, <2>7, <2>8, <2>9, Unlinked DEF Settled
  <1>9. QED BY <1>1, <1>3, <1>6, <1>7, <1>8 DEF unpin_map, Unlink

(* Descriptors, counted.                                                   *)
MapsOf(o, s, n) == {i \in s : o.map[i].fd = n}
ProgsOf(o, s, n) == {j \in s : o.prog[j] = n}

\* they are finite
LEMMA Finite ==
  ASSUME NEW o \in ObjT, NEW s \in SUBSET Maps, NEW t \in SUBSET Progs, NEW n
  PROVE  /\ IsFiniteSet(MapsOf(o, s, n)) /\ Cardinality(MapsOf(o, s, n)) \in Nat
         /\ IsFiniteSet(ProgsOf(o, t, n)) /\ Cardinality(ProgsOf(o, t, n)) \in Nat
  <1>1. IsFiniteSet(Maps) /\ IsFiniteSet(Progs)
    BY Sizes, FS_Interval
  <1>2. MapsOf(o, s, n) \in SUBSET Maps /\ ProgsOf(o, t, n) \in SUBSET Progs
    BY DEF MapsOf, ProgsOf
  <1>3. IsFiniteSet(MapsOf(o, s, n)) /\ IsFiniteSet(ProgsOf(o, t, n))
    BY <1>1, <1>2, FS_Subset
  <1>4. QED BY <1>3, FS_CardinalityType

\* what an object holds, in two parts
LEMMA HeldOf ==
  ASSUME NEW o \in ObjT, NEW n
  PROVE  /\ Held(o, n) = Cardinality(MapsOf(o, Maps, n)) + Cardinality(ProgsOf(o, Progs, n))
         /\ Held(o, n) \in Nat
  <1>1. Held(o, n) = Cardinality(MapsOf(o, Maps, n)) + Cardinality(ProgsOf(o, Progs, n))
    BY DEF Held, MapsOf, ProgsOf
  <1>2. Cardinality(MapsOf(o, Maps, n)) \in Nat /\ Cardinality(ProgsOf(o, Progs, n)) \in Nat
    BY Finite
  <1>3. QED BY <1>1, <1>2

\* an object has no descriptor of what none of its maps and programs is
LEMMA NoneHeld ==
  ASSUME NEW o \in ObjT, NEW n, \A i \in Maps : o.map[i].fd # n, \A j \in Progs : o.prog[j] # n
  PROVE  Held(o, n) = 0
  <1>1. MapsOf(o, Maps, n) = {} /\ ProgsOf(o, Progs, n) = {}
    BY DEF MapsOf, ProgsOf
  <1>2. QED BY <1>1, HeldOf, FS_EmptySet

\* a map gets a descriptor
LEMMA MapHeld ==
  ASSUME NEW o \in ObjT, NEW r \in ObjT, NEW i \in Maps, o.map[i].fd = 0, NEW v \in Ids, r.map[i].fd = v,
         \A k \in Maps : k # i => r.map[k].fd = o.map[k].fd, r.prog = o.prog, NEW n \in Ids
  PROVE  Held(r, n) = Held(o, n) + (IF n = v THEN 1 ELSE 0)
  <1>1. ProgsOf(r, Progs, n) = ProgsOf(o, Progs, n)
    BY DEF ProgsOf
  <1>2. n # 0
    BY DEF Ids
  <1>3. CASE n = v
    <2>1. MapsOf(r, Maps, n) = MapsOf(o, Maps, n) \cup {i} /\ i \notin MapsOf(o, Maps, n)
      BY <1>2, <1>3 DEF MapsOf
    <2>2. Cardinality(MapsOf(r, Maps, n)) = Cardinality(MapsOf(o, Maps, n)) + 1
      <3>1. PICK A : A = MapsOf(o, Maps, n)
        OBVIOUS
      <3>2. IsFiniteSet(A) /\ i \notin A /\ MapsOf(r, Maps, n) = A \cup {i}
        BY <2>1, <3>1, Finite
      <3>3. Cardinality(A \cup {i}) = Cardinality(A) + 1
        BY <3>2, FS_AddElement
      <3> QED
        BY <3>1, <3>2, <3>3
    <2>3. Cardinality(MapsOf(o, Maps, n)) \in Nat /\ Cardinality(ProgsOf(o, Progs, n)) \in Nat
      BY Finite
    <2> QED
      BY <1>1, <1>3, <2>2, <2>3, HeldOf
  <1>4. CASE n # v
    <2>1. MapsOf(r, Maps, n) = MapsOf(o, Maps, n)
      BY <1>2, <1>4 DEF MapsOf
    <2> QED
      BY <1>1, <1>4, <2>1, HeldOf
  <1>5. QED BY <1>3, <1>4

\* a program gets a descriptor
LEMMA ProgHeld ==
  ASSUME NEW o \in ObjT, NEW r \in ObjT, NEW j \in Progs, o.prog[j] = 0, NEW v \in Ids, r.prog[j] = v,
         \A k \in Progs : k # j => r.prog[k] = o.prog[k], r.map = o.map, NEW n \in Ids
  PROVE  Held(r, n) = Held(o, n) + (IF n = v THEN 1 ELSE 0)
  <1>1. MapsOf(r, Maps, n) = MapsOf(o, Maps, n)
    BY DEF MapsOf
  <1>2. n # 0
    BY DEF Ids
  <1>3. CASE n = v
    <2>1. ProgsOf(r, Progs, n) = ProgsOf(o, Progs, n) \cup {j} /\ j \notin ProgsOf(o, Progs, n)
      BY <1>2, <1>3 DEF ProgsOf
    <2>2. Cardinality(ProgsOf(r, Progs, n)) = Cardinality(ProgsOf(o, Progs, n)) + 1
      <3>1. PICK A : A = ProgsOf(o, Progs, n)
        OBVIOUS
      <3>2. IsFiniteSet(A) /\ j \notin A /\ ProgsOf(r, Progs, n) = A \cup {j}
        BY <2>1, <3>1, Finite
      <3>3. Cardinality(A \cup {j}) = Cardinality(A) + 1
        BY <3>2, FS_AddElement
      <3> QED
        BY <3>1, <3>2, <3>3
    <2>3. Cardinality(MapsOf(o, Maps, n)) \in Nat /\ Cardinality(ProgsOf(o, Progs, n)) \in Nat
      BY Finite
    <2> QED
      BY <1>1, <1>3, <2>2, <2>3, HeldOf
  <1>4. CASE n # v
    <2>1. ProgsOf(r, Progs, n) = ProgsOf(o, Progs, n)
      BY <1>2, <1>4 DEF ProgsOf
    <2> QED
      BY <1>1, <1>4, <2>1, HeldOf
  <1>5. QED BY <1>3, <1>4

\* one part of a set is left
LEMMA Split ==
  ASSUME NEW S, NEW T, IsFiniteSet(S), IsFiniteSet(T), S \cap T = {}
  PROVE  Cardinality(S \cup T) = Cardinality(S) + Cardinality(T)
  <1>1. Cardinality(S \cap T) = 0
    BY FS_EmptySet
  <1>2. Cardinality(S) \in Nat /\ Cardinality(T) \in Nat
    BY FS_CardinalityType
  <1>3. Cardinality(S \cup T) = Cardinality(S) + Cardinality(T) - Cardinality(S \cap T)
    BY FS_Union
  <1>4. QED BY <1>1, <1>2, <1>3

\* some maps and programs are without their descriptors
Lost(o, r, maps, progs) ==
  /\ \A k \in Maps : r.map[k].fd = IF k \in maps THEN 0 ELSE o.map[k].fd
  /\ \A k \in Progs : r.prog[k] = IF k \in progs THEN 0 ELSE o.prog[k]

\* what they were without is what is missing
LEMMA HeldLost ==
  ASSUME NEW o \in ObjT, NEW r \in ObjT, NEW maps \in SUBSET Maps, NEW progs \in SUBSET Progs, Lost(o, r, maps, progs),
         NEW n \in Ids
  PROVE  Held(o, n) = Held(r, n) + Cardinality(MapsOf(o, maps, n)) + Cardinality(ProgsOf(o, progs, n))
  <1>1. n # 0
    BY DEF Ids
  <1>2. /\ MapsOf(o, Maps, n) = MapsOf(r, Maps, n) \cup MapsOf(o, maps, n)
        /\ MapsOf(r, Maps, n) \cap MapsOf(o, maps, n) = {}
    BY <1>1 DEF MapsOf, Lost
  <1>3. /\ ProgsOf(o, Progs, n) = ProgsOf(r, Progs, n) \cup ProgsOf(o, progs, n)
        /\ ProgsOf(r, Progs, n) \cap ProgsOf(o, progs, n) = {}
    BY <1>1 DEF ProgsOf, Lost
  <1>4. /\ IsFiniteSet(MapsOf(r, Maps, n)) /\ IsFiniteSet(ProgsOf(r, Progs, n))
        /\ Cardinality(MapsOf(r, Maps, n)) \in Nat /\ Cardinality(ProgsOf(r, Progs, n)) \in Nat
    BY Finite
  <1>5. /\ IsFiniteSet(MapsOf(o, maps, n)) /\ IsFiniteSet(ProgsOf(o, progs, n))
        /\ Cardinality(MapsOf(o, maps, n)) \in Nat /\ Cardinality(ProgsOf(o, progs, n)) \in Nat
    BY Finite
  <1>6. /\ Cardinality(MapsOf(o, Maps, n)) = Cardinality(MapsOf(r, Maps, n)) + Cardinality(MapsOf(o, maps, n))
        /\ Cardinality(ProgsOf(o, Progs, n)) = Cardinality(ProgsOf(r, Progs, n)) + Cardinality(ProgsOf(o, progs, n))
    BY <1>2, <1>3, <1>4, <1>5, Split
  <1>7. QED BY <1>4, <1>5, <1>6, HeldOf

\* they are closed
LEMMA ClosedOnes ==
  ASSUME NEW p \in Procs, NEW o \in ObjT, NEW h \in CountT, h = fds[p], NEW l \in CountT, FdsOf(o, h, l), NEW r \in ObjT,
         NEW maps \in SUBSET Maps, NEW progs \in SUBSET Progs, Lost(o, r, maps, progs)
  PROVE  \E g \in CountT : FdsOf(r, g, l) /\ Without(p, o, maps, progs) = [fds EXCEPT ![p] = g]
  <1>1. PICK g : g = [n \in Ids |-> h[n] - Cardinality(MapsOf(o, maps, n)) - Cardinality(ProgsOf(o, progs, n))]
    OBVIOUS
  <1>2. ASSUME NEW n \in Ids  PROVE  g[n] = Held(r, n) + l[n] /\ g[n] \in Nat
    <2>1. h[n] = Held(o, n) + l[n] /\ l[n] \in Nat
      BY DEF FdsOf, CountT
    <2>2. Cardinality(MapsOf(o, maps, n)) \in Nat /\ Cardinality(ProgsOf(o, progs, n)) \in Nat
      BY Finite
    <2>3. Held(o, n) = Held(r, n) + Cardinality(MapsOf(o, maps, n)) + Cardinality(ProgsOf(o, progs, n))
      BY HeldLost
    <2>4. Held(r, n) \in Nat /\ Held(o, n) \in Nat
      BY HeldOf
    <2>5. g[n] = h[n] - Cardinality(MapsOf(o, maps, n)) - Cardinality(ProgsOf(o, progs, n))
      BY <1>1
    <2>6. \A a, b, c, d, e \in Nat : (c + a + b) + e - a - b = c + e /\ c + e \in Nat
      OBVIOUS
    <2> QED
      BY <2>1, <2>2, <2>3, <2>4, <2>5, <2>6
  <1>3. g \in CountT /\ FdsOf(r, g, l)
    BY <1>1, <1>2 DEF CountT, FdsOf
  <1>4. Without(p, o, maps, progs) = [fds EXCEPT ![p] = g]
    BY <1>1 DEF Without, MapsOf, ProgsOf
  <1>5. QED BY <1>3, <1>4

\* what the rest of a step of its own leaves alone
Aside(p) == UNCHANGED <<fs, opens, pinner, taken>>

\* a step that leaves the BPF file system alone
LEMMA OwnQuiet ==
  ASSUME OInv, NEW p \in Procs, NEW o \in ObjT, NEW h \in CountT, NEW l \in CountT, Becomes(p, o, h, l),
         Aside(p), NEW n \in 1 .. MaxIds + 1, next' = n, n >= next,
         ObjOK(o), FdsOf(o, h, l), PinnedOf(o, taken[p], fs), NumberedOf(o, l, n), PinsOf(p, o, taken[p], pinner)
  PROVE  OInv'
  <1>1. /\ fs' = fs /\ opens' = opens /\ pinner' = pinner /\ taken' = taken
        /\ fs \in [Paths -> 0 .. MaxIds] /\ next \in 1 .. MaxIds + 1 /\ opens \in 0 .. MaxOpens
        /\ pinner \in [Paths -> Procs \cup {Nobody}] /\ taken \in [Procs -> SUBSET Paths]
        /\ \A x \in Paths : fs[x] < next
    BY OTypes DEF OInv, Aside
  <1>2. Touched(p)
    BY <1>1 DEF Touched
  <1>3. \A x \in Paths : fs'[x] < next'
    BY <1>1, Sizes
  <1>4. ProcOK(p, o, h, l, taken'[p], fs', pinner', next')
    BY <1>1 DEF ProcOK
  <1>5. QED BY <1>1, <1>2, <1>3, <1>4, OwnStep

\* the kernel's next number is nobody's
LEMMA Unnumbered ==
  ASSUME NEW o \in ObjT, NEW h \in CountT, NEW l \in CountT, FdsOf(o, h, l), NEW n \in Ids, NumberedOf(o, l, n)
  PROVE  h[n] = 0 /\ l[n] = 0 /\ Held(o, n) = 0
  <1>1. n \in Int /\ n >= n
    BY DEF Ids
  <1>2. l[n] = 0
    BY <1>1 DEF NumberedOf
  <1>3. (\A i \in Maps : o.map[i].fd \in Int) /\ \A j \in Progs : o.prog[j] \in Int
    BY DEF ObjT, MapT
  <1>4. (\A i \in Maps : o.map[i].fd # n) /\ \A j \in Progs : o.prog[j] # n
    BY <1>1, <1>3 DEF NumberedOf
  <1>5. Held(o, n) = 0
    BY <1>4, NoneHeld
  <1>6. QED BY <1>2, <1>5 DEF FdsOf

\* a new map or program of an object
LEMMA NumbersKeep ==
  ASSUME NEW l \in CountT, NEW n \in Ids, \A k \in Ids : k >= n => l[k] = 0
  PROVE  n + 1 \in 1 .. MaxIds + 1 /\ n + 1 >= n /\ \A k \in Ids : k >= n + 1 => l[k] = 0
  BY Sizes DEF Ids

\* a map is made
LEMMA MapCreated == ASSUME OInv, NEW p \in Procs, NEW o \in ObjT, o = obj[p], o.state = "busy", o.pc = "create",
         NEW i \in Maps, i = o.i, next <= MaxIds,
         obj' = [obj EXCEPT ![p] = Go([o EXCEPT !.map[i].fd = next], IF i \in Internal THEN "populate" ELSE "autopin", i)],
         fds' = [fds EXCEPT ![p][next] = 1], next' = next + 1, UNCHANGED <<fs, opens, leaked, pinner, taken>>
  PROVE  OInv'
  <1>1. PICK h \in CountT : h = fds[p]
    BY OTypes DEF OInv
  <1>2. PICK l \in CountT : l = leaked[p]
    BY OTypes DEF OInv
  <1>3. PICK n \in Ids : n = next
    BY OTypes, Sizes DEF OInv
  <1>4. PICK t : t = taken[p]
    OBVIOUS
  <1>5. /\ ObjOK(o) /\ FdsOf(o, h, l) /\ PinnedOf(o, t, fs) /\ NumberedOf(o, l, n) /\ PinsOf(p, o, t, pinner)
    BY <1>1, <1>2, <1>3, <1>4 DEF OInv, ProcOK
  <1>6. /\ \A k \in Maps : IF k < i THEN o.map[k].fd # 0 ELSE Fresh(o.map[k])
        /\ NoProgs(o, 1) /\ o.failed = 0 /\ \A k \in Maps : o.map[k].pinned => o.map[k].path
    BY <1>5 DEF ObjOK, Placed, Making
  <1>7. ~(i < i)
    BY Sizes
  <1>8. o.map[i].fd = 0 /\ ~o.map[i].pinned /\ ~o.map[i].reused
    BY <1>6, <1>7 DEF Fresh
  <1>9. PICK m : m = [o.map[i] EXCEPT !.fd = n]
    OBVIOUS
  <1>10. m \in MapT /\ m.fd = n /\ ~m.pinned /\ ~m.reused /\ m.path = o.map[i].path
    <2>1. o.map[i] \in MapT /\ n \in 0 .. MaxIds
      BY Sizes DEF ObjT
    <2> QED
      BY <1>8, <1>9, <2>1 DEF MapT
  <1>11. PICK q : q = [o EXCEPT !.map[i] = m]
    OBVIOUS
  <1>12. MapGoes(o, q, i, m)
    BY <1>10, <1>11, MapSet
  <1>13. PICK pc \in {"populate", "autopin"} : pc = IF i \in Internal THEN "populate" ELSE "autopin"
    OBVIOUS
  <1>14. PICK j \in Places : j = i
    BY Sizes DEF Places
  <1>15. PICK r : r = Go(q, pc, j)
    OBVIOUS
  <1>16. Goes(q, r, pc, j)
    BY <1>12, <1>15, GoSet DEF Pcs, MapGoes
  <1>17. obj' = [obj EXCEPT ![p] = r]
    BY <1>3, <1>9, <1>11, <1>13, <1>14, <1>15
  <1>18. /\ r \in ObjT /\ r.state = "busy" /\ r.pc = pc /\ r.i = i /\ r.failed = 0 /\ r.stuck = o.stuck /\ r.prog = o.prog
         /\ r.map[i] = m /\ \A k \in Maps : k # i => r.map[k] = o.map[k]
    BY <1>6, <1>12, <1>14, <1>16 DEF MapGoes, Goes
  <1>19. n # 0 /\ n \in Int
    BY DEF Ids
  <1>20. ObjOK(r)
    <2>1. ASSUME NEW k \in Maps
          PROVE  /\ IF k <= i THEN r.map[k].fd # 0 ELSE Fresh(r.map[k])
                 /\ r.map[k].pinned => r.map[k].path
      <3>1. CASE k = i
        <4>1. k <= i /\ r.map[k].fd # 0 /\ ~r.map[k].pinned
          BY <1>10, <1>18, <1>19, <3>1, Sizes
        <4> QED
          BY <4>1
      <3>2. CASE k # i
        <4>1. (k <= i <=> k < i) /\ r.map[k] = o.map[k]
          BY <1>18, <3>2, Sizes
        <4> QED
          BY <1>6, <4>1
      <3> QED
        BY <3>1, <3>2
    <2>2. NoProgs(r, 1)
      BY <1>6, <1>18 DEF NoProgs
    <2> QED
      BY <1>10, <1>18, <2>1, <2>2 DEF ObjOK, Placed, Making, Pinning
  <1>21. PICK g : g = [h EXCEPT ![n] = 1]
    OBVIOUS
  <1>22. g \in CountT /\ g[n] = 1 /\ \A k \in Ids : k # n => g[k] = h[k]
    BY <1>21 DEF CountT
  <1>23. \A k \in Maps : k # i => r.map[k].fd = o.map[k].fd
    BY <1>18
  <1>24. FdsOf(r, g, l)
    <2>1. ASSUME NEW k \in Ids  PROVE  g[k] = Held(r, k) + l[k]
      <3>1. Held(r, k) = Held(o, k) + (IF k = n THEN 1 ELSE 0)
        BY <1>8, <1>10, <1>18, <1>23, MapHeld
      <3>2. Held(o, k) \in Nat /\ h[k] \in Nat /\ l[k] \in Nat /\ h[k] = Held(o, k) + l[k]
        BY <1>5, HeldOf DEF CountT, FdsOf
      <3>3. h[n] = 0 /\ l[n] = 0 /\ Held(o, n) = 0
        BY <1>5, Unnumbered
      <3>4. CASE k = n
        BY <1>22, <3>1, <3>3, <3>4
      <3>5. CASE k # n
        BY <1>22, <3>1, <3>2, <3>5
      <3> QED
        BY <3>4, <3>5
    <2> QED
      BY <2>1 DEF FdsOf
  <1>25. NumberedOf(r, l, n + 1)
    <2>1. (\A k \in Ids : k >= n => l[k] = 0)
      BY <1>5 DEF NumberedOf
    <2>2. \A k \in Maps : r.map[k].fd < n + 1
      <3>1. ASSUME NEW k \in Maps  PROVE  r.map[k].fd < n + 1
        <4>1. r.map[k].fd \in Int
          BY <1>18 DEF ObjT, MapT
        <4>2. CASE k = i
          BY <1>10, <1>18, <1>19, <4>2
        <4>3. CASE k # i
          <5>1. r.map[k].fd < n
            BY <1>5, <1>18, <4>3 DEF NumberedOf
          <5> QED
            BY <1>19, <4>1, <5>1
        <4> QED
          BY <4>2, <4>3
      <3> QED
        BY <3>1
    <2>3. \A k \in Progs : r.prog[k] < n + 1
      <3>1. ASSUME NEW k \in Progs  PROVE  r.prog[k] < n + 1
        <4>1. r.prog[k] \in Int /\ r.prog[k] < n
          BY <1>5, <1>18 DEF ObjT, NumberedOf
        <4> QED
          BY <1>19, <4>1
      <3> QED
        BY <3>1
    <2> QED
      BY <2>1, <2>2, <2>3, NumbersKeep DEF NumberedOf
  <1>26. PinnedOf(r, t, fs)
    <2>1. \A k \in Maps : r.map[k].pinned => r.map[k] = o.map[k]
      BY <1>10, <1>18
    <2> QED
      BY <1>5, <1>18, <2>1 DEF PinnedOf
  <1>27. PinsOf(p, r, t, pinner)
    <2>1. \A k \in Maps : r.map[k].pinned = o.map[k].pinned /\ r.map[k].reused = o.map[k].reused
      <3>1. \A k \in Maps : k # i => r.map[k].pinned = o.map[k].pinned /\ r.map[k].reused = o.map[k].reused
        BY <1>18
      <3>2. r.map[i].pinned = o.map[i].pinned /\ r.map[i].reused = o.map[i].reused
        <4>1. /\ r.map[i].pinned \in BOOLEAN /\ o.map[i].pinned \in BOOLEAN /\ r.map[i].reused \in BOOLEAN
              /\ o.map[i].reused \in BOOLEAN
          BY <1>18 DEF ObjT, MapT
        <4> QED
          BY <1>8, <1>10, <1>18, <4>1
      <3> QED
        BY <3>1, <3>2
    <2>2. Loading(o) /\ Loading(r) /\ r.pc # "unpin" /\ r.state # "failed"
      BY <1>18 DEF Loading, Making
    <2> QED
      BY <1>5, <2>1, <2>2 DEF PinsOf
  <1>28. Becomes(p, r, g, l) /\ Aside(p)
    BY <1>1, <1>2, <1>3, <1>17, <1>21 DEF Becomes, Aside
  <1>29. n + 1 \in 1 .. MaxIds + 1 /\ n + 1 >= next /\ next' = n + 1
    BY <1>3, Sizes
  <1>30. QED BY <1>4, <1>18, <1>20, <1>22, <1>24, <1>25, <1>26, <1>27, <1>28, <1>29, OwnQuiet

\* an object whose program j is loaded
WithProg(o, j, n) ==
  IF j < NProgs THEN [o EXCEPT !.prog[j] = n, !.i = j + 1] ELSE Go([o EXCEPT !.prog[j] = n, !.state = "loaded"], "", 0)

\* a program is loaded
LEMMA ProgCreated ==
  ASSUME OInv, NEW p \in Procs, NEW o \in ObjT, o = obj[p], o.state = "busy", o.pc = "progs",
         NEW j \in Progs, j = o.i, next <= MaxIds,
         obj' = [obj EXCEPT ![p] = WithProg(o, j, next)],
         fds' = [fds EXCEPT ![p][next] = 1], next' = next + 1, UNCHANGED <<fs, opens, leaked, pinner, taken>>
  PROVE  OInv'
  <1>1. PICK h \in CountT : h = fds[p]
    BY OTypes DEF OInv
  <1>2. PICK l \in CountT : l = leaked[p]
    BY OTypes DEF OInv
  <1>3. PICK n \in Ids : n = next
    BY OTypes, Sizes DEF OInv
  <1>4. PICK t : t = taken[p]
    OBVIOUS
  <1>5. /\ ObjOK(o) /\ FdsOf(o, h, l) /\ PinnedOf(o, t, fs) /\ NumberedOf(o, l, n) /\ PinsOf(p, o, t, pinner)
    BY <1>1, <1>2, <1>3, <1>4 DEF OInv, ProcOK
  <1>6. /\ NoProgs(o, j) /\ o.failed = 0 /\ Filled(o) /\ \A k \in Maps : o.map[k].pinned => o.map[k].path
    BY <1>5 DEF ObjOK, Placed, Making
  <1>7. o.prog[j] = 0
    BY <1>6, Sizes DEF NoProgs
  <1>8. n # 0 /\ n \in Int /\ n \in 0 .. MaxIds
    BY Sizes DEF Ids
  <1>9. PICK f \in [Progs -> 0 .. MaxIds] : f = [o.prog EXCEPT ![j] = n]
    BY <1>8 DEF ObjT
  <1>10. f[j] = n /\ \A k \in Progs : k # j => f[k] = o.prog[k]
    BY <1>9 DEF ObjT
  <1>11. PICK q : q = [o EXCEPT !.prog = f]
    OBVIOUS
  <1>12. /\ q \in ObjT /\ q.state = "busy" /\ q.pc = "progs" /\ q.failed = 0 /\ q.map = o.map /\ q.prog = f
    BY <1>6, <1>11 DEF ObjT
  <1>13. q = [o EXCEPT !.prog[j] = n]
    BY <1>9, <1>11
  <1>14. PICK r \in ObjT : /\ obj' = [obj EXCEPT ![p] = r] /\ r.map = o.map /\ r.prog = f /\ ObjOK(r)
                           /\ r.state \in {"busy", "loaded"} /\ (Loading(r) => r.pc # "unpin")
    <2>1. CASE j < NProgs
      <3>1. PICK k \in Places : k = j + 1 /\ k \in Progs
        BY SMTT(30), <2>1, Sizes DEF Places
      <3>2. PICK r : r = [q EXCEPT !.i = k]
        OBVIOUS
      <3>3. Goes(q, r, q.pc, k)
        BY <1>12, <3>2, TurnSet
      <3>4. r = [o EXCEPT !.prog[j] = n, !.i = j + 1]
        BY <1>13, <3>1, <3>2
      <3>5. NoProgs(r, k)
        <4>1. ASSUME NEW x \in Progs, x >= k  PROVE  x >= j /\ x # j
          <5>1. x \in Int /\ j \in Int /\ k = j + 1
            BY <3>1, Sizes
          <5> QED
            BY <4>1, <5>1
        <4>2. r.prog = f
          BY <1>12, <3>3 DEF Goes
        <4> QED
          BY <1>6, <1>10, <4>1, <4>2 DEF NoProgs
      <3>6. ObjOK(r)
        BY <1>6, <1>12, <3>1, <3>3, <3>5 DEF ObjOK, Placed, Making, Pinning, Filled, Goes
      <3> QED
        BY <1>3, <1>12, <2>1, <3>3, <3>4, <3>6 DEF Goes, WithProg
    <2>2. CASE ~(j < NProgs)
      <3>1. PICK r : r = Loaded(q)
        OBVIOUS
      <3>2. /\ r \in ObjT /\ r.state = "loaded" /\ r.failed = 0 /\ r.map = o.map /\ r.prog = f
        BY <1>12, <3>1, LoadedSet
      <3>3. r = Go([o EXCEPT !.prog[j] = n, !.state = "loaded"], "", 0)
        BY <1>13, <3>1 DEF Loaded
      <3>4. ObjOK(r) /\ ~Loading(r)
        BY <1>6, <3>2 DEF ObjOK, Filled, Loading
      <3> QED
        BY <1>3, <2>2, <3>2, <3>3, <3>4 DEF WithProg
    <2> QED
      BY <2>1, <2>2
  <1>15. PICK g : g = [h EXCEPT ![n] = 1]
    OBVIOUS
  <1>16. g \in CountT /\ g[n] = 1 /\ \A k \in Ids : k # n => g[k] = h[k]
    BY <1>15 DEF CountT
  <1>17. FdsOf(r, g, l)
    <2>1. ASSUME NEW k \in Ids  PROVE  g[k] = Held(r, k) + l[k]
      <3>1. Held(r, k) = Held(o, k) + (IF k = n THEN 1 ELSE 0)
        BY <1>7, <1>10, <1>14, ProgHeld
      <3>2. Held(o, k) \in Nat /\ h[k] \in Nat /\ l[k] \in Nat /\ h[k] = Held(o, k) + l[k]
        BY <1>5, HeldOf DEF CountT, FdsOf
      <3>3. h[n] = 0 /\ l[n] = 0 /\ Held(o, n) = 0
        BY <1>5, Unnumbered
      <3>4. CASE k = n
        BY <1>16, <3>1, <3>3, <3>4
      <3>5. CASE k # n
        BY <1>16, <3>1, <3>2, <3>5
      <3> QED
        BY <3>4, <3>5
    <2> QED
      BY <2>1 DEF FdsOf
  <1>18. NumberedOf(r, l, n + 1)
    <2>1. (\A k \in Ids : k >= n => l[k] = 0)
      BY <1>5 DEF NumberedOf
    <2>2. ASSUME NEW k \in Maps  PROVE  r.map[k].fd < n + 1
      <3>1. r.map[k].fd \in Int /\ r.map[k].fd < n
        BY <1>5, <1>14 DEF ObjT, MapT, NumberedOf
      <3> QED
        BY <1>8, <3>1
    <2>3. ASSUME NEW k \in Progs  PROVE  r.prog[k] < n + 1
      <3>1. r.prog[k] \in Int /\ (k # j => r.prog[k] < n)
        BY <1>5, <1>10, <1>14 DEF ObjT, NumberedOf
      <3> QED
        BY <1>8, <1>10, <1>14, <3>1
    <2> QED
      BY <2>1, <2>2, <2>3, NumbersKeep DEF NumberedOf
  <1>19. PinnedOf(r, t, fs)
    BY <1>5, <1>14 DEF PinnedOf
  <1>20. PinsOf(p, r, t, pinner)
    <2>1. Loading(o)
      BY DEF Loading, Making
    <2> QED
      BY <1>5, <1>14, <2>1 DEF PinsOf
  <1>21. Becomes(p, r, g, l) /\ Aside(p)
    BY <1>1, <1>2, <1>3, <1>14, <1>15 DEF Becomes, Aside
  <1>22. n + 1 \in 1 .. MaxIds + 1 /\ n + 1 >= next /\ next' = n + 1
    BY <1>3, Sizes
  <1>23. QED BY <1>4, <1>14, <1>16, <1>17, <1>18, <1>19, <1>20, <1>21, <1>22, OwnQuiet

\* bpf_program__load
LEMMA ProgLoaded == ASSUME OInv, NEW p \in Procs, load_prog(p)  PROVE  OInv'
  <1>1. PICK o \in ObjT : o = obj[p]
    BY OTypes DEF OInv
  <1>2. /\ ObjOK(o) /\ o.pc = "progs" /\ o.state = "busy" /\ UNCHANGED <<fs, opens, leaked, pinner, taken>>
    BY <1>1 DEF OInv, ProcOK, load_prog, At
  <1>3. PICK j \in Progs : j = o.i
    BY <1>2 DEF ObjOK, Placed
  <1>4. CASE /\ next <= MaxIds /\ fds' = [fds EXCEPT ![p][next] = 1] /\ next' = next + 1
             /\ obj' = [obj EXCEPT ![p] = WithProg(o, j, next)]
    BY <1>1, <1>2, <1>3, <1>4, ProgCreated
  <1>5. CASE obj' = [obj EXCEPT ![p] = Fail(o)] /\ UNCHANGED <<fds, next>>
    BY <1>1, <1>2, <1>5, Failing DEF Making
  <1>6. QED BY <1>1, <1>3, <1>4, <1>5 DEF load_prog, WithProg

\* maps are zclosed
LEMMA ZclosedSet ==
  ASSUME NEW o \in ObjT, NEW c \in SUBSET Maps
  PROVE  LET r == Zclosed(o, c)
         IN  /\ r \in ObjT /\ r.state = o.state /\ r.pc = o.pc /\ r.i = o.i /\ r.failed = o.failed /\ r.stuck = o.stuck
             /\ r.prog = o.prog /\ Lost(o, r, c, {})
             /\ \A k \in Maps : /\ r.map[k].pinned = o.map[k].pinned /\ r.map[k].reused = o.map[k].reused
                                /\ r.map[k].path = o.map[k].path /\ r.map[k].fd \in {0, o.map[k].fd}
  <1>1. PICK f : f = [i \in Maps |-> IF i \in c THEN [o.map[i] EXCEPT !.fd = 0] ELSE o.map[i]]
    OBVIOUS
  <1>2. 0 \in 0 .. MaxIds
    BY Sizes
  <1>3. ASSUME NEW k \in Maps
        PROVE  /\ f[k] \in MapT /\ f[k].pinned = o.map[k].pinned /\ f[k].reused = o.map[k].reused
               /\ f[k].path = o.map[k].path /\ f[k].fd = IF k \in c THEN 0 ELSE o.map[k].fd
    <2>1. o.map[k] \in MapT
      BY DEF ObjT
    <2>2. CASE k \in c
      <3>1. PICK z \in 0 .. MaxIds : z = 0
        BY <1>2
      <3>2. f[k] = [o.map[k] EXCEPT !.fd = z]
        BY <1>1, <2>2, <3>1
      <3>3. /\ f[k] \in MapT /\ f[k].pinned = o.map[k].pinned /\ f[k].reused = o.map[k].reused
            /\ f[k].path = o.map[k].path /\ f[k].fd = z
        BY <2>1, <3>2 DEF MapT
      <3> QED
        BY <2>2, <3>1, <3>3
    <2>3. CASE k \notin c
      BY <1>1, <2>1, <2>3
    <2> QED
      BY <2>2, <2>3
  <1>4. f \in [Maps -> MapT]
    BY <1>1, <1>3
  <1>5. PICK r : r = [o EXCEPT !.map = f]
    OBVIOUS
  <1>6. Zclosed(o, c) = r
    BY <1>1, <1>5 DEF Zclosed, ObjT
  <1>7. /\ r \in ObjT /\ r.state = o.state /\ r.pc = o.pc /\ r.i = o.i /\ r.failed = o.failed /\ r.stuck = o.stuck
        /\ r.prog = o.prog /\ r.map = f
    BY <1>4, <1>5 DEF ObjT
  <1>8. /\ \A k \in Maps : /\ r.map[k].pinned = o.map[k].pinned /\ r.map[k].reused = o.map[k].reused
                           /\ r.map[k].path = o.map[k].path
                           /\ r.map[k].fd = IF k \in c THEN 0 ELSE o.map[k].fd
    BY <1>3, <1>7
  <1>9. Lost(o, r, c, {})
    BY <1>7, <1>8 DEF Lost
  <1>10. QED BY <1>6, <1>7, <1>8, <1>9

\* a load fails, and some maps are closed at once
LEMMA FailedClosing ==
  ASSUME OInv, NEW p \in Procs, NEW o \in ObjT, o = obj[p], o.state = "busy", o.pc \in Making, NEW c \in SUBSET Maps,
         obj' = [obj EXCEPT ![p] = Fail(Zclosed(o, c))], fds' = Without(p, o, c, {}),
         UNCHANGED <<fs, next, opens, leaked, pinner, taken>>
  PROVE  OInv'
  <1>1. PICK h \in CountT : h = fds[p]
    BY OTypes DEF OInv
  <1>2. PICK l \in CountT : l = leaked[p]
    BY OTypes DEF OInv
  <1>3. PICK n \in 1 .. MaxIds + 1 : n = next
    BY OTypes DEF OInv
  <1>4. PICK t : t = taken[p]
    OBVIOUS
  <1>5. /\ ObjOK(o) /\ FdsOf(o, h, l) /\ PinnedOf(o, t, fs) /\ NumberedOf(o, l, n) /\ PinsOf(p, o, t, pinner)
        /\ \A k \in Maps : o.map[k].pinned => o.map[k].path
    BY <1>1, <1>2, <1>3, <1>4 DEF OInv, ProcOK, ObjOK
  <1>6. PICK q : q = Zclosed(o, c)
    OBVIOUS
  <1>7. /\ q \in ObjT /\ q.state = "busy" /\ q.prog = o.prog /\ Lost(o, q, c, {})
        /\ \A k \in Maps : /\ q.map[k].pinned = o.map[k].pinned /\ q.map[k].reused = o.map[k].reused
                           /\ q.map[k].path = o.map[k].path /\ q.map[k].fd \in {0, o.map[k].fd}
    BY <1>6, ZclosedSet
  <1>8. PICK j \in Places : j = 1
    BY Sizes DEF Places
  <1>9. PICK r : r = Go(q, "unpin", j)
    OBVIOUS
  <1>10. Goes(q, r, "unpin", j)
    BY <1>7, <1>9, GoSet DEF Pcs
  <1>11. obj' = [obj EXCEPT ![p] = r]
    BY <1>6, <1>8, <1>9 DEF Fail
  <1>12. /\ r \in ObjT /\ r.state = "busy" /\ r.pc = "unpin" /\ r.i = 1 /\ r.prog = o.prog /\ r.map = q.map
    BY <1>7, <1>8, <1>10 DEF Goes
  <1>13. /\ \A k \in Maps : /\ r.map[k].pinned = o.map[k].pinned /\ r.map[k].reused = o.map[k].reused
                            /\ r.map[k].path = o.map[k].path /\ r.map[k].fd \in {0, o.map[k].fd}
         /\ Lost(o, r, c, {})
    BY <1>7, <1>12 DEF Lost
  <1>14. PICK g \in CountT : FdsOf(r, g, l) /\ Without(p, o, c, {}) = [fds EXCEPT ![p] = g]
    <2>1. PICK e \in SUBSET Progs : e = {}
      OBVIOUS
    <2>2. Lost(o, r, c, e)
      BY <1>13, <2>1
    <2>3. \E g \in CountT : FdsOf(r, g, l) /\ Without(p, o, c, e) = [fds EXCEPT ![p] = g]
      <3>1. FdsOf(o, h, l) /\ r \in ObjT
        BY <1>5, <1>12
      <3>2. h = fds[p]
        BY <1>1
      <3> QED
        BY ONLY p \in Procs, o \in ObjT, h \in CountT, l \in CountT, c \in SUBSET Maps, e \in SUBSET Progs,
                <2>2, <3>1, <3>2, ClosedOnes
    <2> QED
      BY <2>1, <2>3
  <1>15. ObjOK(r)
    <2>1. \A k \in Maps : r.map[k].pinned => r.map[k].path
      BY <1>5, <1>13
    <2>2. 1 \in 1 .. NMaps + 1
      BY Sizes
    <2> QED
      BY <1>12, <2>1, <2>2 DEF ObjOK, Placed, Making, Pinning
  <1>16. PinnedOf(r, t, fs)
    BY <1>5, <1>13 DEF PinnedOf
  <1>17. NumberedOf(r, l, n)
    <2>1. ASSUME NEW k \in Maps  PROVE  r.map[k].fd < n
      <3>1. o.map[k].fd < n /\ n \in 1 .. MaxIds + 1 /\ r.map[k].fd \in {0, o.map[k].fd}
        BY <1>5, <1>13 DEF NumberedOf
      <3>2. CASE r.map[k].fd = 0
        BY <3>1, <3>2, Sizes
      <3>3. CASE r.map[k].fd = o.map[k].fd
        BY <3>1, <3>3
      <3> QED
        BY <3>1, <3>2, <3>3
    <2> QED
      BY <1>5, <1>12, <2>1 DEF NumberedOf
  <1>18. PinsOf(p, r, t, pinner)
    <2>1. Loading(o) /\ \A x \in Maps : 1 <= x
      BY Sizes DEF Loading
    <2> QED
      BY <1>5, <1>12, <1>13, <2>1 DEF PinsOf
  <1>19. Becomes(p, r, g, l) /\ Aside(p)
    BY <1>2, <1>11, <1>14 DEF Becomes, Aside
  <1>20. next' = n /\ n >= next
    BY <1>3, Sizes
  <1>21. QED BY <1>3, <1>4, <1>12, <1>14, <1>15, <1>16, <1>17, <1>18, <1>19, <1>20, OwnQuiet

\* bpf_create_map_xattr, with success and without
LEMMA MapMade == ASSUME OInv, NEW p \in Procs, create_map(p)  PROVE  OInv'
  <1>1. PICK o \in ObjT : o = obj[p]
    BY OTypes DEF OInv
  <1>2. /\ ObjOK(o) /\ o.pc = "create" /\ o.state = "busy" /\ UNCHANGED <<fs, opens, leaked, pinner, taken>>
    BY <1>1 DEF OInv, ProcOK, create_map, At
  <1>3. PICK i \in Maps : i = o.i
    BY <1>2 DEF ObjOK, Placed
  <1>4. CASE /\ next <= MaxIds /\ fds' = [fds EXCEPT ![p][next] = 1] /\ next' = next + 1
             /\ obj' = [obj EXCEPT ![p] =
                  Go([o EXCEPT !.map[i].fd = next], IF i \in Internal THEN "populate" ELSE "autopin", i)]
    BY <1>1, <1>2, <1>3, <1>4, MapCreated
  <1>5. CASE /\ obj' = [obj EXCEPT ![p] = Fail(Zclosed(o, 1 .. i - 1))] /\ fds' = Without(p, o, 1 .. i - 1, {})
             /\ UNCHANGED next
    <2>1. PICK c \in SUBSET Maps : c = 1 .. i - 1
      BY Sizes
    <2>2. QED BY <1>1, <1>2, <1>5, <2>1, FailedClosing DEF Making
  <1>6. QED BY <1>1, <1>3, <1>4, <1>5 DEF create_map

\* bpf_object__populate_internal_map
LEMMA MapPopulated == ASSUME OInv, NEW p \in Procs, populate_internal_map(p)  PROVE  OInv'
  <1>1. PICK o \in ObjT : o = obj[p]
    BY OTypes DEF OInv
  <1>2. /\ ObjOK(o) /\ o.pc = "populate" /\ o.state = "busy" /\ UNCHANGED <<fs, next, opens, leaked, pinner, taken>>
    BY <1>1 DEF OInv, ProcOK, populate_internal_map, At
  <1>3. PICK i \in Maps : i = o.i
    BY <1>2 DEF ObjOK, Placed
  <1>4. CASE obj' = [obj EXCEPT ![p] = Go(o, "autopin", i)] /\ UNCHANGED fds
    <2>1. PICK j \in Places : j = i
      BY Sizes DEF Places
    <2>2. PICK r : r = Go(o, "autopin", j)
      OBVIOUS
    <2>3. Goes(o, r, "autopin", j)
      BY <2>2, GoSet DEF Pcs
    <2>4. r \in ObjT /\ Same(o, r) /\ r.state = "busy" /\ r.pc = "autopin" /\ ObjOK(r)
      BY <1>2, <1>3, <2>1, <2>3 DEF Goes, Same, ObjOK, Placed, Making, Pinning, NoProgs
    <2>5. Loading(o)
      BY <1>2 DEF Loading, Making
    <2>6. QED BY <1>1, <1>2, <1>4, <2>1, <2>2, <2>4, <2>5, QuietStep
  <1>5. CASE obj' = [obj EXCEPT ![p] = Fail(Zclosed(o, 1 .. i))] /\ fds' = Without(p, o, 1 .. i, {})
    <2>1. PICK c \in SUBSET Maps : c = 1 .. i
      BY Sizes
    <2>2. QED BY <1>1, <1>2, <1>5, <2>1, FailedClosing DEF Making
  <1>6. QED BY <1>1, <1>3, <1>4, <1>5 DEF populate_internal_map

\* what the process p does when it takes the map i of the object o from its pin
TakesPin(p, o, i) ==
  /\ obj' = [obj EXCEPT ![p] = NextMap([Reused(o, i, fs[i]) EXCEPT !.map[i].pinned = TRUE], i)]
  /\ fds' = [fds EXCEPT ![p][fs[i]] = @ + 2] /\ leaked' = [leaked EXCEPT ![p][fs[i]] = @ + 1]
  /\ UNCHANGED <<fs, next, opens, pinner, taken>>

\* a map is taken from its pin
LEMMA MapReused ==
  ASSUME OInv, NEW p \in Procs, NEW o \in ObjT, o = obj[p], o.state = "busy", o.pc = "get",
         NEW i \in Maps, i = o.i, o.map[i].path, fs[i] # 0, TakesPin(p, o, i)
  PROVE  OInv'
  <1>1. PICK h \in CountT : h = fds[p]
    BY OTypes DEF OInv
  <1>2. PICK l \in CountT : l = leaked[p]
    BY OTypes DEF OInv
  <1>3. PICK z \in 1 .. MaxIds + 1 : z = next
    BY OTypes DEF OInv
  <1>4. PICK t : t = taken[p]
    OBVIOUS
  <1>5. PICK n \in Ids : n = fs[i] /\ n < z
    <2>1. i \in Paths /\ fs \in [Paths -> 0 .. MaxIds] /\ \A x \in Paths : fs[x] < next
      BY OTypes, Sizes DEF OInv
    <2> QED
      <3>1. fs[i] \in 0 .. MaxIds /\ fs[i] < z /\ MaxIds \in Nat /\ Ids = 1 .. MaxIds
        BY <1>3, <2>1, Sizes
      <3>2. fs[i] \in Ids
        BY <3>1
      <3> QED
        BY <3>1, <3>2
  <1>6. /\ ObjOK(o) /\ FdsOf(o, h, l) /\ PinnedOf(o, t, fs) /\ NumberedOf(o, l, z) /\ PinsOf(p, o, t, pinner)
    BY <1>1, <1>2, <1>3, <1>4 DEF OInv, ProcOK
  <1>7. /\ \A k \in Maps : IF k < i THEN o.map[k].fd # 0 ELSE Fresh(o.map[k])
        /\ NoProgs(o, 1) /\ o.failed = 0 /\ \A k \in Maps : o.map[k].pinned => o.map[k].path
    BY <1>6 DEF ObjOK, Placed, Making
  <1>8. o.map[i].fd = 0 /\ ~o.map[i].pinned /\ ~o.map[i].reused
    <2>1. ~(i < i)
      BY Sizes
    <2> QED
      BY <1>7, <2>1 DEF Fresh
  <1>9. PICK m : m = [o.map[i] EXCEPT !.fd = n, !.reused = TRUE, !.pinned = TRUE]
    OBVIOUS
  <1>10. m \in MapT /\ m.fd = n /\ m.pinned /\ m.reused /\ m.path
    <2>1. o.map[i] \in MapT /\ n \in 0 .. MaxIds
      BY Sizes DEF ObjT
    <2> QED
      BY <1>9, <2>1 DEF MapT
  <1>11. PICK q : q = [o EXCEPT !.map[i] = m]
    OBVIOUS
  <1>12. MapGoes(o, q, i, m)
    BY <1>10, <1>11, MapSet
  <1>13. q = [Reused(o, i, n) EXCEPT !.map[i].pinned = TRUE]
    <2>1. PICK a : a = [o.map[i] EXCEPT !.fd = n, !.reused = TRUE]
      OBVIOUS
    <2>2. PICK b : b = [o EXCEPT !.map[i] = a]
      OBVIOUS
    <2>3. b = Reused(o, i, n)
      BY <2>1, <2>2 DEF Reused
    <2>4. m = [a EXCEPT !.pinned = TRUE]
      BY <1>9, <2>1
    <2>5. b.map[i] = a
      BY <2>2 DEF ObjT
    <2>6. q = [b EXCEPT !.map[i] = m]
      BY <1>11, <2>2 DEF ObjT
    <2> QED
      BY <2>3, <2>4, <2>5, <2>6
  <1>14. n # 0 /\ n \in Int
    BY DEF Ids
  <1>15. /\ q \in ObjT /\ q.state = "busy" /\ NoProgs(q, 1) /\ q.failed = 0 /\ q.prog = o.prog
         /\ \A k \in Maps : IF k <= i THEN q.map[k].fd # 0 ELSE Fresh(q.map[k])
         /\ \A k \in Maps : q.map[k].pinned => q.map[k].path
    <2>1. ASSUME NEW k \in Maps
          PROVE  /\ IF k <= i THEN q.map[k].fd # 0 ELSE Fresh(q.map[k])
                 /\ q.map[k].pinned => q.map[k].path
      <3>1. CASE k = i
        <4>1. k <= i /\ q.map[k] = m
          BY <1>12, <3>1, Sizes DEF MapGoes
        <4> QED
          BY <1>10, <1>14, <4>1
      <3>2. CASE k # i
        <4>1. (k <= i <=> k < i) /\ q.map[k] = o.map[k]
          BY <1>12, <3>2, Sizes DEF MapGoes
        <4> QED
          BY <1>7, <4>1
      <3> QED
        BY <3>1, <3>2
    <2> QED
      BY <1>7, <1>12, <2>1 DEF MapGoes, NoProgs
  <1>16. PICK r : r = NextMap(q, i)
    OBVIOUS
  <1>17. /\ r \in ObjT /\ r.state = "busy" /\ r.map = q.map /\ r.prog = o.prog /\ r.pc \in {"get", "relocate"} /\ ObjOK(r)
    BY <1>15, <1>16, NextMapSet
  <1>18. r.map[i] = m /\ \A k \in Maps : k # i => r.map[k] = o.map[k]
    <2>1. q.map[i] = m /\ \A k \in Maps : k # i => q.map[k] = o.map[k]
      BY <1>12 DEF MapGoes
    <2>2. r.map = q.map
      BY <1>17
    <2> QED
      BY <2>1, <2>2
  <1>19. obj' = [obj EXCEPT ![p] = r]
    <2>1. obj' = [obj EXCEPT ![p] = NextMap([Reused(o, i, n) EXCEPT !.map[i].pinned = TRUE], i)]
      BY ZenonT(40), <1>5 DEF TakesPin
    <2> QED
      BY <1>13, <1>16, <2>1
  <1>20. PICK g : g = [h EXCEPT ![n] = @ + 2]
    OBVIOUS
  <1>21. g \in CountT /\ g[n] = h[n] + 2 /\ \A k \in Ids : k # n => g[k] = h[k]
    BY <1>20 DEF CountT
  <1>22. PICK e : e = [l EXCEPT ![n] = @ + 1]
    OBVIOUS
  <1>23. e \in CountT /\ e[n] = l[n] + 1 /\ \A k \in Ids : k # n => e[k] = l[k]
    BY <1>22 DEF CountT
  <1>24. FdsOf(r, g, e)
    <2>1. \A k \in Maps : k # i => r.map[k].fd = o.map[k].fd
      BY <1>18
    <2>2. ASSUME NEW k \in Ids  PROVE  g[k] = Held(r, k) + e[k]
      <3>1. Held(r, k) = Held(o, k) + (IF k = n THEN 1 ELSE 0)
        BY <1>8, <1>10, <1>17, <1>18, <2>1, MapHeld
      <3>2. Held(o, k) \in Nat /\ h[k] \in Nat /\ l[k] \in Nat /\ h[k] = Held(o, k) + l[k]
        BY <1>6, HeldOf DEF CountT, FdsOf
      <3>3. CASE k = n
        BY <1>21, <1>23, <3>1, <3>2, <3>3
      <3>4. CASE k # n
        BY <1>21, <1>23, <3>1, <3>2, <3>4
      <3> QED
        BY <3>3, <3>4
    <2> QED
      BY <2>2 DEF FdsOf
  <1>25. NumberedOf(r, e, z)
    <2>1. ASSUME NEW k \in Maps  PROVE  r.map[k].fd < z
      BY <1>5, <1>6, <1>10, <1>18 DEF NumberedOf
    <2>2. ASSUME NEW k \in Ids, k >= z  PROVE  e[k] = 0
      <3>1. k # n
        BY <1>5, <2>2 DEF Ids
      <3> QED
        BY <1>6, <1>23, <2>2, <3>1 DEF NumberedOf
    <2> QED
      BY <1>6, <1>17, <2>1, <2>2 DEF NumberedOf
  <1>26. PinnedOf(r, t, fs)
    <2>1. ASSUME NEW k \in Maps, r.map[k].pinned, k \notin t
          PROVE  r.map[k].fd \in {0, fs[k]} /\ fs[k] # 0
      <3>1. CASE k = i
        BY <1>5, <1>10, <1>18, <3>1
      <3>2. CASE k # i
        BY <1>6, <1>18, <2>1, <3>2 DEF PinnedOf
      <3> QED
        BY <3>1, <3>2
    <2> QED
      BY <2>1 DEF PinnedOf
  <1>27. PinsOf(p, r, t, pinner)
    <2>1. Loading(o) /\ Loading(r) /\ r.pc # "unpin" /\ r.state # "failed"
      BY <1>17 DEF Loading, Making
    <2>2. ASSUME NEW x \in Paths
          PROVE  /\ pinner[x] = p => x \in Maps /\ r.map[x].pinned /\ ~r.map[x].reused
                 /\ x \in Maps /\ r.map[x].pinned /\ ~r.map[x].reused /\ x \notin t => pinner[x] = p
      <3>1. CASE x = i
        BY <1>6, <1>8, <1>10, <1>18, <2>1, <3>1 DEF PinsOf
      <3>2. CASE x # i
        BY <1>6, <1>18, <2>1, <3>2 DEF PinsOf
      <3> QED
        BY <3>1, <3>2
    <2> QED
      BY <2>1, <2>2 DEF PinsOf
  <1>28. Becomes(p, r, g, e) /\ Aside(p)
    <2>1. fds' = [fds EXCEPT ![p][n] = @ + 2] /\ leaked' = [leaked EXCEPT ![p][n] = @ + 1]
      BY ZenonT(40), <1>5 DEF TakesPin
    <2>2. fds' = [fds EXCEPT ![p] = g] /\ leaked' = [leaked EXCEPT ![p] = e]
      BY <1>1, <1>2, <1>20, <1>22, <2>1
    <2>3. Aside(p)
      BY DEF Aside, TakesPin
    <2> QED
      BY <1>19, <2>2, <2>3 DEF Becomes
  <1>29. next' = z /\ z >= next
    <2>1. next' = next
      BY DEF TakesPin
    <2> QED
      BY <1>3, <2>1, Sizes
  <1>30. QED BY <1>3, <1>4, <1>17, <1>21, <1>23, <1>24, <1>25, <1>26, <1>27, <1>28, <1>29, OwnQuiet

\* bpf_object__reuse_map
LEMMA MapGot == ASSUME OInv, NEW p \in Procs, reuse_map(p)  PROVE  OInv'
  <1>1. PICK o \in ObjT : o = obj[p]
    BY OTypes DEF OInv
  <1>2. /\ ObjOK(o) /\ o.pc = "get" /\ o.state = "busy" /\ UNCHANGED <<fs, next, opens, pinner, taken>>
    BY <1>1 DEF OInv, ProcOK, reuse_map, At
  <1>3. PICK i \in Maps : i = o.i
    BY <1>2 DEF ObjOK, Placed
  <1>4. CASE obj' = [obj EXCEPT ![p] = Go(o, "create", i)] /\ UNCHANGED <<fds, leaked>>
    <2>1. PICK j \in Places : j = i
      BY Sizes DEF Places
    <2>2. PICK r : r = Go(o, "create", j)
      OBVIOUS
    <2>3. Goes(o, r, "create", j)
      BY <2>2, GoSet DEF Pcs
    <2>4. r \in ObjT /\ Same(o, r) /\ r.state = "busy" /\ r.pc = "create" /\ ObjOK(r)
      BY <1>2, <1>3, <2>1, <2>3 DEF Goes, Same, ObjOK, Placed, Making, Pinning, NoProgs
    <2>5. Loading(o)
      BY <1>2 DEF Loading, Making
    <2>6. QED BY <1>1, <1>2, <1>4, <2>1, <2>2, <2>4, <2>5, QuietStep
  <1>5. CASE /\ o.map[i].path /\ fs[i] # 0
             /\ obj' = [obj EXCEPT ![p] = NextMap([Reused(o, i, fs[i]) EXCEPT !.map[i].pinned = TRUE], i)]
             /\ fds' = [fds EXCEPT ![p][fs[i]] = @ + 2] /\ leaked' = [leaked EXCEPT ![p][fs[i]] = @ + 1]
    BY <1>1, <1>2, <1>3, <1>5, MapReused DEF TakesPin
  <1>6. CASE obj' = [obj EXCEPT ![p] = Fail(o)] /\ UNCHANGED <<fds, leaked>>
    BY <1>1, <1>2, <1>6, Failing DEF Making
  <1>7. QED BY <1>1, <1>3, <1>4, <1>5, <1>6 DEF reuse_map

\* an object that nothing was done to
New(o) ==
  /\ o \in ObjT /\ o.failed = 0 /\ ~o.stuck /\ NoProgs(o, 1)
  /\ \A i \in Maps : Fresh(o.map[i])

\* objects that were opened or closed are such objects
LEMMA NewOnes ==
  /\ New(Opened) /\ Opened.state = "open"
  /\ New(Closed) /\ Closed.state = "closed"
  <1>1. PICK z \in 0 .. MaxIds : z = 0
    BY Sizes
  <1>2. PICK j \in Places : j = 0
    BY Sizes DEF Places
  <1>3. PICK e \in 0 .. NMaps : e = 0
    BY Sizes
  <1>4. PICK f : f = [i \in Maps |-> NewMap(i)]
    OBVIOUS
  <1>5. ASSUME NEW i \in Maps  PROVE  f[i] \in MapT /\ Fresh(f[i])
    <2>1. PICK b \in BOOLEAN : b = (i \in AutoPin)
      <3>1. (i \in AutoPin) \in BOOLEAN
        OBVIOUS
      <3> QED
        BY <3>1, Zenon
    <2>2. PICK m : m = [fd |-> z, pinned |-> FALSE, reused |-> FALSE, path |-> b]
      OBVIOUS
    <2>3. m \in MapT /\ Fresh(m)
      BY <1>1, <2>2 DEF MapT, Fresh
    <2>4. f[i] = m
      BY <1>1, <1>4, <2>1, <2>2 DEF NewMap
    <2> QED
      BY <2>3, <2>4
  <1>6. f \in [Maps -> MapT]
    BY <1>4, <1>5
  <1>7. PICK g \in [Progs -> 0 .. MaxIds] : g = [k \in Progs |-> z]
    OBVIOUS
  <1>8. PICK r : r = [state |-> "open", pc |-> "", i |-> j, given |-> FALSE, failed |-> e, stuck |-> FALSE,
                      map |-> f, prog |-> g]
    OBVIOUS
  <1>9. r \in ObjT /\ r.state = "open" /\ r.failed = e /\ ~r.stuck /\ r.map = f /\ r.prog = g
    BY <1>6, <1>8 DEF ObjT, Pcs, Places
  <1>10. NoProgs(r, 1)
    BY <1>1, <1>7, <1>9 DEF NoProgs
  <1>11. New(r)
    BY <1>3, <1>5, <1>9, <1>10 DEF New
  <1>12. r = Opened
    BY <1>1, <1>2, <1>3, <1>4, <1>7, <1>8 DEF Opened
  <1>13. PICK s : s = [r EXCEPT !.state = "closed"]
    OBVIOUS
  <1>14. /\ s \in ObjT /\ s.state = "closed" /\ s.failed = r.failed /\ s.stuck = r.stuck /\ s.map = r.map /\ s.prog = r.prog
    BY <1>9, <1>13 DEF ObjT
  <1>15. New(s)
    BY <1>11, <1>14 DEF New, NoProgs
  <1>16. s = Closed
    BY <1>12, <1>13 DEF Closed
  <1>17. QED BY <1>9, <1>11, <1>12, <1>14, <1>15, <1>16

\* they hold nothing
LEMMA NewHeld == ASSUME NEW o, New(o), NEW n \in Ids  PROVE  Held(o, n) = 0
  <1>1. n # 0 /\ (\A i \in Maps : o.map[i].fd = 0) /\ \A j \in Progs : j >= 1
    BY Sizes DEF New, Fresh, Ids
  <1>2. \A j \in Progs : o.prog[j] = 0
    BY <1>1 DEF New, NoProgs
  <1>3. QED BY <1>1, <1>2, NoneHeld DEF New

\* such an object is in order
LEMMA NewOK ==
  ASSUME NEW o, New(o), o.state \in {"open", "closed"}, NEW p, NEW t, NEW f, NEW w, NEW l, NEW n \in 1 .. MaxIds + 1,
         \A k \in Ids : k >= n => l[k] = 0
  PROVE  ObjOK(o) /\ PinnedOf(o, t, f) /\ NumberedOf(o, l, n) /\ PinsOf(p, o, t, w)
  <1>1. (\A i \in Maps : o.map[i].fd = 0 /\ ~o.map[i].pinned) /\ \A j \in Progs : j >= 1
    BY Sizes DEF New, Fresh
  <1>2. \A j \in Progs : o.prog[j] = 0
    BY <1>1 DEF New, NoProgs
  <1>3. 0 < n
    BY Sizes
  <1>4. ObjOK(o) /\ PinnedOf(o, t, f) /\ PinsOf(p, o, t, w)
    BY <1>1 DEF ObjOK, New, PinnedOf, PinsOf, Loading
  <1>5. NumberedOf(o, l, n)
    BY <1>1, <1>2, <1>3 DEF NumberedOf
  <1>6. QED BY <1>4, <1>5

\* bpf_object__open
LEMMA ObjectOpened == ASSUME OInv, NEW p \in Procs, bpf_object__open(p)  PROVE  OInv'
  <1>1. PICK o \in ObjT : o = obj[p]
    BY OTypes DEF OInv
  <1>2. PICK h \in CountT : h = fds[p]
    BY OTypes DEF OInv
  <1>3. PICK l \in CountT : l = leaked[p]
    BY OTypes DEF OInv
  <1>4. PICK r \in ObjT : r = Opened
    BY NewOnes DEF New
  <1>5. New(r) /\ r.state = "open"
    BY <1>4, NewOnes
  <1>6. /\ o.state = "closed" /\ obj' = [obj EXCEPT ![p] = r] /\ opens' = opens + 1 /\ opens < MaxOpens
        /\ UNCHANGED <<fds, fs, next, leaked, pinner, taken>>
    BY <1>1, <1>4 DEF bpf_object__open
  <1>7. /\ ObjOK(o) /\ FdsOf(o, h, l) /\ NumberedOf(o, l, next)
    BY <1>1, <1>2, <1>3 DEF OInv, ProcOK
  <1>8. \A n \in Ids : Held(o, n) = 0
    <2>1. ASSUME NEW n \in Ids  PROVE  Held(o, n) = 0
      <3>1. n # 0 /\ (\A i \in Maps : o.map[i].fd = 0) /\ \A j \in Progs : j >= 1
        BY <1>6, <1>7, Sizes DEF ObjOK, Fresh, Ids
      <3>2. \A j \in Progs : o.prog[j] = 0
        BY <1>6, <1>7, <3>1 DEF ObjOK, NoProgs
      <3> QED
        BY <3>1, <3>2, NoneHeld
    <2> QED
      BY <2>1
  <1>9. FdsOf(r, h, l)
    BY <1>5, <1>7, <1>8, NewHeld DEF FdsOf
  <1>10. /\ fs \in [Paths -> 0 .. MaxIds] /\ next \in 1 .. MaxIds + 1 /\ opens \in 0 .. MaxOpens
         /\ pinner \in [Paths -> Procs \cup {Nobody}] /\ taken \in [Procs -> SUBSET Paths]
         /\ \A x \in Paths : fs[x] < next
    BY OTypes DEF OInv
  <1>11. ObjOK(r) /\ PinnedOf(r, taken[p], fs) /\ NumberedOf(r, l, next) /\ PinsOf(p, r, taken[p], pinner)
    <2>1. (\A k \in Ids : k >= next => l[k] = 0) /\ next \in 1 .. MaxIds + 1 /\ r.state \in {"open", "closed"}
      BY <1>5, <1>7, <1>10 DEF NumberedOf
    <2> QED
      BY ONLY <1>5, <2>1, NewOK
  <1>12. opens' \in 0 .. MaxOpens /\ next >= next
    BY <1>6, <1>10, Sizes
  <1>13. ProcOK(p, r, h, l, taken'[p], fs', pinner', next')
    BY <1>6, <1>9, <1>11 DEF ProcOK
  <1>14. Becomes(p, r, h, l) /\ Touched(p)
    BY <1>2, <1>3, <1>6 DEF Becomes, Touched
  <1>15. QED BY <1>6, <1>10, <1>12, <1>13, <1>14, OwnStep

\* bpf_object__load
LEMMA LoadBegun == ASSUME OInv, NEW p \in Procs, bpf_object__load(p)  PROVE  OInv'
  <1>1. PICK o \in ObjT : o = obj[p]
    BY OTypes DEF OInv
  <1>2. PICK h \in CountT : h = fds[p]
    BY OTypes DEF OInv
  <1>3. PICK l \in CountT : l = leaked[p]
    BY OTypes DEF OInv
  <1>4. PICK t : t = taken[p]
    OBVIOUS
  <1>5. PICK w : w = pinner'
    OBVIOUS
  <1>6. /\ fs \in [Paths -> 0 .. MaxIds] /\ next \in 1 .. MaxIds + 1 /\ opens \in 0 .. MaxOpens
        /\ pinner \in [Paths -> Procs \cup {Nobody}] /\ taken \in [Procs -> SUBSET Paths]
        /\ \A x \in Paths : fs[x] < next
    BY OTypes DEF OInv
  <1>7. /\ o.state = "open" /\ ObjOK(o) /\ FdsOf(o, h, l) /\ NumberedOf(o, l, next)
        /\ UNCHANGED <<fds, fs, next, opens, leaked, taken>>
        /\ w = [x \in Paths |-> IF pinner[x] = p THEN Nobody ELSE pinner[x]]
    BY <1>1, <1>2, <1>3, <1>5 DEF OInv, ProcOK, bpf_object__load
  <1>8. w \in [Paths -> Procs \cup {Nobody}] /\ \A x \in Paths : w[x] # p
    BY <1>6, <1>7, Sizes
  <1>9. (\A i \in Maps : Fresh(o.map[i])) /\ NoProgs(o, 1) /\ o.failed = 0
    BY <1>7 DEF ObjOK
  <1>10. PICK q : q = [o EXCEPT !.state = "busy"]
    OBVIOUS
  <1>11. q \in ObjT /\ q.state = "busy" /\ q.failed = o.failed /\ q.map = o.map /\ q.prog = o.prog
    BY <1>10 DEF ObjT
  <1>12. PICK j \in Places : j = 1
    BY Sizes DEF Places
  <1>13. PICK r : r = Go(q, "get", j)
    OBVIOUS
  <1>14. Goes(q, r, "get", j)
    BY <1>11, <1>13, GoSet DEF Pcs
  <1>15. obj' = [obj EXCEPT ![p] = r]
    BY <1>1, <1>10, <1>12, <1>13 DEF bpf_object__load
  <1>16. /\ r \in ObjT /\ r.state = "busy" /\ r.pc = "get" /\ r.i = 1 /\ r.failed = 0 /\ r.map = o.map /\ r.prog = o.prog
    BY <1>9, <1>11, <1>12, <1>14 DEF Goes
  <1>17. ObjOK(r)
    <2>1. 1 \in Maps /\ \A k \in Maps : ~(k < 1)
      BY Sizes
    <2>2. \A k \in Maps : ~r.map[k].pinned
      BY <1>9, <1>16 DEF Fresh
    <2> QED
      BY <1>9, <1>16, <2>1, <2>2 DEF ObjOK, Placed, Making, Pinning, NoProgs
  <1>18. FdsOf(r, h, l)
    <2>1. Same(o, r)
      BY <1>16 DEF Same
    <2> QED
      BY <1>7, <1>16, <2>1, SameHeld DEF FdsOf
  <1>19. PinnedOf(r, t, fs) /\ NumberedOf(r, l, next) /\ PinsOf(p, r, t, w)
    BY <1>7, <1>8, <1>9, <1>16 DEF PinnedOf, NumberedOf, PinsOf, Fresh
  <1>20. ProcOK(p, r, h, l, taken'[p], fs', pinner', next')
    BY <1>4, <1>5, <1>7, <1>17, <1>18, <1>19 DEF ProcOK
  <1>21. Becomes(p, r, h, l) /\ Touched(p)
    BY <1>2, <1>3, <1>5, <1>7, <1>15 DEF Becomes, Touched
  <1>22. next >= next
    BY <1>6, Sizes
  <1>23. QED BY <1>5, <1>6, <1>7, <1>8, <1>16, <1>20, <1>21, <1>22, OwnStep

\* a loaded object, or one that was not, is freed
LEMMA ObjectClosed == ASSUME OInv, NEW p \in Procs, bpf_object__close(p)  PROVE  OInv'
  <1>1. PICK o \in ObjT : o = obj[p]
    BY OTypes DEF OInv
  <1>2. PICK h \in CountT : h = fds[p]
    BY OTypes DEF OInv
  <1>3. PICK l \in CountT : l = leaked[p]
    BY OTypes DEF OInv
  <1>4. PICK r \in ObjT : r = Closed
    BY NewOnes DEF New
  <1>5. New(r) /\ r.state = "closed"
    BY <1>4, NewOnes
  <1>6. /\ fs \in [Paths -> 0 .. MaxIds] /\ next \in 1 .. MaxIds + 1 /\ opens \in 0 .. MaxOpens
        /\ pinner \in [Paths -> Procs \cup {Nobody}] /\ taken \in [Procs -> SUBSET Paths]
        /\ \A x \in Paths : fs[x] < next
    BY OTypes DEF OInv
  <1>7. /\ obj' = [obj EXCEPT ![p] = r] /\ fds' = Without(p, o, Maps, Progs) /\ taken' = [taken EXCEPT ![p] = {}]
        /\ UNCHANGED <<fs, next, opens, leaked, pinner>>
    BY <1>1, <1>4 DEF bpf_object__close
  <1>8. FdsOf(o, h, l) /\ NumberedOf(o, l, next)
    BY <1>1, <1>2, <1>3 DEF OInv, ProcOK
  <1>9. Lost(o, r, Maps, Progs)
    <2>1. \A j \in Progs : j >= 1
      BY Sizes
    <2> QED
      BY <1>5, <2>1 DEF Lost, New, Fresh, NoProgs
  <1>10. PICK g \in CountT : FdsOf(r, g, l) /\ Without(p, o, Maps, Progs) = [fds EXCEPT ![p] = g]
    <2>1. Maps \in SUBSET Maps /\ Progs \in SUBSET Progs
      OBVIOUS
    <2> QED
      BY ONLY p \in Procs, o \in ObjT, h \in CountT, l \in CountT, r \in ObjT, <1>2, <1>8, <1>9, <2>1, ClosedOnes
  <1>11. ObjOK(r) /\ PinnedOf(r, taken'[p], fs) /\ NumberedOf(r, l, next) /\ PinsOf(p, r, taken'[p], pinner)
    BY ZenonT(40), <1>5, <1>6, <1>8, NewOK DEF NumberedOf
  <1>12. ProcOK(p, r, g, l, taken'[p], fs', pinner', next')
    BY <1>7, <1>10, <1>11 DEF ProcOK
  <1>13. Becomes(p, r, g, l) /\ Touched(p) /\ taken' \in [Procs -> SUBSET Paths]
    BY <1>3, <1>6, <1>7, <1>10 DEF Becomes, Touched
  <1>14. next >= next
    BY <1>6, Sizes
  <1>15. QED BY <1>6, <1>7, <1>12, <1>13, <1>14, OwnStep

\* the process ends
LEMMA Exited == ASSUME OInv, NEW p \in Procs, Exit(p)  PROVE  OInv'
  <1>1. PICK z \in CountT : z = [n \in Ids |-> 0]
    BY DEF CountT
  <1>2. PICK r \in ObjT : r = Closed
    BY NewOnes DEF New
  <1>3. New(r) /\ r.state = "closed"
    BY <1>2, NewOnes
  <1>4. /\ fs \in [Paths -> 0 .. MaxIds] /\ next \in 1 .. MaxIds + 1 /\ opens \in 0 .. MaxOpens
        /\ pinner \in [Paths -> Procs \cup {Nobody}] /\ taken \in [Procs -> SUBSET Paths]
        /\ \A x \in Paths : fs[x] < next
    BY OTypes DEF OInv
  <1>5. /\ obj' = [obj EXCEPT ![p] = r] /\ fds' = [fds EXCEPT ![p] = z] /\ leaked' = [leaked EXCEPT ![p] = z]
        /\ taken' = [taken EXCEPT ![p] = {}] /\ UNCHANGED <<fs, next, opens, pinner>>
    BY <1>1, <1>2 DEF Exit
  <1>6. FdsOf(r, z, z)
    BY <1>1, <1>3, NewHeld DEF FdsOf
  <1>7. ObjOK(r) /\ PinnedOf(r, taken'[p], fs) /\ NumberedOf(r, z, next) /\ PinsOf(p, r, taken'[p], pinner)
    BY <1>1, <1>3, <1>4, NewOK
  <1>8. ProcOK(p, r, z, z, taken'[p], fs', pinner', next')
    BY <1>5, <1>6, <1>7 DEF ProcOK
  <1>9. Becomes(p, r, z, z) /\ Touched(p) /\ taken' \in [Procs -> SUBSET Paths]
    BY <1>4, <1>5 DEF Becomes, Touched
  <1>10. next >= next
    BY <1>4, Sizes
  <1>11. QED BY <1>4, <1>5, <1>8, <1>9, <1>10, OwnStep

\* an object that is unloaded
Unloaded(o) == Go([Zclosed(o, Maps) EXCEPT !.prog = [j \in Progs |-> 0], !.state = "failed"], "", 0)

\* the end of a load that failed
LEMMA LoadFailed ==
  ASSUME OInv, NEW p \in Procs, NEW o \in ObjT, o = obj[p], o.state = "busy", o.pc = "unpin", o.i > NMaps,
         obj' = [obj EXCEPT ![p] = Unloaded(o)],
         fds' = Without(p, o, Maps, Progs), UNCHANGED <<fs, next, opens, leaked, pinner, taken>>
  PROVE  OInv'
  <1>1. PICK h \in CountT : h = fds[p]
    BY OTypes DEF OInv
  <1>2. PICK l \in CountT : l = leaked[p]
    BY OTypes DEF OInv
  <1>3. PICK n \in 1 .. MaxIds + 1 : n = next
    BY OTypes DEF OInv
  <1>4. PICK t : t = taken[p]
    OBVIOUS
  <1>5. /\ FdsOf(o, h, l) /\ NumberedOf(o, l, n) /\ PinsOf(p, o, t, pinner)
        /\ \A k \in Maps : o.map[k].pinned => o.map[k].path
    BY <1>1, <1>2, <1>3, <1>4 DEF OInv, ProcOK, ObjOK
  <1>6. PICK q : q = Zclosed(o, Maps)
    OBVIOUS
  <1>7. /\ q \in ObjT /\ q.stuck = o.stuck /\ q.prog = o.prog /\ Lost(o, q, Maps, {})
        /\ \A k \in Maps : q.map[k].pinned = o.map[k].pinned /\ q.map[k].path = o.map[k].path
    <2>1. Maps \in SUBSET Maps
      OBVIOUS
    <2> QED
      BY <1>6, <2>1, ZclosedSet
  <1>8. PICK z \in 0 .. MaxIds : z = 0
    BY Sizes
  <1>9. PICK g \in [Progs -> 0 .. MaxIds] : g = [j \in Progs |-> z]
    OBVIOUS
  <1>10. PICK u : u = [q EXCEPT !.prog = g, !.state = "failed"]
    OBVIOUS
  <1>11. u \in ObjT /\ u.state = "failed" /\ u.stuck = o.stuck /\ u.map = q.map /\ u.prog = g
    BY <1>7, <1>10 DEF ObjT
  <1>12. PICK j \in Places : j = 0
    BY Sizes DEF Places
  <1>13. PICK r : r = Go(u, "", j)
    OBVIOUS
  <1>14. Goes(u, r, "", j)
    BY <1>11, <1>13, GoSet DEF Pcs
  <1>15. obj' = [obj EXCEPT ![p] = r]
    BY <1>6, <1>8, <1>9, <1>10, <1>12, <1>13 DEF Unloaded
  <1>16. r \in ObjT /\ r.state = "failed" /\ r.stuck = o.stuck /\ r.map = q.map /\ r.prog = g
    BY <1>11, <1>14 DEF Goes
  <1>17. (\A k \in Maps : r.map[k].fd = 0) /\ \A k \in Progs : r.prog[k] = 0
    BY <1>7, <1>8, <1>9, <1>16 DEF Lost
  <1>18. Lost(o, r, Maps, Progs)
    BY <1>17 DEF Lost
  <1>19. PICK f \in CountT : FdsOf(r, f, l) /\ Without(p, o, Maps, Progs) = [fds EXCEPT ![p] = f]
    <2>1. Maps \in SUBSET Maps /\ Progs \in SUBSET Progs
      OBVIOUS
    <2>2. FdsOf(o, h, l) /\ r \in ObjT
      BY <1>5, <1>16
    <2> QED
      BY ONLY p \in Procs, o \in ObjT, h \in CountT, l \in CountT, <1>1, <1>18, <2>1, <2>2, ClosedOnes
  <1>20. ObjOK(r)
    BY <1>5, <1>7, <1>16 DEF ObjOK
  <1>21. PinnedOf(r, t, fs)
    BY <1>16 DEF PinnedOf
  <1>22. NumberedOf(r, l, n)
    <2>1. 0 < n
      BY Sizes
    <2> QED
      BY <1>5, <1>17, <2>1 DEF NumberedOf
  <1>23. PinsOf(p, r, t, pinner)
    <2>1. Loading(o)
      BY DEF Loading
    <2>2. ASSUME ~o.stuck, NEW x \in Paths, pinner[x] = p  PROVE  FALSE
      <3>1. x \in Maps /\ o.i <= x
        BY <1>5, <2>1, <2>2 DEF PinsOf
      <3>2. o.i \in Int
        BY DEF ObjT
      <3> QED
        BY <3>1, <3>2, Sizes
    <2> QED
      BY <1>16, <2>2 DEF PinsOf, Loading
  <1>24. Becomes(p, r, f, l) /\ Aside(p)
    BY <1>2, <1>15, <1>19 DEF Becomes, Aside
  <1>25. next' = n /\ n >= next
    BY <1>3, Sizes
  <1>26. QED BY <1>3, <1>4, <1>16, <1>19, <1>20, <1>21, <1>22, <1>23, <1>24, <1>25, OwnQuiet

\* a step of the unwinding
LEMMA LoadUnwound == ASSUME OInv, NEW p \in Procs, load_unwind(p)  PROVE  OInv'
  <1>1. PICK o \in ObjT : o = obj[p]
    BY OTypes DEF OInv
  <1>2. /\ ObjOK(o) /\ o.pc = "unpin" /\ o.state = "busy" /\ UNCHANGED <<next, opens, leaked>>
    BY <1>1 DEF OInv, ProcOK, load_unwind, At
  <1>3. CASE /\ o.i <= NMaps
             /\ \/ /\ ToUnpin(o.map[o.i])
                   /\ Unlink(p, o.i, [Unpinned(o, o.i) EXCEPT !.i = o.i + 1], [o EXCEPT !.stuck = TRUE, !.i = o.i + 1])
                \/ /\ ~ToUnpin(o.map[o.i]) /\ obj' = [obj EXCEPT ![p].i = o.i + 1] /\ UNCHANGED <<fs, pinner, taken>>
             /\ UNCHANGED fds
    <2>1. PICK i \in Maps : i = o.i
      <3>1. o.i \in 1 .. NMaps + 1
        BY <1>2 DEF ObjOK, Placed
      <3> QED
        BY <1>3, <3>1, Sizes
    <2>2. QED BY <1>1, <1>2, <1>3, <2>1, Unwinding
  <1>4. CASE /\ o.i > NMaps /\ obj' = [obj EXCEPT ![p] = Unloaded(o)]
             /\ fds' = Without(p, o, Maps, Progs) /\ UNCHANGED <<fs, pinner, taken>>
    BY <1>1, <1>2, <1>4, LoadFailed
  <1>5. QED BY <1>1, <1>3, <1>4 DEF load_unwind, Unloaded

\* the invariant at the start
LEMMA OStart == Init => OInv
  <1> SUFFICES ASSUME Init PROVE OInv
    OBVIOUS
  <1>1. PICK z \in CountT : z = [n \in Ids |-> 0]
    BY DEF CountT
  <1>2. PICK r \in ObjT : r = Closed
    BY NewOnes DEF New
  <1>3. New(r) /\ r.state = "closed"
    BY <1>2, NewOnes
  <1>4. TypeOK
    <2>1. obj \in [Procs -> ObjT] /\ fds \in [Procs -> CountT] /\ leaked \in [Procs -> CountT]
      BY <1>1, <1>2 DEF Init
    <2>2. /\ fs \in [Paths -> 0 .. MaxIds] /\ next \in 1 .. MaxIds + 1 /\ opens \in 0 .. MaxOpens
          /\ pinner \in [Paths -> Procs \cup {Nobody}] /\ taken \in [Procs -> SUBSET Paths]
      BY Sizes DEF Init
    <2> QED
      BY <2>1, <2>2, OTypes
  <1>5. ASSUME NEW p \in Procs
        PROVE  ProcOK(p, obj[p], fds[p], leaked[p], taken[p], fs, pinner, next)
    <2>1. obj[p] = r /\ fds[p] = z /\ leaked[p] = z /\ next \in 1 .. MaxIds + 1
      BY <1>1, <1>2, Sizes DEF Init
    <2>2. FdsOf(r, z, z)
      BY <1>1, <1>3, NewHeld DEF FdsOf
    <2>3. ObjOK(r) /\ PinnedOf(r, taken[p], fs) /\ NumberedOf(r, z, next) /\ PinsOf(p, r, taken[p], pinner)
      BY <1>1, <1>3, <2>1, NewOK
    <2> QED
      BY <2>1, <2>2, <2>3 DEF ProcOK
  <1>6. \A x \in Paths : fs[x] < next
    BY DEF Init
  <1>7. QED BY <1>4, <1>5, <1>6 DEF OInv

\* and over every step
LEMMA OStep == OInv /\ [Next]_vars => OInv'
  <1> SUFFICES ASSUME OInv, [Next]_vars PROVE OInv'
    OBVIOUS
  <1>1. CASE UNCHANGED vars
    <2>1. /\ obj' = obj /\ fds' = fds /\ fs' = fs /\ next' = next /\ opens' = opens /\ leaked' = leaked
          /\ pinner' = pinner /\ taken' = taken
      BY <1>1 DEF vars
    <2>2. TypeOK'
      BY <2>1, OTypes DEF OInv
    <2> QED
      BY <2>1, <2>2 DEF OInv
  <1>2. ASSUME NEW p \in Procs, Step(p)  PROVE  OInv'
    <2>1. CASE reuse_map(p)
      BY <2>1, MapGot
    <2>2. CASE create_map(p)
      BY <2>2, MapMade
    <2>3. CASE populate_internal_map(p)
      BY <2>3, MapPopulated
    <2>4. CASE autopin_map(p)
      BY <2>4, AutoPinned
    <2>5. CASE relocate(p)
      BY <2>5, Relocated
    <2>6. CASE load_prog(p)
      BY <2>6, ProgLoaded
    <2>7. CASE load_unwind(p)
      BY <2>7, LoadUnwound
    <2>8. CASE pin_map(p)
      BY <2>8, MapPinned
    <2>9. CASE pin_maps_rollback(p)
      BY <2>9, RolledBack
    <2>10. CASE unpin_map(p)
      BY <2>10, MapUnpinned
    <2>11. CASE pin_prog(p)
      BY <2>11, ProgPinned
    <2>12. CASE pin_progs_rollback(p)
      BY <2>12, ProgsRolledBack
    <2>13. CASE unpin_prog(p)
      BY <2>13, ProgUnpinned
    <2>14. QED
      BY <1>2, <2>1, <2>2, <2>3, <2>4, <2>5, <2>6, <2>7, <2>8, <2>9, <2>10, <2>11, <2>12, <2>13 DEF Step
  <1>3. ASSUME NEW p \in Procs, bpf_object__open(p)  PROVE  OInv'
    BY <1>3, ObjectOpened
  <1>4. ASSUME NEW p \in Procs, bpf_object__load(p)  PROVE  OInv'
    BY <1>4, LoadBegun
  <1>5. ASSUME NEW p \in Procs, bpf_object__close(p)  PROVE  OInv'
    BY <1>5, ObjectClosed
  <1>6. ASSUME NEW p \in Procs, Exit(p)  PROVE  OInv'
    BY <1>6, Exited
  <1>7. ASSUME NEW p \in Procs, PinCall(p)  PROVE  OInv'
    BY <1>7, PinCalled
  <1>8. QED BY <1>1, <1>2, <1>3, <1>4, <1>5, <1>6, <1>7 DEF Next

-----------------------------------------------------------------------------
\* only the process that takes a step has another object after it
LEMMA OnlyOwn ==
  ASSUME TypeOK, NEW q \in Procs,
         Step(q) \/ bpf_object__open(q) \/ bpf_object__load(q) \/ bpf_object__close(q) \/ Exit(q) \/ PinCall(q)
  PROVE  \A p \in Procs : obj'[p] # obj[p] => p = q
  <1>1. \E r : obj' = [obj EXCEPT ![q] = r]
    <2>1. ASSUME bpf_object__open(q) \/ bpf_object__load(q) \/ bpf_object__close(q) \/ Exit(q) \/ PinCall(q)
          PROVE  \E r : obj' = [obj EXCEPT ![q] = r]
      BY <2>1 DEF bpf_object__open, bpf_object__load, bpf_object__close, Exit, PinCall, Begin
    <2>2. ASSUME NEW x, NEW done, NEW undone, Unlink(q, x, done, undone)
          PROVE  \E r : obj' = [obj EXCEPT ![q] = r]
      BY <2>2 DEF Unlink
    <2>3. ASSUME load_unwind(q) \/ pin_maps_rollback(q) \/ unpin_map(q) \/ pin_progs_rollback(q) \/ unpin_prog(q)
          PROVE  \E r : obj' = [obj EXCEPT ![q] = r]
      BY <2>2, <2>3 DEF load_unwind, pin_maps_rollback, unpin_map, pin_progs_rollback, unpin_prog, bpf_program__unpin
    <2>4. ASSUME reuse_map(q) \/ create_map(q) \/ populate_internal_map(q) \/ autopin_map(q) \/ relocate(q)
          PROVE  \E r : obj' = [obj EXCEPT ![q] = r]
      BY <2>4 DEF reuse_map, create_map, populate_internal_map, autopin_map, relocate
    <2>5. ASSUME load_prog(q) \/ pin_map(q) \/ pin_prog(q)
          PROVE  \E r : obj' = [obj EXCEPT ![q] = r]
      BY <2>5 DEF load_prog, pin_map, pin_prog
    <2> QED
      BY <2>1, <2>3, <2>4, <2>5 DEF Step
  <1>2. obj \in [Procs -> ObjT]
    BY OTypes
  <1>3. QED BY <1>1, <1>2

\* what the unwinding of a load unlinks is its own
LEMMA OthersPinsKept ==
  ASSUME OInv, [Next]_vars, NEW p \in Procs, NEW x \in Maps,
         At(p, "unpin"), fs[x] # 0, fs'[x] = 0, obj'[p] # obj[p], x \notin taken[p]
  PROVE  pinner[x] = p
  <1>1. PICK o \in ObjT : o = obj[p]
    BY OTypes DEF OInv
  <1>2. o.state = "busy" /\ o.pc = "unpin" /\ Loading(o) /\ PinsOf(p, o, taken[p], pinner)
    BY <1>1 DEF At, OInv, ProcOK, Loading
  <1>3. obj' # obj /\ TypeOK
    BY DEF OInv
  <1>4. Step(p) \/ bpf_object__open(p) \/ bpf_object__load(p) \/ bpf_object__close(p) \/ Exit(p) \/ PinCall(p)
    BY <1>3, OnlyOwn DEF Next, vars
  <1>5. fs' # fs
    OBVIOUS
  <1>6. ~bpf_object__open(p) /\ ~bpf_object__load(p) /\ ~bpf_object__close(p) /\ ~Exit(p) /\ ~PinCall(p)
    BY <1>5 DEF bpf_object__open, bpf_object__load, bpf_object__close, Exit, PinCall, Begin
  <1>7. load_unwind(p)
    <2>1. ~reuse_map(p) /\ ~create_map(p) /\ ~populate_internal_map(p) /\ ~relocate(p) /\ ~load_prog(p)
      BY <1>5 DEF reuse_map, create_map, populate_internal_map, relocate, load_prog
    <2>2. ASSUME NEW pc, At(p, pc)  PROVE  pc = "unpin"
      BY <1>1, <1>2, <2>2 DEF At
    <2>3. /\ ~autopin_map(p) /\ ~pin_map(p) /\ ~pin_maps_rollback(p) /\ ~unpin_map(p) /\ ~pin_prog(p)
          /\ ~pin_progs_rollback(p) /\ ~unpin_prog(p)
      <3>1. /\ ~At(p, "autopin") /\ ~At(p, "pinmaps") /\ ~At(p, "rollback") /\ ~At(p, "unpinmaps") /\ ~At(p, "pinprogs")
            /\ ~At(p, "rollprogs") /\ ~At(p, "unpinprogs")
        BY <2>2
      <3> QED
        BY <3>1 DEF autopin_map, pin_map, pin_maps_rollback, unpin_map, pin_prog, pin_progs_rollback, unpin_prog
    <2> QED
      BY <1>4, <1>6, <2>1, <2>3 DEF Step
  <1>8. ToUnpin(o.map[o.i]) /\ fs' = [fs EXCEPT ![o.i] = 0]
    BY <1>1, <1>5, <1>7 DEF load_unwind, Unlink
  <1>9. x = o.i
    <2>1. fs \in [Paths -> 0 .. MaxIds] /\ x \in Paths
      BY OTypes, Sizes DEF OInv
    <2> QED
      BY <1>8, <2>1
  <1>10. x \in Paths
    BY Sizes
  <1>11. QED BY <1>2, <1>8, <1>9, <1>10 DEF PinsOf, ToUnpin

-----------------------------------------------------------------------------
\* the invariant always holds
LEMMA OInductive == Spec => []OInv
  BY OStart, OStep, PTL DEF Spec

(* The types of struct bpf_object, its maps and the kernel's side, whatever *)
(* the processes, maps, programs and bounds.                               *)
THEOREM ObjectTypes == Spec => []TypeOK
  <1>1. OInv => TypeOK
    BY DEF OInv
  <1>2. QED BY <1>1, OInductive, PTL

(* bpf_object__load_xattr, bpf_object__create_maps, bpf_object__close: on   *)
(* every way through a load and out of it, each descriptor of a process is *)
(* of one map or program of its object, or is the second of a reused pin.  *)
THEOREM DescriptorsAccounted == Spec => []FdsAccounted
  <1>1. OInv => FdsAccounted
    BY DEF OInv, ProcOK, FdsOf, FdsAccounted
  <1>2. QED BY <1>1, OInductive, PTL

(* bpf_object__create_maps, bpf_map__pin, bpf_map__unpin: a map that counts *)
(* as pinned is what its path leads to, unless another process has         *)
(* unlinked it, whatever the processes do between two system calls.        *)
THEOREM PinsThere == Spec => []PinnedIsThere
  <1>1. OInv => PinnedIsThere
    BY DEF OInv, ProcOK, PinnedOf, PinnedIsThere
  <1>2. QED BY <1>1, OInductive, PTL

(* bpf_object__load_xattr, bpf_object__pin_maps: a failure undoes the pins  *)
(* that the call has made and those alone, or an unlink has failed.        *)
THEOREM FailuresUndone == Spec => FailuresUndoPins
  <1>1. OInv => FailedLoadLeavesNoPin
    BY DEF OInv, ProcOK, PinsOf, FailedLoadLeavesNoPin
  <1>2. OInv => PinMapsAllOrNone
    <2> SUFFICES ASSUME OInv, NEW p \in Procs, obj[p].state = "loaded", obj[p].failed # 0, ~obj[p].stuck,
                        NEW i \in 1 .. obj[p].failed - 1
                 PROVE  ~obj[p].map[i].pinned
      BY DEF PinMapsAllOrNone
    <2>1. PICK o \in ObjT : o = obj[p]
      BY OTypes DEF OInv
    <2>2. o.failed \in 0 .. NMaps
      BY <2>1 DEF ObjT
    <2>3. i \in Maps /\ i < o.failed
      BY <2>1, <2>2, Sizes
    <2>4. ObjOK(o)
      BY <2>1 DEF OInv, ProcOK
    <2> QED
      BY <2>1, <2>3, <2>4 DEF ObjOK
  <1>3. OInv /\ [Next]_vars =>
          [\A p \in Procs, x \in Maps :
             At(p, "unpin") /\ fs[x] # 0 /\ fs'[x] = 0 /\ obj'[p] # obj[p] /\ x \notin taken[p] => pinner[x] = p]_vars
    BY OthersPinsKept
  <1>4. Spec => [](FailedLoadLeavesNoPin /\ PinMapsAllOrNone)
    BY <1>1, <1>2, OInductive, PTL
  <1>5. Spec => FailedLoadKeepsOthersPins
    BY <1>3, OInductive, PTL DEF Spec, FailedLoadKeepsOthersPins
  <1>6. QED BY <1>4, <1>5, PTL DEF FailuresUndoPins
-----------------------------------------------------------------------------
(* The hash table.  First induction and recursion, for the recursive       *)
(* functions that its growth is written with.                              *)

(* Every set of numbers has a least one.                                   *)
LEMMA LeastOf ==
  ASSUME NEW T \in SUBSET Nat, T # {}
  PROVE \E m \in T : \A n \in T : m <= n
<1> DEFINE U == {0 .. n : n \in T}
<1>1. U \subseteq FiniteSubsetsOf(Nat) /\ U # {}
  <2>1. \A n \in T : IsFiniteSet(0 .. n) /\ 0 .. n \in SUBSET Nat
    BY FS_Interval
  <2> QED
    BY <2>1 DEF FiniteSubsetsOf
<1>2. PICK S \in U : \A R \in U : ~ (<<R, S>> \in StrictSubsetOrdering(Nat))
  <2> HIDE DEF U
  <2> QED
    BY <1>1, FS_StrictSubsetOrderingWellFounded, WFMin
<1>3. PICK m \in T : S = 0 .. m
  BY <1>2
<1>4. ASSUME NEW n \in T, ~ (m <= n) PROVE FALSE
  <2>1. 0 .. n \in U /\ 0 .. n \subseteq 0 .. m /\ m \notin 0 .. n /\ m \in 0 .. m
    BY <1>4
  <2>2. 0 .. n # 0 .. m
    BY <2>1
  <2>3. 0 .. n \in SUBSET Nat /\ 0 .. m \in SUBSET Nat
    OBVIOUS
  <2> QED
    BY <2>1, <2>2, <2>3, <1>2, <1>3 DEF StrictSubsetOrdering
<1> QED
  BY <1>4

(* What holds of 0, and of every number after one it holds of, holds.      *)
LEMMA UpTo ==
  ASSUME NEW N \in Nat, NEW T, 0 \in T, \A n \in 1 .. N : n - 1 \in T => n \in T
  PROVE  \A n \in 0 .. N : n \in T
<1> DEFINE Rest == {n \in 0 .. N : n \notin T}
<1> SUFFICES ASSUME Rest # {} PROVE FALSE
  OBVIOUS
<1>1. Rest \in SUBSET Nat
  OBVIOUS
<1>2. PICK m \in Rest : \A n \in Rest : m <= n
  <2> HIDE DEF Rest
  <2> QED
    BY <1>1, LeastOf
<1>3. m \in 1 .. N /\ m \notin T
  BY <1>2
<1>4. m - 1 \in 0 .. N /\ m - 1 < m
  BY <1>3
<1> QED
  BY <1>2, <1>3, <1>4

\* f starts with base and takes a step at every i
Recurses(f, N, S, base, step) ==
  f \in [0 .. N -> S] /\ f[0] = base /\ \A i \in 1 .. N : f[i] = step[i][f[i - 1]]

(* There is such a function.                                               *)
LEMMA Recursion ==
  ASSUME NEW N \in Nat, NEW S, NEW base \in S, NEW step \in [1 .. N -> [S -> S]]
  PROVE  \E f : Recurses(f, N, S, base, step)
<1> DEFINE Good(n, f) == f \in [0 .. n -> S] /\ f[0] = base /\ \A i \in 1 .. n : f[i] = step[i][f[i - 1]]
           T == {n \in 0 .. N : \E f : Good(n, f)}
<1>1. 0 \in T
  <2>1. Good(0, [i \in 0 .. 0 |-> base])
    OBVIOUS
  <2> HIDE DEF Good
  <2> QED
    BY <2>1
<1>2. ASSUME NEW n \in 1 .. N, n - 1 \in T PROVE n \in T
  <2>1. PICK f : Good(n - 1, f)
    BY <1>2
  <2> DEFINE g == [i \in 0 .. n |-> IF i = n THEN step[n][f[n - 1]] ELSE f[i]]
  <2>2. n - 1 \in 0 .. n - 1 /\ f[n - 1] \in S
    BY <2>1
  <2>3. g \in [0 .. n -> S]
    <3>1. \A i \in 0 .. n : i # n => i \in 0 .. n - 1
      OBVIOUS
    <3>2. step[n][f[n - 1]] \in S
      BY <2>2
    <3>3. \A i \in 0 .. n : g[i] \in S
      BY <2>1, <3>1, <3>2
    <3> QED
      BY <3>3
  <2>4. g[0] = base
    BY <2>1
  <2>5. \A i \in 1 .. n : g[i] = step[i][g[i - 1]]
    <3> TAKE i \in 1 .. n
    <3>1. i - 1 \in 0 .. n - 1 /\ i - 1 # n /\ i - 1 \in 0 .. n /\ i \in 0 .. n
      OBVIOUS
    <3>2. g[i - 1] = f[i - 1]
      BY <3>1
    <3>3. CASE i = n
      BY <3>1, <3>2, <3>3
    <3>4. CASE i # n
      <4>1. i \in 1 .. n - 1
        BY <3>4
      <4> QED
        BY <2>1, <3>1, <3>2, <3>4, <4>1
    <3> QED
      BY <3>3, <3>4
  <2> HIDE DEF g
  <2>6. Good(n, g)
    BY <2>3, <2>4, <2>5
  <2> QED
    BY <2>6
<1> HIDE DEF T
<1>3. \A n \in 1 .. N : n - 1 \in T => n \in T
  BY <1>2
<1>4. \A n \in 0 .. N : n \in T
  BY <1>1, <1>3, UpTo
<1> QED
  BY <1>4 DEF T, Recurses

-----------------------------------------------------------------------------
(* Powers of two.                                                          *)

LEMMA Pow2Is ==
  /\ Pow2 \in [0 .. W -> Nat]
  /\ \A n \in 0 .. W : Pow2[n] = IF n = 0 THEN 1 ELSE 2 * Pow2[n - 1]
<1> DEFINE step == [i \in 1 .. W |-> [x \in Nat |-> 2 * x]]
           Powers(f) == f = [n \in 0 .. W |-> IF n = 0 THEN 1 ELSE 2 * f[n - 1]]
<1>1. W \in Nat
  BY HashmapAssumption
<1>2. step \in [1 .. W -> [Nat -> Nat]] /\ 1 \in Nat
  OBVIOUS
<1>3. \A i \in 1 .. W, x \in Nat : step[i][x] = 2 * x
  OBVIOUS
<1> HIDE DEF step
<1>4. PICK f : Recurses(f, W, Nat, 1, step)
  BY <1>1, <1>2, Recursion
<1>5. \A n \in 0 .. W : f[n] = IF n = 0 THEN 1 ELSE 2 * f[n - 1]
  <2> TAKE n \in 0 .. W
  <2>1. CASE n # 0
    <3>1. n \in 1 .. W /\ n - 1 \in 0 .. W
      BY <1>1, <2>1
    <3> QED
      BY <1>3, <1>4, <2>1, <3>1 DEF Recurses
  <2> QED
    BY <1>4, <2>1 DEF Recurses
<1>6. Powers(f)
  <2>1. f = [n \in 0 .. W |-> f[n]]
    BY <1>4 DEF Recurses
  <2> QED
    BY <1>5, <2>1
<1>7. Powers(Pow2)
  <2>1. Powers(CHOOSE g : Powers(g))
    BY <1>6
  <2> QED
    BY <2>1 DEF Pow2
<1>8. Pow2[0] = 1 /\ \A i \in 1 .. W : Pow2[i] = 2 * Pow2[i - 1]
  <2>1. 0 \in 0 .. W /\ \A i \in 1 .. W : i \in 0 .. W /\ i # 0
    BY <1>1
  <2> QED
    BY <1>7, <2>1
<1> DEFINE T == {n \in 0 .. W : Pow2[n] \in Nat}
<1>9. 0 \in T /\ \A n \in 1 .. W : n - 1 \in T => n \in T
  BY <1>1, <1>8
<1>10. \A n \in 0 .. W : n \in T
  <2> HIDE DEF T
  <2> QED
    BY <1>1, <1>9, UpTo
<1>11. \A n \in 0 .. W : Pow2[n] = IF n = 0 THEN 1 ELSE 2 * Pow2[n - 1]
  BY <1>7
<1>12. Pow2 \in [0 .. W -> Nat]
  <2>1. Pow2 = [n \in 0 .. W |-> Pow2[n]]
    BY <1>7
  <2> QED
    BY <1>10, <2>1
<1> QED
  BY <1>11, <1>12

LEMMA Pow2Positive == \A n \in 0 .. W : Pow2[n] \in Nat /\ Pow2[n] > 0
<1> DEFINE T == {n \in 0 .. W : Pow2[n] > 0}
<1>1. W \in Nat
  BY HashmapAssumption
<1>2. 0 \in T
  BY <1>1, Pow2Is
<1>3. \A n \in 1 .. W : n - 1 \in T => n \in T
  <2> TAKE n \in 1 .. W
  <2>1. n \in 0 .. W /\ n - 1 \in 0 .. W /\ Pow2[n] = 2 * Pow2[n - 1] /\ Pow2[n - 1] \in Nat
    BY <1>1, Pow2Is
  <2> QED
    BY <2>1
<1>4. \A n \in 0 .. W : n \in T
  <2> HIDE DEF T
  <2> QED
    BY <1>1, <1>2, <1>3, UpTo
<1> QED
  BY <1>4, Pow2Is

LEMMA DoubleOne == \A x, y \in Nat : (2 * x) * y = x * (2 * y)
  OBVIOUS

(* Hashes are as many as buckets times hashes in one bucket.               *)
LEMMA Pow2Splits == \A b \in 0 .. W : Pow2[W] = Pow2[b] * Pow2[W - b]
<1> DEFINE T == {b \in 0 .. W : Pow2[W] = Pow2[b] * Pow2[W - b]}
<1>1. W \in Nat
  BY HashmapAssumption
<1>2. 0 \in T
  <2>1. Pow2[0] = 1 /\ W - 0 = W /\ Pow2[W] \in Nat /\ 0 \in 0 .. W
    BY <1>1, Pow2Is
  <2> QED
    BY <2>1
<1>3. \A b \in 1 .. W : b - 1 \in T => b \in T
  <2> TAKE b \in 1 .. W
  <2> HAVE b - 1 \in T
  <2>1. /\ b - 1 \in 0 .. W /\ b \in 0 .. W /\ W - b \in 0 .. W /\ W - (b - 1) \in 0 .. W
        /\ W - (b - 1) # 0 /\ (W - (b - 1)) - 1 = W - b /\ b # 0
    BY <1>1
  <2>2. Pow2[b] = 2 * Pow2[b - 1] /\ Pow2[W - (b - 1)] = 2 * Pow2[W - b]
    BY <2>1, Pow2Is
  <2>3. Pow2[b - 1] \in Nat /\ Pow2[W - b] \in Nat
    BY <2>1, Pow2Is
  <2>4. Pow2[W] = Pow2[b - 1] * Pow2[W - (b - 1)]
    OBVIOUS
  <2>5. (2 * Pow2[b - 1]) * Pow2[W - b] = Pow2[b - 1] * (2 * Pow2[W - b])
    BY <2>3, DoubleOne
  <2> QED
    BY <2>1, <2>2, <2>4, <2>5
<1>4. \A b \in 0 .. W : b \in T
  <2> HIDE DEF T
  <2> QED
    BY <1>1, <1>2, <1>3, UpTo
<1> QED
  BY <1>4

LEMMA Quotient ==
  ASSUME NEW h \in Nat, NEW n \in Nat, NEW d \in Nat, d > 0, h < n * d
  PROVE  h \div d \in 0 .. n - 1
<1>1. PICK q : q = h \div d
  OBVIOUS
<1>2. q \in Nat /\ d * q <= h
  BY <1>1
<1>3. q < n
  <2> SUFFICES ASSUME q >= n PROVE FALSE
    BY <1>2
  <2>1. n * d <= d * q
    BY <1>2
  <2>2. n * d \in Int /\ d * q \in Int
    BY <1>2
  <2> QED
    BY <1>2, <2>1, <2>2
<1> QED
  BY <1>1, <1>2, <1>3

(* hash_bits: a key has a bucket in a table of any size.                   *)
LEMMA HasBucket ==
  ASSUME NEW k \in Keys, NEW bits \in 0 .. W
  PROVE  hash_bits(k, bits) \in 0 .. Pow2[bits] - 1
<1>1. W \in Nat /\ W - bits \in 0 .. W
  BY HashmapAssumption
<1>2. Pow2[bits] \in Nat /\ Pow2[W - bits] \in Nat /\ Pow2[W - bits] > 0 /\ Pow2[W] \in Nat
  BY <1>1, Pow2Positive
<1>3. HashOf[k] \in Nat /\ HashOf[k] < Pow2[W]
  BY <1>2, HashmapAssumption
<1>4. HashOf[k] < Pow2[bits] * Pow2[W - bits]
  BY <1>3, Pow2Splits
<1> QED
  BY <1>2, <1>3, <1>4, Quotient DEF hash_bits

-----------------------------------------------------------------------------
(* How often an entry is in a table.                                       *)

Table(c) == [0 .. c - 1 -> Seq(Entry)]

\* cs is bs with e at place n of chain b
Inserted(bs, cs, b, n, e) ==
  /\ \A a \in DOMAIN bs : a # b => cs[a] = bs[a]
  /\ n \in 1 .. Len(bs[b]) + 1 /\ Len(cs[b]) = Len(bs[b]) + 1 /\ cs[b][n] = e
  /\ \A i \in 1 .. n - 1 : cs[b][i] = bs[b][i]
  /\ \A i \in n .. Len(bs[b]) : cs[b][i + 1] = bs[b][i]

LEMMA PlaceIn ==
  ASSUME NEW c \in Nat, NEW bs \in Table(c), NEW E
  PROVE  /\ \A b \in 0 .. c - 1 : \A i \in 1 .. Len(bs[b]) : bs[b][i] \in E <=> <<b, i>> \in EntryPlaces(bs, E)
         /\ \A p \in EntryPlaces(bs, E) :
              /\ p = <<p[1], p[2]>> /\ p[1] \in 0 .. c - 1 /\ p[2] \in 1 .. Len(bs[p[1]])
              /\ bs[p[1]][p[2]] \in E
<1>1. DOMAIN bs = 0 .. c - 1 /\ \A b \in 0 .. c - 1 : bs[b] \in Seq(Entry)
  BY DEF Table
<1>2. \A b \in 0 .. c - 1 : DOMAIN bs[b] = 1 .. Len(bs[b])
  BY <1>1
<1>3. ASSUME NEW b \in 0 .. c - 1, NEW i \in 1 .. Len(bs[b])
      PROVE  bs[b][i] \in E <=> <<b, i>> \in EntryPlaces(bs, E)
  <2>1. <<b, i>> \in {b} \X DOMAIN bs[b] /\ <<b, i>>[1] = b /\ <<b, i>>[2] = i
    BY <1>2
  <2>2. <<b, i>> \in UNION {{a} \X DOMAIN bs[a] : a \in DOMAIN bs}
    BY <1>1, <2>1
  <2> QED
    BY <2>1, <2>2 DEF EntryPlaces
<1>4. ASSUME NEW p \in EntryPlaces(bs, E)
      PROVE  /\ p = <<p[1], p[2]>> /\ p[1] \in 0 .. c - 1 /\ p[2] \in 1 .. Len(bs[p[1]])
             /\ bs[p[1]][p[2]] \in E
  <2>1. PICK b \in 0 .. c - 1 : p \in {b} \X DOMAIN bs[b]
    BY <1>1 DEF EntryPlaces
  <2>2. p = <<p[1], p[2]>> /\ p[1] = b /\ p[2] \in DOMAIN bs[b]
    BY <2>1
  <2> QED
    BY <1>2, <2>2 DEF EntryPlaces
<1> QED
  BY <1>3, <1>4

LEMMA FinitePlaces ==
  ASSUME NEW c \in Nat, NEW bs \in Table(c), NEW E
  PROVE  IsFiniteSet(EntryPlaces(bs, E)) /\ Cardinality(EntryPlaces(bs, E)) \in Nat
<1> DEFINE All == {{b} \X DOMAIN bs[b] : b \in 0 .. c - 1}
           f == [b \in 0 .. c - 1 |-> {b} \X DOMAIN bs[b]]
<1>1. IsFiniteSet(0 .. c - 1)
  BY FS_Interval
<1>2. f \in Surjection(0 .. c - 1, All)
  BY DEF Surjection
<1>3. IsFiniteSet(All)
  <2> HIDE DEF f, All
  <2> QED
    BY <1>1, <1>2, FS_Surjection
<1>4. \A A \in All : IsFiniteSet(A)
  <2> SUFFICES ASSUME NEW b \in 0 .. c - 1 PROVE IsFiniteSet({b} \X DOMAIN bs[b])
    OBVIOUS
  <2>1. bs[b] \in Seq(Entry)
    BY DEF Table
  <2>2. DOMAIN bs[b] = 1 .. Len(bs[b]) /\ Len(bs[b]) \in Nat
    BY <2>1
  <2>3. IsFiniteSet(DOMAIN bs[b])
    <3>1. 1 \in Int /\ Len(bs[b]) \in Int
      BY <2>2
    <3>2. IsFiniteSet(1 .. Len(bs[b]))
      BY <3>1, FS_Interval
    <3> QED
      BY <2>2, <3>2
  <2>4. IsFiniteSet({b})
    BY FS_Singleton
  <2> QED
    BY <2>3, <2>4, FS_Product
<1>5. IsFiniteSet(UNION All)
  <2> HIDE DEF All
  <2> QED
    BY <1>3, <1>4, FS_UNION
<1>6. EntryPlaces(bs, E) \subseteq UNION All
  <2>1. DOMAIN bs = 0 .. c - 1
    BY DEF Table
  <2> QED
    BY <2>1 DEF EntryPlaces
<1> QED
  BY <1>5, <1>6, FS_Subset, FS_CardinalityType

(* One more entry is counted as one more.                                  *)
LEMMA OneMore ==
  ASSUME NEW c \in Nat, NEW bs \in Table(c), NEW cs \in Table(c),
         NEW b \in 0 .. c - 1, NEW n, NEW x, Inserted(bs, cs, b, n, x), NEW E
  PROVE  Cardinality(EntryPlaces(cs, E)) = Cardinality(EntryPlaces(bs, E)) + IF x \in E THEN 1 ELSE 0
<1> DEFINE Old == EntryPlaces(bs, E)
           Rest == EntryPlaces(cs, E) \ {<<b, n>>}
           f == [p \in Old |-> IF p[1] = b /\ p[2] >= n THEN <<b, p[2] + 1>> ELSE p]
<1>1. \A a \in 0 .. c - 1 : Len(bs[a]) \in Nat /\ Len(cs[a]) \in Nat
  BY DEF Table
<1>2. \A a \in 0 .. c - 1 : a # b => cs[a] = bs[a]
  BY DEF Inserted, Table
<1>3. n \in 1 .. Len(bs[b]) + 1 /\ Len(cs[b]) = Len(bs[b]) + 1 /\ cs[b][n] = x
  BY DEF Inserted
<1>4. \A p \in Old : /\ p = <<p[1], p[2]>> /\ p[1] \in 0 .. c - 1 /\ p[2] \in 1 .. Len(bs[p[1]])
                     /\ bs[p[1]][p[2]] \in E
  BY PlaceIn
<1>5. \A p \in Rest : /\ p = <<p[1], p[2]>> /\ p[1] \in 0 .. c - 1 /\ p[2] \in 1 .. Len(cs[p[1]])
                      /\ cs[p[1]][p[2]] \in E /\ p # <<b, n>>
  BY PlaceIn
<1>6. \A a \in 0 .. c - 1 : \A i \in 1 .. Len(cs[a]) : cs[a][i] \in E /\ <<a, i>> # <<b, n>> => <<a, i>> \in Rest
  BY PlaceIn
<1>7. \A a \in 0 .. c - 1 : \A i \in 1 .. Len(bs[a]) : bs[a][i] \in E => <<a, i>> \in Old
  BY PlaceIn
<1> HIDE DEF Old, Rest
<1>8. f \in [Old -> Rest]
  <2> SUFFICES ASSUME NEW p \in Old PROVE f[p] \in Rest
    OBVIOUS
  <2>1. p = <<p[1], p[2]>> /\ p[1] \in 0 .. c - 1 /\ p[2] \in 1 .. Len(bs[p[1]]) /\ bs[p[1]][p[2]] \in E
    BY <1>4
  <2>2. CASE p[1] = b /\ p[2] >= n
    <3>1. cs[b][p[2] + 1] \in E /\ p[2] + 1 \in 1 .. Len(cs[b]) /\ p[2] + 1 # n
      BY <1>1, <1>3, <2>1, <2>2 DEF Inserted
    <3>2. <<b, p[2] + 1>> # <<b, n>>
      BY <3>1
    <3> QED
      BY <1>6, <2>2, <3>1, <3>2
  <2>3. CASE p[1] = b /\ ~(p[2] >= n)
    <3>1. p[2] \in 1 .. n - 1 /\ p[2] \in 1 .. Len(cs[b]) /\ cs[b][p[2]] \in E /\ p[2] # n
      BY SMTT(30), <1>1, <1>3, <2>1, <2>3 DEF Inserted
    <3>2. <<b, p[2]>> # <<b, n>> /\ p = <<b, p[2]>>
      BY <2>1, <2>3, <3>1
    <3> QED
      BY <1>6, <2>3, <3>1, <3>2
  <2>4. CASE p[1] # b
    <3>1. cs[p[1]] = bs[p[1]] /\ <<p[1], p[2]>> # <<b, n>>
      BY <1>2, <2>1, <2>4
    <3> QED
      BY <1>6, <2>1, <2>4, <3>1
  <2> QED
    BY <2>2, <2>3, <2>4
<1>9. \A p, q \in Old : f[p] = f[q] => p = q
  <2> SUFFICES ASSUME NEW p \in Old, NEW q \in Old, f[p] = f[q] PROVE p = q
    OBVIOUS
  <2>1. /\ p = <<p[1], p[2]>> /\ p[2] \in Int /\ q = <<q[1], q[2]>> /\ q[2] \in Int
    BY <1>4
  <2>2. f[p][1] = p[1] /\ f[q][1] = q[1]
    BY <2>1
  <2>3. f[p][2] = (IF p[1] = b /\ p[2] >= n THEN p[2] + 1 ELSE p[2])
    BY <2>1
  <2>4. f[q][2] = (IF q[1] = b /\ q[2] >= n THEN q[2] + 1 ELSE q[2])
    BY <2>1
  <2>5. p[1] = q[1] /\ p[2] = q[2]
    BY <1>3, <2>1, <2>2, <2>3, <2>4
  <2> QED
    BY <2>1, <2>5
<1>10. \A q \in Rest : \E p \in Old : f[p] = q
  <2> SUFFICES ASSUME NEW q \in Rest PROVE \E p \in Old : f[p] = q
    OBVIOUS
  <2>1. /\ q = <<q[1], q[2]>> /\ q[1] \in 0 .. c - 1 /\ q[2] \in 1 .. Len(cs[q[1]])
        /\ cs[q[1]][q[2]] \in E /\ q # <<b, n>>
    BY <1>5
  <2>2. CASE q[1] # b
    <3>1. q \in Old
      BY <1>2, <1>7, <2>1, <2>2
    <3>2. f[q] = q
      BY <2>2, <3>1
    <3> QED
      BY <3>1, <3>2
  <2>3. CASE q[1] = b /\ q[2] < n
    <3>1. q[2] \in 1 .. n - 1 /\ q[2] \in 1 .. Len(bs[b]) /\ bs[b][q[2]] \in E
      BY SMTT(30), <1>1, <1>3, <2>1, <2>3 DEF Inserted
    <3>2. q \in Old
      BY <1>7, <2>1, <2>3, <3>1
    <3>3. f[q] = q
      BY <1>3, <2>1, <2>3, <3>2
    <3> QED
      BY <3>2, <3>3
  <2>4. CASE q[1] = b /\ ~(q[2] < n)
    <3>1. q[2] # n
      BY <2>1, <2>4
    <3> DEFINE i == q[2] - 1
    <3>2. i \in n .. Len(bs[b]) /\ i + 1 = q[2] /\ i \in 1 .. Len(bs[b])
      BY <1>1, <1>3, <2>1, <2>4, <3>1
    <3>3. bs[b][i] \in E
      BY <2>1, <2>4, <3>2 DEF Inserted
    <3>4. <<b, i>> \in Old
      BY <1>7, <3>2, <3>3
    <3>5. f[<<b, i>>] = <<b, i + 1>>
      BY <1>3, <3>2, <3>4
    <3>6. <<b, i + 1>> = q
      BY <2>1, <2>4, <3>2
    <3> QED
      BY <3>4, <3>5, <3>6
  <2> QED
    BY <1>1, <1>3, <2>1, <2>2, <2>3, <2>4
<1>11. f \in Bijection(Old, Rest)
  <2> HIDE DEF f
  <2> QED
    BY <1>8, <1>9, <1>10 DEF Bijection, Injection, IsInjective, Surjection
<1>12. IsFiniteSet(Old) /\ Cardinality(Rest) = Cardinality(Old) /\ Cardinality(Old) \in Nat
  <2>1. ExistsBijection(Old, Rest)
    BY <1>11 DEF ExistsBijection
  <2>2. IsFiniteSet(Old) /\ Cardinality(Old) \in Nat
    BY FinitePlaces DEF Old
  <2> QED
    BY <2>1, <2>2, FS_Bijection
<1>13. IsFiniteSet(EntryPlaces(cs, E)) /\ Cardinality(EntryPlaces(cs, E)) \in Nat
  BY FinitePlaces
<1>14. <<b, n>> \in EntryPlaces(cs, E) <=> x \in E
  <2>1. n \in 1 .. Len(cs[b])
    BY <1>1, <1>3
  <2> QED
    BY <1>3, <2>1, PlaceIn
<1>15. Cardinality(Rest) = IF x \in E THEN Cardinality(EntryPlaces(cs, E)) - 1 ELSE Cardinality(EntryPlaces(cs, E))
  BY <1>13, <1>14, FS_RemoveElement DEF Rest
<1> QED
  BY <1>12, <1>13, <1>15 DEF Old

-----------------------------------------------------------------------------
(* What the operations do to a table.                                      *)

\* every entry is in the bucket of its key
InPlace(bs, c, bits) == \A b \in 0 .. c - 1 : \A i \in 1 .. Len(bs[b]) : hash_bits(bs[b][i].key, bits) = b

(* hashmap_add_entry puts the entry before the others of its chain.        *)
LEMMA AddedFirst ==
  ASSUME NEW c \in Nat, NEW bs \in Table(c), NEW b \in 0 .. c - 1, NEW x \in Entry
  PROVE  add_entry(bs, b, x) \in Table(c) /\ Inserted(bs, add_entry(bs, b, x), b, 1, x)
<1>1. PICK s : s = bs[b]
  OBVIOUS
<1>2. s \in Seq(Entry)
  BY <1>1 DEF Table
<1>3. PICK t : t = <<x>> \o s
  OBVIOUS
<1>4. /\ t \in Seq(Entry) /\ Len(t) = Len(s) + 1 /\ t[1] = x /\ Len(s) \in Nat
      /\ \A i \in 1 .. Len(s) : t[i + 1] = s[i]
  BY <1>2, <1>3
<1>5. PICK cs : cs = [bs EXCEPT ![b] = t]
  OBVIOUS
<1>6. cs \in Table(c) /\ cs[b] = t /\ \A a \in 0 .. c - 1 : a # b => cs[a] = bs[a]
  BY <1>4, <1>5 DEF Table
<1>7. add_entry(bs, b, x) = cs
  BY <1>1, <1>3, <1>5 DEF add_entry
<1>8. DOMAIN bs = 0 .. c - 1
  BY DEF Table
<1>9. Inserted(bs, cs, b, 1, x)
  <2>1. 1 \in 1 .. Len(s) + 1 /\ \A i \in 1 .. 1 - 1 : cs[b][i] = bs[b][i]
    BY <1>4
  <2> QED
    BY <1>1, <1>4, <1>6, <1>8, <2>1 DEF Inserted
<1> QED
  BY <1>6, <1>7, <1>9

(* The table without the entry at a place is the one it was added to.      *)
LEMMA TakenOut ==
  ASSUME NEW c \in Nat, NEW bs \in Table(c), NEW b \in 0 .. c - 1, NEW n \in 1 .. Len(bs[b])
  PROVE  /\ [bs EXCEPT ![b] = RemoveAt(@, n)] \in Table(c)
         /\ Inserted([bs EXCEPT ![b] = RemoveAt(@, n)], bs, b, n, bs[b][n])
<1>1. PICK s : s = bs[b]
  OBVIOUS
<1>2. s \in Seq(Entry) /\ n \in 1 .. Len(s) /\ Len(s) \in Nat
  BY <1>1 DEF Table
<1>3. PICK t : t = RemoveAt(s, n)
  OBVIOUS
<1>4. /\ t \in Seq(Entry) /\ Len(s) = Len(t) + 1 /\ Len(t) \in Nat
      /\ \A i \in 1 .. n - 1 : t[i] = s[i]
      /\ \A i \in n .. Len(t) : t[i] = s[i + 1]
  <2>1. PICK u : u = SubSeq(s, 1, n - 1)
    OBVIOUS
  <2>2. u \in Seq(Entry) /\ Len(u) = n - 1 /\ \A i \in 1 .. n - 1 : u[i] = s[i]
    BY <1>2, <2>1
  <2>3. PICK w : w = SubSeq(s, n + 1, Len(s))
    OBVIOUS
  <2>4. w \in Seq(Entry) /\ Len(w) = Len(s) - n /\ \A i \in 1 .. Len(s) - n : w[i] = s[n + i]
    <3>1. n + 1 \in 1 .. Len(s) + 1 /\ Len(s) \in n .. Len(s) /\ \A i \in n + 1 .. Len(s) : s[i] \in Entry
      BY <1>2
    <3>2. Len(w) = Len(s) - n
      BY <1>2, <2>3, <3>1
    <3>3. \A i \in 1 .. Len(s) - n : w[i] = s[n + i]
      BY <1>2, <2>3, <3>1
    <3>4. w \in Seq(Entry)
      BY <1>2, <2>3, <3>1
    <3> QED
      BY <3>2, <3>3, <3>4
  <2>5. t = u \o w
    BY <1>3, <2>1, <2>3 DEF RemoveAt
  <2>6. t \in Seq(Entry) /\ Len(t) = Len(u) + Len(w)
    <3>1. u \in Seq(Entry) /\ w \in Seq(Entry)
      BY <2>2, <2>4
    <3>2. u \o w \in Seq(Entry) /\ Len(u \o w) = Len(u) + Len(w)
      BY <3>1
    <3> QED
      BY <2>5, <3>2
  <2>7. \A i \in 1 .. n - 1 : t[i] = u[i]
    BY <1>2, <2>2, <2>4, <2>5
  <2>8. \A i \in n .. Len(t) : t[i] = w[i - (n - 1)]
    BY <1>2, <2>2, <2>4, <2>5, <2>6
  <2>9. \A i \in n .. Len(t) : i - (n - 1) \in 1 .. Len(s) - n /\ n + (i - (n - 1)) = i + 1
    BY <1>2, <2>2, <2>4, <2>6
  <2>10. \A i \in n .. Len(t) : t[i] = s[i + 1]
    <3> TAKE i \in n .. Len(t)
    <3>1. t[i] = w[i - (n - 1)] /\ i - (n - 1) \in 1 .. Len(s) - n
      BY <2>8, <2>9
    <3>2. w[i - (n - 1)] = s[n + (i - (n - 1))]
      BY ZenonT(20), <2>4, <3>1
    <3> QED
      BY <2>9, <3>1, <3>2
  <2>11. Len(s) = Len(t) + 1 /\ Len(t) \in Nat
    <3>1. Len(u) = n - 1 /\ Len(w) = Len(s) - n /\ Len(t) = Len(u) + Len(w)
      BY <2>2, <2>4, <2>6
    <3>2. n \in Int /\ 1 <= n /\ n <= Len(s) /\ Len(s) \in Int
      BY <1>2
    <3> QED
      BY <3>1, <3>2
  <2>12. \A i \in 1 .. n - 1 : t[i] = s[i]
    BY <2>2, <2>7
  <2> QED
    BY <2>6, <2>10, <2>11, <2>12
<1>5. PICK cs : cs = [bs EXCEPT ![b] = t]
  OBVIOUS
<1>6. cs \in Table(c) /\ cs[b] = t /\ \A a \in 0 .. c - 1 : a # b => cs[a] = bs[a]
  BY <1>4, <1>5 DEF Table
<1>7. [bs EXCEPT ![b] = RemoveAt(@, n)] = cs
  BY <1>1, <1>3, <1>5
<1>8. DOMAIN cs = 0 .. c - 1
  BY <1>6 DEF Table
<1>9. Inserted(cs, bs, b, n, s[n])
  BY <1>1, <1>2, <1>4, <1>6, <1>8 DEF Inserted
<1> QED
  BY <1>1, <1>6, <1>7, <1>9

(* A table whose entry at a place becomes another is the same but for that *)
(* entry: both are got from one table.                                     *)
LEMMA Exchanged ==
  ASSUME NEW c \in Nat, NEW bs \in Table(c), NEW b \in 0 .. c - 1, NEW n \in 1 .. Len(bs[b]), NEW x \in Entry
  PROVE  /\ [bs EXCEPT ![b][n] = x] \in Table(c)
         /\ \E cs \in Table(c) : /\ Inserted(cs, bs, b, n, bs[b][n])
                                 /\ Inserted(cs, [bs EXCEPT ![b][n] = x], b, n, x)
<1>1. PICK s : s = bs[b]
  OBVIOUS
<1>2. s \in Seq(Entry) /\ n \in 1 .. Len(s) /\ Len(s) \in Nat
  BY <1>1 DEF Table
<1>3. PICK t : t = [s EXCEPT ![n] = x]
  OBVIOUS
<1>4. /\ t \in Seq(Entry) /\ Len(t) = Len(s) /\ t[n] = x
      /\ \A i \in 1 .. Len(s) : i # n => t[i] = s[i]
  BY <1>2, <1>3
<1>5. PICK ds : ds = [bs EXCEPT ![b] = t]
  OBVIOUS
<1>6. ds \in Table(c) /\ ds[b] = t /\ \A a \in 0 .. c - 1 : a # b => ds[a] = bs[a]
  BY <1>4, <1>5 DEF Table
<1>7. [bs EXCEPT ![b][n] = x] = ds
  BY <1>1, <1>3, <1>5
<1>8. PICK cs : cs = [bs EXCEPT ![b] = RemoveAt(@, n)]
  OBVIOUS
<1>9. cs \in Table(c) /\ Inserted(cs, bs, b, n, bs[b][n])
  BY <1>8, TakenOut
<1>10. DOMAIN cs = 0 .. c - 1 /\ Len(cs[b]) \in Nat
  BY <1>9 DEF Table
<1>11. /\ \A a \in 0 .. c - 1 : a # b => bs[a] = cs[a]
       /\ n \in 1 .. Len(cs[b]) + 1 /\ Len(s) = Len(cs[b]) + 1
       /\ \A i \in 1 .. n - 1 : s[i] = cs[b][i]
       /\ \A i \in n .. Len(cs[b]) : s[i + 1] = cs[b][i]
  BY <1>1, <1>9, <1>10 DEF Inserted
<1>12. Inserted(cs, ds, b, n, x)
  <2>1. \A i \in 1 .. n - 1 : i \in 1 .. Len(s) /\ i # n
    BY <1>2
  <2>2. \A i \in n .. Len(cs[b]) : i + 1 \in 1 .. Len(s) /\ i + 1 # n
    BY <1>2, <1>10, <1>11
  <2> QED
    BY SMTT(30), <1>4, <1>6, <1>10, <1>11, <2>1, <2>2 DEF Inserted
<1> QED
  BY <1>6, <1>7, <1>9, <1>12

(* Entries stay in their buckets: an entry that is put into its own bucket *)
(* disturbs no other, and neither does one that is taken out.              *)
LEMMA StaysInPlace ==
  ASSUME NEW c \in Nat, NEW bs \in Table(c), NEW cs \in Table(c), NEW b \in 0 .. c - 1, NEW n, NEW x,
         Inserted(bs, cs, b, n, x), NEW bits
  PROVE  InPlace(cs, c, bits) <=> InPlace(bs, c, bits) /\ hash_bits(x.key, bits) = b
<1>1. DOMAIN bs = 0 .. c - 1 /\ Len(bs[b]) \in Nat
  BY DEF Table
<1>2. /\ \A a \in 0 .. c - 1 : a # b => cs[a] = bs[a]
      /\ n \in 1 .. Len(bs[b]) + 1 /\ Len(cs[b]) = Len(bs[b]) + 1 /\ cs[b][n] = x
      /\ \A i \in 1 .. n - 1 : cs[b][i] = bs[b][i]
      /\ \A i \in n .. Len(bs[b]) : cs[b][i + 1] = bs[b][i]
  BY <1>1 DEF Inserted
<1>3. ASSUME InPlace(cs, c, bits)
      PROVE  InPlace(bs, c, bits) /\ hash_bits(x.key, bits) = b
  <2>1. hash_bits(cs[b][n].key, bits) = b
    <3>1. n \in 1 .. Len(cs[b])
      BY <1>1, <1>2
    <3> QED
      BY <1>3, <3>1 DEF InPlace
  <2>2. ASSUME NEW a \in 0 .. c - 1, NEW i \in 1 .. Len(bs[a])
        PROVE  hash_bits(bs[a][i].key, bits) = a
    <3>1. CASE a # b
      BY <1>2, <1>3, <3>1 DEF InPlace
    <3>2. CASE a = b /\ i < n
      <4>1. i \in 1 .. n - 1 /\ i \in 1 .. Len(cs[b])
        BY <1>1, <1>2, <3>2
      <4> QED
        BY <1>2, <1>3, <3>2, <4>1 DEF InPlace
    <3>3. CASE a = b /\ i >= n
      <4>1. i \in n .. Len(bs[b]) /\ i + 1 \in 1 .. Len(cs[b])
        BY <1>1, <1>2, <3>3
      <4> QED
        BY <1>2, <1>3, <3>3, <4>1 DEF InPlace
    <3>4. i < n \/ i >= n
      BY <1>1, <1>2
    <3> QED
      BY <3>1, <3>2, <3>3, <3>4
  <2> QED
    BY <1>2, <2>1, <2>2 DEF InPlace
<1>4. ASSUME InPlace(bs, c, bits), hash_bits(x.key, bits) = b, NEW a \in 0 .. c - 1, NEW i \in 1 .. Len(cs[a])
      PROVE  hash_bits(cs[a][i].key, bits) = a
  <2>1. CASE a # b
    BY <1>2, <1>4, <2>1 DEF InPlace
  <2>2. CASE a = b /\ i < n
    <3>1. i \in 1 .. n - 1 /\ i \in 1 .. Len(bs[b])
      BY <1>1, <1>2, <2>2
    <3> QED
      BY <1>2, <1>4, <2>2, <3>1 DEF InPlace
  <2>3. CASE a = b /\ i = n
    BY <1>2, <1>4, <2>3
  <2>4. CASE a = b /\ i > n
    <3> DEFINE j == i - 1
    <3>1. i \in 1 .. Len(bs[b]) + 1 /\ n \in Int /\ n >= 1
      BY <1>1, <1>2, <2>4
    <3>2. j \in n .. Len(bs[b]) /\ j \in 1 .. Len(bs[b]) /\ j + 1 = i
      BY <1>1, <2>4, <3>1
    <3>3. cs[b][i] = bs[b][j]
      BY <1>2, <3>2
    <3>4. hash_bits(bs[b][j].key, bits) = b
      BY <1>4, <3>2 DEF InPlace
    <3> QED
      BY <2>4, <3>3, <3>4
  <2>5. i < n \/ i = n \/ i > n
    BY <1>1, <1>2
  <2> QED
    BY <2>1, <2>2, <2>3, <2>4, <2>5
<1> QED
  BY <1>3, <1>4 DEF InPlace

-----------------------------------------------------------------------------
(* Growth keeps every entry.                                               *)

\* the places up to n that hold an entry of E
PlacesTo(chain, n, E) == {j \in 1 .. n : chain[j] \in E}

LEMMA OnePlaceMore ==
  ASSUME NEW chain, NEW n \in Nat, NEW E
  PROVE  /\ IsFiniteSet(PlacesTo(chain, n, E)) /\ Cardinality(PlacesTo(chain, n, E)) \in Nat
         /\ n > 0 => Cardinality(PlacesTo(chain, n, E))
                       = Cardinality(PlacesTo(chain, n - 1, E)) + IF chain[n] \in E THEN 1 ELSE 0
<1>1. ASSUME NEW k \in Nat
      PROVE  IsFiniteSet(PlacesTo(chain, k, E)) /\ Cardinality(PlacesTo(chain, k, E)) \in Nat
  <2>1. IsFiniteSet(1 .. k)
    BY FS_Interval
  <2>2. PlacesTo(chain, k, E) \subseteq 1 .. k
    BY DEF PlacesTo
  <2> QED
    BY <2>1, <2>2, FS_Subset, FS_CardinalityType
<1>2. ASSUME n > 0
      PROVE  Cardinality(PlacesTo(chain, n, E))
               = Cardinality(PlacesTo(chain, n - 1, E)) + IF chain[n] \in E THEN 1 ELSE 0
  <2>1. PICK A : A = PlacesTo(chain, n - 1, E)
    OBVIOUS
  <2>2. IsFiniteSet(A) /\ n \notin A /\ Cardinality(A) \in Nat
    BY <1>1, <1>2, <2>1 DEF PlacesTo
  <2>3. CASE chain[n] \in E
    <3>1. PlacesTo(chain, n, E) = A \cup {n}
      BY <1>2, <2>1, <2>3 DEF PlacesTo
    <3>2. Cardinality(A \cup {n}) = Cardinality(A) + 1
      BY <2>2, FS_AddElement
    <3> QED
      BY <2>1, <2>3, <3>1, <3>2
  <2>4. CASE chain[n] \notin E
    <3>1. PlacesTo(chain, n, E) = A
      BY <1>2, <2>1, <2>4 DEF PlacesTo
    <3> QED
      BY <2>1, <2>2, <2>4, <3>1
  <2> QED
    BY <2>3, <2>4
<1> QED
  BY <1>1, <1>2

\* ds is what AddChain makes of bs
Moved(bs, chain, bits, f) ==
  /\ f \in [0 .. Len(chain) -> Table(Pow2[bits])] /\ f[0] = bs
  /\ \A n \in 1 .. Len(chain) : f[n] = add_entry(f[n - 1], hash_bits(chain[n].key, bits), chain[n])

LEMMA ChainMoves ==
  ASSUME NEW bits \in 0 .. W, NEW bs \in Table(Pow2[bits]), NEW chain \in Seq(Entry)
  PROVE  \E f : Moved(bs, chain, bits, f) /\ AddChain(bs, chain, bits) = f[Len(chain)]
<1> DEFINE N == Len(chain)
           S == Table(Pow2[bits])
           Next1(i, t) == add_entry(t, hash_bits(chain[i].key, bits), chain[i])
           step == [i \in 1 .. N |-> [t \in S |-> Next1(i, t)]]
           Rec(g) == g = [n \in 0 .. N |-> IF n = 0 THEN bs ELSE Next1(n, g[n - 1])]
<1>1. N \in Nat /\ Pow2[bits] \in Nat
  BY Pow2Positive
<1>2. \A i \in 1 .. N, t \in S : Next1(i, t) \in S
  <2> TAKE i \in 1 .. N, t \in S
  <2>1. chain[i] \in Entry
    OBVIOUS
  <2>2. hash_bits(chain[i].key, bits) \in 0 .. Pow2[bits] - 1
    <3>1. chain[i].key \in Keys
      BY <2>1 DEF Entry
    <3> QED
      BY <3>1, HasBucket
  <2> QED
    BY <1>1, <2>1, <2>2, AddedFirst
<1>3. step \in [1 .. N -> [S -> S]] /\ \A i \in 1 .. N, t \in S : step[i][t] = Next1(i, t)
  <2> HIDE DEF Next1, S, N
  <2> QED
    BY <1>2
<1>4. bs \in S
  OBVIOUS
<1>5. \E g : Rec(g)
  <2> HIDE DEF Next1, S, N, step
  <2>1. PICK f : Recurses(f, N, S, bs, step)
    BY <1>1, <1>3, <1>4, Recursion
  <2>2. \A n \in 0 .. N : f[n] = IF n = 0 THEN bs ELSE Next1(n, f[n - 1])
    <3> TAKE n \in 0 .. N
    <3>1. CASE n # 0
      <4>1. n \in 1 .. N /\ n - 1 \in 0 .. N
        BY <1>1, <3>1
      <4> QED
        BY <1>3, <2>1, <3>1, <4>1 DEF Recurses
    <3> QED
      BY <2>1, <3>1 DEF Recurses
  <2>3. f = [n \in 0 .. N |-> f[n]]
    BY <2>1 DEF Recurses
  <2> QED
    BY <2>2, <2>3
<1>6. PICK g : g = CHOOSE h : Rec(h)
  OBVIOUS
<1>7. Rec(g)
  BY <1>5, <1>6
<1>8. AddChain(bs, chain, bits) = g[N]
  BY <1>6 DEF AddChain
<1> HIDE DEF Next1, S, N, step
<1>9. g[0] = bs /\ \A i \in 1 .. N : g[i] = Next1(i, g[i - 1])
  <2>1. 0 \in 0 .. N /\ \A i \in 1 .. N : i \in 0 .. N /\ i # 0
    BY <1>1
  <2> QED
    BY <1>7, <2>1
<1> DEFINE T == {n \in 0 .. N : g[n] \in S}
<1>10. 0 \in T /\ \A n \in 1 .. N : n - 1 \in T => n \in T
  BY <1>1, <1>2, <1>4, <1>9
<1>11. \A n \in 0 .. N : n \in T
  <2> HIDE DEF T
  <2> QED
    BY <1>1, <1>10, UpTo
<1>12. g \in [0 .. N -> S]
  <2>1. g = [n \in 0 .. N |-> g[n]]
    BY <1>7
  <2> QED
    BY <1>11, <2>1
<1> QED
  BY <1>8, <1>9, <1>12 DEF Moved, Next1, S, N

(* The entries of a chain are counted where they went, each in its bucket. *)
LEMMA ChainKept ==
  ASSUME NEW bits \in 0 .. W, NEW bs \in Table(Pow2[bits]), NEW chain \in Seq(Entry),
         InPlace(bs, Pow2[bits], bits)
  PROVE  /\ AddChain(bs, chain, bits) \in Table(Pow2[bits])
         /\ InPlace(AddChain(bs, chain, bits), Pow2[bits], bits)
         /\ \A E : Cardinality(EntryPlaces(AddChain(bs, chain, bits), E))
                     = Cardinality(EntryPlaces(bs, E)) + Cardinality(PlacesTo(chain, Len(chain), E))
<1>1. PICK f : Moved(bs, chain, bits, f) /\ AddChain(bs, chain, bits) = f[Len(chain)]
  BY ChainMoves
<1>2. PICK c \in Nat : c = Pow2[bits]
  BY Pow2Positive
<1>3. PICK N \in Nat : N = Len(chain)
  OBVIOUS
<1>4. f \in [0 .. N -> Table(c)] /\ f[0] = bs /\ bs \in Table(c) /\ InPlace(bs, c, bits)
  BY <1>1, <1>2, <1>3 DEF Moved
<1>5. ASSUME NEW n \in 1 .. N
      PROVE  \E b \in 0 .. c - 1 : /\ n - 1 \in 0 .. N /\ f[n - 1] \in Table(c) /\ f[n] \in Table(c)
                                   /\ Inserted(f[n - 1], f[n], b, 1, chain[n])
                                   /\ hash_bits(chain[n].key, bits) = b
  <2>1. n - 1 \in 0 .. N /\ n \in 0 .. N /\ chain[n] \in Entry
    BY <1>3
  <2>2. f[n - 1] \in Table(c) /\ f[n] \in Table(c)
    BY <1>4, <2>1
  <2>3. PICK b \in 0 .. c - 1 : b = hash_bits(chain[n].key, bits)
    BY <1>2, <2>1, HasBucket DEF Entry
  <2>4. f[n] = add_entry(f[n - 1], b, chain[n])
    BY <1>1, <1>3, <2>3 DEF Moved
  <2>5. Inserted(f[n - 1], f[n], b, 1, chain[n])
    BY <2>1, <2>2, <2>4, AddedFirst
  <2> QED
    BY <2>1, <2>2, <2>3, <2>5
<1>6. InPlace(f[N], c, bits)
  <2> DEFINE T == {n \in 0 .. N : InPlace(f[n], c, bits)}
  <2>1. 0 \in T
    BY <1>4
  <2>2. \A n \in 1 .. N : n - 1 \in T => n \in T
    <3> TAKE n \in 1 .. N
    <3> HAVE n - 1 \in T
    <3>1. PICK b \in 0 .. c - 1 : /\ n - 1 \in 0 .. N /\ f[n - 1] \in Table(c) /\ f[n] \in Table(c)
                                  /\ Inserted(f[n - 1], f[n], b, 1, chain[n])
                                  /\ hash_bits(chain[n].key, bits) = b
      BY <1>5
    <3>2. InPlace(f[n - 1], c, bits)
      OBVIOUS
    <3>3. InPlace(f[n], c, bits)
      BY <3>1, <3>2, StaysInPlace
    <3> QED
      BY <3>3
  <2>3. \A n \in 0 .. N : n \in T
    <3> HIDE DEF T
    <3> QED
      BY <2>1, <2>2, UpTo
  <2> QED
    BY <2>3
<1>7. ASSUME NEW E
      PROVE  Cardinality(EntryPlaces(f[N], E)) = Cardinality(EntryPlaces(bs, E)) + Cardinality(PlacesTo(chain, N, E))
  <2>1. PICK z \in Nat : z = Cardinality(EntryPlaces(bs, E))
    BY <1>4, FinitePlaces
  <2> DEFINE T == {n \in 0 .. N : Cardinality(EntryPlaces(f[n], E)) = z + Cardinality(PlacesTo(chain, n, E))}
  <2>2. 0 \in T
    <3>1. PlacesTo(chain, 0, E) = {}
      BY DEF PlacesTo
    <3>2. Cardinality(PlacesTo(chain, 0, E)) = 0
      BY <3>1, FS_EmptySet
    <3> QED
      BY <1>4, <2>1, <3>2
  <2>3. \A n \in 1 .. N : n - 1 \in T => n \in T
    <3> TAKE n \in 1 .. N
    <3> HAVE n - 1 \in T
    <3>1. PICK b \in 0 .. c - 1 : /\ f[n - 1] \in Table(c) /\ f[n] \in Table(c)
                                  /\ Inserted(f[n - 1], f[n], b, 1, chain[n])
      BY <1>5
    <3>2. Cardinality(EntryPlaces(f[n], E)) = Cardinality(EntryPlaces(f[n - 1], E)) + IF chain[n] \in E THEN 1 ELSE 0
      BY <3>1, OneMore
    <3>3. n \in Nat /\ n > 0 /\ n - 1 \in Nat
      OBVIOUS
    <3>4. Cardinality(PlacesTo(chain, n, E)) = Cardinality(PlacesTo(chain, n - 1, E)) + IF chain[n] \in E THEN 1 ELSE 0
      BY <3>3, OnePlaceMore
    <3>5. Cardinality(PlacesTo(chain, n - 1, E)) \in Nat
      BY <3>3, OnePlaceMore
    <3>6. Cardinality(EntryPlaces(f[n - 1], E)) = z + Cardinality(PlacesTo(chain, n - 1, E))
      OBVIOUS
    <3> QED
      BY <3>2, <3>4, <3>5, <3>6
  <2>4. \A n \in 0 .. N : n \in T
    <3> HIDE DEF T
    <3> QED
      BY <2>2, <2>3, UpTo
  <2> QED
    BY <2>1, <2>4
<1>8. f[N] \in Table(c)
  BY <1>4
<1>9. AddChain(bs, chain, bits) = f[N]
  BY <1>1, <1>3
<1> QED
  BY <1>2, <1>3, <1>6, <1>7, <1>8, <1>9

\* the entries of the first i buckets
Seen(bs, i, E) == {p \in EntryPlaces(bs, E) : p[1] < i}

LEMMA BucketSeen ==
  ASSUME NEW c \in Nat, NEW bs \in Table(c), NEW i \in 1 .. c, NEW E
  PROVE  Cardinality(Seen(bs, i, E))
           = Cardinality(Seen(bs, i - 1, E)) + Cardinality(PlacesTo(bs[i - 1], Len(bs[i - 1]), E))
<1>1. PICK a \in 0 .. c - 1 : a = i - 1
  OBVIOUS
<1>2. PICK N \in Nat : N = Len(bs[a])
  BY DEF Table
<1>3. PICK P : P = PlacesTo(bs[a], N, E)
  OBVIOUS
<1>4. PICK A : A = Seen(bs, i - 1, E)
  OBVIOUS
<1>5. IsFiniteSet(P) /\ IsFiniteSet({a}) /\ Cardinality({a}) = 1 /\ Cardinality(P) \in Nat
  BY <1>3, OnePlaceMore, FS_Singleton
<1>6. PICK B : B = {a} \X P
  OBVIOUS
<1>7. IsFiniteSet(B) /\ Cardinality(B) = Cardinality(P)
  <2>1. IsFiniteSet({a} \X P) /\ Cardinality({a} \X P) = Cardinality({a}) * Cardinality(P)
    BY <1>5, FS_Product
  <2> QED
    BY <1>5, <1>6, <2>1
<1>8. IsFiniteSet(A) /\ Cardinality(A) \in Nat
  <2>1. A \subseteq EntryPlaces(bs, E)
    BY <1>4 DEF Seen
  <2>2. IsFiniteSet(EntryPlaces(bs, E))
    BY FinitePlaces
  <2> QED
    BY <2>1, <2>2, FS_Subset, FS_CardinalityType
<1>9. \A p \in A : p[1] \in 0 .. c - 1 /\ p[1] < a
  <2>1. \A p \in EntryPlaces(bs, E) : p[1] \in 0 .. c - 1
    BY PlaceIn
  <2> QED
    BY <1>1, <1>4, <2>1 DEF Seen
<1>10. \A p \in B : p[1] = a /\ p[2] \in P /\ p = <<a, p[2]>>
  BY <1>6
<1>11. A \cap B = {}
  BY <1>9, <1>10
<1>12. Seen(bs, i, E) = A \cup B
  <2>1. ASSUME NEW p \in Seen(bs, i, E) PROVE p \in A \cup B
    <3>1. p \in EntryPlaces(bs, E) /\ p[1] < i
      BY DEF Seen
    <3>2. p = <<p[1], p[2]>> /\ p[1] \in 0 .. c - 1 /\ p[2] \in 1 .. Len(bs[p[1]]) /\ bs[p[1]][p[2]] \in E
      BY <3>1, PlaceIn
    <3>3. CASE p[1] < a
      BY <1>1, <1>4, <3>1, <3>3 DEF Seen
    <3>4. CASE p[1] = a
      <4>1. p[2] \in P
        BY <1>2, <1>3, <3>2, <3>4 DEF PlacesTo
      <4> QED
        BY <1>6, <3>2, <3>4, <4>1
    <3>5. p[1] < a \/ p[1] = a
      BY <1>1, <3>1, <3>2
    <3> QED
      BY <3>3, <3>4, <3>5
  <2>2. ASSUME NEW p \in A PROVE p \in Seen(bs, i, E)
    <3>1. p[1] < i
      BY <1>1, <1>9
    <3> QED
      BY <1>4, <3>1 DEF Seen
  <2>3. ASSUME NEW p \in B PROVE p \in Seen(bs, i, E)
    <3>1. p[1] = a /\ p[2] \in 1 .. N /\ bs[a][p[2]] \in E /\ p = <<a, p[2]>>
      BY <1>3, <1>10 DEF PlacesTo
    <3>2. p \in EntryPlaces(bs, E)
      <4>1. p[2] \in 1 .. Len(bs[a])
        BY <1>2, <3>1
      <4>2. <<a, p[2]>> \in EntryPlaces(bs, E)
        BY <3>1, <4>1, PlaceIn
      <4> QED
        BY <3>1, <4>2
    <3> QED
      BY <1>1, <3>1, <3>2 DEF Seen
  <2> QED
    BY <2>1, <2>2, <2>3
<1>13. Cardinality(A \cup B) = Cardinality(A) + Cardinality(B) - Cardinality(A \cap B)
  BY <1>7, <1>8, FS_Union
<1>14. Cardinality(A \cap B) = 0
  BY <1>11, FS_EmptySet
<1> QED
  BY <1>1, <1>2, <1>3, <1>4, <1>5, <1>7, <1>8, <1>12, <1>13, <1>14

(* A table without buckets, and one whose buckets are empty, have no entry.*)
LEMMA NothingIn ==
  ASSUME NEW c \in Nat, NEW bs \in Table(c), \A b \in 0 .. c - 1 : bs[b] = <<>>
  PROVE  /\ \A E : EntryPlaces(bs, E) = {} /\ Cardinality(EntryPlaces(bs, E)) = 0
         /\ \A bits : InPlace(bs, c, bits)
<1>1. \A b \in 0 .. c - 1 : 1 .. Len(bs[b]) = {}
  OBVIOUS
<1>2. \A E : EntryPlaces(bs, E) = {}
  <2> SUFFICES ASSUME NEW E, NEW p \in EntryPlaces(bs, E) PROVE FALSE
    OBVIOUS
  <2>1. p[1] \in 0 .. c - 1 /\ p[2] \in 1 .. Len(bs[p[1]])
    BY PlaceIn
  <2> QED
    BY <1>1, <2>1
<1> QED
  BY <1>1, <1>2, FS_EmptySet DEF InPlace

\* bs and cs have the same entries
SameEntries(bs, cs) == \A E : Cardinality(EntryPlaces(cs, E)) = Cardinality(EntryPlaces(bs, E))

\* what hashmap_grow makes of the table m with c buckets
GrownTo(m, c, bits, r) ==
  /\ hashmap_grow(m) = [m EXCEPT !.buckets = r, !.cap = Pow2[bits], !.cap_bits = bits]
  /\ r \in Table(Pow2[bits]) /\ InPlace(r, Pow2[bits], bits) /\ SameEntries(m.buckets, r)

BitsAfter(m) == IF m.cap_bits + 1 < HASHMAP_MIN_CAP_BITS THEN HASHMAP_MIN_CAP_BITS ELSE m.cap_bits + 1

(* hashmap_grow: every entry goes to its bucket of the new table.          *)
LEMMA Grows ==
  ASSUME NEW m, m.cap \in Nat, m.buckets \in Table(m.cap), NEW bits \in 0 .. W, bits = BitsAfter(m)
  PROVE  \E r : GrownTo(m, m.cap, bits, r)
<1>1. PICK N \in Nat : N = m.cap
  OBVIOUS
<1>2. PICK bs : bs = m.buckets
  OBVIOUS
<1>3. bs \in Table(N)
  BY <1>1, <1>2
<1>4. PICK c \in Nat : c = Pow2[bits]
  BY Pow2Positive
<1> DEFINE base == [b \in 0 .. Pow2[bits] - 1 |-> <<>>]
           S == {t \in Table(c) : InPlace(t, c, bits)}
           Next1(i, t) == AddChain(t, m.buckets[i - 1], bits)
           step == [i \in 1 .. N |-> [t \in S |-> Next1(i, t)]]
           Rec(g) == g = [i \in 0 .. m.cap |-> IF i = 0 THEN base ELSE Next1(i, g[i - 1])]
<1>5. \A i \in 1 .. N : i - 1 \in 0 .. N - 1 /\ bs[i - 1] \in Seq(Entry)
  BY <1>3 DEF Table
<1>6. base \in Table(c) /\ \A b \in 0 .. c - 1 : base[b] = <<>>
  BY <1>4 DEF Table
<1> HIDE DEF base
<1>7. \A E : Cardinality(EntryPlaces(base, E)) = 0
  BY <1>6, NothingIn
<1>8. base \in S
  BY <1>6, NothingIn
<1>9. ASSUME NEW i \in 1 .. N, NEW t \in S
      PROVE  /\ Next1(i, t) \in S
             /\ \A E : Cardinality(EntryPlaces(Next1(i, t), E))
                         = Cardinality(EntryPlaces(t, E)) + Cardinality(PlacesTo(bs[i - 1], Len(bs[i - 1]), E))
  <2>1. PICK chain \in Seq(Entry) : chain = bs[i - 1]
    BY <1>5
  <2>2. t \in Table(Pow2[bits]) /\ InPlace(t, Pow2[bits], bits)
    BY <1>4
  <2>3. /\ AddChain(t, chain, bits) \in Table(Pow2[bits])
        /\ InPlace(AddChain(t, chain, bits), Pow2[bits], bits)
        /\ \A E : Cardinality(EntryPlaces(AddChain(t, chain, bits), E))
                    = Cardinality(EntryPlaces(t, E)) + Cardinality(PlacesTo(chain, Len(chain), E))
    BY <2>2, ChainKept
  <2> QED
    BY <1>2, <1>4, <2>1, <2>3
<1>10. step \in [1 .. N -> [S -> S]] /\ \A i \in 1 .. N, t \in S : step[i][t] = Next1(i, t)
  <2> HIDE DEF Next1, S
  <2> QED
    BY <1>9
<1>11. \E g : Rec(g)
  <2> HIDE DEF Next1, S, step
  <2>1. PICK f : Recurses(f, N, S, base, step)
    BY <1>8, <1>10, Recursion
  <2>2. \A n \in 0 .. N : f[n] = IF n = 0 THEN base ELSE Next1(n, f[n - 1])
    <3> TAKE n \in 0 .. N
    <3>1. CASE n # 0
      <4>1. n \in 1 .. N /\ n - 1 \in 0 .. N
        BY <3>1
      <4> QED
        BY <1>10, <2>1, <3>1, <4>1 DEF Recurses
    <3> QED
      BY <2>1, <3>1 DEF Recurses
  <2>3. f = [n \in 0 .. N |-> f[n]]
    BY <2>1 DEF Recurses
  <2> QED
    BY <1>1, <2>2, <2>3
<1>12. PICK g : g = CHOOSE h : Rec(h)
  OBVIOUS
<1>13. Rec(g)
  BY <1>11, <1>12
<1>14. hashmap_grow(m) = [m EXCEPT !.buckets = g[m.cap], !.cap = Pow2[bits], !.cap_bits = bits]
  BY <1>12 DEF hashmap_grow, BitsAfter, base
<1> HIDE DEF Next1, S, step
<1>15. g[0] = base /\ \A i \in 1 .. N : g[i] = Next1(i, g[i - 1])
  <2>1. 0 \in 0 .. m.cap /\ \A i \in 1 .. N : i \in 0 .. m.cap /\ i # 0
    BY <1>1
  <2> QED
    BY <1>13, <2>1
<1>16. \A i \in 0 .. N : g[i] \in S
  <2> DEFINE T == {i \in 0 .. N : g[i] \in S}
  <2>1. 0 \in T /\ \A i \in 1 .. N : i - 1 \in T => i \in T
    BY <1>8, <1>9, <1>15
  <2>2. \A i \in 0 .. N : i \in T
    <3> HIDE DEF T
    <3> QED
      BY <2>1, UpTo
  <2> QED
    BY <2>2
<1>17. ASSUME NEW E
       PROVE  Cardinality(EntryPlaces(g[N], E)) = Cardinality(EntryPlaces(bs, E))
  <2> DEFINE T == {i \in 0 .. N : Cardinality(EntryPlaces(g[i], E)) = Cardinality(Seen(bs, i, E))}
  <2>1. 0 \in T
    <3>1. Seen(bs, 0, E) = {}
      <4>1. \A p \in EntryPlaces(bs, E) : p[1] \in 0 .. N - 1
        BY <1>3, PlaceIn
      <4>2. \A p \in EntryPlaces(bs, E) : ~(p[1] < 0)
        BY <4>1
      <4> QED
        BY <4>2 DEF Seen
    <3>2. Cardinality(Seen(bs, 0, E)) = 0
      BY <3>1, FS_EmptySet
    <3> QED
      BY <1>7, <1>15, <3>2
  <2>2. \A i \in 1 .. N : i - 1 \in T => i \in T
    <3> TAKE i \in 1 .. N
    <3> HAVE i - 1 \in T
    <3>1. i - 1 \in 0 .. N /\ Cardinality(EntryPlaces(g[i - 1], E)) = Cardinality(Seen(bs, i - 1, E))
      OBVIOUS
    <3>2. g[i - 1] \in S /\ g[i] = Next1(i, g[i - 1])
      BY <1>15, <1>16, <3>1
    <3>3. Cardinality(EntryPlaces(g[i], E))
            = Cardinality(EntryPlaces(g[i - 1], E)) + Cardinality(PlacesTo(bs[i - 1], Len(bs[i - 1]), E))
      BY <1>9, <3>2
    <3>4. Cardinality(Seen(bs, i, E))
            = Cardinality(Seen(bs, i - 1, E)) + Cardinality(PlacesTo(bs[i - 1], Len(bs[i - 1]), E))
      BY <1>3, BucketSeen
    <3> QED
      BY <3>1, <3>3, <3>4
  <2>3. \A i \in 0 .. N : i \in T
    <3> HIDE DEF T
    <3> QED
      BY <2>1, <2>2, UpTo
  <2>4. Seen(bs, N, E) = EntryPlaces(bs, E)
    <3>1. \A p \in EntryPlaces(bs, E) : p[1] \in 0 .. N - 1
      BY <1>3, PlaceIn
    <3>2. \A p \in EntryPlaces(bs, E) : p[1] < N
      BY <3>1
    <3> QED
      BY <3>2 DEF Seen
  <2> QED
    BY <2>3, <2>4
<1>18. g[N] \in Table(c) /\ InPlace(g[N], c, bits)
  BY <1>16 DEF S
<1> QED
  BY <1>1, <1>2, <1>4, <1>14, <1>17, <1>18 DEF GrownTo, SameEntries

-----------------------------------------------------------------------------
(* The inductive invariant: a table of the right shape, every entry in the *)
(* bucket of its key, and sz the number of entries.                        *)

MapOK(m) ==
  /\ m = [buckets |-> m.buckets, cap |-> m.cap, cap_bits |-> m.cap_bits, sz |-> m.sz]
  /\ m.cap_bits \in {0} \cup HASHMAP_MIN_CAP_BITS .. W
  /\ m.cap = IF m.cap_bits = 0 THEN 0 ELSE Pow2[m.cap_bits]
  /\ m.buckets \in Table(m.cap)
  /\ m.sz \in 0 .. MaxSize
  /\ InPlace(m.buckets, m.cap, m.cap_bits)
  /\ m.sz = Cardinality(EntryPlaces(m.buckets, Entry))

HInv == MapOK(hmap)

LEMMA CapOK ==
  ASSUME NEW m, MapOK(m)
  PROVE  /\ m.cap \in Nat /\ m.cap_bits \in 0 .. W
         /\ m.cap # 0 => m.cap = Pow2[m.cap_bits] /\ m.cap_bits # 0
         /\ m.cap_bits # 0 => m.cap # 0
<1>1. m.cap_bits \in 0 .. W /\ W \in Nat
  BY HashmapAssumption DEF MapOK, HASHMAP_MIN_CAP_BITS
<1>2. Pow2[m.cap_bits] \in Nat /\ Pow2[m.cap_bits] > 0
  BY <1>1, Pow2Positive
<1> QED
  BY <1>1, <1>2 DEF MapOK

(* a table that must grow has bits left to grow by                         *)
LEMMA MayGrow ==
  ASSUME NEW m, MapOK(m), hashmap_needs_to_grow(m), m.sz < MaxSize
  PROVE  BitsAfter(m) \in HASHMAP_MIN_CAP_BITS .. W
<1>1. W \in Nat /\ W >= 2 /\ MaxSize \in Nat /\ (4 * MaxSize) \div 3 <= Pow2[W] /\ Pow2[W] \in Nat
  <2>1. W \in Nat /\ W >= 2 /\ MaxSize \in Nat /\ (4 * MaxSize) \div 3 <= Pow2[W]
    BY HashmapAssumption DEF HASHMAP_MIN_CAP_BITS
  <2>2. W \in 0 .. W
    BY <2>1
  <2> QED
    BY <2>1, <2>2, Pow2Positive
<1>2. CASE m.cap_bits = 0
  BY <1>1, <1>2 DEF BitsAfter, HASHMAP_MIN_CAP_BITS
<1>3. CASE m.cap_bits # 0
  <2>1. m.cap_bits \in 2 .. W /\ m.cap = Pow2[m.cap_bits] /\ m.cap # 0 /\ m.cap \in Nat
    BY <1>3, CapOK DEF MapOK, HASHMAP_MIN_CAP_BITS
  <2>2. ((m.sz + 1) * 4) \div 3 > m.cap
    BY <2>1 DEF hashmap_needs_to_grow
  <2>3. m.sz + 1 <= MaxSize /\ m.sz \in Nat
    BY <1>1 DEF MapOK
  <2>4. PICK s \in Nat : s = m.sz + 1
    BY <2>3
  <2>5. (s * 4) \div 3 <= (4 * MaxSize) \div 3
    BY <1>1, <2>3, <2>4
  <2>6. m.cap < Pow2[W]
    <3>1. (s * 4) \div 3 \in Int /\ (4 * MaxSize) \div 3 \in Int
      BY <1>1
    <3> QED
      BY <1>1, <2>1, <2>2, <2>4, <2>5, <3>1
  <2>7. m.cap_bits # W
    BY <1>1, <2>1, <2>6
  <2> QED
    BY <1>1, <2>1, <2>7 DEF BitsAfter, HASHMAP_MIN_CAP_BITS
<1> QED
  BY <1>2, <1>3

\* how often each key is there with each value
Pairs(bs) == [k \in Keys |-> [v \in Values |-> Cardinality(EntryPlaces(bs, {[key |-> k, value |-> v]}))]]

(* growing changes nothing that a caller sees                              *)
LEMMA GrownOK ==
  ASSUME NEW m, MapOK(m), hashmap_needs_to_grow(m), m.sz < MaxSize
  PROVE  /\ MapOK(hashmap_grow(m)) /\ hashmap_grow(m).cap # 0 /\ hashmap_grow(m).sz = m.sz
         /\ Pairs(hashmap_grow(m).buckets) = Pairs(m.buckets)
<1>1. PICK bits \in HASHMAP_MIN_CAP_BITS .. W : bits = BitsAfter(m)
  BY MayGrow
<1>2. bits \in 0 .. W /\ bits # 0
  BY HashmapAssumption DEF HASHMAP_MIN_CAP_BITS
<1>3. PICK r : GrownTo(m, m.cap, bits, r)
  <2>1. m.cap \in Nat /\ m.buckets \in Table(m.cap)
    BY CapOK DEF MapOK
  <2> QED
    BY <1>1, <1>2, <2>1, Grows
<1>4. PICK c \in Nat : c = Pow2[bits] /\ c > 0
  BY <1>2, Pow2Positive
<1>5. PICK g : g = [m EXCEPT !.buckets = r, !.cap = c, !.cap_bits = bits]
  OBVIOUS
<1>6. /\ g = [buckets |-> r, cap |-> c, cap_bits |-> bits, sz |-> m.sz]
      /\ g.buckets = r /\ g.cap = c /\ g.cap_bits = bits /\ g.sz = m.sz
  <2>1. m = [buckets |-> m.buckets, cap |-> m.cap, cap_bits |-> m.cap_bits, sz |-> m.sz]
    BY DEF MapOK
  <2>2. g = [buckets |-> r, cap |-> c, cap_bits |-> bits, sz |-> m.sz]
    BY <1>5, <2>1
  <2> QED
    BY <2>2
<1>7. g = hashmap_grow(m) /\ r \in Table(c) /\ InPlace(r, c, bits) /\ SameEntries(m.buckets, r)
  BY <1>3, <1>4, <1>5 DEF GrownTo
<1>8. Pairs(r) = Pairs(m.buckets)
  BY <1>7 DEF Pairs, SameEntries
<1>9. Cardinality(EntryPlaces(r, Entry)) = Cardinality(EntryPlaces(m.buckets, Entry))
  BY <1>7 DEF SameEntries
<1>10. MapOK(g)
  BY <1>1, <1>2, <1>4, <1>6, <1>7, <1>9 DEF MapOK
<1> QED
  BY <1>4, <1>6, <1>7, <1>8, <1>10

\* cs has one entry more than bs: k with v
OneEntryMore(bs, cs, k, v) ==
  /\ Pairs(cs) = [Pairs(bs) EXCEPT ![k][v] = @ + 1]
  /\ Pairs(bs) = [Pairs(cs) EXCEPT ![k][v] = @ - 1]
  /\ Cardinality(EntryPlaces(cs, Entry)) = Cardinality(EntryPlaces(bs, Entry)) + 1
  /\ Cardinality(EntryPlaces(bs, Entry)) \in Nat

(* One more entry is one more pair, and one entry less one pair less.      *)
LEMMA PairsMore ==
  ASSUME NEW c \in Nat, NEW bs \in Table(c), NEW cs \in Table(c), NEW b \in 0 .. c - 1, NEW n,
         NEW k \in Keys, NEW v \in Values, Inserted(bs, cs, b, n, [key |-> k, value |-> v])
  PROVE  OneEntryMore(bs, cs, k, v)
<1>1. PICK x : x = [key |-> k, value |-> v]
  OBVIOUS
<1>2. Inserted(bs, cs, b, n, x) /\ x \in Entry
  BY <1>1 DEF Entry
<1>3. \A E : Cardinality(EntryPlaces(cs, E)) = Cardinality(EntryPlaces(bs, E)) + IF x \in E THEN 1 ELSE 0
  BY <1>2, OneMore
<1>4. \A E : Cardinality(EntryPlaces(bs, E)) \in Nat
  BY FinitePlaces
<1>5. PICK P : P = Pairs(bs)
  OBVIOUS
<1>6. PICK Q : Q = Pairs(cs)
  OBVIOUS
<1>7. \A l \in Keys, w \in Values : x \in {[key |-> l, value |-> w]} <=> l = k /\ w = v
  BY <1>1
<1>8. \A l \in Keys, w \in Values :
        P[l][w] \in Nat /\ Q[l][w] = P[l][w] + IF l = k /\ w = v THEN 1 ELSE 0
  <2> TAKE l \in Keys, w \in Values
  <2>1. PICK E : E = {[key |-> l, value |-> w]}
    OBVIOUS
  <2>2. P[l][w] = Cardinality(EntryPlaces(bs, E)) /\ Q[l][w] = Cardinality(EntryPlaces(cs, E))
    BY <1>5, <1>6, <2>1 DEF Pairs
  <2>3. x \in E <=> l = k /\ w = v
    BY <1>7, <2>1
  <2> QED
    BY <1>3, <1>4, <2>2, <2>3
<1>9. P \in [Keys -> [Values -> Nat]]
  <2>1. P = [l \in Keys |-> [w \in Values |-> P[l][w]]]
    BY <1>5 DEF Pairs
  <2> QED
    BY <1>8, <2>1
<1>10. Q \in [Keys -> [Values -> Nat]]
  <2>1. Q = [l \in Keys |-> [w \in Values |-> Q[l][w]]]
    BY <1>6 DEF Pairs
  <2>2. \A l \in Keys, w \in Values : Q[l][w] \in Nat
    BY <1>8
  <2> QED
    BY <2>1, <2>2
<1>11. Q = [P EXCEPT ![k][v] = @ + 1]
  <2>1. PICK R : R = [P EXCEPT ![k][v] = @ + 1]
    OBVIOUS
  <2>2. R \in [Keys -> [Values -> Nat]]
    BY <1>9, <2>1
  <2>3. \A l \in Keys, w \in Values : R[l][w] = P[l][w] + IF l = k /\ w = v THEN 1 ELSE 0
    BY <1>9, <2>1
  <2>4. \A l \in Keys, w \in Values : R[l][w] = Q[l][w]
    BY <1>8, <2>3
  <2> QED
    BY <1>10, <2>1, <2>2, <2>4
<1>12. P = [Q EXCEPT ![k][v] = @ - 1]
  <2>1. PICK R : R = [Q EXCEPT ![k][v] = @ - 1]
    OBVIOUS
  <2>2. R \in [Keys -> [Values -> Int]]
    BY <1>10, <2>1
  <2>3. \A l \in Keys, w \in Values : R[l][w] = Q[l][w] - IF l = k /\ w = v THEN 1 ELSE 0
    BY <1>10, <2>1
  <2>4. \A l \in Keys, w \in Values : R[l][w] = P[l][w]
    BY <1>8, <2>3
  <2>5. P \in [Keys -> [Values -> Int]]
    BY <1>9
  <2> QED
    BY <2>1, <2>2, <2>4, <2>5
<1>13. Cardinality(EntryPlaces(cs, Entry)) = Cardinality(EntryPlaces(bs, Entry)) + 1
  BY <1>2, <1>3, <1>4
<1> QED
  BY <1>4, <1>5, <1>6, <1>11, <1>12, <1>13 DEF OneEntryMore

-----------------------------------------------------------------------------
(* What a look at the chain of a key finds.                                *)

\* the pairs of k are nowhere but in bucket b, at the places of k
OnlyIn(m, k, b) ==
  \A v \in Values : EntryPlaces(m.buckets, {[key |-> k, value |-> v]})
                      = {b} \X {n \in KeyPlaces(m, k) : ValueAt(m, k, n) = v}

(* The places of a key are those of its bucket, and they are all.          *)
LEMMA Reached ==
  ASSUME NEW m, MapOK(m), m.cap # 0, NEW k \in Keys, NEW b, b = hash_bits(k, m.cap_bits)
  PROVE  /\ b \in 0 .. m.cap - 1
         /\ KeyPlaces(m, k) = {n \in 1 .. Len(m.buckets[b]) : m.buckets[b][n].key = k}
         /\ \A n \in KeyPlaces(m, k) : /\ ValueAt(m, k, n) \in Values
                                    /\ m.buckets[b][n] = [key |-> k, value |-> ValueAt(m, k, n)]
         /\ OnlyIn(m, k, b)
<1>1. m.cap \in Nat /\ m.cap = Pow2[m.cap_bits] /\ m.cap_bits \in 0 .. W
  BY CapOK
<1>2. b \in 0 .. m.cap - 1
  BY <1>1, HasBucket
<1>3. PICK bs : bs = m.buckets
  OBVIOUS
<1>4. bs \in Table(m.cap) /\ InPlace(bs, m.cap, m.cap_bits)
  BY <1>3 DEF MapOK
<1>5. PICK chain \in Seq(Entry) : chain = bs[b]
  BY <1>2, <1>4 DEF Table
<1>6. KeyPlaces(m, k) = {n \in 1 .. Len(chain) : chain[n].key = k}
  <2>1. DOMAIN chain = 1 .. Len(chain)
    OBVIOUS
  <2> QED
    BY <1>3, <1>5, <2>1 DEF KeyPlaces
<1>7. \A n \in 1 .. Len(chain) : /\ chain[n] = [key |-> chain[n].key, value |-> chain[n].value]
                                 /\ chain[n].value \in Values
  <2> TAKE n \in 1 .. Len(chain)
  <2>1. chain[n] \in Entry
    OBVIOUS
  <2> QED
    BY <2>1 DEF Entry
<1>8. \A n \in Nat : ValueAt(m, k, n) = chain[n].value
  BY <1>3, <1>5 DEF ValueAt
<1>9. \A n \in KeyPlaces(m, k) : /\ ValueAt(m, k, n) \in Values
                              /\ chain[n] = [key |-> k, value |-> ValueAt(m, k, n)]
  BY <1>6, <1>7, <1>8
<1>10. ASSUME NEW v \in Values
       PROVE  EntryPlaces(bs, {[key |-> k, value |-> v]}) = {b} \X {n \in KeyPlaces(m, k) : ValueAt(m, k, n) = v}
  <2>1. PICK x : x = [key |-> k, value |-> v]
    OBVIOUS
  <2>2. PICK P : P = {n \in KeyPlaces(m, k) : ValueAt(m, k, n) = v}
    OBVIOUS
  <2>3. ASSUME NEW p \in EntryPlaces(bs, {x})
        PROVE  p \in {b} \X P
    <3>1. p = <<p[1], p[2]>> /\ p[1] \in 0 .. m.cap - 1 /\ p[2] \in 1 .. Len(bs[p[1]]) /\ bs[p[1]][p[2]] = x
      <4>1. \A q \in EntryPlaces(bs, {x}) :
              /\ q = <<q[1], q[2]>> /\ q[1] \in 0 .. m.cap - 1 /\ q[2] \in 1 .. Len(bs[q[1]])
              /\ bs[q[1]][q[2]] \in {x}
        BY <1>1, <1>4, PlaceIn
      <4> QED
        BY <4>1
    <3>2. hash_bits(bs[p[1]][p[2]].key, m.cap_bits) = p[1]
      BY <1>4, <3>1 DEF InPlace
    <3>3. p[1] = b
      BY <2>1, <3>1, <3>2
    <3>4. p[2] \in 1 .. Len(chain) /\ chain[p[2]] = x
      BY <1>5, <3>1, <3>3
    <3>5. p[2] \in KeyPlaces(m, k) /\ ValueAt(m, k, p[2]) = v
      BY <1>6, <1>8, <2>1, <3>4
    <3> QED
      BY <2>2, <3>1, <3>3, <3>5
  <2>4. ASSUME NEW n \in P
        PROVE  <<b, n>> \in EntryPlaces(bs, {x})
    <3>1. n \in 1 .. Len(bs[b]) /\ bs[b][n] = x
      BY <1>5, <1>6, <1>9, <2>1, <2>2
    <3>2. bs[b][n] \in {x}
      BY <3>1
    <3> QED
      BY <1>1, <1>2, <1>4, <3>1, <3>2, PlaceIn
  <2>5. EntryPlaces(bs, {x}) \subseteq {b} \X P
    BY <2>3
  <2>6. {b} \X P \subseteq EntryPlaces(bs, {x})
    <3> SUFFICES ASSUME NEW q \in {b} \X P PROVE q \in EntryPlaces(bs, {x})
      OBVIOUS
    <3>1. q = <<b, q[2]>> /\ q[2] \in P
      OBVIOUS
    <3>2. <<b, q[2]>> \in EntryPlaces(bs, {x})
      BY <2>4, <3>1
    <3> QED
      BY <3>1, <3>2
  <2> QED
    BY <2>1, <2>2, <2>5, <2>6
<1> QED
  BY <1>2, <1>3, <1>5, <1>6, <1>9, <1>10 DEF OnlyIn

(* The entries of a key with a value are as many as the table has pairs.   *)
LEMMA PairsCounted ==
  ASSUME NEW m, MapOK(m), NEW k \in Keys, NEW v \in Values
  PROVE  /\ Pairs(m.buckets)[k][v] = Count(m, k, v)
         /\ Pairs(m.buckets)[k][v] > 0 <=> \E n \in KeyPlaces(m, k) : ValueAt(m, k, n) = v
<1>1. PICK P : P = {n \in KeyPlaces(m, k) : ValueAt(m, k, n) = v}
  OBVIOUS
<1>2. PICK Q : Q = EntryPlaces(m.buckets, {[key |-> k, value |-> v]})
  OBVIOUS
<1>3. m.cap \in Nat /\ m.buckets \in Table(m.cap)
  BY CapOK DEF MapOK
<1>4. IsFiniteSet(Q) /\ Cardinality(Q) \in Nat
  BY <1>2, <1>3, FinitePlaces
<1>5. IsFiniteSet(P) /\ Cardinality(P) = Cardinality(Q)
  <2>1. CASE m.cap = 0
    <3>1. P = {}
      BY <1>1, <2>1 DEF KeyPlaces
    <3>2. Q = {}
      <4>1. \A b \in 0 .. m.cap - 1 : m.buckets[b] = <<>>
        BY <2>1
      <4> QED
        BY <1>2, <1>3, <4>1, NothingIn
    <3> QED
      BY <3>1, <3>2, FS_EmptySet
  <2>2. CASE m.cap # 0
    <3>1. PICK b : b = hash_bits(k, m.cap_bits)
      OBVIOUS
    <3>2. Q = {b} \X P
      <4>1. OnlyIn(m, k, b)
        BY <2>2, <3>1, Reached
      <4> QED
        BY <1>1, <1>2, <4>1 DEF OnlyIn
    <3>3. KeyPlaces(m, k) \subseteq 1 .. Len(m.buckets[b]) /\ b \in 0 .. m.cap - 1
      BY <2>2, <3>1, Reached
    <3>4. IsFiniteSet(P)
      <4>1. Len(m.buckets[b]) \in Nat
        BY <1>3, <3>3 DEF Table
      <4>2. IsFiniteSet(1 .. Len(m.buckets[b]))
        BY <4>1, FS_Interval
      <4>3. P \subseteq 1 .. Len(m.buckets[b])
        BY <1>1, <3>3
      <4> QED
        BY <4>2, <4>3, FS_Subset
    <3>5. IsFiniteSet({b}) /\ Cardinality({b}) = 1
      BY FS_Singleton
    <3>6. Cardinality({b} \X P) = Cardinality({b}) * Cardinality(P) /\ Cardinality(P) \in Nat
      BY <3>4, <3>5, FS_Product, FS_CardinalityType
    <3> QED
      BY <3>2, <3>4, <3>5, <3>6
  <2> QED
    BY <2>1, <2>2
<1>6. Pairs(m.buckets)[k][v] = Cardinality(Q)
  BY <1>2 DEF Pairs
<1>7. Count(m, k, v) = Cardinality(P)
  BY <1>1 DEF Count
<1>8. Cardinality(P) > 0 <=> P # {}
  BY <1>4, <1>5, FS_EmptySet
<1> QED
  BY <1>1, <1>5, <1>6, <1>7, <1>8

(* hashmap_find_entry: the place it finds is one of the key.               *)
LEMMA Finds ==
  ASSUME NEW m, MapOK(m), NEW k \in Keys, KeyPlaces(m, k) # {}
  PROVE  FindEntry(m, k) \in KeyPlaces(m, k)
<1>1. m.cap # 0
  BY DEF KeyPlaces
<1>2. PICK b : b = hash_bits(k, m.cap_bits)
  OBVIOUS
<1>3. KeyPlaces(m, k) \subseteq 1 .. Len(m.buckets[b])
  BY <1>1, <1>2, Reached
<1>4. KeyPlaces(m, k) \in SUBSET Nat
  BY <1>3
<1>5. \E n \in KeyPlaces(m, k) : \A o \in KeyPlaces(m, k) : n <= o
  BY <1>4, LeastOf
<1> QED
  BY <1>5 DEF FindEntry

(* The multimap has what can be reached.                                   *)
LEMMA Has ==
  ASSUME HInv, NEW k \in Keys
  PROVE  /\ Pairing!Has(k) = {ValueAt(hmap, k, n) : n \in KeyPlaces(hmap, k)}
         /\ Pairing!Has(k) = {} <=> KeyPlaces(hmap, k) = {}
         /\ KeyPlaces(hmap, k) # {} => ValueAt(hmap, k, FindEntry(hmap, k)) \in Pairing!Has(k)
<1>1. MapOK(hmap) /\ Contents = Pairs(hmap.buckets)
  BY DEF HInv, Contents, Pairs
<1>2. \A v \in Values : Contents[k][v] > 0 <=> \E n \in KeyPlaces(hmap, k) : ValueAt(hmap, k, n) = v
  BY <1>1, PairsCounted
<1>3. \A n \in KeyPlaces(hmap, k) : ValueAt(hmap, k, n) \in Values
  <2> SUFFICES ASSUME NEW n \in KeyPlaces(hmap, k) PROVE ValueAt(hmap, k, n) \in Values
    OBVIOUS
  <2>1. hmap.cap # 0
    BY DEF KeyPlaces
  <2> QED
    BY <1>1, <2>1, Reached
<1>4. Pairing!Has(k) = {v \in Values : Contents[k][v] > 0}
  BY DEF Pairing!Has
<1>5. Pairing!Has(k) = {ValueAt(hmap, k, n) : n \in KeyPlaces(hmap, k)}
  BY <1>2, <1>3, <1>4
<1>6. KeyPlaces(hmap, k) # {} => FindEntry(hmap, k) \in KeyPlaces(hmap, k)
  BY <1>1, Finds
<1> QED
  BY <1>5, <1>6

-----------------------------------------------------------------------------
(* Every call does what a multimap does.                                   *)


\* the table m with other buckets and another size
LEMMA Rebuilt ==
  ASSUME NEW m, MapOK(m), NEW bs, NEW sz,
         bs \in Table(m.cap), sz \in 0 .. MaxSize, InPlace(bs, m.cap, m.cap_bits),
         sz = Cardinality(EntryPlaces(bs, Entry))
  PROVE  MapOK([buckets |-> bs, cap |-> m.cap, cap_bits |-> m.cap_bits, sz |-> sz])
<1>1. PICK g : g = [buckets |-> bs, cap |-> m.cap, cap_bits |-> m.cap_bits, sz |-> sz]
  OBVIOUS
<1>2. g.buckets = bs /\ g.cap = m.cap /\ g.cap_bits = m.cap_bits /\ g.sz = sz
  BY <1>1
<1>3. /\ m.cap_bits \in {0} \cup HASHMAP_MIN_CAP_BITS .. W
      /\ m.cap = IF m.cap_bits = 0 THEN 0 ELSE Pow2[m.cap_bits]
  BY DEF MapOK
<1> QED
  BY <1>1, <1>2, <1>3 DEF MapOK

\* the table g with x in its bucket b
WithEntry(g, b, x) == [g EXCEPT !.sz = @ + 1, !.buckets = add_entry(@, b, x)]

LEMMA NewEntry ==
  ASSUME HInv, NEW k \in Keys, NEW v \in Values, NEW strategy \in Strategies, InsertNew(k, v, strategy)
  PROVE  HInv' /\ Pairing!Insert(k, v, strategy)
<1>1. MapOK(hmap) /\ Contents = Pairs(hmap.buckets) /\ Contents' = Pairs(hmap'.buckets)
  BY DEF HInv, Contents, Pairs
<1>2. hmap.sz < MaxSize /\ hmap.sz \in Nat /\ MaxSize \in Nat
  BY <1>1, HashmapAssumption DEF InsertNew, MapOK
<1>3. PICK g : g = IF hashmap_needs_to_grow(hmap) THEN hashmap_grow(hmap) ELSE hmap
  OBVIOUS
<1>4. MapOK(g) /\ g.cap # 0 /\ g.sz = hmap.sz /\ Pairs(g.buckets) = Pairs(hmap.buckets)
  <2>1. CASE hashmap_needs_to_grow(hmap)
    BY <1>1, <1>2, <1>3, <2>1, GrownOK
  <2>2. CASE ~hashmap_needs_to_grow(hmap)
    BY <1>1, <1>3, <2>2 DEF hashmap_needs_to_grow
  <2> QED
    BY <2>1, <2>2
<1>5. PICK b \in 0 .. g.cap - 1 : b = hash_bits(k, g.cap_bits)
  <2>1. g.cap \in Nat /\ g.cap = Pow2[g.cap_bits] /\ g.cap_bits \in 0 .. W
    BY <1>4, CapOK
  <2> QED
    BY <2>1, HasBucket
<1>6. PICK x \in Entry : x = [key |-> k, value |-> v]
  BY DEF Entry
<1>7. Pairing!Added(k, v) /\ HInv'
  <2>1. CASE hmap' = WithEntry(g, b, x) /\ ret' = <<"ok">>
    <3>1. PICK bs : bs = g.buckets
      OBVIOUS
    <3>2. PICK cs : cs = add_entry(bs, b, x)
      OBVIOUS
    <3>3. g.cap \in Nat /\ bs \in Table(g.cap) /\ InPlace(bs, g.cap, g.cap_bits)
          /\ g.sz = Cardinality(EntryPlaces(bs, Entry))
      BY <1>4, <3>1, CapOK DEF MapOK
    <3>4. cs \in Table(g.cap) /\ Inserted(bs, cs, b, 1, x)
      BY <3>2, <3>3, AddedFirst
    <3>5. OneEntryMore(bs, cs, k, v)
      BY <1>6, <3>3, <3>4, PairsMore
    <3>6. InPlace(cs, g.cap, g.cap_bits)
      BY <1>5, <1>6, <3>3, <3>4, StaysInPlace
    <3>7. PICK z \in 0 .. MaxSize : z = g.sz + 1
      BY <1>2, <1>4
    <3>8. hmap' = [buckets |-> cs, cap |-> g.cap, cap_bits |-> g.cap_bits, sz |-> z]
      <4>1. g = [buckets |-> g.buckets, cap |-> g.cap, cap_bits |-> g.cap_bits, sz |-> g.sz]
        BY <1>4 DEF MapOK
      <4>2. hmap' = [g EXCEPT !.sz = z, !.buckets = cs]
        BY <2>1, <3>1, <3>2, <3>7 DEF WithEntry
      <4> QED
        BY <4>1, <4>2
    <3>9. MapOK(hmap')
      <4>1. z = Cardinality(EntryPlaces(cs, Entry))
        BY <3>3, <3>5, <3>7 DEF OneEntryMore
      <4> QED
        BY <1>4, <3>4, <3>6, <3>8, <4>1, Rebuilt
    <3>10. hmap'.buckets = cs /\ hmap'.sz = hmap.sz + 1
      BY <1>4, <3>7, <3>8
    <3>11. Contents' = [Contents EXCEPT ![k][v] = @ + 1]
      BY <1>1, <1>4, <3>1, <3>5, <3>10 DEF OneEntryMore
    <3> QED
      BY <2>1, <3>9, <3>10, <3>11 DEF Pairing!Added, HInv
  <2>2. CASE hmap' \in {hmap, g} /\ ret' = <<"ENOMEM">>
    <3>1. MapOK(hmap') /\ hmap'.sz = hmap.sz /\ Pairs(hmap'.buckets) = Pairs(hmap.buckets)
      BY <1>1, <1>4, <2>2
    <3> QED
      BY <1>1, <2>2, <3>1 DEF Pairing!Added, HInv
  <2> QED
    <3>1. \/ hmap' = WithEntry(g, BucketOf(hmap, g, k), [key |-> k, value |-> v]) /\ ret' = <<"ok">>
          \/ hmap' \in {hmap, g} /\ ret' = <<"ENOMEM">>
      BY ZenonT(30), <1>3 DEF InsertNew, WithEntry
    <3>2. BucketOf(hmap, g, k) = b
      BY <1>5 DEF BucketOf
    <3>3. WithEntry(g, BucketOf(hmap, g, k), [key |-> k, value |-> v]) = WithEntry(g, b, x)
      BY <1>6, <3>2
    <3>4. (hmap' = WithEntry(g, b, x) /\ ret' = <<"ok">>) \/ (hmap' \in {hmap, g} /\ ret' = <<"ENOMEM">>)
      BY <3>1, <3>3
    <3> QED
      BY <2>1, <2>2, <3>4
<1>8. strategy = "APPEND" \/ (strategy \in {"ADD", "SET"} /\ Pairing!Has(k) = {})
  BY Has DEF InsertNew
<1> QED
  BY <1>7, <1>8 DEF Pairing!Insert

LEMMA FoundEntry ==
  ASSUME HInv, NEW k \in Keys, NEW v \in Values, NEW strategy \in Strategies, InsertFound(k, v, strategy)
  PROVE  HInv' /\ Pairing!Insert(k, v, strategy)
<1>1. MapOK(hmap) /\ Contents = Pairs(hmap.buckets) /\ Contents' = Pairs(hmap'.buckets)
  BY DEF HInv, Contents, Pairs
<1>2. PICK n : n = FindEntry(hmap, k)
  OBVIOUS
<1>3. n \in KeyPlaces(hmap, k) /\ hmap.cap # 0
  BY <1>1, <1>2, Finds DEF InsertFound, KeyPlaces
<1>4. PICK old : old = ValueAt(hmap, k, n)
  OBVIOUS
<1>5. old \in Pairing!Has(k) /\ old \in Values
  <2>1. ValueAt(hmap, k, FindEntry(hmap, k)) \in Pairing!Has(k)
    BY <1>3, Has
  <2> QED
    BY <1>2, <1>4, <2>1 DEF Pairing!Has
<1>6. PICK b : b = hash_bits(k, hmap.cap_bits)
  OBVIOUS
<1>7. PICK bs : bs = hmap.buckets
  OBVIOUS
<1>8. PICK c \in Nat : c = hmap.cap
  BY <1>1, CapOK
<1>9. b \in 0 .. c - 1 /\ n \in 1 .. Len(bs[b]) /\ bs[b][n] = [key |-> k, value |-> old]
  BY <1>1, <1>3, <1>4, <1>6, <1>7, <1>8, Reached
<1>10. bs \in Table(c) /\ InPlace(bs, c, hmap.cap_bits) /\ hmap.sz = Cardinality(EntryPlaces(bs, Entry))
       /\ hmap.sz \in 0 .. MaxSize
  BY <1>1, <1>7, <1>8 DEF MapOK
<1>11. CASE strategy \in {"SET", "UPDATE"}
  <2>1. hmap' = [hmap EXCEPT !.buckets[b][n].value = v] /\ ret' = <<"old", old>>
    BY <1>2, <1>4, <1>6, <1>11 DEF InsertFound
  <2>2. PICK x \in Entry : x = [key |-> k, value |-> v]
    BY DEF Entry
  <2>3. PICK ds : ds = [bs EXCEPT ![b][n] = x]
    OBVIOUS
  <2>4. /\ ds \in Table(c)
        /\ \E cs \in Table(c) : Inserted(cs, bs, b, n, bs[b][n]) /\ Inserted(cs, ds, b, n, x)
    BY <1>9, <1>10, <2>3, Exchanged
  <2>5. PICK cs \in Table(c) : Inserted(cs, bs, b, n, bs[b][n]) /\ Inserted(cs, ds, b, n, x)
    BY <2>4
  <2>6. OneEntryMore(cs, bs, k, old)
    <3>1. Inserted(cs, bs, b, n, [key |-> k, value |-> old])
      BY <1>9, <2>5
    <3> QED
      BY <1>5, <1>9, <1>10, <3>1, PairsMore
  <2>7. OneEntryMore(cs, ds, k, v)
    <3>1. Inserted(cs, ds, b, n, [key |-> k, value |-> v])
      BY <2>2, <2>5
    <3> QED
      BY <1>9, <2>4, <3>1, PairsMore
  <2>8. InPlace(ds, c, hmap.cap_bits)
    <3>1. InPlace(cs, c, hmap.cap_bits)
      BY <1>9, <1>10, <2>5, StaysInPlace
    <3> QED
      BY <1>6, <1>9, <2>2, <2>4, <2>5, <3>1, StaysInPlace
  <2>9. hmap' = [buckets |-> ds, cap |-> c, cap_bits |-> hmap.cap_bits, sz |-> hmap.sz]
    <3>1. hmap = [buckets |-> bs, cap |-> c, cap_bits |-> hmap.cap_bits, sz |-> hmap.sz]
      BY <1>1, <1>7, <1>8 DEF MapOK
    <3>2. x = [bs[b][n] EXCEPT !.value = v]
      BY <1>9, <2>2
    <3>3. ds = [bs EXCEPT ![b][n].value = v]
      BY <2>3, <3>2
    <3>4. hmap' = [hmap EXCEPT !.buckets = ds]
      BY <1>7, <2>1, <3>3
    <3> QED
      BY <3>1, <3>4
  <2>10. MapOK(hmap')
    <3>1. hmap.sz = Cardinality(EntryPlaces(ds, Entry))
      BY <1>10, <2>6, <2>7 DEF OneEntryMore
    <3> QED
      BY <1>1, <1>8, <1>10, <2>4, <2>8, <2>9, <3>1, Rebuilt
  <2>11. hmap'.buckets = ds /\ hmap'.sz = hmap.sz
    BY <2>9
  <2>12. Pairing!Replaced(k, v, old)
    <3>1. Contents' = Pairs(ds) /\ Contents = Pairs(bs)
      BY <1>1, <1>7, <2>11
    <3>2. Contents' = [[Contents EXCEPT ![k][old] = @ - 1] EXCEPT ![k][v] = @ + 1]
      BY <2>6, <2>7, <3>1 DEF OneEntryMore
    <3> QED
      BY <2>1, <2>11, <3>2 DEF Pairing!Replaced
  <2> QED
    BY <1>5, <1>11, <2>10, <2>12 DEF Pairing!Insert, HInv
<1>12. CASE strategy = "ADD"
  <2>1. ret' = <<"EEXIST", old>> /\ UNCHANGED hmap
    BY <1>2, <1>4, <1>12 DEF InsertFound
  <2> QED
    BY <1>1, <1>5, <1>12, <2>1 DEF Pairing!Insert, HInv
<1> QED
  BY <1>11, <1>12 DEF InsertFound, Strategies

LEMMA Inserts ==
  ASSUME HInv, NEW k \in Keys, NEW v \in Values, NEW strategy \in Strategies, hashmap__insert(k, v, strategy)
  PROVE  HInv' /\ Pairing!Insert(k, v, strategy)
<1>1. CASE InsertFound(k, v, strategy)
  BY <1>1, FoundEntry
<1>2. CASE InsertNone(k, strategy)
  <2>1. strategy = "UPDATE" /\ Pairing!Has(k) = {} /\ ret' = <<"ENOENT">> /\ UNCHANGED hmap
    BY <1>2, Has DEF InsertNone
  <2> QED
    BY <2>1 DEF Pairing!Insert, HInv, Contents
<1>3. CASE InsertNew(k, v, strategy)
  BY <1>3, NewEntry
<1> QED
  BY <1>1, <1>2, <1>3 DEF hashmap__insert

LEMMA FindsOne ==
  ASSUME HInv, NEW k \in Keys, hashmap__find(k)
  PROVE  HInv' /\ Pairing!Find(k)
<1>1. UNCHANGED hmap
  BY DEF hashmap__find
<1>2. CASE KeyPlaces(hmap, k) = {}
  <2>1. Pairing!Has(k) = {} /\ ret' = <<"none">>
    BY <1>2, Has DEF hashmap__find
  <2> QED
    BY <1>1, <2>1 DEF Pairing!Find, HInv, Contents
<1>3. CASE KeyPlaces(hmap, k) # {}
  <2>1. PICK v : v = ValueAt(hmap, k, FindEntry(hmap, k))
    OBVIOUS
  <2>2. v \in Pairing!Has(k) /\ ret' = <<"found", v>>
    BY <1>3, <2>1, Has DEF hashmap__find
  <2> QED
    BY <1>1, <2>2 DEF Pairing!Find, HInv, Contents
<1> QED
  BY <1>2, <1>3

LEMMA Deletes ==
  ASSUME HInv, NEW k \in Keys, hashmap__delete(k)
  PROVE  HInv' /\ Pairing!Delete(k)
<1>1. MapOK(hmap) /\ Contents = Pairs(hmap.buckets) /\ Contents' = Pairs(hmap'.buckets)
  BY DEF HInv, Contents, Pairs
<1>2. CASE KeyPlaces(hmap, k) = {}
  <2>1. Pairing!Has(k) = {} /\ ret' = <<"none">> /\ UNCHANGED hmap
    BY <1>2, Has DEF hashmap__delete
  <2> QED
    BY <2>1 DEF Pairing!Delete, HInv, Contents
<1>3. CASE KeyPlaces(hmap, k) # {}
  <2>1. PICK n : n = FindEntry(hmap, k)
    OBVIOUS
  <2>2. n \in KeyPlaces(hmap, k) /\ hmap.cap # 0
    BY <1>1, <1>3, <2>1, Finds DEF KeyPlaces
  <2>3. PICK old : old = ValueAt(hmap, k, n)
    OBVIOUS
  <2>4. old \in Pairing!Has(k) /\ old \in Values
    <3>1. ValueAt(hmap, k, FindEntry(hmap, k)) \in Pairing!Has(k)
      BY <1>3, Has
    <3> QED
      BY <2>1, <2>3, <3>1 DEF Pairing!Has
  <2>5. PICK b : b = hash_bits(k, hmap.cap_bits)
    OBVIOUS
  <2>6. PICK bs : bs = hmap.buckets
    OBVIOUS
  <2>7. PICK c \in Nat : c = hmap.cap
    BY <1>1, CapOK
  <2>8. b \in 0 .. c - 1 /\ n \in 1 .. Len(bs[b]) /\ bs[b][n] = [key |-> k, value |-> old]
    BY <1>1, <2>2, <2>3, <2>5, <2>6, <2>7, Reached
  <2>9. bs \in Table(c) /\ InPlace(bs, c, hmap.cap_bits) /\ hmap.sz = Cardinality(EntryPlaces(bs, Entry))
        /\ hmap.sz \in 0 .. MaxSize
    BY <1>1, <2>6, <2>7 DEF MapOK
  <2>10. hmap' = [hmap EXCEPT !.buckets[b] = RemoveAt(@, n), !.sz = @ - 1] /\ ret' = <<"old", old>>
    BY <1>3, <2>1, <2>3, <2>5 DEF hashmap__delete
  <2>11. PICK cs : cs = [bs EXCEPT ![b] = RemoveAt(@, n)]
    OBVIOUS
  <2>12. cs \in Table(c) /\ Inserted(cs, bs, b, n, bs[b][n])
    BY <2>8, <2>9, <2>11, TakenOut
  <2>13. OneEntryMore(cs, bs, k, old)
    <3>1. Inserted(cs, bs, b, n, [key |-> k, value |-> old])
      BY <2>8, <2>12
    <3> QED
      BY <2>4, <2>8, <2>9, <2>12, <3>1, PairsMore
  <2>14. InPlace(cs, c, hmap.cap_bits)
    BY <2>8, <2>9, <2>12, StaysInPlace
  <2>15. PICK z \in 0 .. MaxSize : z = hmap.sz - 1 /\ z = Cardinality(EntryPlaces(cs, Entry))
    BY <2>9, <2>13, HashmapAssumption DEF OneEntryMore
  <2>16. hmap' = [buckets |-> cs, cap |-> c, cap_bits |-> hmap.cap_bits, sz |-> z]
    <3>1. hmap = [buckets |-> hmap.buckets, cap |-> hmap.cap, cap_bits |-> hmap.cap_bits, sz |-> hmap.sz]
      BY <1>1 DEF MapOK
    <3>2. hmap' = [hmap EXCEPT !.buckets = cs, !.sz = z]
      BY <2>6, <2>10, <2>11, <2>15
    <3> QED
      BY <2>7, <3>1, <3>2
  <2>17. MapOK(hmap')
    BY <1>1, <2>7, <2>12, <2>14, <2>15, <2>16, Rebuilt
  <2>18. hmap'.buckets = cs /\ hmap'.sz = hmap.sz - 1
    BY <2>15, <2>16
  <2>19. Contents' = [Contents EXCEPT ![k][old] = @ - 1]
    BY <1>1, <2>6, <2>13, <2>18 DEF OneEntryMore
  <2> QED
    BY <2>4, <2>10, <2>17, <2>18, <2>19 DEF Pairing!Delete, HInv
<1> QED
  BY <1>2, <1>3

LEMMA Walks ==
  ASSUME HInv, NEW k \in Keys, for_each_key_entry(k)
  PROVE  HInv' /\ Pairing!Entries(k)
<1>1. MapOK(hmap) /\ Contents = Pairs(hmap.buckets) /\ UNCHANGED hmap
  BY DEF HInv, Contents, Pairs, for_each_key_entry
<1>2. Contents[k] = [v \in Values |-> Count(hmap, k, v)]
  <2>1. \A v \in Values : Pairs(hmap.buckets)[k][v] = Count(hmap, k, v)
    BY <1>1, PairsCounted
  <2>2. Pairs(hmap.buckets)[k] = [v \in Values |-> Pairs(hmap.buckets)[k][v]]
    BY DEF Pairs
  <2> QED
    BY <1>1, <2>1, <2>2
<1>3. ret' = <<"entries", Contents[k]>>
  BY <1>2 DEF for_each_key_entry
<1> QED
  BY <1>1, <1>3 DEF Pairing!Entries, HInv, Contents

(* A new table is an empty multimap.                                       *)
LEMMA Empty ==
  /\ MapOK(EmptyMap) /\ EmptyMap.sz = 0
  /\ Pairs(EmptyMap.buckets) = Pairing!NoPairs
<1>1. PICK m : m = EmptyMap
  OBVIOUS
<1>2. /\ m.buckets = <<>> /\ m.cap = 0 /\ m.cap_bits = 0 /\ m.sz = 0
      /\ m = [buckets |-> m.buckets, cap |-> m.cap, cap_bits |-> m.cap_bits, sz |-> m.sz]
  BY <1>1 DEF EmptyMap
<1>3. 0 .. 0 - 1 = {} /\ m.buckets \in Table(0)
  BY <1>2 DEF Table
<1>4. InPlace(m.buckets, 0, 0) /\ \A E : Cardinality(EntryPlaces(m.buckets, E)) = 0
  BY <1>3, NothingIn
<1>5. MapOK(m)
  BY <1>2, <1>3, <1>4, HashmapAssumption DEF MapOK
<1>6. Pairs(m.buckets) = [k \in Keys |-> [v \in Values |-> 0]]
  BY <1>4 DEF Pairs
<1> QED
  BY <1>1, <1>2, <1>5, <1>6 DEF Pairing!NoPairs

LEMMA Renews ==
  ASSUME hashmap__free
  PROVE  HInv' /\ Pairing!Renew
<1>1. hmap' = EmptyMap /\ ret' = <<"none">>
  BY DEF hashmap__free
<1>2. Contents' = Pairs(hmap'.buckets)
  BY DEF Contents, Pairs
<1> QED
  BY <1>1, <1>2, Empty DEF HInv, Pairing!Renew

(* However the table grows and wherever memory runs out, every call to the *)
(* hash table answers and does what it would to a multimap.                *)
THEOREM TableIsMultimap == HSpec => HashmapIsMultimap
<1>1. HInit => HInv /\ Pairing!Init
  <2> SUFFICES ASSUME HInit PROVE HInv /\ Pairing!Init
    OBVIOUS
  <2>1. hmap = EmptyMap /\ ret = <<"none">>
    BY DEF HInit
  <2>2. Contents = Pairs(hmap.buckets)
    BY DEF Contents, Pairs
  <2> QED
    BY <2>1, <2>2, Empty DEF HInv, Pairing!Init
<1>2. HInv /\ [HNext]_hvars => HInv' /\ [Pairing!Next]_<<Contents, hmap.sz, ret>>
  <2> SUFFICES ASSUME HInv, [HNext]_hvars PROVE HInv' /\ [Pairing!Next]_<<Contents, hmap.sz, ret>>
    OBVIOUS
  <2>1. CASE UNCHANGED hvars
    BY <2>1 DEF hvars, HInv, Contents
  <2>2. ASSUME NEW k \in Keys, NEW v \in Values, NEW strategy \in Strategies, hashmap__insert(k, v, strategy)
        PROVE  HInv' /\ Pairing!Next
    BY <2>2, Inserts DEF Pairing!Next
  <2>3. ASSUME NEW k \in Keys, hashmap__find(k)
        PROVE  HInv' /\ Pairing!Next
    BY <2>3, FindsOne DEF Pairing!Next
  <2>4. ASSUME NEW k \in Keys, hashmap__delete(k)
        PROVE  HInv' /\ Pairing!Next
    BY <2>4, Deletes DEF Pairing!Next
  <2>5. ASSUME NEW k \in Keys, for_each_key_entry(k)
        PROVE  HInv' /\ Pairing!Next
    BY <2>5, Walks DEF Pairing!Next
  <2>6. ASSUME hashmap__free
        PROVE  HInv' /\ Pairing!Next
    BY <2>6, Renews DEF Pairing!Next
  <2> QED
    BY <2>1, <2>2, <2>3, <2>4, <2>5, <2>6 DEF HNext
<1> QED
  BY <1>1, <1>2, PTL DEF HSpec, HashmapIsMultimap, Pairing!Spec

-----------------------------------------------------------------------------
(* The loading of a program.                                               *)

Attr ==
  [type : STRING, log_level : Nat, log_size : Nat, frec : Nat, lrec : Nat, fzero : BOOLEAN, lzero : BOOLEAN]

Accepts(k, type) == k.refuses = "nothing" /\ type \in k.types

\* the kernel has nothing to say of the records
RecordsFit(k, attr) == (attr.frec > k.frec => attr.fzero) /\ (attr.lrec > k.lrec => attr.lzero)

LogFits(k, attr) == attr.log_level # 0 => attr.log_size <= k.maxlog

SameCall(a, b) == a.type = b.type /\ a.log_level = b.log_level /\ a.log_size = b.log_size

\* what a call answers whose records fit: the verifier's verdict, if the log has room
Verdict(k, attr, r) ==
  /\ attr.log_level # 0 /\ k.need > attr.log_size => ~r.ok /\ r.errno = "ENOSPC"
  /\ attr.log_level = 0 \/ k.need <= attr.log_size =>
       /\ Accepts(k, attr.type) => r.ok
       /\ ~Accepts(k, attr.type) =>
            ~r.ok /\ r.errno = "EACCES" /\ r.log = IF attr.log_level = 0 \/ k.need = 0 THEN "nothing" ELSE "text"

\* the records of one kind were too large, and the kernel made them smaller
Shrunk(k, attr, r) ==
  \/ attr.frec > k.frec /\ ~attr.fzero /\ r.attr = [attr EXCEPT !.frec = k.frec]
  \/ /\ attr.lrec > k.lrec /\ ~attr.lzero /\ (attr.frec > k.frec => attr.fzero)
     /\ r.attr = [attr EXCEPT !.lrec = k.lrec]

\* what a call with attr answers
Answers(k, attr, r) ==
  /\ r.attr \in Attr /\ SameCall(r.attr, attr) /\ r.ok \in BOOLEAN
  /\ r.attr.fzero = attr.fzero /\ r.attr.lzero = attr.lzero
  /\ (r.ok => Accepts(k, attr.type)) /\ r.errno # "ok"
  /\ k.refuses = "nothing" /\ LogFits(k, attr) =>
       \/ RecordsFit(k, attr) /\ r.attr = attr /\ r.errno # "E2BIG" /\ Verdict(k, attr, r)
       \/ ~r.ok /\ r.errno = "E2BIG" /\ Shrunk(k, attr, r)

(* A call of the kernel.  It may make records smaller, for which it asks.  *)
LEMMA OneCall ==
  ASSUME NEW k \in AnyKernel, NEW attr \in Attr
  PROVE  Answers(k, attr, sys_bpf_prog_load(k, attr))
<1> DEFINE r == sys_bpf_prog_load(k, attr)
           text == IF attr.log_level = 0 \/ k.need = 0 THEN "nothing" ELSE "text"
           Says(ok, errno, a, log) == r = [ok |-> ok, errno |-> errno, attr |-> a, log |-> log]
           LogTaken == k.refuses = "nothing" /\ ~(attr.log_level # 0 /\ attr.log_size > k.maxlog)
           Func == attr.frec > k.frec /\ ~attr.fzero
           Line == attr.lrec > k.lrec /\ ~attr.lzero
<1> SUFFICES Answers(k, attr, r)
  OBVIOUS
<1>1. CASE k.refuses # "nothing"
  <2>1. Says(FALSE, k.refuses, attr, "nothing")
    BY <1>1 DEF sys_bpf_prog_load
  <2>2. k.refuses # "ok"
    BY DEF AnyKernel
  <2> HIDE DEF r
  <2> QED
    BY <1>1, <2>1, <2>2 DEF Answers, SameCall
<1>2. CASE k.refuses = "nothing" /\ attr.log_level # 0 /\ attr.log_size > k.maxlog
  <2>1. Says(FALSE, "EINVAL", attr, "nothing")
    BY <1>2 DEF sys_bpf_prog_load
  <2>2. ~LogFits(k, attr)
    BY <1>2 DEF LogFits, AnyKernel, Attr
  <2> HIDE DEF r
  <2> QED
    BY <2>1, <2>2 DEF Answers, SameCall
<1>3. CASE LogTaken /\ Func
  <2>1. Says(FALSE, "E2BIG", [attr EXCEPT !.frec = k.frec], "nothing")
    BY <1>3 DEF sys_bpf_prog_load
  <2>2. [attr EXCEPT !.frec = k.frec] \in Attr /\ SameCall([attr EXCEPT !.frec = k.frec], attr)
        /\ [attr EXCEPT !.frec = k.frec].fzero = attr.fzero /\ [attr EXCEPT !.frec = k.frec].lzero = attr.lzero
    BY DEF SameCall, AnyKernel, Attr
  <2> HIDE DEF r
  <2> QED
    BY <1>3, <2>1, <2>2 DEF Answers, Shrunk
<1>4. CASE LogTaken /\ ~Func /\ Line
  <2>1. Says(FALSE, "E2BIG", [attr EXCEPT !.lrec = k.lrec], "nothing")
    BY <1>4 DEF sys_bpf_prog_load
  <2>2. [attr EXCEPT !.lrec = k.lrec] \in Attr /\ SameCall([attr EXCEPT !.lrec = k.lrec], attr)
        /\ [attr EXCEPT !.lrec = k.lrec].fzero = attr.fzero /\ [attr EXCEPT !.lrec = k.lrec].lzero = attr.lzero
    BY DEF SameCall, AnyKernel, Attr
  <2> HIDE DEF r
  <2> QED
    BY <1>4, <2>1, <2>2 DEF Answers, Shrunk
<1>5. CASE LogTaken /\ ~Func /\ ~Line
  <2>1. RecordsFit(k, attr)
    BY <1>5 DEF RecordsFit, Attr
  <2>2. CASE attr.log_level # 0 /\ k.need > attr.log_size
    <3>1. Says(FALSE, "ENOSPC", attr, text)
      BY <1>5, <2>2 DEF sys_bpf_prog_load
    <3> HIDE DEF r
    <3>2. ~(attr.log_level = 0 \/ k.need <= attr.log_size)
      BY <2>2 DEF AnyKernel, Attr
    <3>3. Verdict(k, attr, r)
      BY <3>1, <3>2 DEF Verdict
    <3> QED
      BY <2>1, <3>1, <3>3 DEF Answers, SameCall
  <2>3. CASE ~(attr.log_level # 0 /\ k.need > attr.log_size) /\ attr.type \in k.types
    <3>1. Says(TRUE, "nothing", attr, text)
      BY <1>5, <2>3 DEF sys_bpf_prog_load
    <3>2. Accepts(k, attr.type)
      BY <1>5, <2>3 DEF Accepts
    <3> HIDE DEF r
    <3>3. ~(attr.log_level # 0 /\ k.need > attr.log_size)
      BY <2>3
    <3>4. Verdict(k, attr, r)
      BY <3>1, <3>2, <3>3 DEF Verdict
    <3> QED
      BY <2>1, <3>1, <3>2, <3>4 DEF Answers, SameCall
  <2>4. CASE ~(attr.log_level # 0 /\ k.need > attr.log_size) /\ attr.type \notin k.types
    <3>1. Says(FALSE, "EACCES", attr, text)
      BY <1>5, <2>4 DEF sys_bpf_prog_load
    <3>2. ~Accepts(k, attr.type)
      BY <2>4 DEF Accepts
    <3> HIDE DEF r
    <3>3. Verdict(k, attr, r)
      BY <2>4, <3>1, <3>2 DEF Verdict
    <3> QED
      BY <2>1, <3>1, <3>3 DEF Answers, SameCall
  <2> QED
    BY <2>2, <2>3, <2>4
<1> QED
  BY <1>1, <1>2, <1>3, <1>4, <1>5


\* the result of a call, or of several, with the type and the log of attr
CallOf(k, attr, r) ==
  r.attr \in Attr /\ SameCall(r.attr, attr) /\ r.ok \in BOOLEAN /\ (r.ok => Accepts(k, attr.type)) /\ r.errno # "ok"

\* there is nothing to correct any more
SettledCall(k, attr, r) == RecordsFit(k, r.attr) /\ r.errno # "E2BIG" /\ Verdict(k, attr, r)

LEMMA AnotherCall ==
  ASSUME NEW k \in AnyKernel, NEW attr \in Attr, NEW a \in Attr, SameCall(a, attr)
  PROVE  LET r == sys_bpf_prog_load(k, a)
         IN  /\ CallOf(k, attr, r)
             /\ k.refuses = "nothing" /\ LogFits(k, attr) =>
                  SettledCall(k, attr, r) \/ (~r.ok /\ r.errno = "E2BIG" /\ Shrunk(k, a, r))
<1> DEFINE r == sys_bpf_prog_load(k, a)
<1>1. Answers(k, a, r)
  BY OneCall
<1> HIDE DEF r
<1>2. CallOf(k, attr, r)
  BY <1>1 DEF Answers, CallOf, SameCall
<1>3. ASSUME k.refuses = "nothing", LogFits(k, attr)
      PROVE  SettledCall(k, attr, r) \/ (~r.ok /\ r.errno = "E2BIG" /\ Shrunk(k, a, r))
  <2>1. LogFits(k, a)
    BY <1>3 DEF LogFits, SameCall
  <2>2. Verdict(k, a, r) => Verdict(k, attr, r)
    BY DEF Verdict, SameCall
  <2> QED
    BY <1>1, <1>3, <2>1, <2>2 DEF Answers, SettledCall
<1> QED
  BY <1>2, <1>3 DEF r

(* Correcting changes nothing but the records.                             *)
LEMMA CorrectedCall ==
  ASSUME NEW k \in AnyKernel, NEW load \in AnyLoad, NEW attr \in Attr, NEW r, CallOf(k, attr, r)
  PROVE  CallOf(k, attr, Corrected(k, load, r))
<1>1. CASE ~Corrects(load, r)
  BY <1>1 DEF Corrected
<1>2. CASE Corrects(load, r)
  <2>1. FuncZeroed(load, r.attr) \in Attr /\ SameCall(FuncZeroed(load, r.attr), attr)
    BY DEF FuncZeroed, CallOf, SameCall, Attr, AnyLoad
  <2>2. LineZeroed(load, r.attr) \in Attr /\ SameCall(LineZeroed(load, r.attr), attr)
    BY DEF LineZeroed, CallOf, SameCall, Attr, AnyLoad
  <2> QED
    BY <1>2, <2>1, <2>2, AnotherCall DEF Corrected
<1> QED
  BY <1>1, <1>2

(* Two corrections are enough: one for each kind of records.               *)
LEMMA CorrectedTwice ==
  ASSUME NEW k \in AnyKernel, NEW load \in AnyLoad, NEW attr \in Attr,
         attr.frec = load.frec, attr.lrec = load.lrec, ~attr.fzero, ~attr.lzero
  PROVE  LET first == sys_bpf_prog_load(k, attr)
             r == AfterTooBig(k, load, first)
         IN  /\ CallOf(k, attr, first) /\ CallOf(k, attr, r)
             /\ k.refuses = "nothing" /\ LogFits(k, attr) => SettledCall(k, attr, r) /\ (first.ok \/ ~Corrects(load, first) => r = first)
<1> DEFINE first == sys_bpf_prog_load(k, attr)
           second == Corrected(k, load, first)
           third == Corrected(k, load, second)
<1>1. SameCall(attr, attr)
  BY DEF SameCall
<1>2. CallOf(k, attr, first)
  BY <1>1, AnotherCall
<1>3. CallOf(k, attr, second) /\ CallOf(k, attr, third)
  BY <1>2, CorrectedCall
<1>4. third = AfterTooBig(k, load, first)
  BY DEF AfterTooBig
<1>5. ASSUME k.refuses = "nothing", LogFits(k, attr)
      PROVE  SettledCall(k, attr, third) /\ (first.ok \/ ~Corrects(load, first) => third = first)
  <2>1. \A r : SettledCall(k, attr, r) => Corrected(k, load, r) = r /\ ~Corrects(load, r)
    BY DEF SettledCall, Corrected, Corrects
  <2>2. SettledCall(k, attr, first) \/ (~first.ok /\ first.errno = "E2BIG" /\ Shrunk(k, attr, first))
    BY <1>1, <1>5, AnotherCall
  <2>3. CASE SettledCall(k, attr, first)
    BY <2>1, <2>3
  <2>4. ASSUME NEW a \in Attr, SameCall(a, attr), a.fzero \/ a.frec <= k.frec, a.lzero, NEW r, r = sys_bpf_prog_load(k, a)
        PROVE  SettledCall(k, attr, r)
    <3>1. k.frec \in Nat /\ a.frec \in Nat
      BY DEF AnyKernel, Attr
    <3>2. ~Shrunk(k, a, r)
      BY <2>4, <3>1 DEF Shrunk
    <3> QED
      BY <1>5, <2>4, <3>2, AnotherCall
  <2>5. CASE ~first.ok /\ first.errno = "E2BIG" /\ attr.lrec > k.lrec /\ (attr.frec > k.frec => attr.fzero)
             /\ first.attr = [attr EXCEPT !.lrec = k.lrec]
    <3> DEFINE a == LineZeroed(load, first.attr)
    <3>1. a = [attr EXCEPT !.lzero = TRUE]
      BY <2>5 DEF LineZeroed, Attr
    <3>2. a \in Attr /\ SameCall(a, attr) /\ a.lzero /\ a.frec = attr.frec
      BY <3>1 DEF SameCall, Attr
    <3>3. attr.frec \in Nat /\ k.frec \in Nat /\ k.lrec \in Nat /\ attr.lrec \in Nat
      BY DEF Attr, AnyKernel
    <3>4. a.frec <= k.frec
      BY <2>5, <3>2, <3>3
    <3>5. first.attr.frec = load.frec /\ first.attr.lrec = k.lrec /\ first.attr.lzero = attr.lzero
      BY <2>5 DEF Attr
    <3>6. Corrects(load, first) /\ ~CorrectsFunc(load, first)
      BY <2>5, <3>3, <3>5 DEF Corrects, CorrectsFunc, CorrectsLine
    <3>7. second = sys_bpf_prog_load(k, a)
      BY <3>6 DEF Corrected
    <3>8. SettledCall(k, attr, second)
      <4> HIDE DEF a, second
      <4> QED
        BY <2>4, <3>2, <3>4, <3>7
    <3>9. third = second
      BY <2>1, <3>8
    <3> QED
      BY <2>5, <3>6, <3>8, <3>9
  <2>6. CASE ~first.ok /\ first.errno = "E2BIG" /\ attr.frec > k.frec /\ first.attr = [attr EXCEPT !.frec = k.frec]
    <3> DEFINE a == FuncZeroed(load, first.attr)
               b == LineZeroed(load, second.attr)
    <3>1. a = [attr EXCEPT !.fzero = TRUE]
      BY <2>6 DEF FuncZeroed, Attr
    <3>2. a \in Attr /\ SameCall(a, attr) /\ a.fzero /\ a.lrec = attr.lrec /\ ~a.lzero
      BY <3>1 DEF SameCall, Attr
    <3>3. attr.frec \in Nat /\ k.frec \in Nat /\ k.lrec \in Nat /\ attr.lrec \in Nat
      BY DEF Attr, AnyKernel
    <3>4. first.attr.frec = k.frec /\ ~first.attr.fzero
      BY <2>6 DEF Attr
    <3>5. Corrects(load, first) /\ CorrectsFunc(load, first)
      BY <2>6, <3>3, <3>4 DEF Corrects, CorrectsFunc
    <3>6. second = sys_bpf_prog_load(k, a)
      BY <3>5 DEF Corrected
    <3>7. SettledCall(k, attr, second) \/ (~second.ok /\ second.errno = "E2BIG" /\ Shrunk(k, a, second))
      BY <1>5, <3>2, <3>6, AnotherCall
    <3>8. CASE SettledCall(k, attr, second)
      BY <2>1, <2>6, <3>5, <3>8
    <3>9. CASE ~second.ok /\ second.errno = "E2BIG" /\ Shrunk(k, a, second)
      <4>1. attr.lrec > k.lrec /\ second.attr = [a EXCEPT !.lrec = k.lrec]
        <5> HIDE DEF a, second
        <5> QED
          BY <3>2, <3>9 DEF Shrunk
      <4>2. b = [a EXCEPT !.lzero = TRUE] /\ second.attr.lrec = k.lrec /\ second.attr.fzero /\ ~second.attr.lzero
        <5> HIDE DEF a, second
        <5> QED
          BY <3>2, <4>1 DEF LineZeroed, Attr
      <4>3. b \in Attr /\ SameCall(b, attr) /\ b.lzero /\ b.fzero
        <5> HIDE DEF a, b
        <5> QED
          BY <3>2, <4>2 DEF SameCall, Attr
      <4>4. Corrects(load, second) /\ ~CorrectsFunc(load, second)
        <5> HIDE DEF a, second
        <5> QED
          BY <3>3, <3>9, <4>1, <4>2 DEF Corrects, CorrectsFunc, CorrectsLine
      <4>5. third = sys_bpf_prog_load(k, b)
        <5> HIDE DEF second
        <5> QED
          BY <4>4 DEF Corrected
      <4>6. SettledCall(k, attr, third)
        <5> HIDE DEF b, third
        <5> QED
          BY <2>4, <4>3, <4>5
      <4> QED
        BY <2>6, <3>5, <4>6
    <3> QED
      BY <3>7, <3>8, <3>9
  <2> QED
    BY <2>2, <2>3, <2>5, <2>6 DEF Shrunk
<1> QED
  BY <1>2, <1>3, <1>4, <1>5


\* the log has room for what the verifier says, or no log is asked for
LogEnough(k, load, size) == load.log_level = 0 \/ k.need <= size

\* what a load with a log buffer of a size returns, if nomem without memory for records
LoadRight(k, load, buf, size, nomem, r) ==
  /\ r.ok \in BOOLEAN /\ (r.ok => Accepts(k, load.type)) /\ r.errno # "ok"
  /\ buf # "none" /\ size # 0 /\ ~nomem =>
       /\ Accepts(k, load.type) /\ load.log_level = 0 => r.ok
       /\ k.refuses = "nothing" /\ size <= k.maxlog =>
            /\ k.need > size => r.ok \/ r.errno = "ENOSPC"
            /\ k.need <= size /\ Accepts(k, load.type) => r.ok
            /\ k.need <= size /\ ~Accepts(k, load.type) /\ k.need > 0 => r.errno = "EACCES" /\ r.buf = "text"
            /\ k.need > size /\ ~Accepts(k, load.type) => r.errno = "ENOSPC"
            /\ k.need > size /\ load.log_level # 0 => ~r.ok

(* A load: a program that is loaded is one the kernel accepts; with memory *)
(* for all it needs and a log buffer that the kernel takes it is loaded if *)
(* the log has room, and otherwise the log is what is missing, or told.    *)
LEMMA OneLoad ==
  ASSUME NEW k \in AnyKernel, NEW load \in AnyLoad, NEW buf, NEW size \in Nat,
         NEW errno, errno # "ok", NEW nomem \in BOOLEAN
  PROVE  LoadRight(k, load, buf, size, nomem, bpf_load_program_xattr(k, load, buf, size, errno, nomem))
<1> DEFINE r == bpf_load_program_xattr(k, load, buf, size, errno, nomem)
           refused == (buf = "none") # (size = 0) \/ (load.log_level # 0 /\ buf = "none")
           attr == [type |-> load.type, log_level |-> load.log_level,
                    log_size |-> IF load.log_level = 0 THEN 0 ELSE size,
                    frec |-> load.frec, lrec |-> load.lrec, fzero |-> FALSE, lzero |-> FALSE]
           first == sys_bpf_prog_load(k, attr)
           second == AfterTooBig(k, load, first)
           logged == [second.attr EXCEPT !.log_size = size, !.log_level = 1]
           third == sys_bpf_prog_load(k, logged)
           told(s, before) == [ok |-> s.ok, errno |-> IF s.ok THEN errno ELSE s.errno,
                               buf |-> IF s.log # "nothing" THEN s.log ELSE before]
           Says(x) == r = x
           Room == k.refuses = "nothing" /\ size <= k.maxlog
<1>1. attr \in Attr /\ attr.frec = load.frec /\ attr.lrec = load.lrec /\ ~attr.fzero /\ ~attr.lzero
  BY DEF Attr, AnyLoad
<1>2. /\ Says(IF refused THEN [ok |-> FALSE, errno |-> errno, buf |-> buf]
              ELSE IF first.ok THEN told(first, buf)
              ELSE IF nomem /\ Corrects(load, first) THEN [ok |-> FALSE, errno |-> "ENOMEM", buf |-> buf]
              ELSE IF second.ok \/ load.log_level # 0 \/ buf = "none"
              THEN told(second, IF first.log # "nothing" THEN first.log ELSE buf)
              ELSE told(third, "nothing"))
  BY DEF bpf_load_program_xattr
<1>3. attr.type = load.type /\ attr.log_level = load.log_level
      /\ (load.log_level # 0 => attr.log_size = size) /\ (load.log_level = 0 => LogFits(k, attr))
      /\ (size <= k.maxlog => LogFits(k, attr))
  BY DEF LogFits
<1> HIDE DEF attr
<1>4. CallOf(k, attr, first) /\ CallOf(k, attr, second)
  BY <1>1, CorrectedTwice
<1>5. k.refuses = "nothing" /\ LogFits(k, attr) => SettledCall(k, attr, second) /\ (first.ok \/ ~Corrects(load, first) => second = first)
  BY <1>1, CorrectedTwice
<1> HIDE DEF first, second
<1>6. /\ logged \in Attr /\ logged.type = load.type /\ logged.log_level = 1 /\ logged.log_size = size
      /\ \A s : RecordsFit(s, second.attr) => RecordsFit(s, logged)
  BY <1>3, <1>4 DEF CallOf, Attr, SameCall, RecordsFit
<1> HIDE DEF logged
<1>7. CallOf(k, logged, third) /\ (Room /\ RecordsFit(k, logged) => SettledCall(k, logged, third))
  <2>1. SameCall(logged, logged)
    BY DEF SameCall
  <2>2. Room => LogFits(k, logged)
    BY <1>6 DEF LogFits
  <2>3. RecordsFit(k, logged) => ~Shrunk(k, logged, third)
    BY DEF RecordsFit, Shrunk
  <2> QED
    BY <1>6, <2>1, <2>2, <2>3, AnotherCall
<1> HIDE DEF third
<1>8. r.ok \in BOOLEAN /\ (r.ok => Accepts(k, load.type)) /\ r.errno # "ok"
  <2>1. first.ok \in BOOLEAN /\ second.ok \in BOOLEAN /\ third.ok \in BOOLEAN
        /\ (first.ok => Accepts(k, load.type)) /\ (second.ok => Accepts(k, load.type)) /\ (third.ok => Accepts(k, load.type))
        /\ first.errno # "ok" /\ second.errno # "ok" /\ third.errno # "ok"
    BY <1>3, <1>4, <1>6, <1>7 DEF CallOf
  <2>2. \A s, b : told(s, b).ok = s.ok /\ (s.errno # "ok" => told(s, b).errno # "ok")
    OBVIOUS
  <2> HIDE DEF told, r
  <2> QED
    BY <1>2, <2>1, <2>2
<1> SUFFICES ASSUME buf # "none", size # 0, ~nomem
             PROVE  /\ Accepts(k, load.type) /\ load.log_level = 0 => r.ok
                    /\ Room =>
                         /\ k.need > size => r.ok \/ r.errno = "ENOSPC"
                         /\ k.need <= size /\ Accepts(k, load.type) => r.ok
                         /\ k.need <= size /\ ~Accepts(k, load.type) /\ k.need > 0 =>
                              r.errno = "EACCES" /\ r.buf = "text"
                         /\ k.need > size /\ ~Accepts(k, load.type) => r.errno = "ENOSPC"
                         /\ k.need > size /\ load.log_level # 0 => ~r.ok
  <2> HIDE DEF r
  <2> QED
    BY <1>8 DEF LoadRight, r
<1>9. ~refused
  OBVIOUS
<1>10. r = IF first.ok THEN told(first, buf)
           ELSE IF second.ok \/ load.log_level # 0
           THEN told(second, IF first.log # "nothing" THEN first.log ELSE buf)
           ELSE told(third, "nothing")
  BY <1>2, <1>9
<1> HIDE DEF r
<1>11. k.need \in Nat /\ k.maxlog \in Nat
  BY DEF AnyKernel
<1>12. (k.need > size <=> ~(k.need <= size)) /\ (k.need > 0 <=> k.need # 0)
  <2>1. \A x, y \in Nat : (x > y <=> ~(x <= y)) /\ (x > 0 <=> x # 0)
    OBVIOUS
  <2> QED
    BY <1>11, <2>1
<1> DEFINE log1 == IF first.log # "nothing" THEN first.log ELSE buf
           Tells(s, b) == told(s, b).ok = s.ok /\ (~s.ok => told(s, b).errno = s.errno)
                          /\ (s.log = "text" => told(s, b).buf = "text")
<1>13. \A s, b : s.ok \in BOOLEAN => Tells(s, b)
  OBVIOUS
<1>14. Tells(first, buf) /\ Tells(second, log1) /\ Tells(third, "nothing")
  <2>1. first.ok \in BOOLEAN /\ second.ok \in BOOLEAN /\ third.ok \in BOOLEAN
    BY <1>4, <1>7 DEF CallOf
  <2> HIDE DEF log1, Tells
  <2> QED
    BY <1>13, <2>1
<1>15. r = IF first.ok THEN told(first, buf)
           ELSE IF second.ok \/ load.log_level # 0 THEN told(second, log1) ELSE told(third, "nothing")
  BY <1>10
<1> HIDE DEF told, log1
<1>16. ASSUME Accepts(k, load.type), load.log_level = 0 PROVE r.ok
  <2>1. second.ok
    BY <1>3, <1>5, <1>16 DEF SettledCall, Verdict, Accepts
  <2> QED
    BY <1>15, <1>14, <2>1, Zenon
<1> SUFFICES ASSUME Room
             PROVE  /\ k.need > size => r.ok \/ r.errno = "ENOSPC"
                    /\ k.need <= size /\ Accepts(k, load.type) => r.ok
                    /\ k.need <= size /\ ~Accepts(k, load.type) /\ k.need > 0 =>
                         r.errno = "EACCES" /\ r.buf = "text"
                    /\ k.need > size /\ ~Accepts(k, load.type) => r.errno = "ENOSPC"
                    /\ k.need > size /\ load.log_level # 0 => ~r.ok
  BY <1>16
<1>17. SettledCall(k, attr, second) /\ (first.ok => second = first)
  BY <1>3, <1>5
<1>18. CASE load.log_level # 0
  <2>1. /\ k.need > size => ~second.ok /\ second.errno = "ENOSPC"
        /\ k.need <= size /\ Accepts(k, load.type) => second.ok
        /\ k.need <= size /\ ~Accepts(k, load.type) =>
             ~second.ok /\ second.errno = "EACCES" /\ (k.need # 0 => second.log = "text")
    BY <1>3, <1>17, <1>18 DEF SettledCall, Verdict
  <2>2. second.ok => r.ok
    BY <1>15, <1>17, <1>14, Zenon
  <2>3. ~second.ok => r = told(second, log1)
    BY <1>15, <1>17, <1>18, Zenon
  <2>4. ~second.ok => ~r.ok /\ r.errno = second.errno /\ (second.log = "text" => r.buf = "text")
    BY <1>14, <2>3, Zenon
  <2> QED
    BY <1>18, <1>12, <2>1, <2>2, <2>4, Zenon
<1>19. CASE load.log_level = 0
  <2>1. Accepts(k, load.type) => r.ok
    BY <1>16, <1>19
  <2>2. ASSUME ~Accepts(k, load.type)
        PROVE  /\ ~r.ok /\ (k.need > size => r.errno = "ENOSPC")
               /\ k.need <= size => r.errno = "EACCES" /\ (k.need # 0 => r.buf = "text")
    <3>1. ~first.ok /\ ~second.ok
      BY <1>3, <1>4, <2>2 DEF CallOf
    <3>2. r = told(third, "nothing")
      BY <1>15, <1>19, <3>1, Zenon
    <3>3. SettledCall(k, logged, third)
      BY <1>6, <1>7, <1>17 DEF SettledCall
    <3>4. /\ ~third.ok
          /\ k.need > size => third.errno = "ENOSPC"
          /\ k.need <= size => third.errno = "EACCES" /\ (k.need # 0 => third.log = "text")
      <4>1. logged.log_level # 0
        BY <1>6
      <4> QED
        BY <1>6, <1>12, <2>2, <3>3, <4>1, Zenon DEF SettledCall, Verdict
    <3> QED
      BY <1>14, <3>2, <3>4, Zenon
  <2> QED
    BY <1>12, <1>19, <2>1, <2>2, Zenon
<1> QED
  BY <1>18, <1>19


(* Doubling a log buffer makes it larger.                                  *)
LEMMA SizesGrow ==
  ASSUME NEW d \in Nat
  PROVE  /\ LogBufSizes(d) \in [0 .. d -> Nat \ {0}]
         /\ \A m, n \in 0 .. d : m <= n => LogBufSizes(d)[m] <= LogBufSizes(d)[n]
<1> DEFINE step == [i \in 1 .. d |-> [x \in Nat |-> 2 * x]]
           Doubles(f) == f = [n \in 0 .. d |-> IF n = 0 THEN LogBufSize ELSE 2 * f[n - 1]]
           size == LogBufSizes(d)
<1>1. step \in [1 .. d -> [Nat -> Nat]] /\ LogBufSize \in Nat
  BY DEF LogBufSize
<1>2. \A i \in 1 .. d, x \in Nat : step[i][x] = 2 * x
  OBVIOUS
<1> HIDE DEF step
<1>3. PICK f : Recurses(f, d, Nat, LogBufSize, step)
  BY <1>1, Recursion
<1>4. \A n \in 0 .. d : f[n] = IF n = 0 THEN LogBufSize ELSE 2 * f[n - 1]
  <2> TAKE n \in 0 .. d
  <2>1. CASE n # 0
    <3>1. n \in 1 .. d /\ n - 1 \in 0 .. d
      BY <2>1
    <3> QED
      BY <1>2, <1>3, <2>1, <3>1 DEF Recurses
  <2> QED
    BY <1>3, <2>1 DEF Recurses
<1>5. Doubles(f)
  <2>1. f = [n \in 0 .. d |-> f[n]]
    BY <1>3 DEF Recurses
  <2> QED
    BY <1>4, <2>1
<1>6. Doubles(size)
  <2>1. Doubles(CHOOSE g : Doubles(g))
    BY <1>5
  <2> QED
    BY <2>1 DEF LogBufSizes
<1> HIDE DEF size
<1>7. size[0] = 1 /\ \A i \in 1 .. d : size[i] = 2 * size[i - 1]
  <2>1. 0 \in 0 .. d /\ \A i \in 1 .. d : i \in 0 .. d /\ i # 0
    OBVIOUS
  <2> QED
    BY <1>6, <2>1 DEF LogBufSize
<1> DEFINE T == {n \in 0 .. d : size[n] \in Nat \ {0}}
<1>8. \A n \in 0 .. d : n \in T
  <2>1. 0 \in T
    BY <1>7
  <2>2. \A n \in 1 .. d : n - 1 \in T => n \in T
    BY <1>7
  <2> HIDE DEF T
  <2> QED
    BY <2>1, <2>2, UpTo
<1>9. size \in [0 .. d -> Nat \ {0}]
  <2>1. size = [n \in 0 .. d |-> size[n]]
    BY <1>6
  <2> QED
    BY <1>8, <2>1
<1> HIDE DEF T
<1> DEFINE U == {n \in 0 .. d : \A m \in 0 .. n : size[m] <= size[n]}
<1>10. \A n \in 0 .. d : n \in U
  <2>1. 0 \in U
    BY <1>7
  <2>2. \A n \in 1 .. d : n - 1 \in U => n \in U
    <3> TAKE n \in 1 .. d
    <3> SUFFICES ASSUME n - 1 \in U, NEW m \in 0 .. n PROVE size[m] <= size[n]
      OBVIOUS
    <3>1. size[n] = 2 * size[n - 1] /\ size[n - 1] \in Nat /\ size[n] \in Nat /\ size[m] \in Nat
      BY <1>7, <1>9
    <3>2. CASE m = n
      BY <3>1, <3>2
    <3>3. CASE m # n
      <4>1. m \in 0 .. n - 1
        BY <3>3
      <4>2. size[m] <= size[n - 1]
        BY <4>1
      <4> QED
        BY <3>1, <4>2
    <3> QED
      BY <3>2, <3>3
  <2> HIDE DEF U
  <2> QED
    BY <2>1, <2>2, UpTo
<1>11. ASSUME NEW m \in 0 .. d, NEW n \in 0 .. d, m <= n PROVE size[m] <= size[n]
  BY <1>10, <1>11
<1> QED
  BY <1>9, <1>11 DEF size

(* load_program answers right.                                             *)
LEMMA LoadsRight ==
  ASSUME NEW k \in AnyKernel, NEW load \in AnyLoad, NEW mem \in Memory, MaxDoublings \in Nat
  PROVE  Answered(k, load, mem, load_program(k, load, mem, MaxDoublings))
<1> DEFINE d == MaxDoublings
           size == LogBufSizes(d)
           accepted == k.refuses = "nothing" /\ load.type \in k.types
           loggable == \E n \in 0 .. d : size[n] \in k.need .. k.maxlog
<1>1. accepted <=> Accepts(k, load.type)
  BY DEF Accepts
<1>2. k.need \in Nat /\ k.maxlog \in Nat
  BY DEF AnyKernel
<1>3. size \in [0 .. d -> Nat \ {0}] /\ \A m, n \in 0 .. d : m <= n => size[m] <= size[n]
  BY SizesGrow
<1> HIDE DEF size
<1> SUFFICES LET r == load_program(k, load, mem, d)
             IN  /\ r.fds = IF r.ret = "ok" THEN 1 ELSE 0
                 /\ r.ret = "ok" => accepted
                 /\ mem.log /\ mem.info =>
                      /\ accepted /\ (load.log_level = 0 \/ loggable) => r.ret = "ok"
                      /\ k.refuses = "nothing" /\ ~accepted /\ k.need > 0 /\ loggable => r.ret = "VERIFY"
  BY DEF Answered, size
<1>0. d \in Nat
  OBVIOUS
<1> HIDE DEF d
<1> DEFINE tried == [n \in 0 .. d |-> LoadWith(k, load, size[n], mem)]
           through == {n \in 0 .. d : tried[n].ok \/ tried[n].errno # "ENOSPC"}
           first == CHOOSE n \in through : \A m \in through : n <= m
           last == tried[first]
           Fails == Failure(k, load, last, ~mem.info)
           r == load_program(k, load, mem, d)
<1>4. r = IF through = {} THEN [ret |-> "goes on", fds |-> 0]
          ELSE IF last.ok THEN [ret |-> "ok", fds |-> 1] ELSE Fails
  BY DEF load_program, size
<1>5. ASSUME NEW n \in 0 .. d
      PROVE  LET t == tried[n]
             IN  /\ t.ok \in BOOLEAN /\ (t.ok => accepted) /\ t.errno # "ok"
                 /\ mem.log /\ mem.info =>
                      /\ accepted /\ load.log_level = 0 => t.ok
                      /\ k.refuses = "nothing" /\ size[n] <= k.maxlog =>
                           /\ k.need > size[n] => t.ok \/ t.errno = "ENOSPC"
                           /\ k.need <= size[n] /\ accepted => t.ok
                           /\ k.need <= size[n] /\ ~accepted /\ k.need > 0 => t.errno = "EACCES" /\ t.buf = "text"
                           /\ k.need > size[n] /\ ~accepted => t.errno = "ENOSPC"
                           /\ k.need > size[n] /\ load.log_level # 0 => ~t.ok
  <2> DEFINE buf == IF mem.log THEN mem.junk ELSE "none"
             errno == IF mem.log THEN "nothing" ELSE "ENOMEM"
             t == bpf_load_program_xattr(k, load, buf, size[n], errno, ~mem.info)
  <2>1. tried[n] = t
    BY DEF LoadWith
  <2>2. size[n] \in Nat /\ size[n] # 0 /\ errno # "ok" /\ (~mem.info) \in BOOLEAN
    BY <1>3 DEF Memory
  <2>3. mem.log => buf # "none"
    BY DEF Memory
  <2> HIDE DEF buf, errno
  <2>4. LoadRight(k, load, buf, size[n], ~mem.info, t)
    BY <2>2, OneLoad
  <2> HIDE DEF t, tried, accepted
  <2> QED
    BY <1>1, <2>1, <2>2, <2>3, <2>4 DEF LoadRight
<1> HIDE DEF tried, r
<1>6. through # {} => first \in through /\ first \in 0 .. d /\ \A m \in through : first <= m
  <2>1. through \subseteq Nat
    OBVIOUS
  <2> HIDE DEF through
  <2> SUFFICES ASSUME through # {} PROVE \E n \in through : \A m \in through : n <= m
    BY DEF through
  <2> QED
    BY <2>1, LeastOf
<1> HIDE DEF first
<1>7. through # {} => Fails.fds = 0 /\ Fails.ret # "ok"
                      /\ (last.buf = "text" => Fails.ret = "VERIFY")
  <2>1. through # {} => last.errno # "ok"
    BY <1>5, <1>6
  <2> HIDE DEF last
  <2> QED
    BY <2>1 DEF Failure, ProbeClosed
<1>8. r.fds = (IF r.ret = "ok" THEN 1 ELSE 0) /\ (r.ret = "ok" => accepted)
  <2> HIDE DEF last, Fails, through, accepted
  <2>1. through # {} => (last.ok => accepted)
    BY <1>5, <1>6 DEF last
  <2> QED
    BY <1>4, <1>7, <2>1
<1> SUFFICES ASSUME mem.log, mem.info
             PROVE  /\ accepted /\ (load.log_level = 0 \/ loggable) => r.ret = "ok"
                    /\ k.refuses = "nothing" /\ ~accepted /\ k.need > 0 /\ loggable => r.ret = "VERIFY"
  BY <1>8 DEF r
<1>9. through # {} /\ last.ok => r.ret = "ok"
  BY <1>4
<1>10. ASSUME accepted, load.log_level = 0 PROVE r.ret = "ok"
  <2>1. \A n \in 0 .. d : tried[n].ok
    BY <1>5, <1>10
  <2>2. 0 \in through
    BY <1>0, <2>1
  <2> QED
    BY <1>6, <1>9, <2>1, <2>2
<1>11. ASSUME k.refuses = "nothing", accepted \/ k.need > 0, load.log_level # 0 \/ ~accepted,
              NEW N \in 0 .. d, size[N] \in k.need .. k.maxlog
       PROVE  IF accepted THEN r.ret = "ok" ELSE r.ret = "VERIFY"
  <2>1. size[N] \in Nat /\ k.need <= size[N] /\ size[N] <= k.maxlog
    BY <1>2, <1>3, <1>11
  <2>2. N \in through
    BY <1>5, <1>11, <2>1
  <2>3. first \in through /\ first \in 0 .. d /\ first <= N
    BY <1>6, <2>2
  <2>4. size[first] \in Nat /\ size[first] <= k.maxlog
    BY <1>2, <1>3, <2>1, <2>3
  <2>5. last.ok \/ last.errno # "ENOSPC"
    BY <2>3
  <2>6. k.need <= size[first]
    BY <1>2, <1>5, <1>11, <2>3, <2>4, <2>5
  <2>7. CASE accepted
    BY <1>5, <1>9, <1>11, <2>3, <2>4, <2>6, <2>7
  <2>8. CASE ~accepted
    <3>1. last.buf = "text" /\ ~last.ok
      BY <1>5, <1>11, <2>3, <2>4, <2>6, <2>8
    <3> QED
      BY <1>4, <1>7, <2>3, <2>8, <3>1
  <2> QED
    BY <2>7, <2>8
<1> QED
  BY <1>2, <1>10, <1>11

(* load_program: LoadsAnswer of every call, of any kernel and program and  *)
(* however often the log buffer may be doubled.                            *)
THEOREM LoadingAnswers == LoadSpec => []LoadsAnswer
<1>1. LoadInit => LoadsAnswer
  BY DEF LoadInit, LoadsAnswer
<1>2. LoadsAnswer /\ [LoadNext]_loading => LoadsAnswer'
  <2> SUFFICES ASSUME LoadsAnswer, [LoadNext]_loading PROVE LoadsAnswer'
    OBVIOUS
  <2>1. CASE UNCHANGED loading
    BY <2>1 DEF LoadsAnswer
  <2>2. ASSUME NEW k \in Kernels, NEW load \in Loads, NEW mem \in Memory, LoadProgram(k, load, mem)
        PROVE  LoadsAnswer'
    <3>1. Answered(k, load, mem, load_program(k, load, mem, MaxDoublings))
      BY LoadAssumption, LoadsRight
    <3> QED
      BY <2>2, <3>1 DEF LoadProgram, LoadsAnswer
  <2> QED
    BY <2>1, <2>2 DEF LoadNext
<1> QED
  BY <1>1, <1>2, PTL DEF LoadSpec

-----------------------------------------------------------------------------
(* Line information.                                                       *)

(* What grows from one record to the next grows from any to a later one.   *)
LEMMA Increasing ==
  ASSUME NEW places, NEW lo \in Nat, NEW hi \in Nat,
         \A i \in lo .. hi : places[i] \in Nat,
         \A i \in lo + 1 .. hi : places[i - 1] < places[i]
  PROVE  \A i, j \in lo .. hi : i < j => places[i] < places[j]
<1> SUFFICES ASSUME lo <= hi PROVE \A i, j \in lo .. hi : i < j => places[i] < places[j]
  OBVIOUS
<1> DEFINE T == {n \in 0 .. hi - lo : \A i \in lo .. lo + n : i < lo + n => places[i] < places[lo + n]}
<1>1. 0 \in T
  OBVIOUS
<1>2. \A n \in 1 .. hi - lo : n - 1 \in T => n \in T
  <2> SUFFICES ASSUME NEW n \in 1 .. hi - lo, n - 1 \in T, NEW i \in lo .. lo + n, i < lo + n
               PROVE  places[i] < places[lo + n]
    OBVIOUS
  <2>1. lo + n \in lo + 1 .. hi /\ lo + n - 1 \in lo .. hi /\ i \in lo .. lo + (n - 1) /\ lo + n - 1 = lo + (n - 1)
    OBVIOUS
  <2>2. places[lo + n - 1] < places[lo + n] /\ places[lo + n - 1] \in Nat /\ places[lo + n] \in Nat /\ places[i] \in Nat
    BY <2>1
  <2>3. CASE i = lo + n - 1
    BY <2>2, <2>3
  <2>4. CASE i # lo + n - 1
    <3>1. places[i] < places[lo + (n - 1)]
      BY <2>1, <2>4
    <3> QED
      BY <2>1, <2>2, <3>1
  <2> QED
    BY <2>3, <2>4
<1>3. \A n \in 0 .. hi - lo : n \in T
  <2> HIDE DEF T
  <2> QED
    BY <1>1, <1>2, UpTo
<1> SUFFICES ASSUME NEW i \in lo .. hi, NEW j \in lo .. hi, i < j PROVE places[i] < places[j]
  OBVIOUS
<1>4. j - lo \in 0 .. hi - lo /\ lo + (j - lo) = j /\ i \in lo .. lo + (j - lo)
  OBVIOUS
<1> QED
  BY <1>3, <1>4

(* Walk finds the last record up to at, if the first one is.               *)
LEMMA WalkFinds ==
  ASSUME NEW places, NEW start \in Nat, NEW count \in Nat \ {0}, NEW at \in Nat,
         \A i \in start + 1 .. start + count : places[i] \in Nat,
         \A i \in start + 2 .. start + count : places[i - 1] < places[i]
  PROVE  LastUpTo(places, start + 1 .. start + count, at)
           = IF at < places[start + 1] THEN NotFound ELSE Walk(places, start, count, at)
<1> DEFINE mine == start + 1 .. start + count
           upto == {n \in mine : places[n] <= at}
           behind == {i \in 0 .. count - 1 : at < places[start + i + 1]}
           least == CHOOSE i \in behind : \A j \in behind : i <= j
           found == start + IF behind = {} THEN count ELSE least
<1>1. \A i, j \in mine : i < j => places[i] < places[j]
  <2>1. start + 1 \in Nat /\ start + count \in Nat /\ (start + 1) + 1 = start + 2
    OBVIOUS
  <2>2. \A i \in (start + 1) + 1 .. start + count : places[i - 1] < places[i]
    BY <2>1
  <2> HIDE DEF mine
  <2> QED
    BY <2>1, <2>2, Increasing DEF mine
<1>2. start + 1 \in mine /\ \A i \in mine : i # start + 1 => start + 1 < i
  OBVIOUS
<1>3. CASE at < places[start + 1]
  <2>1. upto = {}
    BY <1>1, <1>2, <1>3
  <2> QED
    BY <1>3, <2>1 DEF LastUpTo
<1>4. CASE ~(at < places[start + 1])
  <2>1. behind # {} => least \in behind /\ \A j \in behind : least <= j
    <3>1. behind \in SUBSET Nat
      OBVIOUS
    <3> HIDE DEF behind
    <3> SUFFICES ASSUME behind # {} PROVE \E m \in behind : \A n \in behind : m <= n
      OBVIOUS
    <3> QED
      BY <3>1, LeastOf
  <2> HIDE DEF least
  <2>2. found \in mine /\ (\A n \in mine : n > found => at < places[n]) /\ places[found] <= at
    <3>1. CASE behind = {}
      <4>1. found = start + count /\ start + count \in mine /\ start + (count - 1) + 1 = start + count /\ count - 1 \in 0 .. count - 1
        BY <3>1
      <4> QED
        BY <3>1, <4>1
    <3>2. CASE behind # {}
      <4>1. found = start + least /\ least \in 0 .. count - 1 /\ at < places[start + least + 1]
        BY <2>1, <3>2
      <4>2. least # 0
        BY <1>4, <4>1
      <4>a. least - 1 \in 0 .. count - 1 /\ start + (least - 1) + 1 = start + least /\ ~(least <= least - 1)
        BY <4>1, <4>2
      <4>b. least - 1 \notin behind
        <5> HIDE DEF behind
        <5> QED
          BY <2>1, <3>2, <4>a
      <4>3. least - 1 \notin behind /\ least - 1 \in 0 .. count - 1 /\ start + (least - 1) + 1 = start + least
        BY <4>a, <4>b
      <4>4. found \in mine /\ places[found] \in Nat /\ places[found] <= at
        BY <4>1, <4>2, <4>3
      <4>5. ASSUME NEW n \in mine, n > found PROVE at < places[n]
        <5>1. n = start + least + 1 \/ start + least + 1 < n
          BY <4>1, <4>5
        <5>2. start + least + 1 \in mine
          BY <4>1, <4>5
        <5>3. places[n] \in Nat /\ places[start + least + 1] \in Nat
          BY <5>2
        <5> QED
          BY <1>1, <4>1, <5>1, <5>2, <5>3
      <4> QED
        BY <4>4, <4>5
    <3> QED
      BY <3>1, <3>2
  <2> HIDE DEF found, behind
  <2> DEFINE c == CHOOSE n \in upto : \A m \in upto : places[m] <= places[n]
  <2>3. found \in upto
    BY <2>2
  <2>4. \A m \in upto : places[m] <= places[found]
    <3> TAKE m \in upto
    <3>1. m \in mine /\ m \in Nat /\ found \in Nat /\ places[m] \in Nat /\ places[found] \in Nat
      BY <2>2
    <3>2. ~(m > found)
      BY <2>2, <3>1
    <3> QED
      BY <1>1, <2>2, <3>1, <3>2
  <2>5. c \in upto /\ \A m \in upto : places[m] <= places[c]
    BY <2>3, <2>4
  <2> HIDE DEF c
  <2>6. c = found
    <3>1. c \in mine /\ c \in Nat /\ found \in Nat /\ places[c] \in Nat /\ places[found] \in Nat /\ places[c] <= at
      BY <2>2, <2>5
    <3>2. ~(c > found)
      BY <2>2, <3>1
    <3>3. ~(c < found)
      BY <1>1, <2>2, <2>3, <2>5, <3>1
    <3> QED
      BY <3>1, <3>2, <3>3
  <2>7. Walk(places, start, count, at) = found
    BY DEF Walk, found, least, behind
  <2>8. LastUpTo(places, mine, at) = c
    BY <2>3 DEF LastUpTo, c
  <2> QED
    BY <1>4, <2>6, <2>7, <2>8
<1> QED
  BY <1>3, <1>4

(* Skipping leaves the records behind the first ones.                      *)
LEMMA SkippedOnes ==
  ASSUME NEW lo \in Nat, NEW hi \in Nat, NEW skip \in Nat
  PROVE  Skipped(lo .. hi, skip) = lo + skip .. hi
<1>1. ASSUME NEW n \in lo .. hi PROVE Cardinality({m \in lo .. hi : m < n}) = n - lo
  <2> DEFINE before == {m \in lo .. hi : m < n}
  <2>1. before = lo .. n - 1
    OBVIOUS
  <2> HIDE DEF before
  <2>2. lo \in Int /\ n - 1 \in Int
    OBVIOUS
  <2>3. Cardinality(lo .. n - 1) = IF lo > n - 1 THEN 0 ELSE (n - 1) - lo + 1
    BY <2>2, FS_Interval
  <2>4. Cardinality(before) = n - lo
    <3>1. Cardinality(before) = Cardinality(lo .. n - 1)
      BY <2>1
    <3>2. CASE n = lo
      BY <3>1, <2>3, <3>2
    <3>3. CASE n # lo
      BY <3>1, <2>3, <3>3
    <3> QED
      BY <3>2, <3>3
  <2> QED
    BY <2>4 DEF before
<1>2. \A n \in lo .. hi : Cardinality({m \in lo .. hi : m < n}) >= skip <=> n \in lo + skip .. hi
  BY <1>1
<1>3. lo + skip .. hi \subseteq lo .. hi
  OBVIOUS
<1> QED
  BY <1>2, <1>3 DEF Skipped


\* a lookup among the records from lo to hi
LookUp(places, lo, hi, at, skip) ==
  IF skip >= hi - lo + 1 THEN NotFound
  ELSE IF at < places[(lo - 1) + skip + 1] THEN NotFound
  ELSE Walk(places, (lo - 1) + skip, (hi - lo + 1) - skip, at)

Ascending(places, lo, hi) ==
  /\ \A i \in lo .. hi : places[i] \in Nat
  /\ \A i \in lo + 1 .. hi : places[i - 1] < places[i]

(* It finds the nearest one before the place.                              *)
LEMMA Looks ==
  ASSUME NEW places, NEW lo \in Nat \ {0}, NEW hi \in Nat, NEW at \in Nat, NEW skip \in Nat,
         Ascending(places, lo, hi)
  PROVE  LastUpTo(places, Skipped(lo .. hi, skip), at) = LookUp(places, lo, hi, at, skip)
<1> DEFINE left == Skipped(lo .. hi, skip)
           start == (lo - 1) + skip
           count == (hi - lo + 1) - skip
<1>1. left = lo + skip .. hi
  BY SkippedOnes
<1> HIDE DEF left
<1>2. CASE skip >= hi - lo + 1
  <2>1. left = {}
    BY <1>1, <1>2
  <2>2. {n \in left : places[n] <= at} = {}
    BY <2>1
  <2>3. LastUpTo(places, left, at) = NotFound
    BY <2>2 DEF LastUpTo
  <2> QED
    BY <1>2, <2>3 DEF left, LookUp
<1>3. CASE ~(skip >= hi - lo + 1)
  <2>1. start \in Nat /\ count \in Nat \ {0} /\ start + 1 = lo + skip /\ start + count = hi
    BY <1>3
  <2>2. \A i \in start + 1 .. start + count : i \in lo .. hi
    BY <2>1
  <2>3. \A i \in start + 2 .. start + count : i \in lo + 1 .. hi
    BY <2>1
  <2>4. left = start + 1 .. start + count
    BY <1>1, <2>1
  <2> HIDE DEF start, count
  <2>5. LastUpTo(places, start + 1 .. start + count, at)
          = IF at < places[start + 1] THEN NotFound ELSE Walk(places, start, count, at)
    <3>1. \A i \in start + 1 .. start + count : places[i] \in Nat
      BY <2>2 DEF Ascending
    <3>2. \A i \in start + 2 .. start + count : places[i - 1] < places[i]
      BY <2>3 DEF Ascending
    <3> QED
      BY <2>1, <3>1, <3>2, WalkFinds
  <2> QED
    BY <1>3, <2>4, <2>5 DEF left, start, count, LookUp
<1> QED
  BY <1>2, <1>3

\* what dissect_jited_func knows before it comes to the record behind i
Dissections ==
  {d \in [idx : Seq(Nat), per : Seq(Int), f : Nat \ {0}, err : BOOLEAN] : Len(d.idx) = d.f /\ Len(d.per) = d.f - 1}

DissectedTo(info, first, d, i) ==
  /\ d \in Dissections /\ ~d.err
  /\ d.f \in DOMAIN info.ksyms
  /\ first[d.f] <= i + 1 /\ i + 1 < Behind(info, first, d.f)
  /\ \A g \in 1 .. d.f : d.idx[g] = first[g] - 1
  /\ \A g \in 1 .. d.f - 1 : d.per[g] = first[g + 1] - first[g]

Jited(info, first) ==
  /\ info \in AnyInfo /\ ~NotJited(info) /\ info.lines # <<>>
  /\ first \in [DOMAIN info.ksyms -> DOMAIN info.lines] /\ SplitAt(info, first)

LEMMA Elements ==
  ASSUME NEW seq \in Seq(Nat)
  PROVE  \A n \in 1 .. Len(seq) : seq[n] \in Nat
OBVIOUS

LEMMA Appended ==
  ASSUME NEW S, NEW seq \in Seq(S), NEW x \in S
  PROVE  Append(seq, x) \in Seq(S) /\ Len(Append(seq, x)) = Len(seq) + 1
OBVIOUS

LEMMA StepKeeps ==
  ASSUME NEW info, NEW i \in Nat, NEW d \in Dissections
  PROVE  DissectStep(info, d, i) \in Dissections
<1> DEFINE e == [[[d EXCEPT !.idx = Append(d.idx, i)] EXCEPT !.per = Append(d.per, CountTo(i, d.idx[d.f]))]
                   EXCEPT !.f = d.f + 1]
<1>1. /\ d.f \in Nat \ {0} /\ d.idx \in Seq(Nat) /\ d.per \in Seq(Int) /\ d.err \in BOOLEAN
      /\ Len(d.idx) = d.f /\ Len(d.per) = d.f - 1
  BY DEF Dissections
<1>2. e \in Dissections
  <2>1. d.idx[d.f] \in Nat
    <3>1. \A n \in 1 .. Len(d.idx) : d.idx[n] \in Nat
      BY <1>1, Elements
    <3> QED
      BY <1>1, <3>1
  <2>2. CountTo(i, d.idx[d.f]) \in Int
    BY <2>1 DEF CountTo
  <2>3. /\ Append(d.idx, i) \in Seq(Nat) /\ Append(d.per, CountTo(i, d.idx[d.f])) \in Seq(Int)
        /\ d.f + 1 \in Nat \ {0} /\ Len(Append(d.idx, i)) = d.f + 1
        /\ Len(Append(d.per, CountTo(i, d.idx[d.f]))) = (d.f + 1) - 1
    <3>1. Append(d.idx, i) \in Seq(Nat) /\ Len(Append(d.idx, i)) = d.f + 1
      BY <1>1, Appended
    <3>2. /\ Append(d.per, CountTo(i, d.idx[d.f])) \in Seq(Int)
          /\ Len(Append(d.per, CountTo(i, d.idx[d.f]))) = (d.f - 1) + 1
      BY <1>1, <2>2, Appended
    <3> QED
      BY <1>1, <3>1, <3>2
  <2>4. /\ e.idx = Append(d.idx, i) /\ e.per = Append(d.per, CountTo(i, d.idx[d.f])) /\ e.f = d.f + 1
        /\ e \in [idx : Seq(Nat), per : Seq(Int), f : Nat \ {0}, err : BOOLEAN]
    BY <2>3 DEF Dissections
  <2> HIDE DEF e
  <2> QED
    BY <2>3, <2>4 DEF Dissections
<1>3. \A b \in BOOLEAN : [d EXCEPT !.err = b] \in Dissections
  BY DEF Dissections
<1>4. \/ DissectStep(info, d, i) = d \/ DissectStep(info, d, i) = e
      \/ \E b \in BOOLEAN : DissectStep(info, d, i) = [d EXCEPT !.err = b]
  <2> DEFINE last == info.jited[i]
             now == info.jited[i + 1]
  <2>1. CASE d.err \/ d.f >= Len(info.ksyms)
    BY <2>1 DEF DissectStep
  <2>2. CASE ~(d.err \/ d.f >= Len(info.ksyms)) /\ info.ksyms[d.f + 1] = now /\ last - info.ksyms[d.f] + 1 > info.lens[d.f]
    BY <2>2 DEF DissectStep
  <2>3. CASE ~(d.err \/ d.f >= Len(info.ksyms)) /\ info.ksyms[d.f + 1] = now /\ ~(last - info.ksyms[d.f] + 1 > info.lens[d.f])
    BY <2>3 DEF DissectStep
  <2>4. CASE ~(d.err \/ d.f >= Len(info.ksyms)) /\ info.ksyms[d.f + 1] # now
    <3>1. DissectStep(info, d, i) = [d EXCEPT !.err = (now <= last)]
      BY <2>4 DEF DissectStep
    <3>2. (now <= last) \in BOOLEAN
      OBVIOUS
    <3> QED
      BY <3>1, <3>2
  <2> QED
    BY <2>1, <2>2, <2>3, <2>4
<1> HIDE DEF e
<1> QED
  BY <1>2, <1>3, <1>4

(* One record more.                                                        *)
LEMMA DissectSteps ==
  ASSUME NEW info, NEW first, Jited(info, first),
         NEW i \in 1 .. Len(info.lines) - 1, NEW d, DissectedTo(info, first, d, i - 1)
  PROVE  DissectedTo(info, first, DissectStep(info, d, i), i)
<1> DEFINE n == Len(info.ksyms)
           N == Len(info.lines)
           f == d.f
           last == info.jited[i]
           now == info.jited[i + 1]
<1>1. /\ n \in Nat /\ N \in Nat /\ f \in 1 .. n /\ d.idx \in Seq(Nat) /\ d.per \in Seq(Int)
      /\ Len(d.idx) = f /\ Len(d.per) = f - 1 /\ ~d.err /\ d \in Dissections
  <2>1. info.ksyms \in Seq(Nat) /\ info.lines \in Seq(Nat)
    BY DEF Jited, AnyInfo
  <2>2. n \in Nat /\ N \in Nat /\ DOMAIN info.ksyms = 1 .. n
    BY <2>1
  <2>3. d \in Dissections /\ ~d.err /\ f \in DOMAIN info.ksyms
    BY DEF DissectedTo
  <2>4. d.idx \in Seq(Nat) /\ d.per \in Seq(Int) /\ Len(d.idx) = f /\ Len(d.per) = f - 1
    BY <2>3 DEF Dissections
  <2> QED
    BY <2>2, <2>3, <2>4
<1>2. /\ first[f] <= i /\ i < Behind(info, first, f)
      /\ \A g \in 1 .. f : d.idx[g] = first[g] - 1
      /\ \A g \in 1 .. f - 1 : d.per[g] = first[g + 1] - first[g]
  BY DEF DissectedTo
<1>3. /\ \A g \in 1 .. n : first[g] \in 1 .. N /\ info.ksyms[g] \in Nat /\ info.lens[g] \in Nat
      /\ \A m \in 1 .. N : info.jited[m] \in Nat
  <2>1. /\ info.ksyms \in Seq(Nat) /\ info.lens \in Seq(Nat) /\ info.jited \in Seq(Nat) /\ info.lines \in Seq(Nat)
        /\ Len(info.lens) = n /\ Len(info.jited) = N
    BY DEF Jited, AnyInfo, NotJited
  <2>2. DOMAIN info.ksyms = 1 .. n /\ DOMAIN info.lens = 1 .. n /\ DOMAIN info.jited = 1 .. N /\ DOMAIN info.lines = 1 .. N
    BY <2>1
  <2>3. \A g \in 1 .. n : first[g] \in 1 .. N
    BY <2>2 DEF Jited
  <2>4. \A g \in 1 .. n : info.ksyms[g] \in Nat /\ info.lens[g] \in Nat
    <3>1. \A g \in 1 .. Len(info.ksyms) : info.ksyms[g] \in Nat
      BY <2>1, Elements
    <3>2. \A g \in 1 .. Len(info.lens) : info.lens[g] \in Nat
      BY <2>1, Elements
    <3> QED
      BY <2>1, <3>1, <3>2
  <2>5. \A m \in 1 .. N : info.jited[m] \in Nat
    <3>1. \A g \in 1 .. Len(info.jited) : info.jited[g] \in Nat
      BY <2>1, Elements
    <3> QED
      BY <2>1, <3>1
  <2> QED
    BY <2>3, <2>4, <2>5
<1>7. /\ i \in Nat /\ i + 1 \in Nat /\ i \in 1 .. N /\ i + 1 \in 1 .. N /\ f \in Nat
      /\ first[f] \in Nat /\ first[f] <= N /\ info.ksyms[f] \in Nat /\ info.lens[f] \in Nat
      /\ last \in Nat /\ now \in Nat
  <2>1. i \in Nat /\ i + 1 \in Nat /\ i \in 1 .. N /\ i + 1 \in 1 .. N
    BY <1>1
  <2>2. f \in Nat /\ f \in 1 .. n
    BY <1>1
  <2>3. first[f] \in 1 .. N /\ info.ksyms[f] \in Nat /\ info.lens[f] \in Nat
    BY <1>1, <1>3
  <2>4. last \in Nat /\ now \in Nat
    BY <1>3, <2>1
  <2>5. first[f] \in Nat /\ first[f] <= N
    BY <1>1, <2>3
  <2> QED
    BY <2>1, <2>2, <2>3, <2>4, <2>5
<1>4. \A g \in 1 .. n :
        /\ first[g] < Behind(info, first, g)
        /\ info.jited[first[g]] = info.ksyms[g]
        /\ \A m \in first[g] .. Behind(info, first, g) - 1 :
             info.jited[m] \in Code(info, g) /\ (m # first[g] => info.jited[m - 1] < info.jited[m])
        /\ \A h \in 1 .. n : g # h => Code(info, g) \cap Code(info, h) = {}
  <2>1. DOMAIN info.ksyms = 1 .. n
    BY DEF Jited, AnyInfo
  <2> QED
    BY <2>1 DEF Jited, SplitAt
<1>5. CASE f >= n
  <2>1. DissectStep(info, d, i) = d
    BY <1>5 DEF DissectStep
  <2>2. f = n /\ Behind(info, first, f) = N + 1
    BY <1>1, <1>5 DEF Behind
  <2>3. first[f] <= i + 1 /\ i + 1 < Behind(info, first, f)
    <3>1. first[f] <= i /\ first[f] \in Nat /\ i \in Nat /\ N \in Nat /\ i < N
      BY <1>1, <1>2, <1>7
    <3> HIDE DEF f, N
    <3> QED
      BY <2>2, <3>1
  <2>4. d.f \in DOMAIN info.ksyms
    BY DEF DissectedTo
  <2> HIDE DEF N, n
  <2>5. DissectedTo(info, first, d, i)
    BY <1>1, <1>2, <2>3, <2>4 DEF DissectedTo
  <2> QED
    BY <2>1, <2>5
<1>6. CASE f < n
  <2>1. Behind(info, first, f) = first[f + 1] /\ f + 1 \in 1 .. n /\ first[f + 1] \in 1 .. N
    BY <1>1, <1>3, <1>6 DEF Behind
  <2>2. i \in first[f] .. Behind(info, first, f) - 1
    BY <1>1, <1>2, <1>3, <2>1
  <2>3. CASE first[f + 1] = i + 1
    <3> DEFINE e == [[[d EXCEPT !.idx = Append(d.idx, i)] EXCEPT !.per = Append(d.per, CountTo(i, d.idx[f]))]
                       EXCEPT !.f = f + 1]
    <3>1. info.ksyms[f + 1] = now
      BY <1>4, <2>1, <2>3
    <3>2. ~(last - info.ksyms[f] + 1 > info.lens[f])
      <4>1. last \in Code(info, f)
        BY <1>1, <1>4, <2>2
      <4>2. last < info.ksyms[f] + info.lens[f]
        BY <1>7, <4>1 DEF Code
      <4> QED
        BY <1>7, <4>2
    <3>3. DissectStep(info, d, i) = e
      BY <1>1, <1>6, <3>1, <3>2 DEF DissectStep
    <3>4. CountTo(i, d.idx[f]) = first[f + 1] - first[f]
      <4>1. d.idx[f] = first[f] - 1
        <5>1. f \in 1 .. f
          BY <1>1
        <5>2. \A g \in 1 .. f : d.idx[g] = first[g] - 1
          BY <1>2
        <5> HIDE DEF f
        <5> QED
          BY <5>1, <5>2
      <4>2. i \in Nat /\ first[f] \in Nat /\ first[f + 1] = i + 1
        BY <1>7, <2>3
      <4> HIDE DEF f
      <4> QED
        BY <4>1, <4>2 DEF CountTo
    <3>5. /\ e.idx = Append(d.idx, i) /\ e.per = Append(d.per, CountTo(i, d.idx[f]))
          /\ e.f = f + 1 /\ e.err = FALSE
      BY <1>1 DEF Dissections
    <3>7. e \in Dissections
      BY <1>1, <1>7, <3>3, StepKeeps
    <3> HIDE DEF e
    <3>8. first[f + 1] <= i + 1 /\ i + 1 < Behind(info, first, f + 1)
      BY <1>4, <2>1, <2>3
    <3>9. ASSUME NEW g \in 1 .. f + 1 PROVE e.idx[g] = first[g] - 1
      <4>1. CASE g = f + 1
        BY <1>1, <2>3, <3>5, <4>1
      <4>2. CASE g # f + 1
        <5>1. g \in 1 .. f
          BY <1>7, <4>2
        <5> QED
          BY <1>1, <1>2, <3>5, <5>1
      <4> QED
        BY <4>1, <4>2
    <3>10. ASSUME NEW g \in 1 .. (f + 1) - 1 PROVE e.per[g] = first[g + 1] - first[g]
      <4>1. CASE g = f
        BY <1>1, <3>4, <3>5, <4>1
      <4>2. CASE g # f
        <5>1. g \in 1 .. f - 1
          BY <1>7, <4>2
        <5> QED
          BY <1>1, <1>2, <3>5, <5>1
      <4> QED
        BY <4>1, <4>2
    <3>11. f + 1 \in DOMAIN info.ksyms
      BY <1>1, <2>1 DEF Jited, AnyInfo
    <3> HIDE DEF f
    <3> QED
      BY <3>3, <3>5, <3>7, <3>8, <3>9, <3>10, <3>11 DEF DissectedTo
  <2>4. CASE first[f + 1] # i + 1
    <3>1. i + 1 < first[f + 1] /\ i + 1 \in first[f] .. Behind(info, first, f) - 1 /\ i + 1 # first[f]
      <4>1. first[f + 1] \in Nat /\ first[f] <= i /\ i < first[f + 1]
        BY <1>2, <2>1
      <4> QED
        BY <1>7, <2>1, <2>4, <4>1
    <3>2. now \in Code(info, f) /\ last < now
      <4>1. info.jited[(i + 1) - 1] = last
        OBVIOUS
      <4> QED
        BY <1>1, <1>4, <3>1, <4>1
    <3>3. info.ksyms[f + 1] \in Code(info, f + 1)
      <4>1. first[f + 1] \in first[f + 1] .. Behind(info, first, f + 1) - 1
        <5>1. Behind(info, first, f + 1) \in Int
          BY <1>1, <1>3, <2>1 DEF Behind
        <5> QED
          BY <1>3, <1>4, <2>1, <5>1
      <4> QED
        BY <1>4, <2>1, <4>1
    <3>4. info.ksyms[f + 1] # now
      <4>1. Code(info, f) \cap Code(info, f + 1) = {}
        <5>1. f # f + 1 /\ f \in 1 .. n
          BY <1>1
        <5> QED
          BY <1>4, <2>1, <5>1
      <4> QED
        BY <3>2, <3>3, <4>1
    <3>5. ~(now <= last) /\ d.err = FALSE
      <4>1. ~(now <= last)
        BY <1>7, <3>2
      <4>2. d.err \in BOOLEAN
        BY <1>1 DEF Dissections
      <4> QED
        BY <1>1, <4>1, <4>2
    <3>6. DissectStep(info, d, i) = [d EXCEPT !.err = FALSE]
      <4>1. (now <= last) = FALSE
        BY <3>5
      <4>2. ~(d.err \/ d.f >= n)
        BY <1>6, <1>7, <3>5
      <4>3. DissectStep(info, d, i) = [d EXCEPT !.err = now <= last]
        BY <3>4, <4>2 DEF DissectStep
      <4> QED
        BY <4>1, <4>3
    <3>7. [d EXCEPT !.err = FALSE] = d
      BY <1>1, <3>5 DEF Dissections
    <3>8. first[f] <= i + 1 /\ i + 1 < Behind(info, first, f)
      BY <1>1, <1>2, <1>3, <2>1, <3>1
    <3> QED
      BY <3>6, <3>7, <3>8 DEF DissectedTo
  <2> QED
    BY <2>3, <2>4
<1> QED
  BY <1>1, <1>5, <1>6

(* The functions, and that every record is in one of them.                 *)
LEMMA Dissects ==
  ASSUME NEW info, NEW first, Jited(info, first)
  PROVE  \A i \in 0 .. Len(info.lines) - 1 : DissectedTo(info, first, Dissected(info)[i], i)
<1> DEFINE N == Len(info.lines)
           start == [idx |-> <<0>>, per |-> <<>>, f |-> 1, err |-> info.ksyms[1] # info.jited[1]]
           step == [i \in 1 .. N - 1 |-> [d \in Dissections |-> DissectStep(info, d, i)]]
           Follows(g) == g = [i \in 0 .. N - 1 |-> IF i = 0 THEN start ELSE DissectStep(info, g[i - 1], i)]
           after == Dissected(info)
<1>1. N \in Nat /\ N # 0 /\ N - 1 \in Nat
  <2>1. info.lines \in Seq(Nat) /\ info.lines # <<>>
    BY DEF Jited, AnyInfo
  <2> QED
    BY <2>1
<1>2. DissectedTo(info, first, start, 0)
  <2>1. 1 \in DOMAIN info.ksyms
    BY DEF Jited, AnyInfo, NotJited
  <2>2. first[1] = 1 /\ info.jited[first[1]] = info.ksyms[1] /\ first[1] < Behind(info, first, 1)
    BY <2>1 DEF Jited, SplitAt
  <2>3. start \in Dissections /\ start.err = FALSE
    <3>1. start.err = FALSE
      BY <2>2
    <3>2. <<0>> \in Seq(Nat) /\ <<>> \in Seq(Int) /\ Len(<<0>>) = 1 /\ Len(<<>>) = 1 - 1
      OBVIOUS
    <3>3. start = [idx |-> <<0>>, per |-> <<>>, f |-> 1, err |-> FALSE]
      <4>1. (info.ksyms[1] # info.jited[1]) = FALSE
        BY <2>2
      <4> QED
        BY <4>1
    <3> HIDE DEF start
    <3>4. /\ start \in [idx : Seq(Nat), per : Seq(Int), f : Nat \ {0}, err : BOOLEAN]
          /\ start.idx = <<0>> /\ start.per = <<>> /\ start.f = 1 /\ start.err = FALSE
      BY <3>2, <3>3
    <3>5. Len(start.idx) = start.f /\ Len(start.per) = start.f - 1
      BY <3>2, <3>4
    <3> QED
      BY <3>4, <3>5 DEF Dissections
  <2>4. start.f = 1 /\ start.idx = <<0>>
    OBVIOUS
  <2> HIDE DEF start
  <2> QED
    BY <2>1, <2>2, <2>3, <2>4 DEF DissectedTo
<1>3. start \in Dissections
  BY <1>2 DEF DissectedTo
<1> HIDE DEF start
<1>4. step \in [1 .. N - 1 -> [Dissections -> Dissections]]
  <2>1. \A i \in 1 .. N - 1, d \in Dissections : DissectStep(info, d, i) \in Dissections
    BY StepKeeps
  <2> QED
    BY <2>1
<1>5. \A i \in 1 .. N - 1, d \in Dissections : step[i][d] = DissectStep(info, d, i)
  OBVIOUS
<1> HIDE DEF step
<1>6. PICK g : Recurses(g, N - 1, Dissections, start, step)
  <2> HIDE DEF N
  <2> QED
    BY <1>1, <1>3, <1>4, Recursion
<1>7. \A i \in 0 .. N - 1 : g[i] = IF i = 0 THEN start ELSE DissectStep(info, g[i - 1], i)
  <2> TAKE i \in 0 .. N - 1
  <2>1. CASE i # 0
    <3>1. i \in 1 .. N - 1 /\ i - 1 \in 0 .. N - 1
      BY <1>1, <2>1
    <3>2. g[i] = step[i][g[i - 1]] /\ g[i - 1] \in Dissections
      BY <1>6, <3>1 DEF Recurses
    <3> QED
      BY <1>5, <2>1, <3>1, <3>2
  <2> QED
    BY <1>6, <2>1 DEF Recurses
<1>8. Follows(g)
  <2>1. g = [i \in 0 .. N - 1 |-> g[i]]
    BY <1>6 DEF Recurses
  <2> QED
    BY <1>7, <2>1
<1>9. Follows(after)
  <2>1. Follows(CHOOSE h : Follows(h))
    BY <1>8
  <2> QED
    BY <2>1 DEF Dissected, start
<1> HIDE DEF after
<1>10. after[0] = start /\ \A i \in 1 .. N - 1 : after[i] = DissectStep(info, after[i - 1], i)
  <2>1. 0 \in 0 .. N - 1 /\ \A i \in 1 .. N - 1 : i \in 0 .. N - 1 /\ i # 0
    BY <1>1
  <2> QED
    BY <1>9, <2>1
<1> DEFINE T == {i \in 0 .. N - 1 : DissectedTo(info, first, after[i], i)}
<1>11. 0 \in T
  BY <1>1, <1>2, <1>10
<1>12. \A i \in 1 .. N - 1 : i - 1 \in T => i \in T
  BY <1>10, DissectSteps
<1>13. \A i \in 0 .. N - 1 : i \in T
  <2> HIDE DEF T, N
  <2> QED
    BY <1>1, <1>11, <1>12, UpTo
<1> QED
  BY <1>13 DEF after

(* The records of a function are the ones from its first one on.           *)
LEMMA Owned ==
  ASSUME NEW info, NEW first, Jited(info, first), NEW f \in DOMAIN info.ksyms
  PROVE  /\ OwnRecords(info, f) = first[f] .. Behind(info, first, f) - 1
         /\ first[f] \in 1 .. Len(info.lines) /\ Behind(info, first, f) \in 1 .. Len(info.lines) + 1
<1> DEFINE n == Len(info.ksyms)
           N == Len(info.lines)
<1>1. /\ info.jited \in Seq(Nat) /\ info.lines \in Seq(Nat) /\ info.ksyms \in Seq(Nat)
      /\ Len(info.jited) = N /\ first \in [DOMAIN info.ksyms -> DOMAIN info.lines] /\ SplitAt(info, first)
  BY DEF Jited, AnyInfo, NotJited
<1>2. DOMAIN info.jited = 1 .. N /\ DOMAIN info.lines = 1 .. N /\ DOMAIN info.ksyms = 1 .. n /\ n \in Nat /\ N \in Nat
  BY <1>1
<1>3. \A g \in 1 .. n : first[g] \in 1 .. N /\ Behind(info, first, g) \in 1 .. N + 1
  <2> TAKE g \in 1 .. n
  <2>1. \A h \in 1 .. n : first[h] \in 1 .. N
    BY <1>1, <1>2
  <2>2. CASE g = n
    BY <1>2, <2>1, <2>2 DEF Behind
  <2>3. CASE g # n
    <3>1. g + 1 \in 1 .. n
      BY <1>2, <2>3
    <3> QED
      BY <1>2, <2>1, <2>3, <3>1 DEF Behind
  <2> QED
    BY <2>2, <2>3
<1>4. \A g \in 1 .. n : \A m \in first[g] .. Behind(info, first, g) - 1 : info.jited[m] \in Code(info, g)
  BY <1>1, <1>2 DEF SplitAt
<1>5. ASSUME NEW m \in 1 .. N, info.jited[m] \in Code(info, f)
      PROVE  m \in first[f] .. Behind(info, first, f) - 1
  <2>1. m - 1 \in 0 .. N - 1 /\ (m - 1) + 1 = m
    BY <1>2
  <2>2. PICK d : DissectedTo(info, first, d, m - 1)
    BY <2>1, Dissects
  <2>3. d.f \in 1 .. n /\ first[d.f] <= m /\ m < Behind(info, first, d.f)
    BY <1>2, <2>1, <2>2 DEF DissectedTo
  <2>4. m \in first[d.f] .. Behind(info, first, d.f) - 1
    BY <1>2, <1>3, <2>3
  <2>5. info.jited[m] \in Code(info, d.f)
    BY <1>4, <2>3, <2>4
  <2>6. d.f = f
    BY <1>1, <1>2, <1>5, <2>3, <2>5 DEF SplitAt
  <2> QED
    BY <2>4, <2>6
<1>6. ASSUME NEW m \in first[f] .. Behind(info, first, f) - 1
      PROVE  m \in 1 .. N /\ info.jited[m] \in Code(info, f)
  <2>1. m \in 1 .. N
    BY <1>2, <1>3
  <2> QED
    BY <1>2, <1>4, <2>1
<1>7. OwnRecords(info, f) = first[f] .. Behind(info, first, f) - 1
  <2>1. \A m : m \in OwnRecords(info, f) <=> m \in 1 .. N /\ info.jited[m] \in Code(info, f)
    BY <1>2 DEF OwnRecords
  <2>2. \A m : m \in OwnRecords(info, f) <=> m \in first[f] .. Behind(info, first, f) - 1
    BY <1>5, <1>6, <2>1
  <2>3. OwnRecords(info, f) \subseteq first[f] .. Behind(info, first, f) - 1
    BY <2>2
  <2>4. first[f] .. Behind(info, first, f) - 1 \subseteq OwnRecords(info, f)
    BY <2>2
  <2> QED
    BY <2>3, <2>4
<1> QED
  BY <1>2, <1>3, <1>7

(* The struct of a program whose functions are dissected.                  *)
LEMMA Made ==
  ASSUME NEW info, NEW first, Jited(info, first)
  PROVE  LET struct == bpf_prog_linfo__new(info)
         IN  /\ struct.ok /\ struct.lines = info.lines /\ struct.jited = info.jited
             /\ Len(struct.per) = Len(info.ksyms)
             /\ \A f \in DOMAIN info.ksyms :
                  struct.idx[f] = first[f] - 1 /\ struct.per[f] = Behind(info, first, f) - first[f]
<1> DEFINE n == Len(info.ksyms)
           N == Len(info.lines)
           d == Dissected(info)[N - 1]
           dissected == dissect_jited_func(info)
           struct == bpf_prog_linfo__new(info)
<1>1. /\ info.lines \in Seq(Nat) /\ info.lines # <<>> /\ info.ksyms \in Seq(Nat) /\ ~NotJited(info)
      /\ n \in Nat /\ N \in Nat /\ N # 0 /\ DOMAIN info.ksyms = 1 .. n /\ DOMAIN info.lines = 1 .. N
  <2>1. info.lines \in Seq(Nat) /\ info.lines # <<>> /\ info.ksyms \in Seq(Nat) /\ ~NotJited(info)
    BY DEF Jited, AnyInfo
  <2> QED
    BY <2>1
<1>2. DissectedTo(info, first, d, N - 1)
  <2>1. N - 1 \in 0 .. N - 1
    BY <1>1
  <2> QED
    BY <2>1, Dissects
<1> HIDE DEF d
<1>3. /\ d \in Dissections /\ ~d.err /\ d.f \in 1 .. n /\ N < Behind(info, first, d.f)
      /\ \A g \in 1 .. d.f : d.idx[g] = first[g] - 1
      /\ \A g \in 1 .. d.f - 1 : d.per[g] = first[g + 1] - first[g]
  <2>1. (N - 1) + 1 = N
    BY <1>1
  <2> QED
    BY <1>1, <1>2, <2>1 DEF DissectedTo
<1>4. d.f = n
  <2> SUFFICES ASSUME d.f # n PROVE FALSE
    OBVIOUS
  <2>1. d.f + 1 \in 1 .. n
    BY <1>1, <1>3
  <2>2. first[d.f + 1] \in 1 .. N
    BY <1>1, <2>1 DEF Jited
  <2> QED
    BY <1>1, <1>3, <2>2 DEF Behind
<1> DEFINE x == N - d.idx[d.f]
           per == Append(d.per, x)
<1>5. dissected = [d EXCEPT !.per = per]
  <2>1. ~(d.err \/ d.f # n)
    BY <1>3, <1>4
  <2> QED
    BY <2>1 DEF dissect_jited_func, d
<1>6. d.per \in Seq(Int) /\ Len(d.per) = n - 1 /\ n \in 1 .. n /\ d.idx[n] = first[n] - 1 /\ first[n] \in 1 .. N
  <2>1. d.per \in Seq(Int) /\ Len(d.per) = n - 1
    BY <1>3, <1>4 DEF Dissections
  <2>2. n \in 1 .. n
    BY <1>3, <1>4
  <2> QED
    BY <1>1, <1>3, <1>4, <2>1, <2>2 DEF Jited
<1>7. x = (N + 1) - first[n] /\ x \in Int
  BY <1>1, <1>4, <1>6
<1> HIDE DEF x
<1>8. Len(per) = n /\ \A f \in 1 .. n : per[f] = Behind(info, first, f) - first[f]
  <2>1. Len(per) = n /\ per[n] = x
    BY <1>1, <1>6, <1>7
  <2>2. ASSUME NEW f \in 1 .. n, f # n PROVE per[f] = Behind(info, first, f) - first[f]
    <3>1. f \in 1 .. n - 1
      BY <1>1, <2>2
    <3>2. per[f] = d.per[f]
      <4> DEFINE old == d.per
      <4>1. old \in Seq(Int) /\ x \in Int /\ f \in 1 .. Len(old)
        BY <1>6, <1>7, <3>1
      <4> HIDE DEF old
      <4>2. Append(old, x)[f] = old[f]
        BY ONLY <4>1
      <4> QED
        BY <4>2 DEF old
    <3> QED
      BY <1>3, <1>4, <2>2, <3>1, <3>2 DEF Behind
  <2>3. per[n] = Behind(info, first, n) - first[n]
    BY <1>7, <2>1 DEF Behind
  <2> QED
    BY <2>1, <2>2, <2>3
<1> HIDE DEF per
<1>9. dissected.err = FALSE /\ dissected.idx = d.idx /\ dissected.per = per
  <2>1. d.err = FALSE
    BY <1>3 DEF Dissections
  <2> QED
    BY <1>3, <1>5, <2>1 DEF Dissections
<1> HIDE DEF dissected
<1>10. struct = [lines |-> info.lines, jited |-> info.jited, idx |-> d.idx, per |-> per, ok |-> TRUE]
  BY <1>1, <1>9 DEF bpf_prog_linfo__new, dissected
<1> HIDE DEF struct
<1>11. /\ struct.ok /\ struct.lines = info.lines /\ struct.jited = info.jited
       /\ struct.idx = d.idx /\ struct.per = per
  BY <1>10
<1> QED
  BY <1>1, <1>3, <1>4, <1>8, <1>11 DEF struct

(* Every lookup finds the nearest line before the place.                   *)
LEMMA FindsAll ==
  ASSUME NEW info \in AnyInfo, KernelInfo(info), Offsets \subseteq Nat
  PROVE  FindsLines(info, bpf_prog_linfo__new(info))
<1> DEFINE struct == bpf_prog_linfo__new(info)
           N == Len(info.lines)
<1>1. info.lines \in Seq(Nat) /\ info.lines # <<>> /\ N \in Nat /\ N # 0 /\ DOMAIN info.lines = 1 .. N
  <2>1. info.lines \in Seq(Nat) /\ info.lines # <<>>
    BY DEF AnyInfo, KernelInfo
  <2> QED
    BY <2>1
<1>2. struct.ok /\ struct.lines = info.lines
  <2>1. CASE NotJited(info)
    BY <1>1, <2>1 DEF bpf_prog_linfo__new
  <2>2. CASE ~NotJited(info)
    <3>1. PICK first \in [DOMAIN info.ksyms -> DOMAIN info.lines] : SplitAt(info, first)
      BY <2>2 DEF KernelInfo
    <3>2. Jited(info, first)
      BY <1>1, <2>2, <3>1 DEF Jited
    <3> QED
      BY <3>2, Made
  <2> QED
    BY <2>1, <2>2
<1>3. ASSUME NEW off \in Nat, NEW skip \in Nat
      PROVE  lfind(struct, off, skip) = LastUpTo(info.lines, Skipped(DOMAIN info.lines, skip), off)
  <2>1. (\A i \in 1 .. N : info.lines[i] \in Nat) /\ \A i \in 2 .. N : info.lines[i - 1] < info.lines[i]
    BY <1>1 DEF KernelInfo
  <2>2. LastUpTo(info.lines, Skipped(1 .. N, skip), off) = LookUp(info.lines, 1, N, off, skip)
    <3>1. Ascending(info.lines, 1, N)
      BY <2>1 DEF Ascending
    <3> HIDE DEF N
    <3> QED
      BY <1>1, <3>1, Looks
  <2>3. N - 1 + 1 = N /\ (1 - 1) + skip = skip
    BY <1>1
  <2> HIDE DEF struct
  <2> QED
    BY <1>1, <1>2, <2>2, <2>3 DEF lfind, LookUp
<1>4. ASSUME NEW off \in Nat, NEW skip \in Nat, ~NotJited(info), NEW f \in DOMAIN info.ksyms
      PROVE  lfind_addr_func(struct, info.ksyms[f] + off, f - 1, skip)
               = LastUpTo(info.jited, Skipped(OwnRecords(info, f), skip), info.ksyms[f] + off)
  <2>1. PICK first \in [DOMAIN info.ksyms -> DOMAIN info.lines] : SplitAt(info, first)
    BY <1>4 DEF KernelInfo
  <2>2. Jited(info, first)
    BY <1>1, <1>4, <2>1 DEF Jited
  <2> DEFINE lo == first[f]
             hi == Behind(info, first, f) - 1
             at == info.ksyms[f] + off
             n == Len(info.ksyms)
  <2>3. /\ struct.jited = info.jited /\ Len(struct.per) = n
        /\ struct.idx[f] = lo - 1 /\ struct.per[f] = Behind(info, first, f) - lo
    BY <2>2, Made
  <2>4. /\ OwnRecords(info, f) = lo .. hi
        /\ lo \in 1 .. N /\ Behind(info, first, f) \in 1 .. N + 1
    BY <2>2, Owned
  <2>5. lo \in Nat \ {0} /\ hi \in Nat /\ hi <= N /\ Behind(info, first, f) - lo = hi - lo + 1
    BY <1>1, <2>4
  <2>6. f \in 1 .. n /\ n \in Nat /\ info.ksyms[f] \in Nat /\ f - 1 < n /\ (f - 1) + 1 = f
    <3>1. info.ksyms \in Seq(Nat)
      BY DEF AnyInfo
    <3>2. f \in 1 .. n /\ n \in Nat
      BY <3>1
    <3> QED
      BY <3>1, <3>2, Elements
  <2>7. at \in Nat
    BY <2>6
  <2>8. \A i \in lo .. hi : info.jited[i] \in Nat
    <3>1. info.jited \in Seq(Nat) /\ Len(info.jited) = N
      BY <1>4 DEF AnyInfo, NotJited
    <3>2. \A i \in 1 .. N : info.jited[i] \in Nat
      BY <3>1, Elements
    <3>3. \A i \in lo .. hi : i \in 1 .. N
      BY <1>1, <2>5
    <3> QED
      BY <3>2, <3>3
  <2>9. \A i \in lo + 1 .. hi : info.jited[i - 1] < info.jited[i]
    <3>1. \A i \in lo + 1 .. hi : i \in lo .. hi /\ i # lo
      BY <2>5
    <3>2. \A i \in lo .. hi : i # lo => info.jited[i - 1] < info.jited[i]
      BY <2>1 DEF SplitAt
    <3> QED
      BY <3>1, <3>2
  <2> HIDE DEF lo, hi, at, struct
  <2>10. LastUpTo(info.jited, Skipped(lo .. hi, skip), at) = LookUp(info.jited, lo, hi, at, skip)
    <3>1. Ascending(info.jited, lo, hi)
      BY <2>8, <2>9 DEF Ascending
    <3> QED
      BY <2>5, <2>7, <3>1, Looks
  <2>11. lfind_addr_func(struct, at, f - 1, skip) = LookUp(info.jited, lo, hi, at, skip)
    <3>1. ~(f - 1 >= Len(struct.per))
      BY <2>3, <2>6
    <3> HIDE DEF n
    <3> QED
      BY <2>3, <2>5, <2>6, <3>1 DEF lfind_addr_func, LookUp
  <2> QED
    BY <2>4, <2>10, <2>11 DEF at
<1> HIDE DEF struct
<1> QED
  BY <1>2, <1>3, <1>4 DEF FindsLines, struct

(* bpf_prog_linfo__new and the lookups: LinesFound of any program whose    *)
(* line information is as the kernel promises it.                          *)
THEOREM LinesAreFound == LinfoSpec => []LinesFound
<1>1. LinfoInit => LinesFound
  BY DEF LinfoInit, LinesFound
<1>2. LinesFound /\ [LinfoNext]_prog_linfo => LinesFound'
  <2> SUFFICES ASSUME LinesFound, [LinfoNext]_prog_linfo PROVE LinesFound'
    OBVIOUS
  <2>1. CASE UNCHANGED prog_linfo
    BY <2>1 DEF LinesFound
  <2>2. ASSUME NEW info \in Infos, Make(info) PROVE LinesFound'
    <3>1. FindsLines(info, bpf_prog_linfo__new(info))
      BY LinfoAssumption, FindsAll
    <3> QED
      BY <2>2, <3>1 DEF Make, LinesFound
  <2> QED
    BY <2>1, <2>2 DEF LinfoNext
<1> QED
  BY <1>1, <1>2, PTL DEF LinfoSpec

-----------------------------------------------------------------------------
(* Netlink: the call.                                                      *)

\* the attributes that an interface with programs has, by type
ParsedXdp(progs) == [t \in XdpTypes(progs) |-> XdpValue(progs, t)]

(* The invariant of a call over netlink.  What a call and its socket are:  *)
NlShape ==
  /\ nl = [pc |-> nl.pc, fn |-> nl.fn, ifindex |-> nl.ifindex, flags |-> nl.flags, seq |-> nl.seq,
           multi |-> nl.multi, info |-> nl.info, ret |-> nl.ret, id |-> nl.id]
  /\ nlsock = [open |-> nlsock.open, answer |-> nlsock.answer, at |-> nlsock.at, end |-> nlsock.end]
  /\ net = [links |-> net.links, err |-> net.err, failed |-> net.failed]
  /\ nl.pc \in {"idle", "open", "bind", "send", "receive", "read", "close", "done"}
  /\ nl.multi \in BOOLEAN /\ nlsock.open \in BOOLEAN /\ net.failed \in BOOLEAN
  /\ nlsock.at \in Nat /\ nlsock.end \in Nat

\* the flags of the call are wrong
Refused == nl.fn # "none" /\ ~Flagged(nl.flags)

\* what is known of interface ifindex when so many messages of a dump are read
Collected(links, ifindex, read) ==
  IF ifindex \in 1 .. read /\ ifindex <= Len(links) THEN XdpInfo(NoXdp, ParsedXdp(links[ifindex])) ELSE NoXdp

\* before the answer
NlAsking ==
  nl.pc \in {"idle", "open", "bind", "send"} =>
    /\ nlsock.at = 0 /\ nlsock.end = 0 /\ nl.info = NoXdp

\* the answer is the one to the request; it is read to the end of a datagram,
\* and not to its own
NlAnswered ==
  nl.pc \in {"receive", "read", "close", "done"} /\ ~Refused /\ ~net.failed =>
    /\ net.links \in Links /\ net.err \in Errors
    /\ nlsock.answer = IF nl.fn = "none" THEN AckMsgs(nl.seq, net.err) ELSE DumpMsgs(net.links, nl.seq, net.err)
    /\ nl.fn # "none" /\ net.err = "ok" => nl.info = Collected(net.links, nl.ifindex, nlsock.at)

NlReading ==
  nl.pc \in {"receive", "read"} =>
    /\ nlsock.at <= nlsock.end /\ nlsock.end <= Len(nlsock.answer)
    /\ nl.pc = "receive" => nlsock.at = nlsock.end /\ nlsock.end < Len(nlsock.answer)
    /\ nl.pc = "read" =>
         /\ 0 < nlsock.end /\ (nl.fn = "none" => ~nl.multi)
         /\ nlsock.at = nlsock.end => net.err = "ok" /\ (nl.fn # "none" => nl.multi)
         /\ nlsock.at = Len(nlsock.answer) => nl.fn = "none"

\* a call is given up only when it fails, and reports that
NlTold ==
  /\ nl.pc \in {"close", "done"} =>
       IF Refused THEN nl.pc = "done" /\ nl.ret = "EINVAL"
       ELSE IF net.failed THEN nl.ret = "errno"
       ELSE nl.ret = net.err /\ nlsock.at = Len(nlsock.answer)
  /\ net.failed \/ Refused => nl.pc \in {"close", "done"}
  /\ nlsock.open <=> nl.pc \in {"bind", "send", "receive", "read", "close"}
  /\ nl.pc = "done" /\ nl.fn # "none" /\ nl.ret = "ok" => nl.id = get_xdp_id(nl.info, nl.flags \cap Modes)
  /\ nl.pc # "idle" /\ nl.fn # "none" => nl.ifindex \in Nat \ {0}
  /\ nl.pc = "idle" => nl.fn = "none"

NlInv == NlShape /\ NlAsking /\ NlAnswered /\ NlReading /\ NlTold
-----------------------------------------------------------------------------
(* There are few types, so there is an order of them.                      *)
LEMMA TypesOrdered ==
  ASSUME NEW progs \in [Modes -> Nat]
  PROVE  \E o \in [1 .. Cardinality(XdpTypes(progs)) -> XdpTypes(progs)] :
           \A t \in XdpTypes(progs) : \E n \in DOMAIN o : \A k \in DOMAIN o : o[k] = t <=> k = n
  <1>1. XdpTypes(progs) \subseteq KnownXdp
    BY DEF XdpTypes, KnownXdp, ProgId, AttachedModes, Modes
  <1>2. IsFiniteSet({}) /\ KnownXdp = ((((({} \cup {"ATTACHED"}) \cup {"PROG_ID"}) \cup {"SKB_PROG_ID"})
                                         \cup {"DRV_PROG_ID"}) \cup {"HW_PROG_ID"})
    BY FS_EmptySet DEF KnownXdp
  <1>3. IsFiniteSet(KnownXdp)
    BY <1>2, FS_AddElement
  <1>4. IsFiniteSet(XdpTypes(progs))
    BY <1>1, <1>3, FS_Subset
  <1>5. Cardinality(XdpTypes(progs)) \in Nat
        /\ ExistsBijection(1 .. Cardinality(XdpTypes(progs)), XdpTypes(progs))
    BY <1>4, FS_CardinalityType
  <1>6. PICK o \in Bijection(1 .. Cardinality(XdpTypes(progs)), XdpTypes(progs)) : TRUE
    BY <1>5 DEF ExistsBijection
  <1>7. o \in [1 .. Cardinality(XdpTypes(progs)) -> XdpTypes(progs)]
        /\ (\A t \in XdpTypes(progs) : \E n \in DOMAIN o : o[n] = t)
        /\ (\A a, b \in DOMAIN o : o[a] = o[b] => a = b)
    BY <1>6 DEF Bijection, Injection, IsInjective, Surjection
  <1>8. ASSUME NEW t \in XdpTypes(progs)
        PROVE  \E n \in DOMAIN o : \A k \in DOMAIN o : o[k] = t <=> k = n
    <2>1. PICK n \in DOMAIN o : o[n] = t
      BY <1>7
    <2>2. ASSUME NEW k \in DOMAIN o PROVE o[k] = t <=> k = n
      BY <1>7, <2>1
    <2> QED
      BY <2>2
  <1> QED
    BY <1>7, <1>8

(* libbpf_nla_parse finds the value of every attribute that the kernel has *)
(* put, in whatever order.                                                 *)
LEMMA XdpParsed ==
  ASSUME NEW progs \in [Modes -> Nat]
  PROVE  libbpf_nla_parse(XdpAttrs(progs), KnownXdp) = ParsedXdp(progs)
  <1> DEFINE types == XdpTypes(progs)
             Each(o) == \A t \in types : \E n \in DOMAIN o : \A k \in DOMAIN o : o[k] = t <=> k = n
             order == CHOOSE o \in [1 .. Cardinality(types) -> types] : Each(o)
             attrs == [n \in DOMAIN order |-> [type |-> order[n], val |-> XdpValue(progs, order[n])]]
             at(t) == CHOOSE n \in DOMAIN attrs :
                        attrs[n].type = t /\ \A o \in DOMAIN attrs : attrs[o].type = t => o <= n
  <1>1. types \subseteq KnownXdp
    BY DEF XdpTypes, KnownXdp, ProgId, AttachedModes, Modes
  <1>2. order \in [1 .. Cardinality(types) -> types] /\ Each(order)
    BY TypesOrdered
  <1>3. XdpAttrs(progs) = attrs
    BY DEF XdpAttrs
  <1> HIDE DEF order, types
  <1>4. DOMAIN attrs = DOMAIN order /\ DOMAIN order \subseteq Nat
    BY <1>2
  <1>5. \A n \in DOMAIN attrs : attrs[n].type = order[n] /\ attrs[n].val = XdpValue(progs, order[n])
    OBVIOUS
  <1>6. \A n \in DOMAIN attrs : attrs[n].type \in types
    BY <1>2, <1>4, <1>5
  <1>7. \A t \in types : \E n \in DOMAIN attrs : attrs[n].type = t /\ \A k \in DOMAIN attrs : attrs[k].type = t => k = n
    BY <1>2, <1>4, <1>5
  <1>8. {attrs[n].type : n \in DOMAIN attrs} \cap KnownXdp = types
    <2> DEFINE read == {attrs[n].type : n \in DOMAIN attrs}
    <2>1. read \subseteq types
      BY <1>6
    <2>2. \A t \in types : t \in read
      BY <1>7
    <2> HIDE DEF read
    <2> QED
      BY <1>1, <2>1, <2>2 DEF read
  <1> HIDE DEF attrs
  <1>9. ASSUME NEW t \in types PROVE attrs[at(t)].val = XdpValue(progs, t)
    <2>1. PICK n \in DOMAIN attrs : attrs[n].type = t /\ \A k \in DOMAIN attrs : attrs[k].type = t => k = n
      BY <1>7
    <2>2. \A o \in DOMAIN attrs : attrs[o].type = t => o <= n
      BY <2>1, <1>4
    <2>3. at(t) \in DOMAIN attrs /\ attrs[at(t)].type = t
      BY <2>1, <2>2
    <2> QED
      BY <2>3, <1>4, <1>5
  <1>10. libbpf_nla_parse(attrs, KnownXdp) = [t \in types |-> attrs[at(t)].val]
    BY <1>8 DEF libbpf_nla_parse
  <1> QED
    BY <1>3, <1>9, <1>10 DEF ParsedXdp, types

(* The message of a link says what its programs are, if it is the one that *)
(* is asked for.                                                           *)
LEMMA LinkRead ==
  ASSUME NEW progs \in [Modes -> Nat], NEW info, NEW ifindex \in Nat \ {0}, NEW i \in Nat
  PROVE  get_xdp_info(info, ifindex, LinkOf(i, progs)) = IF ifindex = i THEN XdpInfo(info, ParsedXdp(progs)) ELSE info
  <1> DEFINE xdp == XdpAttrs(progs)
             attrs == <<[type |-> "IFNAME", val |-> <<>>], [type |-> "XDP", val |-> xdp],
                        [type |-> "NEWER", val |-> <<>>]>>
             tb == libbpf_nla_parse(attrs, KnownLink)
             at(t) == CHOOSE n \in DOMAIN attrs :
                        attrs[n].type = t /\ \A o \in DOMAIN attrs : attrs[o].type = t => o <= n
  <1>1. LinkOf(i, progs).ifindex = i /\ LinkOf(i, progs).attrs = attrs
    BY DEF LinkOf
  <1> HIDE DEF xdp
  <1>2. DOMAIN attrs = 1 .. 3 /\ attrs[1].type = "IFNAME" /\ attrs[2].type = "XDP" /\ attrs[3].type = "NEWER"
        /\ attrs[2].val = xdp
    OBVIOUS
  <1> HIDE DEF attrs
  <1>3. "XDP" \in {attrs[n].type : n \in DOMAIN attrs} \cap KnownLink
    BY <1>2 DEF KnownLink
  <1>4. \A n \in DOMAIN attrs : attrs[n].type = "XDP" => n = 2
    BY <1>2
  <1>5. at("XDP") = 2
    <2>1. \A o \in DOMAIN attrs : attrs[o].type = "XDP" => o <= 2
      BY <1>4
    <2>2. at("XDP") \in DOMAIN attrs /\ attrs[at("XDP")].type = "XDP"
      BY <2>1, <1>2
    <2> QED
      BY <2>2, <1>4
  <1>6. tb = [t \in {attrs[n].type : n \in DOMAIN attrs} \cap KnownLink |-> attrs[at(t)].val]
    BY DEF libbpf_nla_parse
  <1>7. "XDP" \in DOMAIN tb /\ tb["XDP"] = xdp
    BY <1>2, <1>3, <1>5, <1>6
  <1> HIDE DEF tb, at
  <1>8. libbpf_nla_parse(xdp, KnownXdp) = ParsedXdp(progs)
    BY XdpParsed DEF xdp
  <1>9. get_xdp_info(info, ifindex, LinkOf(i, progs))
          = IF ifindex \notin {0, i} \/ "XDP" \notin DOMAIN tb THEN info
            ELSE XdpInfo(info, libbpf_nla_parse(tb["XDP"], KnownXdp))
    BY <1>1 DEF get_xdp_info, tb
  <1> QED
    BY <1>7, <1>8, <1>9

(* The id that a caller gets is that of the program the interface has in   *)
(* the mode asked for, of the only one it has, or none.                    *)
LEMMA IdFound ==
  ASSUME NEW progs \in [Modes -> Nat], NEW flags, ~Several(flags \cap Modes)
  PROVE  {get_xdp_id(XdpInfo(NoXdp, ParsedXdp(progs)), flags \cap Modes)} \ {0} = ProgramOf(progs, flags)
  <1> DEFINE at == AttachedModes(progs)
             tb == ParsedXdp(progs)
             info == XdpInfo(NoXdp, tb)
  <1> SUFFICES {get_xdp_id(info, flags \cap Modes)} \ {0} = ProgramOf(progs, flags)
    OBVIOUS
  <1>0. at \subseteq Modes /\ \A m \in Modes : progs[m] \in Nat /\ (m \in at <=> progs[m] # 0)
    BY DEF AttachedModes
  <1>1. "ATTACHED" \in DOMAIN tb /\ tb["ATTACHED"] = AttachMode(progs)
    BY DEF ParsedXdp, XdpTypes, XdpValue
  <1>2. CASE at = {}
    <2>1. info = [NoXdp EXCEPT !.attach_mode = "NONE"]
      BY <1>1, <1>2 DEF XdpInfo, AttachMode
    <2>2. get_xdp_id(info, flags \cap Modes) = 0
      BY <2>1 DEF get_xdp_id, NoXdp
    <2>3. ProgramOf(progs, flags) = {}
      BY <1>2 DEF ProgramOf, Several
    <2> QED
      BY <2>2, <2>3
  <1>3. CASE Several(at)
    <2>0. at # {}
      BY <1>3 DEF Several
    <2>1. AttachMode(progs) = "MULTI"
      BY <1>3, <2>0 DEF AttachMode
    <2>2. DOMAIN tb = {ProgId[m] : m \in at} \cup {"ATTACHED"}
      BY <2>1 DEF ParsedXdp, XdpTypes, Modes
    <2>3. /\ "PROG_ID" \notin DOMAIN tb
          /\ "SKB_PROG_ID" \in DOMAIN tb <=> "SKB" \in at
          /\ "DRV_PROG_ID" \in DOMAIN tb <=> "DRV" \in at
          /\ "HW_PROG_ID" \in DOMAIN tb <=> "HW" \in at
      BY <1>0, <2>2 DEF ProgId, Modes
    <2>4. /\ "SKB" \in at => tb["SKB_PROG_ID"] = progs["SKB"]
          /\ "DRV" \in at => tb["DRV_PROG_ID"] = progs["DRV"]
          /\ "HW" \in at => tb["HW_PROG_ID"] = progs["HW"]
      <3>1. (CHOOSE m \in Modes : ProgId[m] = "SKB_PROG_ID") = "SKB"
            /\ (CHOOSE m \in Modes : ProgId[m] = "DRV_PROG_ID") = "DRV"
            /\ (CHOOSE m \in Modes : ProgId[m] = "HW_PROG_ID") = "HW"
        BY DEF ProgId, Modes
      <3> QED
        BY <2>3, <3>1 DEF ParsedXdp, XdpValue
    <2> HIDE DEF tb
    <2>5. info.attach_mode = "MULTI"
          /\ info.SKB = (IF "SKB" \in at THEN progs["SKB"] ELSE 0)
          /\ info.DRV = (IF "DRV" \in at THEN progs["DRV"] ELSE 0)
          /\ info.HW = (IF "HW" \in at THEN progs["HW"] ELSE 0)
      <3>1. tb["ATTACHED"] = "MULTI"
        BY <1>1, <2>1
      <3> QED
        BY <1>1, <3>1, <2>3, <2>4 DEF XdpInfo, NoXdp
    <2>6. info.SKB = progs["SKB"] /\ info.DRV = progs["DRV"] /\ info.HW = progs["HW"]
      BY <2>5, <1>0 DEF Modes
    <2> HIDE DEF info
    <2>7. ProgramOf(progs, flags) = {progs[m] : m \in at \cap flags}
      BY <1>3 DEF ProgramOf
    <2>8. \A a, b \in flags \cap Modes : a = b
      BY DEF Several
    <2>9. CASE flags \cap Modes = {}
      <3>1. get_xdp_id(info, flags \cap Modes) = 0
        BY <2>5, <2>9 DEF get_xdp_id
      <3> QED
        BY <3>1, <2>7, <2>9, <1>0
    <2>10. ASSUME NEW m \in Modes, flags \cap Modes = {m}
           PROVE  {get_xdp_id(info, flags \cap Modes)} \ {0} = ProgramOf(progs, flags)
      <3>1. get_xdp_id(info, {m}) = progs[m]
        BY <2>5, <2>6 DEF get_xdp_id, Modes
      <3>2. at \cap flags = (IF progs[m] # 0 THEN {m} ELSE {})
        BY <2>10, <1>0
      <3> QED
        BY <3>1, <3>2, <2>7, <2>10
    <2> QED
      BY <2>8, <2>9, <2>10
  <1>4. CASE at # {} /\ ~Several(at)
    <2>1. PICK m \in at : at = {m}
      BY <1>4 DEF Several
    <2>2. AttachMode(progs) = m
      BY <1>4, <2>1 DEF AttachMode
    <2>3. m \in Modes /\ progs[m] # 0 /\ m # "NONE" /\ m # "MULTI"
      BY <1>0, <2>1 DEF Modes
    <2>4. "PROG_ID" \in DOMAIN tb /\ tb["PROG_ID"] = progs[m]
      BY <2>2, <2>3 DEF ParsedXdp, XdpTypes, XdpValue
    <2> HIDE DEF tb
    <2>5. info.attach_mode = m /\ info.prog_id = progs[m]
      BY <1>1, <2>2, <2>3, <2>4 DEF XdpInfo, NoXdp
    <2> HIDE DEF info
    <2>6. get_xdp_id(info, flags \cap Modes) = progs[m]
      BY <2>5, <2>3 DEF get_xdp_id
    <2>7. ProgramOf(progs, flags) = {progs[m]}
      BY <1>4, <2>1 DEF ProgramOf
    <2> QED
      BY <2>3, <2>6, <2>7
  <1> QED
    BY <1>2, <1>3, <1>4

-----------------------------------------------------------------------------
(* The answers of the kernel.                                              *)

LEMMA LinksTyped ==
  ASSUME NEW links \in Links
  PROVE  Len(links) \in Nat /\ DOMAIN links = 1 .. Len(links) /\ \A i \in 1 .. Len(links) : links[i] \in [Modes -> Nat]
  BY NetlinkAssumption DEF AnyLinks

\* message m belongs to the request with this number
Ours(m, seq) == m.pid = Port /\ m.seq = seq

(* A dump is a message for every link and one that ends it.                *)
LEMMA Dumped ==
  ASSUME NEW links \in Links, NEW seq
  PROVE  LET a == DumpMsgs(links, seq, "ok")
         IN  /\ Len(a) = Len(links) + 1
             /\ \A i \in 1 .. Len(links) :
                  Ours(a[i], seq) /\ a[i].type = "NEWLINK" /\ a[i].multi /\ a[i].link = LinkOf(i, links[i])
             /\ Ours(a[Len(links) + 1], seq) /\ a[Len(links) + 1].type = "DONE"
  <1> DEFINE n == Len(links)
             msg(i) == IF i <= Len(links) THEN Msg("NEWLINK", TRUE, seq, "ok", LinkOf(i, links[i]))
                       ELSE Msg("DONE", TRUE, seq, "ok", NoLink)
             a == [i \in 1 .. n + 1 |-> msg(i)]
  <1>1. n \in Nat
    BY LinksTyped
  <1>2. DumpMsgs(links, seq, "ok") = a
    BY DEF DumpMsgs
  <1>3. \A i \in 1 .. n : msg(i) = Msg("NEWLINK", TRUE, seq, "ok", LinkOf(i, links[i]))
    OBVIOUS
  <1>4. msg(n + 1) = Msg("DONE", TRUE, seq, "ok", NoLink)
    <2> HIDE DEF n
    <2>1. ~(n + 1 <= n)
      BY <1>1
    <2> QED
      BY <2>1 DEF n
  <1> HIDE DEF n, msg
  <1>5. Len(a) = n + 1
    BY <1>1
  <1>6. \A i \in 1 .. n + 1 : a[i] = msg(i)
    OBVIOUS
  <1>7. \A i \in 1 .. n : i \in 1 .. n + 1
    BY <1>1
  <1>8. n + 1 \in 1 .. n + 1
    BY <1>1
  <1> HIDE DEF a
  <1>9. ASSUME NEW i \in 1 .. n
        PROVE  Ours(a[i], seq) /\ a[i].type = "NEWLINK" /\ a[i].multi /\ a[i].link = LinkOf(i, links[i])
    <2>1. a[i] = Msg("NEWLINK", TRUE, seq, "ok", LinkOf(i, links[i]))
      BY <1>3, <1>6, <1>7
    <2> QED
      BY <2>1 DEF Msg, Ours
  <1>10. Ours(a[n + 1], seq) /\ a[n + 1].type = "DONE"
    <2>1. a[n + 1] = Msg("DONE", TRUE, seq, "ok", NoLink)
      BY <1>4, <1>6, <1>8
    <2> QED
      BY <2>1 DEF Msg, Ours
  <1> QED
    BY <1>2, <1>5, <1>9, <1>10 DEF n

(* An error is one message, and so is the answer to a request that sets a  *)
(* program.                                                                *)
LEMMA ErrorSent ==
  ASSUME NEW links, NEW seq, NEW err, NEW a,
         a = AckMsgs(seq, err) \/ (err # "ok" /\ a = DumpMsgs(links, seq, err))
  PROVE  Len(a) = 1 /\ Ours(a[1], seq) /\ a[1].type = "ERROR" /\ ~a[1].multi /\ a[1].err = err
  <1>1. a = <<Msg("ERROR", FALSE, seq, err, NoLink)>>
    BY DEF AckMsgs, DumpMsgs
  <1> QED
    BY <1>1 DEF Msg, Ours

-----------------------------------------------------------------------------
(* The call starts in the invariant, and each of its steps keeps it.       *)

LEMMA NlStarts == NlInit => NlInv
  <1> SUFFICES ASSUME NlInit PROVE NlInv
    OBVIOUS
  <1>1. NlShape /\ NlAsking /\ NlAnswered /\ NlReading
    BY DEF NlInit, NlIdle, NlShape, NlAsking, NlAnswered, NlReading, Refused
  <1>2. NlTold
    BY DEF NlInit, NlIdle, NlTold, Refused
  <1> QED
    BY <1>1, <1>2 DEF NlInv

LEMMA LinkAsked ==
  ASSUME NlInv, NEW ifindex \in Ifindexes, NEW flags, bpf_get_link_xdp_id(ifindex, flags)
  PROVE  NlInv'
  <1> USE DEF bpf_get_link_xdp_id
  <1>1. /\ nl.pc = "idle" /\ nl'.ifindex = ifindex /\ nl'.flags = flags /\ nl'.fn = "get_xdp_info"
        /\ nl'.info = nl.info /\ nl'.id = nl.id /\ nl'.multi = nl.multi
        /\ nl'.pc = (IF Flagged(flags) THEN "open" ELSE "done")
        /\ ~Flagged(flags) => nl'.ret = "EINVAL"
        /\ nlsock' = nlsock /\ net' = net
    BY DEF NlInv, NlShape
  <1>2. NlShape'
    BY <1>1 DEF NlInv, NlShape
  <1>3. Refused' <=> ~Flagged(flags)
    BY <1>1 DEF Refused
  <1>4. NlAsking' /\ NlReading'
    BY <1>1 DEF NlInv, NlAsking, NlReading
  <1>5. NlAnswered'
    BY <1>1, <1>3 DEF NlAnswered
  <1>6. NlTold'
    <2>1. ifindex \in Nat \ {0}
      BY NetlinkAssumption
    <2>2. ~net.failed /\ ~nlsock.open
      BY <1>1 DEF NlInv, NlTold
    <2> QED
      BY <1>1, <1>3, <2>1, <2>2 DEF NlTold
  <1> QED
    BY <1>2, <1>4, <1>5, <1>6 DEF NlInv

LEMMA SetAsked == ASSUME NlInv, bpf_set_link_xdp_fd PROVE NlInv'
  <1> USE DEF bpf_set_link_xdp_fd
  <1>1. /\ nl.pc = "idle" /\ nl'.pc = "open" /\ nl'.fn = nl.fn /\ nl'.info = nl.info
        /\ nl'.multi = nl.multi /\ nlsock' = nlsock /\ net' = net
    BY DEF NlInv, NlShape
  <1>2. NlShape'
    BY <1>1 DEF NlInv, NlShape
  <1>3. nl.fn = "none" /\ ~Refused'
    BY <1>1 DEF Refused, NlInv, NlTold
  <1>4. NlAsking' /\ NlReading' /\ NlAnswered'
    BY <1>1 DEF NlInv, NlAsking, NlReading, NlAnswered
  <1>5. NlTold'
    BY <1>1, <1>3 DEF NlInv, NlTold
  <1> QED
    BY <1>2, <1>4, <1>5 DEF NlInv

LEMMA Failed == ASSUME NlInv, StepFails PROVE NlInv'
  <1> USE DEF StepFails
  <1>1. /\ nl.pc \in {"open", "bind", "send", "receive"} /\ nl'.pc = (IF nl.pc = "open" THEN "done" ELSE "close")
        /\ nl'.ret = "errno" /\ nl'.fn = nl.fn /\ nl'.flags = nl.flags /\ nl'.ifindex = nl.ifindex
        /\ nl'.multi = nl.multi /\ nlsock' = nlsock /\ net'.failed
    BY DEF NlInv, NlShape
  <1>2. NlShape'
    BY <1>1 DEF NlInv, NlShape
  <1>3. ~Refused /\ ~Refused'
    BY <1>1 DEF Refused, NlInv, NlTold
  <1>4. NlAsking' /\ NlReading' /\ NlAnswered'
    BY <1>1 DEF NlInv, NlAsking, NlReading, NlAnswered
  <1>5. NlTold'
    BY <1>1, <1>3 DEF NlInv, NlTold
  <1> QED
    BY <1>2, <1>4, <1>5 DEF NlInv

LEMMA SocketOpened == ASSUME NlInv, OpenSocket \/ BindSocket PROVE NlInv'
  <1>1. /\ nl.pc \in {"open", "bind"} /\ nl'.pc = (IF nl.pc = "open" THEN "bind" ELSE "send")
        /\ nl'.ret = nl.ret /\ nl'.fn = nl.fn /\ nl'.flags = nl.flags /\ nl'.ifindex = nl.ifindex
        /\ nl'.info = nl.info /\ nl'.multi = nl.multi
        /\ nlsock'.at = nlsock.at /\ nlsock'.end = nlsock.end /\ nlsock'.open /\ net' = net
    BY DEF OpenSocket, BindSocket, NlInv, NlShape, NlTold
  <1>2. NlShape'
    BY <1>1 DEF NlInv, NlShape, OpenSocket, BindSocket
  <1>3. ~Refused /\ ~Refused'
    BY <1>1 DEF Refused, NlInv, NlTold
  <1>4. NlAsking' /\ NlReading' /\ NlAnswered'
    BY <1>1 DEF NlInv, NlAsking, NlReading, NlAnswered
  <1>5. NlTold'
    BY <1>1, <1>3 DEF NlInv, NlTold
  <1> QED
    BY <1>2, <1>4, <1>5 DEF NlInv

LEMMA Sent == ASSUME NlInv, NEW links \in Links, NEW err \in Errors, Send(links, err) PROVE NlInv'
  <1> DEFINE a == IF nl.fn = "none" THEN AckMsgs(nl.seq, err) ELSE DumpMsgs(links, nl.seq, err)
  <1>1. /\ nl.pc = "send" /\ nl'.pc = "receive" /\ nl'.ret = nl.ret /\ nl'.fn = nl.fn /\ nl'.flags = nl.flags
        /\ nl'.ifindex = nl.ifindex /\ nl'.info = nl.info /\ nl'.multi = nl.multi /\ nl'.seq = nl.seq
        /\ nlsock'.at = nlsock.at /\ nlsock'.end = nlsock.end /\ nlsock'.open = nlsock.open /\ nlsock'.answer = a
        /\ net'.failed = net.failed /\ net'.links = links /\ net'.err = err
    BY DEF Send, NlInv, NlShape
  <1>2. NlShape'
    BY <1>1 DEF Send, NlInv, NlShape
  <1>3. ~Refused /\ ~Refused'
    BY <1>1 DEF Refused, NlInv, NlTold
  <1>4. nlsock.at = 0 /\ nlsock.end = 0 /\ nl.info = NoXdp
    BY <1>1 DEF NlInv, NlAsking
  <1>5. 0 < Len(a) /\ Len(a) \in Nat
    <2>1. CASE nl.fn = "none" \/ err # "ok"
      <3>1. a = AckMsgs(nl.seq, err) \/ (err # "ok" /\ a = DumpMsgs(links, nl.seq, err))
        BY <2>1
      <3> DEFINE seq == nl.seq
      <3> HIDE DEF a
      <3>2. a = AckMsgs(seq, err) \/ (err # "ok" /\ a = DumpMsgs(links, seq, err))
        BY <3>1
      <3> HIDE DEF seq
      <3>3. Len(a) = 1
        BY ONLY <3>2, ErrorSent
      <3> QED
        BY <3>3
    <2>2. CASE nl.fn # "none" /\ err = "ok"
      <3>1. a = DumpMsgs(links, nl.seq, "ok")
        BY <2>2
      <3> HIDE DEF a
      <3>2. Len(a) = Len(links) + 1 /\ Len(links) \in Nat
        BY <3>1, Dumped, LinksTyped
      <3> QED
        BY <3>2
    <2> QED
      BY <2>1, <2>2
  <1> HIDE DEF a
  <1>6. NlAsking' /\ NlReading'
    BY <1>1, <1>4, <1>5 DEF NlAsking, NlReading
  <1>7. NlAnswered'
    <2>1. Collected(links, nl.ifindex, 0) = NoXdp
      BY DEF Collected
    <2> QED
      BY <1>1, <1>4, <2>1 DEF NlAnswered, a
  <1>8. NlTold'
    BY <1>1, <1>3 DEF NlInv, NlTold
  <1> QED
    BY <1>2, <1>6, <1>7, <1>8 DEF NlInv

LEMMA Received ==
  ASSUME NlInv, NEW end \in nlsock.end + 1 .. Len(nlsock.answer), Receive(end)
  PROVE  NlInv'
  <1>1. /\ nl.pc = "receive" /\ nl'.pc = "read" /\ nl'.ret = nl.ret /\ nl'.fn = nl.fn /\ nl'.flags = nl.flags
        /\ nl'.ifindex = nl.ifindex /\ nl'.info = nl.info /\ nl'.multi = FALSE /\ nl'.seq = nl.seq
        /\ nlsock'.at = nlsock.at /\ nlsock'.end = end /\ nlsock'.open = nlsock.open
        /\ nlsock'.answer = nlsock.answer /\ net' = net
    BY DEF Receive, NlInv, NlShape
  <1>2. nlsock.at = nlsock.end /\ nlsock.end < Len(nlsock.answer) /\ nlsock.end \in Nat
    BY <1>1 DEF NlInv, NlReading, NlShape
  <1>3. end \in Nat /\ nlsock.end < end /\ end <= Len(nlsock.answer)
    BY <1>2
  <1>4. NlShape'
    BY <1>1, <1>3 DEF Receive, NlInv, NlShape
  <1>5. ~Refused /\ ~Refused' /\ ~net.failed
    BY <1>1 DEF Refused, NlInv, NlTold
  <1>6. NlAsking' /\ NlReading'
    BY <1>1, <1>2, <1>3 DEF NlAsking, NlReading
  <1>7. NlAnswered'
    BY <1>1, <1>5 DEF NlInv, NlAnswered
  <1>8. NlTold'
    BY <1>1, <1>5 DEF NlInv, NlTold
  <1> QED
    BY <1>4, <1>6, <1>7, <1>8 DEF NlInv

(* An error, or the 0 of success, is one message and ends the call or the  *)
(* datagram.                                                               *)
LEMMA ErrorIsRead ==
  ASSUME NlInv, Read, nl.fn = "none" \/ net.err # "ok"
  PROVE  NlInv'
  <1> DEFINE a == nlsock.answer
  <1>1. nl.pc = "read" /\ nlsock.at < nlsock.end /\ nlsock.at \in Nat /\ nlsock.end \in Nat /\ nlsock.end <= Len(a)
    BY DEF Read, NlInv, NlReading, NlShape
  <1>2. ~Refused /\ ~net.failed
    BY <1>1 DEF Refused, NlInv, NlTold
  <1>3. net.links \in Links /\ net.err \in Errors
        /\ a = (IF nl.fn = "none" THEN AckMsgs(nl.seq, net.err) ELSE DumpMsgs(net.links, nl.seq, net.err))
    BY <1>1, <1>2 DEF NlInv, NlAnswered
  <1>4. a = AckMsgs(nl.seq, net.err) \/ (net.err # "ok" /\ a = DumpMsgs(net.links, nl.seq, net.err))
    BY <1>3
  <1> HIDE DEF a
  <1>5. Len(a) = 1 /\ Ours(a[1], nl.seq) /\ a[1].type = "ERROR" /\ ~a[1].multi /\ a[1].err = net.err
    BY <1>4, ErrorSent
  <1>6. nlsock.at = 0 /\ nlsock.end = 1
    BY <1>1, <1>5
  <1>7. nl' = Message(nl, a[1]) /\ nlsock' = [nlsock EXCEPT !.at = 1] /\ net' = net
    BY <1>6 DEF Read, a
  <1>8. /\ nl' = (IF net.err = "ok" THEN [nl EXCEPT !.multi = @ \/ a[1].multi]
                  ELSE [[nl EXCEPT !.multi = @ \/ a[1].multi] EXCEPT !.pc = "close", !.ret = net.err])
        /\ nlsock' = [nlsock EXCEPT !.at = 1]
    BY <1>5, <1>7 DEF Message, Returns, Ours
  <1>9. /\ nl'.pc = (IF net.err = "ok" THEN "read" ELSE "close")
        /\ net.err # "ok" => nl'.ret = net.err
        /\ nl'.fn = nl.fn /\ nl'.flags = nl.flags /\ nl'.ifindex = nl.ifindex /\ nl'.seq = nl.seq
        /\ nl'.multi \in BOOLEAN /\ (nl'.multi <=> nl.multi)
        /\ nlsock'.at = 1 /\ nlsock'.end = 1 /\ nlsock'.open = nlsock.open /\ nlsock'.answer = a
    BY <1>1, <1>5, <1>6, <1>8 DEF NlInv, NlShape, a
  <1>10. NlShape'
    BY <1>7, <1>8, <1>9 DEF NlInv, NlShape
  <1>11. ~Refused'
    BY <1>2, <1>9 DEF Refused
  <1>12. NlAsking' /\ NlReading'
    BY <1>1, <1>5, <1>7, <1>9 DEF NlInv, NlAsking, NlReading
  <1>13. NlAnswered'
    BY <1>3, <1>7, <1>9 DEF NlAnswered
  <1>14. NlTold'
    BY <1>1, <1>2, <1>5, <1>7, <1>9, <1>11, NetlinkAssumption DEF NlInv, NlTold
  <1> QED
    BY <1>10, <1>12, <1>13, <1>14 DEF NlInv

(* A message of a dump adds what it says of the interface that is asked    *)
(* for, or is the last.                                                    *)
LEMMA LinkIsRead ==
  ASSUME NlInv, Read, nl.fn # "none", net.err = "ok"
  PROVE  NlInv'
  <1> DEFINE a == nlsock.answer
             n == Len(net.links)
             i == nlsock.at + 1
             col(k) == Collected(net.links, nl.ifindex, k)
  <1>1. nl.pc = "read" /\ nlsock.at < nlsock.end /\ nlsock.at \in Nat /\ nlsock.end \in Nat /\ nlsock.end <= Len(a)
    BY DEF Read, NlInv, NlReading, NlShape
  <1>2. ~Refused /\ ~net.failed /\ nl.ifindex \in Nat \ {0}
    BY <1>1 DEF Refused, NlInv, NlTold
  <1>3. net.links \in Links /\ net.err \in Errors /\ a = DumpMsgs(net.links, nl.seq, "ok") /\ nl.info = col(nlsock.at)
    BY <1>1, <1>2 DEF NlInv, NlAnswered
  <1>4. n \in Nat /\ \A k \in 1 .. n : net.links[k] \in [Modes -> Nat]
    BY <1>3, LinksTyped
  <1>5. nl' = Message(nl, a[i]) /\ nlsock' = [nlsock EXCEPT !.at = i] /\ net' = net
    BY DEF Read
  <1>6. nlsock'.at = i /\ nlsock'.end = nlsock.end /\ nlsock'.open = nlsock.open /\ nlsock'.answer = a
        /\ nlsock' = [open |-> nlsock'.open, answer |-> nlsock'.answer, at |-> nlsock'.at, end |-> nlsock'.end]
    BY <1>5 DEF NlInv, NlShape
  <1> HIDE DEF a, n, col
  <1>7. /\ Len(a) = n + 1
        /\ \A k \in 1 .. n : Ours(a[k], nl.seq) /\ a[k].type = "NEWLINK"
                            /\ a[k].multi /\ a[k].link = LinkOf(k, net.links[k])
        /\ Ours(a[n + 1], nl.seq) /\ a[n + 1].type = "DONE"
    BY <1>3, Dumped DEF n
  <1>8. i \in Nat /\ (i \in 1 .. n \/ i = n + 1) /\ i <= nlsock.end
    BY <1>1, <1>4, <1>7
  <1> HIDE DEF i
  <1>9. CASE i \in 1 .. n
    <2>1. Ours(a[i], nl.seq) /\ a[i].type = "NEWLINK" /\ a[i].multi /\ a[i].link = LinkOf(i, net.links[i])
      BY <1>7, <1>9
    <2>2. nl' = [[nl EXCEPT !.multi = @ \/ a[i].multi] EXCEPT !.info = get_xdp_info(@, nl.ifindex, a[i].link)]
      BY <1>5, <2>1, nl.fn # "none" DEF Message, Ours
    <2>3. /\ nl'.pc = "read" /\ nl'.multi = TRUE /\ nl'.fn = nl.fn /\ nl'.flags = nl.flags
          /\ nl'.ifindex = nl.ifindex /\ nl'.seq = nl.seq
          /\ nl'.info = get_xdp_info(nl.info, nl.ifindex, LinkOf(i, net.links[i]))
      BY <1>1, <2>1, <2>2 DEF NlInv, NlShape
    <2>4. NlShape'
      BY <1>5, <1>6, <1>1, <1>8, <2>2, <2>3 DEF NlInv, NlShape
    <2>5. nl'.info = col(i)
      <3>1. net.links[i] \in [Modes -> Nat]
        BY <1>4, <1>9
      <3>2. nl'.info = IF nl.ifindex = i THEN XdpInfo(nl.info, ParsedXdp(net.links[i])) ELSE nl.info
        <4> DEFINE p == net.links[i]
                   info == nl.info
                   x == nl.ifindex
        <4>1. p \in [Modes -> Nat] /\ x \in Nat \ {0}
          BY <3>1, <1>2
        <4> HIDE DEF p, info, x
        <4>2. get_xdp_info(info, x, LinkOf(i, p)) = IF x = i THEN XdpInfo(info, ParsedXdp(p)) ELSE info
          BY <4>1, <1>8, LinkRead
        <4> QED
          BY <4>2, <2>3 DEF p, info, x
      <3>3. CASE nl.ifindex = i
        <4>1. col(nlsock.at) = NoXdp
          BY <3>3, <1>1 DEF col, Collected, i
        <4>2. col(i) = XdpInfo(NoXdp, ParsedXdp(net.links[i]))
          BY <3>3, <1>9, <1>4 DEF col, Collected, n
        <4> QED
          BY <3>2, <3>3, <4>1, <4>2, <1>3
      <3>4. CASE nl.ifindex # i
        <4>1. nl.ifindex \in 1 .. nlsock.at <=> nl.ifindex \in 1 .. i
          BY <3>4, <1>1, <1>2 DEF i
        <4>2. col(nlsock.at) = col(i)
          BY <4>1 DEF col, Collected
        <4> QED
          BY <3>2, <3>4, <4>2, <1>3
      <3> QED
        BY <3>3, <3>4
    <2>6. ~Refused'
      BY <1>2, <2>3 DEF Refused
    <2>7. i # Len(a) /\ net'.err = "ok"
      BY <1>4, <1>5, <1>7, <1>9
    <2>8. NlAsking' /\ NlReading'
      BY <1>1, <1>5, <1>6, <1>8, <2>3, <2>7 DEF NlAsking, NlReading
    <2>9. NlAnswered'
      BY <1>3, <1>5, <1>6, <2>3, <2>5 DEF NlAnswered, col
    <2>10. NlTold'
      BY <1>1, <1>2, <1>5, <1>6, <2>3, <2>6 DEF NlInv, NlTold
    <2> QED
      BY <2>4, <2>8, <2>9, <2>10 DEF NlInv
  <1>10. CASE i = n + 1
    <2>1. Ours(a[i], nl.seq) /\ a[i].type = "DONE"
      BY <1>7, <1>10
    <2>2. nl' = [[nl EXCEPT !.multi = @ \/ a[i].multi] EXCEPT !.pc = "close", !.ret = "ok"]
      BY <1>5, <2>1 DEF Message, Ours, Returns
    <2>3. /\ nl'.pc = "close" /\ nl'.fn = nl.fn /\ nl'.flags = nl.flags /\ nl'.ret = "ok"
          /\ nl'.ifindex = nl.ifindex /\ nl'.seq = nl.seq /\ nl'.info = nl.info /\ nl'.multi \in BOOLEAN
      BY <2>2 DEF NlInv, NlShape
    <2>4. NlShape'
      BY <1>5, <1>6, <1>1, <1>8, <2>2, <2>3 DEF NlInv, NlShape
    <2>5. nl'.info = col(i)
      <3>1. nlsock.at = n
        BY <1>1, <1>4, <1>10 DEF i
      <3>2. nl.ifindex \in 1 .. n /\ nl.ifindex <= n <=> nl.ifindex \in 1 .. n + 1 /\ nl.ifindex <= n
        BY <1>2, <1>4
      <3>3. col(n) = col(n + 1)
        BY <3>2 DEF col, Collected, n
      <3> QED
        BY <2>3, <3>1, <3>3, <1>3, <1>10
    <2>6. ~Refused'
      BY <1>2, <2>3 DEF Refused
    <2>7. NlAsking' /\ NlReading'
      BY <2>3 DEF NlAsking, NlReading
    <2>8. NlAnswered'
      BY <1>3, <1>5, <1>6, <2>3, <2>5 DEF NlAnswered, col
    <2>9. NlTold'
      BY <1>1, <1>2, <1>5, <1>6, <1>7, <1>10, <2>3, <2>6 DEF NlInv, NlTold
    <2> QED
      BY <2>4, <2>7, <2>8, <2>9 DEF NlInv
  <1> QED
    BY <1>8, <1>9, <1>10

LEMMA DatagramEnded == ASSUME NlInv, EndOfDatagram PROVE NlInv'
  <1>1. nl.pc = "read" /\ nlsock.at = nlsock.end /\ nlsock' = nlsock /\ net' = net
        /\ nl' = IF nl.multi THEN [nl EXCEPT !.pc = "receive"] ELSE [nl EXCEPT !.pc = "close", !.ret = "ok"]
    BY DEF EndOfDatagram, MoreComes, Returns
  <1>2. /\ nl'.pc = (IF nl.multi THEN "receive" ELSE "close") /\ (~nl.multi => nl'.ret = "ok")
        /\ nl'.fn = nl.fn /\ nl'.flags = nl.flags /\ nl'.ifindex = nl.ifindex /\ nl'.seq = nl.seq
        /\ nl'.info = nl.info /\ nl'.multi = nl.multi
    BY <1>1 DEF NlInv, NlShape
  <1>3. NlShape'
    BY <1>1, <1>2 DEF NlInv, NlShape
  <1>4. ~Refused /\ ~Refused' /\ ~net.failed
    BY <1>1, <1>2 DEF Refused, NlInv, NlTold
  <1>5. /\ 0 < nlsock.end /\ nlsock.end <= Len(nlsock.answer) /\ nlsock.end \in Nat /\ net.err = "ok"
        /\ nl.fn = "none" <=> ~nl.multi
        /\ nl.fn # "none" => nlsock.at # Len(nlsock.answer)
    BY <1>1 DEF NlInv, NlReading, NlShape
  <1>6. nl.fn = "none" => Len(nlsock.answer) = 1
    <2>1. nl.fn = "none" => nlsock.answer = AckMsgs(nl.seq, net.err)
      BY <1>1, <1>4 DEF NlInv, NlAnswered
    <2> DEFINE a == nlsock.answer
               err == net.err
               seq == nl.seq
    <2>2. nl.fn = "none" => a = AckMsgs(seq, err)
      BY <2>1
    <2> HIDE DEF a, err, seq
    <2>3. nl.fn = "none" => Len(a) = 1
      BY <2>2, ErrorSent
    <2> QED
      BY <2>3 DEF a
  <1>7. NlAnswered'
    BY <1>1, <1>2, <1>4 DEF NlInv, NlAnswered
  <1>8. CASE nl.multi
    <2>1. NlAsking' /\ NlReading'
      <3>1. nl.fn # "none" /\ nlsock.end < Len(nlsock.answer)
        <4>1. nl.fn # "none" /\ nlsock.end # Len(nlsock.answer)
          BY <1>1, <1>5, <1>8
        <4>2. nlsock.answer = DumpMsgs(net.links, nl.seq, "ok") /\ net.links \in Links
          BY <1>1, <1>4, <1>5, <4>1 DEF NlInv, NlAnswered
        <4>3. Len(nlsock.answer) \in Nat
          BY <4>2, Dumped, LinksTyped
        <4> QED
          BY <4>1, <4>3, <1>5
      <3> QED
        BY <3>1, <1>1, <1>2, <1>5, <1>8 DEF NlAsking, NlReading
    <2>2. NlTold'
      BY <1>1, <1>2, <1>4, <1>8 DEF NlInv, NlTold
    <2> QED
      BY <1>3, <1>7, <2>1, <2>2 DEF NlInv
  <1>9. CASE ~nl.multi
    <2>1. NlAsking' /\ NlReading'
      BY <1>2, <1>9 DEF NlAsking, NlReading
    <2>2. nlsock.at = Len(nlsock.answer)
      <3>1. nl.fn = "none"
        BY <1>5, <1>9
      <3>2. nlsock.end <= 1 /\ Len(nlsock.answer) = 1
        BY <3>1, <1>5, <1>6
      <3> QED
        BY <3>2, <1>1, <1>5
    <2>3. NlTold'
      BY <1>1, <1>2, <1>4, <1>5, <1>9, <2>2 DEF NlInv, NlTold
    <2> QED
      BY <1>3, <1>7, <2>1, <2>3 DEF NlInv
  <1> QED
    BY <1>8, <1>9

LEMMA SocketClosed == ASSUME NlInv, Close PROVE NlInv'
  <1>1. /\ nl.pc = "close" /\ nl'.pc = "done" /\ nl'.ret = nl.ret /\ nl'.fn = nl.fn /\ nl'.flags = nl.flags
        /\ nl'.ifindex = nl.ifindex /\ nl'.info = nl.info /\ nl'.multi = nl.multi /\ nl'.seq = nl.seq
        /\ nl.fn # "none" /\ nl.ret = "ok" => nl'.id = get_xdp_id(nl.info, nl.flags \cap Modes)
        /\ nlsock'.at = nlsock.at /\ nlsock'.end = nlsock.end /\ ~nlsock'.open /\ nlsock'.answer = nlsock.answer
        /\ net' = net
    BY DEF Close, NlInv, NlShape
  <1>2. NlShape'
    BY <1>1 DEF Close, NlInv, NlShape
  <1>3. ~Refused /\ ~Refused'
    BY <1>1 DEF Refused, NlInv, NlTold
  <1>4. NlAsking' /\ NlReading'
    BY <1>1 DEF NlAsking, NlReading
  <1>5. NlAnswered'
    BY <1>1, <1>3 DEF NlInv, NlAnswered
  <1>6. NlTold'
    BY <1>1, <1>3 DEF NlInv, NlTold
  <1> QED
    BY <1>2, <1>4, <1>5, <1>6 DEF NlInv

(* The invariant says what callers are promised.                           *)
LEMMA AnswersRight == NlInv => NetlinkAnswers
  <1> SUFFICES ASSUME NlInv PROVE NetlinkAnswers
    OBVIOUS
  <1>1. nl.pc = "receive" => nlsock.end < Len(nlsock.answer)
    BY DEF NlInv, NlReading
  <1>2. ASSUME nl.pc = "done"
        PROVE  /\ ~nlsock.open
               /\ Refused => nl.ret = "EINVAL"
               /\ ~Refused /\ net.failed => nl.ret = "errno"
               /\ ~Refused /\ ~net.failed => nl.ret = net.err /\ nlsock.at = Len(nlsock.answer)
    BY <1>2 DEF NlInv, NlTold
  <1>3. ASSUME nl.pc = "done", ~Refused, ~net.failed, nl.fn # "none", net.err = "ok"
        PROVE  {nl.id} \ {0} = IF nl.ifindex \in DOMAIN net.links
                               THEN ProgramOf(net.links[nl.ifindex], nl.flags) ELSE {}
    <2> DEFINE n == Len(net.links)
               i == nl.ifindex
               modes == nl.flags \cap Modes
    <2>1. /\ net.links \in Links /\ nlsock.answer = DumpMsgs(net.links, nl.seq, "ok")
          /\ nl.info = Collected(net.links, i, nlsock.at)
      BY <1>3 DEF NlInv, NlAnswered
    <2>2. nl.ret = "ok" /\ nlsock.at = Len(nlsock.answer) /\ i \in Nat \ {0} /\ nl.id = get_xdp_id(nl.info, modes)
      BY <1>3 DEF NlInv, NlTold
    <2>3. n \in Nat /\ DOMAIN net.links = 1 .. n /\ \A k \in 1 .. n : net.links[k] \in [Modes -> Nat]
      BY <2>1, LinksTyped
    <2>4. nlsock.at = n + 1
      BY <2>1, <2>2, Dumped
    <2>5. CASE i \in 1 .. n
      <3>1. nl.info = XdpInfo(NoXdp, ParsedXdp(net.links[i]))
        BY <2>1, <2>3, <2>4, <2>5 DEF Collected
      <3>2. ~Several(modes)
        BY <1>3 DEF Refused, Flagged
      <3>3. {get_xdp_id(nl.info, modes)} \ {0} = ProgramOf(net.links[i], nl.flags)
        BY <3>1, <3>2, <2>3, <2>5, IdFound
      <3> QED
        BY <3>3, <2>2, <2>3, <2>5
    <2>6. CASE i \notin 1 .. n
      <3>1. nl.info = NoXdp
        BY <2>1, <2>2, <2>3, <2>6 DEF Collected
      <3>2. nl.id = 0
        BY <3>1, <2>2 DEF get_xdp_id, NoXdp
      <3> QED
        BY <3>2, <2>3, <2>6
    <2> QED
      BY <2>5, <2>6
  <1> QED
    BY <1>1, <1>2, <1>3 DEF NetlinkAnswers, Refused

(* bpf_get_link_xdp_id and bpf_set_link_xdp_fd, for any interfaces and     *)
(* programs, any flags and errors, and an answer that comes in any number  *)
(* of datagrams: the caller gets the right program's id or the right       *)
(* error, the socket is closed and the call does not wait in vain.         *)
THEOREM LinksAreAnswered == NlSpec => []NetlinkAnswers
<1>1. NlInit => NlInv
  BY NlStarts
<1>2. NlInv /\ [NlNext]_<<nl, nlsock, net>> => NlInv'
  <2> SUFFICES ASSUME NlInv, [NlNext]_<<nl, nlsock, net>> PROVE NlInv'
    OBVIOUS
  <2>1. CASE UNCHANGED <<nl, nlsock, net>>
    BY <2>1 DEF NlInv, NlShape, NlAsking, NlAnswered, NlReading, NlTold, Refused
  <2>2. ASSUME NEW ifindex \in Ifindexes, NEW flags \in FlagSets, bpf_get_link_xdp_id(ifindex, flags) PROVE NlInv'
    BY <2>2, LinkAsked
  <2>3. CASE bpf_set_link_xdp_fd
    BY <2>3, SetAsked
  <2>4. CASE StepFails
    BY <2>4, Failed
  <2>5. CASE OpenSocket \/ BindSocket
    BY <2>5, SocketOpened
  <2>6. ASSUME NEW links \in Links, NEW err \in Errors, Send(links, err) PROVE NlInv'
    BY <2>6, Sent
  <2>7. ASSUME NEW end \in nlsock.end + 1 .. Len(nlsock.answer), Receive(end) PROVE NlInv'
    BY <2>7, Received
  <2>8. CASE Read
    BY <2>8, ErrorIsRead, LinkIsRead
  <2>9. CASE EndOfDatagram
    BY <2>9, DatagramEnded
  <2>10. CASE Close
    BY <2>10, SocketClosed
  <2> QED
    BY <2>1, <2>2, <2>3, <2>4, <2>5, <2>6, <2>7, <2>8, <2>9, <2>10 DEF NlNext
<1> QED
  BY <1>1, <1>2, AnswersRight, PTL DEF NlSpec
=============================================================================
