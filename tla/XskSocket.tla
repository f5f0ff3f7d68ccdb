----------------------------- MODULE XskSocket -----------------------------
(***************************************************************************)
(* AF_XDP sockets of libbpf (xsk.c): a umem, the sockets that share it,    *)
(* and the XDP program and map that libbpf puts behind an interface; with  *)
(* several processes that set up sockets on the queues of one interface.   *)
(*                                                                         *)
(* A process has one umem and two places for sockets on it.  Programs are  *)
(* numbers, and the map of a program (xsks_map) has the number of its      *)
(* program.  Every call may fail; a creation unwinds as its labels say.    *)
(***************************************************************************)
EXTENDS Naturals, FiniteSets

CONSTANTS
  Users,
  Queues,
  MaxProgs, \* bound: programs ever loaded
  MaxCalls  \* bound: creations of umems and sockets

ASSUME CallsAssumption == Queues # {} /\ MaxProgs \in Nat /\ MaxCalls \in Nat

ProgIds == 1 .. MaxProgs
Slots == {1, 2}

VARIABLES
  umem,      \* struct xsk_umem of a process
  sock,      \* struct xsk_socket, and where its creation is
  has,       \* what the process has: descriptors of sockets, programs, maps; mappings
  iface,     \* the program attached to the interface, 0 for none
  entries,   \* map -> queue -> the socket that is entered there
  next_prog, \* the next number of a program
  calls,
  lost,      \* auxiliary: references and mappings that a failure leaves behind,
             \* and the queues that sockets stay bound to whose rings are mapped
  replaced   \* auxiliary: programs that others have been attached over

xvars == <<umem, sock, has, iface, entries, next_prog, calls, lost, replaced>>

NoSocket == [pc |-> "none", q |-> 0, own |-> FALSE, rx |-> FALSE, inhibit |-> FALSE, noexist |-> FALSE,
             maps |-> 0, prog |-> 0, map |-> 0]
NoUmem == [up |-> FALSE, refcount |-> 0, bound |-> 0]
Nothing == [fds |-> 0, mmaps |-> 0, progs |-> [n \in ProgIds |-> 0], maps |-> [n \in ProgIds |-> 0]]
NoEntry == <<"none", 0>>
NoLoss == [refs |-> 0, mmaps |-> 0, bound |-> {}]

(* Type invariant of the two structs and of the kernel's side.             *)
XTypeOK ==
  /\ umem \in [Users -> [up : BOOLEAN, refcount : Nat, bound : Queues \cup {0}]]
  /\ sock \in [Users -> [Slots -> [
       pc : {"none", "rx", "tx", "bind", "getid", "load", "attach", "getfd", "lookup", "update", "up"},
       q : Queues \cup {0}, own : BOOLEAN, rx : BOOLEAN, inhibit : BOOLEAN, noexist : BOOLEAN,
       maps : 0 .. 2, prog : 0 .. MaxProgs, map : 0 .. MaxProgs]]]
  /\ has \in [Users -> [fds : Nat, mmaps : Nat, progs : [ProgIds -> Nat], maps : [ProgIds -> Nat]]]
  /\ iface \in 0 .. MaxProgs /\ next_prog \in 1 .. MaxProgs + 1
  /\ entries \in [ProgIds -> [Queues -> (Users \X Slots) \cup {NoEntry}]]
  /\ calls \in 0 .. MaxCalls
  /\ lost \in [Users -> [refs : Nat, mmaps : Nat, bound : SUBSET Queues]]
  /\ replaced \subseteq ProgIds

XInit ==
  /\ umem = [u \in Users |-> NoUmem]
  /\ sock = [u \in Users |-> [k \in Slots |-> NoSocket]]
  /\ has = [u \in Users |-> Nothing]
  /\ iface = 0 /\ next_prog = 1 /\ calls = 0 /\ replaced = {}
  /\ entries = [n \in ProgIds |-> [q \in Queues |-> NoEntry]]
  /\ lost = [u \in Users |-> NoLoss]

\* a process makes its calls one after the other: the struct has no lock
Idle(u) == \A k \in Slots : sock[u][k].pc \in {"none", "up"}

-----------------------------------------------------------------------------
(* The umem                                                                *)

\* xsk_umem__create.  When the second mmap fails, munmap gets its result
\* and not the first ring: that mapping stays.
xsk_umem__create(u) ==
  /\ ~umem[u].up /\ calls < MaxCalls
  /\ calls' = calls + 1
  /\ \/ /\ umem' = [umem EXCEPT ![u] = [NoUmem EXCEPT !.up = TRUE]]
        /\ has' = [has EXCEPT ![u].fds = @ + 1, ![u].mmaps = @ + 2]
        /\ UNCHANGED lost
     \/ /\ has' = [has EXCEPT ![u].mmaps = @ + 1]
        /\ lost' = [lost EXCEPT ![u].mmaps = @ + 1]
        /\ UNCHANGED umem
     \/ UNCHANGED <<umem, has, lost>>
  /\ UNCHANGED <<sock, iface, entries, next_prog, replaced>>

\* a socket that is gone is in no map
Purged(gone) == [n \in ProgIds |-> [q \in Queues |-> IF entries[n][q] \in gone THEN NoEntry ELSE entries[n][q]]]

\* xsk_umem__delete refuses while there are sockets
Deletable(r) == r = 0

\* xsk_get_mmap_offsets says where n rings begin.  When it fails they stay
\* mapped, and the kernel keeps the socket, which is bound, though its
\* descriptor is closed; h is what the process has without the rest
Unmap(u, n, h) ==
  \/ has' = [has EXCEPT ![u] = [h EXCEPT !.mmaps = @ - n]] /\ UNCHANGED lost
  \/ /\ has' = [has EXCEPT ![u] = h]
     /\ lost' = [lost EXCEPT ![u] = [refs |-> @.refs, mmaps |-> @.mmaps + n,
                                     bound |-> @.bound \cup ({umem[u].bound} \ {0})]]

xsk_umem__delete(u) ==
  /\ Idle(u) /\ umem[u].up /\ Deletable(umem[u].refcount)
  /\ Unmap(u, 2, [has[u] EXCEPT !.fds = @ - 1])
  /\ umem' = [umem EXCEPT ![u] = NoUmem]
  /\ UNCHANGED <<sock, iface, entries, next_prog, calls, replaced>>

-----------------------------------------------------------------------------
(* Creation of a socket                                                    *)

Put(u, k, s) == sock' = [sock EXCEPT ![u][k] = s]

\* it is closed in any case
ClosesAlways(refcount) == TRUE

\* its own descriptor is closed, when others use the umem
ClosesOwn(refcount) == refcount - 1 > 0

\* the end of xsk_socket__create from label out_socket on; h is what the
\* process has apart from this socket's rings and descriptor
Unwind(u, k, h) ==
  /\ umem' = [umem EXCEPT ![u].refcount = @ - 1]
  /\ has' = [has EXCEPT ![u] = [h EXCEPT !.mmaps = @ - sock[u][k].maps,
                                         !.fds = @ - (IF ClosesOwn(umem[u].refcount) THEN 1 ELSE 0)]]
  /\ Put(u, k, NoSocket)

\* xsk_socket__create up to its first system call.  The user asks for
\* libbpf's program or not, may want reception, and says whether a program
\* that is there is replaced.  When socket() fails the count stays.
BeginCreate(u, k) ==
  /\ Idle(u) /\ umem[u].up /\ sock[u][k].pc = "none" /\ calls < MaxCalls
  /\ calls' = calls + 1
  /\ \E q \in Queues, rx, inhibit, noexist \in BOOLEAN :
       /\ umem[u].refcount > 0 => inhibit
       /\ umem' = [umem EXCEPT ![u].refcount = @ + 1]
       /\ \/ /\ Put(u, k, [NoSocket EXCEPT !.pc = "rx", !.q = q, !.rx = rx, !.inhibit = inhibit,
                             !.noexist = noexist, !.own = umem[u].refcount > 0])
             /\ has' = [has EXCEPT ![u].fds = @ + (IF umem[u].refcount > 0 THEN 1 ELSE 0)]
             /\ UNCHANGED lost
          \/ /\ umem[u].refcount > 0
             /\ lost' = [lost EXCEPT ![u].refs = @ + 1]
             /\ UNCHANGED <<sock, has>>
  /\ UNCHANGED <<iface, entries, next_prog, replaced>>

GiveUp(u, k) == Unwind(u, k, has[u])

\* a ring of the socket is set up: not on a umem's socket that is bound
Ring(u, k, pc, wanted, then) ==
  LET s == sock[u][k]
  IN  /\ s.pc = pc
      /\ \/ /\ s.own \/ umem[u].bound = 0
            /\ Put(u, k, [s EXCEPT !.pc = then, !.maps = @ + (IF wanted THEN 1 ELSE 0)])
            /\ has' = [has EXCEPT ![u].mmaps = @ + (IF wanted THEN 1 ELSE 0)]
            /\ UNCHANGED umem
         \/ GiveUp(u, k)
      /\ UNCHANGED <<iface, entries, next_prog, calls, lost, replaced>>

RxRing(u, k) == Ring(u, k, "rx", sock[u][k].rx, "tx")
TxRing(u, k) == Ring(u, k, "tx", TRUE, "bind")

\* the kernel's bind: a queue belongs to one umem, whose sockets share it
Free(u, q) == \A v \in Users : q \notin lost[v].bound /\ (v # u => umem[v].bound # q)

Bind(u, k) ==
  LET s == sock[u][k]
  IN  /\ s.pc = "bind"
      /\ \/ /\ IF s.own THEN umem[u].bound = s.q ELSE Free(u, s.q)
            /\ umem' = [umem EXCEPT ![u].bound = s.q]
            /\ Put(u, k, [s EXCEPT !.pc = IF s.inhibit THEN "up" ELSE "getid"])
            /\ UNCHANGED has
         \/ GiveUp(u, k)
      /\ UNCHANGED <<iface, entries, next_prog, calls, lost, replaced>>

-----------------------------------------------------------------------------
(* xsk_setup_xdp_prog                                                      *)

\* bpf_get_link_xdp_id
GetId(u, k) ==
  LET s == sock[u][k]
  IN  /\ s.pc = "getid"
      /\ \/ /\ Put(u, k, IF iface = 0 THEN [s EXCEPT !.pc = "load"] ELSE [s EXCEPT !.pc = "getfd", !.prog = iface])
            /\ UNCHANGED <<umem, has>>
         \/ GiveUp(u, k)
      /\ UNCHANGED <<iface, entries, next_prog, calls, lost, replaced>>

\* xsk_create_bpf_maps and the loading of the program
LoadProg(u, k) ==
  LET s == sock[u][k]
  IN  /\ s.pc = "load"
      /\ \/ /\ next_prog <= MaxProgs
            /\ Put(u, k, [s EXCEPT !.pc = "attach", !.prog = next_prog, !.map = next_prog])
            /\ has' = [has EXCEPT ![u].progs[next_prog] = @ + 1, ![u].maps[next_prog] = @ + 1]
            /\ next_prog' = next_prog + 1
            /\ UNCHANGED umem
         \/ GiveUp(u, k) /\ UNCHANGED next_prog
      /\ UNCHANGED <<iface, entries, calls, lost, replaced>>

\* what a process has behind the closing of a socket's program and map
WithoutRefs(h, s) == [h EXCEPT !.progs = [n \in ProgIds |-> IF n = s.prog THEN @[n] - 1 ELSE @[n]],
                           !.maps = [n \in ProgIds |-> IF n = s.map THEN @[n] - 1 ELSE @[n]]]

\* bpf_map_delete_elem in xsk_delete_bpf_maps: whatever is there
Deleted(s) == IF s.map = 0 THEN entries ELSE [entries EXCEPT ![s.map][s.q] = NoEntry]

\* bpf_set_link_xdp_fd; it fails when a program is there that shall stay
Attach(u, k) ==
  LET s == sock[u][k]
  IN  /\ s.pc = "attach"
      /\ \/ /\ s.noexist => iface = 0
            /\ iface' = s.prog
            /\ replaced' = replaced \cup ({iface} \ {0})
            /\ Put(u, k, [s EXCEPT !.pc = "update"])
            /\ UNCHANGED <<umem, has, entries>>
         \/ /\ Unwind(u, k, WithoutRefs(has[u], s))
            /\ entries' = Deleted(s)
            /\ UNCHANGED <<iface, replaced>>
      /\ UNCHANGED <<next_prog, calls, lost>>

Alive(n) == iface = n \/ \E v \in Users : has[v].progs[n] > 0

\* bpf_prog_get_fd_by_id: the program may be gone
GetFd(u, k) ==
  LET s == sock[u][k]
  IN  /\ s.pc = "getfd"
      /\ \/ /\ Alive(s.prog)
            /\ Put(u, k, [s EXCEPT !.pc = "lookup"])
            /\ has' = [has EXCEPT ![u].progs[s.prog] = @ + 1]
            /\ UNCHANGED umem
         \/ GiveUp(u, k)
      /\ UNCHANGED <<iface, entries, next_prog, calls, lost, replaced>>

\* xsk_lookup_bpf_maps, the map named xsks_map
Lookup(u, k) ==
  LET s == sock[u][k]
  IN  /\ s.pc = "lookup"
      /\ \/ /\ Put(u, k, [s EXCEPT !.pc = "update", !.map = s.prog])
            /\ has' = [has EXCEPT ![u].maps[s.prog] = @ + 1]
            /\ UNCHANGED umem
         \/ Unwind(u, k, WithoutRefs(has[u], s))
      /\ UNCHANGED <<iface, entries, next_prog, calls, lost, replaced>>

\* the entry is made by the one that has loaded the program
UpdatesFirst(s) == s.rx /\ iface = s.prog /\ s.prog = 1

\* a socket that receives is entered in the map
Updates(s) == s.rx

\* xsk_set_bpf_maps
Update(u, k) ==
  LET s == sock[u][k]
  IN  /\ s.pc = "update"
      /\ \/ /\ Put(u, k, [s EXCEPT !.pc = "up"])
            /\ entries' = IF Updates(s) THEN [entries EXCEPT ![s.map][s.q] = <<u, k>>] ELSE entries
            /\ UNCHANGED <<umem, has>>
         \/ /\ Updates(s)
            /\ Unwind(u, k, WithoutRefs(has[u], s))
            /\ entries' = Deleted(s)
      /\ UNCHANGED <<iface, next_prog, calls, lost, replaced>>

-----------------------------------------------------------------------------
xsk_socket__delete(u, k) ==
  LET s == sock[u][k]  h == WithoutRefs(has[u], s)
  IN  /\ Idle(u) /\ s.pc = "up"
      /\ entries' = Deleted(s)
      /\ Unmap(u, s.maps, [h EXCEPT !.fds = @ - (IF s.own THEN 1 ELSE 0)])
      /\ umem' = [umem EXCEPT ![u].refcount = @ - 1]
      /\ Put(u, k, NoSocket)
      /\ UNCHANGED <<iface, next_prog, calls, replaced>>

\* the process ends
ProcessExit(u) ==
  /\ has[u] # Nothing
  /\ umem' = [umem EXCEPT ![u] = NoUmem]
  /\ sock' = [sock EXCEPT ![u] = [k \in Slots |-> NoSocket]]
  /\ has' = [has EXCEPT ![u] = Nothing]
  /\ lost' = [lost EXCEPT ![u] = NoLoss]
  /\ entries' = Purged({u} \X Slots)
  /\ UNCHANGED <<iface, next_prog, calls, replaced>>

XNext ==
  \/ \E u \in Users : xsk_umem__create(u)
  \/ \E u \in Users : xsk_umem__delete(u)
  \/ \E u \in Users : ProcessExit(u)
  \/ \E u \in Users, k \in Slots : BeginCreate(u, k)
  \/ \E u \in Users, k \in Slots : RxRing(u, k)
  \/ \E u \in Users, k \in Slots : TxRing(u, k)
  \/ \E u \in Users, k \in Slots : Bind(u, k)
  \/ \E u \in Users, k \in Slots : GetId(u, k)
  \/ \E u \in Users, k \in Slots : LoadProg(u, k)
  \/ \E u \in Users, k \in Slots : Attach(u, k)
  \/ \E u \in Users, k \in Slots : GetFd(u, k)
  \/ \E u \in Users, k \in Slots : Lookup(u, k)
  \/ \E u \in Users, k \in Slots : Update(u, k)
  \/ \E u \in Users, k \in Slots : xsk_socket__delete(u, k)

XSpec == XInit /\ [][XNext]_xvars

-----------------------------------------------------------------------------
\* xsk_umem__delete, xsk_socket__create: the umem is there as long as one of
\* its sockets is, also one that is being created
UmemOutlivesSockets ==
  \A u \in Users : \A k \in Slots : sock[u][k].pc # "none" => umem[u].up /\ umem[u].refcount > 0

\* those whose program descriptor is open
Open(u, n) == {k \in Slots : sock[u][k].prog = n /\ sock[u][k].pc \notin {"none", "getfd"}}

(* Whatever fails, and in whichever order umem and sockets go, a process   *)
(* has what they have, and no more than the mappings that a failed         *)
(* xsk_umem__create leaves behind, and a deletion of a umem or a socket    *)
(* whose xsk_get_mmap_offsets fails.                                       *)
ResourcesAccounted ==
  UmemOutlivesSockets /\ \A u \in Users :
    LET up == IF umem[u].up THEN 1 ELSE 0
        rings == sock[u][1].maps + sock[u][2].maps
    IN  /\ has[u].fds = up + Cardinality({k \in Slots : sock[u][k].own})
        /\ has[u].mmaps = 2 * up + rings + lost[u].mmaps
        /\ \A n \in ProgIds : /\ has[u].progs[n] = Cardinality(Open(u, n))
                          /\ has[u].maps[n] = Cardinality({k \in Slots : sock[u][k].map = n})

(* xsk_setup_xdp_prog: a socket that was set up to receive with libbpf's   *)
(* program is found by the program on the interface, unless another one    *)
(* was attached over it.                                                   *)
ReceiversAreServed ==
  \A u \in Users : \A k \in Slots :
    LET s == sock[u][k]
    IN  s.pc = "up" /\ s.rx /\ ~s.inhibit =>
          entries[s.map][s.q] = <<u, k>> /\ (iface = s.prog \/ s.prog \in replaced)
=============================================================================
