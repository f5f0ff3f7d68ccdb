----------------------------- MODULE BpfObject -----------------------------
(***************************************************************************)
(* The life of a bpf_object of libbpf (libbpf.c): opened, loaded (maps     *)
(* created or taken from their pins, programs relocated and loaded),       *)
(* pinned and unpinned, closed; by several processes that open the same    *)
(* object file and meet in the BPF file system.                            *)
(*                                                                         *)
(* A step is a system call and what the code does up to the next one.      *)
(* Every call may fail; how the code unwinds is what this module is about. *)
(* The kernel's maps and programs are numbers, given out once; a process   *)
(* has any number of descriptors of each.  A program has one instance.     *)
(***************************************************************************)
EXTENDS Naturals, FiniteSets

CONSTANTS
  Procs,
  NMaps, NProgs,
  AutoPin,  \* maps with a pin path of their own (LIBBPF_PIN_BY_NAME)
  Internal, \* maps of global data
  MaxIds,   \* bound: maps and programs the kernel has ever made
  MaxOpens  \* bound: objects ever opened

ASSUME SizesAssumption ==
  /\ NMaps \in Nat \ {0} /\ NProgs \in Nat \ {0} /\ MaxIds \in Nat /\ MaxOpens \in Nat
  /\ AutoPin \subseteq 1 .. NMaps /\ Internal \subseteq 1 .. NMaps

Maps == 1 .. NMaps
Progs == 1 .. NProgs
Ids == 1 .. MaxIds

\* pin paths: one for a map, one for a program
Paths == 1 .. NMaps + NProgs
ProgPath(j) == NMaps + j

VARIABLES
  obj,    \* per process: its bpf_object, and where a call of libbpf is in it
  fds,    \* per process: descriptors it has of every map and program
  fs,     \* the BPF file system: path -> what is pinned there, 0 for nothing
  next,   \* the kernel's next number
  opens,  \* objects opened so far
  leaked, \* auxiliary: per process, descriptors that nothing will close
  pinner, \* auxiliary: process that has pinned this, with the object it has
  taken   \* auxiliary: per process, paths that it has pinned and another unlinked

vars == <<obj, fds, fs, next, opens, leaked, pinner, taken>>

NewMap(i) == [fd |-> 0, pinned |-> FALSE, reused |-> FALSE, path |-> i \in AutoPin]
Opened == [state |-> "open", pc |-> "", i |-> 0, given |-> FALSE, failed |-> 0, stuck |-> FALSE,
           map |-> [i \in Maps |-> NewMap(i)], prog |-> [j \in Progs |-> 0]]
Closed == [Opened EXCEPT !.state = "closed"]

Nobody == "nobody"
ASSUME NobodyAssumption == Nobody \notin Procs

(* Type invariant of struct bpf_object, its maps and the kernel's side.    *)
TypeOK ==
  /\ obj \in [Procs -> [
       state : {"closed", "open", "busy", "loaded", "failed"},
       pc : {"", "get", "create", "populate", "autopin", "relocate", "progs", "unpin",
             "pinmaps", "unpinmaps", "unpinmaps_end", "rollback", "pinprogs", "unpinprogs", "rollprogs"},
       i : 0 .. NMaps + NProgs + 1, given : BOOLEAN, failed : 0 .. NMaps, stuck : BOOLEAN,
       map : [Maps -> [fd : 0 .. MaxIds, pinned : BOOLEAN, reused : BOOLEAN, path : BOOLEAN]],
       prog : [Progs -> 0 .. MaxIds]]]
  /\ fds \in [Procs -> [Ids -> Nat]]
  /\ fs \in [Paths -> 0 .. MaxIds]
  /\ next \in 1 .. MaxIds + 1
  /\ opens \in 0 .. MaxOpens
  /\ leaked \in [Procs -> [Ids -> Nat]]
  /\ pinner \in [Paths -> Procs \cup {Nobody}]
  /\ taken \in [Procs -> SUBSET Paths]

Init ==
  /\ obj = [p \in Procs |-> Closed]
  /\ fds = [p \in Procs |-> [n \in Ids |-> 0]]
  /\ fs = [x \in Paths |-> 0]
  /\ next = 1
  /\ opens = 0
  /\ leaked = [p \in Procs |-> [n \in Ids |-> 0]]
  /\ pinner = [x \in Paths |-> Nobody]
  /\ taken = [p \in Procs |-> {}]

At(p, pc) == obj[p].state = "busy" /\ obj[p].pc = pc
Go(o, pc, i) == [o EXCEPT !.pc = pc, !.i = i]

\* descriptors of n that an object's maps and programs have
Held(o, n) == Cardinality({i \in Maps : o.map[i].fd = n}) + Cardinality({j \in Progs : o.prog[j] = n})

\* close, of maps alone
ClosedMaps(p, o, maps, progs) ==
  [fds EXCEPT ![p] = [n \in Ids |-> fds[p][n] - Cardinality({i \in maps : o.map[i].fd = n})]]

\* fds after the closing of those of some maps and programs of an object
Without(p, o, maps, progs) ==
  [fds EXCEPT ![p] = [n \in Ids |->
     fds[p][n] - Cardinality({i \in maps : o.map[i].fd = n}) - Cardinality({j \in progs : o.prog[j] = n})]]

\* close: the field still has the number
JustClosed(o, maps) == o

\* zclose: the field is -1 afterwards
Zclosed(o, maps) == [o EXCEPT !.map = [i \in Maps |-> IF i \in maps THEN [@[i] EXCEPT !.fd = 0] ELSE @[i]]]

-----------------------------------------------------------------------------
(* Open and load                                                           *)

bpf_object__open(p) ==
  /\ obj[p].state = "closed" /\ opens < MaxOpens
  /\ obj' = [obj EXCEPT ![p] = Opened]
  /\ opens' = opens + 1
  /\ UNCHANGED <<fds, fs, next, leaked, pinner, taken>>

\* an object that was loaded, or failed to, is not loaded again
bpf_object__load(p) ==
  /\ obj[p].state = "open"
  /\ obj' = [obj EXCEPT ![p] = Go([@ EXCEPT !.state = "busy"], "get", 1)]
  /\ pinner' = [x \in Paths |-> IF pinner[x] = p THEN Nobody ELSE pinner[x]]
  /\ UNCHANGED <<fds, fs, next, opens, leaked, taken>>

\* what comes behind map i
NextMap(o, i) == IF i < NMaps THEN Go(o, "get", i + 1) ELSE Go(o, "relocate", 0)
Fail(o) == Go(o, "unpin", 1)

\* bpf_map__reuse_fd
Reused(o, i, n) == [o EXCEPT !.map[i] = [@ EXCEPT !.fd = n, !.reused = TRUE]]

(* bpf_object__reuse_map: bpf_obj_get, and bpf_map__reuse_fd when the pin  *)
(* fits.  The descriptor of bpf_obj_get is not closed behind the copy.     *)
reuse_map(p) ==
  LET o == obj[p]  i == o.i  n == fs[i]
  IN  /\ At(p, "get")
      /\ \/ /\ o.map[i].path => n = 0
            /\ obj' = [obj EXCEPT ![p] = Go(o, "create", i)]
            /\ UNCHANGED <<fds, leaked>>
         \/ /\ o.map[i].path /\ n # 0
            /\ obj' = [obj EXCEPT ![p] = NextMap([Reused(o, i, n) EXCEPT !.map[i].pinned = TRUE], i)]
            /\ fds' = [fds EXCEPT ![p][n] = @ + 2]
            /\ leaked' = [leaked EXCEPT ![p][n] = @ + 1]
         \/ /\ o.map[i].path
            /\ obj' = [obj EXCEPT ![p] = Fail(o)]
            /\ UNCHANGED <<fds, leaked>>
      /\ UNCHANGED <<fs, next, opens, pinner, taken>>

(* bpf_create_map_xattr, with BTF and without.  If it fails the maps       *)
(* before this one are closed here, and all of them in bpf_object__unload. *)
create_map(p) ==
  LET o == obj[p]  i == o.i
  IN  /\ At(p, "create")
      /\ \/ /\ next <= MaxIds
            /\ obj' = [obj EXCEPT ![p] =
                 Go([o EXCEPT !.map[i].fd = next], IF i \in Internal THEN "populate" ELSE "autopin", i)]
            /\ fds' = [fds EXCEPT ![p][next] = 1]
            /\ next' = next + 1
         \/ /\ obj' = [obj EXCEPT ![p] = Fail(Zclosed(o, 1 .. i - 1))]
            /\ fds' = Without(p, o, 1 .. i - 1, {})
            /\ UNCHANGED next
      /\ UNCHANGED <<fs, opens, leaked, pinner, taken>>

populate_internal_map(p) ==
  LET o == obj[p]  i == o.i
  IN  /\ At(p, "populate")
      /\ \/ /\ obj' = [obj EXCEPT ![p] = Go(o, "autopin", i)]
            /\ UNCHANGED fds
         \/ /\ obj' = [obj EXCEPT ![p] = Fail(Zclosed(o, 1 .. i))]
            /\ fds' = Without(p, o, 1 .. i, {})
      /\ UNCHANGED <<fs, next, opens, leaked, pinner, taken>>

\* bpf_obj_pin: a file of that name must not be there
Pin(p, x, n) ==
  /\ fs[x] = 0
  /\ fs' = [fs EXCEPT ![x] = n]
  /\ pinner' = [pinner EXCEPT ![x] = p]

autopin_map(p) ==
  LET o == obj[p]  i == o.i
  IN  /\ At(p, "autopin")
      /\ \/ /\ ~o.map[i].path
            /\ obj' = [obj EXCEPT ![p] = NextMap(o, i)]
            /\ UNCHANGED <<fs, pinner>>
         \/ /\ o.map[i].path /\ Pin(p, i, o.map[i].fd)
            /\ obj' = [obj EXCEPT ![p] = NextMap([o EXCEPT !.map[i].pinned = TRUE], i)]
         \/ /\ o.map[i].path
            /\ obj' = [obj EXCEPT ![p] = Fail(o)]
            /\ UNCHANGED <<fs, pinner>>
      /\ UNCHANGED <<fds, next, opens, leaked, taken>>

\* bpf_object__relocate
relocate(p) ==
  /\ At(p, "relocate")
  /\ \/ obj' = [obj EXCEPT ![p] = Go(@, "progs", 1)]
     \/ obj' = [obj EXCEPT ![p] = Fail(@)]
  /\ UNCHANGED <<fds, fs, next, opens, leaked, pinner, taken>>

(* bpf_program__load                                                       *)
load_prog(p) ==
  LET o == obj[p]  j == o.i
  IN  /\ At(p, "progs")
      /\ \/ /\ next <= MaxIds
            /\ obj' = [obj EXCEPT ![p] =
                 IF j < NProgs THEN [o EXCEPT !.prog[j] = next, !.i = j + 1]
                               ELSE Go([o EXCEPT !.prog[j] = next, !.state = "loaded"], "", 0)]
            /\ fds' = [fds EXCEPT ![p][next] = 1]
            /\ next' = next + 1
         \/ /\ obj' = [obj EXCEPT ![p] = Fail(o)]
            /\ UNCHANGED <<fds, next>>
      /\ UNCHANGED <<fs, opens, leaked, pinner, taken>>

-----------------------------------------------------------------------------
(* Unpin, unload                                                           *)

\* paths of others that are gone when p unlinks x
Taken(p, x) ==
  [q \in Procs |-> IF q # p /\ x \in Maps /\ obj[q].map[x].pinned THEN taken[q] \cup {x} ELSE taken[q]]

(* unlink: it may fail, and does when there is no such file.               *)
Unlink(p, x, done, undone) ==
  \/ /\ fs[x] # 0
     /\ fs' = [fs EXCEPT ![x] = 0]
     /\ pinner' = [pinner EXCEPT ![x] = Nobody]
     /\ taken' = [Taken(p, x) EXCEPT ![p] = @ \ {x}]
     /\ obj' = [obj EXCEPT ![p] = done]
  \/ /\ obj' = [obj EXCEPT ![p] = undone]
     /\ UNCHANGED <<fs, pinner, taken>>

\* all pinned maps
ToUnpinAny(m) == m.pinned

\* a failed load unpins the maps that it has pinned
ToUnpin(m) == m.pinned /\ ~m.reused

\* its path is gone and the map counts as pinned
StillPinned(o, i) == o

\* bpf_map__unpin
Unpinned(o, i) == [o EXCEPT !.map[i].pinned = FALSE]

(* The end of bpf_object__load_xattr for a load that failed, one map after *)
(* the other, and bpf_object__unload.                                      *)
load_unwind(p) ==
  LET o == obj[p]  i == o.i
  IN  /\ At(p, "unpin")
      /\ \/ /\ i <= NMaps /\ ToUnpin(o.map[i])
            /\ Unlink(p, i, [Unpinned(o, i) EXCEPT !.i = i + 1], [o EXCEPT !.stuck = TRUE, !.i = i + 1])
            /\ UNCHANGED fds
         \/ /\ i <= NMaps /\ ~ToUnpin(o.map[i])
            /\ obj' = [obj EXCEPT ![p].i = i + 1]
            /\ UNCHANGED <<fds, fs, pinner, taken>>
         \/ /\ i > NMaps
            /\ obj' = [obj EXCEPT ![p] =
                 Go([Zclosed(o, Maps) EXCEPT !.prog = [j \in Progs |-> 0], !.state = "failed"], "", 0)]
            /\ fds' = Without(p, o, Maps, Progs)
            /\ UNCHANGED <<fs, pinner, taken>>
      /\ UNCHANGED <<next, opens, leaked>>

(* bpf_object__close: unload, and the object is freed                      *)
bpf_object__close(p) ==
  /\ obj[p].state \in {"open", "loaded", "failed"}
  /\ obj' = [obj EXCEPT ![p] = Closed]
  /\ fds' = Without(p, obj[p], Maps, Progs)
  /\ taken' = [taken EXCEPT ![p] = {}]
  /\ UNCHANGED <<fs, next, opens, leaked, pinner>>

(* The process ends, anywhere.                                             *)
Exit(p) ==
  /\ obj[p].state # "closed"
  /\ obj' = [obj EXCEPT ![p] = Closed]
  /\ fds' = [fds EXCEPT ![p] = [n \in Ids |-> 0]]
  /\ leaked' = [leaked EXCEPT ![p] = [n \in Ids |-> 0]]
  /\ taken' = [taken EXCEPT ![p] = {}]
  /\ UNCHANGED <<fs, next, opens, pinner>>

-----------------------------------------------------------------------------
(* Pinning and unpinning a loaded object                                   *)

Begin(p, pc, given) ==
  /\ obj[p].state = "loaded"
  /\ obj' = [obj EXCEPT ![p] = Go([@ EXCEPT !.state = "busy", !.given = given, !.failed = 0, !.stuck = FALSE], pc, 1)]
  /\ UNCHANGED <<fds, fs, next, opens, leaked, pinner, taken>>

\* bpf_object__pin_maps, unpin_maps, pin (both maps and programs), unpin_programs
PinCall(p) == \/ \E given \in BOOLEAN : Begin(p, "pinmaps", given) \/ Begin(p, "unpinmaps", given)
              \/ Begin(p, "pinprogs", FALSE) \/ Begin(p, "unpinprogs", FALSE)

Loaded(o) == Go([o EXCEPT !.state = "loaded"], "", 0)

\* the map before it, which is pinned as well, is left out
RollbackBelow(i) == IF i > 2 THEN i - 2 ELSE 0

\* err_unpin_maps starts at the map before the one that failed
RollbackFrom(i) == i - 1

(* One map of bpf_object__pin_maps: bpf_map__pin, or the rollback begins.  *)
(* A failure leaves the map its pin path.                                  *)
pin_map(p) ==
  LET o == obj[p]  i == o.i
      pathed == [o EXCEPT !.map[i].path = TRUE]
      after(q) == IF i < NMaps THEN [q EXCEPT !.i = i + 1]
                  ELSE IF o.given THEN Go(q, "pinprogs", 1) ELSE Loaded(q)
  IN  /\ At(p, "pinmaps")
      /\ \/ /\ (~o.given /\ ~o.map[i].path) \/ (o.map[i].path /\ o.map[i].pinned)
            /\ obj' = [obj EXCEPT ![p] = after(o)]
            /\ UNCHANGED <<fs, pinner>>
         \/ /\ (o.given \/ o.map[i].path) /\ ~o.map[i].pinned
            /\ \/ /\ Pin(p, i, o.map[i].fd)
                  /\ obj' = [obj EXCEPT ![p] = after([pathed EXCEPT !.map[i].pinned = TRUE])]
               \/ /\ obj' = [obj EXCEPT ![p] = Go([pathed EXCEPT !.failed = i], "rollback", RollbackFrom(i))]
                  /\ UNCHANGED <<fs, pinner>>
      /\ UNCHANGED <<fds, next, opens, leaked, taken>>

pin_maps_rollback(p) ==
  LET o == obj[p]  i == o.i  down == [o EXCEPT !.i = i - 1]
  IN  /\ At(p, "rollback")
      /\ \/ /\ i = 0
            /\ obj' = [obj EXCEPT ![p] = Loaded(o)]
            /\ UNCHANGED <<fs, pinner, taken>>
         \/ /\ i > 0 /\ ~o.map[i].path
            /\ obj' = [obj EXCEPT ![p] = down]
            /\ UNCHANGED <<fs, pinner, taken>>
         \/ /\ i > 0 /\ o.map[i].path
            /\ Unlink(p, i, Unpinned(down, i), [down EXCEPT !.stuck = TRUE])
      /\ UNCHANGED <<fds, next, opens, leaked>>

(* One map of bpf_object__unpin_maps; the first failure ends it.           *)
unpin_map(p) ==
  LET o == obj[p]  i == o.i
      after(q) == IF i < NMaps THEN [q EXCEPT !.i = i + 1] ELSE Loaded(q)
  IN  /\ At(p, "unpinmaps")
      /\ \/ /\ ~o.given /\ ~o.map[i].path
            /\ obj' = [obj EXCEPT ![p] = after(o)]
            /\ UNCHANGED <<fs, pinner, taken>>
         \/ /\ o.given \/ o.map[i].path
            /\ Unlink(p, i, after(Unpinned(o, i)), Loaded(o))
      /\ UNCHANGED <<fds, next, opens, leaked>>

(* One program of bpf_object__pin_programs.  When bpf_object__pin has      *)
(* called it, its failure unpins the maps too.                             *)
pin_prog(p) ==
  LET o == obj[p]  j == o.i
  IN  /\ At(p, "pinprogs")
      /\ \/ /\ Pin(p, ProgPath(j), o.prog[j])
            /\ obj' = [obj EXCEPT ![p] = IF j < NProgs THEN [o EXCEPT !.i = j + 1] ELSE Loaded(o)]
         \/ /\ obj' = [obj EXCEPT ![p] = Go(o, "rollprogs", j - 1)]
            /\ UNCHANGED <<fs, pinner>>
      /\ UNCHANGED <<fds, next, opens, leaked, taken>>

bpf_program__unpin(p, j, done, undone) == Unlink(p, ProgPath(j), done, undone)

pin_progs_rollback(p) ==
  LET o == obj[p]  j == o.i  down == [o EXCEPT !.i = j - 1]
  IN  /\ At(p, "rollprogs")
      /\ \/ /\ j = 0
            /\ obj' = [obj EXCEPT ![p] = IF o.given THEN Go(o, "unpinmaps", 1) ELSE Loaded(o)]
            /\ UNCHANGED <<fs, pinner, taken>>
         \/ j > 0 /\ bpf_program__unpin(p, j, down, down)
      /\ UNCHANGED <<fds, next, opens, leaked>>

unpin_prog(p) ==
  LET o == obj[p]  j == o.i
  IN  /\ At(p, "unpinprogs")
      /\ bpf_program__unpin(p, j, IF j < NProgs THEN [o EXCEPT !.i = j + 1] ELSE Loaded(o), Loaded(o))
      /\ UNCHANGED <<fds, next, opens, leaked>>

-----------------------------------------------------------------------------
Step(p) ==
  \/ reuse_map(p)
  \/ create_map(p)
  \/ populate_internal_map(p)
  \/ autopin_map(p)
  \/ relocate(p)
  \/ load_prog(p)
  \/ load_unwind(p)
  \/ pin_map(p)
  \/ pin_maps_rollback(p)
  \/ unpin_map(p)
  \/ pin_prog(p)
  \/ pin_progs_rollback(p)
  \/ unpin_prog(p)

Next ==
  \/ \E p \in Procs : Step(p)
  \/ \E p \in Procs : bpf_object__open(p)
  \/ \E p \in Procs : bpf_object__load(p)
  \/ \E p \in Procs : bpf_object__close(p)
  \/ \E p \in Procs : Exit(p)
  \/ \E p \in Procs : PinCall(p)

Spec == Init /\ [][Next]_vars

-----------------------------------------------------------------------------
(* Every descriptor is closed once: however a load fails and whatever is   *)
(* unwound twice, a process has those of its maps and programs, and of     *)
(* pins it has reused one more each, which stays until it ends.            *)
FdsAccounted ==
  \A p \in Procs, n \in Ids : fds[p][n] = Held(obj[p], n) + leaked[p][n]

(* bpf_object__create_maps, bpf_map__pin: a map that counts as pinned is   *)
(* what its path leads to, and so those who have loaded the object share   *)
(* its map, unless another process has unlinked the path.                  *)
PinnedIsThere ==
  \A p \in Procs, i \in Maps :
    obj[p].map[i].pinned /\ i \notin taken[p] /\ obj[p].state \in {"busy", "loaded"} =>
      obj[p].map[i].fd \in {0, fs[i]} /\ fs[i] # 0

\* bpf_object__load_xattr: a load that has failed leaves no pin that it made,
\* or an unlink has failed
FailedLoadLeavesNoPin ==
  \A p \in Procs : obj[p].state = "failed" /\ ~obj[p].stuck =>
    \A x \in Paths : fs[x] # 0 => pinner[x] # p

\* bpf_object__pin_maps: when a map cannot be pinned, none before it stays
\* pinned, or an unlink has failed
PinMapsAllOrNone ==
  \A p \in Procs : obj[p].state = "loaded" /\ obj[p].failed # 0 /\ ~obj[p].stuck =>
    \A i \in 1 .. obj[p].failed - 1 : ~obj[p].map[i].pinned

\* bpf_object__load_xattr: it takes no pin from another process, whose map it
\* had reused
FailedLoadKeepsOthersPins ==
  [][\A p \in Procs, x \in Maps :
       At(p, "unpin") /\ fs[x] # 0 /\ fs'[x] = 0 /\ obj'[p] # obj[p] /\ x \notin taken[p] =>
         pinner[x] = p]_vars

(* A call that fails leaves no pin of its own behind, be it a load that    *)
(* fails after it has pinned maps or bpf_object__pin_maps in its middle,   *)
(* and takes none from another process.                                    *)
FailuresUndoPins == [](FailedLoadLeavesNoPin /\ PinMapsAllOrNone) /\ FailedLoadKeepsOthersPins
=============================================================================
