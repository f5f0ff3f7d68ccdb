------------------------------ MODULE XskRing ------------------------------
(***************************************************************************)
(* The four rings that an AF_XDP socket shares with the kernel (xsk.h),    *)
(* and the frames that go round: the program gives empty frames to fill,   *)
(* the kernel returns them with packets on rx; the program sends frames on *)
(* tx and the kernel returns them on comp.                                 *)
(*                                                                         *)
(* The library's side works with copies of both positions (cached_prod,    *)
(* cached_cons) and looks at the shared ones when it must; positions count *)
(* modulo W.  A step is a load or a store of a shared position, or of      *)
(* entries of a ring; the program is one thread.                           *)
(***************************************************************************)
EXTENDS Integers, Sequences, FiniteSets

CONSTANTS
  Producing, \* rings the program produces on: fill, tx
  Consuming, \* rings it consumes from: rx, comp
  Frames,
  Size,   \* entries of a ring
  W,      \* 2^32 in the code: positions count modulo W
  NoFrame

ASSUME FramesAssumption ==
  /\ Size \in Nat \ {0} /\ W \in Nat /\ W > Size /\ W % Size = 0
  /\ NoFrame \notin Frames /\ Producing \cap Consuming = {} /\ Producing # {}

VARIABLES
  shared, \* ring -> the two positions in shared memory
  slots,  \* ring -> its entries
  cached, \* ring -> the library's copies
  app,    \* the program's call in progress
  kernel, \* ring -> the frame that the kernel has put or read and not yet counted
  mine,   \* frames of the program
  theirs, \* frames of the kernel
  queue   \* auxiliary: ring -> what was submitted and not released

rvars == <<shared, slots, cached, app, kernel, mine, theirs, queue>>

Rings == Producing \cup Consuming

Pos == 0 .. W - 1
Slot(n) == n % Size
NoCall == [pc |-> "none", ring |-> CHOOSE r \in Rings : TRUE, idx |-> 0, nb |-> 0, read |-> <<>>]

RTypeOK ==
  /\ shared \in [Rings -> [prod : Pos, cons : Pos]]
  /\ slots \in [Rings -> [0 .. Size - 1 -> Frames \cup {NoFrame}]]
  /\ cached \in [Rings -> [prod : Pos, cons : Pos]]
  /\ app \in [pc : {"none", "reserved", "written", "peeked", "read"}, ring : Rings,
              idx : Pos, nb : 0 .. Size, read : Seq(Frames)]
  /\ kernel \in [Rings -> Frames \cup {NoFrame}]
  /\ mine \subseteq Frames /\ theirs \subseteq Frames
  /\ queue \in [Rings -> Seq(Frames)]

\* xsk_umem__create and xsk_socket__create leave cached_cons of a ring to
\* produce on at its size; the program has all frames
RInit ==
  /\ shared = [r \in Rings |-> [prod |-> 0, cons |-> 0]]
  /\ slots = [r \in Rings |-> [i \in 0 .. Size - 1 |-> NoFrame]]
  /\ cached = [r \in Rings |-> [prod |-> 0, cons |-> IF r \in Producing THEN Size ELSE 0]]
  /\ app = NoCall
  /\ kernel = [r \in Rings |-> NoFrame]
  /\ mine = Frames /\ theirs = {}
  /\ queue = [r \in Rings |-> <<>>]

\* r->cached_cons after a look at the consumer, one entry too far
RefreshedPast(r) == (shared[r].cons + Size + 1) % W

\* r->cached_cons = *r->consumer + r->size
Refreshed(r) == (shared[r].cons + Size) % W

\* xsk_prod_nb_free: the copy is renewed when it does not show enough
NbFree(c) == (c.cons - c.prod) % W

xsk_ring_prod__reserve(r, nb) ==
  LET c == IF NbFree(cached[r]) >= nb THEN cached[r] ELSE [cached[r] EXCEPT !.cons = Refreshed(r)]
  IN  /\ app.pc = "none" /\ r \in Producing /\ Cardinality(mine) >= nb
      /\ \/ /\ NbFree(c) >= nb
            /\ cached' = [cached EXCEPT ![r] = [c EXCEPT !.prod = (@ + nb) % W]]
            /\ app' = [NoCall EXCEPT !.pc = "reserved", !.ring = r, !.idx = c.prod, !.nb = nb]
         \/ /\ NbFree(c) < nb
            /\ cached' = [cached EXCEPT ![r] = c]
            /\ UNCHANGED app
      /\ UNCHANGED <<shared, slots, kernel, mine, theirs, queue>>

\* the program writes what it has reserved (xsk_ring_prod__fill_addr, tx_desc)
Write ==
  /\ app.pc = "reserved"
  /\ \E f \in [1 .. app.nb -> mine] :
       /\ \A i, j \in 1 .. app.nb : i # j => f[i] # f[j]
       /\ slots' = [slots EXCEPT ![app.ring] =
            [k \in DOMAIN @ |-> IF \E i \in 1 .. app.nb : Slot(app.idx + i - 1) = k
                                THEN f[CHOOSE i \in 1 .. app.nb : Slot(app.idx + i - 1) = k] ELSE @[k]]]
       /\ app' = [app EXCEPT !.pc = "written", !.read = [i \in 1 .. app.nb |-> f[i]]]
  /\ UNCHANGED <<shared, cached, kernel, mine, theirs, queue>>

Ran(s) == {s[i] : i \in DOMAIN s}

\* the producer's position goes on by one entry, whatever was reserved
SubmittedOne(n, nb) == (n + 1) % W

\* *prod->producer += nb, and *cons->consumer += nb
Submitted(n, nb) == (n + nb) % W

xsk_ring_prod__submit ==
  /\ app.pc = "written"
  /\ shared' = [shared EXCEPT ![app.ring].prod = Submitted(@, app.nb)]
  /\ queue' = [queue EXCEPT ![app.ring] = @ \o app.read]
  /\ mine' = mine \ Ran(app.read)
  /\ app' = NoCall
  /\ UNCHANGED <<slots, cached, kernel, theirs>>

\* xsk_cons_nb_avail: the copy is renewed when it is used up
NbAvail(c) == (c.prod - c.cons) % W

xsk_ring_cons__peek(r, nb) ==
  LET c == IF NbAvail(cached[r]) = 0 THEN [cached[r] EXCEPT !.prod = shared[r].prod] ELSE cached[r]
      n == IF NbAvail(c) > nb THEN nb ELSE NbAvail(c)
  IN  /\ app.pc = "none" /\ r \in Consuming
      /\ cached' = [cached EXCEPT ![r] = [c EXCEPT !.cons = (@ + n) % W]]
      /\ app' = IF n = 0 THEN NoCall ELSE [NoCall EXCEPT !.pc = "peeked", !.ring = r, !.idx = c.cons, !.nb = n]
      /\ UNCHANGED <<shared, slots, kernel, mine, theirs, queue>>

\* the program reads what it has peeked at (comp_addr, rx_desc)
Read ==
  /\ app.pc = "peeked"
  /\ app' = [app EXCEPT !.pc = "read", !.read = [i \in 1 .. app.nb |-> slots[app.ring][Slot(app.idx + i - 1)]]]
  /\ UNCHANGED <<shared, slots, cached, kernel, mine, theirs, queue>>

xsk_ring_cons__release ==
  /\ app.pc = "read"
  /\ shared' = [shared EXCEPT ![app.ring].cons = Submitted(@, app.nb)]
  /\ queue' = [queue EXCEPT ![app.ring] = SubSeq(@, app.nb + 1, Len(@))]
  /\ mine' = mine \cup Ran(app.read)
  /\ app' = NoCall
  /\ UNCHANGED <<slots, cached, kernel, theirs>>

\* The kernel takes an entry of a ring of the program, in two steps.
Fetch(r) ==
  /\ r \in Producing /\ kernel[r] = NoFrame /\ shared[r].prod # shared[r].cons
  /\ kernel' = [kernel EXCEPT ![r] = slots[r][Slot(shared[r].cons)]]
  /\ UNCHANGED <<shared, slots, cached, app, mine, theirs, queue>>

Fetched(r) ==
  /\ r \in Producing /\ kernel[r] # NoFrame
  /\ shared' = [shared EXCEPT ![r].cons = (@ + 1) % W]
  /\ queue' = [queue EXCEPT ![r] = Tail(@)]
  /\ theirs' = theirs \cup {kernel[r]}
  /\ kernel' = [kernel EXCEPT ![r] = NoFrame]
  /\ UNCHANGED <<slots, cached, app, mine>>

\* The kernel puts a frame into a ring that has room.
Post(r, f) ==
  /\ r \in Consuming /\ kernel[r] = NoFrame
  /\ (shared[r].prod - shared[r].cons) % W < Size
  /\ f \in theirs \ {kernel[q] : q \in Consuming}
  /\ slots' = [slots EXCEPT ![r][Slot(shared[r].prod)] = f]
  /\ kernel' = [kernel EXCEPT ![r] = f]
  /\ UNCHANGED <<shared, cached, app, mine, theirs, queue>>

Posted(r) ==
  /\ r \in Consuming /\ kernel[r] # NoFrame
  /\ shared' = [shared EXCEPT ![r].prod = (@ + 1) % W]
  /\ queue' = [queue EXCEPT ![r] = Append(@, kernel[r])]
  /\ theirs' = theirs \ {kernel[r]}
  /\ kernel' = [kernel EXCEPT ![r] = NoFrame]
  /\ UNCHANGED <<slots, cached, app, mine>>

RNext ==
  \/ \E r \in Rings, nb \in 1 .. Size : xsk_ring_prod__reserve(r, nb)
  \/ Write
  \/ xsk_ring_prod__submit
  \/ \E r \in Rings, nb \in 1 .. Size : xsk_ring_cons__peek(r, nb)
  \/ Read
  \/ xsk_ring_cons__release
  \/ \E r \in Rings : Fetch(r)
  \/ \E r \in Rings : Fetched(r)
  \/ \E r \in Rings, f \in Frames : Post(r, f)
  \/ \E r \in Rings : Posted(r)

RSpec == RInit /\ [][RNext]_rvars

-----------------------------------------------------------------------------
\* what lies between the two positions
Contents(r) ==
  [i \in 1 .. (shared[r].prod - shared[r].cons) % W |-> slots[r][Slot(shared[r].cons + i - 1)]]

(* xsk_ring_prod__reserve, xsk_ring_cons__peek: between its positions a    *)
(* ring always has what was submitted and not yet released, in this order: *)
(* nothing is overwritten, read early or read twice, also when positions   *)
(* pass W; and what the program has read is what was there.                *)
RingIsQueue ==
  /\ \A r \in Rings : Contents(r) = queue[r]
  /\ app.pc = "read" => app.read = SubSeq(queue[app.ring], 1, app.nb)
=============================================================================
