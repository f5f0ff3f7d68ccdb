----------------------------- MODULE PerfBuffer -----------------------------
(***************************************************************************)
(* The perf buffer of libbpf (libbpf.c): perf_buffer__new with every step  *)
(* that may fail, perf_buffer__poll over the rings of the CPUs, and        *)
(* perf_buffer__free.  A ring is the memory shared with the kernel, in     *)
(* words; a record lies in consecutive words and may go round the end, and *)
(* then the reader puts it together in a buffer of its own.                *)
(*                                                                         *)
(* This module has the state, the reader and the life of the buffer; the   *)
(* programs that put records out extend it.                                *)
(***************************************************************************)
EXTENDS Naturals, Sequences

CONSTANTS
  Max_cpu,    \* the CPUs are 1 .. Max_cpu, in the order of the loops
  mmap_size,  \* words in a ring
  LostWords,  \* words of a record that tells of lost ones
  Nothing     \* contents of a word that was never written

ASSUME MmapAssumption ==
  /\ Max_cpu \in Nat \ {0} /\ mmap_size \in Nat \ {0}
  /\ LostWords \in 1 .. mmap_size

CPUs == 1 .. Max_cpu

\* a record as put into the ring: what it is, and its words
Sample(r, words) == [rec |-> r, size |-> words]
LostSample(n) == [rec |-> [lost |-> n], size |-> LostWords]

VARIABLES
  pb,     \* perf_buffer__new's progress, and then the reader
  res,    \* per CPU: what its perf_cpu_buf holds
  ring,   \* per CPU: shared memory, data_head, data_tail
  lost,   \* per CPU: records lost that no record has told of
  got,    \* per CPU, auxiliary: what the callbacks were called with
  gap     \* auxiliary: CPUs whose records went nowhere while the buffer was shut

perfVars == <<pb, res, ring, lost, got, gap>>

Resources == {"fd", "mmap", "enabled", "key", "epoll"}
NewRing == [mem |-> [w \in 0 .. mmap_size - 1 |-> Nothing], head |-> 0, tail |-> 0]
Resting == [pc |-> "none", cpu |-> 0, ready |-> <<>>, head |-> 0, tail |-> 0]

PerfTypeOK ==
  /\ pb.pc \in {"none", "new", "free", "open", "poll", "read", "error"}
  /\ pb.cpu \in 0 .. Max_cpu + 1 /\ pb.ready \in Seq(CPUs)
  /\ res \in [CPUs -> SUBSET Resources]
  /\ \A c \in CPUs : ring[c].tail <= ring[c].head /\ ring[c].head - ring[c].tail <= mmap_size
  /\ pb.pc = "read" => ring[pb.cpu].tail <= pb.tail /\ pb.tail <= pb.head
  /\ lost \in [CPUs -> Nat] /\ gap \subseteq CPUs

PerfInit ==
  /\ pb = Resting
  /\ res = [c \in CPUs |-> {}]
  /\ ring = [c \in CPUs |-> NewRing]
  /\ lost = [c \in CPUs |-> 0]
  /\ got = [c \in CPUs |-> <<>>]
  /\ gap = {}

-----------------------------------------------------------------------------
(* The kernel (bpf_perf_event_output)                                      *)

\* words of a sample are put at the head
Placed(r, s) ==
  [r EXCEPT !.mem = [w \in 0 .. mmap_size - 1 |->
                       LET i == (w + mmap_size - (r.head % mmap_size)) % mmap_size
                       IN  IF i < s.size THEN [s |-> s, i |-> i] ELSE r.mem[w]],
            !.head = @ + s.size]

(* Without an enabled event at the CPU's key nothing is put out.           *)
Output(c, s) ==
  LET told == IF lost[c] = 0 THEN ring[c] ELSE Placed(ring[c], LostSample(lost[c]))
  IN  IF {"enabled", "key"} \subseteq res[c]
        THEN /\ UNCHANGED gap
             /\ IF told.head + s.size - ring[c].tail <= mmap_size
                  THEN /\ ring' = [ring EXCEPT ![c] = Placed(told, s)]
                       /\ lost' = [lost EXCEPT ![c] = 0]
                  ELSE /\ lost' = [lost EXCEPT ![c] = @ + 1]
                       /\ UNCHANGED ring
        ELSE /\ gap' = gap \cup {c}
             /\ UNCHANGED <<ring, lost>>

-----------------------------------------------------------------------------
(* perf_buffer__new, perf_buffer__free                                     *)

New ==
  /\ pb.pc = "none"
  /\ pb' = [Resting EXCEPT !.pc = "new", !.cpu = 1]
  /\ UNCHANGED <<res, ring, lost, got, gap>>

\* what the steps of the loop give a CPU, one after the other
Order == <<"fd", "mmap", "enabled", "key", "epoll">>

(* One step of the loop over the CPUs: the next thing that the CPU's       *)
(* buffer needs.  A failure unwinds: in perf_buffer__open_cpu_buf this     *)
(* CPU's part, and in any case perf_buffer__free the rest.                 *)
OpenStep ==
  LET c == pb.cpu
      k == CHOOSE i \in 1 .. 5 : Order[i] \notin res[c] /\ \A j \in 1 .. i - 1 : Order[j] \in res[c]
  IN  /\ pb.pc = "new"
      /\ \/ /\ res' = [res EXCEPT ![c] = @ \cup {Order[k]}]
            /\ ring' = IF Order[k] = "mmap" THEN [ring EXCEPT ![c] = NewRing] ELSE ring
            /\ pb' = IF k < 5 THEN pb ELSE IF c < Max_cpu THEN [pb EXCEPT !.cpu = c + 1]
                                                     ELSE [Resting EXCEPT !.pc = "open"]
         \/ /\ pb' = [Resting EXCEPT !.pc = "free", !.cpu = 1]
            /\ res' = IF k <= 3 THEN [res EXCEPT ![c] = {}] ELSE res
            /\ UNCHANGED ring
      /\ UNCHANGED <<lost, got, gap>>

\* it goes one CPU too far
PresentLong(c) == c <= Max_cpu + 1 /\ (c > Max_cpu \/ res[c] # {})

\* it leaves out a buffer that is not in the epoll set
PresentPolled(c) == c <= Max_cpu /\ "epoll" \in res[c]

\* perf_buffer__free goes on while there is a buffer for the CPU
Present(c) == c <= Max_cpu /\ res[c] # {}

(* One CPU's round of perf_buffer__free: the key, the mapping, the fd      *)
FreeStep ==
  LET c == pb.cpu
  IN  /\ pb.pc = "free"
      /\ IF Present(c)
           THEN /\ res' = [res EXCEPT ![c] = {}]
                /\ ring' = [ring EXCEPT ![c] = NewRing]
                /\ lost' = [lost EXCEPT ![c] = 0]
                /\ gap' = gap \cup {c}
                /\ pb' = [pb EXCEPT !.cpu = c + 1]
           ELSE /\ pb' = Resting
                /\ UNCHANGED <<res, ring, lost, gap>>
      /\ UNCHANGED got

Free ==
  /\ pb.pc \in {"open", "error"}
  /\ pb' = [Resting EXCEPT !.pc = "free", !.cpu = 1]
  /\ UNCHANGED <<res, ring, lost, got, gap>>

-----------------------------------------------------------------------------
(* perf_buffer__poll                                                       *)

\* epoll_wait: the CPUs that have something, in any order
Poll ==
  /\ pb.pc \in {"open", "error"}
  /\ \E order \in UNION {[1 .. n -> CPUs] : n \in 1 .. Max_cpu} :
       /\ \A i, j \in DOMAIN order : i # j => order[i] # order[j]
       /\ \A c \in CPUs : (\E i \in DOMAIN order : order[i] = c)
                            <=> ring[c].head # ring[c].tail /\ "epoll" \in res[c]
       /\ pb' = [Resting EXCEPT !.pc = "poll", !.ready = order]
  /\ UNCHANGED <<res, ring, lost, got, gap>>

\* "ring_buffer_read_head", and the tail
ReadHead ==
  /\ pb.pc = "poll" /\ pb.ready # <<>>
  /\ LET c == Head(pb.ready)
     IN  pb' = [pc |-> "read", cpu |-> c, ready |-> Tail(pb.ready),
                head |-> ring[c].head, tail |-> ring[c].tail]
  /\ UNCHANGED <<res, ring, lost, got, gap>>

\* the second part is copied from the record's start
PiecesTwice(mem, off, size) ==
  LET len_first == mmap_size - off
  IN  [i \in 0 .. size - 1 |-> IF i < len_first THEN mem[off + i] ELSE mem[off + i - len_first]]

\* a record that goes round the end is put together of its two parts
Pieces(mem, off, size) ==
  LET len_first == mmap_size - off
  IN  [i \in 0 .. size - 1 |-> IF i < len_first THEN mem[off + i] ELSE mem[i - len_first]]

(* The record at the tail: its header tells its size.                      *)
RecordAt(mem, pos) ==
  LET off == pos % mmap_size
      size == mem[off].s.size
  IN  IF off + size > mmap_size THEN Pieces(mem, off, size)
                                ELSE [i \in 0 .. size - 1 |-> mem[off + i]]

\* what a callback makes of the words: the sample, when they are its own
Meaning(words) ==
  IF \A i \in DOMAIN words : words[i] # Nothing /\ words[i].s = words[0].s /\ words[i].i = i
    THEN words[0].s.rec ELSE Nothing

(* One turn of bpf_perf_event_read_simple's loop, with the callback.       *)
ReadRecord ==
  /\ pb.pc = "read" /\ pb.head # pb.tail
  /\ LET mem == ring[pb.cpu].mem
     IN  /\ got' = [got EXCEPT ![pb.cpu] = Append(@, Meaning(RecordAt(mem, pb.tail)))]
         /\ pb' = [pb EXCEPT !.tail = @ + mem[@ % mmap_size].s.size]
  /\ UNCHANGED <<res, ring, lost, gap>>

\* all that was there when the record was taken is given back
ReleasedAll(c) == [ring EXCEPT ![c].tail = ring[c].head]

\* data_tail is written when the loop has ended
Released(c) == [ring EXCEPT ![c].tail = pb.tail]

ReadEnd ==
  /\ pb.pc = "read" /\ pb.head = pb.tail
  /\ ring' = Released(pb.cpu)
  /\ pb' = IF pb.ready = <<>> THEN [Resting EXCEPT !.pc = "open"] ELSE [pb EXCEPT !.pc = "poll"]
  /\ UNCHANGED <<res, lost, got, gap>>

(* No memory for a record that goes round the end: the loop breaks, and    *)
(* perf_buffer__poll returns the error; the CPUs behind wait.              *)
ReadNoMemory ==
  /\ pb.pc = "read" /\ pb.head # pb.tail
  /\ (pb.tail % mmap_size) + ring[pb.cpu].mem[pb.tail % mmap_size].s.size > mmap_size
  /\ ring' = Released(pb.cpu)
  /\ pb' = [Resting EXCEPT !.pc = "error"]
  /\ UNCHANGED <<res, lost, got, gap>>

Reader == Poll \/ ReadHead \/ ReadRecord \/ ReadEnd

PerfNext ==
  \/ New \/ OpenStep \/ Free \/ FreeStep
  \/ Poll \/ ReadHead \/ ReadRecord \/ ReadEnd \/ ReadNoMemory

-----------------------------------------------------------------------------
(* perf_buffer__new and perf_buffer__free: whichever step failed, nothing  *)
(* of any CPU is left when the buffer is given up: no event, no mapping,   *)
(* no entry of the map.                                                    *)
NothingLeft == pb.pc = "none" => \A c \in CPUs : res[c] = {}

(* The records of a ring, from the reader's place to the head.             *)
InFlight(c) ==
  LET r == ring[c]
      from == IF pb.pc = "read" /\ pb.cpu = c THEN pb.tail ELSE r.tail
      records[p \in from .. r.head + mmap_size] ==
        IF p >= r.head THEN <<>>
        ELSE <<Meaning(RecordAt(r.mem, p))>> \o records[p + r.mem[p % mmap_size].s.size]
  IN  records[from]
=============================================================================
