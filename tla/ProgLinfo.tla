----------------------------- MODULE ProgLinfo -----------------------------
(***************************************************************************)
(* Line information of a loaded program (bpf_prog_linfo.c): which source   *)
(* line an instruction or an address of jited code belongs to.             *)
(*                                                                         *)
(* info is what the kernel tells of a program: lines, the instruction      *)
(* offset of every line record; jited, their addresses, or <<>>; ksyms and *)
(* lens, the start and the length of every jited function.  Indexes count  *)
(* from 0 as in the code, records are numbered from 1.                     *)
(***************************************************************************)
EXTENDS Integers, Sequences, FiniteSets

CONSTANTS
  Infos, \* what the kernel may tell
  Offsets \* what is asked for: offsets, and how many records to skip

VARIABLE prog_linfo \* of one program, once it is made: what the kernel told of it, and the struct

NotFound == -1

\* the first record of a function is not counted
CountBehind(i, start) == i - start - 1

CountTo(i, start) == i - start

\* dissect_jited_func: the records from the second on, one after the other.
\* d: idx and per, the index of the first record and the number of records of
\* every function, f functions so far, err.
DissectStep(info, d, i) ==
  LET last == info.jited[i]  now == info.jited[i + 1]
      n == Len(info.ksyms)
  IN  IF d.err \/ d.f >= n THEN d
      ELSE IF info.ksyms[d.f + 1] = now
      THEN IF last - info.ksyms[d.f] + 1 > info.lens[d.f] THEN [d EXCEPT !.err = TRUE]
           ELSE [d EXCEPT !.idx = Append(@, i), !.per = Append(@, CountTo(i, d.idx[d.f])), !.f = @ + 1]
      ELSE [d EXCEPT !.err = now <= last]

Dissected(info) ==
  LET start == [idx |-> <<0>>, per |-> <<>>, f |-> 1, err |-> info.ksyms[1] # info.jited[1]]
      after[i \in 0 .. Len(info.lines) - 1] == IF i = 0 THEN start ELSE DissectStep(info, after[i - 1], i)
  IN  after

dissect_jited_func(info) ==
  LET d == Dissected(info)[Len(info.lines) - 1]
  IN  IF d.err \/ d.f # Len(info.ksyms) THEN [d EXCEPT !.err = TRUE]
      ELSE [d EXCEPT !.per = Append(@, Len(info.lines) - d.idx[d.f])]

\* there is not enough to look addresses up
NotJited(info) ==
  info.ksyms = <<>> \/ Len(info.jited) # Len(info.lines) \/ Len(info.lens) # Len(info.ksyms)

\* bpf_prog_linfo__new: ok, or nothing
bpf_prog_linfo__new(info) ==
  LET none == [lines |-> info.lines, jited |-> <<>>, idx |-> <<>>, per |-> <<>>, ok |-> TRUE]
      d == dissect_jited_func(info)
  IN  IF info.lines = <<>> THEN [none EXCEPT !.ok = FALSE]
      ELSE IF NotJited(info) THEN none
      ELSE IF d.err THEN [none EXCEPT !.ok = FALSE]
      ELSE [none EXCEPT !.jited = info.jited, !.idx = d.idx, !.per = d.per]

\* the number of the last record before the first one behind at, among the
\* count records from start (an index) on
Walk(places, start, count, at) ==
  LET behind == {i \in 0 .. count - 1 : at < places[start + i + 1]}
  IN  start + IF behind = {} THEN count ELSE CHOOSE i \in behind : \A j \in behind : i <= j

\* bpf_prog_linfo__lfind_addr_func
lfind_addr_func(linfo, addr, func, skip) ==
  IF func >= Len(linfo.per) THEN NotFound
  ELSE LET count == linfo.per[func + 1]  start == linfo.idx[func + 1] + skip
       IN  IF skip >= count THEN NotFound
           ELSE IF addr < linfo.jited[start + 1] THEN NotFound
           ELSE Walk(linfo.jited, start, count - skip, addr)

\* bpf_prog_linfo__lfind
lfind(linfo, off, skip) ==
  IF skip >= Len(linfo.lines) THEN NotFound
  ELSE IF off < linfo.lines[skip + 1] THEN NotFound
  ELSE Walk(linfo.lines, skip, Len(linfo.lines) - skip, off)

-----------------------------------------------------------------------------
(* What a lookup should find: the record with the largest place up to at.  *)
\* own: the numbers of the records to look at
LastUpTo(places, own, at) ==
  LET upto == {n \in own : places[n] <= at}
  IN  IF upto = {} THEN NotFound ELSE CHOOSE n \in upto : \A m \in upto : places[m] <= places[n]

\* the addresses of a function, and its records
Code(info, f) == info.ksyms[f] .. info.ksyms[f] + info.lens[f] - 1
OwnRecords(info, f) == {n \in DOMAIN info.jited : info.jited[n] \in Code(info, f)}

(* The kernel's promise (check_btf_line, bpf_prog_get_info_by_fd).  The    *)
(* records are in the order of their instructions; those of a function     *)
(* follow one another, from its start on, in the order of their addresses. *)
Behind(info, first, f) == IF f = Len(info.ksyms) THEN Len(info.lines) + 1 ELSE first[f + 1]

\* the first record of every function
SplitAt(info, first) ==
  /\ first[1] = 1
  /\ \A f \in DOMAIN info.ksyms :
       /\ first[f] < Behind(info, first, f)
       /\ info.jited[first[f]] = info.ksyms[f]
       /\ \A i \in first[f] .. Behind(info, first, f) - 1 :
            info.jited[i] \in Code(info, f) /\ (i # first[f] => info.jited[i - 1] < info.jited[i])
       /\ \A g \in DOMAIN info.ksyms : f # g => Code(info, f) \cap Code(info, g) = {}

KernelInfo(info) ==
  /\ info.lines # <<>> /\ \A i \in 2 .. Len(info.lines) : info.lines[i - 1] < info.lines[i]
  /\ ~NotJited(info) => \E first \in [DOMAIN info.ksyms -> DOMAIN info.lines] : SplitAt(info, first)

AnyInfo == [lines : Seq(Nat), jited : Seq(Nat), ksyms : Seq(Nat), lens : Seq(Nat)]

ASSUME LinfoAssumption == Infos \subseteq {info \in AnyInfo : KernelInfo(info)} /\ Offsets \subseteq Nat

-----------------------------------------------------------------------------
LinfoInit == prog_linfo = [made |-> FALSE]

Make(info) == prog_linfo' = [made |-> TRUE, info |-> info, struct |-> bpf_prog_linfo__new(info)]

LinfoNext == ~prog_linfo.made /\ \E info \in Infos : Make(info)

LinfoSpec == LinfoInit /\ [][LinfoNext]_prog_linfo

\* the records without the first ones
Skipped(own, skip) == {n \in own : Cardinality({m \in own : m < n}) >= skip}

\* the struct finds every line
FindsLines(info, struct) ==
  /\ struct.ok
  /\ \A off, skip \in Offsets :
       /\ lfind(struct, off, skip) = LastUpTo(info.lines, Skipped(DOMAIN info.lines, skip), off)
       /\ ~NotJited(info) =>
            \A f \in DOMAIN info.ksyms :
              lfind_addr_func(struct, info.ksyms[f] + off, f - 1, skip)
                = LastUpTo(info.jited, Skipped(OwnRecords(info, f), skip), info.ksyms[f] + off)

(* bpf_prog_linfo__new, bpf_prog_linfo__lfind_addr_func and                *)
(* bpf_prog_linfo__lfind: wherever the jited functions lie in memory, an   *)
(* address is looked up among the lines of the function that is named, an  *)
(* instruction among all lines, and the nearest line before it is found,   *)
(* the first records being skipped where the caller asks for it.           *)
LinesFound == prog_linfo.made => FindsLines(prog_linfo.info, prog_linfo.struct)
=============================================================================
