------------------------------ MODULE BtfDedup ------------------------------
(***************************************************************************)
(* The deduplication of BTF type information (btf__dedup, btf.c): types of *)
(* several compilation units are merged where they are the same C type.    *)
(*                                                                         *)
(* A type is a record: its kind, its name, the types it refers to in order *)
(* (an array: index and element; a function: result and parameters; a      *)
(* struct: members) and sig, all the rest that equality looks at (names    *)
(* and offsets of members, encoding, nelems, values).  sig is "fwd" for an *)
(* enum without values, and for a FWD the kind it stands for.  Types are   *)
(* numbered from 1; 0 is void.                                             *)
(***************************************************************************)
EXTENDS Integers, Sequences, FiniteSets

LOCAL INSTANCE SequencesExt

PrimKinds == {"INT", "ENUM", "FWD"}
StructKinds == {"STRUCT", "UNION"}
RefKinds == {"CONST", "PTR", "TYPEDEF", "ARRAY", "FUNC", "FUNC_PROTO"}
SelfKinds == {"VAR", "DATASEC"} \* canonical without further ado

Unprocessed == -1
InProgress == -2

\* struct btf_dedup: the types, the canonical map, the candidates (the last
\* one added comes first), whether all hashes collide, and an error.  The
\* options are collide and resolve (not dont_resolve_fwds).
New(types, collide, resolve) ==
  [types |-> types,
   map |-> [i \in 0 .. Len(types) |->
              IF i = 0 \/ (i > 0 /\ types[i].kind \in SelfKinds) THEN i ELSE Unprocessed],
   table |-> <<>>, collide |-> collide, resolve |-> resolve, err |-> FALSE]

-----------------------------------------------------------------------------
(* Strings                                                                 *)

\* btf_for_each_str_off: the strings that types (with the names of their
\* members) and the records of .BTF.ext refer to, by their numbers
btf_for_each_str_off(types, ext) == UNION {ToSet(refs) : refs \in ToSet(types) \cup ToSet(ext)}

\* the strings that are used, each once; the first, "", always
KeptStrings(strs, used) == {strs[i] : i \in used \cup {1}}

\* the place of a string in the new section, which is sorted
StringPlace(kept, s) == Cardinality({t \in kept : t < s}) + 1

\* btf_dedup_strings: strs is the section, its contents numbers.  Result: the
\* new section, and types and ext with the strings' new places.
btf_dedup_strings(strs, types, ext) ==
  LET used == btf_for_each_str_off(types, ext)
      kept == KeptStrings(strs, used)
      moved(all) == [k \in DOMAIN all |-> [n \in DOMAIN all[k] |-> StringPlace(kept, strs[all[k][n]])]]
  IN  [strs |-> [k \in 1 .. Cardinality(kept) |-> CHOOSE s \in kept : StringPlace(kept, s) = k],
       types |-> moved(types), ext |-> moved(ext)]

-----------------------------------------------------------------------------
(* Equality and hashes                                                     *)

EqualShallow(t, u) == t.kind = u.kind /\ t.name = u.name /\ t.sig = u.sig /\ Len(t.refs) = Len(u.refs)

\* types that are canonical already and refer to the same
EqualRef(t, u) == EqualShallow(t, u) /\ t.refs = u.refs

EnumFwd(t) == t.kind = "ENUM" /\ t.sig = "fwd"

\* btf_compat_enum
CompatEnum(t, u) ==
  IF EnumFwd(t) \/ EnumFwd(u) THEN t.kind = u.kind /\ t.name = u.name ELSE EqualShallow(t, u)

\* the btf_hash_ functions: what goes into a hash
Hash(t) ==
  IF t.kind = "ENUM" THEN <<t.kind, t.name>>
  ELSE IF t.kind \in RefKinds THEN <<t.kind, t.name, t.sig, t.refs>>
  ELSE <<t.kind, t.name, t.sig, Len(t.refs)>>

\* for_each_dedup_cand
Candidates(d, t) == SelectSeq(d.table, LAMBDA c : d.collide \/ Hash(d.types[c]) = Hash(t))

\* the end of a type's deduplication: a canonical one becomes a candidate
Settle(d, i, new) ==
  [d EXCEPT !.map[i] = new, !.table = IF new = i THEN <<i>> \o @ ELSE @]

\* first element of s that is one of matches, or otherwise
First(s, matches, otherwise) ==
  LET hits == {n \in DOMAIN s : s[n] \in matches}
  IN  IF hits = {} THEN otherwise ELSE s[CHOOSE n \in hits : \A m \in hits : n <= m]

-----------------------------------------------------------------------------
(* Primitive types                                                         *)

\* a full enum takes over every forward one among the candidates before the
\* one that is equal to it
TakenOver(d, t, cands) ==
  {c \in {cands[n] : n \in DOMAIN cands} :
     /\ d.resolve /\ ~EnumFwd(t) /\ EnumFwd(d.types[c]) /\ CompatEnum(t, d.types[c])
     /\ \A n, m \in DOMAIN cands : cands[m] = c /\ n < m => ~EqualShallow(t, d.types[cands[n]])}

btf_dedup_prim_type(d, i) ==
  LET t == d.types[i]
      cands == Candidates(d, t)
      same == {c \in DOMAIN d.types : \/ EqualShallow(t, d.types[c])
                                      \/ d.resolve /\ EnumFwd(t) /\ CompatEnum(t, d.types[c])}
      over == TakenOver(d, t, cands)
  IN  IF t.kind \notin PrimKinds THEN d
      ELSE Settle([d EXCEPT !.map = [j \in DOMAIN @ |-> IF j \in over THEN i ELSE @[j]]],
                  i, First(cands, same, i))

-----------------------------------------------------------------------------
(* Structs                                                                 *)

Mapped(d, i) == d.map[i] >= 0

RECURSIVE resolve_type_id(_, _)
resolve_type_id(d, i) == IF Mapped(d, i) /\ d.map[i] # i THEN resolve_type_id(d, d.map[i]) ELSE i

IsFwd(d, i) == i # 0 /\ d.types[i].kind = "FWD"

resolve_fwd_id(d, i) ==
  LET j == resolve_type_id(d, i) IN IF IsFwd(d, i) /\ ~IsFwd(d, j) THEN j ELSE i

\* void is a type like the others here
Type(d, i) == IF i = 0 THEN [kind |-> "VOID", name |-> "", sig |-> "", refs |-> <<>>] ELSE d.types[i]

\* the contradiction is not looked for
AgreesNot(hypot, canon, cand) == TRUE

\* a type of the canonical graph that was met before was met with this one
Agrees(hypot, canon, cand) == \E n \in DOMAIN hypot : hypot[n] = <<canon, cand>>

RECURSIVE btf_dedup_is_equiv(_, _, _, _)
RECURSIVE RefsEquiv(_, _, _, _)

\* hypot is hypot_list with what hypot_map has for it: pairs <<canon, cand>>
btf_dedup_is_equiv(d, cand, canon0, hypot) ==
  LET canon == resolve_fwd_id(d, canon0)
      t == Type(d, cand)  u == Type(d, canon)
      added == Append(hypot, <<canon, cand>>)
      fwds == d.resolve /\ t.kind # u.kind /\ "FWD" \in {t.kind, u.kind}
  IN  IF resolve_type_id(d, cand) = resolve_type_id(d, canon0) THEN [eq |-> TRUE, hypot |-> hypot]
      ELSE IF \E n \in DOMAIN hypot : hypot[n][1] = canon
      THEN [eq |-> Agrees(hypot, canon, cand), hypot |-> hypot]
      ELSE IF t.name # u.name THEN [eq |-> FALSE, hypot |-> added]
      ELSE IF fwds THEN [eq |-> IF t.kind = "FWD" THEN t.sig = u.kind ELSE u.sig = t.kind, hypot |-> added]
      ELSE IF t.kind # u.kind THEN [eq |-> FALSE, hypot |-> added]
      ELSE IF t.kind = "ENUM"
      THEN [eq |-> IF d.resolve THEN CompatEnum(t, u) ELSE EqualShallow(t, u), hypot |-> added]
      ELSE IF ~EqualShallow(t, u) THEN [eq |-> FALSE, hypot |-> added]
      ELSE RefsEquiv(d, t.refs, u.refs, added)

RefsEquiv(d, refs, canons, hypot) ==
  IF refs = <<>> THEN [eq |-> TRUE, hypot |-> hypot]
  ELSE LET r == btf_dedup_is_equiv(d, Head(refs), Head(canons), hypot)
       IN  IF r.eq THEN RefsEquiv(d, Tail(refs), Tail(canons), r.hypot) ELSE r

RECURSIVE btf_dedup_merge_hypot_map(_, _)
btf_dedup_merge_hypot_map(d, hypot) ==
  IF hypot = <<>> THEN d
  ELSE LET t == resolve_type_id(d, Head(hypot)[2])
           c == resolve_type_id(d, Head(hypot)[1])
           tk == Type(d, t).kind  ck == Type(d, c).kind
           m1 == IF tk # "FWD" /\ ck = "FWD" THEN [d.map EXCEPT ![c] = t]
                 ELSE IF tk = "FWD" /\ ck # "FWD" THEN [d.map EXCEPT ![t] = c] ELSE d.map
           m2 == IF tk \in StructKinds /\ ck # "FWD" /\ m1[c] >= 0 /\ m1[t] < 0 THEN [m1 EXCEPT ![t] = c] ELSE m1
       IN  btf_dedup_merge_hypot_map([d EXCEPT !.map = m2], Tail(hypot))

RECURSIVE StructCandidate(_, _, _)
\* the first candidate whose graph is equivalent: its number and the map
StructCandidate(d, i, cands) ==
  IF cands = <<>> THEN [d |-> d, new |-> i]
  ELSE LET r == btf_dedup_is_equiv(d, i, Head(cands), <<>>)
       IN  IF EqualShallow(d.types[i], d.types[Head(cands)]) /\ r.eq
           THEN [d |-> btf_dedup_merge_hypot_map(d, r.hypot), new |-> Head(cands)]
           ELSE StructCandidate(d, i, Tail(cands))

btf_dedup_struct_type(d, i) ==
  LET r == StructCandidate(d, i, Candidates(d, d.types[i]))
  IN  IF Mapped(d, i) \/ d.types[i].kind \notin StructKinds THEN d ELSE Settle(r.d, i, r.new)

-----------------------------------------------------------------------------
(* Reference types                                                         *)

RECURSIVE btf_dedup_ref_type(_, _)
RECURSIVE RefTypes(_, _, _)

\* result: the state, and the canonical type of i
btf_dedup_ref_type(d, i) ==
  IF d.map[i] = InProgress THEN [d |-> [d EXCEPT !.err = TRUE], id |-> 0]
  ELSE IF Mapped(d, i) THEN [d |-> d, id |-> resolve_type_id(d, i)]
  ELSE LET r == RefTypes([d EXCEPT !.map[i] = InProgress], i, 1)
           t == r.types[i]
           new == First(Candidates(r, t), {c \in DOMAIN r.types : EqualRef(r.types[c], t)}, i)
       IN  IF r.err THEN [d |-> r, id |-> 0] ELSE [d |-> Settle(r, i, new), id |-> new]

\* the n-th reference of type i and those behind it become canonical
RefTypes(d, i, n) ==
  IF n > Len(d.types[i].refs) \/ d.err THEN d
  ELSE LET r == btf_dedup_ref_type(d, d.types[i].refs[n])
       IN  RefTypes([r.d EXCEPT !.types[i].refs[n] = r.id], i, n + 1)

-----------------------------------------------------------------------------
(* The passes                                                              *)

\* Pass(d, i) for i = 1, 2, ...
ForTypes(d, Pass(_, _)) ==
  FoldLeft(LAMBDA e, i : IF e.err THEN e ELSE Pass(e, i), d, [i \in DOMAIN d.types |-> i])

Prims(d) == ForTypes(d, btf_dedup_prim_type)
Structs(d) == ForTypes(d, btf_dedup_struct_type)
Refs(d) == ForTypes(d, LAMBDA e, i : btf_dedup_ref_type(e, i).d)

Canonical(d) == {i \in 1 .. Len(d.types) : d.map[i] = i}

\* btf_dedup_compact_types: the new number of a canonical type
Compacted(d, i) == Cardinality({j \in Canonical(d) : j <= i})

\* the number of the type itself is taken and not that of its canonical one
RemapDirect(d, i) == IF i = 0 THEN 0 ELSE Compacted(d, i)

\* btf_dedup_remap_type_id
btf_dedup_remap_type_id(d, i) == IF i = 0 THEN 0 ELSE Compacted(d, resolve_type_id(d, i))

\* btf_dedup_compact_types and btf_dedup_remap_types
Compact(d) ==
  LET orig(k) == CHOOSE i \in Canonical(d) : Compacted(d, i) = k
  IN  [k \in 1 .. Cardinality(Canonical(d)) |->
         [d.types[orig(k)] EXCEPT !.refs = [n \in DOMAIN @ |-> btf_dedup_remap_type_id(d, @[n])]]]

\* btf__dedup: the types that are left and, for every old one, its new number
btf__dedup(types, collide, resolve) ==
  LET d == Refs(Structs(Prims(New(types, collide, resolve))))
  IN  [err |-> d.err,
       types |-> IF d.err THEN <<>> ELSE Compact(d),
       id |-> [i \in 0 .. Len(types) |-> IF d.err THEN 0 ELSE btf_dedup_remap_type_id(d, i)]]

-----------------------------------------------------------------------------
(* What it should do: the same C type                                      *)

\* types that look the same at the top; a forward declaration is like what
\* it declares
Alike(t, u, fwds) ==
  \/ EqualShallow(t, u)
  \/ /\ fwds /\ t.name = u.name
     /\ \/ t.kind = "FWD" /\ t.sig = u.kind
        \/ u.kind = "FWD" /\ u.sig = t.kind
        \/ t.kind = "ENUM" /\ CompatEnum(t, u)

RECURSIVE Narrowed(_, _, _)
\* the pairs of same that still are of the same type one level further down
Narrowed(t, u, same) ==
  LET less == {p \in same :
        LET a == t[p[1]].refs  b == u[p[2]].refs
        IN  Len(a) = Len(b) => \A n \in DOMAIN a : <<a[n], b[n]>> \in same \cup {<<0, 0>>}}
  IN  IF less = same THEN same ELSE Narrowed(t, u, less)

\* numbers of types of the two sequences that are the same type: the
\* greatest relation that respects references
SameTypes(t, u, fwds) ==
  Narrowed(t, u, {p \in (DOMAIN t) \X (DOMAIN u) : Alike(t[p[1]], u[p[2]], fwds)})

(* btf_dedup_strings: every reference still reads the same text, and no    *)
(* text is there twice or for nothing.                                     *)
StringsKept(strs, types, ext, r) ==
  LET text(all, section) == [k \in DOMAIN all |-> [n \in DOMAIN all[k] |-> section[all[k][n]]]]
      read == UNION {ToSet(refs) : refs \in ToSet(r.types) \cup ToSet(r.ext)}
  IN  /\ text(r.types, r.strs) = text(types, strs) /\ text(r.ext, r.strs) = text(ext, strs)
      /\ \A i, j \in DOMAIN r.strs : r.strs[i] = r.strs[j] => i = j
      /\ DOMAIN r.strs \subseteq read \cup {1}

(* btf__dedup: every type is still there, as the same C type.              *)
NothingChanged(types, r, fwds) ==
  ~r.err /\ \A i \in DOMAIN types : <<i, r.id[i]>> \in SameTypes(types, r.types, fwds)

(* btf__dedup: no C type is there twice.                                   *)
NothingTwice(r) == \A p \in SameTypes(r.types, r.types, FALSE) : p[1] = p[2]

(* btf__dedup with forward declarations resolved: neither is a struct, a   *)
(* union or an enum that differs only in what is defined and what is       *)
(* declared.  A FWD itself, and what points to it, may stay beside the     *)
(* struct: it is resolved where two structs are found to be equivalent     *)
(* (btf_dedup_merge_hypot_map), and not by its name.                       *)
DefinedOnce(r) ==
  \A p \in SameTypes(r.types, r.types, TRUE) :
    r.types[p[1]].kind \in StructKinds \cup {"ENUM"} /\ r.types[p[2]].kind = r.types[p[1]].kind => p[1] = p[2]
=============================================================================
