------------------------------ MODULE CoreRelo ------------------------------
(***************************************************************************)
(* CO-RE relocations (libbpf.c): a field that the program accesses in its  *)
(* own version of a struct is looked up, by its name, in the struct of the *)
(* running kernel, and the instruction gets that field's place.            *)
(*                                                                         *)
(* A type: kind, name (without the flavor behind ___; "" for none), size,  *)
(* to (what a pointer, modifier, typedef or array is made of), nelems, and *)
(* fields of name, type, off and bits (0: no bit field), both in bits.     *)
(* Types are numbered from 1.                                              *)
(***************************************************************************)
EXTENDS Integers, Sequences, FiniteSets

LOCAL INSTANCE SequencesExt

Composite == {"STRUCT", "UNION"}

RECURSIVE skip_mods_and_typedefs(_, _)
skip_mods_and_typedefs(types, i) ==
  IF types[i].kind \in {"CONST", "TYPEDEF"} THEN skip_mods_and_typedefs(types, types[i].to) ELSE i

RECURSIVE btf__resolve_size(_, _)
\* -1: it has none
btf__resolve_size(types, i) ==
  LET t == types[i]
      elem == btf__resolve_size(types, t.to)
  IN  CASE t.kind \in {"INT", "ENUM"} \cup Composite -> t.size
        [] t.kind = "PTR" -> 8
        [] t.kind \in {"CONST", "TYPEDEF"} -> elem
        [] t.kind = "ARRAY" -> IF elem < 0 THEN -1 ELSE t.nelems * elem
        [] OTHER -> -1

\* a spec: the accessors (name "" for an index), the offset in bits, the
\* type that the next accessor starts from; ret is 1, 0 or negative
NoSpec(i) == [accs |-> <<>>, off |-> 0, next |-> i, ret |-> 1]

Access(i, n, name) == [type |-> i, idx |-> n, name |-> name]

-----------------------------------------------------------------------------
(* The program's access                                                    *)

\* one number of the access string: fields and elements count from 0
ParseStep(types, spec, n) ==
  LET i == skip_mods_and_typedefs(types, spec.next)
      t == types[i]
      f == t.fields[n + 1]
      elem == skip_mods_and_typedefs(types, t.to)
  IN  IF spec.ret < 0 THEN spec
      ELSE IF t.kind \in Composite
      THEN IF n >= Len(t.fields) THEN [spec EXCEPT !.ret = -1]
           ELSE [spec EXCEPT !.off = @ + f.off, !.next = f.type,
                             !.accs = IF f.name = "" THEN @ ELSE Append(@, Access(i, n, f.name))]
      ELSE IF t.kind = "ARRAY"
      THEN IF n >= t.nelems \/ btf__resolve_size(types, elem) < 0 THEN [spec EXCEPT !.ret = -1]
           ELSE [spec EXCEPT !.off = @ + n * btf__resolve_size(types, elem) * 8, !.next = elem,
                             !.accs = Append(@, Access(elem, n, ""))]
      ELSE [spec EXCEPT !.ret = -1]

\* raw is the access string, its first number an index of the pointer
bpf_core_spec_parse(types, i, raw) ==
  LET root == skip_mods_and_typedefs(types, i)
      size == btf__resolve_size(types, root)
      first == [accs |-> <<Access(root, Head(raw), "")>>, off |-> Head(raw) * size * 8, next |-> root,
                ret |-> IF size < 0 THEN -1 ELSE 1]
  IN  FoldLeft(LAMBDA s, n : ParseStep(types, s, n), first, Tail(raw))

-----------------------------------------------------------------------------
(* The kernel's field                                                      *)

\* bpf_core_find_cands, its array taken to have room: realloc is given the
\* number of candidates, and in bytes
bpf_core_find_cands(lt, i, tt) == SelectSeq([n \in DOMAIN tt |-> n], LAMBDA n : tt[n].name = lt[i].name)

RECURSIVE bpf_core_fields_are_compat(_, _, _, _)
bpf_core_fields_are_compat(lt, i, tt, j) ==
  LET t == lt[skip_mods_and_typedefs(lt, i)]  u == tt[skip_mods_and_typedefs(tt, j)]
  IN  \/ t.kind \in Composite /\ u.kind \in Composite
      \/ /\ t.kind = u.kind
         /\ \/ t.kind \in {"PTR", "INT"}
            \/ t.kind \in {"FWD", "ENUM"} /\ (t.name = "" \/ u.name = "" \/ t.name = u.name)
            \/ t.kind = "ARRAY" /\ bpf_core_fields_are_compat(lt, t.to, tt, u.to)

RECURSIVE bpf_core_match_member(_, _, _, _, _)
RECURSIVE MatchFrom(_, _, _, _, _, _)

\* the offset stays where the wrong field was
KeptOffset(spec, f) == spec

\* the offset of a field that turns out to be another is taken back
TakenBack(spec, f) == [spec EXCEPT !.off = @ - f.off]

\* looks for the field of acc in type i and in the structs without a name
\* that are part of it
bpf_core_match_member(lt, acc, tt, i, spec) ==
  LET j == skip_mods_and_typedefs(tt, i)
  IN  IF tt[j].kind \notin Composite THEN [spec EXCEPT !.ret = 0] ELSE MatchFrom(lt, acc, tt, j, spec, 1)

\* from the n-th field on
MatchFrom(lt, acc, tt, j, spec, n) ==
  LET f == tt[j].fields[n]
      local == lt[acc.type].fields[acc.idx + 1]
      into == [spec EXCEPT !.off = @ + f.off]
      inner == bpf_core_match_member(lt, acc, tt, f.type, into)
      back(s) == MatchFrom(lt, acc, tt, j, TakenBack(s, f), n + 1)
  IN  IF n > Len(tt[j].fields) THEN [spec EXCEPT !.ret = 0]
      ELSE IF f.name = "" THEN IF inner.ret # 0 THEN inner ELSE back(inner)
      ELSE IF f.name # local.name THEN back(into)
      ELSE IF bpf_core_fields_are_compat(lt, local.type, tt, f.type)
      THEN [into EXCEPT !.ret = 1, !.next = f.type, !.accs = Append(@, Access(j, n - 1, f.name))]
      ELSE [into EXCEPT !.ret = 0, !.next = f.type]

\* the accessor after the first is an element of an array
MatchIndex(tt, spec, acc) ==
  LET j == skip_mods_and_typedefs(tt, spec.next)
      first == spec.accs = <<>>
      elem == IF first THEN j ELSE skip_mods_and_typedefs(tt, tt[j].to)
      size == btf__resolve_size(tt, elem)
  IN  IF ~first /\ (tt[j].kind # "ARRAY" \/ acc.idx >= tt[j].nelems) THEN [spec EXCEPT !.ret = 0]
      ELSE IF size < 0 THEN [spec EXCEPT !.ret = -1]
      ELSE [spec EXCEPT !.off = @ + acc.idx * size * 8, !.next = elem, !.accs = Append(@, Access(elem, acc.idx, ""))]

bpf_core_spec_match(lt, spec, tt, i) ==
  FoldLeft(LAMBDA s, acc : IF s.ret # 1 THEN s
                           ELSE IF acc.name # "" THEN bpf_core_match_member(lt, acc, tt, s.next, s)
                           ELSE MatchIndex(tt, s, acc),
           NoSpec(i), spec.accs)

-----------------------------------------------------------------------------
(* The value                                                               *)

RECURSIVE BitfieldLoad(_, _, _)
\* size and place of the smallest load that has all of a bit field
BitfieldLoad(off, bits, size) ==
  LET at == ((off \div 8) \div size) * size
  IN  IF off + bits - at * 8 <= size * 8 THEN [size |-> size, at |-> at, err |-> FALSE]
      ELSE IF size >= 8 THEN [size |-> size, at |-> at, err |-> TRUE]
      ELSE BitfieldLoad(off, bits, size * 2)

\* bpf_core_calc_field_relo on a little endian machine; validate: the value
\* that is in the instruction must be this one
bpf_core_calc_field_relo(types, spec, kind) ==
  LET acc == Last(spec.accs)
      f == types[acc.type].fields[acc.idx + 1]
      whole == IF acc.name = "" THEN btf__resolve_size(types, acc.type) ELSE btf__resolve_size(types, f.type)
      m == types[skip_mods_and_typedefs(types, f.type)]
      bitfield == acc.name # "" /\ f.bits > 0
      load == IF bitfield THEN BitfieldLoad(spec.off, f.bits, m.size)
              ELSE [size |-> whole, at |-> spec.off \div 8, err |-> whole < 0]
      bits == IF bitfield THEN f.bits ELSE whole * 8
      result(v, validate) == [val |-> v, validate |-> validate, err |-> load.err]
  IN  CASE kind = "BYTE_OFFSET" -> result(load.at, ~bitfield)
        [] kind = "BYTE_SIZE" -> result(load.size, ~bitfield)
        [] acc.name = "" -> [val |-> 0, validate |-> FALSE, err |-> TRUE]
        [] kind = "SIGNED" -> result(IF m.kind = "ENUM" \/ m.signed THEN 1 ELSE 0, TRUE)
        [] kind = "LSHIFT_U64" -> result(64 - (spec.off + bits - load.at * 8), ~bitfield)
        [] kind = "RSHIFT_U64" -> result(64 - bits, TRUE)

Failed == [err |-> TRUE, val |-> 0]

\* bpf_core_reloc_insn: the new value; imm is what the instruction has.
\* found: there is a target spec
bpf_core_reloc_insn(lt, tt, kind, imm, local, found, targ) ==
  LET orig == bpf_core_calc_field_relo(lt, local, kind)
      new == bpf_core_calc_field_relo(tt, targ, kind)
      patched(v, check, expected) == IF check /\ imm # expected THEN Failed ELSE [err |-> FALSE, val |-> v]
  IN  IF kind = "EXISTS" THEN patched(IF found THEN 1 ELSE 0, TRUE, 1)
      ELSE IF ~found THEN patched(-1, FALSE, 0)
      ELSE IF orig.err \/ new.err THEN Failed
      ELSE patched(new.val, orig.validate, orig.val)

\* two candidates with the field must have it at the same place
Ambiguous(specs) == \E n \in DOMAIN specs : specs[n].off # specs[1].off

\* the candidates that had the field are the ones of the next relocation
Pruned(cands, specs) == IF specs = <<>> THEN cands ELSE [n \in DOMAIN specs |-> specs[n].accs[1].type]

\* bpf_core_reloc_field: r is a relocation of local type i: raw, kind, imm.
\* cands are the cached candidates
bpf_core_reloc_field(lt, tt, i, r, cands, relaxed) ==
  LET local == bpf_core_spec_parse(lt, i, r.raw)
      all == [n \in DOMAIN cands |-> bpf_core_spec_match(lt, local, tt, cands[n])]
      specs == SelectSeq(all, LAMBDA s : s.ret = 1)
      targ == IF specs = <<>> THEN local ELSE specs[1]
      fail == [err |-> TRUE, val |-> 0, cands |-> cands]
  IN  IF local.ret < 0 \/ (\E n \in DOMAIN all : all[n].ret < 0) \/ Ambiguous(specs) THEN fail
      ELSE IF specs = <<>> /\ ~relaxed /\ r.kind # "EXISTS" THEN fail
      ELSE bpf_core_reloc_insn(lt, tt, r.kind, r.imm, local, specs # <<>>, targ)
           @@ [cands |-> Pruned(cands, specs)]

\* bpf_core_reloc_fields: relocations of type i, one after the other; an
\* error ends it
bpf_core_reloc_fields(lt, tt, i, relos, relaxed) ==
  FoldLeft(LAMBDA s, r : IF s # <<>> /\ Last(s).err THEN s
             ELSE Append(s, bpf_core_reloc_field(lt, tt, i, r,
                              IF s = <<>> THEN bpf_core_find_cands(lt, i, tt) ELSE Last(s).cands, relaxed)),
           <<>>, relos)

-----------------------------------------------------------------------------
(* What it should come to                                                  *)

RECURSIVE FieldsNamed(_, _, _)
\* <<offset, type, bits>> of the fields of type i with a name, at any depth
\* of structs without one
FieldsNamed(types, i, name) ==
  LET t == types[skip_mods_and_typedefs(types, i)]
  IN  IF t.kind \notin Composite THEN {}
      ELSE UNION {LET f == t.fields[n] IN
                  IF f.name = name THEN {<<f.off, f.type, f.bits>>}
                  ELSE IF f.name = "" THEN {<<f.off + g[1], g[2], g[3]>> : g \in FieldsNamed(types, f.type, name)}
                  ELSE {} : n \in DOMAIN t.fields}

RECURSIVE Places(_, _, _, _, _, _)
\* where type i has, in compatible types, what accs describe: at most one
\* <<offset, bits>>
Places(lt, tt, i, accs, off, bits) ==
  LET a == Head(accs)
      t == tt[skip_mods_and_typedefs(tt, i)]
      same(f) == bpf_core_fields_are_compat(lt, lt[a.type].fields[a.idx + 1].type, tt, f[2])
  IN  IF accs = <<>> THEN {<<off, IF bits > 0 THEN bits ELSE 8 * btf__resolve_size(tt, i)>>}
      ELSE IF a.name # ""
      THEN UNION {Places(lt, tt, f[2], Tail(accs), off + f[1], f[3]) :
                  f \in {g \in FieldsNamed(tt, i, a.name) : same(g)}}
      ELSE IF t.kind = "ARRAY" /\ a.idx < t.nelems
      THEN Places(lt, tt, t.to, Tail(accs), off + a.idx * 8 * btf__resolve_size(tt, t.to), 0) ELSE {}

\* the same for an access string of type i and a kernel type j
PlacesOf(lt, tt, i, raw, j) ==
  Places(lt, tt, j, Tail(bpf_core_spec_parse(lt, i, raw).accs), Head(raw) * 8 * btf__resolve_size(tt, j), 0)

\* the bits of memory that a load of size bytes at at, shifted left and then
\* right, ends with: <<bit of the result, bit of memory>>
BitsRead(at, size, left, right) ==
  {<<j, at * 8 + j + right - left>> : j \in {k \in 0 .. 63 - right : k + right - left \in 0 .. size * 8 - 1}}
=============================================================================
