------------------------------ MODULE BtfDump ------------------------------
(***************************************************************************)
(* The dump of BTF types as C declarations (btf_dump.c): in which order    *)
(* definitions and forward declarations are emitted, how a declarator is   *)
(* put together, and how a struct is padded.                               *)
(*                                                                         *)
(* Types are the records of BtfDedup: kind, name ("" for none), refs, sig. *)
(* What is emitted is a sequence of pairs: "def" or "fwd", and the type.   *)
(***************************************************************************)
EXTENDS Integers, Sequences, FiniteSets

LOCAL INSTANCE SequencesExt
LOCAL INSTANCE TLC

Composite == {"STRUCT", "UNION"}
Mods == {"CONST", "VOLATILE", "RESTRICT"}

\* the type that an array, a pointer or a modifier is made of
Base(t) == t.refs[Len(t.refs)]

Named(t) == t.name # ""

-----------------------------------------------------------------------------
(* Order                                                                   *)

\* btf_dump_mark_referenced: a function's result does not count
referenced(types) ==
  UNION {LET t == types[i] IN {t.refs[n] : n \in {m \in DOMAIN t.refs : t.kind = "FUNC_PROTO" => m > 1}} :
         i \in DOMAIN types}

\* struct btf_dump behind btf_dump__dump_type's preparations
NewDump(types) ==
  [types |-> types,
   order |-> [i \in 0 .. Len(types) |-> IF i = 0 THEN "ORDERED" ELSE "NOT_ORDERED"],
   queue |-> <<>>,
   emit |-> [i \in 0 .. Len(types) |-> IF i = 0 THEN "EMITTED" ELSE "NOT_EMITTED"],
   fwd |-> {}, out |-> <<>>, err |-> FALSE]

Ordered(d, i) == [d EXCEPT !.order[i] = "ORDERED"]
Queued(d, i) == [d EXCEPT !.queue = Append(@, i)]

\* a pointer to a struct, named or not, is a weak link
WeakAny(t, through) == through

\* a struct that has a name need not be defined behind a pointer
Weak(t, through) == through /\ Named(t)

RECURSIVE btf_dump_order_type(_, _, _)
RECURSIVE OrderRefs(_, _, _)

\* result: the dump, and how the link to i is: 1 strong, 0 weak, -1 an error
btf_dump_order_type(d, i, through) ==
  LET t == d.types[i]
      base == btf_dump_order_type(d, Base(t), through)
      behind == btf_dump_order_type(d, t.refs[1], TRUE)
      members == OrderRefs([d EXCEPT !.order[i] = "ORDERING"], t.refs, FALSE)
      put(e) == Ordered(IF Named(t) \/ (t.kind \notin Composite /\ i \notin referenced(d.types))
                        THEN Queued(e, i) ELSE e, i)
  IN  IF d.order[i] = "ORDERED" THEN [d |-> d, r |-> 1]
      ELSE IF d.order[i] = "ORDERING"
      THEN [d |-> d, r |-> IF t.kind \in Composite /\ through /\ Named(t) THEN 0 ELSE -1]
      ELSE CASE t.kind = "INT" -> [d |-> Ordered(d, i), r |-> 0]
             [] t.kind = "PTR" -> [d |-> Ordered(behind.d, i), r |-> behind.r]
             [] t.kind \in Mods \cup {"ARRAY"} -> base
             [] t.kind \in Composite ->
                  IF Weak(t, through) THEN [d |-> d, r |-> 0]
                  ELSE IF members.r < 0 THEN members ELSE [d |-> put(members.d), r |-> 1]
             [] t.kind \in {"ENUM", "FWD"} -> [d |-> put(d), r |-> 1]
             [] t.kind = "TYPEDEF" ->
                  IF base.r < 0 \/ (through /\ base.r = 0) THEN base
                  ELSE [d |-> Ordered(Queued(base.d, i), i), r |-> 1]
             [] t.kind = "FUNC_PROTO" -> OrderRefs(d, t.refs, through)
             [] OTHER -> [d |-> Ordered(d, i), r |-> 0]

\* references one after the other: strong if one is, the first error ends it
OrderRefs(d, refs, through) ==
  IF refs = <<>> THEN [d |-> d, r |-> 0]
  ELSE LET h == btf_dump_order_type(d, Head(refs), through)
           rest == OrderRefs(h.d, Tail(refs), through)
       IN  IF h.r < 0 THEN h ELSE IF rest.r < 0 THEN rest ELSE [rest EXCEPT !.r = IF h.r = 1 THEN 1 ELSE @]

-----------------------------------------------------------------------------
(* Emission                                                                *)

Out(d, what, i) == [d EXCEPT !.out = Append(@, <<what, i>>)]

\* a forward declaration, if there was none
Forward(d, i, what) == [Out(d, what, i) EXCEPT !.fwd = @ \cup {i}]

RECURSIVE btf_dump_emit_type(_, _, _)

EmitRefs(d, refs, cont) == FoldLeft(LAMBDA e, r : btf_dump_emit_type(e, r, cont), d, refs)

\* type i met again while it is being emitted
EmitAgain(d, i, cont) ==
  LET t == d.types[i]
  IN  IF i \in d.fwd \/ (t.kind \in Composite /\ (i = cont \/ ~Named(t))) THEN d
      ELSE IF t.kind \in Composite THEN Forward(d, i, "fwd")
      ELSE IF t.kind = "TYPEDEF" THEN Forward(d, i, "def") ELSE d

\* cont is the struct or typedef around it, 0 at the top level
btf_dump_emit_type(d, i, cont) ==
  LET t == d.types[i]
      top == cont = 0
      emitting == [d EXCEPT !.emit[i] = "EMITTING"]
      done(e) == [e EXCEPT !.emit[i] = "EMITTED"]
      typedef == EmitRefs(emitting, t.refs, i)
      around == IF Named(t) THEN i ELSE cont
      struct == IF top \/ ~Named(t) THEN EmitRefs(emitting, t.refs, around)
                ELSE IF i \notin d.fwd /\ i # cont THEN Forward(emitting, i, "fwd") ELSE emitting
  IN  IF d.emit[i] = "EMITTED" THEN d
      ELSE IF d.emit[i] = "EMITTING" THEN EmitAgain(d, i, cont)
      ELSE CASE t.kind = "INT" -> done(d)
             [] t.kind = "ENUM" -> done(IF top THEN Out(d, "def", i) ELSE d)
             [] t.kind \in Mods \cup {"PTR", "ARRAY"} -> btf_dump_emit_type(d, Base(t), cont)
             [] t.kind = "FWD" -> done(Out(d, "fwd", i))
             [] t.kind = "TYPEDEF" -> done(IF i \in typedef.fwd THEN typedef ELSE Out(typedef, "def", i))
             [] t.kind \in Composite ->
                  IF top THEN done(Out(struct, "def", i)) ELSE [struct EXCEPT !.emit[i] = "NOT_EMITTED"]
             [] t.kind = "FUNC_PROTO" -> EmitRefs(d, t.refs, cont)
             [] OTHER -> d

btf_dump__dump_type(d, i) ==
  LET o == btf_dump_order_type([d EXCEPT !.queue = <<>>], i, FALSE)
  IN  IF d.err \/ o.r < 0 THEN [o.d EXCEPT !.err = TRUE]
      ELSE FoldLeft(LAMBDA e, q : btf_dump_emit_type(e, q, 0), o.d, o.d.queue)

\* all types, one after the other
DumpAll(types) == FoldLeft(btf_dump__dump_type, NewDump(types), [i \in DOMAIN types |-> i])

-----------------------------------------------------------------------------
(* Declarators: a declaration is a sequence of tokens; types that end a    *)
(* declarator are written by their number.                                 *)

RECURSIVE TypeChain(_, _)
\* the stack that btf_dump_emit_type_decl builds; its end is the top
TypeChain(types, i) ==
  IF i = 0 \/ types[i].kind \notin Mods \cup {"PTR", "ARRAY", "FUNC_PROTO"} THEN <<i>>
  ELSE <<i>> \o TypeChain(types, IF types[i].kind = "FUNC_PROTO" THEN types[i].refs[1] ELSE Base(types[i]))

KindAt(types, i) == IF i = 0 THEN "VOID" ELSE types[i].kind

\* how many modifiers are on top of the stack
RECURSIVE ModsOnTop(_, _)
ModsOnTop(types, s) ==
  IF s # <<>> /\ KindAt(types, Last(s)) \in Mods THEN 1 + ModsOnTop(types, Front(s)) ELSE 0

\* btf_dump_emit_mods: their tokens, the top one first
ModTokens(types, s) == [n \in 1 .. ModsOnTop(types, s) |-> types[s[Len(s) + 1 - n]].kind]
WithoutMods(types, s) == SubSeq(s, 1, Len(s) - ModsOnTop(types, s))

RECURSIVE btf_dump_emit_type_chain(_, _, _)
RECURSIVE Params(_, _)

\* the tokens of a stack of types around a name
btf_dump_emit_type_chain(types, s, name) ==
  LET i == Last(s)  kind == KindAt(types, i)  rest == Front(s)
      under == WithoutMods(types, rest)
      n == <<"[", types[i].sig, "]">>
  IN  IF s = <<>> THEN <<name>>
      ELSE CASE kind = "PTR" -> <<"*">> \o btf_dump_emit_type_chain(types, rest, name)
             [] kind \in Mods -> <<kind>> \o btf_dump_emit_type_chain(types, rest, name)
             [] kind = "ARRAY" ->
                  IF under # <<>> /\ KindAt(types, Last(under)) # "ARRAY"
                  THEN <<"(">> \o btf_dump_emit_type_chain(types, under, name) \o <<")">> \o n
                  ELSE btf_dump_emit_type_chain(types, under, name) \o n
             [] kind = "FUNC_PROTO" ->
                  ModTokens(types, rest)
                  \o (IF under = <<>> THEN <<name>>
                      ELSE <<"(">> \o btf_dump_emit_type_chain(types, under, name) \o <<")">>)
                  \o <<"(">> \o Params(types, Tail(types[i].refs)) \o <<")">>
             [] OTHER -> ModTokens(types, rest) \o <<i>> \o btf_dump_emit_type_chain(types, under, name)

\* btf_dump_emit_type_decl
Decl(types, i, name) == btf_dump_emit_type_chain(types, TypeChain(types, i), name)

\* parameters have no names here; a void one is nothing, or "..." at the end
Params(types, refs) ==
  IF refs = <<>> \/ refs = <<0>> THEN <<>>
  ELSE LET commas == [n \in DOMAIN refs |->
             (IF n > 1 THEN <<",">> ELSE <<>>)
             \o (IF n = Len(refs) /\ refs[n] = 0 THEN <<"...">> ELSE Decl(types, refs[n], ""))]
       IN  FoldLeft(LAMBDA a, b : a \o b, <<>>, commas)

-----------------------------------------------------------------------------
(* Names: struct tags and typedefs have a name space each.  n: how often a *)
(* name was met in a name space, and the names that types have got.        *)
(* Enumerators, which share the typedefs' name space, are left out.        *)

Space(t) == IF t.kind = "TYPEDEF" THEN "ident" ELSE "type"

NoNames == [count |-> <<>>, of |-> <<>>]

\* btf_dump_name_dups
Dups(n, t) == IF <<Space(t), t.name>> \in DOMAIN n.count THEN n.count[<<Space(t), t.name>>] + 1 ELSE 1

\* a name is resolved once
btf_dump_resolve_name(n, types, i) ==
  LET t == types[i]  dups == Dups(n, t)
  IN  IF ~Named(t) \/ i \in DOMAIN n.of THEN n
      ELSE [count |-> (<<Space(t), t.name>> :> dups) @@ n.count,
            of |-> (i :> IF dups = 1 THEN t.name ELSE t.name \o "___" \o ToString(dups)) @@ n.of]

-----------------------------------------------------------------------------
(* Layout: a field has a width and an alignment in bytes, an offset in     *)
(* bits, and for a bit field its bits (else 0).                            *)

Largest(S) == CHOOSE a \in S : \A b \in S : b <= a

\* btf_align_of a struct
StructAlign(fields) == Largest({fields[n].align : n \in DOMAIN fields} \cup {1})

Unaligned(f) == f.bits = 0 /\ f.off % (8 * f.align) # 0

\* the size is not looked at
PackedByOffsets(fields, size) == \E n \in DOMAIN fields : Unaligned(fields[n])

btf_is_struct_packed(fields, size) ==
  size % StructAlign(fields) # 0 \/ \E n \in DOMAIN fields : Unaligned(fields[n])

chip_away_bits(total, most) == IF total % most = 0 THEN most ELSE total % most

\* width of the type that the next piece of padding has
PadWidth(gap) == CASE gap > 32 -> 8 [] gap > 16 /\ gap <= 32 -> 4 [] gap > 8 /\ gap <= 16 -> 2 [] OTHER -> 1

RECURSIVE Pads(_)
\* unnamed bit fields that fill a gap
Pads(gap) ==
  IF gap <= 0 THEN <<>>
  ELSE LET w == PadWidth(gap)  bits == chip_away_bits(gap, 8 * w)
       IN  <<[field |-> 0, width |-> w, align |-> 1, bits |-> bits]>> \o Pads(gap - bits)

btf_dump_emit_bit_padding(cur, off, bits, align) ==
  IF bits = 0 /\ off - cur < align * 8 THEN <<>> ELSE Pads(off - cur)

FieldEnd(f) == f.off + (IF f.bits > 0 THEN f.bits ELSE 8 * f.width)

\* the fields as they are written, with the padding between them
btf_dump_emit_struct_def(fields, size) ==
  LET packed == btf_is_struct_packed(fields, size)
      end(n) == IF n = 0 THEN 0 ELSE FieldEnd(fields[n])
      align(a) == IF packed THEN 1 ELSE a
      item(n) == [field |-> n, width |-> fields[n].width, align |-> fields[n].align, bits |-> fields[n].bits]
      padded(n) == Append(btf_dump_emit_bit_padding(end(n - 1), fields[n].off, fields[n].bits, align(fields[n].align)),
                          item(n))
  IN  [packed |-> packed,
       items |-> FlattenSeq([n \in DOMAIN fields |-> padded(n)])
                 \o btf_dump_emit_bit_padding(end(Len(fields)), 8 * size, 0, align(StructAlign(fields)))]

-----------------------------------------------------------------------------
(* What a C compiler makes of it                                           *)

\* the names in the order of their first use, uses, which may name a type
\* again: two types of a name space never have the same
NamesDiffer(types, uses) ==
  LET n == FoldLeft(LAMBDA m, i : btf_dump_resolve_name(m, types, i), NoNames, uses)
  IN  \A i, j \in ToSet(uses) :
        i # j /\ Named(types[i]) /\ Named(types[j]) /\ Space(types[i]) = Space(types[j]) => n.of[i] # n.of[j]

RECURSIVE Sees(_, _, _, _)
\* may type i be used after the entries in seen, inside definition me?  A
\* type behind a pointer, ptr, need not be complete.
Sees(types, seen, i, ptr) ==
  LET t == types[i]
      all(p) == \A n \in DOMAIN t.refs : Sees(types, seen, t.refs[n], p)
  IN  \/ i = 0
      \/ CASE t.kind \in {"INT", "FWD"} -> TRUE
           [] t.kind = "ENUM" -> Named(t) => <<"def", i>> \in seen
           [] t.kind \in Composite ->
                IF ~Named(t) THEN all(FALSE)
                ELSE <<"def", i>> \in seen \/ (ptr /\ <<"fwd", i>> \in seen)
           [] t.kind = "TYPEDEF" -> <<"def", i>> \in seen /\ all(ptr)
           [] OTHER -> all(ptr \/ t.kind = "PTR")

\* (every named type is defined once, every enum of constants too, and each
\* definition finds what it uses)
Compiles(types, out) ==
  LET needed == {i \in DOMAIN types : \/ types[i].kind \in Composite \cup {"TYPEDEF", "ENUM"} /\ Named(types[i])
                                      \/ types[i].kind = "ENUM" /\ \A j \in DOMAIN types : i \notin ToSet(types[j].refs)}
      before(n) == {out[m] : m \in 1 .. n - 1}
      usable(i, seen) ==
        \A n \in DOMAIN types[i].refs : Sees(types, seen, types[i].refs[n], types[i].kind = "TYPEDEF")
  IN  /\ \A i \in DOMAIN types : Cardinality({n \in DOMAIN out : out[n] = <<"def", i>>}) = IF i \in needed THEN 1 ELSE 0
      /\ \A n \in DOMAIN out : LET i == out[n][2] IN
           out[n][1] = "def" => usable(i, before(n) \cup (IF types[i].kind \in Composite THEN {<<"fwd", i>>} ELSE {}))

RECURSIVE Legal(_, _, _, _)
\* no type contains itself: every cycle has a pointer to a named struct
Legal(types, i, ptr, path) ==
  \/ i = 0
  \/ LET t == types[i] IN
     \/ ptr /\ t.kind \in Composite /\ Named(t)
     \/ /\ <<i, ptr>> \notin path
        /\ \A n \in DOMAIN t.refs :
             Legal(types, t.refs[n], t.kind \notin Composite /\ (ptr \/ t.kind = "PTR"), path \cup {<<i, ptr>>})

RECURSIVE Declarator(_, _, _, _)
RECURSIVE List(_, _)
\* A declaration mirrors the use: inner is the declarator so far, mods what
\* qualifies the next type.  Qualifiers of an array are left out.
Declarator(types, i, mods, inner) ==
  LET t == types[i]
      first == inner # <<>> /\ Head(inner) = "*"
      post(d) == (IF first THEN <<"(">> \o inner \o <<")">> ELSE inner) \o d
  IN  IF i = 0 \/ types[i].kind \notin Mods \cup {"PTR", "ARRAY", "FUNC_PROTO"} THEN mods \o <<i>> \o inner
      ELSE CASE t.kind \in Mods -> Declarator(types, Base(t), <<t.kind>> \o mods, inner)
             [] t.kind = "PTR" -> Declarator(types, Base(t), <<>>, <<"*">> \o mods \o inner)
             [] t.kind = "ARRAY" -> Declarator(types, Base(t), <<>>, post(<<"[", t.sig, "]">>))
             [] t.kind = "FUNC_PROTO" ->
                  Declarator(types, t.refs[1], <<>>, post(<<"(">> \o List(types, Tail(t.refs)) \o <<")">>))

List(types, refs) ==
  IF refs \in {<<>>, <<0>>} THEN <<>>
  ELSE Tail(FlattenSeq([n \in DOMAIN refs |-> <<",">> \o
         (IF n = Len(refs) /\ refs[n] = 0 THEN <<"...">> ELSE Declarator(types, refs[n], <<>>, <<"">>))]))

Up(x, unit) == ((x + unit - 1) \div unit) * unit

\* where the next field goes
PlaceOf(f, cur, packed) ==
  IF f.bits = 0 THEN Up(cur, IF packed THEN 8 ELSE 8 * f.align)
  ELSE IF ~packed /\ (cur % (8 * f.width)) + f.bits > 8 * f.width THEN Up(cur, 8 * f.width) ELSE cur

\* the fields with their offsets, and the size of the struct
Layout(fields, packed) ==
  LET place(l, f) == [fields |-> Append(l.fields, [off |-> PlaceOf(f, l.end, packed)] @@ f),
                      end |-> PlaceOf(f, l.end, packed) + (IF f.bits > 0 THEN f.bits ELSE 8 * f.width)]
      l == FoldLeft(place, [fields |-> <<>>, end |-> 0], fields)
  IN  [fields |-> l.fields, size |-> Up(l.end, IF packed THEN 8 ELSE 8 * StructAlign(fields)) \div 8]

\* what is written has the layout that was given
SameLayout(fields, size) ==
  LET w == btf_dump_emit_struct_def(fields, size)
      l == Layout(w.items, w.packed)
  IN  l.size = size /\ \A n \in DOMAIN l.fields :
        l.fields[n].field # 0 => l.fields[n].off = fields[l.fields[n].field].off
=============================================================================
