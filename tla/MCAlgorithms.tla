---------------------------- MODULE MCAlgorithms ----------------------------
(* The algorithms of libbpf over bounded inputs.  A state is an input of   *)
(* one of them, its topic; inputs grow step by step, and every property    *)
(* says of the inputs of its topic that the algorithm's result is right.   *)
(* In topic "hashmap" it is a hash table that takes the steps, in "load",  *)
(* "lines" and "netlink" a call to libbpf.                                 *)
EXTENDS Hashmap, ProgLoad, ProgLinfo, Netlink, TLC, SequencesExt

De == INSTANCE BtfDedup
Du == INSTANCE BtfDump
Re == INSTANCE Relocation
Co == INSTANCE CoreRelo

CONSTANTS
  Topics, \* the ones that are checked
  v1, v2

VARIABLES topic, input

MCKeys == {1, 2, 3}
MCValues == {v1, v2}
MCHashOf == <<2, 2, 3>>
MCSymmetry == Permutations(MCValues)

-----------------------------------------------------------------------------
(* Types of BTF                                                            *)

T(kind, name, sig, refs) == [kind |-> kind, name |-> name, sig |-> sig, refs |-> refs]

\* types of a unit of n types that starts behind base
DedupKinds(base, n) ==
  LET ids == {0} \cup {base + i : i \in 1 .. n}
  IN  {T("INT", "i", "4", <<>>), T("FWD", "s", "STRUCT", <<>>), T("ENUM", "e", "fwd", <<>>), T("ENUM", "e", "v", <<>>)}
      \cup {T(k, "", "", <<r>>) : k \in {"PTR", "ARRAY"}, r \in ids}
      \cup {T("STRUCT", "s", "m", <<r>>) : r \in ids}
      \cup {T("STRUCT", "s", "mm", r) : r \in {s \in ids \X ids : s[1] <= s[2]}}

\* what a compiler makes: members are of complete types, no type is there twice
Compiled(u, base) ==
  LET kind(r) == IF r = 0 THEN "VOID" ELSE u[r - base].kind
      own == [i \in DOMAIN u |-> [u[i] EXCEPT !.refs = [n \in DOMAIN @ |-> IF @[n] = 0 THEN 0 ELSE @[n] - base]]]
  IN  /\ \A i \in DOMAIN u : \A r \in ToSet(u[i].refs) :
           /\ u[i].kind \in {"STRUCT", "ARRAY"} => kind(r) \notin {"VOID", "FWD"} /\ r # base + i
           /\ u[i].kind # "STRUCT" => kind(r) \notin {"PTR", "ARRAY"}
      /\ De!NothingTwice([types |-> own])

Units(base, n) == {u \in [1 .. n -> DedupKinds(base, n)] : Compiled(u, base)}

DedupStep ==
  /\ input.units < 2
  /\ \E n \in 1 .. 3 - input.units : \E u \in Units(Len(input.types), n) :
       input' = [types |-> input.types \o u, units |-> input.units + 1]

\* sections of strings, numbers here, and what refers to them
StringsStep ==
  \/ /\ input.types = <<<<>>>> /\ input.ext = <<<<>>>> /\ Len(input.strs) < 4
     /\ \E s \in 1 .. 3 : input' = [input EXCEPT !.strs = Append(@, s)]
  \/ /\ Len(input.types[1]) < 2
     /\ \E i \in DOMAIN input.strs : input' = [input EXCEPT !.types[1] = Append(@, i)]
  \/ /\ Len(input.ext[1]) < 2
     /\ \E i \in DOMAIN input.strs : input' = [input EXCEPT !.ext[1] = Append(@, i)]

-----------------------------------------------------------------------------
(* Types to dump                                                           *)

OrderKinds ==
  {T("INT", "i", "4", <<>>), T("FWD", "f", "STRUCT", <<>>), T("ENUM", "e", "v", <<>>), T("ENUM", "", "v", <<>>)}
  \cup {T(k, "", "", <<r>>) : k \in {"PTR", "ARRAY", "CONST"}, r \in 1 .. 3}
  \cup {T("TYPEDEF", "t", "", <<r>>) : r \in 1 .. 3}
  \cup {T("STRUCT", n, "", <<r>>) : n \in {"", "s"}, r \in 1 .. 3}
  \cup {T(k, IF k = "STRUCT" THEN "s" ELSE "", "", <<r, q>>) : k \in {"STRUCT", "FUNC_PROTO"}, r, q \in 1 .. 3}

OrderStep == Len(input) < 3 /\ \E t \in OrderKinds : input' = Append(input, t)

\* what nests and what breaks cycles, one type deeper
ChainKinds ==
  {T("ENUM", "e", "v", <<>>)} \cup {T(k, "", "", <<r>>) : k \in {"PTR", "STRUCT"}, r \in 1 .. 4}
  \cup {T("STRUCT", "s", "", <<r>>) : r \in 1 .. 4} \cup {T("TYPEDEF", "t", "", <<r>>) : r \in 1 .. 4}

ChainStep == Len(input) < 4 /\ \E t \in ChainKinds : input' = Append(input, t)

\* all references are there, no type contains itself, and no prototype
\* returns an enum without a name
Complete ==
  /\ \A i \in DOMAIN input : ToSet(input[i].refs) \subseteq DOMAIN input
  /\ \A i \in DOMAIN input :
       /\ Du!Legal(input, i, FALSE, {})
       /\ input[i].kind = "FUNC_PROTO" =>
            LET r == input[input[i].refs[1]] IN r.kind = "ENUM" => Du!Named(r)

DeclKinds(n) ==
  {T("INT", "i", "4", <<>>)}
  \cup {T(k, "", "", <<r>>) : k \in {"PTR", "ARRAY", "CONST", "VOLATILE"}, r \in 0 .. n}
  \cup {T("FUNC_PROTO", "", "", <<r>> \o s) :
          r \in 0 .. n, s \in {<<>>} \cup {<<p>> : p \in 0 .. n} \cup {<<p, 0>> : p \in 0 .. n}}

\* the kind of type i without its modifiers
Unqualified(i) ==
  LET mod(j) == j # 0 /\ input[j].kind \in Du!Mods
      next(j) == IF mod(j) THEN Du!Base(input[j]) ELSE j
      j == next(next(next(i)))
  IN  IF j = 0 THEN "VOID" ELSE input[j].kind

\* types that C has
LegalDecl(t) ==
  CASE t.kind = "FUNC_PROTO" ->
         /\ Unqualified(t.refs[1]) \notin {"ARRAY", "FUNC_PROTO"}
         /\ \A n \in 2 .. Len(t.refs) : t.refs[n] = 0 \/ Unqualified(t.refs[n]) # "VOID"
    [] t.kind = "ARRAY" -> Unqualified(t.refs[1]) \notin {"FUNC_PROTO", "VOID"}
    [] t.kind \in Du!Mods -> Unqualified(t.refs[1]) # "FUNC_PROTO"
    [] OTHER -> TRUE

DeclStep ==
  Len(input) < 3 /\ \E t \in DeclKinds(Len(input)) : LegalDecl(t) /\ input' = Append(input, t)

Field(width, align, bits) == [width |-> width, align |-> align, bits |-> bits]
Fields ==
  {Field(1, 1, 0), Field(2, 2, 0), Field(4, 4, 0), Field(8, 8, 0), Field(3, 1, 0), Field(1, 1, 5), Field(2, 2, 9),
   Field(4, 4, 1), Field(4, 4, 17), Field(4, 4, 20), Field(4, 4, 32), Field(8, 8, 9), Field(8, 8, 40)}

LayoutStep == Len(input) < 3 /\ \E f \in Fields : input' = Append(input, f)

NameKinds == {T("TYPEDEF", "a", "", <<>>), T("STRUCT", "a", "", <<>>), T("STRUCT", "b", "", <<>>), T("STRUCT", "", "", <<>>)}

NamesStep ==
  \/ /\ input.uses = <<>> /\ Len(input.types) < 3
     /\ \E t \in NameKinds : input' = [input EXCEPT !.types = Append(@, t)]
  \/ /\ Len(input.uses) < 4
     /\ \E i \in DOMAIN input.types : input' = [input EXCEPT !.uses = Append(@, i)]

-----------------------------------------------------------------------------
(* Object files: what is written in a section, one element after another   *)

Insn(code, src, imm) == [code |-> code, src |-> src, imm |-> imm]
Element(insns, sym) == [insns |-> insns, sym |-> sym]
Plain == Element(<<Insn("", "", 7)>>, "none")
Ld(sym, add) == Element(<<Insn("LD64", "", add), Insn("", "", 0)>>, sym)
Call(sym, add) == Element(<<Insn("CALL", "CALL", add)>>, sym)

Elements(s) ==
  CASE s = ".text" -> {Plain, Call("none", -1), Ld("m1", 0), Ld("d", 2)}
    [] s = "p" -> {Plain, Call("f", -1), Call("g", -1), Call("t", 0), Ld("m1", 0), Ld("b0", 0), Ld("d", 2), Ld("s", 1)}
    [] s = "q" -> {Plain, Call("g", -1), Ld("m0", 0)}

Progs == {".text", "p", "q"}
Orders == {<<".text", "p", "q", "maps", ".maps", ".data", ".bss">>,
           <<".data", ".text", ".maps", "q", "maps", "p", ".bss">>,
           <<"p", "maps", ".bss", ".text", ".data", "q", ".maps">>}
InfoSets == {[s \in Progs |-> k] : k \in {{}, {"func"}, {"func", "line"}}}
         \cup {[s \in Progs |-> IF s = ".text" THEN {"func"} ELSE {"func", "line"}]}

Nr(name) == CHOOSE i \in DOMAIN input.order : input.order[i] = name
Syms ==
  LET sym(sec, val) == [sec |-> Nr(sec), val |-> val]
  IN  <<sym("maps", 0), sym("maps", 1), sym(".maps", 0), sym(".data", 1), sym(".bss", 2),
        sym(".text", 0), sym(".text", 1), sym(".text", 0)>>
SymNr(name) == CHOOSE n \in 1 .. 8 : <<"m0", "m1", "b0", "d", "s", "f", "g", "t">>[n] = name

InsnsOf(elements) == FlattenSeq([n \in DOMAIN elements |-> elements[n].insns])
Insns(i) ==
  LET f == InsnsOf(input.body[input.order[i]]) IN [n \in DOMAIN f |-> f[n] @@ [id |-> <<i, n - 1>>]]
Rels(s) ==
  LET b == input.body[s]
      at(n) == Len(InsnsOf(SubSeq(b, 1, n - 1)))
  IN  SelectSeq([n \in DOMAIN b |-> [insn |-> at(n), sym |-> IF b[n].sym = "none" THEN 0 ELSE SymNr(b[n].sym)]],
                LAMBDA r : r.sym # 0)

Elf ==
  LET sec(name, type, exec, body, info) == [name |-> name, type |-> type, exec |-> exec, body |-> body, info |-> info]
      bodyOf(n) == CASE n = "maps" -> <<5, 6>>
                     [] n = ".maps" -> <<<<[name |-> "type", val |-> 1]>>, <<[name |-> "type", val |-> 1]>>>>
                     [] n \in {".data", ".bss"} -> <<1>>
                     [] n \in Progs -> Insns(Nr(n))
      rel(s) == sec("rel", "REL", FALSE, Rels(s), Nr(s))
  IN  [i \in DOMAIN input.order |->
         LET n == input.order[i] IN sec(n, IF n = ".bss" THEN "NOBITS" ELSE "PROGBITS", n \in Progs, bodyOf(n), 0)]
      \o <<rel(".text"), rel("p"), rel("q")>>

\* function and line records: one for the first instruction, one for the second
Info ==
  LET record(i, off) == [off |-> off, id |-> <<i, off>>]
  IN  [k \in {"func", "line"} |-> [i \in DOMAIN input.order |->
         IF input.order[i] \notin Progs \/ k \notin input.infos[input.order[i]] THEN <<>>
         ELSE IF Len(Insns(i)) > 1 THEN <<record(i, 0), record(i, 1)>> ELSE <<record(i, 0)>>]]

ObjectStep ==
  \E s \in Progs :
    /\ Len(input.body[s]) < IF s = "q" THEN 1 ELSE 2
    /\ \E e \in Elements(s) : input' = [input EXCEPT !.body[s] = Append(@, e)]

WholeObject == Len(InsnsOf(input.body[".text"])) >= 2 /\ \A s \in Progs : input.body[s] # <<>>

-----------------------------------------------------------------------------
(* Structs of a program and of the kernel                                  *)

Ty(kind, name, size, to, nelems, fields) ==
  [kind |-> kind, name |-> name, size |-> size, to |-> to, nelems |-> nelems, fields |-> fields, signed |-> FALSE]
Fd(name, type, off, bits) == [name |-> name, type |-> type, off |-> off, bits |-> bits]
IntT == Ty("INT", "int", 4, 0, 0, <<>>)

\* the program's types; the last one is the struct it accesses
LocalTypes ==
  <<IntT, Ty("ARRAY", "", 0, 1, 2, <<>>),
    Ty("STRUCT", "t", 8, 0, 0, <<Fd("x", 1, 0, 0), Fd("y", 1, 32, 0)>>),
    Ty("STRUCT", "", 8, 0, 0, <<Fd("b", 1, 0, 3), Fd("c", 1, 32, 0)>>),
    Ty("STRUCT", "s", 28, 0, 0, <<Fd("a", 1, 0, 0), Fd("", 4, 32, 0), Fd("v", 2, 96, 0), Fd("d", 3, 160, 0)>>)>>
Raws == {<<0, 0>>, <<0, 1, 0>>, <<0, 1, 1>>, <<0, 2, 1>>, <<0, 3, 1>>, <<1, 0>>}

\* the kernel's types; its structs of that name are behind them
KernelTypes ==
  <<IntT, Ty("PTR", "", 0, 1, 0, <<>>), Ty("ARRAY", "", 0, 1, 1, <<>>), Ty("ARRAY", "", 0, 1, 3, <<>>),
    Ty("STRUCT", "t", 12, 0, 0, <<Fd("z", 1, 0, 0), Fd("x", 1, 32, 0), Fd("y", 1, 64, 0)>>),
    Ty("UNION", "", 4, 0, 0, <<Fd("c", 1, 0, 0), Fd("b", 1, 0, 20)>>),
    Ty("STRUCT", "", 8, 0, 0, <<Fd("e", 1, 0, 0), Fd("", 6, 32, 0)>>),
    Ty("CONST", "", 0, 1, 0, <<>>), Ty("INT", "char", 1, 0, 0, <<>>)>>
Menu ==
  LET f(name, type, bits, unit) == [name |-> name, type |-> type, bits |-> bits, unit |-> unit]
  IN  {f("a", 8, 0, 32), f("a", 2, 0, 64), f("b", 1, 3, 1), f("b", 1, 20, 1), f("", 6, 0, 32), f("", 7, 0, 32),
       f("v", 3, 0, 32), f("v", 4, 0, 32), f("d", 5, 0, 32), f("p", 9, 0, 8), f("q", 1, 13, 1)}

\* a field is put behind the others, on a multiple of its unit
UpTo(x, unit) == ((x + unit - 1) \div unit) * unit
EndOf(fs) ==
  IF fs = <<>> THEN 0
  ELSE LET f == Last(fs) IN f.off + IF f.bits > 0 THEN f.bits ELSE 8 * Co!btf__resolve_size(KernelTypes, f.type)
Put(fs, f) == Append(fs, Fd(f.name, f.type, UpTo(EndOf(fs), f.unit), f.bits))
NamesOf(f) == IF f.type \in {6, 7} THEN {"b", "c", ""} ELSE {f.name}
Fits(fs, f) == \A g \in ToSet(fs) : NamesOf(g) \cap NamesOf(f) = {}

CoreTypes ==
  LET struct(fs) == IF fs = <<>> THEN <<>> ELSE <<Ty("STRUCT", "s", UpTo(EndOf(fs), 32) \div 8, 0, 0, fs)>>
  IN  KernelTypes \o struct(input.one) \o struct(input.two)

CoreStep ==
  \E f \in Menu :
    \/ /\ Len(input.one) < 2 /\ input.two = <<>> /\ Fits(input.one, f)
       /\ input' = [input EXCEPT !.one = Put(@, f)]
    \/ /\ input.one # <<>> /\ input.two = <<>>
       /\ input' = [input EXCEPT !.two = Put(@, f)]

-----------------------------------------------------------------------------
(* Answers of the kernel                                                   *)

\* programs of interface i: SKB and DRV exclude each other
LinkSet(i) ==
  {[m \in Modes |-> p[m] * (10 * i + CASE m = "SKB" -> 1 [] m = "DRV" -> 2 [] m = "HW" -> 3)] :
     p \in {q \in [Modes -> {0, 1}] : q["SKB"] + q["DRV"] < 2}}
MCLinks == {<<>>} \cup {<<l>> : l \in LinkSet(1)} \cup {<<l, k>> : l \in LinkSet(1), k \in LinkSet(2)}
MCFlagSets == {f \in SUBSET (XdpFlags \cup {"unknown"}) : Cardinality(f) <= 2}

\* what a verifier and the kernel's version make of a load
MCKernels == [refuses : {"nothing", "EPERM", "E2BIG"}, types : SUBSET {"KPROBE", "XDP"}, need : 0 .. 3, maxlog : {1, 4},
            frec : {4, 8}, lrec : {4, 8}]
MCLoads == [type : {"KPROBE", "XDP"}, log_level : {0, 1}, frec : {0, 8, 12}, lrec : {0, 8}, toobig : BOOLEAN]

\* a function: the offsets of its lines; place: where the functions are
LineSets == {<<0>>, <<0, 1>>, <<0, 2>>, <<0, 1, 2>>}
MCInfos ==
  LET info(funcs, place, jit) ==
        LET lines(at) == FlattenSeq([f \in DOMAIN funcs |-> [n \in DOMAIN funcs[f] |-> at[f] + funcs[f][n]]])
            ksyms == [f \in DOMAIN funcs |-> 4 * place[f]]
        IN  [lines |-> lines([f \in DOMAIN funcs |-> 3 * (f - 1)]), jited |-> IF jit THEN lines(ksyms) ELSE <<>>,
             ksyms |-> ksyms, lens |-> [f \in DOMAIN funcs |-> 3]]
  IN  {info(funcs, place, jit) :
         funcs \in UNION {[1 .. n -> LineSets] : n \in 1 .. 3}, place \in Permutations(1 .. 3), jit \in BOOLEAN}
MCOffsets == 0 .. 9

-----------------------------------------------------------------------------
Inputs(t) ==
  CASE t = "dedup" -> {[types |-> <<>>, units |-> 0]}
    [] t = "strings" -> {[strs |-> <<0>>, types |-> <<<<>>>>, ext |-> <<<<>>>>]}
    [] t \in {"order", "chain", "decl", "layout", "hashmap", "load", "lines", "netlink"} -> {<<>>}
    [] t = "names" -> {[types |-> <<>>, uses |-> <<>>]}
    [] t = "object" -> {[order |-> o, infos |-> i, body |-> [s \in Progs |-> <<>>]] : o \in Orders, i \in InfoSets}
    [] t = "core" -> {[one |-> <<>>, two |-> <<>>]}

MCInit == HInit /\ LoadInit /\ LinfoInit /\ NlInit /\ topic \in Topics /\ input \in Inputs(topic)

MCNext ==
  \/ topic = "hashmap" /\ HNext /\ UNCHANGED <<loading, prog_linfo, nl, nlsock, net, topic, input>>
  \/ topic = "load" /\ LoadNext /\ UNCHANGED <<hmap, ret, prog_linfo, nl, nlsock, net, topic, input>>
  \/ topic = "lines" /\ LinfoNext /\ UNCHANGED <<hmap, ret, loading, nl, nlsock, net, topic, input>>
  \/ topic = "netlink" /\ NlNext /\ UNCHANGED <<hmap, ret, loading, prog_linfo, topic, input>>
  \/ /\ \/ topic = "dedup" /\ DedupStep
        \/ topic = "strings" /\ StringsStep
        \/ topic = "order" /\ OrderStep
        \/ topic = "chain" /\ ChainStep
        \/ topic = "decl" /\ DeclStep
        \/ topic = "layout" /\ LayoutStep
        \/ topic = "names" /\ NamesStep
        \/ topic = "object" /\ ObjectStep
        \/ topic = "core" /\ CoreStep
     /\ UNCHANGED <<hmap, ret, loading, prog_linfo, nl, nlsock, net, topic>>

MCSpec == MCInit /\ [][MCNext]_<<hmap, ret, loading, prog_linfo, nl, nlsock, net, topic, input>>

-----------------------------------------------------------------------------
(* btf__dedup, however the hashes collide and whether or not forward       *)
(* declarations are resolved: every type stays what it was, with what it   *)
(* refers to, and no two types that are left are the same.  When they are  *)
(* resolved (the default), no two structs, unions or enums are left that   *)
(* differ only in what they declare and what they define; a FWD may stay.  *)
(* Strings stay the same too, of the types and of .BTF.ext.                *)
DedupRight ==
  /\ topic = "dedup" =>
       \A collide, resolve \in BOOLEAN :
         LET r == De!btf__dedup(input.types, collide, resolve)
         IN  /\ De!NothingChanged(input.types, r, resolve)
             /\ De!NothingTwice(r) /\ (resolve => De!DefinedOnce(r))
  /\ topic = "strings" =>
       De!StringsKept(input.strs, input.types, input.ext, De!btf_dedup_strings(input.strs, input.types, input.ext))

(* btf_dump: the types come out in an order that a C compiler accepts,     *)
(* every declarator binds as the type says, struct members have the        *)
(* offsets BTF gives, with paddings and packed where it needs, and names   *)
(* that clash are told apart.                                              *)
DumpRight ==
  /\ topic \in {"order", "chain"} /\ Complete => LET d == Du!DumpAll(input) IN ~d.err /\ Du!Compiles(input, d.out)
  /\ topic = "decl" => \A i \in DOMAIN input : Du!Decl(input, i, "x") = Du!Declarator(input, i, <<>>, <<"x">>)
  /\ topic = "layout" =>
       \A packed \in BOOLEAN :
         (packed => \A n \in DOMAIN input : input[n].bits = 0)
         => LET l == Du!Layout(input, packed) IN Du!SameLayout(l.fields, l.size)
  /\ topic = "names" => Du!NamesDiffer(input.types, input.uses)

(* bpf_object__relocate: in every program that is loaded, instructions     *)
(* point to the map, the variable and the function that the source named,  *)
(* and lines describe their own instructions, whatever the order of the    *)
(* sections; but for one thing.  A program whose section comes before      *)
(* .text has the copied instructions of .text that have relocations of     *)
(* their own as they were compiled: what they name is not filled in.       *)
PointsRight ==
  topic = "object" /\ WholeObject =>
    LET r == Re!Loaded(Elf, Syms, Info, TRUE, TRUE) IN ~r.err => Re!PointsRight(Elf, Syms, r)

\* the relocation of the field with access string raw, and those of several,
\* one after the other
Relo(raw, kind) ==
  [raw |-> raw, kind |-> kind,
   imm |-> IF kind = "EXISTS" THEN 1
           ELSE Co!bpf_core_calc_field_relo(LocalTypes, Co!bpf_core_spec_parse(LocalTypes, 5, raw), kind).val]
Relocs(relos) == Co!bpf_core_reloc_fields(LocalTypes, CoreTypes, 5, relos, FALSE)

\* r: the results for one field by kind; places: where the candidates have it
FieldFound(raw, r, places) ==
  LET offs == {p[1] : p \in places}
      errs(kinds) == \E kind \in kinds : r[kind].err
  IN  /\ r["EXISTS"].err <=> Cardinality(offs) > 1
      /\ ~r["EXISTS"].err => r["EXISTS"].val = Cardinality(offs)
      /\ ~errs({"BYTE_OFFSET"}) => places # {} /\ ~r["EXISTS"].err
      /\ ~errs({"BYTE_OFFSET", "BYTE_SIZE", "LSHIFT_U64", "RSHIFT_U64"}) =>
           \E p \in places :
             Co!BitsRead(r["BYTE_OFFSET"].val, r["BYTE_SIZE"].val, r["LSHIFT_U64"].val, r["RSHIFT_U64"].val)
               = {<<j, p[1] + j>> : j \in 0 .. p[2] - 1}
      /\ ~errs({"BYTE_OFFSET"}) /\ raw = <<0, 2, 1>> => 8 * r["BYTE_OFFSET"].val \in offs

(* bpf_core_reloc_fields: a relocation gets the place of the field with    *)
(* that path of names in the kernel's struct, the whole of a bit field     *)
(* too, and fails if structs of one name disagree on it; candidates that   *)
(* an earlier relocation has pruned do not change a later one's result     *)
(* unless they were the ones with its field.                               *)
CoreFinds ==
  LET Kinds == {"EXISTS", "BYTE_OFFSET", "BYTE_SIZE", "LSHIFT_U64", "RSHIFT_U64"}
      cands == ToSet(Co!bpf_core_find_cands(LocalTypes, 5, CoreTypes))
  IN  topic = "core" =>
        \E places \in {[raw \in Raws |-> [c \in cands |-> Co!PlacesOf(LocalTypes, CoreTypes, 5, raw, c)]]},
           fresh \in {[raw \in Raws |-> [kind \in Kinds |-> Relocs(<<Relo(raw, kind)>>)[1]]]},
           pairs \in {[raw \in Raws |-> [next \in Raws |-> Relocs(<<Relo(raw, "EXISTS"), Relo(next, "BYTE_OFFSET")>>)]]} :
          LET having(raw) == {c \in cands : places[raw][c] # {}}
          IN  \A raw \in Raws :
                /\ FieldFound(raw, fresh[raw], UNION {places[raw][c] : c \in cands})
                /\ \A next \in Raws :
                     LET rs == pairs[raw][next]
                         alone == fresh[next]["BYTE_OFFSET"]
                     IN  (having(next) \subseteq having(raw) \/ having(raw) = {}) /\ ~rs[1].err
                         => rs[2].err = alone.err /\ rs[2].val = alone.val
=============================================================================
