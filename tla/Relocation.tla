----------------------------- MODULE Relocation -----------------------------
(***************************************************************************)
(* From the sections of an object file to programs that the kernel can     *)
(* load (libbpf.c): which sections are collected, the maps they define,    *)
(* the relocations of programs, the calls into .text, and the function and *)
(* line info (btf.c) that goes with the instructions.                      *)
(*                                                                         *)
(* A section: name, type, exec, body, and info (the section that a REL     *)
(* section is for).  Sections are numbered from 1, 0 stands for none.  An  *)
(* instruction: code, src, imm, and id, the section and the place it comes *)
(* from; LD64 takes two places.  Offsets count instructions, in "maps" the *)
(* definitions, in data sections whatever they hold.                       *)
(***************************************************************************)
EXTENDS Integers, Sequences, FiniteSets

LOCAL INSTANCE SequencesExt
LOCAL INSTANCE TLC

\* the last of the sections, or 0
Section(is) == CHOOSE i \in is \cup {0} : \A j \in is : j <= i

Filled(s, type, name) == s.type = type /\ s.name = name /\ s.body # <<>>

\* bpf_object__add_program
NewProg(idx, insns) ==
  [idx |-> idx, insns |-> insns, relocs |-> <<>>, main |-> 0, info |-> [k \in {"func", "line"} |-> <<>>]]

\* bpf_object__elf_collect: the numbers of special sections, the programs
\* and the relocation sections that are for code
bpf_object__elf_collect(elf) ==
  LET nums == [i \in DOMAIN elf |-> i]
      prog(i) == elf[i].type = "PROGBITS" /\ elf[i].exec /\ elf[i].body # <<>>
  IN  [text |-> Section({i \in DOMAIN elf : Filled(elf[i], "PROGBITS", ".text") /\ elf[i].exec}),
       maps |-> Section({i \in DOMAIN elf : elf[i].name = "maps"}),
       btf_maps |-> Section({i \in DOMAIN elf : elf[i].name = ".maps"}),
       data |-> Section({i \in DOMAIN elf : Filled(elf[i], "PROGBITS", ".data") /\ ~elf[i].exec}),
       rodata |-> Section({i \in DOMAIN elf : Filled(elf[i], "PROGBITS", ".rodata") /\ ~elf[i].exec}),
       bss |-> Section({i \in DOMAIN elf : elf[i].type = "NOBITS" /\ elf[i].name = ".bss"}),
       progs |-> [n \in 1 .. Len(SelectSeq(nums, prog)) |->
                    LET i == SelectSeq(nums, prog)[n] IN NewProg(i, elf[i].body)],
       rels |-> SelectSeq(elf, LAMBDA s : s.type = "REL" /\ elf[s.info].exec)]

-----------------------------------------------------------------------------
(* Maps                                                                    *)

Error == [err |-> TRUE]

\* a size that is given twice must be the same
Sized(def, field, size) == IF def[field] \notin {0, size} THEN Error @@ def ELSE [def EXCEPT ![field] = size]

Attribute(def, a, strict) ==
  CASE a.name \in {"type", "max_entries", "map_flags"} -> [def EXCEPT ![a.name] = a.val]
    [] a.name \in {"key_size", "key"} -> Sized(def, "key_size", a.val)
    [] a.name \in {"value_size", "value"} -> Sized(def, "value_size", a.val)
    [] a.name = "pinning" -> IF a.val \in {0, 1} THEN [def EXCEPT !.pin = a.val] ELSE Error @@ def
    [] OTHER -> IF strict THEN Error @@ def ELSE def

\* bpf_object__init_user_btf_map: the definition that a variable in .maps has
bpf_object__init_user_btf_map(attrs, strict) ==
  LET none == [type |-> 0, max_entries |-> 0, map_flags |-> 0, key_size |-> 0, value_size |-> 0,
               pin |-> 0, err |-> FALSE]
      def == FoldLeft(LAMBDA d, a : IF d.err THEN d ELSE Attribute(d, a, strict), none, attrs)
  IN  IF def.type = 0 THEN Error @@ def ELSE def

\* bpf_object__init_user_maps: one for every symbol of the section, which
\* they divide evenly
UserMaps(elf, e, syms, strict) ==
  LET here == SelectSeq(syms, LAMBDA s : s.sec = e.maps)
      body == elf[e.maps].body
      size == Len(body) \div Len(here)
      excess(s) == \E k \in 1 .. size - 1 : s.val + 1 + k \in DOMAIN body /\ body[s.val + 1 + k] # 0
  IN  IF e.maps = 0 THEN [maps |-> <<>>, err |-> FALSE]
      ELSE IF here = <<>> \/ body = <<>> THEN [maps |-> <<>>, err |-> TRUE]
      ELSE [maps |-> [n \in DOMAIN here |-> [sec |-> e.maps, off |-> here[n].val, lib |-> "UNSPEC"]],
            err |-> \/ Len(body) % Len(here) # 0
                    \/ \E n \in DOMAIN here : here[n].val + size > Len(body) \/ (strict /\ excess(here[n]))]

\* bpf_object__init_user_btf_maps
UserBtfMaps(elf, e, strict) ==
  LET body == elf[e.btf_maps].body
  IN  IF e.btf_maps = 0 THEN [maps |-> <<>>, err |-> FALSE]
      ELSE [maps |-> [n \in DOMAIN body |-> [sec |-> e.btf_maps, off |-> n - 1, lib |-> "UNSPEC"]],
            err |-> \E n \in DOMAIN body : bpf_object__init_user_btf_map(body[n], strict).err]

\* bpf_object__init_global_data_maps
GlobalDataMaps(e, global_data) ==
  LET one(lib) == IF global_data /\ e[lib] # 0 THEN <<[sec |-> e[lib], off |-> 0, lib |-> lib]>> ELSE <<>>
  IN  one("data") \o one("rodata") \o one("bss")

\* compare_bpf_map
Before(m, n) == m.sec < n.sec \/ (m.sec = n.sec /\ m.off < n.off)

bpf_object__init_maps(elf, e, syms, strict, global_data) ==
  LET u == UserMaps(elf, e, syms, strict)  b == UserBtfMaps(elf, e, strict)
  IN  [maps |-> SortSeq(u.maps \o b.maps \o GlobalDataMaps(e, global_data), Before), err |-> u.err \/ b.err]

-----------------------------------------------------------------------------
(* Collecting relocations                                                  *)

\* the first of the maps, 0 for none
FirstMap(is) == IF is = {} THEN 0 ELSE CHOOSE i \in is : \A j \in is : i <= j

\* any map of the section will do
MapInSection(obj, sym) ==
  FirstMap({i \in DOMAIN obj.maps : obj.maps[i].lib = "UNSPEC" /\ obj.maps[i].sec = sym.sec})

MapAt(obj, sym) ==
  FirstMap({i \in DOMAIN obj.maps : LET m == obj.maps[i] IN m.lib = "UNSPEC" /\ m.sec = sym.sec /\ m.off = sym.val})

DataLib(e, sec) ==
  CASE sec = e.data -> "data" [] sec = e.bss -> "bss" [] sec = e.rodata -> "rodata" [] OTHER -> "UNSPEC"

bpf_program__record_reloc(obj, prog, n, sym) ==
  LET insn == prog.insns[n + 1]
      lib == DataLib(obj.e, sym.sec)
      data == FirstMap({i \in DOMAIN obj.maps : obj.maps[i].lib = lib})
      desc(type, map, off) == [type |-> type, insn |-> n, map |-> map, off |-> off, err |-> FALSE]
  IN  IF insn.code = "CALL"
      THEN IF insn.src = "CALL" /\ sym.sec # 0 /\ sym.sec = obj.e.text THEN desc("CALL", 0, sym.val) ELSE Error
      ELSE IF insn.code # "LD64" \/ sym.sec = 0 THEN Error
      ELSE IF lib = "UNSPEC"
      THEN IF sym.sec \in {obj.e.maps, obj.e.btf_maps} /\ MapAt(obj, sym) # 0
           THEN desc("LD64", MapAt(obj, sym), 0) ELSE Error
      ELSE IF obj.global_data /\ data # 0 THEN desc("DATA", data, sym.val) ELSE Error

\* bpf_object__collect_reloc and bpf_program__collect_reloc
bpf_object__collect_reloc(obj, syms) ==
  LET rels(p) == FlattenSeq([n \in DOMAIN obj.e.rels |->
                   IF obj.e.rels[n].info = p.idx THEN obj.e.rels[n].body ELSE <<>>])
      descs(p) == [n \in DOMAIN rels(p) |-> bpf_program__record_reloc(obj, p, rels(p)[n].insn, syms[rels(p)[n].sym])]
      progs == [n \in DOMAIN obj.progs |-> [obj.progs[n] EXCEPT !.relocs = descs(obj.progs[n])]]
  IN  [obj EXCEPT !.progs = progs,
                  !.err = @ \/ \E n \in DOMAIN progs : \E k \in DOMAIN progs[n].relocs : progs[n].relocs[k].err]

-----------------------------------------------------------------------------
(* Applying them                                                           *)

\* btf_ext_reloc_info: the info of a section goes behind what is there
MovedInfo(records, offset) == [n \in DOMAIN records |-> [records[n] EXCEPT !.off = @ + offset]]

RECURSIVE bpf_program_reloc_btf_ext(_, _, _, _, _)
\* kinds are done in order; the first that a section lacks ends it, and is
\* an error if the program has some already
bpf_program_reloc_btf_ext(obj, p, idx, offset, kinds) ==
  IF kinds = <<>> THEN [prog |-> p, err |-> FALSE]
  ELSE LET k == Head(kinds)
           records == obj.info[k][idx]
       IN  IF offset # 0 /\ p.info[k] = <<>> THEN bpf_program_reloc_btf_ext(obj, p, idx, offset, Tail(kinds))
           ELSE IF records = <<>> THEN [prog |-> p, err |-> p.info[k] # <<>>]
           ELSE bpf_program_reloc_btf_ext(obj, [p EXCEPT !.info[k] = @ \o MovedInfo(records, offset)],
                                          idx, offset, Tail(kinds))

ProgAt(obj, idx) == LET is == {n \in DOMAIN obj.progs : obj.progs[n].idx = idx} IN obj.progs[CHOOSE n \in is : TRUE]

\* the first call brings .text into the program
WithText(obj, p) ==
  LET text == ProgAt(obj, obj.e.text)
      r == bpf_program_reloc_btf_ext(obj, p, obj.e.text, Len(p.insns), <<"func", "line">>)
  IN  IF p.main # 0 THEN [prog |-> p, err |-> FALSE]
      ELSE [r EXCEPT !.prog.insns = p.insns \o text.insns, !.prog.main = Len(p.insns)]

bpf_program__reloc_text(obj, p, relo) ==
  LET r == WithText(obj, p)
  IN  IF p.idx = obj.e.text THEN [prog |-> p, err |-> TRUE]
      ELSE IF r.err THEN r
      ELSE [r EXCEPT !.prog.insns[relo.insn + 1].imm = @ + relo.off + r.prog.main - relo.insn]

Apply(obj, p, relo) ==
  LET n == relo.insn + 1
  IN  IF relo.type = "CALL" THEN bpf_program__reloc_text(obj, p, relo)
      ELSE IF n >= Len(p.insns) THEN [prog |-> p, err |-> TRUE]
      ELSE [prog |-> IF relo.type = "LD64" THEN [p EXCEPT !.insns[n].src = "MAP_FD", !.insns[n].imm = relo.map]
                     ELSE [p EXCEPT !.insns[n].src = "MAP_VALUE", !.insns[n].imm = relo.map,
                                    !.insns[n + 1].imm = p.insns[n].imm + relo.off],
            err |-> FALSE]

\* the descriptor of a map is its number here
bpf_program__relocate(obj, p) ==
  FoldLeft(LAMBDA r, relo : IF r.err THEN r ELSE Apply(obj, r.prog, relo),
           bpf_program_reloc_btf_ext(obj, p, p.idx, 0, <<"func", "line">>), p.relocs)

\* bpf_object__relocate: programs in the order of their sections
bpf_object__relocate(obj) ==
  FoldLeft(LAMBDA o, n : LET r == bpf_program__relocate(o, o.progs[n])
                         IN  IF o.err THEN o ELSE [o EXCEPT !.progs[n] = r.prog, !.err = r.err],
           obj, [n \in DOMAIN obj.progs |-> n])

\* all of it: bpf_object__elf_collect to bpf_object__relocate
Loaded(elf, syms, info, strict, global_data) ==
  LET e == bpf_object__elf_collect(elf)
      m == bpf_object__init_maps(elf, e, syms, strict, global_data)
      obj == [e |-> e, maps |-> m.maps, progs |-> e.progs, info |-> info, global_data |-> global_data, err |-> m.err]
      c == bpf_object__collect_reloc(obj, syms)
  IN  IF m.err THEN obj ELSE IF c.err THEN c ELSE bpf_object__relocate(c)

-----------------------------------------------------------------------------
(* What it should come to                                                  *)

\* the relocations of the instruction at a place of a section
RelsAt(elf, id) ==
  UNION {{r \in ToSet(elf[s].body) : r.insn = id[2]} : s \in {t \in DOMAIN elf : elf[t].type = "REL" /\ elf[t].info = id[1]}}

\* place of the instruction that came from id
PlaceOf(p, id) == CHOOSE n \in DOMAIN p.insns : p.insns[n].id = id

\* the n-th instruction of the final program refers to what sym is
RefersTo(elf, obj, p, n, sym) ==
  LET insn == p.insns[n]
      was == elf[insn.id[1]].body[insn.id[2] + 1]
  IN  IF insn.code = "CALL"
      THEN n + insn.imm + 1 = PlaceOf(p, <<sym.sec, sym.val + was.imm + 1>>)
      ELSE LET m == obj.maps[insn.imm] IN
           IF insn.src = "MAP_FD" THEN m.sec = sym.sec /\ m.off = sym.val
           ELSE /\ insn.src = "MAP_VALUE" /\ m.sec = sym.sec /\ m.lib # "UNSPEC"
                /\ p.insns[n + 1].imm = sym.val + was.imm

\* .text comes behind the program, which takes a copy that is not relocated
LateText(obj, p, insn) == p.idx < obj.e.text /\ insn.id[1] = obj.e.text

\* every instruction of a program, and what came from .text, refers to the
\* symbol of its relocation; what came too early from .text is as it was
\* compiled; info is about the instruction it was about
PointsRight(elf, syms, obj) ==
  \A k \in DOMAIN obj.progs : LET p == obj.progs[k] IN
    p.idx # obj.e.text =>
      /\ \A n \in DOMAIN p.insns : \A r \in RelsAt(elf, p.insns[n].id) :
           IF LateText(obj, p, p.insns[n]) THEN p.insns[n] = elf[obj.e.text].body[p.insns[n].id[2] + 1]
           ELSE RefersTo(elf, obj, p, n, syms[r.sym])
      /\ \A i \in {"func", "line"} : \A n \in DOMAIN p.info[i] :
           p.insns[p.info[i][n].off + 1].id = p.info[i][n].id
=============================================================================
