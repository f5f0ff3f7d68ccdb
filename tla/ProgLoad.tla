------------------------------ MODULE ProgLoad ------------------------------
(***************************************************************************)
(* The loading of one program into the kernel: load_program of libbpf.c    *)
(* and bpf_load_program_xattr of bpf.c, with all their retries.            *)
(*                                                                         *)
(* attr is the union bpf_attr of a call: the type of the program, the      *)
(* log's level and size, the size of a func_info and a line_info record    *)
(* (0: there are none) and whether their tails were zeroed.  State of a    *)
(* load: errno, what the log buffer starts with, the open descriptors.     *)
(***************************************************************************)
EXTENDS Integers, FiniteSets

CONSTANTS
  Kernels, \* what kernels there may be
  Loads, \* and programs to load
  MaxDoublings \* of the log buffer

VARIABLE loading \* a call to load_program, with its answer when it is done

\* BPF_LOG_BUF_SIZE, in a unit of its own
LogBufSize == 1

-----------------------------------------------------------------------------
(* The kernel k: what it refuses at once (nothing or the errno), the types *)
(* as which the verifier accepts the program, the length of its log, the   *)
(* largest log buffer it takes, the record sizes it knows.                 *)
AnyKernel ==
  [refuses : STRING \ {"ok"}, types : SUBSET STRING, need : Nat, maxlog : Nat, frec : Nat, lrec : Nat]
AnyLoad == [type : STRING, log_level : Nat, frec : Nat, lrec : Nat, toobig : BOOLEAN]

ASSUME LoadAssumption == Kernels \subseteq AnyKernel /\ Loads \subseteq AnyLoad /\ MaxDoublings \in Nat

\* result of the system call: a descriptor or not, errno, the attributes it
\* has changed, and what it has written: "nothing" for nothing
sys_bpf_prog_load(k, attr) ==
  LET fails(errno, log) == [ok |-> FALSE, errno |-> errno, attr |-> attr, log |-> log]
      text == IF attr.log_level = 0 \/ k.need = 0 THEN "nothing" ELSE "text"
  IN  IF k.refuses # "nothing" THEN fails(k.refuses, "nothing")
      ELSE IF attr.log_level # 0 /\ attr.log_size > k.maxlog THEN fails("EINVAL", "nothing")
      ELSE IF attr.frec > k.frec /\ ~attr.fzero
      THEN [fails("E2BIG", "nothing") EXCEPT !.attr.frec = k.frec]
      ELSE IF attr.lrec > k.lrec /\ ~attr.lzero
      THEN [fails("E2BIG", "nothing") EXCEPT !.attr.lrec = k.lrec]
      ELSE IF attr.log_level # 0 /\ k.need > attr.log_size THEN fails("ENOSPC", text)
      ELSE IF attr.type \in k.types THEN [fails("nothing", text) EXCEPT !.ok = TRUE]
      ELSE fails("EACCES", text)

-----------------------------------------------------------------------------
(* bpf_load_program_xattr                                                  *)

\* the tail of the records is not zeroed although their size is restored
FuncKept(load, attr) == [attr EXCEPT !.frec = load.frec]

\* alloc_zero_tailing_info: records of the old size, with zeros where the
\* kernel knows no field
FuncZeroed(load, attr) == [attr EXCEPT !.frec = load.frec, !.fzero = TRUE]
LineZeroed(load, attr) == [attr EXCEPT !.lrec = load.lrec, !.lzero = TRUE]

\* one call after E2BIG, if there is anything to correct and memory for it
CorrectsFunc(load, r) == ~r.attr.fzero /\ r.attr.frec < load.frec
CorrectsLine(load, r) == ~r.attr.lzero /\ r.attr.lrec < load.lrec
Corrects(load, r) == r.errno = "E2BIG" /\ (CorrectsFunc(load, r) \/ CorrectsLine(load, r))

Corrected(k, load, r) ==
  IF ~Corrects(load, r) THEN r
  ELSE IF CorrectsFunc(load, r)
  THEN sys_bpf_prog_load(k, FuncZeroed(load, r.attr))
  ELSE sys_bpf_prog_load(k, LineZeroed(load, r.attr))

\* the loop: func_info and line_info can be corrected once each
AfterTooBig(k, load, r) == Corrected(k, load, Corrected(k, load, r))

\* A load: buf is the buffer ("none" or what it starts with), size its size,
\* nomem whether there is no memory for records.  errno stays what it was when
\* the arguments are refused.
bpf_load_program_xattr(k, load, buf, size, errno, nomem) ==
  LET refused == (buf = "none") # (size = 0) \/ (load.log_level # 0 /\ buf = "none")
      attr == [type |-> load.type, log_level |-> load.log_level,
               log_size |-> IF load.log_level = 0 THEN 0 ELSE size,
               frec |-> load.frec, lrec |-> load.lrec, fzero |-> FALSE, lzero |-> FALSE]
      first == sys_bpf_prog_load(k, attr)
      second == AfterTooBig(k, load, first)
      third == sys_bpf_prog_load(k, [second.attr EXCEPT !.log_size = size, !.log_level = 1])
      told(r, before) == [ok |-> r.ok, errno |-> IF r.ok THEN errno ELSE r.errno,
                          buf |-> IF r.log # "nothing" THEN r.log ELSE before]
  IN  IF refused THEN [ok |-> FALSE, errno |-> errno, buf |-> buf]
      ELSE IF first.ok THEN told(first, buf)
      ELSE IF nomem /\ Corrects(load, first) THEN [ok |-> FALSE, errno |-> "ENOMEM", buf |-> buf]
      ELSE IF second.ok \/ load.log_level # 0 \/ buf = "none"
      THEN told(second, IF first.log # "nothing" THEN first.log ELSE buf)
      ELSE told(third, "nothing")

-----------------------------------------------------------------------------
(* load_program                                                            *)

\* the descriptor of the attempt as a kprobe stays open
ProbeKept(fds) == fds + 1

\* it is closed
ProbeClosed(fds) == fds

\* What is returned after a failure that is not ENOSPC: with a log VERIFY,
\* for a program of too many instructions PROG2BIG, PROGTYPE if it loads as a
\* kprobe, and errno otherwise.
Failure(k, load, r, nomem) ==
  LET probe == bpf_load_program_xattr(k, [load EXCEPT !.type = "KPROBE"], "none", 0, r.errno, nomem)
  IN  IF r.buf \notin {"none", "nothing"} THEN [ret |-> "VERIFY", fds |-> 0]
      ELSE IF load.toobig THEN [ret |-> "PROG2BIG", fds |-> 0]
      ELSE IF load.type # "KPROBE" /\ probe.ok THEN [ret |-> "PROGTYPE", fds |-> ProbeClosed(0)]
      ELSE [ret |-> r.errno, fds |-> 0]

\* the log buffer's size when it was doubled n times
LogBufSizes(d) ==
  LET size[n \in 0 .. d] == IF n = 0 THEN LogBufSize ELSE 2 * size[n - 1]
  IN  size

\* mem: whether there is memory for the log and for records, and what malloc
\* leaves behind in the log
Memory == [log : BOOLEAN, info : BOOLEAN, junk : {"nothing", "junk"}]

\* an attempt with a log buffer of a size
LoadWith(k, load, size, mem) ==
  bpf_load_program_xattr(k, load, IF mem.log THEN mem.junk ELSE "none", size,
                         IF mem.log THEN "nothing" ELSE "ENOMEM", ~mem.info)

\* the first attempt that does not fail for want of room in the log counts; d
\* bounds the doubling
load_program(k, load, mem, d) ==
  LET tried == [n \in 0 .. d |-> LoadWith(k, load, LogBufSizes(d)[n], mem)]
      through == {n \in 0 .. d : tried[n].ok \/ tried[n].errno # "ENOSPC"}
      r == tried[CHOOSE n \in through : \A m \in through : n <= m]
  IN  IF through = {} THEN [ret |-> "goes on", fds |-> 0]
      ELSE IF r.ok THEN [ret |-> "ok", fds |-> 1]
      ELSE Failure(k, load, r, ~mem.info)

-----------------------------------------------------------------------------
(* Calls share nothing, so a behaviour is one call.                        *)
LoadInit == loading = [done |-> FALSE]

LoadProgram(k, load, mem) ==
  loading' = [done |-> TRUE, kernel |-> k, load |-> load, mem |-> mem,
              answer |-> load_program(k, load, mem, MaxDoublings)]

LoadNext == ~loading.done /\ \E k \in Kernels, load \in Loads, mem \in Memory : LoadProgram(k, load, mem)

LoadSpec == LoadInit /\ [][LoadNext]_loading

\* what the answer r to a call should be
Answered(k, load, mem, r) ==
  LET accepted == k.refuses = "nothing" /\ load.type \in k.types
      loggable == \E n \in 0 .. MaxDoublings : LogBufSizes(MaxDoublings)[n] \in k.need .. k.maxlog
  IN  /\ r.fds = IF r.ret = "ok" THEN 1 ELSE 0
      /\ r.ret = "ok" => accepted
      /\ mem.log /\ mem.info =>
           /\ accepted /\ (load.log_level = 0 \/ loggable) => r.ret = "ok"
           /\ k.refuses = "nothing" /\ ~accepted /\ k.need > 0 /\ loggable => r.ret = "VERIFY"

(* load_program: whatever retries it takes, the program is loaded when the *)
(* kernel accepts it and takes a log buffer of the size it needs, an error *)
(* of the verifier comes with its log, and one descriptor is open after a  *)
(* success and none after a failure, also where memory runs out.           *)
LoadsAnswer == loading.done => Answered(loading.kernel, loading.load, loading.mem, loading.answer)
=============================================================================
