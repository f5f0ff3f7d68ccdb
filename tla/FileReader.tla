----------------------------- MODULE FileReader -----------------------------
(***************************************************************************)
(* The BPF programs of ebpf/src/file_reader.c for the threads of one       *)
(* process, with the perf buffer of libbpf that brings their events to     *)
(* user space.                                                             *)
(*                                                                         *)
(* detect_file_open keeps the file's name for detect_file_open_ret in      *)
(* tmp_map, which has one entry for a process.  detect_file_write puts a   *)
(* write's contents out in blocks, without leaving its CPU, for the files  *)
(* in listen_map; user space adds a file when it has had its open event.   *)
(***************************************************************************)
EXTENDS PerfBuffer

CONSTANTS
  Tasks, Files, NoFile,
  Blocks,     \* LOG_BLOCK_SIZEs in MAX_LOG_SIZE
  WriteSizes, \* sizes of writes, in blocks
  OpenWords, WriteWords, \* words of the two events in a ring
  MaxOut      \* bound: operations of the threads that put events out

ASSUME SizesAssumption ==
  /\ Blocks \in Nat \ {0} /\ WriteSizes \subseteq Nat \ {0} /\ MaxOut \in Nat
  /\ {OpenWords, WriteWords} \subseteq 1 .. mmap_size

VARIABLES
  pid_filter, \* the process passes the filter
  task,     \* what a thread is doing
  tmp_map,    \* the process's entry
  listen_map, \* files whose writes are put out
  ops,        \* auxiliary: operations begun
  mixed       \* auxiliary: an open overlapped with another

vars == <<perfVars, pid_filter, task, tmp_map, listen_map, ops, mixed>>

AtRest == [pc |-> "idle", file |-> NoFile, name |-> NoFile, cpu |-> 0, block |-> 0, total |-> 0, op |-> 0]
TaskState == [pc : {"idle", "opening", "opened", "output", "written"},
           file : Files \cup {NoFile}, name : Files \cup {NoFile},
           cpu : 0 .. Max_cpu, block : Nat, total : Nat, op : Nat]

\* open_event_t: the name that is told for the file that was opened (its fd);
\* write_event_t: op stands for the write whose contents it has
OpenEvents == [file : Files, name : Files]
WriteEvents == [file : Files, op : 1 .. MaxOut, cur_len : 0 .. Blocks - 1, total_len : WriteSizes]

\* a word of a record: the record, and which one of its words it is
Reports == OpenEvents \cup WriteEvents \cup [lost : Nat \ {0}]
Words == [s : [rec : Reports, size : 1 .. mmap_size], i : 0 .. mmap_size - 1]

ASSUME NothingAssumption == Nothing \notin Words /\ NoFile \notin Files

(* Type invariant of file_reader.c's maps and libbpf's perf_buffer.        *)
TypeOK ==
  /\ PerfTypeOK
  /\ task \in [Tasks -> TaskState]
  /\ tmp_map \in Files \cup {NoFile}
  /\ listen_map \subseteq Files
  /\ ops \in 0 .. MaxOut /\ mixed \in BOOLEAN /\ pid_filter \in BOOLEAN

Init ==
  /\ PerfInit
  /\ task = [t \in Tasks |-> AtRest]
  /\ tmp_map = NoFile
  /\ listen_map = {}
  /\ ops = 0 /\ mixed = FALSE /\ pid_filter = FALSE

\* a program runs to its end on its CPU
Runs(c) == \E t \in Tasks : task[t].cpu = c
Opening(t) == task[t].pc \in {"opening", "opened", "output"} /\ task[t].file # NoFile

-----------------------------------------------------------------------------
(* file_reader.c                                                           *)

detect_file_open(t, f) ==
  /\ task[t].pc = "idle" /\ ops < MaxOut
  /\ ops' = ops + 1
  /\ tmp_map' = IF pid_filter THEN f ELSE tmp_map
  /\ task' = [task EXCEPT ![t] = [AtRest EXCEPT !.pc = "opening", !.file = f]]
  /\ mixed' = (mixed \/ \E u \in Tasks \ {t} : Opening(u))
  /\ UNCHANGED <<perfVars, pid_filter, listen_map>>

(* The lookup of detect_file_open_ret, and the copy of the name.           *)
detect_file_open_ret(t, c) ==
  /\ task[t].pc = "opening" /\ ~Runs(c)
  /\ task' = IF tmp_map = NoFile
       THEN [task EXCEPT ![t] = AtRest]
       ELSE [task EXCEPT ![t].pc = "opened", ![t].name = tmp_map, ![t].cpu = c]
  /\ UNCHANGED <<perfVars, pid_filter, tmp_map, listen_map, ops, mixed>>

OpenOutput(t) ==
  /\ task[t].pc = "opened"
  /\ Output(task[t].cpu, Sample([file |-> task[t].file, name |-> task[t].name], OpenWords))
  /\ task' = [task EXCEPT ![t].pc = "output"]
  /\ UNCHANGED <<pb, pid_filter, res, got, tmp_map, listen_map, ops, mixed>>

\* the entry is left, and opens that come after find another's name
DeletedNot(name) == name

\* "bpf_map_delete_elem"
Deleted(name) == NoFile

OpenDelete(t) ==
  /\ task[t].pc = "output"
  /\ tmp_map' = Deleted(tmp_map)
  /\ task' = [task EXCEPT ![t] = AtRest]
  /\ UNCHANGED <<perfVars, pid_filter, listen_map, ops, mixed>>

detect_file_write(t, f, c, count) ==
  /\ task[t].pc = "idle" /\ f \in listen_map /\ ~Runs(c) /\ ops < MaxOut
  /\ ops' = ops + 1
  /\ task' = [task EXCEPT ![t] = [AtRest EXCEPT !.pc = "written", !.name = f, !.cpu = c,
                                                  !.total = count, !.op = ops + 1]]
  /\ UNCHANGED <<perfVars, pid_filter, tmp_map, listen_map, mixed>>

\* the loop does not look at count
LastBlockFull(block, total) == block + 1 >= Blocks

\* the loop ends behind the write's last block, or MAX_LOG_SIZE
LastBlock(block, total) == block + 1 >= Blocks \/ total <= block + 1

(* One turn of the loop over the blocks                                    *)
WriteBlock(t) ==
  LET w == task[t]
  IN  /\ w.pc = "written"
      /\ Output(w.cpu, Sample([file |-> w.name, op |-> w.op, cur_len |-> w.block,
                               total_len |-> w.total], WriteWords))
      /\ task' = IF LastBlock(w.block, w.total) THEN [task EXCEPT ![t] = AtRest]
                                                  ELSE [task EXCEPT ![t].block = @ + 1]
      /\ UNCHANGED <<pb, pid_filter, res, got, tmp_map, listen_map, ops, mixed>>

(* User space listens to a file after its open event.                      *)
Listen(f) ==
  /\ f \notin listen_map
  /\ \E c \in CPUs : \E i \in DOMAIN got[c] : got[c][i] \in OpenEvents /\ got[c][i].file = f
  /\ listen_map' = listen_map \cup {f}
  /\ UNCHANGED <<perfVars, pid_filter, task, tmp_map, ops, mixed>>

(* User space sets the filter.                                             *)
SetFilter ==
  /\ pid_filter' = ~pid_filter
  /\ UNCHANGED <<perfVars, task, tmp_map, listen_map, ops, mixed>>

Program(t) ==
  \/ OpenOutput(t)
  \/ OpenDelete(t)
  \/ WriteBlock(t)

Next ==
  \/ PerfNext /\ UNCHANGED <<pid_filter, task, tmp_map, listen_map, ops, mixed>>
  \/ \E t \in Tasks : Program(t)
  \/ \E t \in Tasks, f \in Files : detect_file_open(t, f)
  \/ \E t \in Tasks, c \in CPUs : detect_file_open_ret(t, c)
  \/ \E t \in Tasks, f \in Files, c \in CPUs, count \in WriteSizes : detect_file_write(t, f, c, count)
  \/ \E f \in Files : Listen(f)
  \/ SetFilter

Spec == Init /\ [][Next]_vars

-----------------------------------------------------------------------------
\* detect_file_open_ret: an open event tells the name of the file that was
\* opened, as long as no two opens of the process overlap
OpenEventsNameTheirFile ==
  ~mixed => \A c \in CPUs : \A i \in DOMAIN got[c] :
    got[c][i] \in OpenEvents => got[c][i].name = got[c][i].file

\* detect_file_write over perf_buffer__poll: user space has a write's blocks
\* one right behind the other, up to the last or MAX_LOG_SIZE, unless a
\* record says before the next that some were lost
BlocksFollow ==
  \A c \in CPUs \ gap : \A i \in DOMAIN got[c] :
    LET r == got[c][i]
    IN  r \in WriteEvents =>
          /\ r.cur_len < r.total_len
          /\ r.cur_len > 0 => i > 1 /\ (\/ got[c][i-1] = [r EXCEPT !.cur_len = @ - 1]
                                        \/ "lost" \in DOMAIN got[c][i-1])
          /\ i < Len(got[c]) =>
               \/ got[c][i+1] = [r EXCEPT !.cur_len = @ + 1]
               \/ "lost" \in DOMAIN got[c][i+1]
               \/ r.cur_len + 1 = (IF r.total_len < Blocks THEN r.total_len ELSE Blocks)

(* What user space gets of file_reader: open events with the name of the   *)
(* file that was opened, unless two opens of a process overlap, and every  *)
(* write in blocks that follow one another, unless it is told of a loss.   *)
FilesAreReported == OpenEventsNameTheirFile /\ BlocksFollow

(* libbpf's rings are a channel of whole records.                          *)
Channel == INSTANCE PerfChannel WITH
  open <- pb.pc \in {"open", "poll", "read", "error"},
  queue <- [c \in CPUs |-> InFlight(c)], Samples <- OpenEvents \cup WriteEvents
IsChannel == Channel!Spec
=============================================================================
