# Kmon: specifications, model checking and proofs

Kmon is a node agent. It loads BPF programs through bcc, tells them through BPF
tables which processes to record, collects what they record, tags it with the
container a process belongs to, and writes it to InfluxDB. Configurations come
from a YAML file that is watched for changes; containers come from the
Kubernetes API server. The repository also has libbpf, which is to take the
place of bcc, and a first program for it, `ebpf/src/file_reader.c`. This directory
holds TLA+ modules for the parts of Kmon and libbpf whose correctness depends on
the order in which goroutines, callbacks, channels, processes and the kernel act,
for the algorithms of libbpf that are hard to test, the TLC configurations that
check them, and proofs that TLAPS checks. `src/` below is the repository; the Go
code is in `src/src/`, the BPF programs in `src/release/bcc/` and `src/ebpf/`,
libbpf in `src/libbpf/`.

Contents:

1. [Inventory](#inventory): the system's parts and what can go wrong in them
2. [Modules](#modules): what models what
3. [Runs](#runs): what TLC checks, on which instances, and what it shows
4. [Fairness](#fairness)
5. [Proofs](#proofs)
6. [What the code does that its documents do not say](#divergences)
7. [Plan](#plan)
8. [What is not modelled](#not-modelled)

## Inventory

The parts, in the direction the data takes.

**Configuration file and provider** (`provider/config.go`,
`internal/config/config.go`). State: the file, the fsnotify watch on its inode,
the events not yet taken. A goroutine takes Write events, reads the file
(`FindConfig`) and calls `Setter.SetConfiguration`. Hard: a write is several
events and a read in between sees half a file; a file that is *replaced* (the
way a mounted ConfigMap changes) is another inode. Correct if a content that
stays in the file gets to the collectors.

**Registry** (`internal/info/`: `info.go`, `setter.go`, `getter.go`). State:
the configuration, the PIDs of every container, lists of callbacks, the
Getter's reverse cache `pidBuffer`, the channel `dataCh` (capacity 2048).
`SetConfiguration` and `SetContainerPIDs` store under a mutex, release it, and
start every callback as a goroutine of its own. `GetContainerFromPID` fills the
cache, a callback clears it. Hard: everything between a change and the callback
it starts; callbacks of several changes in any order; `GetConfiguration` reads
without the mutex. Correct if a stale answer is always about to be invalidated
and no callback is lost.

**Collector manager** (`collector/collector.go`). `Setup` reads the
configuration once, starts every collector listed, and then registers a
callback that, at a change, starts one sender goroutine per collector with a
send on its `ConfCh` (capacity 1). State: `Manager`, five maps from names to
managers. Hard: a change during `Setup`; a collector that failed to start;
senders of two changes that nothing orders. Correct if every running collector
ends on the last configuration.

**PIDLis** (`collector/utils/pid.go`). One per collector. State: the PIDs the
configuration fixes, the PIDs of the containers it matches, `AddCh` and `DelCh`
(capacity 1024). `OnConfigChange` computes who is new and who is gone;
`notifyChange` starts a goroutine that sends them one by one. A second callback
follows container changes. Hard: the goroutines of two changes, and the two
channels, are not ordered. Correct if the table the notifications build agrees
with the PIDLis, or is about to.

**Collectors** (`collector/{biostat,offcpu,tcpreq,tcpdrop,fcount}.go`). Each
`StartX` sets up a BPF module, applies the first configuration and runs a signal
loop: a select over the end of the program, `ConfCh`, `AddCh`, `DelCh` and, for
tcpreq and tcpdrop, a perf channel; a second loop calls `exportData` once per
period. State: `collector.conf`, the control table (PID to recording level),
event buffers. Hard: notifications of one configuration handled under another;
the event buffer is a Go slice that is sent on `dataCh` and used again; the
tables are iterated and cleared while the kernel writes them; the export loop
holds the mutex while it waits. Correct if recording follows the configuration
and every event is exported once.

**Exporters** (`exporter/exporter.go`, `influxdb.go`). One goroutine takes a
message from `dataCh` and starts one `Export` goroutine per exporter of the
message. Hard: they read, and change, the same slice and maps. Correct if what
is written is what was sent.

**BPF programs** (`release/bcc/*.c`). State: hash tables shared by all CPUs
and with the collector. biostat pairs the issue and the completion of a block
request, offcpu a switch-out and a switch-in, tcpreq an accept's entry and
return and the packets of a connection; fcount counts, tcpdrop reports. Hard:
the pairing state outlives the interest in a process; keys are shared by
threads; reads and writes of an entry are not atomic. Correct if a reported
latency is the latency of one request of the process it is charged to.

**Container provider** (`provider/container.go`). Lists the pods once, then
follows the API server's events. Hard: what changes between the list and the
first event, updates that carry the old object. Correct if the registry
converges to the node's running containers.

**Program start and end** (`cmd/root.go`, `info.go`). Starts the parts in
order; at a signal calls `EndProgram`, which sends on every `done` channel that
was registered. Hard: the registrations are appended without a lock, the
channels are unbuffered, and a loop that waits elsewhere does not take them.
Correct if the program ends.

**file_reader** (`ebpf/src/file_reader.c`), a BPF program for libbpf. State: the
process filter, `tmp_map` (one file name for a process between the entry and the
return of an open), `listen_map` (files whose writes are reported), a perf
buffer. Hard: threads of one process share the entry of `tmp_map`; a write comes
out in blocks. Correct if an event names its file and the blocks of a write can
be put together.

**libbpf's handles** (`libbpf.c`, `xsk.c`). Four kinds, each with an open that
takes many system calls, any of which may fail. *Objects*: maps and programs with
their descriptors and pins; other processes load the same object and share maps
through pin paths. *Perf buffers*: one ring of shared memory, one event and one
map entry per CPU; records go round the end of a ring. *Links*: an event with
the program set. *AF_XDP sockets*: a umem with a reference count, rings shared
with the kernel, the XDP program that all sockets of an interface share. Correct
if whatever was taken is given back once, whichever step failed; if nothing of
others is taken away; and if rings lose and repeat nothing.

**libbpf's algorithms** (`btf.c`, `btf_dump.c`, `libbpf.c`, `bpf.c`,
`bpf_prog_linfo.c`, `netlink.c`, `nlattr.c`, `hashmap.c`). Sequential, without
state between calls, but with many cases: deduplication of types by equivalence
of graphs that may be cyclic, their dump as C code in an order that compiles,
relocation of instructions between the sections of an object file, relocation of
field accesses to another kernel's structs, netlink answers in several
datagrams, a load that is retried with less, the lookup of source lines, a hash
table that grows. Correct if they compute what a plain definition says.

Interaction, in short: file -> provider -> registry -> callback goroutine ->
sender goroutines -> `ConfCh` -> signal loop -> PIDLis -> notifier goroutine ->
`AddCh`/`DelCh` -> signal loop -> BPF table -> kernel -> perf buffer or table ->
event slice -> `dataCh` -> exporter goroutines. API server -> container provider
-> registry -> callbacks of the cache and of every PIDLis. In libbpf: object file
-> sections -> relocations (with BTF and CO-RE) -> maps and pins -> program load
-> link -> kernel -> perf buffer -> callback.

`PROJECT.json` lists every hazard of these parts at its line, with the
properties that cover it or the reason none does yet.

## Modules

| Module | Models | Code |
|---|---|---|
| `ContainerInfo` | registry of container PIDs and the reverse cache | `setter.go` `SetContainerPIDs`; `getter.go` `NewGetter`, `GetContainerFromPID` |
| `Collector` | one collector: PIDLis, signal loop, control table | `pid.go`; `StartBiostat` and its four siblings, `onConfigChange` |
| `ConfigBus` | a configuration's way from the file to the collectors | `provider/config.go`, `SetConfiguration`, `root.go`, `collector.go` |
| `EventPipe` | an event's way from the perf callback to the database | `bufferEvent`, `exportData`; `exporter.go`, `influxdb.go` |
| `BioTrace` | block requests, the biostat BPF program on several CPUs, the export of its tables | `biostat.c`; `biostat.go` `exportData`, `exportHistData` |
| `OffcpuTrace` | thread switches, the offcpu BPF program on several CPUs, the export of its table | `offcpu.c`; `offcpu.go` `exportData` |
| `Fcount` | calls of the probed function on several CPUs, the fcount BPF program, its collector's loops over the table | `fcount.c`; `fcount.go` |
| `ContainerProvider` | pods, their containers, the API server's events, what the registry gets to know | `provider/container.go` |
| `Shutdown` | registrations for the end, `EndProgram`, the loops it waits for | `info.go`, `root.go`; `waitPeriod`; the loops of `StartTcpreq` and its siblings |
| `TcpTrace` | accepts and connections of a process, the tcpreq BPF program, its perf buffers, the event machine | `tcpreq.c`; `tcpreq.go` `bufferEvent` |
| `PerfChannel` | what a perf buffer promises: an abstract specification | `perf_buffer__poll` and what its callers expect |
| `PerfBuffer` | life of a perf buffer, ring memory, the reader | `libbpf.c` `perf_buffer__new`, `__poll`, `__free` |
| `FileReader` | the file_reader programs over `PerfBuffer`; implements `PerfChannel` | `file_reader.c` |
| `BpfObject` | open, load, pin, unpin, close of an object by several processes | `libbpf.c` |
| `XskSocket` | umems, AF_XDP sockets, the XDP program they share | `xsk.c` |
| `XskRing` | the rings of an AF_XDP socket, both ends | `xsk.h` |
| `BpfLink` | attachments of a program to events | `libbpf.c` `bpf_program__attach_*`, `bpf_link__destroy` |
| `Multimap` | what the hash table promises: an abstract specification | `hashmap.h` |
| `Hashmap` | the hash table; implements `Multimap` | `hashmap.c`, `hashmap.h` |
| `BtfDedup` | deduplication of types and strings | `btf.c` `btf__dedup` |
| `BtfDump` | order, declarators, layout and names of dumped types | `btf_dump.c` |
| `Relocation` | sections, maps, relocation of instructions, line info | `libbpf.c`, `btf.c` |
| `CoreRelo` | CO-RE field relocations | `libbpf.c` `bpf_core_*` |
| `Netlink` | a call that asks for an interface's XDP program or sets it: socket, request, answer, attributes | `netlink.c`, `nlattr.c` |
| `ProgLoad` | a program load with its retries | `libbpf.c` `load_program`, `bpf.c` |
| `ProgLinfo` | line information | `bpf_prog_linfo.c` |
| `ContainerInfoProofs` | theorems about `ContainerInfo` and `ContainerProvider` | |
| `CollectorProofs`, `ConfigBusProofs`, `EventPipeProofs`, `BioTraceProofs` | theorems about the module they are named after | |
| `TableProofs` | theorems about `OffcpuTrace` and `Fcount` | |
| `RingProofs` | theorems about `TcpTrace`, `PerfBuffer` with `FileReader`, and `XskRing` | |
| `ObjectProofs` | theorems about `BpfLink`, `XskSocket`, `BpfObject`, `Hashmap`, `ProgLoad`, `ProgLinfo` and `Netlink` | |
| `MC*` | the instances TLC checks | |

Every module is parameterised by constants with named assumptions; bounds on otherwise
unbounded behaviour (`MaxSets`, `MaxSpawns`, `MaxWrites`, `MaxReplaces`, `MaxStarts`,
`MaxEvents`, `MaxIOs`, `MaxTrips`, `MaxAccepts`, `MaxOut`, `MaxIds`, `MaxOpens`,
`MaxProgs`, `MaxCalls`, `MaxFds`, `MaxSize`) are constants that appear in guards of
the environment's actions. The definitions under "Mutated forms", or with a `\*`
comment just before the definition they distort, are not part of the specifications:
they are the plausible mistakes used to test that each property can fail.

**ContainerInfo.** `containerPID` and `pidBuffer` are the Go maps. A critical
section of `info.mutex` is one action. `SetContainerPIDs` is cut in two where
the code releases the mutex: the assignment, and `Notify`, which starts the
callbacks. `Invalidate` is the callback's body. `GetContainerFromPID` on a
cached PID changes nothing and has no action; on another it caches the answer,
and with two owners it takes either, as the map iteration does.

**Collector.** The patterns of a configuration's k8s list are the set of
containers they match; everything a configuration says of a table entry is its
*level*. A branch of the signal loop's select is one action: only the loop
writes `conf`, the PID sets and the table. The exception is the loop with which
`onConfigChange` refreshes the table (`biostat.go:308`, `offcpu.go:268`,
`tcpreq.go:220`, `tcpdrop.go:305`; fcount has none): `Refresh` is its step for one key,
and `refreshing` where it is. `SetP` puts the key it sets at the head of its bucket, so
the iterator then finds the bucket's other keys behind it (`Behind`), and the signal
loop takes nothing until it is through; with two recorded PIDs in one bucket it
never is (`Endless`). `bucket` is any of `Hashes`, since the hash has a random seed;
the order within a bucket is left open. `notifyChange`'s goroutine keeps in
`notifiers[i]` what it has yet to send, in any order (Go ranges over a map),
waiting at a full channel. `Kind` selects the collector where their code
differs: `OffcpuEntry`. The history variable `crossed` marks PIDs for which a
notification was issued while a contradictory one was under way; a later
notification that meets none clears it.

**ConfigBus.** A content of the file is a number, even when it is complete, odd
when only a prefix has been written; a prefix may decode or not, and may list
only some of the collectors. `GetConfiguration` is a torn read: while
`SetConfiguration` assigns the struct, each collector's part is old or new. The
history variables name three races: `missed` (a change during `Setup`),
`unseen` (the file changed with no watch on it), `overtaken` (collectors with
different configurations on their way to them). `HandleConf` stands for a collector's
`onConfigChange`, which may not return (`endless`; `Collector` says when): the collector
then has the configuration, and takes no other.

**EventPipe.** A Go slice is an array and a length; `Cut` keeps the array.
`BufferEvent` overwrites a slot or grows the array as `append` does, and the
history variable `overwritten` records batches that lose an unread slot that
way. `sending` is exportData's critical section, which spans the wait at
`dataCh`. `dataCh` is shared by all collectors in the code; the model gives it
to one, with a capacity small enough to be full whenever it matters.

**BioTrace.** A request is a kernel address that is used for one I/O after the
other; `stage` is the kernel's side of it (external), the probes
`TracePidStart`, `TraceReqStart` and `TraceReqCompletion` fire on its way. A
timestamp is the number of the I/O at whose issue it was taken, so a latency is
right when that number is the completing I/O's. A table element is the set of
charges added up in it. The completion handler looks an element up and loads
its value in one step (`Find`) and stores the sum in another (`Put`), which is
where handlers on other CPUs and the exporter come in between. `PutCounts` and
`PutDist` differ as the code does: the first writes the sum to a new element
(`counts.update`), the second increments in place. An element that is replaced
or deleted may be given to another key while a handler still has a pointer to it
(`Insert` takes any free element). The exporter reads a key and deletes it in two
steps, under the mutex; `IterationOver` is how an iteration ends whose current
key has been deleted. The histories `abandoned` and `leftover` name the
I/Os that found a request with the entries of an earlier one
(`biostat.c:103` returns without deleting them), `overlap` an update of an
element that overlapped another, or its export.

**OffcpuTrace.** `finish_task_switch` is entered on the CPU that switched, in the
new thread, with the old one as argument; the old thread runs nowhere until the
handler is done. Its halves are `Oncpu_prev` and `Oncpu_current`, its update of the
table `IncrementFind` and `IncrementAdd`. A time is the number of the departure
it was taken at. `ExportRead` and `ExportDelete` are the two halves of the
exporter's step; a deletion sends an addition through a pointer nowhere
(`misplaced`). `forgotten` names threads that came back unrecorded while their
start time stayed (`offcpu.c:69`).

**Fcount.** A counter is the set of calls it counts. `Lookup` is the BPF program's
lookup and load, `Increment` its store, on whatever the element has become:
`SetP` puts a new element at the head of the key's bucket and frees the old one,
so that a handler may store into a free element, or into another key's
(`astray`). The signal loop's branches are `AddPid`, `DelPid` and
`OnConfigChange`, exportData is `FExportBegin`, then `FExportRead` and `ExportReset`
per entry, and `FExportEnd`; `Follows` is the kernel's order of keys, bucket by
bucket. `due` is what was counted and not discarded with an entry that the
collector made anew, deleted or left out; `overlap` marks an increment that met
another one or the exporter.

**ContainerProvider.** The cluster (external) starts and ends containers and removes
pods; `Report` is when the API server knows, and what it tells the controller, which
calls the handler for one event after the other. `List`, `EnterListed` and
`InitDone` are `Init`, the three `Object...` actions are the handler's functions.
`ObjectUpdated` takes the pod as the API server knows it by then, and
`ObjectUpdatedSet` asks the cgroups of this node, which may know more already or no
longer. The registry is the map that `ContainerInfo` models the readers of.

**Shutdown.** A function registered for the end is the goroutine whose `done` channel it
sends on. `RegisterRead` and `RegisterWrite` are the two halves of an `append` that
no lock protects; `raced` names loops whose halves met another's, of which one may
be lost or, if the slice is torn, end the process (`crashed`). `EndProgram` reads
the slice and offers `done` to one goroutine at a time, which receives it in
`WaitPeriod`, in the select of its signal loop (`SignalDone`, whose `break` does not leave
the loop) or in the watcher's. exportData holds the mutex while it waits at `dataCh`
(`MutexFree`), and the exporter goes on until the process is gone (`Forward`). The two
loops that set every key of a table while they iterate over it, `onConfigChange`'s and,
for fcount (`Fcounts`), exportData's, may stay where they are, with the mutex
(`"endless"`): then the collector's other loop waits for the mutex at exportData, at
`ReadPeriod` or in its signal loop.

**TcpTrace.** One process; its threads accept, send, receive and close. The link
between an accept's entry and its return is `ptr_map`'s one slot. `check_state`
is a lookup (`SendOrReceive`), a write through the pointer (`check_state_write`)
and an event (`emit_event`), put into the buffer of any CPU, or lost if it is
full. `bufferEvent` takes the head of any buffer. The histories in `odd` name what
spoils the data: accepts that overlapped (`mixed`), two handlers in one entry
(`raced`), closes that were not seen, lost and late events.

**PerfBuffer, FileReader, PerfChannel.** A ring is `mmap_size` words; a record lies
in consecutive words, so `ReadRecord` has both cases, and puts a record that goes
round the end together. `New` to `OpenStep` are `perf_buffer__new` with a failure
at every step, `FreeStep` the loop of `perf_buffer__free`. The writer puts a
record of losses before the next one that fits, as the kernel does (external).
`FileReader` adds the four programs; `detect_file_write`'s loop is one `WriteBlock`
per turn. `PerfChannel` knows neither words nor steps: a queue per CPU.
`IsChannel` states that the rings implement it, with the records between the
reader's place and the head as the queue.

**BpfObject.** A step is a system call with what the code does up to the next
one; each may fail. `obj` is the object and where a call is in it, `fds` counts the
descriptors of every kernel map and program a process has, `fs` is the BPF file
system. Processes may end anywhere (`Exit`). `leaked` counts descriptors that
nothing closes (`libbpf.c:2288`), `taken` the paths that others have unlinked, and
`pinner` says which process, if one, has pinned what a path leads to with the object
it has. It is not the process that made the map: with three processes, another one may
pin through its reused descriptor what the first has made, and a failed load of the
first then rightly leaves that pin alone.

**XskSocket.** Every branch of `xsk_umem__create` and `xsk_socket__create` with its
unwinding, `xsk_setup_xdp_prog` cut where other processes come in between: asking
for the program (`GetId`), loading one, attaching it, finding its map, entering
the socket. `Unmap` is the unmapping of rings by the two deletions, which depends on
`xsk_get_mmap_offsets`: where that fails the handle is freed all the same and its rings
stay mapped, so that the kernel keeps the socket bound to its queue. `lost` counts
references and mappings that failures leave and has the queues that stay bound so,
`replaced` programs that another was attached over.

**XskRing.** Loads and stores of shared positions, and of entries, are steps of
their own; the library works with cached positions; all count modulo `W`.

**BpfLink.** A call is one action whose outcomes are the ways out of the code, with
what each leaves open: no step of another thread can come between that this
model could tell apart, since the events are the process's own.

**Multimap, Hashmap.** A bucket is a sequence of entries, growth inserts all
entries anew (recursive functions, along a chain and along the buckets); memory may
run out at an entry or at a growth. `hashmap__free` ends the table, and the next user's
`hashmap__new` begins another in the same step. `HashmapIsMultimap` maps the table to
its bag of pairs. `HashmapAssumption` gives a hash bits enough to number the buckets that
`MaxSize` entries need, as the code's 64 bits do for any table that fits into memory.

**The algorithms** are operators. `BtfDedup` keeps the passes of `btf__dedup` and
its state (`map`, the hypothetical map, the candidate lists of colliding
hashes); `BtfDump` the marking of `btf_dump_order_type`, the two ways to print a
declarator, the padding and packing; `Relocation` the collection of sections, the
relocation records and the append of `.text`; `CoreRelo` the access string, the
candidates with their cache, the match and the five values; `ProgLoad` and `ProgLinfo` are
whole functions, and a behaviour of these two is one call, since calls share nothing. A
behaviour of `Netlink` is one call too, in the steps that can fail: `OpenSocket`,
`BindSocket`, `Send`, then for every datagram `Receive`, `Read` for each of its messages
and `EndOfDatagram`, which decides whether to wait for another, and `Close`; `StepFails`
is the error of any of them. The kernel's answer is fixed by `Send`, and `Receive` is
given any number of its messages.
Each of these modules ends with the reference definition that its results are
compared with, written from what a type, a layout, an address or a line is, and
sharing no operator with the algorithm but those that say what a caller may ask (as
`Flagged`). `MCAlgorithms` grows inputs step by step,
one *topic* per algorithm; in the topics of `Hashmap`, `ProgLoad`, `ProgLinfo` and
`Netlink` their own steps are taken. What `LinesFound` assumes of the kernel is `KernelInfo`: records
in the order of their instructions, those of a function from its start on and
inside it, and functions that do not overlap. TLC checks that all inputs of the run are
such.

## Runs

`rings`, `objects` and `algorithms` check safety only and use symmetry (threads,
sockets and buffers; processes; values). The other runs check liveness, or one
invariant, and use none. Modules that share no state are checked side by side
in one run: a variable `part` (`topic` for algorithms) says which one takes the
steps. Deadlock checking is off in every configuration: each model stops when its
bounds are used up and everything is quiet.

| Run | Instance | Shows |
|---|---|---|
| `info` | registry: 2 containers, 2 PIDs, 3 changes; provider: 2 pods, 2 starts of a container; end: 2 collectors, the loops of one of which race to register, `dataCh` of 1 | `StaleNamesBeingEvicted`, `StaleNamesGoAway`; `RegistrySettles`; `EndTellsAll` |
| `collector` | biostat, 2 PIDs, 1 container, 3 configurations, channels of 1, 3 changes of configuration, 1 of the container | `ControlFollowsConf`, `ControlTracksWanted`, `WantedPidsGetRecorded` |
| `collector_containers` | tcpdrop, 1 configuration, 1 container change | violation of `FollowsContainers` |
| `bus` | 2 collectors that may fail to start, 1 write in two halves, 1 replacement | `DeliveredOrPending`, `LatestReachesCollectors` |
| `bus_panic` | 1 write | violation of `NoPanic` |
| `pipe` | 2 exporters, `dataCh` of 1, 3 events | `SentInOrder`, `WrittenAsSent`, `EveryEventSent` |
| `pipe_alias` | 1 exporter, `dataCh` of 2, 3 events | violation of `BatchesIntact` |
| `bio` | 2 requests, 2 processes, 2 I/Os, 3 elements per table, verbose 2 | `ChargedToOwner`, `CountedOnce`, `ChargesGetExported` |
| `offcpu` | offcpu: 1 thread, 2 CPUs, 2 configurations of different levels and states, 2 departures; fcount: 2 processes, in one bucket or in two, 2 calls, 2 configurations | `SleepsChargedOnce`, `SleepsGetExported`; `CallsCountedOnce`, `CallsGetExported` |
| `rings` | tcp: 2 threads, 2 sockets, 1 address pair, 2 buffers of 1 event, 3 events, 2 accepts; perf: 2 threads, 2 files, 2 CPUs, rings of 4 words, 2 operations; xsk: 3 frames, rings of 2, positions modulo 4 | `AcceptNamesItsConnection`, `ConnectionsFollowed`, `DurationsSpanOneStep`; `FilesAreReported`, `NothingLeft`, `IsChannel`; `RingIsQueue` |
| `objects` | objects: 2 processes, 2 maps (one with a pin path, one internal), 1 program, 3 opens; sockets: 2 processes, 2 queues, 2 programs, 5 creations; links: 3 descriptors | `FdsAccounted`, `PinnedIsThere`, `FailuresUndoPins`; `ResourcesAccounted`, `ReceiversAreServed`; `LinksRun` |
| `algorithms` | see below | `DedupRight`, `DumpRight`, `PointsRight`, `CoreFinds`, `NetlinkAnswers`, `LoadsAnswer`, `LinesFound`, `HashmapIsMultimap` |

What the properties say:

- `StaleNamesBeingEvicted`: the cache may name a container a PID has left, but
  only while an invalidation that covers the PID has been announced and has not
  run. `StaleNamesGoAway`: it does not stay so. The hazard is a lookup that
  re-caches the old name between two callbacks that run in the wrong order.
- `ControlFollowsConf`: the entry made for an `AddCh` message gets the level in
  force when it is handled, and the entries that are there when a configuration
  is applied are refreshed key by key before the signal loop handles anything else, so
  that an entry of an older level is one that the refresh has still to come to.
- `ControlTracksWanted`: for a PID that is not `crossed`, what is on its way
  agrees with the PIDLis, and the table agrees or is about to. It is the
  strongest statement the code supports: with `crossed` dropped it is false,
  because an add that is handled after the delete of the next configuration
  leaves the PID recorded (the TODO in `pid.go:107` says as much).
- `WantedPidsGetRecorded`: no notification is lost, however full the channels, unless
  two recorded PIDs share a bucket while the table is refreshed (`Endless`); without
  that exclusion the run finds the loop that never ends.
- `DeliveredOrPending`: when provider and callback have nothing left to do, a
  running collector has the file's content or has it, and nothing else, on its
  way, outside the three races. `LatestReachesCollectors` adds that it arrives, unless
  the collector's last `onConfigChange` has not returned (`endless`).
- `SentInOrder`: batches sent plus buffer are the events received, in order,
  although exportData waits between taking the slice and cutting it.
  `EveryEventSent`: it does not wait for ever. `WrittenAsSent`: the aliasing
  of the slice never shows a free slot or an extra point; where it does harm, the
  harm is a later event in an earlier one's place.
- `ChargedToOwner`: a latency is computed from the I/O's own issue and charged to
  the process the I/O was done for, unless the request was abandoned before.
  `CountedOnce`: what completions charge is in the table or exported, never both,
  never twice and never lost, unless an update overlaps. Without that proviso it
  is false in both directions: a completion that looked its element up before
  the exporter read and deleted it writes the old total back (`counts.update`,
  `biostat.c:130`), and one that comes between the reading and the deletion is
  lost. `ChargesGetExported`: an iteration that ends early behind a key the
  kernel has entered anew does not forget the other keys.
- `RegistrySettles`: when pods of one name come and go while the handler is behind,
  the registry ends with the processes that run, except for pods that changed between
  the list and the watch, which nothing looks at again. `EndTellsAll`: every loop
  gets its `done`, although `EndProgram` waits for one after the other and they
  wait for the mutex, for `dataCh` and for each other, unless registrations raced, or
  the collector it waits for has a loop over its table that does not end (`Hangs`;
  without it the property is violated).
- `SleepsChargedOnce`: a charge spans one departure and the next return of the
  thread it is charged to, unless the thread is `forgotten`; it is in one element,
  and never exported twice. `SleepsGetExported`: it is exported in the end. Both
  exclude `misplaced` additions, of which the code loses some.
- `CallsCountedOnce`: no call is counted twice or for another process, unless an
  increment goes to an element that was freed; and none is lost, unless an increment
  meets another or the exporter. `CallsGetExported`: what is counted is exported in
  the end, unless two PIDs share a bucket.
- `AcceptNamesItsConnection`, `ConnectionsFollowed`, `DurationsSpanOneStep`: what
  tcpreq records is right outside the histories named in the property. Each history is
  a race that the code has; dropping any of them from its property gives a
  counterexample, so the properties also say that there are no others.
- `FilesAreReported`: file_reader's events name their file unless two opens of a
  process overlap; blocks of a write come one behind the other unless a loss is
  told. `IsChannel`: records come whole, once, in order, with losses told before
  the next record, over the end of the ring and over a buffer that is given up.
  `NothingLeft`: a failed `perf_buffer__new` leaves nothing of any CPU.
- `RingIsQueue`: entries between a ring's positions are what was submitted and not
  released, whichever side is between which steps.
- `FdsAccounted`, `ResourcesAccounted`, `LinksRun`: every descriptor and mapping
  belongs to a handle, is one that the code is known to leak, or is closed, once.
  `ResourcesAccounted` counts among the leaks the rings of a deletion whose
  `getsockopt` fails.
- `PinnedIsThere`: who has loaded an object with a pin path has the map that is
  pinned there, although two processes race to create it. `FailuresUndoPins`: a
  load or a pin call that fails takes back its own pins and, for a load, no others.
- `ResourcesAccounted` also says that the reference count holds the umem while a
  socket is created and fails. `ReceiversAreServed`: a receiving socket is in the map
  of the program on the interface, unless that was attached over.
- `DedupRight`: every type stays what it was and no two that are left are the
  same, for each of the four settings of its options (hashes collide or not, forward
  declarations are resolved, which is the default, or not). Where they are resolved, no two
  structs, unions or enums are left either that differ only in what is declared and
  what is defined (`DefinedOnce`); a FWD may stay beside its struct, because
  only the comparison of two structs resolves it. Which copy is kept is not
  stated. `DumpRight`: the output compiles, binds and lays out as the types say, and names
  of types are told apart; enumerators, which are in one name space with typedefs
  (`btf_dump.c:947`), are left out of it.
  `PointsRight`: every instruction of a loaded program points to what its source
  named, in every order of the sections, but those that were copied from `.text` into a
  program in front of it and have relocations of their own: they are as they were
  compiled, and the property says so. `CoreFinds`: a relocation gets the place of the
  field, or fails when candidates disagree; candidates that an earlier relocation has
  pruned change its result only if they were ones with its field. `NetlinkAnswers`:
  an answer is understood however it is cut into datagrams, and read to its end without
  waiting for more; the error of the step that failed or of the kernel is returned, and the
  socket is closed. `LoadsAnswer`: a load
  succeeds if the kernel can do it, or tells why not, and leaves no descriptor behind,
  also where memory runs out. `LinesFound`: the last line
  at or before an instruction in its function. `HashmapIsMultimap`: growth
  and failures keep all entries, a call changes those of its own key alone, and every
  call returns what a multimap returns.

Why the bounds are enough. `info`: three changes let a PID leave a container,
move to the other and come back with both invalidations pending; a fourth
repeats this (it has been run without a difference). Two starts let a pod be replaced
by another of its name before its events are handled; two pods with three starts have
been explored in full (512,152 states). Two loops that race, two more at work and a
`dataCh` of one place make every wait of the end meet every other. `collector`: three
configurations let a PID be wanted, dropped and wanted again while the first
notification is still unsent; channels of capacity 1 are full all the time. Two PIDs are
in one bucket or in two. A third, with which some buckets are refreshed for ever while
another one waits, is beyond TLC's time; for the invariants it is covered by the
theorems.
`bus`: one write in two halves gives two events, two reads and two callbacks, so
prefixes, torn reads and overtaking occur; two writes have been run for the
invariants alone without a difference. `pipe`: the third event reuses the first
slot of an array of two that has been sent and is unread by one exporter, read
by the other. `bio`: two I/Os are two handlers of one key that overlap, or a
request that is used again; three elements are one more than the keys, so a
replaced element is soon reused; three I/Os have been explored for the invariants
in full (24 million states) without a difference.
`offcpu`: two departures make a start time that can be taken for another's;
two CPUs let a handler's update meet the exporter's and the next handler's. Two calls
of fcount overlap, in one entry or in two, and entries that share a bucket are freed
and taken over. `rings`:
a buffer of one event loses the second; records of two and three words in a ring
of four go round its end at every offset, and leave too little room; positions
modulo four pass the end of both the ring and the counter. `objects`: with two
processes every order of one's load and the other's load, pinning, unlinking and
end; the third open loads an object again over what is left. Five creations let
a umem be shared, unwound and used again while the other process attaches.
`algorithms`: types in up to two units of up to three types in all, with every
reference among them (a cycle needs two); orders of three types of every kind, and
of four of the kinds that nest or break cycles; declarators of three types; structs of
three fields, bit fields among them; names of three types used four times; an object
of `.text` and two more programs, in three orders of its sections, with up to two
elements each; two candidate structs of two fields and of one, out of eleven kinds;
three interfaces with answers in one to three datagrams; every combination of what a
kernel accepts and a load asks for; three functions placed in any order; three keys,
two of which collide, while a table of four buckets grows. Two candidates do not show
that `bpf_core_find_cands` gives `realloc` the number of candidates and not their bytes
(`libbpf.c:2747`), which only more of them than an allocation has room for would.

## Fairness

Each module states the fairness its goroutines have, and none for users, the
API server or the kernel. That of a signal loop holds for as long as the loop is in its
select: in a refresh that does not end it is fair to go on refreshing, and nothing more
(`Collector!Refresh`, `ConfigBus`'s `endless`, `Shutdown`'s `"endless"`). The liveness
properties of `EventPipe`, `BioTrace` and `OffcpuTrace` are about export loops that get
the mutex, so about collectors that no such refresh holds up. Weak fairness for a goroutine that can go on (the Go
scheduler runs every runnable goroutine) and for a case of a select that stays
ready (select picks among the ready cases at random). Strong fairness only for
goroutines that wait to send on a full channel: Go queues the waiting senders,
so one that waits is served after those before it (`Collector`: notifiers;
`ConfigBus`: senders). exportData's send has weak fairness, since it is the only
one on `dataCh` in `EventPipe`. `BioTrace` assumes that the export loop comes
round and gets on, and nothing of the kernel. `OffcpuTrace` assumes the same of its
export loop and, of the kernel, that a BPF program that was entered runs to its
end, which the verifier guarantees. `Fcount` assumes of the export loop only that it comes
round and gets on. `Shutdown` has strong fairness where a goroutine waits for
something that comes again and again: a place in `dataCh`, the mutex (Go hands it
over in order when a goroutine starves), and `done` in a signal loop that always
finds something else ready as well. Runs of two modules state the fairness of each for
the part it takes. The modules of libbpf state no fairness: their
properties are about what is there when a call returns or fails.

## Proofs

`tlapm` proves, for every value of the constants that satisfies the named
assumptions (any PIDs, containers, configurations, capacities and bounds):

- `ContainerInfoProofs!TypeCorrect`, `StaleNamesAreAnnounced`
  (`Spec => []StaleNamesBeingEvicted`). The invariant is inductive together with
  the type invariant: a change of the registry announces exactly the PIDs it
  takes away, an invalidation clears the PIDs it covers, and a lookup caches a
  name that is right at that moment.
- `ContainerInfoProofs!RegistryComesRight`: `PSpec => []RegistrySettles`, for any pods
  and any number of container starts. The invariant `PInv` says of each pod that was
  not missed that its entry is up to date or something is still to come for it, from the
  list, the queue or the handler (`Entered`); and that what comes is right, because the
  last event of a pod in the queue, or the one being handled when none follows, agrees
  with what the API server knows (`LastTells`, `HandledKnown`, `ListedKnown`).
- `CollectorProofs!TypeCorrect`: types, channels within their capacity, and that
  configurations waiting in `ConfCh` still have a notifier left for them, which
  is what keeps `notifiers` within its domain.
- `CollectorProofs!EntriesFollowConf`: for a `Kind` other than offcpu and fcount (whose
  entries have no level), `Spec => []ControlFollowsConf`, with the refresh in its steps, any
  number of PIDs and any buckets, also those with which it does not end. Inductive together
  with `TypeOK`: what the iterator has passed has the new level, and what it has not is
  still `Behind` it.
- `CollectorProofs!TableTracksPIDLis`: `Spec => []ControlTracksWanted`. The
  invariant is inductive together with `TypeOK` once it is stated per PID: what
  is pending for a PID that is not crossed agrees with what is wanted, so
  handling it moves the table the right way, and a new configuration either
  meets nothing contradictory or marks the PID. The lemmas about channels say
  which PIDs are in a sequence after `Append` and `Tail`; the lemmas about
  actions say what is pending after each, so the case split of the theorem has
  one short step per action.
- `BioTraceProofs!ChargesBelong`: `Spec => []ChargedToOwner`. The invariant adds
  what the entries of a request mean: on a request that was not abandoned,
  `whobyreq` and `start` hold its own I/O's process and issue or nothing, and
  they stay as long as its handler runs; elements are never shared between keys;
  an I/O in a table has started, so its process is settled. An update that does
  not overlap another then adds the right charge to its own process's element
  and to no other, although a map update may give the process any free element.
- `BioTraceProofs!ChargesCounted`: `Spec => []CountedOnce`. A second invariant, `CInv`,
  rests on the first: a request that has yet to come to a table carries an I/O that was
  not charged there (`OneIOs`); what was charged is exported or in one process's element,
  and both only between the exporter's read of the key and its deletion (`Counted`).
- `ConfigBusProofs!BusTypes`, `Delivered` (`Spec => []DeliveredOrPending`), for any
  collectors and any number of writes and replacements of the file. A configuration is
  followed on its way: the provider has the file's content or an event to take
  (`Known`), and once no callback is to come, a collector that nothing overtakes works
  with the configuration in force or has that one alone on its way (`Tells`). The type
  invariant needs that every callback goes back to a write of the file (`Counts`), the
  start that nothing moves before the callback is registered (`NotRunning`).
- `TableProofs!OffcpuTypes`, `SleepsOnce` (`Spec => []SleepsChargedOnce`), for any
  threads and CPUs. A sleep could be charged twice if a start time were still there
  when its thread is back once more, or if a handler carried what is in the table
  already. So the invariant says what start times mean (`Times`), what the handlers carry
  (`Carried`), that a thread being switched out is on one CPU (`Threads`), and, unless an
  addition went nowhere, that charges are right and in one place (`Once`).
- `TableProofs!CallsOnce`: `FSpec => []CallsCountedOnce`, for any calls, processes,
  buckets and seeds of the hash. As long as no store went to a freed element, a counter,
  and what a handler has loaded of it, holds its own process's calls that came to their
  store, and none that waits to be exported and is in a point already (`NotTwice`);
  as long as no increment met another one or the exporter, what is due is in a point
  or in its entry, yet to be read (`NotLost`).
- `EventPipeProofs!SentInOrderHolds`, `WrittenAsSentHolds`: `Spec => []SentInOrder`
  and `Spec => []WrittenAsSent`, for any number of events and exporters and any
  capacity of `dataCh`. What is written depends on what the arrays hold while it is
  read, so one invariant carries both: every message, export and batch written names a
  batch that was sent (`Reads`, `Wrote`), and each of its slots that was read, or is
  still to be read, has the event that was sent there or, if a slot of the batch was
  used again, a later one (`Stands`; it is later because nothing was sent that had
  not been received, `SentReceived`). `BufferEvent` has a lemma for each of its two
  cases, a free slot behind the slice and an array that `append` allocates; both go
  through `ReadersStay`, which says that readers stay right when slots keep their
  events or their readers are marked.
- `RingProofs!TcpTypes`, `AcceptNamed`, `ConnectionFollowed`, `DurationsRight`
  (`TSpec => []AcceptNamesItsConnection`, `[]ConnectionsFollowed`,
  `DurationsSpanOneStep`), for any threads, sockets, connections, address pairs and
  CPUs. `TInv` is about the probes: without a mix-up one accept is under way and the slot
  of `ptr_map` is its own (`Unmixed`); a handler is in an open connection, and the one that
  closes it is alone (`OpenHandled`); the entry of a pair with one handler at a time is the
  last state that was sent, or its handler is about to send (`Entry`). `DInv` is about
  the events: an event is in one buffer, the number before it is that of its pair's
  event before it, and that event was lost, is in a buffer, or is the last of the pair
  the machine has (`Apart`, `Numbers`, `InOrder`). The action property follows from it.
- `RingProofs!NothingStays`: `Spec => []NothingLeft`, for any number of CPUs. The CPUs
  before the place of `perf_buffer__new`'s loop have all they need, those behind it
  nothing, and the one at it what the steps so far have made, in their order; of
  `perf_buffer__free`'s loop the other way round, which stops early only where no CPU
  behind has a buffer (`InStages`).
- `RingProofs!FileReaderTypes`, `RecordsComeWhole` (`Spec => IsChannel`: `FileReader` with
  its perf buffer implements `PerfChannel`), `FilesReported`
  (`Spec => []FilesAreReported`), for any CPUs, threads, files and rings of any size. A
  ring is right if its words from the reader's place to the head are whole records
  (`RingRight`): the places where records start cut it up. `PutAtHead` says that what
  the kernel writes at the head, round the end of the ring or not, leaves the words before
  it alone, `ReadsAsPut` that the reader puts the words together as they were. `InFlight`
  follows a ring by a recursive function; that there is one such function, and what it
  gives, is an induction over how far the reader has to go, which the provers do with
  `Least`: of the numbers with a property one is the least. `Shut` is what makes
  opening right: nothing is put in a ring that is not up. `FilesReported` needs
  more than what was read: `ReportInv` speaks of all records of a CPU, read or still in
  the ring, so that reading leaves it alone; of the last record and the write in
  progress, if that goes on from it (`Continues`); and of opens that do not
  overlap, of which one task at most holds the file (`OpensApart`). The proofs assume
  that the marks for an empty word and for no file are no words and no files
  (`NothingAssumption`). TLC checked both invariants on 56246 states before they were
  proved.
- `RingProofs!RingsAreQueues`: `RSpec => []RingIsQueue`, for rings of any size and
  positions modulo any multiple of it. A ring's shared positions are as far apart as
  there are entries in it, and the library's copies never show more room, or more
  entries, than there is with what the call in progress holds (`RingOK`, `Calls`). The
  lemmas from `Division` to `SlotsDiffer` are the arithmetic: positions less than `Size`
  apart have different slots, and a difference survives the remainder.
- `ObjectProofs!LinksAlwaysRun`: `LSpec => []LinksRun`, for any number of
  descriptors. Inductive with the type invariant and one more conjunct, that an
  event of the caller is none of libbpf's (`OwnEvents`): it is what keeps
  `bpf_link__destroy` and `CloseOwn` from closing each other's. There is one lemma
  for every kind of step; the lemma `Attempts` says what an attempt to set the
  program leaves of an event.
- `ObjectProofs!SocketTypes`, `ResourcesKept` (`XSpec => []ResourcesAccounted`),
  `ReceiversServed` (`XSpec => []ReceiversAreServed`), for any processes, queues and
  programs. What a process has is the sum of what its umem and its two sockets say
  (`Counts`), where a socket in creation says what its next step presumes (`Fits`). A
  deletion has two cases, `Unmap`'s: what the failing one leaves is counted in `lost`.
  A receiving socket stays in its map because the kernel's bind gives a queue to one
  process (`Queued`), and its program stays on the interface unless it is attached over
  (`OnInterface`).
- `ObjectProofs!ObjectTypes`, `DescriptorsAccounted` (`Spec => []FdsAccounted`),
  `PinsThere` (`Spec => []PinnedIsThere`), `FailuresUndone`
  (`Spec => FailuresUndoPins`), for any processes, maps and programs. `OInv` says of each
  process where its call is in its object and which maps and programs are there then
  (`ObjOK`), that its descriptors are those of its object and the lost ones (`FdsOf`),
  that a map which counts as pinned is at its path unless that was unlinked by another
  (`PinnedOf`), and that the pins of a load are of maps its unwinding has still to come to
  (`PinsOf`). A step can disturb another process's part through the BPF file
  system alone (`PinsKeep`), so each step is about the process that takes it (`OwnStep`).
  Descriptors are counted by cardinality; the lemmas from `MapHeld` to `ClosedOnes` say how
  the count changes. TLC checked `OInv` for two and for three processes before it was
  proved.
- `ObjectProofs!TableIsMultimap`: `HSpec => HashmapIsMultimap`, for any keys, values and
  hashes. The invariant `HInv` (`MapOK`) is the table's shape (what `HTypeOK` says), that every
  entry is in the bucket its key has in a table of this size (`InPlace`), and that `sz` is
  the number of entries. It is what makes a search of one bucket a search of the table
  (`Reached`, `PairsCounted`) and it is what growth must restore, which the lemmas from
  `ChainKept` to `Grows` show by induction along a chain and along the buckets: after each
  entry moved, the new buckets hold those moved so far, each as often as before and in
  place. `UpTo` is the induction over `0..n`, and `Recursion` says that the functions
  defined along it exist; an entry put into a bucket or taken out of it changes one count
  by one, by a bijection (`OneMore`). `MayGrow` is where the assumption on
  the hash's bits is needed. TLC checked `HInv` on the run's instance before it was proved.
- `ObjectProofs!LoadingAnswers`: `LoadSpec => []LoadsAnswer`, for any kernel (what it
  refuses, accepts, knows of records and takes for a log, so long as no errno is named like
  success), any program and any number of doublings. A call answers with a verdict if its records
  fit, and otherwise asks to correct records of one kind (`OneCall`); a corrected call is
  the same call with fewer records to complain of (`CorrectedCall`), so that after at
  most two corrections there is a verdict (`CorrectedTwice`, `OneLoad`). The doubled sizes
  ascend (`SizesGrow`), hence the first attempt that is not refused for want of room has
  a log that the kernel takes, if any has.
- `ObjectProofs!LinesAreFound`: `LinfoSpec => []LinesFound`, for any program with
  `KernelInfo`. The invariant of the dissection (`DissectedTo`) says that behind
  record `i` the functions found so far are the ones that start up to it, each with its
  first record and its number of records; `DissectSteps` is the step, `Dissects` the induction. It
  gives the records of a function (`Owned`), among which the walk finds the nearest one
  (`WalkFinds`, by `LeastOf`).
- `ObjectProofs!LinksAreAnswered`: `NlSpec => []NetlinkAnswers`, for any number of
  interfaces with any programs, any flags, any error of the kernel and an answer cut
  anywhere. `NlInv` says how far the answer is read (`NlReading`: behind a datagram that
  was not the last a multipart message has been seen, so the call waits for the next one
  exactly when there is one), that what was collected is what the messages read so far say of the
  interface (`NlAnswered`, `Collected`), and what is open and returned (`NlTold`).
  `XdpParsed` shows that the attributes are found in whatever order the kernel puts them,
  `IdFound` that the id made of them is the right program's. TLC checked `NlInv` on the
  run's instance before it was proved.

Only model-checked: every liveness property (the prover does not handle liveness under
fairness); the type invariants of `Fcount` and `BioTrace` (the proofs above need and
prove the types of what they speak of); and the other algorithms. `BtfDedup`, `BtfDump` and
`CoreRelo` follow types recursively, with `RECURSIVE` operators, which the prover cannot
use; the results of `Relocation` are folds, which it could only unfold for inputs of known
length.
The assumptions of the modules are evaluated by TLC in the runs.

## <a name="divergences"></a>What the code does that its documents do not say

The violation runs, each with a finding in `PROJECT.json` that quotes the text:

- Container changes never reach the control tables (`pid.go:33` ranges over a
  configuration that is always empty): `collector_containers`.
- After a collector failed to start, the next change ends the program
  (`collector.go:154`): `bus_panic`.
- A batch is overwritten while exporters read it (`tcpreq.go:207`): `pipe_alias`.

Others are excluded by name in the passing properties, or by the inputs:

- Kmon: a PID that is looked up before its container is registered stays without a
  container for ever (`getter.go:74` caches the empty name, `getter.go:25` forgets
  only PIDs a container *had*; `StaleNamesGoAway` is about wrong names). offcpu
  records new PIDs at the first configuration's level (`offcpu.go:98`, the case's
  `conf` shadows the function's; `EntriesFollowConf` is for the other kinds). Two
  configuration changes can overtake each other (`overtaken`, `collector.go:153`). A
  configuration file that is replaced is not read (`unseen`, `config.go:34`), although
  the README asks the user to replace it. A change during `Setup` (`missed`,
  `collector.go:146`), pods that change between the list and the watch, or whose list
  failed (`missed`, `container.go:147`), contradictory notifications about one PID
  (`crossed`, `pid.go:109`), abandoned requests (`leftover`, `biostat.c:103`),
  overlapping updates (`overlap`, `biostat.c:130`), start times that survive a removal
  (`forgotten`, `offcpu.c:69`), increments that meet one another, an export or an
  element that was freed (`overlap`, `astray`, `fcount.c:21`), registrations that race
  (`raced`, `info.go:52`), overlapping accepts and opens (`mixed`, `tcpreq.c:110`,
  `file_reader.c:137`), two handlers in one entry (`raced`, `tcpreq.c:88`).
- A collector's refresh: two recorded PIDs in one bucket of the control table make
  `onConfigChange` go from one to the other for ever, with the mutex held and the signal
  loop in it (`biostat.go:321`, `offcpu.go:284`, `tcpreq.go:232`, `tcpdrop.go:317`): PIDs
  of later buckets keep the old settings (`ControlFollowsConf` names them), no further
  configuration or notification is taken (`Endless`, `endless`), and Kmon does not
  end (`Hangs`).
- fcount: two recorded PIDs in one bucket of the table make exportData go from one
  to the other for ever, with the mutex held, because each `SetP` puts its key in
  front (`SharedBucket`, `fcount.go:176`); without that exclusion
  `CallsGetExported` is violated. After a change of `function` the probes stay on the
  old one (`fcount.go:101`), and its calls are exported under the new one's name
  (`fcount.go:156`), although the README says that the configuration can be changed
  while Kmon runs. A change of the configuration sets all counters to zero, exported or
  not (`fcount.go:71`).
- Objects: `bpf_object__reuse_map` does not close the descriptor of the pin when it
  has copied it (`libbpf.c:2288`, `leaked`). The rollback of
  `bpf_object__pin_maps` (`libbpf.c:4517`) also unpins maps that were pinned or
  reused before the call, and `bpf_map__pin` keeps the path of a failed pin.
- Perf buffers: `perf_buffer__new` accepts no pages at all;
  `perf_buffer__free` deletes map entries that another buffer has overwritten.
  file_reader reports opens that failed, with descriptor -1.
- AF_XDP: when the second `mmap` of `xsk_umem__create` fails the first ring stays
  mapped (`lost`); when `socket` fails for a shared umem the reference count stays
  raised (`xsk.c:610`, `lost`); `xsk_umem__delete` and `xsk_socket__delete` free their
  handle and leave its rings mapped when `getsockopt` fails (`xsk.c:749`, `xsk.c:777`,
  `lost`); the program is never detached; two creators
  without `XDP_FLAGS_UPDATE_IF_NOEXIST` replace each other's program (`replaced`).
- Links: `parse_uint_from_file` may take a negative number for the type of an
  event, which then is a hardware event; an attachment that fails when it enables
  the caller's own event leaves the program set on it.
- Relocation: `.text` is copied into a caller before its own relocations are done
  when the caller's section comes first (`libbpf.c:3667`; `LateText`).
- Types in C: packed structs with bit fields across a boundary are not dumped as
  packed; the anonymous enum that a function type returns is emitted twice
  (`mark_referenced` leaves the return type out; `Complete`); a name that was made
  unique as `x___2` may be one that a type has, or an enumerator.
- CO-RE: the comment says that enums are assumed unsigned, the value for
  `SIGNED` is 1; an earlier relocation may prune the candidates that a later one
  needs (the condition in `CoreFinds`).
- Hash table: `hashmap.h:77` says that the last inserted of equal keys is found; growth
  reverses them. `hashmap__clear` frees the buckets and no entries, and leaves `buckets`
  pointing at what it freed; only `hashmap__free` calls it.
- Netlink: `get_xdp_id` ignores the mode asked for when there is one program; a
  datagram above 4096 bytes is cut silently; two dumps in one second share their
  sequence number.
- Loading: with a log level and no log buffer the text of an uninitialised buffer
  decides what the error is called (`junk` in `ProgLoad`); the
  doubled log buffer exceeds what the kernel accepts. Without memory for the log the
  warning says "continue without log" (`libbpf.c:3762`), but `bpf_load_program_xattr`
  refuses a log size without a buffer, so that the load fails.

## Plan

What is left, in this order; each module with its instance, its properties and,
where marked (P), proofs.

1. Proofs of the type invariants of `Fcount` and `BioTrace`, and of `PointsRight`, which
   needs the folds of `Relocation` written as recursive functions as `ProgLinfo`'s are (P).
2. `PidMonitor`: what a PIDLis with its collector promises (a set of recorded
   PIDs that follows the wanted set), `Collector` refining it outside `crossed`.
3. `KmonUtils`, `Layout`: pure functions (`Ksym`'s search, the address
   conversions, `flag2str`, struct layouts of Go against C) against reference
   definitions.
4. `EventPipe` with the points' fields and two exporters that delete from one
   map. In libbpf: Kconfig externs, map-in-map, feature probes.

## <a name="not-modelled"></a>What is not modelled

YAML decoding, compiling BPF, reading cgroup files, the InfluxDB client and logging
are I/O or third-party; where their outcome matters it is a nondeterministic choice
(`ReadOutcomes`, `MayFail`, the two outcomes of `ExportWrite`). The elasticsearch
exporter and the packages under `src/src/deprecated/` are not reached by the program.
tcpdrop's decoding and the shared helpers are in the plan.

Of libbpf: reading ELF and BTF from files and the accessors over them are
sequential decoding; `bpf_helper_defs.h` and the headers under `include/` are
declarations, and a good part of the line count; the wrappers of single system
calls in `bpf.c` and the feature probes have no state; struct_ops, map-in-map,
programs of several instances and Kconfig externs are options that file_reader
does not use; dumps of classes, qdiscs and filters follow the path of the dump of
links. Endianness is little; a failing `close` or `munmap` is not modelled, since no
caller looks at it (a failing `getsockopt`, on which unmapping depends, is). The names of
enumerators are left out of `BtfDump`, and `CoreRelo` takes the list of candidates as
one that has room. `PROJECT.json` gives the status of every component.
