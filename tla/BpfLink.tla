------------------------------ MODULE BpfLink ------------------------------
(***************************************************************************)
(* Attaching a loaded program to an event (bpf_program__attach_... and     *)
(* bpf_link__destroy of libbpf.c): a perf event of the caller, a kprobe,   *)
(* an uprobe, a tracepoint, a raw tracepoint.  Every step of a call may    *)
(* fail.  A descriptor number is free again once it is closed.             *)
(***************************************************************************)
EXTENDS Integers, FiniteSets

CONSTANTS MaxFds   \* bound on the open descriptors

ASSUME BpfLinkAssumption == MaxFds \in Nat \ {0}

Fds == 1 .. MaxFds
Probes == {"kprobe", "uprobe", "tracepoint"}
RawTargets == {"raw_tracepoint", "trace"}

NoEvent == [kind |-> "none", prog |-> FALSE, on |-> FALSE]

\* an event as it is opened, and one with the program set, and enabled
OpenedEvent(kind) == [kind |-> kind, prog |-> FALSE, on |-> FALSE]
RunningEvent(kind) == [kind |-> kind, prog |-> TRUE, on |-> TRUE]

VARIABLES
  loaded,  \* the program has a descriptor
  event,   \* per descriptor: what it is of, whether the program is set, whether it is enabled
  own,     \* descriptors that the caller has to close
  link     \* the links: descriptor -> what was asked for, for those that are links

lvars == <<loaded, event, own, link>>

LInit ==
  /\ loaded = FALSE
  /\ event = [f \in Fds |-> NoEvent]
  /\ own = {}
  /\ link = [f \in {} |-> "none"]

LTypeOK ==
  /\ loaded \in BOOLEAN
  /\ event \in [Fds -> [kind : Probes \cup RawTargets \cup {"none", "perf", "hardware"},
                        prog : BOOLEAN, on : BOOLEAN]]
  /\ own \subseteq Fds /\ DOMAIN link \subseteq Fds

FreeFds == {f \in Fds : event[f].kind = "none"}

Load == ~loaded /\ loaded' = TRUE /\ UNCHANGED <<event, own, link>>
Unload == loaded /\ loaded' = FALSE /\ UNCHANGED <<event, own, link>>

\* the caller's perf_event_open
OpenOwn ==
  /\ \E f \in FreeFds :
       /\ event' = [event EXCEPT ![f] = OpenedEvent("perf")]
       /\ own' = own \cup {f}
  /\ UNCHANGED <<loaded, link>>

CloseOwn(f) ==
  /\ f \in own
  /\ event' = [event EXCEPT ![f] = NoEvent]
  /\ own' = own \ {f}
  /\ UNCHANGED <<loaded, link>>

\* perf_event_open_probe, perf_event_open_tracepoint: what a descriptor is
\* opened of.  When a file of the kernel does not have the expected form the
\* error is -errno, which may be 0, and that is the type of hardware events.
EventOf(kind) == {kind, "hardware"}

\* how bpf_program__attach_perf_event may end on event e: before the program
\* is set, before the event is enabled, or well; the kernel sets a program
\* only on an event of its kind
AttachOutcomes(e) ==
  {[e |-> e, ok |-> FALSE]}
  \cup IF ~loaded \/ e.kind = "hardware" THEN {}
       ELSE {[e |-> [kind |-> e.kind, prog |-> TRUE, on |-> e.on], ok |-> FALSE],
             [e |-> RunningEvent(e.kind), ok |-> TRUE]}

LinkedTo(f, kind) == [g \in DOMAIN link \cup {f} |-> IF g = f THEN kind ELSE link[g]]

bpf_program__attach_perf_event(f) ==
  /\ f \in own
  /\ \E o \in AttachOutcomes(event[f]) :
       /\ event' = [event EXCEPT ![f] = o.e]
       /\ own' = IF o.ok THEN own \ {f} ELSE own
       /\ link' = IF o.ok THEN LinkedTo(f, "perf") ELSE link
  /\ UNCHANGED loaded

\* the event of an attempt that failed stays open
LeftOpen(e) == e

\* it is closed, and the program with it
EventClosed(e) == NoEvent

\* bpf_program__attach_kprobe, _uprobe, _tracepoint
attach_probe(kind) ==
  /\ \E f \in FreeFds, opened \in EventOf(kind) :
       \E o \in AttachOutcomes(OpenedEvent(opened)) :
         /\ event' = [event EXCEPT ![f] = IF o.ok THEN o.e ELSE EventClosed(o.e)]
         /\ link' = IF o.ok THEN LinkedTo(f, kind) ELSE link
  /\ UNCHANGED <<loaded, own>>

\* bpf_program__attach_raw_tracepoint, _trace: one call of the kernel opens,
\* sets and enables
attach_raw(kind) ==
  /\ loaded
  /\ \E f \in FreeFds :
       /\ event' = [event EXCEPT ![f] = RunningEvent(kind)]
       /\ link' = LinkedTo(f, kind)
  /\ UNCHANGED <<loaded, own>>

\* bpf_link__destroy: the event is closed even when it cannot be disabled
bpf_link__destroy(f) ==
  /\ f \in DOMAIN link
  /\ event' = [event EXCEPT ![f] = NoEvent]
  /\ link' = [g \in DOMAIN link \ {f} |-> link[g]]
  /\ UNCHANGED <<loaded, own>>

LNext ==
  \/ Load \/ Unload \/ OpenOwn
  \/ \E f \in Fds : CloseOwn(f) \/ bpf_program__attach_perf_event(f) \/ bpf_link__destroy(f)
  \/ \E kind \in Probes : attach_probe(kind)
  \/ \E kind \in RawTargets : attach_raw(kind)

LSpec == LInit /\ [][LNext]_lvars

(* bpf_program__attach_perf_event, _kprobe, _uprobe, _tracepoint,          *)
(* _raw_tracepoint, _trace, bpf_link__destroy: whichever step of a call    *)
(* fails, each open event belongs either to one link or to the caller, and *)
(* a link is always of an enabled event of the kind that was asked for,    *)
(* with the program set.                                                   *)
LinksRun ==
  /\ {f \in Fds : event[f].kind # "none"} = own \cup DOMAIN link
  /\ own \cap DOMAIN link = {}
  /\ \A f \in DOMAIN link : event[f] = RunningEvent(link[f])
=============================================================================
