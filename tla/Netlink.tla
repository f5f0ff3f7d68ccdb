------------------------------ MODULE Netlink ------------------------------
(***************************************************************************)
(* How libbpf asks the kernel about the XDP programs of an interface and   *)
(* sets them (netlink.c, nlattr.c): a request is sent on a netlink socket, *)
(* the answer comes as messages in any number of datagrams.                *)
(*                                                                         *)
(* A message is [type, multi, pid, seq, err, link]; a link is the sequence *)
(* of its attributes, [type, val], behind its ifindex.  Errors and what    *)
(* calls return are names; "ok" is the 0 of success.                       *)
(***************************************************************************)
EXTENDS Integers, Sequences, FiniteSets

CONSTANTS
  Links, \* what interfaces there may be: for each its programs
  Ifindexes, \* and which are asked for
  FlagSets, Errors, \* flags of callers, errors of the kernel
  Port, Now \* of the socket, by the clock

VARIABLES
  nl, \* the call: what was asked, where it is, what it has collected, what it returns
  nlsock, \* its socket, and the answer: read up to at, the datagram being read ends at end
  net \* the interfaces and the error when the kernel answered; whether a step failed

Modes == {"SKB", "DRV", "HW"}
XdpFlags == Modes \cup {"UPDATE_IF_NOEXIST"}

Several(S) == \E a, b \in S : a # b

AnyLinks == Seq([Modes -> Nat])

ASSUME NetlinkAssumption ==
  /\ Links \subseteq AnyLinks /\ Ifindexes \subseteq Nat \ {0}
  /\ Errors \subseteq STRING \ {"none"} /\ Port \in Nat /\ Now \in Nat

-----------------------------------------------------------------------------
(* The kernel (net/core/rtnetlink.c).  progs[m] is the program of an       *)
(* interface in mode m, or 0.                                              *)

AttachedModes(progs) == {m \in DOMAIN progs : progs[m] # 0}

AttachMode(progs) ==
  IF AttachedModes(progs) = {} THEN "NONE"
  ELSE IF Several(AttachedModes(progs)) THEN "MULTI" ELSE CHOOSE m \in AttachedModes(progs) : TRUE

\* rtnl_xdp_fill: which attributes there are, in some order
ProgId == [SKB |-> "SKB_PROG_ID", DRV |-> "DRV_PROG_ID", HW |-> "HW_PROG_ID"]
XdpTypes(progs) ==
  {ProgId[m] : m \in AttachedModes(progs)} \cup {"ATTACHED"}
  \cup IF AttachMode(progs) \in Modes THEN {"PROG_ID"} ELSE {}
XdpValue(progs, t) ==
  IF t = "ATTACHED" THEN AttachMode(progs)
  ELSE IF t = "PROG_ID" THEN progs[AttachMode(progs)]
  ELSE progs[CHOOSE m \in Modes : ProgId[m] = t]
XdpAttrs(progs) ==
  LET types == XdpTypes(progs)
      order == CHOOSE o \in [1 .. Cardinality(types) -> types] :
                 \A t \in types : \E n \in DOMAIN o : \A k \in DOMAIN o : o[k] = t <=> k = n
  IN  [n \in DOMAIN order |-> [type |-> order[n], val |-> XdpValue(progs, order[n])]]

LinkOf(ifindex, progs) ==
  [ifindex |-> ifindex,
   attrs |-> <<[type |-> "IFNAME", val |-> <<>>], [type |-> "XDP", val |-> XdpAttrs(progs)],
               [type |-> "NEWER", val |-> <<>>]>>]

NoLink == [ifindex |-> 0, attrs |-> <<>>]

Msg(type, multi, seq, err, link) ==
  [type |-> type, multi |-> multi, pid |-> Port, seq |-> seq, err |-> err, link |-> link]

\* the answer to a request of links, or to one that sets a program
DumpMsgs(links, seq, err) ==
  IF err # "ok" THEN <<Msg("ERROR", FALSE, seq, err, NoLink)>>
  ELSE [i \in 1 .. Len(links) + 1 |-> IF i <= Len(links) THEN Msg("NEWLINK", TRUE, seq, "ok", LinkOf(i, links[i]))
                                      ELSE Msg("DONE", TRUE, seq, "ok", NoLink)]
AckMsgs(seq, err) == <<Msg("ERROR", FALSE, seq, err, NoLink)>>

-----------------------------------------------------------------------------
(* Attributes                                                              *)

\* libbpf_nla_parse: the last attribute of every known type
libbpf_nla_parse(attrs, known) ==
  LET types == {attrs[n].type : n \in DOMAIN attrs} \cap known
  IN  [t \in types |-> attrs[CHOOSE n \in DOMAIN attrs :
         attrs[n].type = t /\ \A o \in DOMAIN attrs : attrs[o].type = t => o <= n].val]

KnownLink == {"IFNAME", "XDP"}
KnownXdp == {"ATTACHED", "PROG_ID", "SKB_PROG_ID", "DRV_PROG_ID", "HW_PROG_ID"}

NoXdp == [attach_mode |-> "NONE", prog_id |-> 0, SKB |-> 0, DRV |-> 0, HW |-> 0]

\* what the nested attributes add to info
XdpInfo(info, tb) ==
  LET at(t, old) == IF t \in DOMAIN tb THEN tb[t] ELSE old
      mode == [info EXCEPT !.attach_mode = tb["ATTACHED"]]
  IN  IF "ATTACHED" \notin DOMAIN tb THEN info
      ELSE IF tb["ATTACHED"] = "NONE" THEN mode
      ELSE [mode EXCEPT !.prog_id = at("PROG_ID", @), !.SKB = at("SKB_PROG_ID", @),
                        !.DRV = at("DRV_PROG_ID", @), !.HW = at("HW_PROG_ID", @)]

\* __dump_link_nlmsg and get_xdp_info: what info is after a link's message
get_xdp_info(info, ifindex, link) ==
  LET tb == libbpf_nla_parse(link.attrs, KnownLink)
  IN  IF ifindex \notin {0, link.ifindex} \/ "XDP" \notin DOMAIN tb THEN info
      ELSE XdpInfo(info, libbpf_nla_parse(tb["XDP"], KnownXdp))

-----------------------------------------------------------------------------
(* Calls                                                                   *)

NlIdle == [pc |-> "idle", fn |-> "none", ifindex |-> 0, flags |-> {}, seq |-> 0,
         multi |-> TRUE, info |-> NoXdp, ret |-> "none", id |-> -1]

NlInit ==
  /\ nl = NlIdle
  /\ nlsock = [open |-> FALSE, answer |-> <<>>, at |-> 0, end |-> 0]
  /\ net = [links |-> <<>>, err |-> "ok", failed |-> FALSE]

\* flags that bpf_get_link_xdp_info takes: known ones, with one mode at most
Flagged(flags) == flags \subseteq XdpFlags /\ ~Several(flags \cap Modes)

\* bpf_get_link_xdp_id, with bpf_get_link_xdp_info and libbpf_nl_get_link;
\* bpf_set_link_xdp_fd
bpf_get_link_xdp_id(ifindex, flags) ==
  /\ nl.pc = "idle"
  /\ nl' = [nl EXCEPT !.pc = IF Flagged(flags) THEN "open" ELSE "done",
                      !.ret = IF Flagged(flags) THEN @ ELSE "EINVAL",
                      !.fn = "get_xdp_info", !.ifindex = ifindex, !.flags = flags, !.seq = Now]
  /\ UNCHANGED <<nlsock, net>>

bpf_set_link_xdp_fd ==
  /\ nl.pc = "idle"
  /\ nl' = [nl EXCEPT !.pc = "open", !.seq = 1]
  /\ UNCHANGED <<nlsock, net>>

\* a step of the call fails, which "errno" tells: the socket is closed, if
\* there is one
StepFails ==
  /\ nl.pc \in {"open", "bind", "send", "receive"}
  /\ nl' = [nl EXCEPT !.pc = IF nl.pc = "open" THEN "done" ELSE "close", !.ret = "errno"]
  /\ net' = [net EXCEPT !.failed = TRUE]
  /\ UNCHANGED nlsock

\* libbpf_netlink_open: socket; bind and getsockname
OpenSocket ==
  /\ nl.pc = "open"
  /\ nl' = [nl EXCEPT !.pc = "bind"] /\ nlsock' = [nlsock EXCEPT !.open = TRUE]
  /\ UNCHANGED net

BindSocket == nl.pc = "bind" /\ nl' = [nl EXCEPT !.pc = "send"] /\ UNCHANGED <<nlsock, net>>

\* the request, and what the kernel makes of it
Send(links, err) ==
  /\ nl.pc = "send"
  /\ nl' = [nl EXCEPT !.pc = "receive"]
  /\ nlsock' = [nlsock EXCEPT !.answer = IF nl.fn = "none" THEN AckMsgs(nl.seq, err) ELSE DumpMsgs(links, nl.seq, err)]
  /\ net' = [net EXCEPT !.links = links, !.err = err]

-----------------------------------------------------------------------------
(* bpf_netlink_recv                                                        *)

\* the next datagram, which ends somewhere in the answer
Receive(end) ==
  /\ nl.pc = "receive"
  /\ nl' = [nl EXCEPT !.pc = "read", !.multi = FALSE] /\ nlsock' = [nlsock EXCEPT !.end = end]
  /\ UNCHANGED net

\* the loop ends with the datagram
MoreNever(multi) == FALSE

\* another datagram follows one with a multipart message
MoreComes(multi) == multi

Returns(call, ret) == [call EXCEPT !.pc = "close", !.ret = ret]

\* what a message does to the call
Message(call, m) ==
  LET c == [call EXCEPT !.multi = @ \/ m.multi]
  IN  IF m.pid # Port THEN Returns(call, "WRNGPID")
      ELSE IF m.seq # call.seq THEN Returns(call, "INVSEQ")
      ELSE IF m.type = "ERROR" THEN (IF m.err = "ok" THEN c ELSE Returns(c, m.err))
      ELSE IF m.type = "DONE" THEN Returns(c, "ok")
      ELSE IF call.fn = "none" THEN c
      ELSE [c EXCEPT !.info = get_xdp_info(@, call.ifindex, m.link)]

Read ==
  /\ nl.pc = "read" /\ nlsock.at < nlsock.end
  /\ nl' = Message(nl, nlsock.answer[nlsock.at + 1]) /\ nlsock' = [nlsock EXCEPT !.at = @ + 1]
  /\ UNCHANGED net

EndOfDatagram ==
  /\ nl.pc = "read" /\ nlsock.at = nlsock.end
  /\ nl' = IF MoreComes(nl.multi) THEN [nl EXCEPT !.pc = "receive"] ELSE Returns(nl, "ok")
  /\ UNCHANGED <<nlsock, net>>

-----------------------------------------------------------------------------
get_xdp_id(info, flags) ==
  IF info.attach_mode # "MULTI" THEN info.prog_id
  ELSE IF "DRV" \in flags THEN info.DRV
  ELSE IF "HW" \in flags THEN info.HW
  ELSE IF "SKB" \in flags THEN info.SKB
  ELSE 0

\* close, and the result
Close ==
  /\ nl.pc = "close"
  /\ nl' = [nl EXCEPT !.pc = "done",
              !.id = IF nl.fn # "none" /\ nl.ret = "ok" THEN get_xdp_id(nl.info, nl.flags \cap Modes) ELSE @]
  /\ nlsock' = [nlsock EXCEPT !.open = FALSE]
  /\ UNCHANGED net

NlNext ==
  \/ \E ifindex \in Ifindexes, flags \in FlagSets : bpf_get_link_xdp_id(ifindex, flags)
  \/ bpf_set_link_xdp_fd
  \/ StepFails
  \/ OpenSocket
  \/ BindSocket
  \/ \E links \in Links, err \in Errors : Send(links, err)
  \/ \E end \in nlsock.end + 1 .. Len(nlsock.answer) : Receive(end)
  \/ Read
  \/ EndOfDatagram
  \/ Close

NlSpec == NlInit /\ [][NlNext]_<<nl, nlsock, net>>

-----------------------------------------------------------------------------
\* the program that an interface has in the mode of the flags, the only one
\* it has, or none
ProgramOf(progs, flags) ==
  LET at == AttachedModes(progs)
  IN  IF Several(at) THEN {progs[m] : m \in at \cap flags} ELSE {progs[m] : m \in at}

(* bpf_get_link_xdp_id and bpf_set_link_xdp_fd: for every answer of the    *)
(* kernel, cut into datagrams anywhere, the program in the mode that was   *)
(* asked for if there are several, the only program otherwise, none of an  *)
(* interface that there is not, or the error of the kernel or of the step  *)
(* that failed; no message is left, the socket is closed on every way out, *)
(* and no call waits for a datagram that will not come.                    *)
NetlinkAnswers ==
  /\ nl.pc = "receive" => nlsock.end < Len(nlsock.answer)
  /\ nl.pc = "done" =>
       /\ ~nlsock.open
       /\ IF nl.fn # "none" /\ ~Flagged(nl.flags) THEN nl.ret = "EINVAL"
          ELSE IF net.failed THEN nl.ret = "errno"
          ELSE /\ nl.ret = net.err /\ nlsock.at = Len(nlsock.answer)
               /\ nl.fn # "none" /\ net.err = "ok" =>
                    {nl.id} \ {0} = IF nl.ifindex \in DOMAIN net.links
                                    THEN ProgramOf(net.links[nl.ifindex], nl.flags) ELSE {}
=============================================================================
