----------------------------- MODULE ConfigBus -----------------------------
(***************************************************************************)
(* How a configuration gets from the file to the collectors: the watcher   *)
(* goroutine of provider/config.go, Setter.SetConfiguration, the start     *)
(* sequence of cmd/root.go with collector.Setup, the configuration-change  *)
(* callback Setup registers, its sender goroutines, and each collector's   *)
(* ConfCh.                                                                 *)
(*                                                                         *)
(* A content of the file is a number.  A user's in-place write makes two   *)
(* changes of the file, each with a Write event: the even number is the    *)
(* complete new file, the odd number before it a prefix of it, which the   *)
(* YAML decoder may reject or accept.  A configuration of a collector is   *)
(* the number of the content it was read from.                             *)
(*                                                                         *)
(* Setter.SetConfiguration assigns a struct of several words and           *)
(* GetConfiguration reads it without the mutex: a read in between may see  *)
(* the old list of one collector kind and the new list of another.         *)
(***************************************************************************)
EXTENDS Naturals, FiniteSets

CONSTANTS
  Names,       \* collectors of the configuration file, one per kind
  MayFail,     \* whether setting up a collector's BPF module may fail
  None,        \* no configuration
  MaxWrites,   \* bound: in-place writes of the file
  MaxReplaces  \* bound: replacements of the file by a rename

ASSUME BoundsAssumption == MaxWrites \in Nat /\ MaxReplaces \in Nat

ASSUME MayFailAssumption == MayFail \in BOOLEAN

MaxContent == 2 * (MaxWrites + MaxReplaces)
Contents == 0 .. MaxContent
MaxCalls == 2 * MaxWrites \* SetConfiguration calls that can have a callback

ASSUME NoneAssumption == None \notin Contents

VARIABLES
  file,          \* content of the configuration file
  nreplaces,     \* replacements so far
  events,        \* Write events the watcher goroutine has yet to take
  watch,         \* "off", "on", or "dead": the watched inode is no longer the file
  provider,      \* where the watcher goroutine is, and the configuration it holds
  configuration, \* info.configuration
  main,          \* where programStart is
  setupConf,     \* the configuration collector.Setup has read, per collector
  untried,       \* collectors Setup has not tried to start yet
  Manager,       \* collectors that Setup has entered in its Manager
  callbacks,     \* configuration-change goroutines started and not yet run
  nrun,          \* those that have run; numbers their senders
  senders,       \* sender goroutines: which run, to whom, what
  confCh,        \* per collector, the content of its ConfCh (capacity 1)
  applied,       \* per collector, the configuration it works with
  endless,       \* collectors whose onConfigChange does not return
  crashed,       \* a goroutine has panicked and taken the program with it
  overtaken,     \* auxiliary: collectors with different configurations on
                 \* their way when the last callback ran
  missed,        \* auxiliary: Setup registered its callback too late for
                 \* the configuration in force
  unseen         \* auxiliary: the file has changed with nobody watching it

fileVars == <<file, nreplaces, watch, unseen>>
provVars == <<provider, configuration>>
mainVars == <<main, setupConf, untried, Manager>>
busVars == <<callbacks, nrun, senders, overtaken>>
colVars == <<applied, endless>>
vars == <<fileVars, events, provVars, mainVars, missed, busVars, confCh, colVars, crashed>>

Sender == [run : 1 .. MaxCalls, name : Names, conf : Contents]

(* Type invariant: the file, info.configuration and the watcher goroutine  *)
(* (provider/config.go), Setup's Manager and the callback's senders        *)
(* (collector.go); info.configuration is never the result of a read that   *)
(* failed.                                                                 *)
TypeOK ==
  /\ file \in Contents /\ nreplaces \in 0 .. MaxReplaces
  /\ events \in 0 .. 2 * MaxWrites
  /\ watch \in {"off", "on", "dead"}
  /\ provider \in [pc : {"wait", "set", "notify"}, conf : Contents \cup {None}]
  /\ provider.pc = "wait" <=> provider.conf = None
  /\ configuration \in Contents
  /\ main \in {"watch", "setup", "start", "running"}
  /\ setupConf \in [Names -> Contents]
  /\ untried \in SUBSET Names /\ Manager \in SUBSET Names
  /\ callbacks \in 0 .. MaxCalls /\ nrun \in 0 .. MaxCalls
  /\ senders \subseteq Sender
  /\ confCh \in [Names -> Contents \cup {None}]
  /\ applied \in [Names -> Contents \cup {None}]
  /\ endless \in SUBSET Names
  /\ crashed \in BOOLEAN /\ missed \in BOOLEAN /\ unseen \in BOOLEAN
  /\ overtaken \in SUBSET Names

(* cmd/root.go, programStart: the file has been read once and handed to    *)
(* SetConfiguration, which has nobody to notify yet.                       *)
Init ==
  /\ file = 0 /\ nreplaces = 0
  /\ events = 0
  /\ watch = "off"
  /\ provider = [pc |-> "wait", conf |-> None]
  /\ configuration = 0
  /\ main = "watch"
  /\ setupConf = [n \in Names |-> 0]
  /\ untried = Names
  /\ Manager = {}
  /\ callbacks = 0 /\ nrun = 0
  /\ senders = {}
  /\ confCh = [n \in Names |-> None]
  /\ applied = [n \in Names |-> None]
  /\ endless = {}
  /\ crashed = FALSE
  /\ overtaken = {}
  /\ missed = FALSE
  /\ unseen = FALSE

-----------------------------------------------------------------------------
(* The file.  inotify and fsnotify, as provider/config.go uses them.       *)

Partial == file % 2 = 1

(* The next half of an in-place write.  The watcher gets a Write event.    *)
Write ==
  /\ ~crashed
  /\ file + 1 <= MaxContent - 2 * (MaxReplaces - nreplaces)
  /\ file' = file + 1
  /\ events' = IF watch = "on" THEN events + 1 ELSE events
  /\ unseen' = (watch # "on")
  /\ UNCHANGED <<nreplaces, watch, provVars, mainVars, missed, busVars, confCh, colVars, crashed>>

(* The file is replaced by a rename: the inode that is watched is gone,    *)
(* and the event is a Chmod or Remove, which the provider does not act on. *)
Replace ==
  /\ ~crashed
  /\ watch = "on" /\ ~Partial
  /\ nreplaces < MaxReplaces
  /\ file' = file + 2
  /\ nreplaces' = nreplaces + 1
  /\ watch' = "dead"
  /\ unseen' = TRUE
  /\ UNCHANGED <<events, provVars, mainVars, missed, busVars, confCh, colVars, crashed>>

-----------------------------------------------------------------------------
(* provider/config.go and setter.go                                        *)

\* the error of FindConfig is not looked at
ReadOutcomesUnchecked == IF Partial THEN {file, None} ELSE {file}

(* config.go, FindConfig, as the watcher goroutine uses it: what a read of *)
(* the file may hand to SetConfiguration.  A prefix that the decoder       *)
(* rejects is an error and hands over nothing.                             *)
ReadOutcomes == {file}

(* provider/config.go, "case event": take one Write event, read the file.  *)
ReadConfig ==
  /\ ~crashed
  /\ provider.pc = "wait"
  /\ events > 0
  /\ events' = events - 1
  /\ \/ \E c \in ReadOutcomes : provider' = [pc |-> "set", conf |-> c]
     \/ Partial /\ UNCHANGED provider
  /\ UNCHANGED <<fileVars, configuration, mainVars, missed, busVars, confCh, colVars, crashed>>

(* setter.go, SetConfiguration: the assignment, under the mutex.           *)
SetConfiguration ==
  /\ ~crashed
  /\ provider.pc = "set"
  /\ configuration' = provider.conf
  /\ provider' = [provider EXCEPT !.pc = "notify"]
  /\ UNCHANGED <<fileVars, events, mainVars, missed, busVars, confCh, colVars, crashed>>

(* setter.go, SetConfiguration: "go fn()" for every callback registered.   *)
NotifyChange ==
  /\ ~crashed
  /\ provider.pc = "notify"
  /\ provider' = [pc |-> "wait", conf |-> None]
  /\ IF main = "running" THEN callbacks' = callbacks + 1 /\ missed' = FALSE
                         ELSE UNCHANGED <<callbacks, missed>>
  /\ UNCHANGED <<fileVars, events, configuration, mainVars, nrun, senders, overtaken,
                 confCh, colVars, crashed>>

(* getter.go, GetConfiguration: not under the mutex.  While SetConfiguration*)
(* is assigning, the list of each collector kind is the old or the new one.*)
GetConfiguration ==
  [Names -> {configuration} \cup (IF provider.pc = "set" THEN {provider.conf} ELSE {})]

-----------------------------------------------------------------------------
(* cmd/root.go and collector.go, Setup                                     *)

(* provider.Setup: from here on writes of the file have events.            *)
StartWatch ==
  /\ ~crashed
  /\ main = "watch"
  /\ main' = "setup"
  /\ watch' = "on"
  /\ UNCHANGED <<file, nreplaces, unseen, events, provVars, setupConf, untried, Manager,
                 missed, busVars, confCh, colVars, crashed>>

(* collector.go, Setup: "totalConfig := getter.GetConfiguration()".        *)
SetupRead ==
  /\ ~crashed
  /\ main = "setup"
  /\ main' = "start"
  /\ setupConf' \in GetConfiguration
  /\ UNCHANGED <<fileVars, events, provVars, untried, Manager, missed, busVars, confCh,
                 colVars, crashed>>

(* collector.go, Setup: StartX for one collector.  One that fails to start,*)
(* or that a prefix of the file does not list, is not entered in Manager.  *)
StartCollector(n) ==
  /\ ~crashed
  /\ main = "start"
  /\ n \in untried
  /\ untried' = untried \ {n}
  /\ \/ /\ Manager' = Manager \cup {n}
        /\ applied' = [applied EXCEPT ![n] = setupConf[n]]
     \/ /\ MayFail \/ setupConf[n] % 2 = 1
        /\ UNCHANGED <<Manager, applied>>
  /\ UNCHANGED <<fileVars, events, provVars, main, setupConf, missed, busVars, confCh,
                 endless, crashed>>

(* collector.go, Setup: RegisterConfigurationChange.                       *)
Register ==
  /\ ~crashed
  /\ main = "start"
  /\ untried = {}
  /\ main' = "running"
  /\ missed' = (\E n \in Names : setupConf[n] # configuration)
  /\ UNCHANGED <<fileVars, events, provVars, setupConf, untried, Manager, busVars, confCh,
                 colVars, crashed>>

-----------------------------------------------------------------------------
(* collector.go: the configuration-change callback, and the collectors     *)

(* Configurations on their way to a collector.                             *)
Pending(n) ==
  {s.conf : s \in {t \in senders : t.name = n}} \cup ({confCh[n]} \ {None})

\* the sender goroutines share the loop variable and all see its last value
SendersShared(conf, listed) ==
  LET last == CHOOSE n \in listed : TRUE
  IN  {[run |-> nrun + 1, name |-> last, conf |-> conf[last]] : n \in listed}

(* collector.go, the callback: one sender goroutine per collector listed.  *)
NewSenders(conf, listed) ==
  {[run |-> nrun + 1, name |-> n, conf |-> conf[n]] : n \in listed}

(* collector.go, the callback, under colMutex.  A complete file lists all  *)
(* collectors, a prefix any of them.                                       *)
RunCallback ==
  /\ ~crashed
  /\ callbacks > 0
  /\ callbacks' = callbacks - 1
  /\ nrun' = nrun + 1
  /\ \E conf \in GetConfiguration, listed \in SUBSET Names :
       /\ \A n \in Names \ listed : conf[n] % 2 = 1
       /\ senders' = senders \cup NewSenders(conf, listed)
       /\ overtaken' = (overtaken \ listed)
                          \cup {n \in listed : Pending(n) \ {conf[n]} # {}}
  /\ UNCHANGED <<fileVars, events, provVars, mainVars, missed, confCh, colVars, crashed>>

(* collector.go, a sender goroutine: Manager.ColX[name].ConfCh <- conf.    *)
(* For a collector that is not in Manager the map holds a nil pointer.     *)
SendConf(s) ==
  /\ ~crashed
  /\ s \in senders
  /\ IF s.name \notin Manager
       THEN crashed' = TRUE /\ UNCHANGED <<senders, confCh>>
       ELSE /\ confCh[s.name] = None
            /\ confCh' = [confCh EXCEPT ![s.name] = s.conf]
            /\ senders' = senders \ {s}
            /\ UNCHANGED crashed
  /\ UNCHANGED <<fileVars, events, provVars, mainVars, missed, callbacks, nrun, overtaken,
                 colVars>>

(* A collector's signal loop takes its configuration.  onConfigChange      *)
(* assigns it and refreshes the entries of the collector's table, and does *)
(* not return if two of them are in one bucket (Collector!Endless).  Those *)
(* StartX calls for are none yet.                                          *)
HandleConf(n) ==
  /\ ~crashed
  /\ n \in Manager \ endless
  /\ confCh[n] # None
  /\ applied' = [applied EXCEPT ![n] = confCh[n]]
  /\ confCh' = [confCh EXCEPT ![n] = None]
  /\ endless' \in {endless, endless \cup {n}}
  /\ UNCHANGED <<fileVars, events, provVars, mainVars, missed, busVars, crashed>>

Next ==
  \/ Write
  \/ Replace
  \/ ReadConfig
  \/ SetConfiguration
  \/ NotifyChange
  \/ StartWatch
  \/ SetupRead
  \/ \E n \in Names : StartCollector(n)
  \/ Register
  \/ RunCallback
  \/ \E s \in senders : SendConf(s)
  \/ \E n \in Names : HandleConf(n)

(* The program's goroutines get to run; a goroutine that waits for room in *)
(* a ConfCh is served in its turn (Go queues the senders of a channel).    *)
(* Nobody is obliged to touch the file.                                    *)
Fairness ==
  /\ WF_vars(ReadConfig) /\ WF_vars(SetConfiguration) /\ WF_vars(NotifyChange)
  /\ WF_vars(StartWatch) /\ WF_vars(SetupRead) /\ WF_vars(Register)
  /\ WF_vars(RunCallback)
  /\ \A n \in Names :
       /\ WF_vars(StartCollector(n))
       /\ WF_vars(HandleConf(n))
       /\ \A r \in 1 .. MaxCalls :
            SF_vars(\E s \in senders : s.name = n /\ s.run = r /\ SendConf(s))

Spec == Init /\ [][Next]_vars /\ Fairness

-----------------------------------------------------------------------------
(* Everything the watcher goroutine and the callback have to do is done.   *)
BusIdle ==
  /\ ~crashed /\ main = "running"
  /\ ~Partial /\ events = 0 /\ provider.pc = "wait" /\ callbacks = 0

UpToDate(n) == Pending(n) \subseteq {file} /\ (applied[n] = file \/ file \in Pending(n))

(* provider/config.go, setter.go, collector.go: a running collector works  *)
(* with the file's content or has it, and nothing else, on its way - unless*)
(* the change fell into the start of the program, the file was not watched *)
(* any more, or configurations are overtaking each other on the way to it. *)
DeliveredOrPending ==
  BusIdle /\ ~missed /\ ~unseen =>
    \A n \in Manager \ overtaken : UpToDate(n)

(* A file content that the provider is told of reaches every running       *)
(* collector, if it stays, under the same provisos, and unless the         *)
(* collector is in an onConfigChange that does not return (endless).       *)
LatestReachesCollectors ==
  \A n \in Names, v \in Contents :
    main = "running" /\ n \in Manager /\ file = v /\ ~Partial /\ ~missed /\ ~unseen
      ~> applied[n] = v \/ file # v \/ crashed \/ unseen \/ n \in overtaken \cup endless

(* collector.go, Setup: "notify all collectors of the change of the        *)
(* configuration", after a collector that failed to start was logged and   *)
(* passed over.  The notification does not end the program.                *)
NoPanic == ~crashed
=============================================================================
