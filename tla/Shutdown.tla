------------------------------ MODULE Shutdown ------------------------------
(***************************************************************************)
(* The end of the program: root.go, programStart calls EndProgram          *)
(* (info.go), which calls the functions that were registered, one after    *)
(* the other.  Each sends on an unbuffered channel of one goroutine: the   *)
(* watcher of the configuration, and two loops per collector, which        *)
(* register themselves when they get to run.  Nothing protects the slice   *)
(* that RegisterProgramEnd appends to: a loop reads it and stores the      *)
(* longer one in two steps.  The loops run in any order, so the slice is a *)
(* set here, and EndProgram takes its functions in any order.              *)
(*                                                                         *)
(* Meanwhile the loops work: the export loop sends on dataCh with the      *)
(* collector's mutex held, the signal loop takes the mutex for what it     *)
(* handles, and the exporter takes from dataCh until the process is gone.  *)
(* A loop that sets each key of a table while it iterates does not end, as *)
(* Fcount and Collector show, once two PIDs of the table share a bucket;   *)
(* here it may end or not.                                                 *)
(***************************************************************************)
EXTENDS Naturals

CONSTANTS
  Collectors,  \* collectors that were started
  Fcounts,     \* those of kind fcount
  Early,       \* those whose loops ran, and registered, before the others'
  ChanCap      \* capacity of dataCh (2048 in the code)

ASSUME EarlyAssumption == Early \subseteq Collectors /\ Fcounts \subseteq Collectors

ASSUME ChanCapAssumption == ChanCap \in Nat \ {0}

Loops == Collectors \X {"export", "signal"}
Exports == {l \in Loops : l[2] = "export"}
Watcher == <<"config", "watcher">>
Listeners == Loops \cup {Watcher}
Nobody == <<"nobody", "none">>

\* where a goroutine is when it has registered
AtWork(l) == IF l \in Exports THEN "export" ELSE "select"

VARIABLES
  programEnd, \* info.events.programEnd: whose done channel a function sends on
  seen,       \* the slice a loop has read in RegisterProgramEnd
  loop,       \* where each goroutine is
  dataCh,     \* how many messages are in dataCh
  main,       \* programStart: running, in EndProgram, or at its end
  calling,    \* the function EndProgram is in
  todo,       \* those it has still to call
  told,       \* auxiliary: goroutines that have received done
  raced,      \* auxiliary: loops whose registration met another one's
  late,       \* auxiliary: loops that registered after EndProgram read the slice
  crashed     \* the process was ended by a torn slice

svars == <<programEnd, seen, loop, dataCh, main, calling, todo, told, raced, late, crashed>>
endVars == <<main, calling, todo, told>>
regVars == <<programEnd, seen, raced, late, crashed>>

(* Type invariant of the goroutines of collector.go's collectors; dataCh   *)
(* is no fuller than its capacity, and no function is called twice.        *)
STypeOK ==
  /\ programEnd \subseteq Listeners
  /\ seen \in [Loops -> SUBSET Listeners]
  /\ loop \in [Listeners -> {"start", "register", "export", "send", "period", "wait",
                             "select", "handle", "endless", "stopped"}]
  /\ dataCh \in 0 .. ChanCap
  /\ main \in {"run", "ending", "bye"}
  /\ calling \in Listeners \cup {Nobody} /\ todo \subseteq Listeners \ {calling}
  /\ told \subseteq Listeners /\ raced \subseteq Loops /\ late \subseteq Loops
  /\ crashed \in BOOLEAN

(* provider.Setup has registered the watcher, collector.Setup has started  *)
(* the collectors' goroutines.                                             *)
SInit ==
  /\ programEnd = {Watcher} \cup {l \in Loops : l[1] \in Early}
  /\ seen = [l \in Loops |-> {}]
  /\ loop = [l \in Listeners |-> IF l \in programEnd THEN AtWork(l) ELSE "start"]
  /\ dataCh = 0
  /\ main = "run"
  /\ calling = Nobody /\ todo = {}
  /\ told = {} /\ raced = {} /\ late = {}
  /\ crashed = FALSE

Running == main # "bye" /\ ~crashed

-----------------------------------------------------------------------------
(* info.go, RegisterProgramEnd: "e.programEnd = append(e.programEnd, fn)"  *)

Registering == {l \in Loops : loop[l] = "register"}

RegisterRead(l) ==
  /\ Running
  /\ loop[l] = "start"
  /\ loop' = [loop EXCEPT ![l] = "register"]
  /\ seen' = [seen EXCEPT ![l] = programEnd]
  /\ raced' = IF Registering = {} THEN raced ELSE raced \cup Registering \cup {l}
  /\ UNCHANGED <<programEnd, dataCh, endVars, late, crashed>>

(* Another goroutine that has the slice in its hands may see a length that *)
(* does not belong to the array.                                           *)
RegisterWrite(l) ==
  /\ Running
  /\ loop[l] = "register"
  /\ programEnd' = seen[l] \cup {l}
  /\ loop' = [loop EXCEPT ![l] = AtWork(l)]
  /\ seen' = [seen EXCEPT ![l] = {}]
  /\ late' = IF main = "run" THEN late ELSE late \cup {l}
  /\ crashed' \in IF l \in raced THEN BOOLEAN ELSE {FALSE}
  /\ UNCHANGED <<dataCh, endVars, raced>>

-----------------------------------------------------------------------------
(* The loops of a collector                                                *)

(* collector.mutex: exportData keeps it while it waits at dataCh, and a    *)
(* loop that does not end has it.                                          *)
MutexFree(c) ==
  loop[<<c, "export">>] \notin {"send", "endless"} /\ loop[<<c, "signal">>] # "endless"

(* exportData: the mutex, and the send unless there is nothing to export.  *)
(* fcount's sets each entry it iterates over.                              *)
ExportData(c) ==
  LET l == <<c, "export">>
  IN  /\ Running
      /\ loop[l] = "export" /\ MutexFree(c)
      /\ \E next \in {"send", "period"} \cup (IF c \in Fcounts THEN {"endless"} ELSE {}) :
           loop' = [loop EXCEPT ![l] = next]
      /\ UNCHANGED <<dataCh, endVars, regVars>>

ExportSend(c) ==
  LET l == <<c, "export">>
  IN  /\ Running
      /\ loop[l] = "send" /\ dataCh < ChanCap
      /\ dataCh' = dataCh + 1
      /\ loop' = [loop EXCEPT ![l] = "period"]
      /\ UNCHANGED <<endVars, regVars>>

\* the export loop: "period := collector.conf.ExportConfig.Period"
ReadPeriod(c) ==
  LET l == <<c, "export">>
  IN  /\ Running
      /\ loop[l] = "period" /\ MutexFree(c)
      /\ loop' = [loop EXCEPT ![l] = "wait"]
      /\ UNCHANGED <<dataCh, endVars, regVars>>

\* EndProgram waits for this goroutine to receive
Offered(l) == main = "ending" /\ calling = l

\* and calls one of the functions, or none
Call(fns) ==
  \/ fns = {} /\ calling' = Nobody /\ todo' = {}
  \/ calling' \in fns /\ todo' = fns \ {calling'}

Receive(l) ==
  /\ told' = told \cup {l}
  /\ Call(todo)
  /\ UNCHANGED main

(* collector.go, waitPeriod: "default" is only for when nobody sends.  The *)
(* period goes on after a sleep, or is over.                               *)
WaitPeriod(c) ==
  LET l == <<c, "export">>
  IN  /\ Running
      /\ loop[l] = "wait"
      /\ IF Offered(l)
           THEN /\ Receive(l)
                /\ loop' = [loop EXCEPT ![l] = "stopped"]
           ELSE /\ loop' \in {loop, [loop EXCEPT ![l] = "export"]}
                /\ UNCHANGED endVars
      /\ UNCHANGED <<dataCh, regVars>>

\* the signal loop takes an event, a configuration or a PID
SignalTake(c) ==
  LET l == <<c, "signal">>
  IN  /\ Running
      /\ loop[l] = "select"
      /\ loop' = [loop EXCEPT ![l] = "handle"]
      /\ UNCHANGED <<dataCh, endVars, regVars>>

(* bufferEvent, onConfigChange, "case addPID", "case delPID": under the    *)
(* mutex, without waiting for anything else.  onConfigChange sets each     *)
(* entry it iterates over, but fcount's, which has no such loop.           *)
SignalHandle(c) ==
  LET l == <<c, "signal">>
  IN  /\ Running
      /\ loop[l] = "handle" /\ MutexFree(c)
      /\ \E next \in {"select"} \cup (IF c \in Fcounts THEN {} ELSE {"endless"}) :
           loop' = [loop EXCEPT ![l] = next]
      /\ UNCHANGED <<dataCh, endVars, regVars>>

(* "case <-done: break": it leaves the select and not the loop.            *)
SignalDone(c) ==
  LET l == <<c, "signal">>
  IN  /\ Running
      /\ loop[l] = "select" /\ Offered(l)
      /\ Receive(l)
      /\ UNCHANGED <<loop, dataCh, regVars>>

\* provider/config.go: "case <-proConfig.doneCh: return"
WatcherDone ==
  /\ Running
  /\ loop[Watcher] = "select" /\ Offered(Watcher)
  /\ Receive(Watcher)
  /\ loop' = [loop EXCEPT ![Watcher] = "stopped"]
  /\ UNCHANGED <<dataCh, regVars>>

\* the exporter stops with the program
ForwardBefore == Running /\ main = "run" /\ dataCh > 0

(* exporter.go, Setup: it is not told, and goes on to the end.             *)
ForwardPossible == Running /\ dataCh > 0

Forward ==
  /\ ForwardPossible
  /\ dataCh' = dataCh - 1
  /\ UNCHANGED <<loop, endVars, regVars>>

-----------------------------------------------------------------------------
(* programStart                                                            *)

(* A signal, at any time: EndProgram.  "range e.programEnd" is the slice   *)
(* as it is now.                                                           *)
EndProgram ==
  /\ Running
  /\ main = "run"
  /\ main' = "ending"
  /\ Call(programEnd)
  /\ UNCHANGED <<loop, dataCh, told, regVars>>

\* "done, bye :)"
Bye ==
  /\ Running
  /\ main = "ending" /\ calling = Nobody
  /\ main' = "bye"
  /\ UNCHANGED <<loop, dataCh, calling, todo, told, regVars>>

SNext ==
  \/ \E l \in Loops : RegisterRead(l)
  \/ \E l \in Loops : RegisterWrite(l)
  \/ \E c \in Collectors : ExportData(c)
  \/ \E c \in Collectors : ExportSend(c)
  \/ \E c \in Collectors : ReadPeriod(c)
  \/ \E c \in Collectors : WaitPeriod(c)
  \/ \E c \in Collectors : SignalTake(c)
  \/ \E c \in Collectors : SignalHandle(c)
  \/ \E c \in Collectors : SignalDone(c)
  \/ WatcherDone
  \/ Forward
  \/ EndProgram
  \/ Bye

(* Goroutines run; a mutex that is released goes to who waits for it; a    *)
(* select that finds "done" ready over and over takes it some time, for it *)
(* chooses at random.                                                      *)
SFairness ==
  /\ \A l \in Loops : WF_svars(RegisterRead(l) \/ RegisterWrite(l))
  /\ \A c \in Collectors :
       /\ WF_svars(ExportData(c) \/ ReadPeriod(c) \/ WaitPeriod(c)) /\ SF_svars(ExportSend(c))
       /\ SF_svars(SignalHandle(c)) /\ SF_svars(SignalDone(c))
  /\ WF_svars(WatcherDone) /\ WF_svars(Forward) /\ WF_svars(Bye)

SSpec == SInit /\ [][SNext]_svars /\ SFairness

-----------------------------------------------------------------------------
\* every goroutine that registered before has received, and no export is under
\* way in a loop that has, except loops whose registration met another one's
AllTold ==
  /\ Loops \ told \subseteq raced \cup late \cup {l \in Loops : loop[l] \in {"start", "register"}}
  /\ Watcher \in told
  /\ \A l \in Exports \cap told : loop[l] = "stopped"

(* EndProgram waits for a loop of a collector that has a loop which does   *)
(* not end.  Its mutex is not released, so that the other one comes no     *)
(* more to where it receives.                                              *)
Hangs ==
  \E l \in Loops : loop[l] = "endless" /\ calling \in {<<l[1], "export">>, <<l[1], "signal">>}

(* info.go, RegisterProgramEnd and EndProgram, "blocking": the end comes,  *)
(* though EndProgram waits for loops that wait for their period, for a     *)
(* mutex or at a full dataCh, and then every goroutine has been told -     *)
(* unless EndProgram waits for a collector that has a loop over its table  *)
(* which does not end (Hangs).                                             *)
EndTellsAll == main = "ending" ~> (main = "bye" /\ AllTold) \/ crashed \/ Hangs
=============================================================================
