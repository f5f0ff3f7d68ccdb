-------------------------- MODULE ConfigBusProofs --------------------------
(***************************************************************************)
(* Proofs about ConfigBus, for any collectors and any number of writes and *)
(* replacements of the file.                                               *)
(*                                                                         *)
(* The argument follows a configuration.  While there is an event to take  *)
(* or the provider holds a configuration, another callback is to come;     *)
(* the last callback reads what is in force, and from then on a collector  *)
(* that nothing is overtaking has only that one on its way.                *)
(***************************************************************************)
EXTENDS ConfigBus, TLAPS

\* the provider has a configuration that is not announced yet
Busy == IF provider.pc = "wait" THEN 0 ELSE 1

\* each callback goes back to a write of the file
Counts ==
  /\ file <= 2 * MaxWrites + 2 * nreplaces
  /\ events + callbacks + nrun + Busy <= file - 2 * nreplaces

\* before the callback is registered nothing is on its way, and Setup gives
\* its collectors what it has read
NotRunning ==
  main # "running" =>
    /\ callbacks = 0 /\ senders = {} /\ \A n \in Names : confCh[n] = None
    /\ IF main = "start" THEN \A n \in Manager : applied[n] = setupConf[n] ELSE Manager = {}

\* the provider has the file's content, or an event to take
Known ==
  /\ provider.pc = "notify" => configuration = provider.conf
  /\ ~unseen /\ events = 0 /\ ~Partial =>
       file = IF provider.pc = "wait" THEN configuration ELSE provider.conf

\* collector n works with the configuration in force, or will
Told(n) ==
  Pending(n) \subseteq {configuration} /\ (applied[n] = configuration \/ configuration \in Pending(n))

\* a collector has been told, unless a callback is to come or the last one read
\* a prefix of the file
Tells ==
  main = "running" /\ ~missed /\ callbacks = 0 /\ provider.pc = "wait" /\ configuration % 2 # 1 =>
    \A n \in Manager \ overtaken : Told(n)

\* the invariant
Inv == TypeOK /\ Counts /\ NotRunning /\ Known /\ Tells

-----------------------------------------------------------------------------
\* the invariant holds before the watcher, the collectors and the notifications start
LEMMA Start == Init => Inv
<1> SUFFICES ASSUME Init PROVE Inv
  OBVIOUS
<1>1. TypeOK
  <2>1. 0 \in Contents /\ 0 \in 0 .. MaxReplaces /\ 0 \in 0 .. MaxCalls /\ 0 \in 0 .. 2 * MaxWrites
    BY BoundsAssumption DEF Contents, MaxContent, MaxCalls
  <2> QED
    BY <2>1, NoneAssumption DEF Init, TypeOK
<1>2. Counts /\ NotRunning /\ Known /\ Tells
  BY BoundsAssumption DEF Init, Counts, Busy, NotRunning, Known, Tells
<1> QED
  BY <1>1, <1>2 DEF Inv

\* what the counts leave room for
LEMMA Room ==
  ASSUME Inv
  PROVE  /\ file \in Nat /\ events \in Nat /\ callbacks \in Nat /\ nrun \in Nat /\ nreplaces \in Nat
         /\ Busy \in {0, 1} /\ MaxWrites \in Nat
         /\ file <= 2 * MaxWrites + 2 * nreplaces
         /\ events + callbacks + nrun + Busy <= file - 2 * nreplaces
  BY BoundsAssumption DEF Inv, TypeOK, Counts, Contents, MaxContent, Busy

\* the bounds of the model, as far as the user's changes go
LEMMA Bounded ==
  ASSUME NEW f \in Nat, NEW k \in 0 .. MaxReplaces, f <= 2 * MaxWrites + 2 * k
  PROVE  f \in Contents
  BY BoundsAssumption DEF Contents, MaxContent

(* The user changes the file: there is an event to take, or nobody watches.*)
LEMMA Changing ==
  ASSUME Inv, Write \/ Replace
  PROVE  Inv'
<1>1. UNCHANGED <<provVars, mainVars, missed, busVars, confCh, applied, endless, crashed>>
  BY DEF Write, Replace, colVars
<1>2. CASE Write
  <2>1. /\ file' = file + 1 /\ file + 1 <= 2 * (MaxWrites + MaxReplaces) - 2 * (MaxReplaces - nreplaces)
        /\ UNCHANGED <<nreplaces, watch>> /\ unseen' = (watch # "on")
        /\ events' = events + 1 \/ (events' = events /\ unseen')
    BY <1>2 DEF Write, MaxContent
  <2>2. file' <= 2 * MaxWrites + 2 * nreplaces
    <3>1. nreplaces \in 0 .. MaxReplaces
      BY DEF Inv, TypeOK
    <3>2. \A w, m, k \in Nat : 2 * (w + m) - 2 * (m - k) = 2 * w + 2 * k
      OBVIOUS
    <3>3. 2 * (MaxWrites + MaxReplaces) - 2 * (MaxReplaces - nreplaces) = 2 * MaxWrites + 2 * nreplaces
      BY <3>1, <3>2, BoundsAssumption
    <3> QED
      BY <2>1, <3>3
  <2>3. Counts' /\ events' <= 2 * MaxWrites
    <3>1. UNCHANGED <<callbacks, nrun, nreplaces>> /\ Busy' = Busy
      BY <1>1, <2>1 DEF provVars, busVars, Busy
    <3>2. events' \in Nat /\ events' + callbacks + nrun + Busy <= file + 1 - 2 * nreplaces
      BY <2>1, Room
    <3> QED
      BY <2>1, <2>2, <3>1, <3>2, Room DEF Counts
  <2>4. TypeOK'
    <3>1. file' \in Contents /\ events' \in 0 .. 2 * MaxWrites /\ unseen' \in BOOLEAN
      <4>1. file' \in Nat /\ nreplaces \in 0 .. MaxReplaces
        BY <2>1, Room DEF Inv, TypeOK
      <4>2. events' \in Nat
        BY <2>1, Room
      <4> QED
        BY <2>1, <2>2, <2>3, <4>1, <4>2, Bounded, BoundsAssumption
    <3> QED
      BY <1>1, <2>1, <3>1 DEF Inv, TypeOK, provVars, mainVars, busVars
  <2>5. Known'
    BY <1>1, <2>1, Room DEF Inv, Known, provVars
  <2>6. NotRunning' /\ Tells'
    BY <1>1 DEF Inv, NotRunning, Tells, Told, Pending, provVars, mainVars, busVars
  <2> QED
    BY <2>3, <2>4, <2>5, <2>6 DEF Inv
<1>3. CASE Replace
  <2>1. /\ file' = file + 2 /\ nreplaces' = nreplaces + 1 /\ nreplaces < MaxReplaces
        /\ watch' = "dead" /\ unseen' = TRUE /\ UNCHANGED events
    BY <1>3 DEF Replace
  <2>2. Counts'
    <3>1. UNCHANGED <<events, callbacks, nrun>> /\ Busy' = Busy
      BY <1>1, <2>1 DEF provVars, busVars, Busy
    <3>2. file' - 2 * nreplaces' = file - 2 * nreplaces /\ file' <= 2 * MaxWrites + 2 * nreplaces'
      BY <2>1, Room
    <3> QED
      BY <3>1, <3>2, Room DEF Counts
  <2>3. TypeOK'
    <3>1. file' \in Contents /\ nreplaces' \in 0 .. MaxReplaces
      <4>1. nreplaces' \in 0 .. MaxReplaces /\ file' \in Nat /\ file' <= 2 * MaxWrites + 2 * nreplaces'
        BY <2>1, Room, BoundsAssumption DEF Inv, TypeOK
      <4> QED
        BY <4>1, Bounded
    <3> QED
      BY <1>1, <2>1, <3>1 DEF Inv, TypeOK, provVars, mainVars, busVars
  <2>4. Known' /\ NotRunning' /\ Tells'
    BY <1>1, <2>1 DEF Inv, Known, NotRunning, Tells, Told, Pending, provVars, mainVars, busVars
  <2> QED
    BY <2>2, <2>3, <2>4 DEF Inv
<1> QED
  BY <1>2, <1>3

(* The watcher goroutine: it reads the file when it has taken the event.   *)
LEMMA Providing ==
  ASSUME Inv, ReadConfig \/ SetConfiguration \/ NotifyChange
  PROVE  Inv'
<1>1. UNCHANGED <<fileVars, mainVars, nrun, senders, overtaken, confCh, applied, endless,
                crashed>>
  BY DEF ReadConfig, SetConfiguration, NotifyChange, busVars, colVars
<1>2. provider \in [pc : {"wait", "set", "notify"}, conf : Contents \cup {None}] /\ file \in Contents
      /\ configuration \in Contents /\ (provider.pc = "wait" <=> provider.conf = None)
      /\ None \notin Contents
  BY NoneAssumption DEF Inv, TypeOK
<1>3. CASE ReadConfig
  <2>1. /\ provider.pc = "wait" /\ events > 0 /\ events' = events - 1
        /\ provider' = [pc |-> "set", conf |-> file] \/ (Partial /\ UNCHANGED provider)
        /\ UNCHANGED <<configuration, missed, callbacks>>
    BY <1>3 DEF ReadConfig, ReadOutcomes, busVars
  <2>2. Counts'
    <3>1. UNCHANGED <<file, nreplaces, callbacks, nrun>> /\ Busy' <= Busy + 1 /\ Busy' \in {0, 1}
      BY <1>1, <2>1 DEF fileVars, Busy
    <3> QED
      BY <2>1, <3>1, Room DEF Counts
  <2>3. TypeOK'
    <3>1. events' \in 0 .. 2 * MaxWrites
      <4>1. events \in 0 .. 2 * MaxWrites
        BY DEF Inv, TypeOK
      <4> QED
        BY <2>1, <4>1, BoundsAssumption
    <3> QED
      BY <1>1, <1>2, <2>1, <3>1 DEF Inv, TypeOK, fileVars, mainVars
  <2>4. Known'
    BY <1>1, <2>1 DEF Inv, Known, fileVars, Partial
  <2>5. NotRunning' /\ Tells'
    BY <1>1, <2>1 DEF Inv, NotRunning, Tells, Told, Pending, mainVars
  <2> QED
    BY <2>2, <2>3, <2>4, <2>5 DEF Inv
<1>4. CASE SetConfiguration
  <2>1. /\ provider.pc = "set" /\ configuration' = provider.conf
        /\ provider'.pc = "notify" /\ provider'.conf = provider.conf
        /\ provider' \in [pc : {"wait", "set", "notify"}, conf : Contents \cup {None}]
        /\ UNCHANGED <<events, missed, callbacks>>
    BY <1>2, <1>4 DEF SetConfiguration, busVars
  <2>2. Counts'
    BY <1>1, <2>1 DEF Inv, Counts, Busy, fileVars
  <2>3. TypeOK'
    BY <1>1, <1>2, <2>1 DEF Inv, TypeOK, fileVars, mainVars
  <2>4. Known' /\ NotRunning' /\ Tells'
    BY <1>1, <2>1 DEF Inv, Known, NotRunning, Tells, fileVars, mainVars, Partial
  <2> QED
    BY <2>2, <2>3, <2>4 DEF Inv
<1>5. CASE NotifyChange
  <2>1. /\ provider.pc = "notify" /\ provider' = [pc |-> "wait", conf |-> None]
        /\ \/ main = "running" /\ callbacks' = callbacks + 1 /\ missed' = FALSE
           \/ main # "running" /\ UNCHANGED <<callbacks, missed>>
        /\ UNCHANGED <<events, configuration>>
    BY <1>5 DEF NotifyChange
  <2>2. Counts'
    <3>1. UNCHANGED <<file, nreplaces, nrun, events>> /\ Busy = 1 /\ Busy' = 0
      BY <1>1, <2>1 DEF fileVars, Busy
    <3> QED
      BY <2>1, <3>1, Room DEF Counts
  <2>3. TypeOK'
    <3>1. callbacks' \in 0 .. MaxCalls
      BY <1>1, <2>1, <2>2, Room DEF Counts, fileVars, MaxCalls, Busy
    <3> QED
      BY <1>1, <1>2, <2>1, <3>1 DEF Inv, TypeOK, fileVars, mainVars
  <2>4. Known' /\ NotRunning' /\ Tells'
    BY <1>1, <2>1, Room DEF Inv, Known, NotRunning, Tells, fileVars, mainVars, Partial
  <2> QED
    BY <2>2, <2>3, <2>4 DEF Inv
<1> QED
  BY <1>3, <1>4, <1>5

(* What a reader of info.configuration sees, kind by kind.                 *)
LEMMA Read ==
  ASSUME Inv, NEW conf \in GetConfiguration
  PROVE  /\ conf \in [Names -> Contents]
         /\ provider.pc = "wait" => \A n \in Names : conf[n] = configuration
  BY DEF GetConfiguration, Inv, TypeOK

(* Setup starts the collectors, then it registers the callback.            *)
LEMMA SettingUp ==
  ASSUME Inv, StartWatch \/ SetupRead \/ Register \/ \E n \in Names : StartCollector(n)
  PROVE  Inv'
<1>1. /\ UNCHANGED <<file, nreplaces, unseen, events, provVars, busVars, confCh, endless, crashed>>
      /\ main # "running"
      /\ watch' \in {watch, "on"}
  BY DEF StartWatch, SetupRead, Register, StartCollector, fileVars, colVars
<1>2. Counts' /\ Known'
  BY <1>1 DEF Inv, Counts, Busy, Known, provVars, busVars, Partial
<1>3. CASE StartWatch
  <2>1. main = "watch" /\ main' = "setup" /\ UNCHANGED <<setupConf, untried, Manager, missed, applied>>
    BY <1>3 DEF StartWatch, colVars
  <2> QED
    BY <1>1, <1>2, <2>1 DEF Inv, TypeOK, NotRunning, Tells, provVars, busVars
<1>4. CASE SetupRead
  <2>1. main = "setup" /\ main' = "start" /\ UNCHANGED <<untried, Manager, missed, applied>>
        /\ setupConf' \in [Names -> Contents]
    BY <1>4, Read DEF SetupRead, colVars
  <2> QED
    BY <1>1, <1>2, <2>1 DEF Inv, TypeOK, NotRunning, Tells, provVars, busVars
<1>5. ASSUME NEW n \in Names, StartCollector(n) PROVE Inv'
  <2>1. /\ main = "start" /\ untried' = untried \ {n} /\ UNCHANGED <<main, setupConf, missed>>
        /\ \/ Manager' = Manager \cup {n} /\ applied' = [applied EXCEPT ![n] = setupConf[n]]
           \/ UNCHANGED <<Manager, applied>>
    BY <1>5 DEF StartCollector
  <2>2. setupConf \in [Names -> Contents] /\ applied \in [Names -> Contents \cup {None}]
        /\ Manager \in SUBSET Names
    BY DEF Inv, TypeOK
  <2>3. TypeOK'
    BY <1>1, <2>1, <2>2 DEF Inv, TypeOK, provVars, busVars
  <2>4. NotRunning' /\ Tells'
    BY <1>1, <2>1, <2>2 DEF Inv, NotRunning, Tells, busVars
  <2> QED
    BY <1>2, <2>3, <2>4 DEF Inv
<1>6. CASE Register
  <2>1. /\ main = "start" /\ main' = "running" /\ UNCHANGED <<setupConf, untried, Manager, applied>>
        /\ missed' = (\E n \in Names : setupConf[n] # configuration)
    BY <1>6 DEF Register, colVars
  <2>2. TypeOK'
    BY <1>1, <2>1 DEF Inv, TypeOK, provVars, busVars
  <2>3. ASSUME ~missed', NEW n \in Manager PROVE Told(n)'
    <3>1. n \in Names /\ applied[n] = configuration /\ senders = {} /\ confCh[n] = None
      BY <2>1, <2>3 DEF Inv, TypeOK, NotRunning
    <3> QED
      BY <1>1, <2>1, <3>1 DEF Told, Pending, provVars, busVars
  <2>4. NotRunning' /\ Tells'
    BY <2>1, <2>3 DEF NotRunning, Tells
  <2> QED
    BY <1>2, <2>2, <2>4 DEF Inv
<1> QED
  BY <1>3, <1>4, <1>5, <1>6

-----------------------------------------------------------------------------
(* A callback gives a collector it lists a sender, with what it has read;  *)
(* anything else that is on its way to that collector makes it overtaken.  *)
LEMMA CallingBack ==
  ASSUME Inv, RunCallback
  PROVE  Inv'
<1>1. PICK conf \in GetConfiguration, listed \in SUBSET Names :
        /\ \A n \in Names \ listed : conf[n] % 2 = 1
        /\ senders' = senders \cup NewSenders(conf, listed)
        /\ overtaken' = (overtaken \ listed) \cup {n \in listed : Pending(n) \ {conf[n]} # {}}
  BY DEF RunCallback
<1>2. /\ callbacks > 0 /\ callbacks' = callbacks - 1 /\ nrun' = nrun + 1
      /\ UNCHANGED <<fileVars, events, provVars, mainVars, missed, confCh, applied, endless,
                   crashed>>
  BY DEF RunCallback, colVars
<1>3. Counts' /\ Known'
  <2>1. UNCHANGED <<file, nreplaces, events, provider, configuration, unseen>> /\ Busy' = Busy
    BY <1>2 DEF fileVars, provVars, Busy
  <2>2. Counts'
    BY <1>2, <2>1, Room DEF Counts
  <2> QED
    BY <2>1, <2>2 DEF Inv, Known, Partial
<1>4. TypeOK'
  <2>1. nrun + 1 \in 1 .. MaxCalls /\ callbacks' \in 0 .. MaxCalls
    BY <1>2, <1>3, Room DEF MaxCalls, Counts, fileVars, provVars, Busy
  <2>2. NewSenders(conf, listed) \subseteq Sender
    BY <2>1, Read DEF NewSenders, Sender
  <2> QED
    BY <1>1, <1>2, <2>1, <2>2 DEF Inv, TypeOK, fileVars, provVars, mainVars
<1>5. NotRunning'
  BY <1>2, Room DEF Inv, NotRunning, mainVars
<1>6. ASSUME NEW n \in Manager \ overtaken', provider.pc = "wait", configuration % 2 # 1
      PROVE  Told(n)'
  <2>1. n \in listed /\ conf[n] = configuration /\ n \in Names
    BY <1>1, <1>2, <1>6, Read DEF Inv, TypeOK, mainVars
  <2>2. Pending(n) \subseteq {configuration}
    BY <1>1, <1>6, <2>1
  <2>3. NewSenders(conf, listed) = {[run |-> nrun + 1, name |-> m, conf |-> conf[m]] : m \in listed}
    BY DEF NewSenders
  <2>4. \A s \in NewSenders(conf, listed) : s.name = n => s.conf = configuration
    BY <2>1, <2>3
  <2>5. \E s \in NewSenders(conf, listed) : s.name = n /\ s.conf = configuration
    <3>1. [run |-> nrun + 1, name |-> n, conf |-> conf[n]] \in NewSenders(conf, listed)
      BY <2>1, <2>3
    <3> QED
      BY <2>1, <3>1
  <2>6. \A c : c \in Pending(n)' <=> c \in Pending(n) \/ c = configuration
    BY <1>1, <1>2, <2>4, <2>5 DEF Pending
  <2> QED
    BY <1>2, <2>2, <2>6 DEF Told, provVars
<1>7. Tells'
  BY <1>2, <1>6 DEF Tells, mainVars, provVars
<1> QED
  BY <1>3, <1>4, <1>5, <1>7 DEF Inv

(* A sender and a collector pass on what was on its way.                   *)
LEMMA Delivering ==
  ASSUME Inv, (\E s \in senders : SendConf(s)) \/ \E n \in Names : HandleConf(n)
  PROVE  Inv'
<1>. None \notin Contents /\ senders \subseteq Sender /\ confCh \in [Names -> Contents \cup {None}]
     /\ applied \in [Names -> Contents \cup {None}] /\ Manager \subseteq Names
  BY NoneAssumption DEF Inv, TypeOK
<1>1. UNCHANGED <<fileVars, events, provVars, mainVars, missed, callbacks, nrun, overtaken>>
  BY DEF SendConf, HandleConf, busVars
<1>2. Counts' /\ Known'
  BY <1>1 DEF Inv, Counts, Busy, Known, fileVars, provVars, Partial
<1>3. ASSUME NEW s \in senders, SendConf(s)
      PROVE  TypeOK' /\ NotRunning' /\ \A n \in Manager : Told(n) => Told(n)'
  <2>1. s \in Sender /\ s.name \in Names /\ s.conf \in Contents
    BY DEF Sender
  <2>2. CASE s.name \notin Manager
    BY <1>1, <1>3, <2>2 DEF SendConf, colVars, Inv, TypeOK, NotRunning, Told, Pending, fileVars, provVars, mainVars
  <2>3. CASE s.name \in Manager
    <3>1. /\ confCh[s.name] = None /\ confCh' = [confCh EXCEPT ![s.name] = s.conf]
          /\ senders' = senders \ {s} /\ UNCHANGED <<crashed, applied, endless>>
      BY <1>3, <2>3 DEF SendConf, colVars
    <3>2. \A n \in Names : \A c : c \in Pending(n)' <=> c \in Pending(n)
      <4> TAKE n \in Names
      <4>1. CASE n = s.name
        BY <2>1, <3>1, <4>1 DEF Pending
      <4>2. CASE n # s.name
        BY <2>1, <3>1, <4>2 DEF Pending
      <4> QED
        BY <4>1, <4>2
    <3>3. TypeOK'
      BY <1>1, <2>1, <3>1 DEF Inv, TypeOK, fileVars, provVars, mainVars
    <3>4. NotRunning'
      BY <1>1, <3>1 DEF Inv, NotRunning, mainVars
    <3> QED
      BY <1>1, <3>1, <3>2, <3>3, <3>4 DEF Told, provVars
  <2> QED
    BY <2>2, <2>3
<1>4. ASSUME NEW n \in Names, HandleConf(n)
      PROVE  TypeOK' /\ NotRunning' /\ \A m \in Manager : Told(m) => Told(m)'
  <2>1. /\ confCh[n] # None /\ applied' = [applied EXCEPT ![n] = confCh[n]]
        /\ confCh' = [confCh EXCEPT ![n] = None] /\ UNCHANGED <<senders, crashed>>
        /\ endless' \in {endless, endless \cup {n}}
    BY <1>4 DEF HandleConf, busVars
  <2>2. TypeOK'
    BY <1>1, <2>1 DEF Inv, TypeOK, fileVars, provVars, mainVars
  <2>3. NotRunning'
    BY <1>1, <2>1 DEF Inv, NotRunning, mainVars
  <2>4. ASSUME NEW m \in Manager, Told(m) PROVE Told(m)'
    <3>1. CASE m = n
      BY <1>1, <2>1, <2>4, <3>1 DEF Told, Pending, provVars
    <3>2. CASE m # n
      BY <1>1, <2>1, <2>4, <3>2 DEF Told, Pending, provVars
    <3> QED
      BY <3>1, <3>2
  <2> QED
    BY <2>2, <2>3, <2>4
<1>5. TypeOK' /\ NotRunning' /\ \A n \in Manager : Told(n) => Told(n)'
  BY <1>3, <1>4
<1>6. Tells'
  BY <1>1, <1>5 DEF Inv, Tells, provVars, mainVars
<1> QED
  BY <1>2, <1>5, <1>6 DEF Inv

\* every step of the watcher, the senders, the collectors and the start keeps it
LEMMA Step == Inv /\ [Next]_vars => Inv'
<1> SUFFICES ASSUME Inv, [Next]_vars PROVE Inv'
  OBVIOUS
<1>1. CASE UNCHANGED vars
  BY <1>1 DEF vars, colVars, fileVars, provVars, mainVars, busVars, Inv, TypeOK, Counts, Busy, NotRunning, Known, Partial,
       Tells, Told, Pending
<1>2. CASE Next
  BY <1>2, Changing, Providing, SettingUp, CallingBack, Delivering DEF Next
<1> QED
  BY <1>1, <1>2

(* The types of the bus; its counters are bounded by the file's writes.    *)
THEOREM BusTypes == Spec => []TypeOK
<1>1. Inv => TypeOK
  BY DEF Inv
<1> QED
  BY <1>1, Start, Step, PTL DEF Spec

(* provider/config.go, setter.go, collector.go: when nothing is left to do *)
(* for the watcher and the callback, a running collector works with the    *)
(* file's content, or it is the only one on its way to it, unless the      *)
(* change fell into the start, was not watched, or the collector is being  *)
(* overtaken.                                                              *)
THEOREM Delivered == Spec => []DeliveredOrPending
<1>1. Inv => DeliveredOrPending
  <2> SUFFICES ASSUME Inv, BusIdle, ~missed, ~unseen, NEW n \in Manager \ overtaken
               PROVE  UpToDate(n)
    BY DEF DeliveredOrPending
  <2>1. configuration = file /\ configuration % 2 # 1
    BY DEF BusIdle, Inv, Known, Partial
  <2>2. Told(n)
    BY <2>1 DEF BusIdle, Inv, Tells
  <2> QED
    BY <2>1, <2>2 DEF Told, UpToDate
<1> QED
  BY <1>1, Start, Step, PTL DEF Spec
=============================================================================
