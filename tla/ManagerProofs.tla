----------------------------- MODULE ManagerProofs -----------------------------
(***************************************************************************)
(* Proofs about Manager, for any number of modules, commands and events,   *)
(* and any timeout, period and length of the log: types, that a module     *)
(* heard once and silent since is offline, that one lost heartbeat takes   *)
(* none offline, and that the log and the modules agree.                   *)
(***************************************************************************)
EXTENDS Manager, TLAPS

\* A module that is shown online was seen no longer ago than a timeout and what
\* has passed since the last refresh.
SeenInv ==
  \A m \in Modules :
    modules[m].last_heartbeat # None =>
      /\ modules[m].last_seen # None
      /\ modules[m].last_seen <= modules[m].last_heartbeat
      /\ modules[m].online =>
           modules[m].last_seen + refresh_in <= HeartbeatTimeout + MaintenancePeriod

\* Without an event, heartbeats are a tick apart; one event adds one tick.
BeatsInv ==
  /\ events <= 1 => \A m \in on :
       /\ modules[m].state # "offline"
       /\ modules[m].last_heartbeat # None =>
            modules[m].last_heartbeat + heartbeat_in[m] <= 1 + events
  /\ events = 0 => \A m \in Modules \ on :
       modules[m].state # "offline" /\ modules[m].last_heartbeat = None

\* A command is logged when it is done.
LoggedDone ==
  \A i \in DOMAIN command_log : commands[command_log[i][1]].step = "done"

Inv == TypeOK /\ SeenInv /\ BeatsInv /\ LogAgrees /\ LoggedDone
-----------------------------------------------------------------------------
(* What an ingested message and a refresh do to a module's state *)

ModuleStates ==
  [online : BOOLEAN, state : {"unknown", "run", "offline"}, last_heartbeat : Ages,
   last_seen : Ages, last_command : Results \cup {<<>>}]

LEMMA Bounds ==
  /\ HeartbeatTimeout \in Nat /\ HeartbeatTimeout > 1
  /\ MaintenancePeriod \in Nat /\ MaintenancePeriod > 0
  /\ LogLimit \in Nat /\ LogLimit > 0 /\ MaxEvents \in Nat
  /\ MaxAge \in Nat /\ MaxAge = HeartbeatTimeout + MaintenancePeriod + 1
  BY ManagerAssumption DEF MaxAge

LEMMA AgesTyped ==
  /\ 0 \in Ages /\ None \in Ages /\ None = -1
  /\ \A age \in Ages : age \in Int /\ (age # None => age \in 0 .. MaxAge)
  BY Bounds DEF Ages, None

LEMMA StatesTyped ==
  ASSUME TypeOK, NEW m \in Modules
  PROVE  /\ modules \in [Modules -> ModuleStates] /\ modules[m] \in ModuleStates
         /\ modules[m].online \in BOOLEAN
         /\ modules[m].last_heartbeat \in Ages /\ modules[m].last_seen \in Ages
  BY DEF TypeOK, ModuleStates

LEMMA AtMostTransitive ==
  \A a, b, c \in Int : a <= b /\ b <= c => a <= c
  OBVIOUS

LEMMA TimesTyped ==
  ASSUME TypeOK, NEW n \in Modules
  PROVE  modules[n].last_heartbeat \in Int /\ heartbeat_in[n] \in Int
  <1>1. modules[n].last_heartbeat \in Ages
    BY StatesTyped
  <1>2. modules[n].last_heartbeat \in Int
    BY <1>1, AgesTyped, Zenon
  <1>3. heartbeat_in[n] \in 0 .. 1
    BY DEF TypeOK
  <1>4. QED
    BY <1>2, <1>3

LEMMA HeartbeatIngested ==
  ASSUME NEW r \in ModuleStates
  PROVE  LET s == IngestHeartbeat(r) IN
         /\ s \in ModuleStates /\ s.state = "run" /\ s.last_heartbeat = 0
         /\ s.last_seen = 0 /\ s.last_command = r.last_command
  BY AgesTyped DEF IngestHeartbeat, Seen, ModuleStates

LEMMA ConnectionIngested ==
  ASSUME NEW r \in ModuleStates, NEW detected \in BOOLEAN
  PROVE  LET s == IngestConnection(r, detected) IN
         /\ s \in ModuleStates /\ s.state = r.state
         /\ s.last_heartbeat = r.last_heartbeat
         /\ s.last_seen = 0 /\ s.last_command = r.last_command
  BY AgesTyped DEF IngestConnection, Seen, ModuleStates

LEMMA ReadingIngested ==
  ASSUME NEW r \in ModuleStates
  PROVE  LET s == IngestReading(r) IN
         /\ s \in ModuleStates /\ s.state = r.state
         /\ s.last_heartbeat = r.last_heartbeat
         /\ s.last_seen = 0 /\ s.last_command = r.last_command
  BY AgesTyped DEF IngestReading, Seen, ModuleStates

LEMMA RefreshedState ==
  ASSUME NEW r \in ModuleStates
  PROVE  LET s == Refreshed(r) IN
         /\ s \in ModuleStates /\ s.last_heartbeat = r.last_heartbeat
         /\ s.last_seen = r.last_seen /\ s.last_command = r.last_command
         /\ (r.last_heartbeat # None /\ s.online) =>
              r.online /\ r.last_heartbeat <= HeartbeatTimeout
         /\ (r.last_heartbeat = None \/ r.last_heartbeat <= HeartbeatTimeout) =>
              s.state = r.state
  <1>1. CASE TimedOut(r)
    <2>1. Refreshed(r) = [r EXCEPT !.online = FALSE, !.state = "offline"]
      BY <1>1 DEF Refreshed
    <2>2. ~Refreshed(r).online
      BY <2>1, Zenon DEF ModuleStates
    <2>3. r.last_heartbeat \in Int /\ ~(r.last_heartbeat = None \/ r.last_heartbeat <= HeartbeatTimeout)
      <3>1. r.last_heartbeat # None /\ r.last_heartbeat > HeartbeatTimeout
        BY <1>1, Zenon DEF TimedOut
      <3>2. r.last_heartbeat \in Ages
        BY DEF ModuleStates
      <3>3. r.last_heartbeat \in Int
        BY <3>2, AgesTyped, Zenon
      <3>4. HeartbeatTimeout \in Int
        BY Bounds
      <3>5. QED
        BY <3>1, <3>3, <3>4
    <2>4. QED
      BY <2>1, <2>2, <2>3 DEF ModuleStates
  <1>2. CASE ~TimedOut(r)
    <2>1. Refreshed(r) = r
      BY <1>2 DEF Refreshed
    <2>2. r.last_heartbeat \in Int
      BY AgesTyped DEF ModuleStates
    <2>3. QED
      BY <1>2, <2>1, <2>2, Bounds DEF TimedOut
  <1>3. QED
    BY <1>1, <1>2
-----------------------------------------------------------------------------
(* The log *)

\* A deque with a maxlen: what is appended pushes at most the oldest out.
LogAfter(new, log, e) ==
  LET gone == IF Len(log) = LogLimit THEN 1 ELSE 0 IN
  /\ new \in Seq(Results) /\ Len(new) = Len(log) + 1 - gone
  /\ Len(new) \in Nat /\ Len(new) > 0 /\ Len(new) <= LogLimit
  /\ DOMAIN new = 1 .. Len(new) /\ new[Len(new)] = e
  /\ \A i \in 1 .. Len(new) - 1 : i + gone \in DOMAIN log /\ new[i] = log[i + gone]
  /\ \A i \in DOMAIN log : i > gone => i - gone \in 1 .. Len(new) - 1

LEMMA Appended ==
  ASSUME NEW log \in Seq(Results), Len(log) <= LogLimit, NEW e \in Results
  PROVE  LogAfter(Newest(Append(log, e), LogLimit), log, e)
  <1> DEFINE all == Append(log, e)
             new == Newest(all, LogLimit)
  <1>1. /\ all \in Seq(Results) /\ Len(all) = Len(log) + 1 /\ Len(log) \in Nat
        /\ DOMAIN log = 1 .. Len(log)
        /\ \A i \in 1 .. Len(log) : all[i] = log[i]
        /\ all[Len(log) + 1] = e
    OBVIOUS
  <1> HIDE DEF all
  <1>2. ASSUME Len(log) = LogLimit PROVE LogAfter(new, log, e)
    <2>1. new = SubSeq(all, 2, LogLimit + 1)
      BY <1>1, <1>2, Bounds DEF Newest
    <2>2. /\ new \in Seq(Results) /\ Len(new) = LogLimit /\ DOMAIN new = 1 .. LogLimit
          /\ \A i \in 1 .. LogLimit : new[i] = all[i + 1]
      BY <1>1, <1>2, <2>1, Bounds
    <2> HIDE DEF new
    <2>3. QED
      BY <1>1, <1>2, <2>2, Bounds DEF LogAfter
  <1>3. ASSUME Len(log) # LogLimit PROVE LogAfter(new, log, e)
    <2>1. Len(log) + 1 <= LogLimit
      <3>1. LogLimit \in Nat
        BY Bounds
      <3>2. Len(log) \in Nat /\ Len(log) <= LogLimit /\ Len(log) # LogLimit
        BY <1>1, <1>3
      <3>3. QED
        BY <3>1, <3>2
    <2>2. new = all
      BY <1>1, <2>1 DEF Newest
    <2> HIDE DEF new
    <2>3. QED
      BY <1>1, <1>3, <2>1, <2>2 DEF LogAfter
  <1>4. LogAfter(new, log, e)
    BY <1>2, <1>3
  <1>5. QED
    BY <1>4 DEF all

\* Steps that log nothing and keep the last commands.
LEMMA LogKept ==
  ASSUME Inv, UNCHANGED command_log,
         \A m \in Modules : modules'[m].last_command = modules[m].last_command,
         \A c \in Commands : commands[c].step = "done" => commands'[c].step = "done"
  PROVE  LogAgrees' /\ LoggedDone'
  <1>1. LogAgrees'
    BY DEF Inv, LogAgrees
  <1>2. \A i \in DOMAIN command_log : command_log[i][1] \in Commands
    BY DEF Inv, TypeOK, Results
  <1>3. LoggedDone'
    BY <1>2 DEF Inv, LoggedDone
  <1>4. QED
    BY <1>1, <1>3

\* A command that ends is logged, once, and kept with its module.
LEMMA ResultLogged ==
  ASSUME Inv, NEW c \in Commands, NEW m \in Modules,
         NEW status \in {"rejected", "accepted", "transport_error"},
         MarkCommandResult(c, m, status), commands[c].step # "done",
         commands' = [commands EXCEPT ![c] = [step |-> "done"]]
  PROVE  /\ command_log' \in Seq(Results) /\ Len(command_log') <= LogLimit
         /\ commands' \in [Commands -> {[step |-> "new"], [step |-> "done"]}
                     \cup {[step |-> "sending", target |-> n] : n \in Modules}]
         /\ modules' \in [Modules -> ModuleStates]
         /\ \A n \in Modules :
              /\ modules'[n].online = modules[n].online
              /\ modules'[n].state = modules[n].state
              /\ modules'[n].last_heartbeat = modules[n].last_heartbeat
              /\ modules'[n].last_seen = modules[n].last_seen
         /\ LogAgrees' /\ LoggedDone'
  <1> DEFINE e == <<c, m, status>>
             gone == IF Len(command_log) = LogLimit THEN 1 ELSE 0
             last == Len(command_log')
  <1>1. /\ e \in Results /\ e[1] = c /\ e[2] = m
        /\ command_log \in Seq(Results) /\ Len(command_log) <= LogLimit
        /\ command_log' = Newest(Append(command_log, e), LogLimit)
        /\ modules' = [modules EXCEPT ![m].last_command = e]
    BY DEF MarkCommandResult, Results, Inv, TypeOK
  <1>2. modules \in [Modules -> ModuleStates]
    BY DEF Inv, TypeOK, ModuleStates
  <1> HIDE DEF e
  <1>3. /\ modules' \in [Modules -> ModuleStates]
        /\ \A n \in Modules :
             /\ modules'[n].online = modules[n].online
             /\ modules'[n].state = modules[n].state
             /\ modules'[n].last_heartbeat = modules[n].last_heartbeat
             /\ modules'[n].last_seen = modules[n].last_seen
             /\ modules'[n].last_command = IF n = m THEN e ELSE modules[n].last_command
    BY <1>1, <1>2 DEF ModuleStates
  <1>4. /\ command_log' \in Seq(Results) /\ last = Len(command_log) + 1 - gone
        /\ last \in Nat /\ last > 0 /\ last <= LogLimit
        /\ DOMAIN command_log' = 1 .. last /\ command_log'[last] = e
        /\ \A i \in 1 .. last - 1 :
             i + gone \in DOMAIN command_log /\ command_log'[i] = command_log[i + gone]
        /\ \A i \in DOMAIN command_log : i > gone => i - gone \in 1 .. last - 1
    <2>1. /\ e \in Results /\ command_log \in Seq(Results) /\ Len(command_log) <= LogLimit
          /\ command_log' = Newest(Append(command_log, e), LogLimit)
      BY <1>1
    <2>2. LogAfter(command_log', command_log, e)
      BY <2>1, Appended
    <2>3. QED
      BY <2>2 DEF LogAfter
  <1>5. gone \in {0, 1} /\ (gone = 1 => last = LogLimit)
    BY <1>1, <1>4
  <1>6. /\ DOMAIN command_log = 1 .. Len(command_log) /\ Len(command_log) \in Nat
        /\ \A i \in DOMAIN command_log :
             /\ command_log[i][1] \in Commands /\ command_log[i][1] # c
             /\ commands[command_log[i][1]].step = "done"
    BY <1>1 DEF Inv, LoggedDone, Results
  <1> HIDE DEF gone, last
  <1>7. ASSUME NEW n \in Modules
        PROVE  LET own == {i \in DOMAIN command_log' : command_log'[i][2] = n} IN
               IF own = {} THEN modules'[n].last_command # <<>> => last = LogLimit
               ELSE \E i \in own : /\ \A j \in own : j <= i
                                    /\ modules'[n].last_command = command_log'[i]
    <2> DEFINE own == {i \in DOMAIN command_log : command_log[i][2] = n}
               own1 == {i \in DOMAIN command_log' : command_log'[i][2] = n}
    <2>1. CASE n = m
      <3>1. last \in own1 /\ \A j \in own1 : j <= last
        BY <1>1, <1>4, <2>1
      <3>2. modules'[n].last_command = command_log'[last]
        BY <1>3, <1>4, <2>1
      <3> HIDE DEF own1
      <3>3. QED
        BY <3>1, <3>2 DEF own1
    <2>2. CASE n # m
      <3>1. modules'[n].last_command = modules[n].last_command
        BY <1>3, <2>2
      <3>2. \A i \in own1 : i + gone \in own /\ i \in 1 .. last - 1
        BY <1>1, <1>4, <2>2
      <3>3. \A i \in own : i > gone =>
              i - gone \in own1 /\ command_log'[i - gone] = command_log[i]
        <4> TAKE i \in own
        <4> HAVE i > gone
        <4>1. i - gone \in 1 .. last - 1 /\ i \in Nat
          BY <1>4, <1>6
        <4>2. command_log'[i - gone] = command_log[(i - gone) + gone] /\ (i - gone) + gone = i
          BY <1>4, <1>5, <4>1
        <4>3. i - gone \in DOMAIN command_log'
          BY <1>4, <4>1
        <4>4. QED
          BY <4>2, <4>3
      <3>4. IF own = {} THEN modules[n].last_command # <<>> => Len(command_log) = LogLimit
            ELSE \E i \in own : /\ \A j \in own : j <= i
                                 /\ modules[n].last_command = command_log[i]
        BY DEF Inv, LogAgrees
      <3>5. Len(command_log) = LogLimit => gone = 1
        BY DEF gone
      <3>6. own \subseteq Nat /\ own1 \subseteq Nat
        BY <1>4, <1>6
      <3> HIDE DEF own, own1
      <3>7. CASE own1 = {}
        <4>1. CASE own = {}
          BY <1>5, <3>1, <3>4, <3>5, <3>7, <4>1 DEF own1
        <4>2. CASE own # {}
          <5>1. PICK i \in own : TRUE
            BY <4>2
          <5>2. i <= gone /\ i > 0
            BY <1>5, <1>6, <3>3, <3>6, <3>7, <5>1 DEF own
          <5>3. gone = 1
            BY <1>5, <3>6, <5>1, <5>2
          <5>4. QED
            BY <1>5, <3>7, <5>3 DEF own1
        <4>3. QED
          BY <4>1, <4>2
      <3>8. CASE own1 # {}
        <4>1. PICK k \in own1 : TRUE
          BY <3>8
        <4>2. own # {}
          BY <3>2, <4>1
        <4>3. PICK i \in own : /\ \A j \in own : j <= i
                               /\ modules[n].last_command = command_log[i]
          BY <3>4, <4>2
        <4>4. k + gone <= i /\ k > 0
          BY <1>4, <3>2, <4>1, <4>3
        <4>5. i > gone
          BY <1>5, <3>6, <4>1, <4>3, <4>4
        <4>6. i - gone \in own1 /\ command_log'[i - gone] = command_log[i]
          BY <3>3, <4>3, <4>5
        <4>7. \A j \in own1 : j <= i - gone
          BY <1>5, <3>2, <3>6, <4>3
        <4>8. QED
          BY <3>1, <3>8, <4>3, <4>6, <4>7 DEF own1
      <3>9. QED
        BY <3>7, <3>8
    <2>3. QED
      BY <2>1, <2>2
  <1>8. ASSUME NEW i \in DOMAIN command_log', NEW j \in DOMAIN command_log',
               command_log'[i][1] = command_log'[j][1]
        PROVE  i = j
    <2>1. \A k \in 1 .. last - 1 : command_log'[k][1] # c
      BY <1>4, <1>6
    <2>2. CASE i = last \/ j = last
      BY <1>1, <1>4, <1>8, <2>1, <2>2
    <2>3. CASE i # last /\ j # last
      <3>1. i \in 1 .. last - 1 /\ j \in 1 .. last - 1
        BY <1>4, <2>3
      <3>2. i + gone = j + gone
        BY <1>4, <1>8, <3>1 DEF Inv, LogAgrees
      <3>3. QED
        BY <1>5, <3>1, <3>2
    <2>4. QED
      BY <2>2, <2>3
  <1>9. LogAgrees'
    BY <1>7, <1>8 DEF LogAgrees, last
  <1>10. commands' \in [Commands -> {[step |-> "new"], [step |-> "done"]}
                     \cup {[step |-> "sending", target |-> n] : n \in Modules}]
    BY DEF Inv, TypeOK
  <1>11. LoggedDone'
    <2>1. commands'[c].step = "done" /\ \A d \in Commands : d # c => commands'[d] = commands[d]
      BY DEF Inv, TypeOK
    <2>2. QED
      BY <1>1, <1>4, <1>6, <2>1 DEF LoggedDone
  <1>12. QED
    BY <1>3, <1>4, <1>9, <1>10, <1>11 DEF last
-----------------------------------------------------------------------------
(* One lemma a step *)

LEMMA InitInv == Init => Inv
  <1> SUFFICES ASSUME Init PROVE Inv
    OBVIOUS
  <1>1. Unknown \in ModuleStates
    BY AgesTyped DEF Unknown, ModuleStates
  <1>2. modules \in [Modules -> ModuleStates]
    BY <1>1 DEF Init
  <1>3. TypeOK
    BY <1>2, Bounds DEF Init, TypeOK, ModuleStates
  <1>4. SeenInv
    BY DEF Init, SeenInv, Unknown
  <1>5. BeatsInv
    BY DEF Init, BeatsInv, Unknown
  <1>6. LogAgrees /\ LoggedDone
    BY DEF Init, LogAgrees, LoggedDone, Unknown
  <1>7. QED
    BY <1>3, <1>4, <1>5, <1>6 DEF Inv

\* A step in which one module is seen, and nothing is logged.
LEMMA OneSeen ==
  ASSUME Inv, NEW m \in Modules, NEW r \in ModuleStates,
         modules' = [modules EXCEPT ![m] = r],
         r.last_seen = 0, r.last_command = modules[m].last_command,
         r.last_heartbeat \in {0, modules[m].last_heartbeat},
         UNCHANGED <<refresh_in, command_log, commands>>
  PROVE  /\ modules' \in [Modules -> ModuleStates]
         /\ SeenInv' /\ LogAgrees' /\ LoggedDone'
         /\ modules'[m] = r /\ \A n \in Modules \ {m} : modules'[n] = modules[n]
  <1>1. /\ modules' \in [Modules -> ModuleStates] /\ modules'[m] = r
        /\ \A n \in Modules \ {m} : modules'[n] = modules[n]
    BY StatesTyped DEF Inv
  <1>2. \A n \in Modules : modules'[n].last_command = modules[n].last_command
    BY <1>1
  <1>3. LogAgrees' /\ LoggedDone'
    BY <1>2, LogKept
  <1>4. r.last_heartbeat # None => r.last_heartbeat \in 0 .. MaxAge
    BY AgesTyped DEF ModuleStates
  <1>5. SeenInv'
    <2> SUFFICES ASSUME NEW n \in Modules, modules'[n].last_heartbeat # None
                 PROVE  /\ modules'[n].last_seen # None
                        /\ modules'[n].last_seen <= modules'[n].last_heartbeat
                        /\ modules'[n].online =>
                             modules'[n].last_seen + refresh_in' <= HeartbeatTimeout + MaintenancePeriod
      BY DEF SeenInv
    <2>1. CASE n = m
      <3>1. refresh_in \in 0 .. MaintenancePeriod
        BY DEF Inv, TypeOK
      <3>2. QED
        BY <1>1, <1>4, <2>1, <3>1, Bounds, AgesTyped
    <2>2. CASE n # m
      BY <1>1, <2>2 DEF Inv, SeenInv
    <2>3. QED
      BY <2>1, <2>2
  <1>6. QED
    BY <1>1, <1>3, <1>5

LEMMA StateUnchanged ==
  ASSUME Inv, UNCHANGED <<modules, refresh_in, command_log, commands>>
  PROVE  modules' \in [Modules -> ModuleStates] /\ SeenInv' /\ LogAgrees' /\ LoggedDone'
  <1>1. modules' \in [Modules -> ModuleStates]
    BY DEF Inv, TypeOK, ModuleStates
  <1>2. LogAgrees' /\ LoggedDone'
    BY LogKept
  <1>3. SeenInv'
    BY DEF Inv, SeenInv
  <1>4. QED
    BY <1>1, <1>2, <1>3

LEMMA EventCounted ==
  ASSUME Inv
  PROVE  /\ events \in Nat
         /\ Event => events' \in 0 .. MaxEvents /\ events' = events + 1
  BY Bounds DEF Inv, TypeOK, Event

\* An event after which the heartbeats go on as before allows them more time.
LEMMA BeatsLoosen ==
  ASSUME Inv, Event, on' = on,
         \A n \in Modules : /\ modules'[n].state = modules[n].state
                           /\ modules'[n].last_heartbeat = modules[n].last_heartbeat,
         \A n \in Modules :
           heartbeat_in'[n] \in Int /\ heartbeat_in'[n] <= heartbeat_in[n] + 1
  PROVE  BeatsInv'
  <1>1. events' = events + 1 /\ events \in Nat
    BY EventCounted
  <1>2. on \subseteq Modules
    BY DEF Inv, TypeOK
  <1>3. \A n \in Modules : modules[n].last_heartbeat \in Int /\ heartbeat_in[n] \in Int
    <2>1. \A n \in Modules : modules[n].last_heartbeat \in Int
      BY StatesTyped, AgesTyped DEF Inv
    <2>2. \A n \in Modules : heartbeat_in[n] \in Int
      BY DEF Inv, TypeOK
    <2>3. QED
      BY <2>1, <2>2
  <1>4. ASSUME events' <= 1, NEW n \in on
        PROVE  /\ modules'[n].state # "offline"
               /\ modules'[n].last_heartbeat # None =>
                    modules'[n].last_heartbeat + heartbeat_in'[n] <= 1 + events'
    <2>1. /\ modules[n].state # "offline"
          /\ modules[n].last_heartbeat # None =>
               modules[n].last_heartbeat + heartbeat_in[n] <= 1 + events
      BY <1>1, <1>4 DEF Inv, BeatsInv
    <2>2. n \in Modules
      BY <1>2
    <2>3. heartbeat_in[n] \in Int /\ heartbeat_in'[n] \in Int /\ heartbeat_in'[n] <= heartbeat_in[n] + 1
      BY <1>3, <2>2
    <2>4. QED
      BY <1>1, <1>3, <2>1, <2>2, <2>3
  <1>5. QED
    BY <1>1, <1>4 DEF BeatsInv

LEMMA HeartbeatStep ==
  ASSUME Inv, NEW m \in Modules, Heartbeat(m)
  PROVE  Inv'
  <1> DEFINE r == IngestHeartbeat(modules[m])
  <1>1. /\ r \in ModuleStates /\ r.state = "run" /\ r.last_heartbeat = 0
        /\ r.last_seen = 0 /\ r.last_command = modules[m].last_command
    BY HeartbeatIngested, StatesTyped DEF Inv
  <1> HIDE DEF r
  <1>2. /\ m \in on /\ heartbeat_in[m] = 0 /\ heartbeat_in' = [heartbeat_in EXCEPT ![m] = 1]
        /\ \/ modules' = [modules EXCEPT ![m] = r] /\ UNCHANGED events
           \/ Event /\ UNCHANGED modules
        /\ UNCHANGED <<on, connected, refresh_in, command_log, commands>>
    BY DEF Heartbeat, Receive, r
  <1>3. /\ heartbeat_in' \in [Modules -> 0 .. 1] /\ heartbeat_in'[m] = 1
        /\ \A n \in Modules \ {m} : heartbeat_in'[n] = heartbeat_in[n]
    BY <1>2 DEF Inv, TypeOK
  <1>4. CASE modules' = [modules EXCEPT ![m] = r] /\ UNCHANGED events
    <2>1. /\ modules' \in [Modules -> ModuleStates]
          /\ SeenInv' /\ LogAgrees' /\ LoggedDone'
          /\ modules'[m] = r /\ \A n \in Modules \ {m} : modules'[n] = modules[n]
      BY <1>1, <1>2, <1>4, OneSeen
    <2>2. TypeOK'
      BY <1>2, <1>3, <1>4, <2>1 DEF Inv, TypeOK, ModuleStates
    <2>3. BeatsInv'
      BY <1>1, <1>2, <1>3, <1>4, <2>1, EventCounted DEF Inv, BeatsInv, TypeOK
    <2>4. QED
      BY <2>1, <2>2, <2>3 DEF Inv
  <1>5. CASE Event /\ UNCHANGED modules
    <2>1. modules' \in [Modules -> ModuleStates] /\ SeenInv' /\ LogAgrees' /\ LoggedDone'
      BY <1>2, <1>5, StateUnchanged
    <2>2. TypeOK'
      BY <1>2, <1>3, <1>5, <2>1, EventCounted DEF Inv, TypeOK, ModuleStates
    <2>3. BeatsInv'
      <3>1. \A n \in Modules :
              heartbeat_in'[n] \in Int /\ heartbeat_in'[n] <= heartbeat_in[n] + 1
        BY <1>2, <1>3 DEF Inv, TypeOK
      <3>2. QED
        BY <1>2, <1>5, <3>1, BeatsLoosen
    <2>4. QED
      BY <2>1, <2>2, <2>3 DEF Inv
  <1>6. QED
    BY <1>2, <1>4, <1>5

LEMMA ReadingStep ==
  ASSUME Inv, NEW m \in Modules, Reading(m)
  PROVE  Inv'
  <1> DEFINE r == IngestReading(modules[m])
  <1>1. /\ r \in ModuleStates /\ r.state = modules[m].state
        /\ r.last_heartbeat = modules[m].last_heartbeat
        /\ r.last_seen = 0 /\ r.last_command = modules[m].last_command
    BY ReadingIngested, StatesTyped DEF Inv
  <1> HIDE DEF r
  <1>2. /\ m \in on
        /\ \/ modules' = [modules EXCEPT ![m] = r] /\ UNCHANGED events
           \/ Event /\ UNCHANGED modules
        /\ UNCHANGED <<on, connected, heartbeat_in, refresh_in, command_log, commands>>
    BY DEF Reading, Receive, r, world
  <1>3. CASE modules' = [modules EXCEPT ![m] = r] /\ UNCHANGED events
    <2>1. /\ modules' \in [Modules -> ModuleStates]
          /\ SeenInv' /\ LogAgrees' /\ LoggedDone'
          /\ modules'[m] = r /\ \A n \in Modules \ {m} : modules'[n] = modules[n]
      BY <1>1, <1>2, <1>3, OneSeen
    <2>2. TypeOK'
      BY <1>2, <1>3, <2>1 DEF Inv, TypeOK, ModuleStates
    <2>3. BeatsInv'
      BY <1>1, <1>2, <1>3, <2>1 DEF Inv, BeatsInv, TypeOK
    <2>4. QED
      BY <2>1, <2>2, <2>3 DEF Inv
  <1>4. CASE Event /\ UNCHANGED modules
    <2>1. modules' \in [Modules -> ModuleStates] /\ SeenInv' /\ LogAgrees' /\ LoggedDone'
      BY <1>2, <1>4, StateUnchanged
    <2>2. TypeOK'
      BY <1>2, <1>4, <2>1, EventCounted DEF Inv, TypeOK, ModuleStates
    <2>3. BeatsInv'
      <3>1. \A n \in Modules :
              heartbeat_in'[n] \in Int /\ heartbeat_in'[n] <= heartbeat_in[n] + 1
        BY <1>2 DEF Inv, TypeOK
      <3>2. QED
        BY <1>2, <1>4, <3>1, BeatsLoosen
    <2>4. QED
      BY <2>1, <2>2, <2>3 DEF Inv
  <1>5. QED
    BY <1>2, <1>3, <1>4

LEMMA SwitchOnStep ==
  ASSUME Inv, NEW m \in Modules, SwitchOn(m)
  PROVE  Inv'
  <1> DEFINE r == IngestConnection(modules[m], TRUE)
  <1>1. /\ r \in ModuleStates /\ r.state = modules[m].state
        /\ r.last_heartbeat = modules[m].last_heartbeat
        /\ r.last_seen = 0 /\ r.last_command = modules[m].last_command
    BY ConnectionIngested, StatesTyped DEF Inv
  <1> HIDE DEF r
  <1>2. /\ m \notin on /\ on' = on \cup {m} /\ heartbeat_in' = [heartbeat_in EXCEPT ![m] = 1]
        /\ modules' = [modules EXCEPT ![m] = r] \/ UNCHANGED modules
        /\ UNCHANGED <<connected, refresh_in, command_log, commands>>
        /\ events' \in 0 .. MaxEvents /\ events' = events + 1 /\ events \in Nat
    BY EventCounted DEF SwitchOn, r
  <1>3. /\ modules' \in [Modules -> ModuleStates]
        /\ SeenInv' /\ LogAgrees' /\ LoggedDone'
        /\ \A n \in Modules : /\ modules'[n].state = modules[n].state
                              /\ modules'[n].last_heartbeat = modules[n].last_heartbeat
    <2>1. CASE modules' = [modules EXCEPT ![m] = r]
      BY <1>1, <1>2, <2>1, OneSeen
    <2>2. CASE UNCHANGED modules
      BY <1>2, <2>2, StateUnchanged
    <2>3. QED
      BY <1>2, <2>1, <2>2
  <1>4. /\ heartbeat_in' \in [Modules -> 0 .. 1]
        /\ \A n \in Modules \ {m} : heartbeat_in'[n] = heartbeat_in[n]
    BY <1>2 DEF Inv, TypeOK
  <1>5. TypeOK'
    BY <1>2, <1>3, <1>4 DEF Inv, TypeOK, ModuleStates
  <1>6. BeatsInv'
    <2>1. on \subseteq Modules
      BY DEF Inv, TypeOK
    <2>2. \A n \in Modules : modules[n].last_heartbeat \in Int /\ heartbeat_in[n] \in Int
      BY TimesTyped DEF Inv
    <2>3. ASSUME events' <= 1, NEW n \in on'
          PROVE  /\ modules'[n].state # "offline"
                 /\ modules'[n].last_heartbeat # None =>
                      modules'[n].last_heartbeat + heartbeat_in'[n] <= 1 + events'
      <3>1. CASE n = m
        <4>1. events = 0
          BY <1>2, <2>3
        <4>2. modules[m].state # "offline" /\ modules[m].last_heartbeat = None
          BY <1>2, <4>1 DEF Inv, BeatsInv
        <4>3. QED
          BY <1>3, <3>1, <4>2
      <3>2. CASE n # m
        <4>1. n \in on /\ n \in Modules
          BY <1>2, <2>1, <2>3, <3>2
        <4>2. /\ modules[n].state # "offline"
              /\ modules[n].last_heartbeat # None =>
                   modules[n].last_heartbeat + heartbeat_in[n] <= 1 + events
          BY <1>2, <2>3, <4>1 DEF Inv, BeatsInv
        <4>3. QED
          BY <1>2, <1>3, <1>4, <2>2, <3>2, <4>1, <4>2
      <3>3. QED
        BY <3>1, <3>2
    <2>4. QED
      BY <1>2, <2>3 DEF BeatsInv
  <1>7. QED
    BY <1>3, <1>5, <1>6 DEF Inv

LEMMA SwitchOffStep ==
  ASSUME Inv, NEW m \in Modules, SwitchOff(m)
  PROVE  Inv'
  <1>1. /\ on' \subseteq on
        /\ UNCHANGED <<connected, heartbeat_in, refresh_in, modules, command_log, commands>>
        /\ events' \in 0 .. MaxEvents /\ events' = events + 1 /\ events \in Nat
    BY EventCounted DEF SwitchOff
  <1>2. modules' \in [Modules -> ModuleStates] /\ SeenInv' /\ LogAgrees' /\ LoggedDone'
    BY <1>1, StateUnchanged
  <1>3. TypeOK'
    BY <1>1 DEF Inv, TypeOK
  <1>4. BeatsInv'
    <2>1. \A n \in Modules : modules[n].last_heartbeat \in Int /\ heartbeat_in[n] \in Int
      BY TimesTyped DEF Inv
    <2>2. ASSUME events' <= 1, NEW n \in on'
          PROVE  /\ modules[n].state # "offline"
                 /\ modules[n].last_heartbeat # None =>
                      modules[n].last_heartbeat + heartbeat_in[n] <= 1 + events'
      <3>1. n \in on /\ n \in Modules
        BY <1>1, <2>2 DEF Inv, TypeOK
      <3>2. /\ modules[n].state # "offline"
            /\ modules[n].last_heartbeat # None =>
                 modules[n].last_heartbeat + heartbeat_in[n] <= 1 + events
        BY <1>1, <2>2, <3>1 DEF Inv, BeatsInv
      <3>3. QED
        BY <1>1, <2>1, <3>1, <3>2
    <2>3. QED
      BY <1>1, <2>2 DEF BeatsInv
  <1>5. QED
    BY <1>2, <1>3, <1>4 DEF Inv

LEMMA PlugStep ==
  ASSUME Inv, NEW m \in Modules, NEW detected \in BOOLEAN, Plug(m, detected)
  PROVE  Inv'
  <1> DEFINE r == IngestConnection(modules[m], detected)
  <1>1. /\ r \in ModuleStates /\ r.state = modules[m].state
        /\ r.last_heartbeat = modules[m].last_heartbeat
        /\ r.last_seen = 0 /\ r.last_command = modules[m].last_command
    BY ConnectionIngested, StatesTyped DEF Inv
  <1> HIDE DEF r
  <1>2. /\ Event /\ connected' \subseteq connected \cup {m}
        /\ modules' = [modules EXCEPT ![m] = r] \/ UNCHANGED modules
        /\ UNCHANGED <<on, heartbeat_in, refresh_in, command_log, commands>>
    BY DEF Plug, r
  <1>3. /\ modules' \in [Modules -> ModuleStates]
        /\ SeenInv' /\ LogAgrees' /\ LoggedDone'
        /\ \A n \in Modules : /\ modules'[n].state = modules[n].state
                              /\ modules'[n].last_heartbeat = modules[n].last_heartbeat
    <2>1. CASE modules' = [modules EXCEPT ![m] = r]
      BY <1>1, <1>2, <2>1, OneSeen
    <2>2. CASE UNCHANGED modules
      BY <1>2, <2>2, StateUnchanged
    <2>3. QED
      BY <1>2, <2>1, <2>2
  <1>4. TypeOK'
    BY <1>2, <1>3, EventCounted DEF Inv, TypeOK, ModuleStates
  <1>5. BeatsInv'
    <2>1. \A n \in Modules :
            heartbeat_in'[n] \in Int /\ heartbeat_in'[n] <= heartbeat_in[n] + 1
      BY <1>2 DEF Inv, TypeOK
    <2>2. QED
      BY <1>2, <1>3, <2>1, BeatsLoosen
  <1>6. QED
    BY <1>3, <1>4, <1>5 DEF Inv

\* The refresh takes offline whatever was seen too long ago, and nothing that
\* missed one heartbeat.
LEMMA MaintenanceStep == Inv /\ Maintenance => Inv'
  <1> SUFFICES ASSUME Inv, Maintenance PROVE Inv'
    OBVIOUS
  <1>1. /\ refresh_in = 0 /\ refresh_in' = MaintenancePeriod
        /\ \A n \in Modules : modules'[n] = Refreshed(modules[n])
        /\ modules' = [n \in Modules |-> Refreshed(modules[n])]
        /\ UNCHANGED <<on, connected, heartbeat_in, command_log, commands, events>>
    BY DEF Maintenance, world
  <1>2. \A n \in Modules :
          /\ modules[n].last_heartbeat \in Int /\ modules[n].last_seen \in Int
          /\ modules'[n] \in ModuleStates
          /\ modules'[n].last_heartbeat = modules[n].last_heartbeat
          /\ modules'[n].last_seen = modules[n].last_seen
          /\ modules'[n].last_command = modules[n].last_command
          /\ (modules[n].last_heartbeat # None /\ modules'[n].online) =>
               modules[n].online /\ modules[n].last_heartbeat <= HeartbeatTimeout
          /\ (modules[n].last_heartbeat = None \/ modules[n].last_heartbeat <= HeartbeatTimeout) =>
               modules'[n].state = modules[n].state
    <2> TAKE n \in Modules
    <2>1. modules[n] \in ModuleStates /\ modules[n].last_heartbeat \in Int
          /\ modules[n].last_seen \in Int
      BY StatesTyped, AgesTyped DEF Inv
    <2>2. modules'[n] = Refreshed(modules[n])
      BY <1>1
    <2>3. QED
      BY <2>1, <2>2, RefreshedState
  <1>3. modules' \in [Modules -> ModuleStates]
    BY <1>1, <1>2
  <1>4. TypeOK'
    BY <1>1, <1>3, Bounds DEF Inv, TypeOK, ModuleStates
  <1>5. SeenInv'
    <2> SUFFICES ASSUME NEW n \in Modules, modules'[n].last_heartbeat # None
                 PROVE  /\ modules'[n].last_seen # None
                        /\ modules'[n].last_seen <= modules'[n].last_heartbeat
                        /\ modules'[n].online =>
                             modules'[n].last_seen + refresh_in' <= HeartbeatTimeout + MaintenancePeriod
      BY DEF SeenInv
    <2>1. modules[n].last_seen # None /\ modules[n].last_seen <= modules[n].last_heartbeat
      BY <1>2 DEF Inv, SeenInv
    <2>2. ASSUME modules'[n].online
          PROVE  modules'[n].last_seen + refresh_in' <= HeartbeatTimeout + MaintenancePeriod
      <3>1. modules[n].last_heartbeat <= HeartbeatTimeout
        BY <1>2, <2>2
      <3>2. modules[n].last_heartbeat \in Int /\ modules[n].last_seen \in Int
            /\ modules'[n].last_seen = modules[n].last_seen
        BY <1>2
      <3>3. QED
        BY <1>1, <2>1, <3>1, <3>2, Bounds
    <2>3. QED
      BY <1>2, <2>1, <2>2
  <1>6. BeatsInv'
    <2>1. ASSUME events <= 1, NEW n \in on
          PROVE  /\ modules'[n].state # "offline"
                 /\ modules'[n].last_heartbeat # None =>
                      modules'[n].last_heartbeat + heartbeat_in[n] <= 1 + events
      <3>1. n \in Modules /\ heartbeat_in[n] \in Nat /\ events \in Nat
        BY <2>1, Bounds DEF Inv, TypeOK
      <3>2. /\ modules[n].state # "offline"
            /\ modules[n].last_heartbeat # None =>
                 modules[n].last_heartbeat + heartbeat_in[n] <= 1 + events
        BY <2>1 DEF Inv, BeatsInv
      <3>3. modules[n].last_heartbeat \in Int
        BY <1>2, <3>1
      <3>4. modules[n].last_heartbeat = None \/ modules[n].last_heartbeat <= HeartbeatTimeout
        BY <2>1, <3>1, <3>2, <3>3, Bounds
      <3>5. QED
        BY <1>2, <3>1, <3>2, <3>4
    <2>2. ASSUME events = 0, NEW n \in Modules \ on
          PROVE  modules'[n].state # "offline" /\ modules'[n].last_heartbeat = None
      <3>1. modules[n].state # "offline" /\ modules[n].last_heartbeat = None
        BY <2>2 DEF Inv, BeatsInv
      <3>2. QED
        BY <1>2, <3>1
    <2>3. QED
      BY <1>1, <2>1, <2>2 DEF BeatsInv
  <1>7. LogAgrees' /\ LoggedDone'
    BY <1>1, <1>2, LogKept
  <1>8. QED
    BY <1>4, <1>5, <1>6, <1>7 DEF Inv

\* What a result that is logged leaves alone.
LEMMA OnlyLogged ==
  ASSUME Inv, UNCHANGED <<world, refresh_in, events>>,
         command_log' \in Seq(Results), Len(command_log') <= LogLimit,
         commands' \in [Commands -> {[step |-> "new"], [step |-> "done"]}
                     \cup {[step |-> "sending", target |-> n] : n \in Modules}],
         modules' \in [Modules -> ModuleStates],
         \A n \in Modules :
           /\ modules'[n].online = modules[n].online
           /\ modules'[n].state = modules[n].state
           /\ modules'[n].last_heartbeat = modules[n].last_heartbeat
           /\ modules'[n].last_seen = modules[n].last_seen
  PROVE  TypeOK' /\ SeenInv' /\ BeatsInv'
  <1>1. TypeOK'
    BY DEF Inv, TypeOK, ModuleStates, world
  <1>2. SeenInv'
    BY DEF Inv, SeenInv
  <1>3. on \subseteq Modules
    BY DEF Inv, TypeOK
  <1>4. BeatsInv'
    BY <1>3 DEF Inv, BeatsInv, world
  <1>5. QED
    BY <1>1, <1>2, <1>4

LEMMA SubmitStep ==
  ASSUME Inv, NEW c \in Commands, NEW m \in Modules, Submit(c, m)
  PROVE  Inv'
  <1>1. commands[c].step = "new" /\ UNCHANGED <<world, refresh_in, events>>
    BY DEF Submit
  <1>2. CASE /\ commands' = [commands EXCEPT ![c] = [step |-> "sending", target |-> m]]
             /\ UNCHANGED <<modules, command_log>>
    <2>1. /\ commands' \in [Commands -> {[step |-> "new"], [step |-> "done"]}
                     \cup {[step |-> "sending", target |-> n] : n \in Modules}]
          /\ \A d \in Commands : commands[d].step = "done" => commands'[d].step = "done"
      BY <1>1, <1>2 DEF Inv, TypeOK
    <2>2. modules' \in [Modules -> ModuleStates]
      BY <1>2 DEF Inv, TypeOK, ModuleStates
    <2>3. command_log' \in Seq(Results) /\ Len(command_log') <= LogLimit
      BY <1>2 DEF Inv, TypeOK
    <2>4. TypeOK' /\ SeenInv' /\ BeatsInv'
      BY <1>1, <1>2, <2>1, <2>2, <2>3, OnlyLogged
    <2>5. LogAgrees' /\ LoggedDone'
      BY <1>2, <2>1, LogKept
    <2>6. QED
      BY <2>4, <2>5 DEF Inv
  <1>3. CASE /\ MarkCommandResult(c, m, "rejected")
             /\ commands' = [commands EXCEPT ![c] = [step |-> "done"]]
    BY <1>1, <1>3, ResultLogged, OnlyLogged DEF Inv
  <1>4. QED
    BY <1>2, <1>3 DEF Submit

LEMMA SendEndsStep ==
  ASSUME Inv, NEW c \in Commands, SendEnds(c)
  PROVE  Inv'
  <1>1. /\ commands[c].step = "sending" /\ UNCHANGED <<world, refresh_in, events>>
        /\ commands' = [commands EXCEPT ![c] = [step |-> "done"]]
    BY DEF SendEnds
  <1>2. commands[c].target \in Modules
    <2>1. commands[c] \in {[step |-> "new"], [step |-> "done"]}
                     \cup {[step |-> "sending", target |-> n] : n \in Modules}
      BY DEF Inv, TypeOK
    <2>2. PICK n \in Modules : commands[c] = [step |-> "sending", target |-> n]
      BY <1>1, <2>1
    <2>3. QED
      BY <2>2
  <1>3. PICK status \in {"accepted", "transport_error"} :
          MarkCommandResult(c, commands[c].target, status)
    BY DEF SendEnds
  <1>4. QED
    BY <1>1, <1>2, <1>3, ResultLogged, OnlyLogged DEF Inv

LEMMA ManagerRestartStep == Inv /\ Restart => Inv'
  <1> SUFFICES ASSUME Inv, Restart PROVE Inv'
    OBVIOUS
  <1>1. /\ modules' = [m \in Modules |-> Unknown] /\ command_log' = <<>> /\ refresh_in' = 0
        /\ UNCHANGED <<on, connected, heartbeat_in>>
        /\ events' \in 0 .. MaxEvents
    BY EventCounted DEF Restart, world
  <1>2. /\ Unknown \in ModuleStates /\ Unknown.last_heartbeat = None
        /\ Unknown.state = "unknown" /\ Unknown.last_command = <<>>
    BY AgesTyped DEF Unknown, ModuleStates
  <1>3. /\ modules' \in [Modules -> ModuleStates]
        /\ \A m \in Modules : modules'[m] = Unknown
    BY <1>1, <1>2
  <1>4. commands' \in [Commands -> {[step |-> "new"], [step |-> "done"]}
                     \cup {[step |-> "sending", target |-> n] : n \in Modules}]
    BY DEF Restart, Inv, TypeOK
  <1>5. TypeOK'
    <2>1. command_log' \in Seq(Results) /\ Len(command_log') <= LogLimit
      BY <1>1, Bounds
    <2>2. refresh_in' \in 0 .. MaintenancePeriod
      BY <1>1, Bounds
    <2>3. QED
      BY <1>1, <1>3, <1>4, <2>1, <2>2 DEF Inv, TypeOK, ModuleStates
  <1>6. SeenInv'
    BY <1>2, <1>3 DEF SeenInv
  <1>7. BeatsInv'
    <2>1. on \subseteq Modules
      BY DEF Inv, TypeOK
    <2>2. QED
      BY <1>1, <1>2, <1>3, <2>1 DEF BeatsInv
  <1>8. LogAgrees' /\ LoggedDone'
    BY <1>1, <1>2, <1>3 DEF LogAgrees, LoggedDone
  <1>9. QED
    BY <1>5, <1>6, <1>7, <1>8 DEF Inv

LEMMA OlderAge ==
  ASSUME NEW age \in Ages
  PROVE  /\ Older(age) \in Ages /\ (Older(age) = None <=> age = None)
         /\ age # None => Older(age) \in 0 .. MaxAge /\ age \in 0 .. MaxAge
                             /\ Older(age) = IF age = MaxAge THEN age ELSE age + 1
  BY Bounds DEF Ages, Older, None

LEMMA TickStep == Inv /\ Tick => Inv'
  <1> SUFFICES ASSUME Inv, Tick PROVE Inv'
    OBVIOUS
  <1>1. /\ refresh_in > 0 /\ refresh_in' = refresh_in - 1
        /\ \A m \in on : heartbeat_in[m] > 0
        /\ heartbeat_in' = [m \in Modules |-> IF m \in on THEN heartbeat_in[m] - 1
                                                          ELSE heartbeat_in[m]]
        /\ modules' = [m \in Modules |-> [modules[m] EXCEPT !.last_heartbeat = Older(@),
                                                           !.last_seen = Older(@)]]
        /\ UNCHANGED <<on, connected, command_log, commands, events>>
    BY DEF Tick
  <1>2. \A n \in Modules :
          /\ modules[n].last_heartbeat \in Ages /\ modules[n].last_seen \in Ages
          /\ modules'[n] \in ModuleStates
          /\ modules'[n].last_heartbeat = Older(modules[n].last_heartbeat)
          /\ modules'[n].last_seen = Older(modules[n].last_seen)
          /\ modules'[n].last_command = modules[n].last_command
          /\ modules'[n].online = modules[n].online
          /\ modules'[n].state = modules[n].state
    <2> TAKE n \in Modules
    <2>1. modules[n] \in ModuleStates /\ modules[n].last_heartbeat \in Ages
          /\ modules[n].last_seen \in Ages
      BY StatesTyped DEF Inv
    <2>2. /\ Older(modules[n].last_heartbeat) \in Ages
          /\ Older(modules[n].last_seen) \in Ages
      BY <2>1, OlderAge
    <2>3. QED
      BY <1>1, <2>1, <2>2 DEF ModuleStates
  <1>3. modules' \in [Modules -> ModuleStates]
    BY <1>1, <1>2
  <1>4. refresh_in' \in 0 .. MaintenancePeriod /\ refresh_in \in 0 .. MaintenancePeriod
        /\ heartbeat_in' \in [Modules -> 0 .. 1]
    <2>1. /\ refresh_in \in 0 .. MaintenancePeriod /\ heartbeat_in \in [Modules -> 0 .. 1]
          /\ refresh_in > 0 /\ refresh_in' = refresh_in - 1
      BY <1>1 DEF Inv, TypeOK
    <2>2. refresh_in' \in 0 .. MaintenancePeriod
      BY <2>1, Bounds
    <2>3. heartbeat_in' \in [Modules -> 0 .. 1]
      <3>1. ASSUME NEW m \in Modules, m \in on PROVE heartbeat_in[m] - 1 \in 0 .. 1
        <4>1. heartbeat_in[m] \in 0 .. 1 /\ heartbeat_in[m] > 0
          BY <1>1, <2>1, <3>1
        <4>2. QED
          BY <4>1
      <3>2. heartbeat_in' = [m \in Modules |-> IF m \in on THEN heartbeat_in[m] - 1
                                                          ELSE heartbeat_in[m]]
        BY <1>1
      <3>3. QED
        BY <2>1, <3>1, <3>2
    <2>4. QED
      BY <2>1, <2>2, <2>3
  <1>5. TypeOK'
    BY <1>1, <1>3, <1>4 DEF Inv, TypeOK, ModuleStates
  <1>6. SeenInv'
    <2> SUFFICES ASSUME NEW n \in Modules, modules'[n].last_heartbeat # None
                 PROVE  /\ modules'[n].last_seen # None
                        /\ modules'[n].last_seen <= modules'[n].last_heartbeat
                        /\ modules'[n].online =>
                             modules'[n].last_seen + refresh_in' <= HeartbeatTimeout + MaintenancePeriod
      BY DEF SeenInv
    <2> DEFINE heard == modules[n].last_heartbeat
               seen == modules[n].last_seen
    <2>1. /\ heard \in Ages /\ seen \in Ages
          /\ modules'[n].last_heartbeat = Older(heard) /\ modules'[n].last_seen = Older(seen)
          /\ modules'[n].online = modules[n].online
      BY <1>2
    <2>2. heard # None
      BY <2>1, OlderAge
    <2>3. /\ seen # None /\ seen <= heard
          /\ modules[n].online => seen + refresh_in <= HeartbeatTimeout + MaintenancePeriod
      BY <2>2 DEF Inv, SeenInv
    <2> HIDE DEF heard, seen
    <2>4. /\ heard \in 0 .. MaxAge /\ seen \in 0 .. MaxAge
          /\ Older(heard) = IF heard = MaxAge THEN heard ELSE heard + 1
          /\ Older(seen) = IF seen = MaxAge THEN seen ELSE seen + 1
          /\ Older(seen) # None
      BY <2>1, <2>2, <2>3, OlderAge
    <2>5. Older(seen) <= Older(heard) /\ Older(seen) <= seen + 1 /\ Older(seen) \in Nat
      BY <2>3, <2>4, Bounds
    <2>6. Older(seen) + refresh_in' <= seen + refresh_in
      <3>1. refresh_in' = refresh_in - 1
        BY <1>1
      <3>2. refresh_in \in Int /\ seen \in Int
        BY <1>4, <2>4
      <3>3. QED
        BY <2>5, <3>1, <3>2
    <2>7. ASSUME modules'[n].online
          PROVE  Older(seen) + refresh_in' <= HeartbeatTimeout + MaintenancePeriod
      <3>1. seen + refresh_in <= HeartbeatTimeout + MaintenancePeriod
        BY <2>1, <2>3, <2>7
      <3>2. seen \in Int /\ Older(seen) \in Int
        BY <2>4, <2>5
      <3>3. refresh_in \in Int /\ refresh_in' \in Int
        BY <1>4
      <3>4. HeartbeatTimeout + MaintenancePeriod \in Int
        BY Bounds
      <3>5. Older(seen) + refresh_in' \in Int /\ seen + refresh_in \in Int
        BY <3>2, <3>3
      <3>6. QED
        BY <2>6, <3>1, <3>4, <3>5, AtMostTransitive
    <2>8. QED
      BY <2>1, <2>4, <2>5, <2>7
  <1>7. BeatsInv'
    <2>1. ASSUME events <= 1, NEW n \in on
          PROVE  /\ modules'[n].state # "offline"
                 /\ modules'[n].last_heartbeat # None =>
                      modules'[n].last_heartbeat + heartbeat_in'[n] <= 1 + events
      <3>1. /\ n \in Modules /\ heartbeat_in[n] \in Nat /\ events \in Nat
            /\ heartbeat_in'[n] = heartbeat_in[n] - 1
        <4>1. n \in Modules /\ heartbeat_in[n] \in 0 .. 1 /\ events \in 0 .. MaxEvents
          BY <2>1 DEF Inv, TypeOK
        <4>2. heartbeat_in'[n] = heartbeat_in[n] - 1
          BY <1>1, <2>1, <4>1
        <4>3. QED
          BY <4>1, <4>2, Bounds
      <3>2. /\ modules[n].state # "offline"
            /\ modules[n].last_heartbeat # None =>
                 modules[n].last_heartbeat + heartbeat_in[n] <= 1 + events
        BY <2>1 DEF Inv, BeatsInv
      <3>3. /\ modules[n].last_heartbeat \in Ages /\ modules'[n].state = modules[n].state
            /\ modules'[n].last_heartbeat = Older(modules[n].last_heartbeat)
        BY <1>2, <3>1
      <3> DEFINE heard == modules[n].last_heartbeat
      <3>4. ASSUME Older(heard) # None
            PROVE  Older(heard) + heartbeat_in'[n] <= 1 + events
        <4>1. heard # None /\ heard \in 0 .. MaxAge
              /\ Older(heard) = IF heard = MaxAge THEN heard ELSE heard + 1
          BY <3>3, <3>4, OlderAge
        <4>2. heard + heartbeat_in[n] <= 1 + events
          BY <3>2, <4>1
        <4> HIDE DEF heard
        <4>3. QED
          BY <3>1, <4>1, <4>2, Bounds
      <3>5. QED
        BY <3>2, <3>3, <3>4
    <2>2. ASSUME events = 0, NEW n \in Modules \ on
          PROVE  modules'[n].state # "offline" /\ modules'[n].last_heartbeat = None
      <3>1. modules[n].state # "offline" /\ modules[n].last_heartbeat = None
        BY <2>2 DEF Inv, BeatsInv
      <3>2. Older(modules[n].last_heartbeat) = None
        BY <3>1 DEF Older
      <3>3. QED
        BY <1>2, <3>1, <3>2
    <2>3. QED
      BY <1>1, <2>1, <2>2 DEF BeatsInv
  <1>8. LogAgrees' /\ LoggedDone'
    BY <1>1, <1>2, LogKept
  <1>9. QED
    BY <1>5, <1>6, <1>7, <1>8 DEF Inv
-----------------------------------------------------------------------------
(* The theorems *)

LEMMA NextInv == Inv /\ [Next]_vars => Inv'
  <1> SUFFICES ASSUME Inv, [Next]_vars PROVE Inv'
    OBVIOUS
  <1>1. ASSUME NEW m \in Modules,
               Heartbeat(m) \/ Reading(m) \/ SwitchOn(m) \/ SwitchOff(m)
        PROVE  Inv'
    BY <1>1, HeartbeatStep, ReadingStep, SwitchOnStep, SwitchOffStep
  <1>2. ASSUME NEW m \in Modules, NEW detected \in BOOLEAN, Plug(m, detected)
        PROVE  Inv'
    BY <1>2, PlugStep
  <1>3. ASSUME NEW m \in Modules, NEW c \in Commands, Submit(c, m)
        PROVE  Inv'
    BY <1>3, SubmitStep
  <1>4. ASSUME NEW c \in Commands, SendEnds(c)
        PROVE  Inv'
    BY <1>4, SendEndsStep
  <1>5. CASE Maintenance \/ Restart \/ Tick
    BY <1>5, MaintenanceStep, ManagerRestartStep, TickStep
  <1>6. CASE UNCHANGED vars
    <2> USE <1>6 DEF vars, world, Inv
    <2>1. TypeOK'
      BY DEF TypeOK
    <2>2. SeenInv' /\ BeatsInv'
      BY DEF SeenInv, BeatsInv
    <2>3. LogAgrees' /\ LoggedDone'
      BY DEF LogAgrees, LoggedDone
    <2>4. QED
      BY <2>1, <2>2, <2>3
  <1>7. QED
    BY <1>1, <1>2, <1>3, <1>4, <1>5, <1>6 DEF Next

LEMMA Invariance == Spec => []Inv
  BY InitInv, NextInv, PTL DEF Spec

\* StateStore and the calls of submit_command keep their types; the log its limit.
THEOREM ManagerTypeCorrect == Spec => []TypeOK
  <1>1. Inv => TypeOK
    BY DEF Inv
  <1>2. QED
    BY <1>1, Invariance, PTL

\* A module whose heartbeats were heard once is not shown online when nothing
\* was heard of it for a timeout and a period of maintenance_loop.
THEOREM SilentGoesOffline == Spec => []SilentHeardIsOffline
  <1>1. Inv => SilentHeardIsOffline
    <2> SUFFICES ASSUME Inv, NEW m \in Modules, modules[m].last_heartbeat # None,
                        modules[m].last_seen = MaxAge, modules[m].online
                 PROVE  FALSE
      BY DEF SilentHeardIsOffline, Silent
    <2>1. MaxAge + refresh_in <= HeartbeatTimeout + MaintenancePeriod
      BY DEF Inv, SeenInv
    <2>2. refresh_in \in 0 .. MaintenancePeriod
      BY DEF Inv, TypeOK
    <2>3. QED
      BY <2>1, <2>2, Bounds
  <1>2. QED
    BY <1>1, Invariance, PTL

\* One fault, whichever it is, never takes a running module offline.
THEOREM LossIsTolerated == Spec => []OneLossTolerated
  <1>1. Inv => OneLossTolerated
    BY DEF Inv, BeatsInv, OneLossTolerated
  <1>2. QED
    BY <1>1, Invariance, PTL

\* The log and the modules agree on the last command of each, and a command is
\* logged once, whatever the commands were rejected, sent or refused.
THEOREM LogStaysConsistent == Spec => []LogAgrees
  <1>1. Inv => LogAgrees
    BY DEF Inv
  <1>2. QED
    BY <1>1, Invariance, PTL
=============================================================================
