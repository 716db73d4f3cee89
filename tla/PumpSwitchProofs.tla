--------------------------- MODULE PumpSwitchProofs ---------------------------
(***************************************************************************)
(* Proofs about PumpSwitch, for any of the modules, any debounce time and  *)
(* any number of movements, commands and faults: types, that the newest    *)
(* report is true, and that the switch overrides older commands.           *)
(***************************************************************************)
EXTENDS PumpSwitch, TLAPS

\* Commands are as new as the candidate while a turn samples and debounces,
\* because the loop before it has emptied the ring; so what is accepted is
\* never newer than a command still in the ring.
MovesOrdered ==
  /\ ~Remote => ring = <<>>
  /\ pc \in {"online", "sample", "debounce"} =>
       \A i \in DOMAIN ring : ring[i].moves >= candidate_moves
  /\ \A i \in DOMAIN ring : ring[i].moves >= settled_moves
  /\ candidate_moves <= moves /\ settled_moves <= moves /\ sample.moves <= moves

Inv == TypeOK /\ NewestReportTrue /\ MovesOrdered
-----------------------------------------------------------------------------
(* Operators *)

\* Every module has the first switch, which it reports.
LEMMA HasEnable == "enable" \in Inputs
  BY DEF Inputs

LEMMA InputsKept ==
  ASSUME UNCHANGED module
  PROVE  Inputs' = Inputs /\ Positions' = Positions /\ Remote' = Remote
  BY DEF Inputs, Positions, Remote

LEMMA EverywhereTyped ==
  /\ Everywhere(FALSE) \in Positions
  /\ Everywhere(0) \in [Inputs -> 0 .. DebounceTicks]
  /\ NoSample \in [state : Positions, due : Positions, moves : 0 .. MaxMoves]
  /\ NoSample.moves = 0
  BY PumpAssumption DEF Everywhere, NoSample, Positions

\* A report keeps the types of what the manager sees, and is the newest one
\* unless it is lost.
LEMMA ReportStep ==
  ASSUME TypeOK, NEW on \in BOOLEAN, Report(on)
  PROVE  /\ events' \in Seq(BOOLEAN) /\ UNCHANGED <<kept, past_drain, shown>>
         /\ outdated' \in BOOLEAN /\ faults' \in 0 .. MaxFaults
         /\ ~outdated' => events' # <<>> /\ events'[Len(events')] = on
  <1>1. events \in Seq(BOOLEAN) /\ faults \in 0 .. MaxFaults /\ MaxFaults \in Nat
    BY PumpAssumption DEF TypeOK
  <1>2. UNCHANGED <<kept, past_drain, shown>>
    BY DEF Report, path
  <1>3. CASE events' = Append(events, on) /\ outdated' = FALSE /\ UNCHANGED faults
    <2>1. events' \in Seq(BOOLEAN) /\ events' # <<>> /\ events'[Len(events')] = on
      BY <1>1, <1>3
    <2>2. QED
      BY <1>1, <1>2, <1>3, <2>1
  <1>4. CASE Fault /\ outdated' = TRUE /\ UNCHANGED events
    <2>1. faults' \in 0 .. MaxFaults
      BY <1>1, <1>4 DEF Fault
    <2>2. QED
      BY <1>1, <1>2, <1>4, <2>1
  <1>5. QED
    BY <1>3, <1>4 DEF Report

\* What is left of a queue when its head is taken.
LEMMA HeadTaken ==
  ASSUME NEW S, NEW s \in Seq(S), s # <<>>
  PROVE  /\ Head(s) \in S /\ Tail(s) \in Seq(S)
         /\ \A i \in DOMAIN Tail(s) : i + 1 \in DOMAIN s /\ Tail(s)[i] = s[i + 1]
         /\ IF Tail(s) = <<>> THEN Head(s) = s[Len(s)]
                              ELSE Tail(s)[Len(Tail(s))] = s[Len(s)]
  <1>1. /\ Len(s) \in Nat /\ Len(s) > 0 /\ Head(s) = s[1] /\ Head(s) \in S
        /\ Tail(s) \in Seq(S) /\ Len(Tail(s)) = Len(s) - 1
        /\ DOMAIN Tail(s) = 1 .. Len(s) - 1 /\ DOMAIN s = 1 .. Len(s)
    OBVIOUS
  <1>2. \A i \in 1 .. Len(s) - 1 : Tail(s)[i] = s[i + 1]
    OBVIOUS
  <1>3. CASE Tail(s) = <<>>
    BY <1>1, <1>2, <1>3
  <1>4. CASE Tail(s) # <<>>
    <2>1. Len(Tail(s)) \in 1 .. Len(s) - 1
      BY <1>1, <1>4
    <2>2. Tail(s)[Len(Tail(s))] = s[Len(s)]
      BY <1>1, <1>2, <2>1
    <2>3. QED
      BY <1>1, <1>2, <1>4, <2>2
  <1>5. QED
    BY <1>3, <1>4

\* The beginning, and the end, of what is on its way.
LEMMA SubSeqTyped ==
  ASSUME NEW S, NEW s \in Seq(S), NEW m \in 1 .. Len(s) + 1, NEW n \in 0 .. Len(s)
  PROVE  /\ SubSeq(s, m, n) \in Seq(S)
         /\ n = Len(s) /\ m <= n =>
              SubSeq(s, m, n) # <<>> /\ SubSeq(s, m, n)[Len(SubSeq(s, m, n))] = s[n]
         /\ m > n => SubSeq(s, m, n) = <<>>
  OBVIOUS
-----------------------------------------------------------------------------
(* The steps of the module *)

LEMMA InitInv == Init => Inv
  <1> SUFFICES ASSUME Init PROVE Inv
    OBVIOUS
  <1>1. TypeOK
    <2>1. 0 \in 0 .. MaxMoves /\ 0 \in 0 .. MaxCommands /\ 0 \in 0 .. DebounceTicks
          /\ 0 \in 0 .. MaxFaults
      BY PumpAssumption
    <2>2. <<>> \in Optional
      BY DEF Optional
    <2>3. <<>> \in Seq(BOOLEAN) /\ <<>> \in Seq([on : BOOLEAN, moves : 0 .. MaxMoves])
      OBVIOUS
    <2>4. {switch, output, last_state, candidate_state} \subseteq Positions
      BY EverywhereTyped DEF Init, Blank, Positions
    <2>5. /\ module \in Modules /\ pc = "boot" /\ output = Everywhere(FALSE) /\ ring = <<>>
          /\ events = <<>> /\ kept = <<>> /\ shown = <<>> /\ asked = <<>>
          /\ past_drain = FALSE /\ outdated = FALSE
          /\ moves = 0 /\ commands = 0 /\ faults = 0
          /\ candidate_age = Everywhere(0) /\ candidate_moves = 0 /\ settled_moves = 0
          /\ sample = NoSample /\ sample_age = 0
      BY DEF Init, Blank
    <2>6. /\ candidate_age \in [Inputs -> 0 .. DebounceTicks]
          /\ sample \in [state : Positions, due : Positions, moves : 0 .. MaxMoves]
      BY <2>5, EverywhereTyped
    <2>7. ring \in Seq([on : BOOLEAN, moves : 0 .. MaxMoves])
          /\ {events, kept} \subseteq Seq(BOOLEAN) /\ {past_drain, outdated} \subseteq BOOLEAN
      BY <2>3, <2>5
    <2>8. /\ shown \in Optional /\ asked \in Optional
          /\ moves \in 0 .. MaxMoves /\ commands \in 0 .. MaxCommands
          /\ faults \in 0 .. MaxFaults
          /\ candidate_moves \in 0 .. MaxMoves /\ settled_moves \in 0 .. MaxMoves
          /\ sample_age \in 0 .. DebounceTicks
      BY <2>1, <2>2, <2>5
    <2>9. QED
      BY <2>4, <2>5, <2>6, <2>7, <2>8 DEF TypeOK
  <1>2. NewestReportTrue
    BY DEF Init, NewestReportTrue
  <1>3. MovesOrdered
    BY EverywhereTyped DEF Init, Blank, MovesOrdered
  <1>4. QED
    BY <1>1, <1>2, <1>3 DEF Inv

LEMMA StartStep == Inv /\ Start => Inv'
  <1> SUFFICES ASSUME Inv, Start PROVE Inv'
    OBVIOUS
  <1> USE HasEnable, InputsKept DEF Inv, Start, world, turn, debouncer
  <1>1. switch["enable"] \in BOOLEAN
    BY DEF TypeOK, Positions
  <1>2. TypeOK'
    BY <1>1, ReportStep, EverywhereTyped DEF TypeOK, Everywhere
  <1>3. NewestReportTrue'
    BY <1>1, ReportStep DEF NewestReportTrue, pump_enabled
  <1>4. MovesOrdered'
    BY DEF MovesOrdered, TypeOK
  <1>5. QED
    BY <1>2, <1>3, <1>4

LEMMA OnlineStep == Inv /\ Online => Inv'
  <1> SUFFICES ASSUME Inv, Online PROVE Inv'
    OBVIOUS
  <1> USE HasEnable, InputsKept DEF Inv, Online, world, turn, debouncer, manager, path
  <1>1. TypeOK'
    BY DEF TypeOK, Everywhere
  <1>2. NewestReportTrue'
    BY DEF NewestReportTrue, pump_enabled
  <1>3. MovesOrdered'
    BY DEF MovesOrdered
  <1>4. QED
    BY <1>1, <1>2, <1>3

LEMMA SampleStep == Inv /\ Sample => Inv'
  <1> SUFFICES ASSUME Inv, Sample PROVE Inv'
    OBVIOUS
  <1> USE HasEnable, InputsKept DEF Inv, Sample, world, debouncer, manager, path
  <1>1. [i \in Inputs |-> candidate_age[i] >= DebounceTicks] \in Positions
    BY DEF Positions
  <1>2. TypeOK'
    BY <1>1, PumpAssumption DEF TypeOK, Everywhere
  <1>3. NewestReportTrue'
    BY DEF NewestReportTrue, pump_enabled
  <1>4. MovesOrdered'
    BY DEF MovesOrdered, TypeOK
  <1>5. QED
    BY <1>2, <1>3, <1>4

\* The candidate is older than every command in the ring: what the debouncer
\* accepts, and so the moves it is credited with, is too.
LEMMA DebounceStep == Inv /\ Debounce => Inv'
  <1> SUFFICES ASSUME Inv, Debounce PROVE Inv'
    OBVIOUS
  <1> USE HasEnable, InputsKept DEF Inv, Debounce, world
  <1>1. candidate_state["enable"] \in BOOLEAN
    BY DEF TypeOK, Positions
  <1>2. \A i \in Inputs : CandidateAge(i) \in 0 .. DebounceTicks
    BY DEF TypeOK, CandidateAge
  <1>3. /\ events' \in Seq(BOOLEAN) /\ UNCHANGED <<kept, past_drain, shown>>
        /\ outdated' \in BOOLEAN /\ faults' \in 0 .. MaxFaults
    <2>1. CASE Settles("enable")
      BY <1>1, <2>1, ReportStep
    <2>2. CASE ~Settles("enable")
      BY <2>2 DEF TypeOK, manager, path
    <2>3. QED
      BY <2>1, <2>2
  <1>4. last_state' \in Positions /\ output' \in Positions
    BY DEF TypeOK, Positions
  <1>5. TypeOK'
    BY <1>2, <1>3, <1>4, EverywhereTyped, PumpAssumption DEF TypeOK, Everywhere
  <1>6. NewestReportTrue'
    <2>1. CASE Settles("enable")
      <3>1. pump_enabled' = candidate_state["enable"]
        BY <2>1 DEF pump_enabled
      <3>2. QED
        BY <1>1, <2>1, <3>1, ReportStep DEF NewestReportTrue
    <2>2. CASE ~Settles("enable")
      <3>1. UNCHANGED <<pump_enabled, events, kept, shown, outdated>>
        BY <2>2 DEF pump_enabled, manager, path
      <3>2. QED
        BY <3>1 DEF NewestReportTrue
    <2>3. QED
      BY <2>1, <2>2
  <1>7. MovesOrdered'
    <2>1. UNCHANGED <<ring, moves, module>> /\ Remote' = Remote /\ sample'.moves = 0
      BY EverywhereTyped
    <2>2. /\ candidate_moves' \in {candidate_moves, sample.moves}
          /\ settled_moves' \in {settled_moves, candidate_moves}
      OBVIOUS
    <2>3. pc = "debounce" /\ pc' = IF Remote THEN "drain" ELSE "sample"
      OBVIOUS
    <2>4. /\ ~Remote => ring = <<>>
          /\ \A i \in DOMAIN ring :
               ring[i].moves >= candidate_moves /\ ring[i].moves >= settled_moves
          /\ candidate_moves <= moves /\ settled_moves <= moves /\ sample.moves <= moves
      BY <2>3 DEF MovesOrdered
    <2>5. moves \in Nat
      BY PumpAssumption DEF TypeOK
    <2>6. (pc' # "drain") => ring' = <<>>
      BY <2>1, <2>3, <2>4
    <2> HIDE DEF Inv, Debounce
    <2>7. /\ \A i \in DOMAIN ring' : ring'[i].moves >= settled_moves'
          /\ candidate_moves' <= moves' /\ settled_moves' <= moves' /\ sample'.moves <= moves'
      BY <2>1, <2>2, <2>4, <2>5
    <2>8. pc' \in {"online", "sample", "debounce"} =>
            \A i \in DOMAIN ring' : ring'[i].moves >= candidate_moves'
      BY <2>6
    <2>9. QED
      BY <2>1, <2>4, <2>7, <2>8 DEF MovesOrdered
  <1>8. QED
    BY <1>5, <1>6, <1>7

\* A command changes the output only together with a report.
LEMMA CommandHandled ==
  ASSUME Inv, ring # <<>>, HandleCommand, UNCHANGED <<module, pc>>, pc # "boot"
  PROVE  /\ output' \in Positions
         /\ events' \in Seq(BOOLEAN) /\ UNCHANGED <<kept, past_drain, shown>>
         /\ outdated' \in BOOLEAN /\ faults' \in 0 .. MaxFaults
         /\ NewestReportTrue'
  <1> DEFINE value == Head(ring).on
  <1>1. value \in BOOLEAN
    <2>1. Head(ring) \in [on : BOOLEAN, moves : 0 .. MaxMoves]
      BY HeadTaken DEF Inv, TypeOK
    <2>2. QED
      BY <2>1
  <1> HIDE DEF value
  <1>2. CASE value # pump_enabled
    <2>1. output' = [output EXCEPT !["enable"] = value] /\ Report(value)
      BY <1>2 DEF HandleCommand, value
    <2>2. output' \in Positions /\ pump_enabled' = value
      BY <1>1, <2>1, HasEnable DEF Inv, TypeOK, Positions, pump_enabled
    <2>3. QED
      BY <1>1, <2>1, <2>2, ReportStep DEF Inv, NewestReportTrue
  <1>3. CASE value = pump_enabled
    <2>1. UNCHANGED <<output, manager, faults>>
      BY <1>3 DEF HandleCommand, value
    <2>2. pump_enabled' = pump_enabled
      BY <2>1 DEF pump_enabled
    <2>3. QED
      BY <2>1, <2>2 DEF Inv, TypeOK, NewestReportTrue, manager, path
  <1>4. QED
    BY <1>2, <1>3

\* The loop over the frames ends with an empty ring.
LEMMA DrainStep == Inv /\ Drain => Inv'
  <1> SUFFICES ASSUME Inv, Drain PROVE Inv'
    OBVIOUS
  <1> USE HasEnable, InputsKept DEF Drain, world, turn, debouncer
  <1>1. CASE ring = <<>>
    <2> USE <1>1 DEF Inv, manager, path
    <2>1. TypeOK'
      BY DEF TypeOK, AfterDrain, Everywhere
    <2>2. NewestReportTrue'
      BY DEF NewestReportTrue, pump_enabled
    <2>3. MovesOrdered'
      BY DEF MovesOrdered, AfterDrain
    <2>4. QED
      BY <2>1, <2>2, <2>3
  <1>2. CASE ring # <<>>
    <2>1. /\ ring' \in Seq([on : BOOLEAN, moves : 0 .. MaxMoves])
          /\ \A i \in DOMAIN ring' : i + 1 \in DOMAIN ring /\ ring'[i] = ring[i + 1]
      <3>1. ring \in Seq([on : BOOLEAN, moves : 0 .. MaxMoves]) /\ ring' = Tail(ring)
        BY <1>2 DEF Inv, TypeOK
      <3>2. QED
        BY <1>2, <3>1, HeadTaken
    <2>2. TypeOK'
      BY <1>2, <2>1, CommandHandled DEF Inv, TypeOK, Everywhere
    <2>3. NewestReportTrue'
      BY <1>2, CommandHandled
    <2>4. MovesOrdered'
      BY <1>2, <2>1 DEF Inv, MovesOrdered
    <2>5. QED
      BY <2>2, <2>3, <2>4 DEF Inv
  <1>3. QED
    BY <1>1, <1>2

LEMMA RestartStep == Inv /\ Restart => Inv'
  <1> SUFFICES ASSUME Inv, Restart PROVE Inv'
    OBVIOUS
  <1> USE HasEnable, InputsKept DEF Inv, Restart, Blank, path
  <1>1. events' \in Seq(BOOLEAN)
    <2>1. PICK n \in 0 .. Len(events) : events' = SubSeq(events, 1, n)
      OBVIOUS
    <2>2. 1 \in 1 .. Len(events) + 1
      BY DEF TypeOK
    <2>3. QED
      BY <2>1, <2>2, SubSeqTyped DEF TypeOK
  <1>2. <<>> \in Optional /\ 0 \in 0 .. MaxMoves /\ 0 \in 0 .. DebounceTicks
    BY PumpAssumption DEF Optional
  <1>3. Everywhere(FALSE)' = Everywhere(FALSE)
    BY DEF Everywhere
  <1>4. faults' \in 0 .. MaxFaults
    BY PumpAssumption DEF TypeOK, Fault
  <1>5. ring' \in Seq([on : BOOLEAN, moves : 0 .. MaxMoves])
    OBVIOUS
  <1>6. /\ {switch', output', last_state', candidate_state'} \subseteq Positions'
        /\ candidate_age' \in [Inputs' -> 0 .. DebounceTicks]
        /\ sample' \in [state : Positions', due : Positions', moves : 0 .. MaxMoves]
    BY EverywhereTyped DEF TypeOK
  <1>7. TypeOK'
    BY <1>1, <1>2, <1>3, <1>4, <1>5, <1>6 DEF TypeOK
  <1>8. NewestReportTrue'
    BY DEF NewestReportTrue
  <1>9. MovesOrdered'
    BY EverywhereTyped DEF MovesOrdered, TypeOK
  <1>10. QED
    BY <1>7, <1>8, <1>9
-----------------------------------------------------------------------------
(* The steps of the world *)

LEMMA MoveStep ==
  ASSUME Inv, NEW i \in Inputs, Move(i)
  PROVE  Inv'
  <1> USE HasEnable, InputsKept DEF Inv, Move, turn, debouncer, manager, path
  <1>1. switch' \in Positions
    BY DEF TypeOK, Positions
  <1>2. moves' \in 0 .. MaxMoves /\ <<>> \in Optional
    <2>1. moves \in 0 .. MaxMoves /\ moves < MaxMoves /\ moves' = moves + 1 /\ MaxMoves \in Nat
      BY PumpAssumption DEF TypeOK
    <2> HIDE DEF Inv, Move
    <2>2. QED
      BY <2>1 DEF Optional
  <1>3. TypeOK'
    <2>1. /\ UNCHANGED <<module, pc, output, ring, last_state, candidate_state, candidate_age,
                        candidate_moves, settled_moves, sample, sample_age, events, kept,
                        past_drain, shown, outdated, commands, faults>>
          /\ asked' = <<>> /\ Inputs' = Inputs /\ Positions' = Positions
          /\ Everywhere(FALSE)' = Everywhere(FALSE)
      BY DEF Everywhere
    <2>2. TypeOK
      OBVIOUS
    <2> HIDE DEF Inv, Move
    <2>3. QED
      BY <1>1, <1>2, <2>1, <2>2 DEF TypeOK
  <1>4. NewestReportTrue'
    BY DEF NewestReportTrue, pump_enabled
  <1>5. MovesOrdered'
    BY DEF MovesOrdered, TypeOK
  <1>6. QED
    BY <1>3, <1>4, <1>5

\* A command is as new as the moves it finds.
LEMMA CommandStep ==
  ASSUME Inv, NEW on \in BOOLEAN, Command(on)
  PROVE  Inv'
  <1> USE HasEnable, InputsKept DEF Inv, Command, turn, debouncer, manager, path
  <1> DEFINE frame == [on |-> on, moves |-> moves]
  <1>1. frame \in [on : BOOLEAN, moves : 0 .. MaxMoves] /\ frame.moves = moves
    BY DEF TypeOK
  <1>2. ring' = Append(ring, frame)
    OBVIOUS
  <1> HIDE DEF frame
  <1>3. /\ ring' \in Seq([on : BOOLEAN, moves : 0 .. MaxMoves])
        /\ \A i \in DOMAIN ring' : \/ i \in DOMAIN ring /\ ring'[i] = ring[i]
                                   \/ ring'[i] = frame
    <2>1. ring \in Seq([on : BOOLEAN, moves : 0 .. MaxMoves])
      BY DEF TypeOK
    <2> DEFINE commandFrames == [on : BOOLEAN, moves : 0 .. MaxMoves]
    <2>2. ring \in Seq(commandFrames) /\ frame \in commandFrames
      BY <1>1, <2>1
    <2> HIDE DEF Inv, Command, commandFrames
    <2>3. /\ ring' \in Seq(commandFrames)
          /\ \A j \in DOMAIN ring' : \/ j \in DOMAIN ring /\ ring'[j] = ring[j]
                                     \/ ring'[j] = frame
      BY <1>2, <2>2
    <2>4. QED
      BY <2>3 DEF commandFrames
  <1>4. asked' \in Optional /\ commands' \in 0 .. MaxCommands
    <2>1. /\ commands \in 0 .. MaxCommands /\ commands < MaxCommands /\ MaxCommands \in Nat
          /\ commands' = commands + 1 /\ asked' \in {<<on>>, <<>>}
      BY PumpAssumption DEF TypeOK
    <2> HIDE DEF Inv, Command
    <2>2. QED
      BY <2>1 DEF Optional
  <1>5. TypeOK'
    BY <1>3, <1>4 DEF TypeOK, Everywhere
  <1>6. NewestReportTrue'
    BY DEF NewestReportTrue, pump_enabled
  <1>7. MovesOrdered'
    BY <1>1, <1>3 DEF MovesOrdered, TypeOK
  <1>8. QED
    BY <1>5, <1>6, <1>7

LEMMA TickStep == Inv /\ Tick => Inv'
  <1> SUFFICES ASSUME Inv, Tick PROVE Inv'
    OBVIOUS
  <1> USE HasEnable, InputsKept DEF Inv, Tick, world, manager, path
  <1>1. \A age \in 0 .. DebounceTicks : Older(age) \in 0 .. DebounceTicks
    BY PumpAssumption DEF Older
  <1>2. TypeOK'
    BY <1>1 DEF TypeOK, Everywhere
  <1>3. NewestReportTrue'
    BY DEF NewestReportTrue, pump_enabled
  <1>4. MovesOrdered'
    BY DEF MovesOrdered
  <1>5. QED
    BY <1>2, <1>3, <1>4

\* What a step on the way to the manager owes: it leaves the module alone.
LEMMA PathStep ==
  ASSUME Inv, UNCHANGED pump,
         {events', kept'} \subseteq Seq(BOOLEAN), {past_drain', outdated'} \subseteq BOOLEAN,
         shown' \in Optional, faults' \in 0 .. MaxFaults,
         NewestReportTrue'
  PROVE  Inv'
  <1> USE HasEnable, InputsKept DEF Inv, pump, world, turn, debouncer
  <1>1. TypeOK'
    BY DEF TypeOK, Everywhere
  <1>2. MovesOrdered'
    BY DEF MovesOrdered
  <1>3. QED
    BY <1>1, <1>2

LEMMA PathTyped ==
  ASSUME Inv
  PROVE  /\ events \in Seq(BOOLEAN) /\ kept \in Seq(BOOLEAN) /\ shown \in Optional
         /\ past_drain \in BOOLEAN /\ outdated \in BOOLEAN
         /\ faults \in 0 .. MaxFaults /\ NewestReportTrue
         /\ Fault => faults' \in 0 .. MaxFaults
         /\ UNCHANGED pump => UNCHANGED <<pc, pump_enabled>>
         /\ \A on \in BOOLEAN : <<on>> \in Optional
  BY PumpAssumption DEF Inv, TypeOK, Fault, pump, pump_enabled, Optional

LEMMA AppendedLast ==
  ASSUME NEW S, NEW s \in Seq(S), NEW x \in S
  PROVE  /\ Append(s, x) \in Seq(S) /\ Append(s, x) # <<>>
         /\ Append(s, x)[Len(Append(s, x))] = x
  OBVIOUS

\* The newest of the events is the newest of those kept afterwards, or stays
\* behind it.
LEMMA KeepStep == Inv /\ Keep => Inv'
  <1> SUFFICES ASSUME Inv, Keep PROVE Inv'
    OBVIOUS
  <1> DEFINE e == Head(events)
  <1>1. /\ events \in Seq(BOOLEAN) /\ kept \in Seq(BOOLEAN) /\ events # <<>>
        /\ kept' = Append(kept, e) /\ events' = Tail(events) /\ UNCHANGED <<shown, outdated>>
        /\ past_drain' \in BOOLEAN /\ UNCHANGED pump /\ Fault
    BY PathTyped DEF Keep
  <1>2. /\ e \in BOOLEAN /\ events' \in Seq(BOOLEAN)
        /\ IF events' = <<>> THEN e = events[Len(events)]
                             ELSE events'[Len(events')] = events[Len(events)]
    BY <1>1, HeadTaken
  <1> HIDE DEF e
  <1>3. kept' \in Seq(BOOLEAN) /\ kept' # <<>> /\ kept'[Len(kept')] = e
    BY <1>1, <1>2, AppendedLast
  <1>4. NewestReportTrue'
    BY <1>1, <1>2, <1>3, PathTyped DEF NewestReportTrue
  <1>5. QED
    BY <1>1, <1>2, <1>3, <1>4, PathTyped, PathStep

LEMMA DrainKeptStep == Inv /\ DrainKept => Inv'
  <1> SUFFICES ASSUME Inv, DrainKept PROVE Inv'
    OBVIOUS
  <1> DEFINE e == Head(kept)
  <1>1. /\ kept \in Seq(BOOLEAN) /\ kept # <<>> /\ kept' = Tail(kept) /\ shown' = <<e>>
        /\ UNCHANGED <<events, past_drain, outdated, pump, faults>>
    BY PathTyped DEF DrainKept, Ingest
  <1>2. /\ e \in BOOLEAN /\ kept' \in Seq(BOOLEAN)
        /\ IF kept' = <<>> THEN e = kept[Len(kept)]
                           ELSE kept'[Len(kept')] = kept[Len(kept)]
    BY <1>1, HeadTaken
  <1> HIDE DEF e
  <1>3. NewestReportTrue'
    BY <1>1, <1>2, PathTyped DEF NewestReportTrue
  <1>4. QED
    BY <1>1, <1>2, <1>3, PathTyped, PathStep

\* The newest event, taken before those kept, is outdated when they come.
LEMMA ReceiveStep == Inv /\ Receive => Inv'
  <1> SUFFICES ASSUME Inv, Receive PROVE Inv'
    OBVIOUS
  <1>1. UNCHANGED <<kept, pump, faults>> /\ past_drain' = FALSE
    BY DEF Receive
  <1>2. CASE UNCHANGED <<events, shown, outdated>>
    <2>1. NewestReportTrue'
      BY <1>1, <1>2, PathTyped DEF NewestReportTrue
    <2>2. QED
      BY <1>1, <1>2, <2>1, PathTyped, PathStep
  <1>3. ASSUME events # <<>>, Ingest(Head(events)), events' = Tail(events),
               outdated' = (outdated \/ (events' = <<>> /\ kept # <<>>))
        PROVE  Inv'
    <2> DEFINE e == Head(events)
    <2>1. /\ e \in BOOLEAN /\ events' \in Seq(BOOLEAN) /\ shown' = <<e>>
          /\ IF events' = <<>> THEN e = events[Len(events)]
                               ELSE events'[Len(events')] = events[Len(events)]
      BY <1>3, HeadTaken, PathTyped DEF Ingest
    <2> HIDE DEF e
    <2>2. NewestReportTrue'
      BY <1>1, <1>3, <2>1, PathTyped DEF NewestReportTrue
    <2>3. outdated' \in BOOLEAN
      BY <1>3, PathTyped
    <2>4. QED
      BY <1>1, <2>1, <2>2, <2>3, PathTyped, PathStep
  <1>4. QED
    BY <1>2, <1>3 DEF Receive

LEMMA OverwriteStep == Inv /\ Overwrite => Inv'
  <1> SUFFICES ASSUME Inv, Overwrite PROVE Inv'
    OBVIOUS
  <1>1. UNCHANGED <<shown, pump>> /\ Fault
    BY DEF Overwrite
  <1>2. ASSUME events # <<>>, events' = Tail(events), UNCHANGED <<kept, past_drain>>,
               outdated' = (outdated \/ events' = <<>>)
        PROVE  Inv'
    <2>1. /\ events' \in Seq(BOOLEAN)
          /\ events' # <<>> => events'[Len(events')] = events[Len(events)]
      BY <1>2, HeadTaken, PathTyped
    <2>2. NewestReportTrue' /\ outdated' \in BOOLEAN
      BY <1>1, <1>2, <2>1, PathTyped DEF NewestReportTrue
    <2>3. QED
      BY <1>1, <1>2, <2>1, <2>2, PathTyped, PathStep
  <1>3. ASSUME kept # <<>>, kept' = Tail(kept), UNCHANGED events,
               outdated' = (outdated \/ (events = <<>> /\ kept' = <<>>)),
               past_drain' = (past_drain /\ kept' # <<>>)
        PROVE  Inv'
    <2>1. /\ kept' \in Seq(BOOLEAN)
          /\ kept' # <<>> => kept'[Len(kept')] = kept[Len(kept)]
      BY <1>3, HeadTaken, PathTyped
    <2>2. NewestReportTrue'
      BY <1>1, <1>3, <2>1, PathTyped DEF NewestReportTrue
    <2>3. outdated' \in BOOLEAN /\ past_drain' \in BOOLEAN
      BY <1>3
    <2>4. QED
      BY <1>1, <1>3, <2>1, <2>2, <2>3, PathTyped, PathStep
  <1>4. QED
    BY <1>2, <1>3 DEF Overwrite

LEMMA ManagerRestartStep == Inv /\ ManagerRestart => Inv'
  <1> SUFFICES ASSUME Inv, ManagerRestart PROVE Inv'
    OBVIOUS
  <1>1. PICK n \in 1 .. Len(events) + 1 : events' = SubSeq(events, n, Len(events))
    BY DEF ManagerRestart
  <1>2. events \in Seq(BOOLEAN) /\ Len(events) \in 0 .. Len(events)
    BY PathTyped
  <1>3. /\ events' \in Seq(BOOLEAN)
        /\ events' # <<>> => events # <<>> /\ events'[Len(events')] = events[Len(events)]
    BY <1>1, <1>2, SubSeqTyped
  <1>4. /\ shown' = <<>> /\ kept' = <<>> /\ past_drain' = FALSE /\ Fault
        /\ outdated' = (outdated /\ events' # <<>>) /\ UNCHANGED pump
    BY DEF ManagerRestart
  <1>5. NewestReportTrue'
    BY <1>3, <1>4, PathTyped DEF NewestReportTrue
  <1>6. kept' \in Seq(BOOLEAN) /\ outdated' \in BOOLEAN /\ shown' \in Optional
    BY <1>4 DEF Optional
  <1>7. QED
    BY <1>3, <1>4, <1>5, <1>6, PathTyped, PathStep
-----------------------------------------------------------------------------
(* The theorems *)

LEMMA NextInv == Inv /\ [Next]_vars => Inv'
  <1> SUFFICES ASSUME Inv, [Next]_vars PROVE Inv'
    OBVIOUS
  <1>1. CASE Main
    BY <1>1, StartStep, OnlineStep, SampleStep, DebounceStep, DrainStep DEF Main
  <1>2. CASE Restart
    BY <1>2, RestartStep
  <1>3. ASSUME NEW i \in Inputs, Move(i) PROVE Inv'
    BY <1>3, MoveStep
  <1>4. ASSUME NEW on \in BOOLEAN, Command(on) PROVE Inv'
    BY <1>4, CommandStep
  <1>5. CASE Tick \/ Keep \/ DrainKept \/ Receive \/ Overwrite \/ ManagerRestart
    BY <1>5, TickStep, KeepStep, DrainKeptStep, ReceiveStep, OverwriteStep, ManagerRestartStep
  <1>6. CASE UNCHANGED vars
    <2> USE <1>6, InputsKept DEF vars, turn, debouncer, manager, path, world
    <2>1. TypeOK'
      BY DEF Inv, TypeOK, Everywhere
    <2>2. NewestReportTrue'
      BY DEF Inv, NewestReportTrue, pump_enabled
    <2>3. MovesOrdered'
      BY DEF Inv, MovesOrdered
    <2>4. QED
      BY <2>1, <2>2, <2>3 DEF Inv
  <1>7. QED
    BY <1>1, <1>2, <1>3, <1>4, <1>5, <1>6 DEF Next

LEMMA Invariance == Spec => []Inv
  BY InitInv, NextInv, PTL DEF Spec

\* The variables of the three main loops and of the manager keep their types.
THEOREM PumpTypeCorrect == Spec => []TypeOK
  <1>1. Inv => TypeOK
    BY DEF Inv
  <1>2. QED
    BY <1>1, Invariance, PTL

\* The event that is to be ingested last tells what the module last did,
\* whichever of the switch, a command and a restart was the cause and whatever
\* became of the older events, as long as the newest one was neither lost nor
\* ingested before an older one that SpiCanBus had kept for later.
THEOREM NewestReportHolds == Spec => []NewestReportTrue
  <1>1. Inv => NewestReportTrue
    BY DEF Inv
  <1>2. QED
    BY <1>1, Invariance, PTL

\* The roughing pump empties its ring before it samples: an accepted movement
\* of the switch is undone by no command that was sent before it.
THEOREM SwitchOverrides == Spec => []SwitchOverridesOlder
  <1>1. Inv => SwitchOverridesOlder
    BY DEF Inv, MovesOrdered, SwitchOverridesOlder
  <1>2. QED
    BY <1>1, Invariance, PTL
=============================================================================
