----------------------------- MODULE ReplayClock -----------------------------
(***************************************************************************)
(* What a page reads from the world outside it, recorded and replayed: the *)
(* dates and random numbers its scripts obtain from V8                     *)
(* (PlatformInstrumentation, with its hooks in runtime.cc and math.js) and *)
(* the clock Blink reads through ForensicPlatformWrapper.  V8 keeps one    *)
(* list of values per stack trace of the call, Blink one list for all.     *)
(*                                                                         *)
(* One action is one call of a script, of Blink or of the agent; time      *)
(* passes between them by any amount.                                      *)
(***************************************************************************)
EXTENDS Integers, Sequences, FiniteSets, SequencesExt

CONSTANTS
  Traces,      \* stack traces a script calls Date or Math.random from
  Randoms,     \* what the random number generator may yield
  PerMilli,    \* clock ticks in a millisecond
  Tolerance,   \* REPLAY_TIME_TOLERANCE, in ticks
  \* bounds of the model
  Pages,       \* how many dates, random numbers and times pages ask for when recorded
  MaxStarts,   \* recordings and replays begun
  MaxTime      \* end of time

ASSUME ClockAssumption ==
  /\ PerMilli \in Nat \ {0} /\ Tolerance \in Nat
  /\ Pages \subseteq [dates : Nat, rands : Nat, readings : Nat]
  /\ MaxStarts \in Nat /\ MaxTime \in Nat \ {0}

VARIABLES
  inst,      \* platformInst: null, the instance, or the address of a deleted one
  state,     \* currentState
  times,     \* currentTimeMap: per trace the values and how many were replayed
  rands,     \* mathRandomMap
  recordStart, replayStart,
  readings,  \* m_currentTimeVals of the data store
  position,  \*   and its index
  file,      \* what the devtools client has dumped
  now,       \* the clock of the operating system
  page,      \* the page: how much it asks for
  starts,    \* recordings and replays begun (bounded by MaxStarts)
  original,  \* history: what the recorded page was told (times unfloored)
  seen,      \* history: dates the replayed scripts were told, per trace
  drawn,     \* history: random numbers they were told
  onTime,    \* history: no date of this replay was asked for later than tolerated
  shown      \* history: the last time this replay showed to Blink

v8Vars      == <<inst, state, times, rands>>
blinkVars   == <<readings, position>>
startVars   == <<recordStart, replayStart, starts, page>>
historyVars == <<original, seen, drawn, onTime, shown>>
vars == <<v8Vars, blinkVars, startVars, file, now, historyVars>>

NoValues == [t \in {} |-> <<>>]
Nothing  == [t \in Traces |-> <<>>]
NoFile   == [times |-> NoValues, rands |-> NoValues, readings |-> <<>>,
             recordStart |-> 0, original |-> [dates |-> Nothing, rands |-> Nothing]]

Instants == 0..MaxTime

\* Is m a map from some of the traces to lists of S?
IsListMap(m, S) ==
  /\ m = [t \in DOMAIN m |-> m[t]] /\ DOMAIN m \subseteq Traces
  /\ \A t \in DOMAIN m : /\ m[t] \in [vals : Seq(S), index : Nat]
                         /\ m[t].index <= Len(m[t].vals)

TypeOK ==
  /\ inst \in {"null", "live", "deleted"}
  /\ state \in {"OFF", "RECORDING", "REPLAYING"}
  /\ IsListMap(times, Instants)
  /\ IsListMap(rands, Randoms)
  /\ recordStart \in Instants /\ replayStart \in Instants
  /\ readings \in Seq(Instants)
  /\ position \in 0..Len(readings)
  /\ page \in Pages
  /\ now \in Instants /\ starts \in 0..MaxStarts
  /\ onTime \in BOOLEAN
-----------------------------------------------------------------------------
(***************************************************************************)
(* The lists by stack trace.                                               *)
(***************************************************************************)
addToMap(m, t, v) ==
  [u \in DOMAIN m \cup {t} |->
     IF u # t THEN m[u]
     ELSE IF t \in DOMAIN m THEN [m[t] EXCEPT !.vals = Append(@, v)]
     ELSE [vals |-> <<v>>, index |-> 0]]

\* Mutant: the lists are rewound to their second value.
resetMapLate(m) == [t \in DOMAIN m |-> [m[t] EXCEPT !.index = 1]]

resetMap(m) == [t \in DOMAIN m |-> [m[t] EXCEPT !.index = 0]]

copyOut(m) == [t \in DOMAIN m |-> m[t].vals]
copyIn(d)  == [t \in DOMAIN d |-> [vals |-> d[t], index |-> 0]]

Left(m, t) == IF t \in DOMAIN m THEN Len(m[t].vals) - m[t].index ELSE 0

\* The list of t after n more values were taken from it.
Advance(m, t, n) == IF t \in DOMAIN m THEN [m EXCEPT ![t].index = @ + n] ELSE m

\* Mutant: only one stale value is skipped.
FirstRecentOneSkip(m, t, nowRecTime) ==
  CASE Left(m, t) = 0 -> 0
    [] Left(m, t) = 1 -> IF m[t].vals[m[t].index + 1] >= nowRecTime - Tolerance THEN 1 ELSE 0
    [] OTHER -> IF m[t].vals[m[t].index + 1] >= nowRecTime - Tolerance THEN 1 ELSE 2

\* Mutant: no tolerance.
FirstRecentStrict(m, t, nowRecTime) ==
  LET Recent(n) == m[t].vals[m[t].index + n] >= nowRecTime
  IN SelectInSeq([n \in 1..Left(m, t) |-> Recent(n)], LAMBDA recent : recent)

\* The first of t's remaining values that is not older than the tolerance, counted
\* from the current one; 0 when the values run out before.
FirstRecent(m, t, nowRecTime) ==
  LET Recent(n) == m[t].vals[m[t].index + n] >= nowRecTime - Tolerance
  IN SelectInSeq([n \in 1..Left(m, t) |-> Recent(n)], LAMBDA recent : recent)

\* The instant of the recording that corresponds to now.
NowRecTime == (now - replayStart) + recordStart

\* How many values have been asked for, from all traces (bounded by page).
Asked(lists) == FoldFunction(LAMBDA l, n : Len(l) + n, 0, lists)

Floor(time) == time - (time % PerMilli)

\* PrimativeVector::clear.
ClearReadings == readings' = <<>> /\ position' = 0
-----------------------------------------------------------------------------
(***************************************************************************)
(* Scripts.                                                                *)
(***************************************************************************)
\* new Date() and Date.now() called from t.
DateOff(t) ==
  /\ inst # "deleted"
  /\ inst = "null" \/ state = "OFF"
  /\ UNCHANGED vars

DateRecorded(t) ==
  /\ inst = "live" /\ state = "RECORDING"
  /\ Asked(original.dates) < page.dates
  /\ times' = addToMap(times, t, now)
  /\ original' = [original EXCEPT !.dates[t] = Append(@, now)]
  /\ UNCHANGED <<inst, state, rands, blinkVars, startVars, file, now,
                 seen, drawn, onTime, shown>>

\* A replayed script may ask for one date more than the recorded one did.
\* Is the next date of t asked for in time, and was there one?
InTime(t) ==
  LET k == Len(seen[t]) + 1
  IN k <= Len(original.dates[t]) /\ NowRecTime <= original.dates[t][k] + Tolerance

DateReplayed(t) ==
  LET n    == FirstRecent(times, t, NowRecTime)
      date == IF n = 0 THEN NowRecTime ELSE times[t].vals[times[t].index + n]
  IN /\ inst = "live" /\ state = "REPLAYING"
     /\ page.dates > 0 /\ Len(seen[t]) <= Len(original.dates[t])
     /\ times' = Advance(times, t, IF n = 0 THEN Left(times, t) ELSE n)
     /\ seen' = [seen EXCEPT ![t] = Append(@, Floor(date))]
     /\ onTime' = (onTime /\ InTime(t))
     /\ UNCHANGED <<inst, state, rands, blinkVars, startVars, file, now,
                    original, drawn, shown>>

\* Mutant: numbers generated during a replay are recorded too.
HandleMathRandomValsAlways(t, r) == rands' = addToMap(rands, t, r)

\* HandleMathRandomVals, which math.js calls with every number it generates.
HandleMathRandomVals(t, r) ==
  rands' = IF inst = "live" /\ state = "RECORDING" THEN addToMap(rands, t, r) ELSE rands

\* Math.random() called from t: a recorded number if there is one left, or else
\* the generator's, which is handed back to be recorded.
RandomReplayed(t) ==
  /\ inst = "live" /\ state = "REPLAYING" /\ Left(rands, t) > 0
  /\ drawn' = [drawn EXCEPT ![t] = Append(@, rands[t].vals[rands[t].index + 1])]
  /\ rands' = Advance(rands, t, 1)
  /\ UNCHANGED <<inst, state, times, blinkVars, startVars, file, now,
                 original, seen, onTime, shown>>

RandomGenerated(t, r) ==
  /\ inst # "deleted"
  /\ inst = "null" \/ state # "REPLAYING" \/ Left(rands, t) = 0
  /\ state = "RECORDING" => Asked(original.rands) < page.rands
  /\ state = "REPLAYING" => page.rands > 0 /\ Len(drawn[t]) <= Len(original.rands[t])
  /\ HandleMathRandomVals(t, r)
  /\ original' = IF state = "RECORDING" THEN [original EXCEPT !.rands[t] = Append(@, r)]
                 ELSE original
  /\ drawn' = IF state = "REPLAYING" THEN [drawn EXCEPT ![t] = Append(@, r)] ELSE drawn
  /\ UNCHANGED <<inst, state, times, blinkVars, startVars, file, now, seen, onTime, shown>>
-----------------------------------------------------------------------------
(***************************************************************************)
(* Blink's clock, ForensicPlatformWrapper::currentTime.                    *)
(***************************************************************************)
CurrentTimeRecorded ==
  /\ state = "RECORDING"
  /\ Len(readings) < page.readings
  /\ readings' = Append(readings, now)
  /\ UNCHANGED <<v8Vars, position, startVars, file, now, historyVars>>

\* No reading is left: the time it should have been.
CurrentTimeEstimated ==
  /\ state = "REPLAYING" /\ position = Len(readings) /\ page.readings > 0
  /\ shown' = NowRecTime
  /\ UNCHANGED <<v8Vars, blinkVars, startVars, file, now, original, seen, drawn, onTime>>

\* The next reading is due: the clock advances over all readings in the past.
\* When these are all there is, nextCurrentTime's -1 ends the loop.
CurrentTimeAdvanced ==
  LET Past == {i \in position + 1..Len(readings) :
                 \A j \in position + 1..i : readings[j] < NowRecTime}
      last == position + Cardinality(Past)
  IN /\ state = "REPLAYING" /\ Past # {}
     /\ position' = last
     /\ shown' = IF last = Len(readings) THEN NowRecTime ELSE readings[last]
     /\ UNCHANGED <<v8Vars, readings, startVars, file, now, original, seen, drawn, onTime>>

\* Mutant: the shown reading is used up.
CurrentTimeSlowedTaken ==
  /\ state = "REPLAYING" /\ position < Len(readings)
  /\ readings[position + 1] >= NowRecTime
  /\ shown' = readings[position + 1]
  /\ position' = position + 1
  /\ UNCHANGED <<v8Vars, readings, startVars, file, now, original, seen, drawn, onTime>>

\* The next reading lies ahead: it is shown, and kept.
CurrentTimeSlowed ==
  /\ state = "REPLAYING" /\ position < Len(readings)
  /\ readings[position + 1] >= NowRecTime
  /\ shown' = readings[position + 1]
  /\ UNCHANGED <<v8Vars, blinkVars, startVars, file, now, original, seen, drawn, onTime>>

-----------------------------------------------------------------------------
(***************************************************************************)
(* The agent's commands, through the entry points of api.cc.  The agent    *)
(* keeps Blink's mode equal to V8's state (ForensicSession).               *)
(***************************************************************************)
InitPlatformInstrumentation ==
  /\ inst = "null"
  /\ inst' = "live"
  /\ UNCHANGED <<state, times, rands, blinkVars, startVars, file, now, historyVars>>

\* V8::TearDown at the end of the renderer: nothing of it remains but platformInst,
\* which keeps the address of the deleted instance.
TearDown ==
  /\ inst = "live"
  /\ inst' = "deleted" /\ state' = "OFF"
  /\ times' = NoValues /\ rands' = NoValues
  /\ readings' = <<>> /\ position' = 0
  /\ recordStart' = 0 /\ replayStart' = 0
  /\ original' = NoFile.original
  /\ seen' = Nothing /\ drawn' = Nothing /\ onTime' = TRUE /\ shown' = 0
  /\ UNCHANGED <<starts, page, file, now>>

StartPlatformInstRecording ==
  /\ inst = "live" /\ state # "REPLAYING"
  /\ state' = "RECORDING"
  /\ times' = NoValues /\ rands' = NoValues
  /\ ClearReadings
  /\ recordStart' = now
  /\ original' = [dates |-> Nothing, rands |-> Nothing]
  /\ starts < MaxStarts /\ starts' = starts + 1
  /\ UNCHANGED <<inst, replayStart, page, file, now, seen, drawn, onTime, shown>>

StartPlatformInstReplaying ==
  /\ inst = "live" /\ state = "OFF"
  /\ state' = "REPLAYING"
  /\ times' = resetMap(times) /\ rands' = resetMap(rands)
  /\ position' = 0
  /\ replayStart' = now
  /\ starts < MaxStarts /\ starts' = starts + 1
  /\ UNCHANGED <<inst, readings, recordStart, page, file, now, historyVars>>

StopPlatformInst ==
  /\ inst = "live" /\ state # "OFF"
  /\ state' = "OFF"
  /\ seen' = Nothing /\ drawn' = Nothing /\ onTime' = TRUE /\ shown' = 0
  /\ UNCHANGED <<inst, times, rands, blinkVars, startVars, file, now, original>>

DumpPlatformInstRecording ==
  /\ inst = "live" /\ state = "OFF"
  /\ file' = [times |-> copyOut(times), rands |-> copyOut(rands), readings |-> readings,
              recordStart |-> recordStart, original |-> original]
  /\ UNCHANGED <<v8Vars, blinkVars, startVars, now, historyVars>>

LoadPlatformInstRecording ==
  /\ inst = "live" /\ state = "OFF"
  /\ times' = copyIn(file.times) /\ rands' = copyIn(file.rands)
  /\ readings' = file.readings /\ position' = 0
  /\ recordStart' = file.recordStart
  /\ original' = file.original
  /\ UNCHANGED <<inst, state, replayStart, starts, page, file, now, seen, drawn, onTime, shown>>

\* Time passes.  It does so between a recording and a replay too, but then nothing
\* reads it.
Tick(d) ==
  /\ state # "OFF"
  /\ now + d <= MaxTime
  /\ now' = now + d
  /\ UNCHANGED <<v8Vars, blinkVars, startVars, file, historyVars>>
-----------------------------------------------------------------------------
Init ==
  /\ inst = "null" /\ state = "OFF"
  /\ times = NoValues /\ rands = NoValues
  /\ recordStart = 0 /\ replayStart = 0 /\ starts = 0 /\ page \in Pages
  /\ readings = <<>> /\ position = 0
  /\ file = NoFile
  /\ now = 1
  /\ original = NoFile.original
  /\ seen = Nothing /\ drawn = Nothing /\ onTime = TRUE /\ shown = 0

Next ==
  \/ \E t \in Traces : \/ DateOff(t) \/ DateRecorded(t) \/ DateReplayed(t)
                       \/ RandomReplayed(t)
                       \/ \E r \in Randoms : RandomGenerated(t, r)
  \/ CurrentTimeRecorded \/ CurrentTimeEstimated
  \/ CurrentTimeAdvanced \/ CurrentTimeSlowed
  \/ InitPlatformInstrumentation \/ TearDown
  \/ StartPlatformInstRecording \/ StartPlatformInstReplaying \/ StopPlatformInst
  \/ DumpPlatformInstRecording \/ LoadPlatformInstRecording
  \/ \E d \in 1..MaxTime : Tick(d)

Spec == Init /\ [][Next]_vars
-----------------------------------------------------------------------------
\* Over start, stop, dump and load, a replay draws the recorded random numbers in their
\* order, as many as there are; and as long as it asks for each date no later than the
\* tolerance after the recorded page did, its scripts are told the very dates that page was
\* told: NextTimeCurrentMills, NextMathRandomVals and MathRandom.
ReplayIsExact ==
  state = "REPLAYING" =>
    \A t \in Traces :
      /\ \A k \in DOMAIN drawn[t] \cap DOMAIN original.rands[t] :
           drawn[t][k] = original.rands[t][k]
      /\ onTime => \A k \in DOMAIN seen[t] : seen[t][k] = Floor(original.dates[t][k])

\* What a dump made now would hold is what the recorded page was told: replays,
\* numbers generated in one, and loads leave the recording as it is.
DumpIsTheRecording ==
  \A t \in Traces :
    /\ original.dates[t] = IF t \in DOMAIN times THEN times[t].vals ELSE <<>>
    /\ original.rands[t] = IF t \in DOMAIN rands THEN rands[t].vals ELSE <<>>

\* A replayed script is never told a date further behind the time its replay has reached
\* than the tolerance (and the flooring) allows, however many recorded dates it has missed.
DatesNeverStale ==
  [][\A t \in Traces : Len(seen'[t]) > Len(seen[t]) =>
       Last(seen'[t]) > NowRecTime - Tolerance - PerMilli]_vars

\* Within one replay Blink's clock never goes back: whether it shows a reading of
\* the past, one ahead of time or an estimate.
BlinkClockMonotone ==
  [][state = "REPLAYING" /\ state' = "REPLAYING" => shown' >= shown]_vars
=============================================================================
