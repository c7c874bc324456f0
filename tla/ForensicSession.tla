--------------------------- MODULE ForensicSession ---------------------------
(***************************************************************************)
(* The core of WebCapsule: the forensics agents of the pages of one        *)
(* renderer process (InspectorForensicsAgent), the vector of recorded web  *)
(* events they share (ForensicReplayDataStore), and the tasks that inject  *)
(* those events during a replay (ForensicEventInjectorTask and the         *)
(* DelayedEventInjectionPairs it posts).                                   *)
(*                                                                         *)
(* Everything here runs on the main thread, so one action is one task of   *)
(* the message loop: a devtools command, an instrumentation hook, an       *)
(* injector task or a delayed pair.  What is interleaved is the order in   *)
(* which these tasks are taken from the loop, and time.                    *)
(*                                                                         *)
(* An event object is shared by reference between the store, the task of   *)
(* every replay of it and their pairs: events are numbered objects.        *)
(***************************************************************************)
EXTENDS Integers, Sequences, FiniteSets, Functions

CONSTANTS
  Agents,        \* the agents (pages) living in the renderer
  NoAgent,       \* stands for the null platform wrapper
  UserKinds,     \* kinds of events the pages' users produce
  Speeds,        \* values of startReplay's speed parameter
  InitialFiles,  \* recordings the client may hold beforehand
  \* bounds of the model
  MaxEvents,     \* event objects ever created
  MaxLength,     \* user events in one recording
  MaxToken,      \* state token after which no command starts anything
  MaxSwaps,      \* replacements of the renderer
  MaxHold,       \* ticks that pass while a task posts its pairs
  Horizon,       \* last instant at which a command is given
  LastTick       \* end of time: everything delayed is due by then

Kinds  == {"recStart", "clearCache", "loadURL", "resize", "scroll", "input",
           "history", "menu", "stop"}
States == {"Ready", "Injected", "Cancelled", "Failed"}
EventId == 1..MaxEvents

\* tick is the instant of the event, in the resolution of the model; seq is the
\* order of the clock readings in one recording, which is what timestamps that
\* share a tick still tell apart.
Info  == [kind : Kinds, tick : Nat, seq : Nat]
Event == [kind : Kinds, tick : Nat, seq : Nat, state : States]

\* A dumped recording: rec names the recording its data comes from, v8 says
\* whether it has a "v8" domain.
File   == [events : Seq(Info), start : Nat, rec : Nat, v8 : BOOLEAN]
NoFile == [events |-> <<>>, start |-> 0, rec |-> 0, v8 |-> FALSE]

ASSUME SessionAssumption ==
  /\ NoAgent \notin Agents
  /\ UserKinds \subseteq {"scroll", "input", "history", "menu"}
  /\ Speeds \subseteq Nat
  /\ InitialFiles \subseteq File
  /\ \A f \in InitialFiles : f.events # <<>> /\ f.events[1].kind = "recStart"
  /\ MaxEvents \in Nat /\ MaxLength \in Nat /\ MaxToken \in Nat
  /\ MaxSwaps \in Nat /\ MaxHold \in Nat /\ Horizon \in Nat /\ LastTick \in Nat

VARIABLES
  recording, replaying, stateId,  \* m_recording, m_replaying, m_stateId of each agent
  inspState,   \* each agent's InspectorState: what wrappers read and a new renderer restores
  attached,    \* has the agent a data store and a recorder?
  owner,       \* the agent whose InspectorState the platform wrapper was given
  v8,          \* V8's PlatformInstrumentation: its state,
  v8Of,        \*   and the recording whose values its maps hold (0: none)
  events,      \* the event objects
  created,     \* how many of them exist
  store,       \* m_events of the data store
  storeOf,     \* the recording they come from (0: none)
  recordStart, \* m_recordStartTime
  recordings,  \* recordings made so far: names for storeOf and v8Of
  tasks,       \* posted ForensicEventInjectorTasks
  pairs,       \* posted DelayedEventInjectionPairs
  batches,     \* tasks that have posted their pairs
  file,        \* what the devtools client has dumped
  now,         \* the wrapped platform's clock
  swaps,       \* renderers replaced
  shown,       \* history: how often the current replay of an agent injected an event,
  lag          \*   and the longest time that one of its tasks took to post its pairs

modeVars   == <<recording, replaying, stateId, inspState>>
bindVars   == <<attached, owner>>
storeVars  == <<events, created, store, storeOf, recordStart, recordings>>
loopVars   == <<tasks, pairs, batches>>
otherVars  == <<file, now, swaps>>
histVars   == <<shown, lag>>
vars == <<modeVars, bindVars, v8, v8Of, storeVars, loopVars, otherVars, histVars>>

Task == [agent : Agents, events : SUBSET EventId, recordStart : Nat,
         replayStart : Nat, speed : Nat]
Pair == [agent : Agents, event : EventId, due : Nat, late : BOOLEAN, batch : Nat, id : Int]

NothingShown == [e \in EventId |-> 0]

TypeOK ==
  /\ recording \in [Agents -> BOOLEAN]
  /\ replaying \in [Agents -> BOOLEAN]
  /\ stateId \in [Agents -> Nat]
  /\ inspState \in [Agents -> [recording : BOOLEAN, replaying : BOOLEAN, stateID : Nat \cup {-1}]]
  /\ attached \in [Agents -> BOOLEAN]
  /\ owner \in Agents \cup {NoAgent}
  /\ v8 \in {"OFF", "RECORDING", "REPLAYING"}
  /\ v8Of \in Nat
  /\ events \in [EventId -> Event]
  /\ created \in 0..MaxEvents
  /\ store \in Seq(EventId)
  /\ storeOf \in Nat
  /\ recordStart \in Nat
  /\ recordings \in Nat
  /\ tasks \in Seq(Task)
  /\ pairs \subseteq Pair
  /\ batches \in Nat
  /\ file \in File
  /\ now \in 0..LastTick
  /\ swaps \in 0..MaxSwaps
  /\ shown \in [Agents -> [EventId -> Nat]]
  /\ lag \in [Agents -> Nat]

Blank == [kind |-> "recStart", tick |-> 0, seq |-> 0, state |-> "Ready"]

Init ==
  /\ recording = [a \in Agents |-> FALSE]
  /\ replaying = [a \in Agents |-> FALSE]
  /\ stateId = [a \in Agents |-> 0]
  /\ inspState = [a \in Agents |-> [recording |-> FALSE, replaying |-> FALSE, stateID |-> -1]]
  /\ attached = [a \in Agents |-> FALSE]
  /\ owner = NoAgent
  /\ v8 = "OFF" /\ v8Of = 0
  /\ events = [e \in EventId |-> Blank]
  /\ created = 0
  /\ store = <<>> /\ storeOf = 0
  /\ recordStart = 0
  /\ recordings = 1
  /\ tasks = <<>> /\ pairs = {} /\ batches = 0
  /\ file \in InitialFiles \cup {NoFile}
  /\ now = 0
  /\ swaps = 0
  /\ shown = [a \in Agents |-> NothingShown]
  /\ lag = [a \in Agents |-> 0]
-----------------------------------------------------------------------------
(***************************************************************************)
(* Modes.  The agent keeps its own flags and writes each change through to *)
(* its InspectorState, where the wrappers of tasks and pairs read it.      *)
(***************************************************************************)
\* Mutant: the new token is not written to the InspectorState.
SetRecordingStateUnsaved(a, b) ==
  /\ recording' = [recording EXCEPT ![a] = b]
  /\ stateId' = [stateId EXCEPT ![a] = @ + 1]
  /\ inspState' = [inspState EXCEPT ![a].recording = b]
  /\ UNCHANGED replaying

SetRecordingState(a, b) ==
  /\ recording' = [recording EXCEPT ![a] = b]
  /\ stateId' = [stateId EXCEPT ![a] = @ + 1]
  /\ inspState' = [inspState EXCEPT ![a] =
       [recording |-> b, replaying |-> @.replaying, stateID |-> stateId[a] + 1]]
  /\ UNCHANGED replaying

\* Mutant: the token is not renewed.
SetReplayStateSameToken(a, b) ==
  /\ replaying' = [replaying EXCEPT ![a] = b]
  /\ inspState' = [inspState EXCEPT ![a] = [@ EXCEPT !.replaying = b]]
  /\ UNCHANGED <<recording, stateId>>

SetReplayState(a, b) ==
  /\ replaying' = [replaying EXCEPT ![a] = b]
  /\ stateId' = [stateId EXCEPT ![a] = @ + 1]
  /\ inspState' = [inspState EXCEPT ![a] =
       [recording |-> @.recording, replaying |-> b, stateID |-> stateId[a] + 1]]
  /\ UNCHANGED recording

\* ForensicInspectorStateWrapper::replaying(id)
StillReplaying(a, id) == inspState[a].replaying /\ inspState[a].stateID = id

\* The first agent to record or load installs the one platform wrapper of the
\* process, which keeps reading that agent's InspectorState.
InitPlatformWrapper(a) ==
  /\ owner' = IF owner = NoAgent THEN a ELSE owner
  /\ attached' = [attached EXCEPT ![a] = TRUE]

Commanded(a) == now <= Horizon /\ stateId[a] < MaxToken
-----------------------------------------------------------------------------
(***************************************************************************)
(* Recording.                                                              *)
(***************************************************************************)
\* Mutant: the cache is cleared before the start is noted.
OpeningCacheFirst == <<[kind |-> "clearCache", state |-> "Injected"],
                       [kind |-> "recStart",   state |-> "Ready"],
                       [kind |-> "loadURL",    state |-> "Injected"],
                       [kind |-> "loadURL",    state |-> "Injected"],
                       [kind |-> "resize",     state |-> "Ready"]>>

\* The events every recording opens with, in the order their timestamps are
\* taken.  The recorder clears the cache and loads about:blank and the page at
\* once, by the visits that a replay makes, so these have been injected.
Opening == <<[kind |-> "recStart",   state |-> "Ready"],
             [kind |-> "clearCache", state |-> "Injected"],
             [kind |-> "loadURL",    state |-> "Injected"],
             [kind |-> "loadURL",    state |-> "Injected"],
             [kind |-> "resize",     state |-> "Ready"]>>

\* Only the replay flag is tested: a recording in progress is thrown away and
\* begun again.  The resize is appended before the page load that precedes it.
StartRecording(a) ==
  /\ Commanded(a) /\ created + 5 <= MaxEvents
  /\ ~replaying[a]
  /\ SetRecordingState(a, TRUE)
  /\ InitPlatformWrapper(a)
  /\ recordings' = recordings + 1
  /\ v8' = "RECORDING" /\ v8Of' = recordings + 1
  /\ events' = [e \in EventId |->
       IF e - created \in 1..5
       THEN [kind |-> Opening[e - created].kind, tick |-> now,
             seq |-> e - created, state |-> Opening[e - created].state]
       ELSE events[e]]
  /\ created' = created + 5
  /\ store' = <<created + 1, created + 2, created + 3, created + 5, created + 4>>
  /\ storeOf' = recordings + 1
  /\ recordStart' = now
  /\ UNCHANGED <<loopVars, otherVars, histVars>>

\* appendForensicEvent of a new event, stamped with the time.
AppendForensicEvent(k) ==
  /\ events' = [events EXCEPT ![created + 1] =
       [kind |-> k, tick |-> now, seq |-> Len(store) + 1, state |-> "Ready"]]
  /\ created' = created + 1
  /\ store' = Append(store, created + 1)
  /\ UNCHANGED <<storeOf, recordStart, recordings>>

\* Mutant: the hook does not ask whether the agent records.
HandleUserEventAlways(a, k) ==
  /\ now <= Horizon /\ created < MaxEvents /\ Len(store) < 7 + MaxLength
  /\ attached[a]
  /\ AppendForensicEvent(k)
  /\ UNCHANGED <<modeVars, bindVars, v8, v8Of, loopVars, otherVars, histVars>>

\* The instrumentation hooks append to whatever store the agent was given; an
\* agent that records without one would dereference null.
HandleUserEvent(a, k) ==
  /\ now <= Horizon /\ created < MaxEvents /\ Len(store) < 5 + MaxLength
  /\ recording[a] /\ attached[a]
  /\ AppendForensicEvent(k)
  /\ UNCHANGED <<modeVars, bindVars, v8, v8Of, loopVars, otherVars, histVars>>

\* Mutant: no stop event closes the recording.
StopRecordingSilently(a) ==
  /\ now <= Horizon
  /\ ~replaying[a] /\ recording[a] /\ attached[a]
  /\ SetRecordingState(a, FALSE)
  /\ v8' = "OFF"
  /\ UNCHANGED <<bindVars, v8Of, storeVars, loopVars, otherVars, histVars>>

\* An agent that records without a recorder would dereference null here too.
StopRecording(a) ==
  /\ now <= Horizon /\ created < MaxEvents
  /\ ~replaying[a] /\ recording[a] /\ attached[a]
  /\ SetRecordingState(a, FALSE)
  /\ v8' = "OFF"
  /\ AppendForensicEvent("stop")
  /\ UNCHANGED <<bindVars, v8Of, loopVars, otherVars, histVars>>
-----------------------------------------------------------------------------
(***************************************************************************)
(* Dumping and loading.                                                    *)
(***************************************************************************)
DumpRecording(a) ==
  /\ now <= Horizon
  /\ ~replaying[a] /\ ~recording[a] /\ attached[a]
  /\ file' = [events |-> [i \in 1..Len(store) |->
                [kind |-> events[store[i]].kind, tick |-> events[store[i]].tick,
                 seq  |-> events[store[i]].seq]],
              start |-> recordStart, rec |-> storeOf, v8 |-> TRUE]
  /\ UNCHANGED <<modeVars, bindVars, v8, v8Of, storeVars, loopVars, now, swaps, histVars>>

\* Mutant: only Blink's part of the file is loaded.
LoadRecordingBlinkOnly(a) ==
  LET n == Len(file.events) IN
  /\ Commanded(a) /\ n > 0 /\ created + n <= MaxEvents
  /\ ~replaying[a] /\ ~recording[a]
  /\ InitPlatformWrapper(a)
  /\ events' = [e \in EventId |->
       IF e - created \in 1..n
       THEN [kind |-> file.events[e - created].kind, tick |-> file.events[e - created].tick,
             seq |-> file.events[e - created].seq, state |-> "Ready"]
       ELSE events[e]]
  /\ created' = created + n
  /\ store' = [i \in 1..n |-> created + i]
  /\ storeOf' = file.rec
  /\ recordStart' = file.start
  /\ UNCHANGED <<modeVars, v8, v8Of, recordings, loopVars, otherVars, histVars>>

\* A recording in progress is stopped and dropped.  The events are created anew;
\* V8's maps are replaced only when the file has something for V8.
LoadRecording(a) ==
  LET n == Len(file.events) IN
  /\ Commanded(a) /\ n > 0 /\ created + n <= MaxEvents
  /\ ~replaying[a]
  /\ InitPlatformWrapper(a)
  /\ IF recording[a]
     THEN SetRecordingState(a, FALSE) /\ v8' = "OFF"
     ELSE UNCHANGED <<modeVars, v8>>
  /\ events' = [e \in EventId |->
       IF e - created \in 1..n
       THEN [kind |-> file.events[e - created].kind, tick |-> file.events[e - created].tick,
             seq |-> file.events[e - created].seq, state |-> "Ready"]
       ELSE events[e]]
  /\ created' = created + n
  /\ store' = [i \in 1..n |-> created + i]
  /\ storeOf' = file.rec
  /\ recordStart' = file.start
  /\ v8Of' = IF file.v8 THEN file.rec ELSE v8Of
  /\ UNCHANGED <<recordings, loopVars, otherVars, histVars>>

\* During a replay the file is dropped without a word.
LoadIgnored(a) ==
  /\ Commanded(a) /\ Len(file.events) > 0
  /\ replaying[a] /\ ~recording[a] /\ ~attached[a]
  /\ InitPlatformWrapper(a)
  /\ UNCHANGED <<modeVars, v8, v8Of, storeVars, loopVars, otherVars, histVars>>
-----------------------------------------------------------------------------
(***************************************************************************)
(* Replaying.                                                              *)
(***************************************************************************)
\* Mutant: the events keep the states a recording or a replay left them in.
StartReplayUnreset(a, speed) ==
  /\ Commanded(a)
  /\ ~recording[a] /\ ~replaying[a] /\ attached[a] /\ store # <<>>
  /\ SetReplayState(a, TRUE)
  /\ v8' = "REPLAYING"
  /\ tasks' = Append(tasks, [agent |-> a, events |-> Range(store), recordStart |-> recordStart,
                             replayStart |-> now, speed |-> speed])
  /\ shown' = [shown EXCEPT ![a] = NothingShown]
  /\ lag' = [lag EXCEPT ![a] = 0]
  /\ UNCHANGED <<bindVars, v8Of, storeVars, pairs, batches, otherVars>>

StartReplay(a, speed) ==
  /\ Commanded(a)
  /\ ~recording[a] /\ ~replaying[a] /\ attached[a] /\ store # <<>>
  /\ events' = [e \in EventId |->
       IF e \in Range(store) THEN [events[e] EXCEPT !.state = "Ready"] ELSE events[e]]
  /\ SetReplayState(a, TRUE)
  /\ v8' = "REPLAYING"
  /\ tasks' = Append(tasks, [agent |-> a, events |-> Range(store), recordStart |-> recordStart,
                             replayStart |-> now, speed |-> speed])
  /\ shown' = [shown EXCEPT ![a] = NothingShown]
  /\ lag' = [lag EXCEPT ![a] = 0]
  /\ UNCHANGED <<bindVars, v8Of, created, store, storeOf, recordStart, recordings,
                 pairs, batches, otherVars>>

\* Mutant: V8 goes on replaying.
EndReplayBlinkOnly(a) ==
  IF ~recording[a] /\ replaying[a]
  THEN SetReplayState(a, FALSE) /\ UNCHANGED v8
  ELSE UNCHANGED <<modeVars, v8>>

\* InspectorForensicsAgent::stopReplay, which the stop event calls too.
EndReplay(a) ==
  IF ~recording[a] /\ replaying[a]
  THEN SetReplayState(a, FALSE) /\ v8' = "OFF"
  ELSE UNCHANGED <<modeVars, v8>>

StopReplay(a) ==
  /\ now <= Horizon
  /\ replaying[a]
  /\ EndReplay(a)
  /\ UNCHANGED <<bindVars, v8Of, storeVars, loopVars, otherVars, histVars>>

\* Mutant: the visits do not ask whether the event is Ready.
VisitedAnyway(e) == events[e].kind # "recStart"

\* ForensicEventInjector's visits: all but that of a history item pass by an
\* event that is not Ready; those of an input event and of the recording's start
\* leave it Ready; a menu change needs a focused form control.
Visited(e)  == events[e].kind # "recStart" /\ (events[e].state = "Ready" \/ events[e].kind = "history")
After(e)    == CASE events[e].kind = "input" -> {events[e].state}
                 [] events[e].kind = "menu"  -> {"Injected", "Failed"}
                 [] OTHER                    -> {"Injected"}

\* A task looks at the clock twice for each of its events, in the order of their
\* timestamps: to work out the event's delay, and when the delay is added to the
\* time at which the pair is posted.
ReadAt(e)   == 2 * events[e].seq - 1
PostedAt(e) == 2 * events[e].seq
Looks(t)    == {0} \cup UNION {{ReadAt(e), PostedAt(e)} : e \in t.events}

\* What the clock shows at a look, when the i-th tick that passes meanwhile follows
\* look held[i].
Clock(held, look) == now + Cardinality({i \in DOMAIN held : held[i] < look})

\* What is left of the recorded delay of an event.
Left(t, e, held) ==
  (events[e].tick - t.recordStart) + t.replayStart - Clock(held, ReadAt(e))

\* Mutant: a negative delay is taken for a positive one.
DelayAbsolute(t, e, held) ==
  IF Left(t, e, held) < 0 THEN 0 - Left(t, e, held) ELSE Left(t, e, held) * t.speed

\* The scaler multiplies it.
Delay(t, e, held) == IF Left(t, e, held) < 0 THEN 0 ELSE Left(t, e, held) * t.speed

PairOf(t, e, held) ==
  [agent |-> t.agent, event |-> e, due |-> Clock(held, PostedAt(e)) + Delay(t, e, held),
   late |-> Delay(t, e, held) = 0, batch |-> batches, id |-> inspState[t.agent].stateID]

\* Between two of its looks at the clock the task may be held up, for any time.
RunDelayed ==
  LET t == Head(tasks) IN
  /\ tasks # <<>> /\ t.speed > 0
  /\ tasks' = Tail(tasks)
  /\ \E hold \in 0..MaxHold : \E held \in [1..hold -> Looks(t)] :
       /\ now + hold <= LastTick
       /\ now' = now + hold
       /\ lag' = [lag EXCEPT ![t.agent] = IF hold > @ THEN hold ELSE @]
       /\ pairs' = pairs \cup {PairOf(t, e, held) : e \in t.events}
  /\ batches' = batches + 1
  /\ UNCHANGED <<modeVars, bindVars, v8, v8Of, storeVars, file, swaps, shown>>

\* With no scaler all events are injected in one task, in the order of their
\* timestamps, until the agent no longer replays: up to the first stop event.
Reached(t) ==
  {e \in t.events : \A s \in t.events :
     events[s].kind = "stop" /\ Visited(s) => events[e].seq <= events[s].seq}

\* What the visits to the events of S may leave them in.
Outcomes(S) ==
  {after \in [S -> UNION {After(e) : e \in S}] : \A e \in S : after[e] \in After(e)}

RunUndelayed ==
  LET t == Head(tasks)
      a == t.agent
      S == IF inspState[a].replaying THEN {e \in Reached(t) : Visited(e)} ELSE {}
  IN
  /\ tasks # <<>> /\ t.speed = 0
  /\ tasks' = Tail(tasks)
  /\ \E after \in Outcomes(S) :
       events' = [e \in EventId |->
         IF e \in S THEN [events[e] EXCEPT !.state = after[e]] ELSE events[e]]
  /\ shown' = [shown EXCEPT ![a] = [e \in EventId |-> @[e] + (IF e \in S THEN 1 ELSE 0)]]
  /\ IF \E e \in S : events[e].kind = "stop"
     THEN EndReplay(a)
     ELSE UNCHANGED <<modeVars, v8>>
  /\ UNCHANGED <<bindVars, v8Of, created, store, storeOf, recordStart, recordings,
                 pairs, batches, otherVars, lag>>

\* Mutant: what is late leaves in any order.
PrecedesUnsorted(p, q) ==
  IF p.late THEN p.batch < q.batch ELSE ~q.late /\ p.due < q.due

\* Tasks leave the loop when they are due: those posted without a delay in the order
\* in which they were posted and before what was posted after them (by batch, and
\* within one sorted), the others by the time at which they are due.  Of those due at
\* the same tick any may be first, since delays are cut to whole milliseconds.
Precedes(p, q) ==
  IF p.late
  THEN \/ p.batch < q.batch
       \/ p.batch = q.batch /\ events[p.event].seq < events[q.event].seq
  ELSE ~q.late /\ p.due < q.due

Fires(p) == p \in pairs /\ p.due <= now /\ \A q \in pairs : ~Precedes(q, p)

\* A pair of the replay in progress injects its event ...
RunPairInject(p) ==
  /\ Fires(p)
  /\ StillReplaying(p.agent, p.id)
  /\ pairs' = pairs \ {p}
  /\ IF Visited(p.event)
     THEN /\ \E s \in After(p.event) : events' = [events EXCEPT ![p.event].state = s]
          /\ shown' = [shown EXCEPT ![p.agent][p.event] = @ + 1]
          /\ IF events[p.event].kind = "stop"
             THEN EndReplay(p.agent)
             ELSE UNCHANGED <<modeVars, v8>>
     ELSE UNCHANGED <<events, shown, modeVars, v8>>
  /\ UNCHANGED <<bindVars, v8Of, created, store, storeOf, recordStart, recordings,
                 tasks, batches, otherVars, lag>>

\* ... and one of a past replay cancels it.
RunPairCancel(p) ==
  /\ Fires(p)
  /\ ~StillReplaying(p.agent, p.id)
  /\ pairs' = pairs \ {p}
  /\ events' = [events EXCEPT ![p.event].state = "Cancelled"]
  /\ UNCHANGED <<modeVars, bindVars, v8, v8Of, created, store, storeOf, recordStart, recordings,
                 tasks, batches, otherVars, histVars>>
-----------------------------------------------------------------------------
(***************************************************************************)
(* The environment.                                                        *)
(***************************************************************************)
\* Bound: a posted task is not kept waiting beyond the horizon.
Tick ==
  /\ now < LastTick
  /\ now >= Horizon => tasks = <<>>
  /\ now' = now + 1
  /\ UNCHANGED <<modeVars, bindVars, v8, v8Of, storeVars, loopVars, file, swaps, histVars>>

\* restore(): the flags come back from the InspectorState cookie.
Restored(a) == IF inspState[a].stateID # -1 THEN inspState[a].stateID ELSE 0

\* The renderer is replaced and the frontend attached to the new one
\* (InspectorController::reuseFrontend): all that lived in the process is gone.
SwapRenderer ==
  /\ now <= Horizon /\ swaps < MaxSwaps
  /\ swaps' = swaps + 1
  /\ recording' = [a \in Agents |-> inspState[a].recording]
  /\ replaying' = [a \in Agents |-> inspState[a].replaying]
  /\ stateId' = [a \in Agents |-> Restored(a)]
  /\ inspState' = [a \in Agents |-> [inspState[a] EXCEPT !.stateID = Restored(a)]]
  /\ attached' = [a \in Agents |-> FALSE]
  /\ owner' = NoAgent
  /\ v8' = "OFF" /\ v8Of' = 0
  /\ events' = [e \in EventId |-> Blank]
  /\ created' = 0
  /\ store' = <<>> /\ storeOf' = 0
  /\ recordStart' = 0
  /\ tasks' = <<>> /\ pairs' = {} /\ batches' = 0
  /\ shown' = [a \in Agents |-> NothingShown]
  /\ lag' = [a \in Agents |-> 0]
  /\ UNCHANGED <<recordings, file, now>>

Command(a) ==
  \/ StartRecording(a)
  \/ StopRecording(a)
  \/ DumpRecording(a)
  \/ LoadRecording(a)
  \/ LoadIgnored(a)
  \/ \E speed \in Speeds : StartReplay(a, speed)
  \/ StopReplay(a)

MessageLoop ==
  \/ RunDelayed
  \/ RunUndelayed
  \/ \E p \in pairs : RunPairInject(p) \/ RunPairCancel(p)

Next ==
  \/ \E a \in Agents : Command(a)
  \/ \E a \in Agents, k \in UserKinds : HandleUserEvent(a, k)
  \/ MessageLoop
  \/ Tick
  \/ SwapRenderer

Spec == Init /\ [][Next]_vars

\* The message loop runs what is posted to it and due, and time passes; nobody
\* has to give a command or use the page.
Fairness == WF_vars(MessageLoop) /\ WF_vars(Tick)

FairSpec == Spec /\ Fairness
-----------------------------------------------------------------------------
(***************************************************************************)
(* Safety.                                                                 *)
(***************************************************************************)
\* What the wrappers of tasks, pairs and platform read is what the agent is in,
\* also after the flags were restored in a new renderer; an agent never records
\* and replays; no pair holds a token that is still to come.
Mirrored(a) ==
  /\ inspState[a].recording = recording[a]
  /\ inspState[a].replaying = replaying[a]
  /\ inspState[a].stateID = stateId[a] \/ (inspState[a].stateID = -1 /\ stateId[a] = 0)
ModesAgree ==
  /\ \A a \in Agents : Mirrored(a) /\ ~(recording[a] /\ replaying[a])
  /\ \A p \in pairs : p.id <= stateId[p.agent]

\* startReplay: "Index 0 should always be a ForensicRecordingStartEvent".
StoreStartsWithRecStart == store # <<>> => events[store[1]].kind = "recStart"

\* A replay ends by its stop event: a store that is not being recorded into ends
\* with one, and no event of it is later ("we have recorded no more data that can
\* be replayed").
RecordingIsClosed ==
  (store # <<>> /\ \A a \in Agents : ~recording[a]) =>
    /\ events[store[Len(store)]].kind = "stop"
    /\ \A i \in 1..Len(store) - 1 :
         /\ events[store[i]].kind # "stop"
         /\ events[store[i]].tick <= events[store[Len(store)]].tick
         /\ events[store[i]].seq  <  events[store[Len(store)]].seq

\* V8 and the wrapped platform record and replay when, and only when, the one
\* agent of the process does.
InstrumentationInSync ==
  \A a \in Agents :
    /\ recording[a] <=> v8 = "RECORDING"
    /\ replaying[a] <=> v8 = "REPLAYING"
    /\ recording[a] \/ replaying[a] =>
         /\ attached[a]
         /\ owner \in Agents
         /\ inspState[owner].recording = recording[a]
         /\ inspState[owner].replaying = replaying[a]

\* What V8 and what Blink replay are parts of the same recording.
V8DataMatchesStore == (\E a \in Agents : replaying[a]) => v8Of = storeOf

\* The ASSERTs on m_dataRecorder and m_dataStore in the hooks: an agent in a mode
\* has the store it works on.
RecorderPresent == \A a \in Agents : recording[a] \/ replaying[a] => attached[a]

\* The pair of a past replay cancels its event "for informational completeness":
\* it does not take it from the replay in progress.
CancelIsInformational ==
  \A p \in pairs : StillReplaying(p.agent, p.id) => events[p.event].state # "Cancelled"
-----------------------------------------------------------------------------
(***************************************************************************)
(* Actions.                                                                *)
(***************************************************************************)
\* Was e recorded before f by more than a task of the agent's replay was held up?
WellBefore(a, e, f) == events[e].tick + lag[a] < events[f].tick

\* Of two events recorded further apart than the time a task took to post its pairs, the
\* first is never injected for the first time in a replay after the second: at any speed,
\* however late the task runs and wherever it is held up, however often replays are stopped
\* and restarted, and whatever tasks and pairs of earlier ones are still in the loop.
ShownFirst(a, e) == shown[a][e] = 0 /\ shown'[a][e] > 0
InRecordedOrder ==
  \A a \in Agents : \A e, f \in Range(store) :
    ShownFirst(a, e) /\ WellBefore(a, e, f) => shown[a][f] = 0
FirstInjectionsInOrder == [][InRecordedOrder]_vars

\* What was recorded that much before an event which a replay injects for the first time is
\* not skipped: it has been injected, or a pair of an earlier replay cancelled it.
ShownSoFar ==
  \A a \in Agents : \A e, f \in Range(store) :
    ShownFirst(a, f) /\ WellBefore(a, e, f) /\ events[e].kind # "recStart" =>
      shown'[a][e] > 0 \/ events'[e].state = "Cancelled"
NothingSkipped == [][ShownSoFar]_vars

\* No event is injected twice in a replay, two tasks that both take the current
\* token notwithstanding: except input events, whose visit leaves them Ready, and
\* history items, whose visit asks nothing.
OneShotEventsOnce ==
  \A a \in Agents, e \in EventId :
    shown[a][e] > 1 => events[e].kind \in {"input", "history"}

\* A replay that its stop event ends has shown everything recorded before it, by more than
\* the replay's task was held up.
ShownComplete ==
  \A a \in Agents : \A s \in Range(store) :
    ShownFirst(a, s) /\ events[s].kind = "stop" =>
      \A e \in Range(store) :
        WellBefore(a, e, s) /\ events[e].kind # "recStart" => shown'[a][e] > 0
ReplayIsComplete == [][ShownComplete]_vars

\* Every replay ends by itself.
ReplayEnds == \A a \in Agents : replaying[a] ~> ~replaying[a]
-----------------------------------------------------------------------------
(***************************************************************************)
(* Each agent implements the modes its user sees.                          *)
(***************************************************************************)
Mode(a) == IF recording[a] THEN "recording" ELSE IF replaying[a] THEN "replaying" ELSE "idle"

S(a) == INSTANCE SessionMode WITH mode <- Mode(a), token <- stateId[a], shown <- shown[a]

ImplementsModes ==
  /\ \A a \in Agents : S(a)!Init
  /\ [][\A a \in Agents : [S(a)!Next]_(S(a)!vars)]_vars
=============================================================================
