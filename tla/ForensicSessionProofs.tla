------------------------ MODULE ForensicSessionProofs ------------------------
(***************************************************************************)
(* What is proved of ForensicSession for every number of pages, files,     *)
(* speeds and commands.                                                    *)
(***************************************************************************)
EXTENDS ForensicSession, FiniteSetTheorems, TLAPS

(***************************************************************************)
(* Type correctness.                                                       *)
(***************************************************************************)
LEMMA SetRecordingStateType ==
  ASSUME TypeOK, NEW a \in Agents, NEW b \in BOOLEAN, SetRecordingState(a, b)
  PROVE  /\ recording' \in [Agents -> BOOLEAN]
         /\ replaying' \in [Agents -> BOOLEAN]
         /\ stateId' \in [Agents -> Nat]
         /\ inspState' \in [Agents -> [recording : BOOLEAN, replaying : BOOLEAN, stateID : Nat \cup {-1}]]
  BY DEF TypeOK, SetRecordingState

LEMMA SetReplayStateType ==
  ASSUME TypeOK, NEW a \in Agents, NEW b \in BOOLEAN, SetReplayState(a, b)
  PROVE  /\ recording' \in [Agents -> BOOLEAN]
         /\ replaying' \in [Agents -> BOOLEAN]
         /\ stateId' \in [Agents -> Nat]
         /\ inspState' \in [Agents -> [recording : BOOLEAN, replaying : BOOLEAN, stateID : Nat \cup {-1}]]
  BY DEF TypeOK, SetReplayState

\* stopReplay changes the modes or nothing, and leaves V8 off or as it was.
LEMMA EndReplayType ==
  ASSUME TypeOK, NEW a \in Agents, EndReplay(a)
  PROVE  /\ recording' \in [Agents -> BOOLEAN]
         /\ replaying' \in [Agents -> BOOLEAN]
         /\ stateId' \in [Agents -> Nat]
         /\ inspState' \in [Agents -> [recording : BOOLEAN, replaying : BOOLEAN, stateID : Nat \cup {-1}]]
         /\ v8' \in {"OFF", "RECORDING", "REPLAYING"}
  <1>1. CASE ~recording[a] /\ replaying[a]
    BY <1>1, SetReplayStateType DEF EndReplay, TypeOK
  <1>2. CASE ~(~recording[a] /\ replaying[a])
    BY <1>2 DEF EndReplay, TypeOK, modeVars
  <1> QED BY <1>1, <1>2

LEMMA InitPlatformWrapperType ==
  ASSUME TypeOK, NEW a \in Agents, InitPlatformWrapper(a)
  PROVE  attached' \in [Agents -> BOOLEAN] /\ owner' \in Agents \cup {NoAgent}
  BY DEF TypeOK, InitPlatformWrapper

LEMMA InitType == Init => TypeOK
  <1> SUFFICES ASSUME Init PROVE TypeOK
    OBVIOUS
  <1>1. Blank \in Event
    BY DEF Blank, Event, Kinds, States
  <1>2. NoFile \in File
    <2>1. <<>> \in Seq(Info)
      OBVIOUS
    <2> QED BY <2>1 DEF NoFile, File
  <1>3. file \in File
    BY <1>2, SessionAssumption DEF Init
  <1>4. events \in [EventId -> Event]
    BY <1>1 DEF Init
  <1>5. shown \in [Agents -> [EventId -> Nat]] /\ lag \in [Agents -> Nat]
    BY DEF Init, NothingShown
  <1>6. tasks \in Seq(Task) /\ store \in Seq(EventId)
    BY DEF Init
  <1>7. /\ created \in 0..MaxEvents
        /\ now \in 0..LastTick
        /\ swaps \in 0..MaxSwaps
    BY SessionAssumption DEF Init
  <1>8. inspState \in [Agents -> [recording : BOOLEAN, replaying : BOOLEAN, stateID : Nat \cup {-1}]]
    BY DEF Init
  <1> QED BY <1>3, <1>4, <1>5, <1>6, <1>7, <1>8 DEF Init, TypeOK

\* Two looks at the clock: it never goes back, and no further than the task is held up.
LEMMA ClockIs ==
  ASSUME TypeOK, NEW hold \in Nat, NEW held \in [1..hold -> Int], NEW look \in Int
  PROVE  Clock(held, look) \in Nat /\ now <= Clock(held, look) /\ Clock(held, look) <= now + hold
  <1> DEFINE before == {i \in DOMAIN held : held[i] < look}
  <1>1. IsFiniteSet(1..hold) /\ Cardinality(1..hold) <= hold
    BY FS_Interval
  <1>2. before \in SUBSET (1..hold)
    OBVIOUS
  <1>3. /\ Cardinality(before) \in Nat /\ Cardinality(1..hold) \in Nat
        /\ Cardinality(before) <= Cardinality(1..hold)
    BY <1>1, <1>2, FS_Subset, FS_CardinalityType
  <1>4. now \in Nat
    BY SessionAssumption DEF TypeOK
  <1>5. Clock(held, look) = now + Cardinality(before)
    BY DEF Clock
  <1> HIDE DEF before
  <1> QED BY <1>1, <1>3, <1>4, <1>5

LEMMA ClockMoves ==
  ASSUME TypeOK, NEW hold \in Nat, NEW held \in [1..hold -> Int],
         NEW look \in Int, NEW later \in Int, look <= later
  PROVE  Clock(held, look) <= Clock(held, later)
  <1> DEFINE before == {i \in DOMAIN held : held[i] < look}
             by == {i \in DOMAIN held : held[i] < later}
  <1>1. IsFiniteSet(1..hold)
    BY FS_Interval
  <1>2. by \in SUBSET (1..hold) /\ before \in SUBSET by
    OBVIOUS
  <1>3. IsFiniteSet(before) /\ IsFiniteSet(by)
    BY <1>1, <1>2, FS_Subset
  <1>4. Cardinality(before) <= Cardinality(by) /\ Cardinality(before) \in Nat /\ Cardinality(by) \in Nat
    BY <1>2, <1>3, FS_Subset, FS_CardinalityType
  <1>5. Clock(held, look) = now + Cardinality(before) /\ Clock(held, later) = now + Cardinality(by)
    BY DEF Clock
  <1>6. now \in Nat
    BY SessionAssumption DEF TypeOK
  <1> HIDE DEF before, by
  <1> QED BY <1>4, <1>5, <1>6

\* A delay is never negative.
LEMMA DelayType ==
  ASSUME TypeOK, NEW t \in Task, NEW e \in EventId, NEW hold \in Nat, NEW held \in [1..hold -> Int]
  PROVE  Left(t, e, held) \in Int /\ Delay(t, e, held) \in Nat
  <1> DEFINE left == Left(t, e, held)
  <1>1. ReadAt(e) \in Int
    BY DEF TypeOK, Event, ReadAt
  <1>2. Clock(held, ReadAt(e)) \in Nat
    BY <1>1, ClockIs
  <1>3. left \in Int /\ t.speed \in Nat
    BY <1>2 DEF TypeOK, Task, Event, Left
  <1>4. Delay(t, e, held) = IF left < 0 THEN 0 ELSE left * t.speed
    BY DEF Delay
  <1> HIDE DEF left
  <1>5. ASSUME left < 0 PROVE Delay(t, e, held) \in Nat
    BY <1>4, <1>5
  <1>6. ASSUME ~(left < 0) PROVE Delay(t, e, held) \in Nat
    <2>1. left \in Nat  BY <1>3, <1>6
    <2>2. left * t.speed \in Nat  BY <1>3, <2>1
    <2> QED BY <1>4, <1>6, <2>2
  <1>7. Delay(t, e, held) \in Nat
    BY <1>5, <1>6
  <1> QED BY <1>3, <1>7 DEF left

\* What a task posts and how long it takes, when it is held up at the looks held.
HeldUp(t, hold, held) ==
  /\ now' = now + hold /\ now' <= LastTick
  /\ lag' = [lag EXCEPT ![t.agent] = IF hold > @ THEN hold ELSE @]
  /\ pairs' = pairs \cup {PairOf(t, e, held) : e \in t.events}

LEMMA RunDelayedPosts ==
  ASSUME TypeOK, RunDelayed
  PROVE  /\ Head(tasks) \in Task /\ Head(tasks).speed > 0 /\ Head(tasks).agent \in Agents
         /\ \E hold \in Nat : \E held \in [1..hold -> Int] : HeldUp(Head(tasks), hold, held)
  <1> DEFINE t == Head(tasks)
  <1>1. t \in Task /\ t.speed > 0
    BY DEF TypeOK, RunDelayed
  <1>2. t.agent \in Agents /\ t.events \subseteq EventId
    BY <1>1 DEF Task
  <1>3. PICK hold \in 0..MaxHold : \E held \in [1..hold -> Looks(t)] : HeldUp(t, hold, held)
    BY DEF RunDelayed, HeldUp
  <1>4. PICK held \in [1..hold -> Looks(t)] : HeldUp(t, hold, held)
    BY <1>3
  <1>5. Looks(t) \subseteq Int
    <2>1. \A e \in t.events : ReadAt(e) \in Int /\ PostedAt(e) \in Int
      BY <1>2 DEF TypeOK, Event, ReadAt, PostedAt
    <2> QED BY <2>1 DEF Looks
  <1>6. held \in [1..hold -> Int]
    BY <1>5
  <1>7. hold \in Nat
    BY SessionAssumption
  <1> QED BY <1>1, <1>2, <1>4, <1>6, <1>7

LEMMA PairOfType ==
  ASSUME TypeOK, NEW t \in Task, NEW e \in t.events, NEW hold \in Nat,
         NEW held \in [1..hold -> Int]
  PROVE  PairOf(t, e, held) \in Pair
  <1>1. e \in EventId /\ t.agent \in Agents
    BY DEF Task
  <1>2. PostedAt(e) \in Int
    BY <1>1 DEF TypeOK, Event, PostedAt
  <1>3. Clock(held, PostedAt(e)) \in Nat /\ Delay(t, e, held) \in Nat
    BY <1>1, <1>2, ClockIs, DelayType
  <1>4. batches \in Nat /\ inspState[t.agent].stateID \in Int
    BY <1>1 DEF TypeOK
  <1> QED BY <1>1, <1>3, <1>4 DEF Pair, PairOf

LEMMA StartRecordingType ==
  ASSUME TypeOK, NEW a \in Agents, StartRecording(a)
  PROVE  TypeOK'
  <1>2. /\ created \in Nat /\ created + 5 <= MaxEvents /\ MaxEvents \in Nat
    BY SessionAssumption DEF TypeOK, StartRecording
  <1>3. events' \in [EventId -> Event]
    <2>1. ASSUME NEW e \in EventId, e - created \in 1..5
          PROVE  [kind |-> Opening[e - created].kind, tick |-> now,
                  seq |-> e - created, state |-> Opening[e - created].state] \in Event
      <3>1. \A i \in 1..5 : Opening[i].kind \in Kinds /\ Opening[i].state \in States
        BY DEF Opening, Kinds, States
      <3>2. now \in Nat /\ e - created \in Nat
        BY <2>1, SessionAssumption DEF TypeOK
      <3> QED BY <2>1, <3>1, <3>2 DEF Event
    <2> QED BY <2>1 DEF TypeOK, StartRecording
  <1>4. store' \in Seq(EventId) /\ created' \in 0..MaxEvents
    <2>1. \A i \in 1..5 : created + i \in EventId
      BY <1>2 DEF EventId
    <2>2. /\ created + 1 \in EventId /\ created + 2 \in EventId /\ created + 3 \in EventId
          /\ created + 4 \in EventId /\ created + 5 \in EventId
      BY <2>1
    <2> QED BY <1>2, <2>2 DEF StartRecording
  <1>5. /\ attached' \in [Agents -> BOOLEAN] /\ owner' \in Agents \cup {NoAgent}
    BY InitPlatformWrapperType DEF StartRecording
  <1>6. /\ recording' \in [Agents -> BOOLEAN]
        /\ replaying' \in [Agents -> BOOLEAN]
        /\ stateId' \in [Agents -> Nat]
        /\ inspState' \in [Agents -> [recording : BOOLEAN, replaying : BOOLEAN, stateID : Nat \cup {-1}]]
    BY SetRecordingStateType DEF StartRecording
  <1>7. recordStart' \in Nat /\ recordings' \in Nat /\ v8Of' \in Nat /\ storeOf' \in Nat
    <2>1. now \in Nat /\ recordings \in Nat
      BY SessionAssumption DEF TypeOK
    <2>2. /\ recordStart' = now /\ recordings' = recordings + 1
          /\ v8Of' = recordings + 1 /\ storeOf' = recordings + 1
      BY DEF StartRecording
    <2> QED BY <2>1, <2>2
  <1>8. /\ v8' \in {"OFF", "RECORDING", "REPLAYING"}
        /\ UNCHANGED <<tasks, pairs, batches, file, now, swaps, shown, lag>>
    BY DEF StartRecording, loopVars, otherVars, histVars
  <1> QED BY <1>3, <1>4, <1>5, <1>6, <1>7, <1>8 DEF TypeOK

LEMMA AppendForensicEventType ==
  ASSUME TypeOK, created < MaxEvents, NEW k \in Kinds, AppendForensicEvent(k)
  PROVE  /\ events' \in [EventId -> Event]
         /\ created' \in 0..MaxEvents
         /\ store' \in Seq(EventId)
         /\ storeOf' \in Nat /\ recordStart' \in Nat /\ recordings' \in Nat
  <1>1. created + 1 \in EventId /\ created + 1 \in 0..MaxEvents
    BY SessionAssumption DEF TypeOK, EventId
  <1>2. [kind |-> k, tick |-> now, seq |-> Len(store) + 1, state |-> "Ready"] \in Event
    BY SessionAssumption DEF TypeOK, Event, States
  <1> QED BY <1>1, <1>2 DEF TypeOK, AppendForensicEvent

LEMMA HandleUserEventType ==
  ASSUME TypeOK, NEW a \in Agents, NEW k \in UserKinds, HandleUserEvent(a, k)
  PROVE  TypeOK'
  <1>1. k \in Kinds /\ created < MaxEvents /\ AppendForensicEvent(k)
    BY SessionAssumption DEF Kinds, HandleUserEvent
  <1> QED BY <1>1, AppendForensicEventType
          DEF TypeOK, HandleUserEvent, modeVars, bindVars, loopVars, otherVars, histVars

LEMMA StopRecordingType ==
  ASSUME TypeOK, NEW a \in Agents, StopRecording(a)
  PROVE  TypeOK'
  <1>1. /\ created < MaxEvents /\ AppendForensicEvent("stop") /\ SetRecordingState(a, FALSE)
        /\ "stop" \in Kinds
    BY DEF StopRecording, Kinds
  <1> QED BY <1>1, AppendForensicEventType, SetRecordingStateType
          DEF TypeOK, StopRecording, bindVars, loopVars, otherVars, histVars

LEMMA DumpRecordingType ==
  ASSUME TypeOK, NEW a \in Agents, DumpRecording(a)
  PROVE  TypeOK'
  <1>1. \A i \in 1..Len(store) :
          [kind |-> events[store[i]].kind, tick |-> events[store[i]].tick,
           seq  |-> events[store[i]].seq] \in Info
    <2>1. \A i \in 1..Len(store) : store[i] \in EventId
      BY DEF TypeOK
    <2>2. \A i \in 1..Len(store) : events[store[i]] \in Event
      BY <2>1 DEF TypeOK
    <2> QED BY <2>2 DEF Event, Info
  <1>2. [i \in 1..Len(store) |->
          [kind |-> events[store[i]].kind, tick |-> events[store[i]].tick,
           seq  |-> events[store[i]].seq]] \in Seq(Info)
    BY <1>1 DEF TypeOK
  <1>3. file' \in File
    BY <1>2 DEF TypeOK, DumpRecording, File
  <1> QED BY <1>3 DEF TypeOK, DumpRecording, modeVars, bindVars, storeVars, loopVars, histVars

LEMMA LoadRecordingType ==
  ASSUME TypeOK, NEW a \in Agents, LoadRecording(a)
  PROVE  TypeOK'
  <1> DEFINE n == Len(file.events)
  <1>1. /\ file \in File /\ file.events \in Seq(Info) /\ n \in Nat
        /\ file.start \in Nat /\ file.rec \in Nat
    BY DEF TypeOK, File
  <1>2. created \in Nat /\ MaxEvents \in Nat /\ created + n <= MaxEvents
    BY SessionAssumption DEF TypeOK, LoadRecording
  <1>3. events' \in [EventId -> Event]
    <2>1. ASSUME NEW e \in EventId, e - created \in 1..n
          PROVE  [kind |-> file.events[e - created].kind, tick |-> file.events[e - created].tick,
                  seq |-> file.events[e - created].seq, state |-> "Ready"] \in Event
      <3>1. file.events[e - created] \in Info
        BY <1>1, <2>1
      <3> QED BY <3>1 DEF Info, Event, States
    <2> QED BY <2>1 DEF TypeOK, LoadRecording
  <1>4. store' \in Seq(EventId) /\ created' \in 0..MaxEvents
    <2>1. \A i \in 1..n : created + i \in EventId
      BY <1>1, <1>2 DEF EventId
    <2>2. [i \in 1..n |-> created + i] \in Seq(EventId)
      BY <1>1, <2>1
    <2> QED BY <1>1, <1>2, <2>2 DEF LoadRecording
  <1>5. /\ attached' \in [Agents -> BOOLEAN] /\ owner' \in Agents \cup {NoAgent}
    BY InitPlatformWrapperType DEF LoadRecording
  <1>6. /\ recording' \in [Agents -> BOOLEAN]
        /\ replaying' \in [Agents -> BOOLEAN]
        /\ stateId' \in [Agents -> Nat]
        /\ inspState' \in [Agents -> [recording : BOOLEAN, replaying : BOOLEAN, stateID : Nat \cup {-1}]]
        /\ v8' \in {"OFF", "RECORDING", "REPLAYING"}
    <2>1. CASE recording[a]
      BY <2>1, SetRecordingStateType DEF LoadRecording
    <2>2. CASE ~recording[a]
      BY <2>2 DEF LoadRecording, TypeOK, modeVars
    <2> QED BY <2>1, <2>2
  <1>7. v8Of' \in Nat /\ storeOf' \in Nat /\ recordStart' \in Nat
    BY <1>1 DEF TypeOK, LoadRecording
  <1> QED BY <1>3, <1>4, <1>5, <1>6, <1>7 DEF TypeOK, LoadRecording, loopVars, otherVars, histVars

LEMMA StartReplayType ==
  ASSUME TypeOK, NEW a \in Agents, NEW speed \in Speeds, StartReplay(a, speed)
  PROVE  TypeOK'
  <1>1. events' \in [EventId -> Event]
    <2>1. \A e \in EventId : [events[e] EXCEPT !.state = "Ready"] \in Event
      BY DEF TypeOK, Event, States
    <2> QED BY <2>1 DEF TypeOK, StartReplay
  <1>2. tasks' \in Seq(Task)
    <2>1. Range(store) \subseteq EventId
      BY DEF TypeOK, Range
    <2>2. [agent |-> a, events |-> Range(store), recordStart |-> recordStart,
           replayStart |-> now, speed |-> speed] \in Task
      BY <2>1, SessionAssumption DEF TypeOK, Task
    <2> QED BY <2>2 DEF TypeOK, StartReplay
  <1>3. /\ recording' \in [Agents -> BOOLEAN]
        /\ replaying' \in [Agents -> BOOLEAN]
        /\ stateId' \in [Agents -> Nat]
        /\ inspState' \in [Agents -> [recording : BOOLEAN, replaying : BOOLEAN, stateID : Nat \cup {-1}]]
    BY SetReplayStateType DEF StartReplay
  <1>4. shown' \in [Agents -> [EventId -> Nat]] /\ lag' \in [Agents -> Nat]
    BY DEF TypeOK, StartReplay, NothingShown
  <1>5. /\ v8' \in {"OFF", "RECORDING", "REPLAYING"}
        /\ UNCHANGED <<attached, owner, v8Of, created, store, storeOf, recordStart, recordings,
                       pairs, batches, file, now, swaps>>
    BY DEF StartReplay, bindVars, otherVars, histVars
  <1> QED BY <1>1, <1>2, <1>3, <1>4, <1>5 DEF TypeOK

LEMMA RunDelayedType ==
  ASSUME TypeOK, RunDelayed
  PROVE  TypeOK'
  <1> DEFINE t == Head(tasks)
  <1>1. t \in Task /\ t.agent \in Agents
    BY RunDelayedPosts
  <1>2. PICK hold \in Nat : \E held \in [1..hold -> Int] : HeldUp(t, hold, held)
    BY RunDelayedPosts
  <1>3. PICK held \in [1..hold -> Int] : HeldUp(t, hold, held)
    BY <1>2
  <1>4. pairs' \subseteq Pair
    <2>1. \A e \in t.events : PairOf(t, e, held) \in Pair
      BY <1>1, PairOfType
    <2> QED BY <1>3, <2>1 DEF TypeOK, HeldUp
  <1>5. now' \in 0..LastTick /\ lag' \in [Agents -> Nat]
    BY <1>1, <1>3, SessionAssumption DEF TypeOK, HeldUp
  <1>6. /\ batches' \in Nat /\ tasks' \in Seq(Task)
        /\ UNCHANGED <<modeVars, bindVars, v8, v8Of, storeVars, file, swaps, shown>>
    BY DEF TypeOK, RunDelayed
  <1> QED BY <1>4, <1>5, <1>6
          DEF TypeOK, modeVars, bindVars, storeVars

\* A visit leaves an event in one of its states.
LEMMA AfterType ==
  ASSUME TypeOK, NEW e \in EventId
  PROVE  After(e) \subseteq States
  BY DEF TypeOK, After, Event, States

LEMMA RunUndelayedType ==
  ASSUME TypeOK, RunUndelayed
  PROVE  TypeOK'
  <1> DEFINE t == Head(tasks)
             a == t.agent
             V == IF inspState[a].replaying THEN {e \in Reached(t) : Visited(e)} ELSE {}
  <1>1. t \in Task /\ tasks' \in Seq(Task) /\ a \in Agents
    <2>1. tasks # <<>> /\ tasks' = Tail(tasks)
      BY DEF RunUndelayed
    <2>2. tasks \in Seq(Task)
      BY DEF TypeOK
    <2>3. t \in Task /\ tasks' \in Seq(Task)
      BY <2>1, <2>2
    <2> QED BY <2>3 DEF Task
  <1>2. V \subseteq EventId
    BY <1>1 DEF Reached, Task
  <1>3. events' \in [EventId -> Event]
    <2>1. PICK after \in Outcomes(V) :
            events' = [e \in EventId |->
              IF e \in V THEN [events[e] EXCEPT !.state = after[e]] ELSE events[e]]
      BY DEF RunUndelayed
    <2>2. ASSUME NEW e \in V PROVE [events[e] EXCEPT !.state = after[e]] \in Event
      <3>1. after[e] \in States /\ e \in EventId
        BY <1>2, <2>1, AfterType DEF Outcomes
      <3>2. events[e] \in Event
        BY <3>1 DEF TypeOK
      <3> QED BY <3>1, <3>2 DEF Event
    <2> QED BY <2>1, <2>2 DEF TypeOK
  <1>4. shown' \in [Agents -> [EventId -> Nat]]
    <2>1. shown' = [shown EXCEPT ![a] =
                     [e \in EventId |-> shown[a][e] + (IF e \in V THEN 1 ELSE 0)]]
      BY DEF RunUndelayed
    <2>2. [e \in EventId |-> shown[a][e] + (IF e \in V THEN 1 ELSE 0)] \in [EventId -> Nat]
      BY <1>1 DEF TypeOK
    <2> QED BY <1>1, <2>1, <2>2 DEF TypeOK
  <1>5. /\ recording' \in [Agents -> BOOLEAN]
        /\ replaying' \in [Agents -> BOOLEAN]
        /\ stateId' \in [Agents -> Nat]
        /\ inspState' \in [Agents -> [recording : BOOLEAN, replaying : BOOLEAN, stateID : Nat \cup {-1}]]
        /\ v8' \in {"OFF", "RECORDING", "REPLAYING"}
    <2>1. EndReplay(a) \/ UNCHANGED <<modeVars, v8>>
      BY DEF RunUndelayed
    <2>2. CASE EndReplay(a)  BY <1>1, <2>2, EndReplayType
    <2>3. CASE UNCHANGED <<modeVars, v8>>  BY <2>3 DEF TypeOK, modeVars
    <2> QED BY <2>1, <2>2, <2>3
  <1>6. UNCHANGED <<bindVars, v8Of, created, store, storeOf, recordStart, recordings,
                    pairs, batches, otherVars, lag>>
    BY DEF RunUndelayed
  <1> QED BY <1>1, <1>3, <1>4, <1>5, <1>6 DEF TypeOK, bindVars, otherVars, histVars

LEMMA RunPairInjectType ==
  ASSUME TypeOK, NEW p \in pairs, RunPairInject(p)
  PROVE  TypeOK'
  <1>1. p \in Pair /\ p.event \in EventId /\ p.agent \in Agents /\ pairs' \subseteq Pair
    BY DEF TypeOK, RunPairInject, Pair
  <1>2. events' \in [EventId -> Event]
    <2>1. CASE Visited(p.event)
      <3>1. PICK s \in After(p.event) : events' = [events EXCEPT ![p.event].state = s]
        BY <2>1 DEF RunPairInject
      <3>2. [events[p.event] EXCEPT !.state = s] \in Event
        BY <1>1, <3>1, AfterType DEF TypeOK, Event
      <3> QED BY <1>1, <3>1, <3>2 DEF TypeOK
    <2>2. CASE ~Visited(p.event)  BY <2>2 DEF RunPairInject, TypeOK
    <2> QED BY <2>1, <2>2
  <1>3. shown' \in [Agents -> [EventId -> Nat]]
    <2>1. CASE Visited(p.event)
      <3>1. shown' = [shown EXCEPT ![p.agent] = [shown[p.agent] EXCEPT ![p.event] = @ + 1]]
        BY <2>1 DEF RunPairInject
      <3>2. [shown[p.agent] EXCEPT ![p.event] = @ + 1] \in [EventId -> Nat]
        BY <1>1 DEF TypeOK
      <3> QED BY <1>1, <3>1, <3>2 DEF TypeOK
    <2>2. CASE ~Visited(p.event)  BY <2>2 DEF RunPairInject, TypeOK
    <2> QED BY <2>1, <2>2
  <1>4. /\ recording' \in [Agents -> BOOLEAN]
        /\ replaying' \in [Agents -> BOOLEAN]
        /\ stateId' \in [Agents -> Nat]
        /\ inspState' \in [Agents -> [recording : BOOLEAN, replaying : BOOLEAN, stateID : Nat \cup {-1}]]
        /\ v8' \in {"OFF", "RECORDING", "REPLAYING"}
    <2>1. EndReplay(p.agent) \/ UNCHANGED <<modeVars, v8>>
      BY DEF RunPairInject, modeVars
    <2>2. CASE EndReplay(p.agent)  BY <1>1, <2>2, EndReplayType
    <2>3. CASE UNCHANGED <<modeVars, v8>>  BY <2>3 DEF TypeOK, modeVars
    <2> QED BY <2>1, <2>2, <2>3
  <1>5. UNCHANGED <<bindVars, v8Of, created, store, storeOf, recordStart, recordings,
                    tasks, batches, otherVars, lag>>
    BY DEF RunPairInject
  <1> QED BY <1>1, <1>2, <1>3, <1>4, <1>5 DEF TypeOK, bindVars, otherVars, histVars

LEMMA RunPairCancelType ==
  ASSUME TypeOK, NEW p \in pairs, RunPairCancel(p)
  PROVE  TypeOK'
  <1>1. p.event \in EventId /\ pairs' \subseteq Pair
    BY DEF TypeOK, RunPairCancel, Pair
  <1>2. [events[p.event] EXCEPT !.state = "Cancelled"] \in Event
    BY <1>1 DEF TypeOK, Event, States
  <1>3. events' \in [EventId -> Event]
    BY <1>1, <1>2 DEF TypeOK, RunPairCancel
  <1> QED BY <1>1, <1>3 DEF TypeOK, RunPairCancel, modeVars, bindVars, otherVars, histVars

LEMMA SwapRendererType ==
  ASSUME TypeOK, SwapRenderer
  PROVE  TypeOK'
  <1>1. \A a \in Agents : Restored(a) \in Nat
    BY DEF TypeOK, Restored
  <1>2. /\ recording' \in [Agents -> BOOLEAN]
        /\ replaying' \in [Agents -> BOOLEAN]
        /\ stateId' \in [Agents -> Nat]
        /\ inspState' \in [Agents -> [recording : BOOLEAN, replaying : BOOLEAN, stateID : Nat \cup {-1}]]
    BY <1>1 DEF TypeOK, SwapRenderer
  <1>3. /\ events' \in [EventId -> Event]
        /\ shown' \in [Agents -> [EventId -> Nat]] /\ lag' \in [Agents -> Nat]
    <2>1. Blank \in Event
      BY DEF Blank, Event, Kinds, States
    <2>2. events' \in [EventId -> Event]
      BY <2>1 DEF SwapRenderer
    <2>3. shown' \in [Agents -> [EventId -> Nat]]
      BY DEF SwapRenderer, NothingShown
    <2>4. lag' \in [Agents -> Nat]
      BY DEF SwapRenderer
    <2> QED BY <2>2, <2>3, <2>4
  <1>4. /\ store' \in Seq(EventId) /\ tasks' \in Seq(Task) /\ pairs' \subseteq Pair
    BY DEF SwapRenderer
  <1>5. /\ created' \in 0..MaxEvents
        /\ swaps' \in 0..MaxSwaps
    BY SessionAssumption DEF TypeOK, SwapRenderer
  <1>6. /\ attached' \in [Agents -> BOOLEAN]
        /\ owner' = NoAgent /\ v8' = "OFF" /\ v8Of' = 0 /\ storeOf' = 0
        /\ recordStart' = 0 /\ batches' = 0
        /\ UNCHANGED <<recordings, file, now>>
    BY DEF SwapRenderer
  <1> QED BY <1>2, <1>3, <1>4, <1>5, <1>6 DEF TypeOK

LEMMA StepType == TypeOK /\ [Next]_vars => TypeOK'
  <1> SUFFICES ASSUME TypeOK, [Next]_vars PROVE TypeOK'
    OBVIOUS
  <1>1. ASSUME NEW a \in Agents, Command(a) PROVE TypeOK'
    <2>1. CASE StartRecording(a)  BY <2>1, StartRecordingType
    <2>2. CASE StopRecording(a)   BY <2>2, StopRecordingType
    <2>3. CASE DumpRecording(a)   BY <2>3, DumpRecordingType
    <2>4. CASE LoadRecording(a)   BY <2>4, LoadRecordingType
    <2>5. CASE LoadIgnored(a)
      BY <2>5, InitPlatformWrapperType
      DEF TypeOK, LoadIgnored, modeVars, storeVars, loopVars, otherVars, histVars
    <2>6. ASSUME NEW speed \in Speeds, StartReplay(a, speed) PROVE TypeOK'
      BY <2>6, StartReplayType
    <2>7. CASE StopReplay(a)
      BY <2>7, EndReplayType
      DEF TypeOK, StopReplay, bindVars, storeVars, loopVars, otherVars, histVars
    <2> QED BY <1>1, <2>1, <2>2, <2>3, <2>4, <2>5, <2>6, <2>7 DEF Command
  <1>2. ASSUME NEW a \in Agents, NEW k \in UserKinds, HandleUserEvent(a, k) PROVE TypeOK'
    BY <1>2, HandleUserEventType
  <1>3. CASE MessageLoop
    BY <1>3, RunDelayedType, RunUndelayedType, RunPairInjectType, RunPairCancelType
    DEF MessageLoop
  <1>4. CASE Tick
    BY <1>4, SessionAssumption
    DEF TypeOK, Tick, histVars, modeVars, bindVars, storeVars, loopVars
  <1>5. CASE SwapRenderer  BY <1>5, SwapRendererType
  <1>6. CASE UNCHANGED vars
    BY <1>6 DEF TypeOK, vars, modeVars, bindVars, storeVars, loopVars, otherVars, histVars
  <1> QED BY <1>1, <1>2, <1>3, <1>4, <1>5, <1>6 DEF Next

\* Every variable keeps its type: delays stay natural numbers, whatever the speed
\* and however late a task runs, and no event object is taken twice.
THEOREM TypeCorrect == Spec => []TypeOK
  BY InitType, StepType, PTL DEF Spec
-----------------------------------------------------------------------------
(***************************************************************************)
(* The modes of the agents.  ModesAgree is inductive together with TypeOK. *)
(***************************************************************************)
LEMMA SetRecordingStateModes ==
  ASSUME TypeOK, ModesAgree, NEW a \in Agents, NEW b \in BOOLEAN, SetRecordingState(a, b),
         ~replaying[a], pairs' = pairs
  PROVE  ModesAgree'
  <1>1. \A p \in pairs : p.agent \in Agents /\ p.id \in Int
    BY DEF TypeOK, Pair
  <1>2. ASSUME NEW c \in Agents PROVE Mirrored(c)' /\ ~(recording'[c] /\ replaying'[c])
    BY DEF TypeOK, ModesAgree, Mirrored, SetRecordingState
  <1>3. \A c \in Agents : stateId[c] <= stateId'[c] /\ stateId[c] \in Nat /\ stateId'[c] \in Nat
    BY DEF TypeOK, SetRecordingState
  <1>4. \A p \in pairs : p.id <= stateId'[p.agent]
    BY <1>1, <1>3 DEF ModesAgree
  <1> QED BY <1>2, <1>4 DEF ModesAgree

LEMMA SetReplayStateModes ==
  ASSUME TypeOK, ModesAgree, NEW a \in Agents, NEW b \in BOOLEAN, SetReplayState(a, b),
         ~recording[a], pairs' \subseteq pairs
  PROVE  ModesAgree'
  <1>1. \A p \in pairs : p.agent \in Agents /\ p.id \in Int
    BY DEF TypeOK, Pair
  <1>2. ASSUME NEW c \in Agents PROVE Mirrored(c)' /\ ~(recording'[c] /\ replaying'[c])
    BY DEF TypeOK, ModesAgree, Mirrored, SetReplayState
  <1>3. \A c \in Agents : stateId[c] <= stateId'[c] /\ stateId[c] \in Nat /\ stateId'[c] \in Nat
    BY DEF TypeOK, SetReplayState
  <1>4. \A p \in pairs : p.id <= stateId'[p.agent]
    BY <1>1, <1>3 DEF ModesAgree
  <1> QED BY <1>2, <1>4 DEF ModesAgree

LEMMA UnchangedModes ==
  ASSUME ModesAgree, UNCHANGED modeVars, pairs' \subseteq pairs
  PROVE  ModesAgree'
  BY DEF ModesAgree, Mirrored, modeVars

LEMMA EndReplayModes ==
  ASSUME TypeOK, ModesAgree, NEW a \in Agents, EndReplay(a), pairs' \subseteq pairs
  PROVE  ModesAgree'
  <1>1. CASE ~recording[a] /\ replaying[a]
    BY <1>1, SetReplayStateModes DEF EndReplay
  <1>2. CASE ~(~recording[a] /\ replaying[a])
    BY <1>2, UnchangedModes DEF EndReplay
  <1> QED BY <1>1, <1>2

LEMMA RunDelayedModes ==
  ASSUME TypeOK, ModesAgree, RunDelayed
  PROVE  ModesAgree'
  <1> DEFINE t == Head(tasks)
  <1>1. t \in Task /\ t.agent \in Agents
    <2>1. tasks # <<>> /\ tasks \in Seq(Task)
      BY DEF RunDelayed, TypeOK
    <2>2. t \in Task
      BY <2>1
    <2> QED BY <2>2 DEF Task
  <1>2. inspState[t.agent].stateID <= stateId[t.agent]
    <2>1. stateId[t.agent] \in Nat
      BY <1>1 DEF TypeOK
    <2>2. Mirrored(t.agent)
      BY <1>1 DEF ModesAgree
    <2> QED BY <2>1, <2>2 DEF Mirrored
  <1>3. ASSUME NEW p \in pairs' PROVE p.id <= stateId[p.agent]
    <2>1. CASE p \in pairs  BY <2>1 DEF ModesAgree
    <2>2. ASSUME NEW held, NEW e \in t.events, p = PairOf(t, e, held)
          PROVE  p.id <= stateId[p.agent]
      BY <1>2, <2>2 DEF PairOf
    <2> QED BY <1>3, <2>1, <2>2, RunDelayedPosts DEF HeldUp
  <1>4. UNCHANGED modeVars
    BY DEF RunDelayed
  <1> QED BY <1>3, <1>4 DEF ModesAgree, Mirrored, modeVars

LEMMA SwapRendererModes ==
  ASSUME TypeOK, ModesAgree, SwapRenderer
  PROVE  ModesAgree'
  <1>1. pairs' = {}
    BY DEF SwapRenderer
  <1>2. ASSUME NEW a \in Agents PROVE Mirrored(a)' /\ ~(recording'[a] /\ replaying'[a])
    BY DEF TypeOK, ModesAgree, Mirrored, SwapRenderer, Restored
  <1> QED BY <1>1, <1>2 DEF ModesAgree

LEMMA StepModes == TypeOK /\ ModesAgree /\ [Next]_vars => ModesAgree'
  <1> SUFFICES ASSUME TypeOK, ModesAgree, [Next]_vars PROVE ModesAgree'
    OBVIOUS
  <1>1. ASSUME NEW a \in Agents, Command(a) PROVE ModesAgree'
    <2>1. CASE StartRecording(a)
      BY <2>1, SetRecordingStateModes DEF StartRecording, loopVars
    <2>2. CASE StopRecording(a)
      BY <2>2, SetRecordingStateModes DEF StopRecording, loopVars
    <2>3. CASE DumpRecording(a)
      BY <2>3, UnchangedModes DEF DumpRecording, loopVars
    <2>4. CASE LoadRecording(a)
      <3>1. pairs' = pairs /\ ~replaying[a]
        BY <2>4 DEF LoadRecording, loopVars
      <3>2. CASE recording[a]
        BY <2>4, <3>1, <3>2, SetRecordingStateModes DEF LoadRecording
      <3>3. CASE ~recording[a]
        BY <2>4, <3>1, <3>3, UnchangedModes DEF LoadRecording
      <3> QED BY <3>2, <3>3
    <2>5. CASE LoadIgnored(a)
      BY <2>5, UnchangedModes DEF LoadIgnored, loopVars
    <2>6. ASSUME NEW speed \in Speeds, StartReplay(a, speed) PROVE ModesAgree'
      BY <2>6, SetReplayStateModes DEF StartReplay
    <2>7. CASE StopReplay(a)
      BY <2>7, EndReplayModes DEF StopReplay, loopVars
    <2> QED BY <1>1, <2>1, <2>2, <2>3, <2>4, <2>5, <2>6, <2>7 DEF Command
  <1>2. ASSUME NEW a \in Agents, NEW k \in UserKinds, HandleUserEvent(a, k) PROVE ModesAgree'
    BY <1>2, UnchangedModes DEF HandleUserEvent, loopVars
  <1>3. CASE MessageLoop
    <2>1. CASE RunDelayed  BY <2>1, RunDelayedModes
    <2>2. CASE RunUndelayed
      <3>1. tasks # <<>> /\ tasks \in Seq(Task)
        BY <2>2 DEF RunUndelayed, TypeOK
      <3>2. Head(tasks) \in Task
        BY <3>1
      <3>3. Head(tasks).agent \in Agents
        BY <3>2 DEF Task
      <3>4. pairs' = pairs /\ (EndReplay(Head(tasks).agent) \/ UNCHANGED modeVars)
        BY <2>2 DEF RunUndelayed, modeVars
      <3> QED BY <3>3, <3>4, EndReplayModes, UnchangedModes
    <2>3. ASSUME NEW p \in pairs, RunPairInject(p) PROVE ModesAgree'
      <3>1. p.agent \in Agents
        BY DEF TypeOK, Pair
      <3>2. pairs' \subseteq pairs /\ (EndReplay(p.agent) \/ UNCHANGED modeVars)
        BY <2>3 DEF RunPairInject, modeVars
      <3> QED BY <3>1, <3>2, EndReplayModes, UnchangedModes
    <2>4. ASSUME NEW p \in pairs, RunPairCancel(p) PROVE ModesAgree'
      BY <2>4, UnchangedModes DEF RunPairCancel
    <2> QED BY <1>3, <2>1, <2>2, <2>3, <2>4 DEF MessageLoop
  <1>4. CASE Tick  BY <1>4, UnchangedModes DEF Tick, loopVars
  <1>5. CASE SwapRenderer  BY <1>5, SwapRendererModes
  <1>6. CASE UNCHANGED vars  BY <1>6, UnchangedModes DEF vars, loopVars
  <1> QED BY <1>1, <1>2, <1>3, <1>4, <1>5, <1>6 DEF Next

\* The flags and the token that tasks, pairs and the platform wrapper read from the
\* InspectorState are those of the agent, however often the renderer is replaced;
\* no agent records and replays; and no pair holds a token still to be given.
THEOREM ModesAlwaysAgree == Spec => []ModesAgree
  <1>1. Init => ModesAgree
    <2> SUFFICES ASSUME Init PROVE ModesAgree
      OBVIOUS
    <2>1. \A a \in Agents : Mirrored(a) /\ ~(recording[a] /\ replaying[a])
      BY DEF Init, Mirrored
    <2>2. pairs = {}
      BY DEF Init
    <2> QED BY <2>1, <2>2 DEF ModesAgree
  <1> QED BY <1>1, InitType, StepType, StepModes, PTL DEF Spec
-----------------------------------------------------------------------------
(***************************************************************************)
(* Each agent implements SessionMode.                                      *)
(***************************************************************************)
ModeStep(a) == [S(a)!Next]_(S(a)!vars)

LEMMA SameMode ==
  ASSUME NEW a \in Agents, recording'[a] = recording[a], replaying'[a] = replaying[a],
         stateId'[a] = stateId[a], shown'[a] = shown[a]
  PROVE  ModeStep(a)
  <1>1. Mode(a)' = Mode(a)
    BY DEF Mode
  <1> QED BY <1>1 DEF ModeStep, S!vars

LEMMA StartRecordingStep ==
  ASSUME TypeOK, NEW a \in Agents, SetRecordingState(a, TRUE), ~replaying[a], UNCHANGED shown
  PROVE  ModeStep(a)
  <1>1. Mode(a) \in {"idle", "recording"} /\ Mode(a)' = "recording"
    BY DEF TypeOK, SetRecordingState, Mode
  <1>2. stateId'[a] = stateId[a] + 1
    BY DEF TypeOK, SetRecordingState
  <1> QED BY <1>1, <1>2 DEF ModeStep, S!Next, S!StartRecording

LEMMA StopRecordingStep ==
  ASSUME TypeOK, NEW a \in Agents, SetRecordingState(a, FALSE), ~replaying[a], recording[a],
         UNCHANGED shown
  PROVE  ModeStep(a)
  <1>1. Mode(a) = "recording" /\ Mode(a)' = "idle"
    BY DEF TypeOK, SetRecordingState, Mode
  <1>2. stateId'[a] = stateId[a] + 1
    BY DEF TypeOK, SetRecordingState
  <1> QED BY <1>1, <1>2 DEF ModeStep, S!Next, S!StopRecording

LEMMA StartReplayStep ==
  ASSUME TypeOK, NEW a \in Agents, SetReplayState(a, TRUE), ~replaying[a], ~recording[a],
         shown'[a] = NothingShown
  PROVE  ModeStep(a)
  <1>1. Mode(a) = "idle" /\ Mode(a)' = "replaying"
    BY DEF TypeOK, SetReplayState, Mode
  <1>2. stateId'[a] = stateId[a] + 1
    BY DEF TypeOK, SetReplayState
  <1> QED BY <1>1, <1>2 DEF ModeStep, S!Next, S!StartReplay

\* Events are shown by an agent that replays: its modes stay or the replay ends.
LEMMA ShowStep ==
  ASSUME TypeOK, ModesAgree, NEW a \in Agents, inspState[a].replaying,
         EndReplay(a) \/ UNCHANGED modeVars
  PROVE  ModeStep(a)
  <1>1. ~recording[a] /\ replaying[a] /\ Mode(a) = "replaying"
    BY DEF TypeOK, ModesAgree, Mirrored, Mode
  <1>2. CASE EndReplay(a)
    <2>1. SetReplayState(a, FALSE)
      BY <1>1, <1>2 DEF EndReplay
    <2>2. Mode(a)' = "idle" /\ stateId'[a] = stateId[a] + 1
      BY <1>1, <2>1 DEF TypeOK, SetReplayState, Mode
    <2> QED BY <1>1, <2>2 DEF ModeStep, S!Next, S!Show
  <1>3. CASE UNCHANGED modeVars
    <2>1. Mode(a)' = Mode(a) /\ stateId'[a] = stateId[a]
      BY <1>3 DEF Mode, modeVars
    <2> QED BY <1>1, <2>1 DEF ModeStep, S!Next, S!Show
  <1> QED BY <1>2, <1>3

LEMMA EndReplayStep ==
  ASSUME TypeOK, ModesAgree, NEW a \in Agents, EndReplay(a), UNCHANGED shown
  PROVE  ModeStep(a)
  <1>1. CASE ~recording[a] /\ replaying[a]
    <2>1. SetReplayState(a, FALSE) /\ Mode(a) = "replaying"
      BY <1>1 DEF EndReplay, Mode
    <2>2. Mode(a)' = "idle" /\ stateId'[a] = stateId[a] + 1
      BY <1>1, <2>1 DEF TypeOK, SetReplayState, Mode
    <2> QED BY <2>1, <2>2 DEF ModeStep, S!Next, S!StopReplay
  <1>2. CASE ~(~recording[a] /\ replaying[a])
    BY <1>2, SameMode DEF EndReplay, modeVars
  <1> QED BY <1>1, <1>2

LEMMA SwapRendererStep ==
  ASSUME TypeOK, ModesAgree, NEW a \in Agents, SwapRenderer
  PROVE  ModeStep(a)
  <1>1. recording'[a] = recording[a] /\ replaying'[a] = replaying[a] /\ stateId'[a] = stateId[a]
    BY DEF TypeOK, ModesAgree, Mirrored, SwapRenderer, Restored
  <1>2. Mode(a)' = Mode(a)
    BY <1>1 DEF Mode
  <1>3. shown'[a] = NothingShown
    BY DEF SwapRenderer
  <1> QED BY <1>1, <1>2, <1>3 DEF ModeStep, S!Next, S!Forget

\* A change of the modes of one agent leaves those of the others alone.
LEMMA OthersKeepMode ==
  ASSUME TypeOK, NEW a \in Agents, NEW c \in Agents \ {a}, shown'[c] = shown[c],
         \/ \E b \in BOOLEAN : SetRecordingState(a, b) \/ SetReplayState(a, b)
         \/ EndReplay(a)
         \/ UNCHANGED modeVars
  PROVE  ModeStep(c)
  <1>1. /\ recording'[c] = recording[c] /\ replaying'[c] = replaying[c]
        /\ stateId'[c] = stateId[c]
    BY DEF TypeOK, SetRecordingState, SetReplayState, EndReplay, modeVars
  <1> QED BY <1>1, SameMode

LEMMA StepImplements ==
  ASSUME TypeOK, ModesAgree, Next, NEW c \in Agents
  PROVE  ModeStep(c)
  <1>1. ASSUME NEW a \in Agents, Command(a) PROVE ModeStep(c)
    <2>1. CASE StartRecording(a)
      <3>1. SetRecordingState(a, TRUE) /\ ~replaying[a] /\ UNCHANGED shown
        BY <2>1 DEF StartRecording, histVars
      <3>2. CASE c = a  BY <3>1, <3>2, StartRecordingStep
      <3>3. CASE c # a  BY <3>1, <3>3, OthersKeepMode
      <3> QED BY <3>2, <3>3
    <2>2. CASE StopRecording(a)
      <3>1. SetRecordingState(a, FALSE) /\ ~replaying[a] /\ recording[a] /\ UNCHANGED shown
        BY <2>2 DEF StopRecording, histVars
      <3>2. CASE c = a  BY <3>1, <3>2, StopRecordingStep
      <3>3. CASE c # a  BY <3>1, <3>3, OthersKeepMode
      <3> QED BY <3>2, <3>3
    <2>3. CASE DumpRecording(a)
      BY <2>3, SameMode DEF DumpRecording, modeVars, histVars
    <2>4. CASE LoadRecording(a)
      <3>1. ~replaying[a] /\ UNCHANGED shown
        BY <2>4 DEF LoadRecording, histVars
      <3>2. CASE recording[a]
        <4>1. SetRecordingState(a, FALSE)
          BY <2>4, <3>2 DEF LoadRecording
        <4>2. CASE c = a  BY <3>1, <3>2, <4>1, <4>2, StopRecordingStep
        <4>3. CASE c # a  BY <3>1, <4>1, <4>3, OthersKeepMode
        <4> QED BY <4>2, <4>3
      <3>3. CASE ~recording[a]
        BY <2>4, <3>1, <3>3, SameMode DEF LoadRecording, modeVars
      <3> QED BY <3>2, <3>3
    <2>5. CASE LoadIgnored(a)
      BY <2>5, SameMode DEF LoadIgnored, modeVars, histVars
    <2>6. ASSUME NEW speed \in Speeds, StartReplay(a, speed) PROVE ModeStep(c)
      <3>1. SetReplayState(a, TRUE) /\ ~replaying[a] /\ ~recording[a]
        BY <2>6 DEF StartReplay
      <3>2. shown' = [shown EXCEPT ![a] = NothingShown]
        BY <2>6 DEF StartReplay
      <3>3. CASE c = a  BY <3>1, <3>2, <3>3, StartReplayStep DEF TypeOK
      <3>4. CASE c # a
        <4>1. shown'[c] = shown[c]
          BY <3>2, <3>4 DEF TypeOK
        <4> QED BY <3>1, <3>4, <4>1, OthersKeepMode
      <3> QED BY <3>3, <3>4
    <2>7. CASE StopReplay(a)
      <3>1. EndReplay(a) /\ UNCHANGED shown
        BY <2>7 DEF StopReplay, histVars
      <3>2. CASE c = a  BY <3>1, <3>2, EndReplayStep
      <3>3. CASE c # a  BY <3>1, <3>3, OthersKeepMode
      <3> QED BY <3>2, <3>3
    <2> QED BY <1>1, <2>1, <2>2, <2>3, <2>4, <2>5, <2>6, <2>7 DEF Command
  <1>2. ASSUME NEW a \in Agents, NEW k \in UserKinds, HandleUserEvent(a, k) PROVE ModeStep(c)
    BY <1>2, SameMode DEF HandleUserEvent, modeVars, histVars
  <1>3. CASE MessageLoop
    <2>1. CASE RunDelayed  BY <2>1, SameMode DEF RunDelayed, modeVars
    <2>2. CASE RunUndelayed
      <3> DEFINE t == Head(tasks)
                 a == t.agent
                 V == IF inspState[a].replaying THEN {e \in Reached(t) : Visited(e)} ELSE {}
      <3>1. a \in Agents
        <4>1. tasks # <<>> /\ tasks \in Seq(Task)
          BY <2>2 DEF RunUndelayed, TypeOK
        <4>2. t \in Task
          BY <4>1
        <4> QED BY <4>2 DEF Task
      <3>2. shown' = [shown EXCEPT ![a] =
                       [e \in EventId |-> shown[a][e] + (IF e \in V THEN 1 ELSE 0)]]
        BY <2>2 DEF RunUndelayed
      <3>3. IF \E e \in V : events[e].kind = "stop"
            THEN EndReplay(a)
            ELSE UNCHANGED <<modeVars, v8>>
        BY <2>2 DEF RunUndelayed
      <3>4. CASE c # a
        <4>1. shown'[c] = shown[c]
          BY <3>1, <3>2, <3>4 DEF TypeOK
        <4> QED BY <3>1, <3>3, <3>4, <4>1, OthersKeepMode
      <3>5. CASE c = a /\ inspState[a].replaying
        <4>1. EndReplay(c) \/ UNCHANGED modeVars
          BY <3>3, <3>5
        <4> QED BY <3>5, <4>1, ShowStep
      <3>6. CASE c = a /\ ~inspState[a].replaying
        <4>1. V = {}
          BY <3>6
        <4>2. UNCHANGED modeVars
          BY <3>3, <4>1
        <4>3. shown[a] \in [EventId -> Nat]
          BY <3>1 DEF TypeOK
        <4>4. shown'[a] = [e \in EventId |-> shown[a][e] + 0]
          BY <3>1, <3>2, <4>1 DEF TypeOK
        <4>5. shown'[a] = shown[a]
          BY <4>3, <4>4
        <4> QED BY <3>6, <4>2, <4>5, SameMode DEF modeVars
      <3> QED BY <3>4, <3>5, <3>6
    <2>3. ASSUME NEW p \in pairs, RunPairInject(p) PROVE ModeStep(c)
      <3>1. p.agent \in Agents /\ p.event \in EventId
        BY DEF TypeOK, Pair
      <3>2. inspState[p.agent].replaying
        BY <2>3 DEF RunPairInject, StillReplaying
      <3>3. EndReplay(p.agent) \/ UNCHANGED modeVars
        BY <2>3 DEF RunPairInject, modeVars
      <3>4. CASE c = p.agent  BY <3>2, <3>3, <3>4, ShowStep
      <3>5. CASE c # p.agent
        <4>1. shown'[c] = shown[c]
          BY <2>3, <3>1, <3>5 DEF TypeOK, RunPairInject
        <4> QED BY <3>1, <3>3, <3>5, <4>1, OthersKeepMode
      <3> QED BY <3>4, <3>5
    <2>4. ASSUME NEW p \in pairs, RunPairCancel(p) PROVE ModeStep(c)
      BY <2>4, SameMode DEF RunPairCancel, modeVars, histVars
    <2> QED BY <1>3, <2>1, <2>2, <2>3, <2>4 DEF MessageLoop
  <1>4. CASE Tick  BY <1>4, SameMode DEF Tick, modeVars, histVars
  <1>5. CASE SwapRenderer  BY <1>5, SwapRendererStep
  <1> QED BY <1>1, <1>2, <1>3, <1>4, <1>5 DEF Next

\* Whatever is in the message loop, every page's agent goes through the modes of
\* SessionMode: a new token at every change, and events shown only in a replay.
THEOREM AgentsImplementModes == Spec => ImplementsModes
  <1>1. Init => \A a \in Agents : S(a)!Init
    BY DEF Init, S!Init, Mode
  <1>2. TypeOK /\ ModesAgree /\ [Next]_vars
          => [\A a \in Agents : [S(a)!Next]_(S(a)!vars)]_vars
    BY StepImplements DEF ModeStep
  <1> QED BY <1>1, <1>2, TypeCorrect, ModesAlwaysAgree, PTL DEF Spec, ImplementsModes
-----------------------------------------------------------------------------
(***************************************************************************)
(* The store always begins with the start of a recording.  What makes this *)
(* inductive: the store holds objects that exist, so new ones leave its    *)
(* first event alone; a dumped file begins as the store did; and whoever   *)
(* appends finds a store that is not empty.                                *)
(***************************************************************************)
StoreInv ==
  /\ \A i \in 1..Len(store) : store[i] \in 1..created
  /\ StoreStartsWithRecStart
  /\ file.events # <<>> => file.events[1].kind = "recStart"
  /\ \A a \in Agents : recording[a] /\ attached[a] => store # <<>>

KindsKept == \A e \in EventId : events'[e].kind = events[e].kind

\* Steps that touch at most the states of events and end replays.
LEMMA StoreInvKept ==
  ASSUME TypeOK, StoreInv, KindsKept, UNCHANGED <<store, created, file, attached>>,
         \A a \in Agents : recording'[a] => recording[a]
  PROVE  StoreInv'
  <1>1. store # <<>> => store[1] \in EventId
    BY DEF TypeOK
  <1> QED BY <1>1 DEF StoreInv, StoreStartsWithRecStart, KindsKept

LEMMA AppendKeepsStoreInv ==
  ASSUME TypeOK, StoreInv, created < MaxEvents, NEW k \in Kinds, AppendForensicEvent(k),
         store # <<>>, UNCHANGED file
  PROVE  StoreInv'
  <1>1. created \in Nat /\ created' = created + 1 /\ created' \in EventId
    BY SessionAssumption DEF TypeOK, AppendForensicEvent, EventId
  <1>2. /\ store \in Seq(EventId) /\ Len(store) \in Nat /\ Len(store) > 0
        /\ store' = Append(store, created + 1)
    BY DEF TypeOK, AppendForensicEvent
  <1>3. /\ Len(store') = Len(store) + 1
        /\ \A i \in 1..Len(store) : store'[i] = store[i]
        /\ store'[Len(store) + 1] = created + 1
        /\ store' # <<>>
    BY <1>1, <1>2
  <1>4. \A i \in 1..Len(store') : store'[i] \in 1..created'
    BY <1>1, <1>2, <1>3 DEF StoreInv
  <1>5. store[1] \in 1..created /\ store[1] \in EventId
    BY <1>2 DEF StoreInv
  <1>6. events'[store[1]] = events[store[1]]
    BY <1>1, <1>5 DEF TypeOK, AppendForensicEvent
  <1>7. store'[1] = store[1]
    BY <1>2, <1>3
  <1> QED BY <1>3, <1>4, <1>6, <1>7, <1>2 DEF StoreInv, StoreStartsWithRecStart

LEMMA StartRecordingStore ==
  ASSUME TypeOK, StoreInv, NEW a \in Agents, StartRecording(a)
  PROVE  StoreInv'
  <1>1. /\ created \in Nat /\ created + 5 <= MaxEvents /\ MaxEvents \in Nat
        /\ created' = created + 5 /\ UNCHANGED file
    BY SessionAssumption DEF TypeOK, StartRecording, otherVars, histVars
  <1>2. store' = <<created + 1, created + 2, created + 3, created + 5, created + 4>>
    BY DEF StartRecording
  <1>3. store' # <<>> /\ \A i \in 1..Len(store') : store'[i] \in 1..created'
    BY <1>1, <1>2
  <1>4. events'[created + 1].kind = "recStart"
    <2>1. created + 1 \in EventId /\ (created + 1) - created = 1
      BY <1>1 DEF EventId
    <2>2. events'[created + 1].kind = Opening[1].kind
      BY <2>1 DEF StartRecording
    <2> QED BY <2>2 DEF Opening
  <1> QED BY <1>1, <1>2, <1>3, <1>4 DEF StoreInv, StoreStartsWithRecStart

LEMMA LoadRecordingStore ==
  ASSUME TypeOK, StoreInv, NEW a \in Agents, LoadRecording(a)
  PROVE  StoreInv'
  <1> DEFINE n == Len(file.events)
  <1>1. /\ created \in Nat /\ n \in Nat /\ n > 0 /\ created + n <= MaxEvents /\ MaxEvents \in Nat
        /\ created' = created + n /\ UNCHANGED file
    BY SessionAssumption DEF TypeOK, File, LoadRecording, otherVars, histVars
  <1>2. store' = [i \in 1..n |-> created + i]
    BY DEF LoadRecording
  <1>3. store' # <<>> /\ \A i \in 1..Len(store') : store'[i] \in 1..created'
    BY <1>1, <1>2
  <1>4. events'[created + 1].kind = file.events[1].kind
    <2>1. created + 1 \in EventId /\ (created + 1) - created = 1 /\ 1 \in 1..n
      BY <1>1 DEF EventId
    <2> QED BY <2>1 DEF LoadRecording
  <1>5. file.events # <<>>
    BY <1>1
  <1>6. store'[1] = created + 1
    BY <1>1, <1>2
  <1> QED BY <1>1, <1>3, <1>4, <1>5, <1>6 DEF StoreInv, StoreStartsWithRecStart

LEMMA DumpRecordingStore ==
  ASSUME TypeOK, StoreInv, NEW a \in Agents, DumpRecording(a)
  PROVE  StoreInv'
  <1> DEFINE dumped == [i \in 1..Len(store) |->
                         [kind |-> events[store[i]].kind, tick |-> events[store[i]].tick,
                          seq  |-> events[store[i]].seq]]
  <1>1. file'.events = dumped
    BY DEF DumpRecording
  <1>2. store \in Seq(EventId) /\ Len(store) \in Nat
    BY DEF TypeOK
  <1>3. dumped # <<>> => dumped[1].kind = "recStart"
    <2> SUFFICES ASSUME dumped # <<>> PROVE dumped[1].kind = "recStart"
      OBVIOUS
    <2>1. Len(store) > 0
      BY <1>2
    <2>2. dumped[1].kind = events[store[1]].kind
      BY <1>2, <2>1
    <2>3. store # <<>>
      BY <1>2, <2>1
    <2> QED BY <2>2, <2>3 DEF StoreInv, StoreStartsWithRecStart
  <1>4. UNCHANGED <<store, created, events, recording, attached>>
    BY DEF DumpRecording, storeVars, modeVars, bindVars
  <1> QED BY <1>1, <1>3, <1>4 DEF StoreInv, StoreStartsWithRecStart

\* The end of a replay leaves the recording flags alone.
LEMMA EndReplayRecording ==
  ASSUME NEW a \in Agents, EndReplay(a) \/ UNCHANGED modeVars
  PROVE  recording' = recording
  BY DEF EndReplay, SetReplayState, modeVars

LEMMA MessageLoopStore ==
  ASSUME TypeOK, StoreInv, MessageLoop
  PROVE  StoreInv'
  <1>1. CASE RunDelayed
    BY <1>1, StoreInvKept DEF RunDelayed, modeVars, bindVars, storeVars, KindsKept
  <1>2. CASE RunUndelayed
    <2> DEFINE t == Head(tasks)
               V == IF inspState[t.agent].replaying THEN {e \in Reached(t) : Visited(e)} ELSE {}
    <2>1. t.agent \in Agents
      <3>1. tasks # <<>> /\ tasks \in Seq(Task)
        BY <1>2 DEF RunUndelayed, TypeOK
      <3>2. t \in Task
        BY <3>1
      <3> QED BY <3>2 DEF Task
    <2>2. KindsKept
      <3>1. PICK after \in Outcomes(V) :
              events' = [e \in EventId |->
                IF e \in V THEN [events[e] EXCEPT !.state = after[e]] ELSE events[e]]
        BY <1>2 DEF RunUndelayed
      <3>2. ASSUME NEW e \in EventId PROVE events'[e].kind = events[e].kind
        <4>1. events[e] \in Event
          BY DEF TypeOK
        <4> QED BY <3>1, <4>1 DEF Event
      <3> QED BY <3>2 DEF KindsKept
    <2>3. EndReplay(t.agent) \/ UNCHANGED modeVars
      BY <1>2 DEF RunUndelayed
    <2>4. UNCHANGED <<store, created, file, attached>>
      BY <1>2 DEF RunUndelayed, bindVars, otherVars, histVars
    <2> QED BY <2>1, <2>2, <2>3, <2>4, EndReplayRecording, StoreInvKept
  <1>3. ASSUME NEW p \in pairs, RunPairInject(p) PROVE StoreInv'
    <2>1. p.agent \in Agents /\ p.event \in EventId
      BY DEF TypeOK, Pair
    <2>2. KindsKept
      <3>1. events \in [EventId -> Event]
        BY DEF TypeOK
      <3>2. CASE Visited(p.event)
        <4>1. PICK s \in After(p.event) : events' = [events EXCEPT ![p.event].state = s]
          BY <1>3, <3>2 DEF RunPairInject
        <4> QED BY <2>1, <3>1, <4>1 DEF Event, KindsKept
      <3>3. CASE ~Visited(p.event)  BY <1>3, <3>3 DEF RunPairInject, KindsKept
      <3> QED BY <3>2, <3>3
    <2>3. EndReplay(p.agent) \/ UNCHANGED modeVars
      BY <1>3 DEF RunPairInject, modeVars
    <2>4. UNCHANGED <<store, created, file, attached>>
      BY <1>3 DEF RunPairInject, bindVars, otherVars, histVars
    <2> QED BY <2>1, <2>2, <2>3, <2>4, EndReplayRecording, StoreInvKept
  <1>4. ASSUME NEW p \in pairs, RunPairCancel(p) PROVE StoreInv'
    <2>1. p.event \in EventId
      BY DEF TypeOK, Pair
    <2>2. KindsKept
      BY <1>4, <2>1 DEF TypeOK, Event, RunPairCancel, KindsKept
    <2>3. UNCHANGED <<store, created, file, attached, recording>>
      BY <1>4 DEF RunPairCancel, bindVars, otherVars, histVars, modeVars
    <2> QED BY <2>2, <2>3, StoreInvKept
  <1> QED BY <1>1, <1>2, <1>3, <1>4 DEF MessageLoop

LEMMA StepStore == TypeOK /\ StoreInv /\ [Next]_vars => StoreInv'
  <1> SUFFICES ASSUME TypeOK, StoreInv, [Next]_vars PROVE StoreInv'
    OBVIOUS
  <1>1. ASSUME NEW a \in Agents, Command(a) PROVE StoreInv'
    <2>1. CASE StartRecording(a)  BY <2>1, StartRecordingStore
    <2>2. CASE StopRecording(a)
      <3>1. /\ created < MaxEvents /\ AppendForensicEvent("stop") /\ "stop" \in Kinds
            /\ UNCHANGED file /\ store # <<>>
        BY <2>2 DEF StopRecording, otherVars, histVars, StoreInv, Kinds
      <3> QED BY <3>1, AppendKeepsStoreInv
    <2>3. CASE DumpRecording(a)   BY <2>3, DumpRecordingStore
    <2>4. CASE LoadRecording(a)   BY <2>4, LoadRecordingStore
    <2>5. CASE LoadIgnored(a)
      <3>1. /\ ~recording[a] /\ attached' = [attached EXCEPT ![a] = TRUE]
            /\ UNCHANGED <<recording, store, created, events, file>>
        BY <2>5 DEF LoadIgnored, InitPlatformWrapper, modeVars, storeVars, otherVars, histVars
      <3> QED BY <3>1 DEF TypeOK, StoreInv, StoreStartsWithRecStart
    <2>6. ASSUME NEW speed \in Speeds, StartReplay(a, speed) PROVE StoreInv'
      <3>1. KindsKept
        BY <2>6 DEF TypeOK, Event, StartReplay, KindsKept
      <3>2. UNCHANGED <<store, created, file, attached, recording>>
        BY <2>6 DEF StartReplay, SetReplayState, bindVars, otherVars, histVars
      <3> QED BY <3>1, <3>2, StoreInvKept
    <2>7. CASE StopReplay(a)
      <3>1. EndReplay(a) /\ UNCHANGED <<store, created, file, attached, events>>
        BY <2>7 DEF StopReplay, bindVars, storeVars, otherVars, histVars
      <3> QED BY <3>1, EndReplayRecording, StoreInvKept DEF KindsKept
    <2> QED BY <1>1, <2>1, <2>2, <2>3, <2>4, <2>5, <2>6, <2>7 DEF Command
  <1>2. ASSUME NEW a \in Agents, NEW k \in UserKinds, HandleUserEvent(a, k) PROVE StoreInv'
    <2>1. /\ k \in Kinds /\ created < MaxEvents /\ AppendForensicEvent(k)
          /\ UNCHANGED file /\ store # <<>>
      BY <1>2, SessionAssumption DEF HandleUserEvent, otherVars, histVars, StoreInv, Kinds
    <2> QED BY <2>1, AppendKeepsStoreInv
  <1>3. CASE MessageLoop  BY <1>3, MessageLoopStore
  <1>4. CASE Tick
    BY <1>4, StoreInvKept DEF Tick, modeVars, bindVars, storeVars, KindsKept
  <1>5. CASE SwapRenderer
    BY <1>5 DEF SwapRenderer, StoreInv, StoreStartsWithRecStart
  <1>6. CASE UNCHANGED vars
    BY <1>6, StoreInvKept DEF vars, modeVars, bindVars, storeVars, otherVars, histVars, KindsKept
  <1> QED BY <1>1, <1>2, <1>3, <1>4, <1>5, <1>6 DEF Next

\* startReplay's cast of the event at index 0 to a ForensicRecordingStartEvent is
\* right, whoever recorded, loaded, dumped or lost the store before.
THEOREM StoreAlwaysStartsWithRecStart == Spec => []StoreStartsWithRecStart
  <1>1. Init => StoreInv
    <2> SUFFICES ASSUME Init PROVE StoreInv
      OBVIOUS
    <2>1. file.events # <<>> => file.events[1].kind = "recStart"
      BY SessionAssumption DEF Init, NoFile
    <2> QED BY <2>1 DEF Init, StoreInv, StoreStartsWithRecStart
  <1>2. StoreInv => StoreStartsWithRecStart
    BY DEF StoreInv
  <1> QED BY <1>1, <1>2, InitType, StepType, StepStore, PTL DEF Spec
-----------------------------------------------------------------------------
(***************************************************************************)
(* The recording as a whole: that it is closed, that V8 follows the agent  *)
(* and replays the same recording, and that a replay injects no event      *)
(* twice, shows events in the order in which they were recorded and skips  *)
(* none but those whose pairs cancel them.  All but one of these need the  *)
(* renderer to hold a single page: two agents share one store and one V8.  *)
(***************************************************************************)
OnePage == \A a, b \in Agents : a = b

\* The step leaves of every event all but its state.
InfoKept == \A e \in EventId : /\ events'[e].kind = events[e].kind
                               /\ events'[e].tick = events[e].tick
                               /\ events'[e].seq  = events[e].seq

LEMMA HeadTask ==
  ASSUME TypeOK, tasks # <<>>
  PROVE  /\ Head(tasks) \in Task /\ Head(tasks).agent \in Agents
         /\ Head(tasks).events \subseteq EventId
  <1>1. tasks \in Seq(Task)
    BY DEF TypeOK
  <1>2. Head(tasks) \in Task
    BY <1>1
  <1> QED BY <1>2 DEF Task

\* What the message loop runs changes states of events and may end a replay.
LEMMA MessageLoopFrame ==
  ASSUME TypeOK, MessageLoop
  PROVE  /\ InfoKept
         /\ UNCHANGED <<store, storeOf, created, v8Of, attached, owner, file>>
         /\ now' \in Nat /\ now <= now'
         /\ (\E a \in Agents : EndReplay(a)) \/ UNCHANGED <<modeVars, v8>>
  <1>0. now \in Nat
    BY SessionAssumption DEF TypeOK
  <1>1. CASE RunDelayed
    <2>1. now' \in Nat /\ now <= now'
      BY <1>0, <1>1, RunDelayedPosts DEF HeldUp
    <2> QED BY <1>1, <2>1 DEF RunDelayed, modeVars, bindVars, storeVars, InfoKept
  <1>2. CASE RunUndelayed
    <2> DEFINE t == Head(tasks)
               V == IF inspState[t.agent].replaying THEN {e \in Reached(t) : Visited(e)} ELSE {}
    <2>1. t.agent \in Agents
      BY <1>2, HeadTask DEF RunUndelayed
    <2>2. PICK after \in Outcomes(V) :
            events' = [e \in EventId |->
              IF e \in V THEN [events[e] EXCEPT !.state = after[e]] ELSE events[e]]
      BY <1>2 DEF RunUndelayed
    <2>3. ASSUME NEW e \in EventId
          PROVE  /\ events'[e].kind = events[e].kind
                 /\ events'[e].tick = events[e].tick
                 /\ events'[e].seq  = events[e].seq
      <3>1. events[e] \in Event
        BY DEF TypeOK
      <3> QED BY <2>2, <3>1 DEF Event
    <2>4. EndReplay(t.agent) \/ UNCHANGED <<modeVars, v8>>
      BY <1>2 DEF RunUndelayed
    <2>5. UNCHANGED <<store, storeOf, created, v8Of, attached, owner, file, now>>
      BY <1>2 DEF RunUndelayed, bindVars, otherVars, histVars
    <2> QED BY <1>0, <2>1, <2>3, <2>4, <2>5 DEF InfoKept
  <1>3. CASE \E p \in pairs : RunPairInject(p)
    <2>1. PICK p \in pairs : RunPairInject(p)
      BY <1>3
    <2>2. p.agent \in Agents /\ p.event \in EventId
      BY DEF TypeOK, Pair
    <2>3. InfoKept
      <3>1. events \in [EventId -> Event]
        BY DEF TypeOK
      <3>2. CASE Visited(p.event)
        <4>1. PICK s \in After(p.event) : events' = [events EXCEPT ![p.event].state = s]
          BY <2>1, <3>2 DEF RunPairInject
        <4> QED BY <2>2, <3>1, <4>1 DEF Event, InfoKept
      <3>3. CASE ~Visited(p.event)  BY <2>1, <3>3 DEF RunPairInject, InfoKept
      <3> QED BY <3>2, <3>3
    <2>4. EndReplay(p.agent) \/ UNCHANGED <<modeVars, v8>>
      BY <2>1 DEF RunPairInject, modeVars
    <2>5. UNCHANGED <<store, storeOf, created, v8Of, attached, owner, file, now>>
      BY <2>1 DEF RunPairInject, bindVars, otherVars, histVars
    <2> QED BY <1>0, <2>2, <2>3, <2>4, <2>5
  <1>4. CASE \E p \in pairs : RunPairCancel(p)
    <2>1. PICK p \in pairs : RunPairCancel(p)
      BY <1>4
    <2>2. p.event \in EventId
      BY DEF TypeOK, Pair
    <2>3. InfoKept
      BY <2>1, <2>2 DEF TypeOK, Event, RunPairCancel, InfoKept
    <2>4. UNCHANGED <<store, storeOf, created, v8Of, attached, owner, file, now, modeVars, v8>>
      BY <2>1 DEF RunPairCancel, bindVars, otherVars, histVars, modeVars
    <2> QED BY <1>0, <2>3, <2>4
  <1> QED BY <1>1, <1>2, <1>3, <1>4 DEF MessageLoop

\* A replay's end, or none, leaves the recording flags alone.
LEMMA MessageLoopRecording ==
  ASSUME TypeOK, MessageLoop
  PROVE  recording' = recording
  BY MessageLoopFrame, EndReplayRecording DEF modeVars
-----------------------------------------------------------------------------
(***************************************************************************)
(* V8's values and Blink's events come from one recording, of any number   *)
(* of pages, as long as files have a part for V8.                          *)
(***************************************************************************)
FilesHaveV8 == \A f \in InitialFiles : f.v8

OneSource == v8Of = storeOf /\ (file.events # <<>> => file.v8)

LEMMA StepOneSource == TypeOK /\ OneSource /\ [Next]_vars => OneSource'
  <1> SUFFICES ASSUME TypeOK, OneSource, [Next]_vars PROVE OneSource'
    OBVIOUS
  <1>1. ASSUME NEW a \in Agents, Command(a) PROVE OneSource'
    <2>1. CASE StartRecording(a)  BY <2>1 DEF OneSource, StartRecording, otherVars, histVars
    <2>2. CASE StopRecording(a)
      BY <2>2 DEF OneSource, StopRecording, AppendForensicEvent, otherVars, histVars
    <2>3. CASE DumpRecording(a)   BY <2>3 DEF OneSource, DumpRecording, storeVars
    <2>4. CASE LoadRecording(a)
      <3>1. file.events # <<>>
        BY <2>4 DEF LoadRecording
      <3> QED BY <2>4, <3>1 DEF OneSource, LoadRecording, otherVars, histVars
    <2>5. CASE LoadIgnored(a)     BY <2>5 DEF OneSource, LoadIgnored, storeVars, otherVars, histVars
    <2>6. ASSUME NEW speed \in Speeds, StartReplay(a, speed) PROVE OneSource'
      BY <2>6 DEF OneSource, StartReplay, otherVars, histVars
    <2>7. CASE StopReplay(a)      BY <2>7 DEF OneSource, StopReplay, storeVars, otherVars, histVars
    <2> QED BY <1>1, <2>1, <2>2, <2>3, <2>4, <2>5, <2>6, <2>7 DEF Command
  <1>2. ASSUME NEW a \in Agents, NEW k \in UserKinds, HandleUserEvent(a, k) PROVE OneSource'
    BY <1>2 DEF OneSource, HandleUserEvent, AppendForensicEvent, otherVars, histVars
  <1>3. CASE MessageLoop  BY <1>3, MessageLoopFrame DEF OneSource
  <1>4. CASE Tick  BY <1>4 DEF OneSource, Tick, storeVars
  <1>5. CASE SwapRenderer  BY <1>5 DEF OneSource, SwapRenderer
  <1>6. CASE UNCHANGED vars  BY <1>6 DEF OneSource, vars, storeVars, otherVars, histVars
  <1> QED BY <1>1, <1>2, <1>3, <1>4, <1>5, <1>6 DEF Next

\* Whatever pages record, dump, load and replay in whatever order, a replay has in
\* V8's maps the values of the recording whose events it injects.
THEOREM V8DataAlwaysMatchesStore ==
  ASSUME FilesHaveV8
  PROVE  Spec => []V8DataMatchesStore
  <1>1. Init => OneSource
    BY FilesHaveV8 DEF Init, OneSource, NoFile, FilesHaveV8
  <1>2. OneSource => V8DataMatchesStore
    BY DEF OneSource, V8DataMatchesStore
  <1> QED BY <1>1, <1>2, TypeCorrect, StepOneSource, PTL DEF Spec
-----------------------------------------------------------------------------
(***************************************************************************)
(* V8 and the wrapper record and replay with the one agent, as long as its *)
(* renderer is not replaced.                                               *)
(***************************************************************************)
Sync ==
  \A a \in Agents :
    /\ recording[a] <=> v8 = "RECORDING"
    /\ replaying[a] <=> v8 = "REPLAYING"
    /\ recording[a] \/ replaying[a] => attached[a]
    /\ attached[a] => owner \in Agents

LEMMA EndReplaySync ==
  ASSUME OnePage, TypeOK, ModesAgree, Sync, NEW a \in Agents, EndReplay(a), UNCHANGED bindVars
  PROVE  Sync'
  <1>1. CASE ~recording[a] /\ replaying[a]
    BY <1>1 DEF OnePage, TypeOK, Sync, EndReplay, SetReplayState, bindVars
  <1>2. CASE ~(~recording[a] /\ replaying[a])
    BY <1>2 DEF Sync, EndReplay, modeVars, bindVars
  <1> QED BY <1>1, <1>2

LEMMA StepSync ==
  ASSUME OnePage, MaxSwaps = 0, TypeOK, ModesAgree, Sync, [Next]_vars
  PROVE  Sync'
  <1>1. ASSUME NEW a \in Agents, Command(a) PROVE Sync'
    <2>1. CASE StartRecording(a)
      BY <2>1 DEF OnePage, TypeOK, Sync, StartRecording, SetRecordingState, InitPlatformWrapper
    <2>2. CASE StopRecording(a)
      BY <2>2 DEF OnePage, TypeOK, Sync, StopRecording, SetRecordingState, bindVars
    <2>3. CASE DumpRecording(a)  BY <2>3 DEF Sync, DumpRecording, modeVars, bindVars
    <2>4. CASE LoadRecording(a)
      <3>1. CASE recording[a]
        BY <2>4, <3>1
        DEF OnePage, TypeOK, Sync, LoadRecording, SetRecordingState, InitPlatformWrapper
      <3>2. CASE ~recording[a]
        BY <2>4, <3>2 DEF OnePage, TypeOK, Sync, LoadRecording, InitPlatformWrapper, modeVars
      <3> QED BY <3>1, <3>2
    <2>5. CASE LoadIgnored(a)
      BY <2>5 DEF OnePage, TypeOK, Sync, LoadIgnored, InitPlatformWrapper, modeVars
    <2>6. ASSUME NEW speed \in Speeds, StartReplay(a, speed) PROVE Sync'
      BY <2>6 DEF OnePage, TypeOK, Sync, StartReplay, SetReplayState, bindVars
    <2>7. CASE StopReplay(a)  BY <2>7, EndReplaySync DEF StopReplay
    <2> QED BY <1>1, <2>1, <2>2, <2>3, <2>4, <2>5, <2>6, <2>7 DEF Command
  <1>2. ASSUME NEW a \in Agents, NEW k \in UserKinds, HandleUserEvent(a, k) PROVE Sync'
    BY <1>2 DEF Sync, HandleUserEvent, modeVars, bindVars
  <1>3. CASE MessageLoop
    BY <1>3, MessageLoopFrame, EndReplaySync DEF Sync, modeVars, bindVars
  <1>4. CASE Tick  BY <1>4 DEF Sync, Tick, modeVars, bindVars
  <1>5. ~SwapRenderer
    BY DEF SwapRenderer, TypeOK
  <1>6. CASE UNCHANGED vars  BY <1>6 DEF Sync, vars, modeVars, bindVars
  <1> QED BY <1>1, <1>2, <1>3, <1>4, <1>5, <1>6 DEF Next

\* V8 and the platform wrapper record, replay and rest when the agent does: no
\* command and no stop event, in time or late, lets one of them go on alone.
THEOREM InstrumentationAlwaysInSync ==
  ASSUME OnePage, MaxSwaps = 0
  PROVE  Spec => []InstrumentationInSync
  <1>1. Init => Sync
    BY DEF Init, Sync
  <1>2. TypeOK /\ ModesAgree /\ Sync /\ [Next]_vars => Sync'
    BY OnePage, MaxSwaps = 0, StepSync
  <1>3. TypeOK /\ ModesAgree /\ Sync => InstrumentationInSync
    <2> SUFFICES ASSUME TypeOK, ModesAgree, Sync, NEW a \in Agents,
                        recording[a] \/ replaying[a]
                 PROVE  /\ attached[a]
                        /\ owner \in Agents
                        /\ inspState[owner].recording = recording[a]
                        /\ inspState[owner].replaying = replaying[a]
      BY DEF InstrumentationInSync, Sync
    <2>1. attached[a] /\ owner \in Agents
      BY DEF Sync
    <2>2. owner = a
      BY <2>1, OnePage DEF OnePage
    <2> QED BY <2>1, <2>2 DEF ModesAgree, Mirrored
  <1> QED BY <1>1, <1>2, <1>3, TypeCorrect, ModesAlwaysAgree, PTL DEF Spec
-----------------------------------------------------------------------------
(***************************************************************************)
(* A store that no one records into is closed by its stop event.           *)
(***************************************************************************)
\* The first n of a sequence of events are no stop events and come before s.
AllBefore(es, n, s) ==
  \A i \in 1..n : es[i].kind # "stop" /\ es[i].tick <= s.tick /\ es[i].seq < s.seq

Closed(es) == es[Len(es)].kind = "stop" /\ AllBefore(es, Len(es) - 1, es[Len(es)])

FilesClosed == \A f \in InitialFiles : Closed(f.events)

\* A recording in progress: what it holds is no stop event, and an event appended
\* now, which takes the next place in the order, comes after it.
Open ==
  \A i \in 1..Len(store) :
    /\ events[store[i]].kind # "stop"
    /\ events[store[i]].tick <= now
    /\ events[store[i]].seq <= Len(store)

ClosedInv ==
  /\ file.events # <<>> => Closed(file.events)
  /\ (\E a \in Agents : recording[a]) => Open
  /\ RecordingIsClosed

\* The events of the store are objects that exist.
LEMMA StoredExist ==
  ASSUME TypeOK, StoreInv, NEW i \in 1..Len(store)
  PROVE  /\ store[i] \in EventId /\ store[i] # created + 1 /\ events[store[i]] \in Event
         /\ Len(store) \in Nat
  <1>1. store[i] \in 1..created /\ created \in 0..MaxEvents /\ store \in Seq(EventId)
    BY DEF StoreInv, TypeOK
  <1>2. store[i] \in EventId
    BY <1>1
  <1> QED BY <1>1, <1>2, SessionAssumption DEF TypeOK

\* Steps that leave the store, its recording and the file as they are.
LEMMA ClosedInvKept ==
  ASSUME TypeOK, StoreInv, ClosedInv, InfoKept, UNCHANGED <<store, file, recording>>,
         now' \in Nat, now <= now'
  PROVE  ClosedInv'
  <1>1. \A i \in 1..Len(store) :
          /\ events'[store[i]].kind = events[store[i]].kind
          /\ events'[store[i]].tick = events[store[i]].tick
          /\ events'[store[i]].seq  = events[store[i]].seq
    BY StoredExist DEF InfoKept
  <1>2. \A i \in 1..Len(store) : events[store[i]].tick \in Nat
    BY StoredExist DEF Event
  <1>3. now \in Nat
    BY SessionAssumption DEF TypeOK
  <1>4. (\E a \in Agents : recording'[a]) => Open'
    BY <1>1, <1>2, <1>3 DEF ClosedInv, Open
  <1>5. RecordingIsClosed'
    <2> SUFFICES ASSUME store # <<>>, \A a \in Agents : ~recording[a]
                 PROVE  /\ events'[store[Len(store)]].kind = "stop"
                        /\ \A i \in 1..Len(store) - 1 :
                             /\ events'[store[i]].kind # "stop"
                             /\ events'[store[i]].tick <= events'[store[Len(store)]].tick
                             /\ events'[store[i]].seq  <  events'[store[Len(store)]].seq
      BY DEF RecordingIsClosed
    <2>1. store \in Seq(EventId)
      BY DEF TypeOK
    <2>2. Len(store) \in Nat /\ Len(store) > 0
      BY <2>1
    <2>3. Len(store) \in 1..Len(store) /\ 1..Len(store) - 1 \subseteq 1..Len(store)
      BY <2>2
    <2>4. RecordingIsClosed
      BY DEF ClosedInv
    <2> QED BY <1>1, <2>3, <2>4 DEF RecordingIsClosed
  <1> QED BY <1>4, <1>5 DEF ClosedInv

LEMMA StartRecordingClosed ==
  ASSUME TypeOK, StoreInv, ClosedInv, NEW a \in Agents, StartRecording(a)
  PROVE  ClosedInv'
  <1>1. /\ created \in Nat /\ created + 5 <= MaxEvents /\ MaxEvents \in Nat /\ now \in Nat
        /\ now' = now /\ UNCHANGED file
    BY SessionAssumption DEF TypeOK, StartRecording, otherVars, histVars
  <1>2. store' = <<created + 1, created + 2, created + 3, created + 5, created + 4>>
    BY DEF StartRecording
  <1>3. ASSUME NEW j \in 1..5
        PROVE  /\ events'[created + j].kind = Opening[j].kind
               /\ events'[created + j].tick = now
               /\ events'[created + j].seq = j
    <2>1. created + j \in EventId /\ (created + j) - created = j
      BY <1>1 DEF EventId
    <2> QED BY <2>1 DEF StartRecording
  <1>4. \A j \in 1..5 : Opening[j].kind # "stop"
    BY DEF Opening
  <1>5. Len(store') = 5 /\ \A i \in 1..5 : \E j \in 1..5 : store'[i] = created + j
    BY <1>2
  <1>6. Open'
    <2> SUFFICES ASSUME NEW i \in 1..5
                 PROVE  /\ events'[store'[i]].kind # "stop"
                        /\ events'[store'[i]].tick <= now'
                        /\ events'[store'[i]].seq <= 5
      BY <1>5 DEF Open
    <2>1. PICK j \in 1..5 : store'[i] = created + j
      BY <1>5
    <2> QED BY <1>1, <1>3, <1>4, <2>1
  <1>7. recording'[a]
    BY DEF TypeOK, StartRecording, SetRecordingState
  <1> QED BY <1>1, <1>6, <1>7 DEF ClosedInv, RecordingIsClosed

\* What an append does to a recording in progress.
LEMMA AppendToOpen ==
  ASSUME TypeOK, StoreInv, Open, created < MaxEvents, NEW k \in Kinds, AppendForensicEvent(k)
  PROVE  /\ Len(store') = Len(store) + 1 /\ Len(store) \in Nat /\ now \in Nat
         /\ events'[store'[Len(store) + 1]].kind = k
         /\ events'[store'[Len(store) + 1]].tick = now
         /\ events'[store'[Len(store) + 1]].seq = Len(store) + 1
         /\ \A i \in 1..Len(store) :
              /\ events'[store'[i]].kind # "stop"
              /\ events'[store'[i]].tick <= now
              /\ events'[store'[i]].seq <= Len(store)
  <1>1. /\ created + 1 \in EventId /\ now \in Nat /\ events \in [EventId -> Event]
        /\ store \in Seq(EventId) /\ Len(store) \in Nat
    BY SessionAssumption DEF TypeOK, EventId
  <1>2. /\ Len(store') = Len(store) + 1
        /\ \A i \in 1..Len(store) : store'[i] = store[i]
        /\ store'[Len(store) + 1] = created + 1
    BY <1>1 DEF AppendForensicEvent
  <1>3. events'[created + 1] = [kind |-> k, tick |-> now, seq |-> Len(store) + 1, state |-> "Ready"]
    BY <1>1 DEF AppendForensicEvent
  <1>4. \A i \in 1..Len(store) : events'[store[i]] = events[store[i]]
    BY <1>1, StoredExist DEF AppendForensicEvent
  <1> QED BY <1>1, <1>2, <1>3, <1>4 DEF Open

LEMMA HandleUserEventClosed ==
  ASSUME TypeOK, StoreInv, ClosedInv, NEW a \in Agents, NEW k \in UserKinds, HandleUserEvent(a, k)
  PROVE  ClosedInv'
  <1>1. /\ k \in Kinds /\ k # "stop" /\ created < MaxEvents /\ AppendForensicEvent(k)
        /\ recording[a] /\ UNCHANGED <<file, recording, now>>
    BY SessionAssumption DEF Kinds, HandleUserEvent, otherVars, histVars, modeVars
  <1>2. Open
    BY <1>1 DEF ClosedInv
  <1>3. Open'
    <2> SUFFICES ASSUME NEW i \in 1..Len(store')
                 PROVE  /\ events'[store'[i]].kind # "stop"
                        /\ events'[store'[i]].tick <= now'
                        /\ events'[store'[i]].seq <= Len(store')
      BY DEF Open
    <2>1. CASE i = Len(store) + 1  BY <1>1, <1>2, <2>1, AppendToOpen
    <2>2. CASE i # Len(store) + 1
      <3>1. i \in 1..Len(store) /\ Len(store') = Len(store) + 1 /\ Len(store) \in Nat
        BY <1>1, <1>2, <2>2, AppendToOpen
      <3>2. events'[store'[i]].seq \in Nat
        <4>1. store'[i] = store[i] /\ events'[store[i]] = events[store[i]]
          BY <1>1, <3>1, StoredExist DEF TypeOK, AppendForensicEvent
        <4> QED BY <3>1, <4>1, StoredExist DEF Event
      <3> QED BY <1>1, <1>2, <3>1, <3>2, AppendToOpen
    <2> QED BY <2>1, <2>2
  <1> QED BY <1>1, <1>3 DEF ClosedInv, RecordingIsClosed

LEMMA StopRecordingClosed ==
  ASSUME OnePage, TypeOK, StoreInv, ClosedInv, NEW a \in Agents, StopRecording(a)
  PROVE  ClosedInv'
  <1>1. /\ "stop" \in Kinds /\ created < MaxEvents /\ AppendForensicEvent("stop")
        /\ recording[a] /\ UNCHANGED file
    BY DEF Kinds, StopRecording, otherVars, histVars
  <1>2. Open
    BY <1>1 DEF ClosedInv
  <1>3. \A b \in Agents : ~recording'[b]
    BY DEF OnePage, TypeOK, StopRecording, SetRecordingState
  <1>4. /\ Len(store') = Len(store) + 1 /\ Len(store) \in Nat
        /\ Len(store') - 1 = Len(store)
    BY <1>1, <1>2, AppendToOpen
  <1>5. /\ events'[store'[Len(store')]].kind = "stop"
        /\ \A i \in 1..Len(store) :
             /\ events'[store'[i]].kind # "stop"
             /\ events'[store'[i]].tick <= events'[store'[Len(store')]].tick
    BY <1>1, <1>2, <1>4, AppendToOpen
  <1>6. \A i \in 1..Len(store) : events'[store'[i]].seq < events'[store'[Len(store')]].seq
    <2> SUFFICES ASSUME NEW i \in 1..Len(store)
                 PROVE  events'[store'[i]].seq < Len(store) + 1
      BY <1>1, <1>2, <1>4, AppendToOpen
    <2>1. events'[store'[i]].seq <= Len(store)
      BY <1>1, <1>2, AppendToOpen
    <2>2. events'[store'[i]].seq \in Nat
      <3>1. store'[i] = store[i] /\ events'[store[i]] = events[store[i]]
        BY <1>1, StoredExist DEF TypeOK, AppendForensicEvent
      <3> QED BY <3>1, StoredExist DEF Event
    <2> QED BY <1>4, <2>1, <2>2
  <1>7. RecordingIsClosed'
    BY <1>4, <1>5, <1>6 DEF RecordingIsClosed
  <1> QED BY <1>1, <1>3, <1>7 DEF ClosedInv

LEMMA LoadRecordingClosed ==
  ASSUME OnePage, TypeOK, StoreInv, ClosedInv, NEW a \in Agents, LoadRecording(a)
  PROVE  ClosedInv'
  <1> DEFINE n == Len(file.events)
  <1>1. /\ created \in Nat /\ n \in Nat /\ n > 0 /\ created + n <= MaxEvents /\ MaxEvents \in Nat
        /\ UNCHANGED file
    BY SessionAssumption DEF TypeOK, File, LoadRecording, otherVars, histVars
  <1>2. store' = [i \in 1..n |-> created + i] /\ Len(store') = n
    BY <1>1 DEF LoadRecording
  <1>3. ASSUME NEW i \in 1..n
        PROVE  /\ events'[store'[i]].kind = file.events[i].kind
               /\ events'[store'[i]].tick = file.events[i].tick
               /\ events'[store'[i]].seq  = file.events[i].seq
    <2>1. created + i \in EventId /\ (created + i) - created = i /\ store'[i] = created + i
      BY <1>1, <1>2 DEF EventId
    <2> QED BY <2>1 DEF LoadRecording
  <1>4. Closed(file.events)
    BY <1>1 DEF ClosedInv
  <1>5. \A b \in Agents : ~recording'[b]
    <2>1. CASE recording[a]
      BY <2>1 DEF OnePage, TypeOK, LoadRecording, SetRecordingState
    <2>2. CASE ~recording[a]
      BY <2>2 DEF OnePage, LoadRecording, modeVars
    <2> QED BY <2>1, <2>2
  <1>6. n \in 1..n /\ 1..n - 1 \subseteq 1..n
    BY <1>1
  <1>7. RecordingIsClosed'
    <2>1. events'[store'[n]].kind = "stop"
      BY <1>3, <1>4, <1>6 DEF Closed
    <2>2. ASSUME NEW i \in 1..n - 1
          PROVE  /\ events'[store'[i]].kind # "stop"
                 /\ events'[store'[i]].tick <= events'[store'[n]].tick
                 /\ events'[store'[i]].seq  <  events'[store'[n]].seq
      <3>1. /\ file.events[i].kind # "stop"
            /\ file.events[i].tick <= file.events[n].tick
            /\ file.events[i].seq < file.events[n].seq
        BY <1>4 DEF Closed, AllBefore
      <3>2. i \in 1..n
        BY <1>6
      <3> QED BY <1>3, <1>6, <3>1, <3>2
    <2> QED BY <1>2, <2>1, <2>2 DEF RecordingIsClosed
  <1> QED BY <1>1, <1>4, <1>5, <1>7 DEF ClosedInv

LEMMA DumpRecordingClosed ==
  ASSUME OnePage, TypeOK, StoreInv, ClosedInv, NEW a \in Agents, DumpRecording(a)
  PROVE  ClosedInv'
  <1> DEFINE dumped == [i \in 1..Len(store) |->
                         [kind |-> events[store[i]].kind, tick |-> events[store[i]].tick,
                          seq  |-> events[store[i]].seq]]
  <1>1. /\ file'.events = dumped /\ \A b \in Agents : ~recording[b]
        /\ UNCHANGED <<store, events, recording, now>>
    BY DEF OnePage, DumpRecording, storeVars, modeVars
  <1>2. store \in Seq(EventId) /\ Len(store) \in Nat /\ Len(dumped) = Len(store)
    BY DEF TypeOK
  <1>3. dumped # <<>> => Closed(dumped)
    <2> SUFFICES ASSUME dumped # <<>> PROVE Closed(dumped)
      OBVIOUS
    <2>1. Len(store) > 0 /\ store # <<>>
      BY <1>2
    <2>2. RecordingIsClosed
      BY DEF ClosedInv
    <2>3. Len(store) \in 1..Len(store) /\ 1..Len(store) - 1 \subseteq 1..Len(store)
      BY <1>2, <2>1
    <2> QED BY <1>1, <1>2, <2>1, <2>2, <2>3 DEF RecordingIsClosed, Closed, AllBefore
  <1>4. RecordingIsClosed'
    BY <1>1 DEF ClosedInv, RecordingIsClosed
  <1> QED BY <1>1, <1>3, <1>4 DEF ClosedInv

LEMMA SwapRendererClosed ==
  ASSUME ClosedInv, SwapRenderer
  PROVE  ClosedInv'
  <1>1. store' = <<>> /\ file' = file
    BY DEF SwapRenderer
  <1>2. 1..Len(store') = {}
    BY <1>1
  <1> QED BY <1>1, <1>2 DEF ClosedInv, Open, RecordingIsClosed

LEMMA StepClosed ==
  ASSUME OnePage, TypeOK, StoreInv, ClosedInv, [Next]_vars
  PROVE  ClosedInv'
  <1>0. now \in Nat
    BY SessionAssumption DEF TypeOK
  <1>1. ASSUME NEW a \in Agents, Command(a) PROVE ClosedInv'
    <2>1. CASE StartRecording(a)  BY <2>1, StartRecordingClosed
    <2>2. CASE StopRecording(a)   BY <2>2, StopRecordingClosed
    <2>3. CASE DumpRecording(a)   BY <2>3, DumpRecordingClosed
    <2>4. CASE LoadRecording(a)   BY <2>4, LoadRecordingClosed
    <2>5. CASE LoadIgnored(a)
      BY <2>5, <1>0, ClosedInvKept DEF LoadIgnored, modeVars, storeVars, otherVars, histVars, InfoKept
    <2>6. ASSUME NEW speed \in Speeds, StartReplay(a, speed) PROVE ClosedInv'
      <3>1. InfoKept
        BY <2>6 DEF TypeOK, Event, StartReplay, InfoKept
      <3>2. UNCHANGED <<store, file, recording, now>>
        BY <2>6 DEF StartReplay, SetReplayState, otherVars, histVars
      <3> QED BY <1>0, <3>1, <3>2, ClosedInvKept
    <2>7. CASE StopReplay(a)
      <3>1. EndReplay(a) /\ UNCHANGED <<store, events, file, now>>
        BY <2>7 DEF StopReplay, storeVars, otherVars, histVars
      <3> QED BY <1>0, <3>1, EndReplayRecording, ClosedInvKept DEF InfoKept
    <2> QED BY <1>1, <2>1, <2>2, <2>3, <2>4, <2>5, <2>6, <2>7 DEF Command
  <1>2. ASSUME NEW a \in Agents, NEW k \in UserKinds, HandleUserEvent(a, k) PROVE ClosedInv'
    BY <1>2, HandleUserEventClosed
  <1>3. CASE MessageLoop
    BY <1>3, <1>0, MessageLoopFrame, MessageLoopRecording, ClosedInvKept
  <1>4. CASE Tick
    BY <1>4, <1>0, ClosedInvKept DEF Tick, modeVars, storeVars, InfoKept
  <1>5. CASE SwapRenderer  BY <1>5, SwapRendererClosed
  <1>6. CASE UNCHANGED vars
    BY <1>6, <1>0, ClosedInvKept DEF vars, modeVars, storeVars, otherVars, histVars, InfoKept
  <1> QED BY <1>1, <1>2, <1>3, <1>4, <1>5, <1>6 DEF Next

\* Unless it is being recorded into, a store has its stop event at the end and
\* nothing after it in time, so that a replay is not left without an end: through
\* recordings begun anew, dumps, loads in the midst of a recording, late pairs of
\* earlier replays and replacements of the renderer.
THEOREM RecordingAlwaysClosed ==
  ASSUME OnePage, FilesClosed
  PROVE  Spec => []RecordingIsClosed
  <1>1. Init => StoreInv /\ ClosedInv
    <2> SUFFICES ASSUME Init PROVE StoreInv /\ ClosedInv
      OBVIOUS
    <2>1. file.events # <<>> => file.events[1].kind = "recStart" /\ Closed(file.events)
      BY SessionAssumption, FilesClosed DEF Init, NoFile, FilesClosed
    <2>2. StoreInv
      BY <2>1 DEF Init, StoreInv, StoreStartsWithRecStart
    <2>3. ClosedInv
      BY <2>1 DEF Init, ClosedInv, RecordingIsClosed
    <2> QED BY <2>2, <2>3
  <1>2. TypeOK /\ StoreInv /\ ClosedInv /\ [Next]_vars => ClosedInv'
    BY OnePage, StepClosed
  <1>3. ClosedInv => RecordingIsClosed
    BY DEF ClosedInv
  <1> QED BY <1>1, <1>2, <1>3, TypeCorrect, StepStore, PTL DEF Spec
-----------------------------------------------------------------------------
(***************************************************************************)
(* No event is injected twice.                                             *)
(***************************************************************************)
Repeatable == {"input", "history"}

\* An event that has been shown is not Ready again, and the objects still to be
\* made have been neither stored, nor posted, nor shown.
OnceInv ==
  /\ \A i \in 1..Len(tasks) : tasks[i].events \subseteq 1..created
  /\ \A p \in pairs : p.event \in 1..created
  /\ \A a \in Agents, e \in EventId :
       /\ shown[a][e] > 0 => e <= created
       /\ events[e].kind \notin Repeatable =>
            shown[a][e] = 0 \/ (shown[a][e] = 1 /\ events[e].state # "Ready")

\* Steps that make new events, if any, and leave the old ones alone.
LEMMA NewEventsOnce ==
  ASSUME TypeOK, OnceInv, UNCHANGED <<tasks, pairs, shown>>,
         created' \in Nat, created <= created',
         \A e \in EventId : e <= created => events'[e] = events[e]
  PROVE  OnceInv'
  <1>1. created \in Nat
    BY SessionAssumption DEF TypeOK
  <1>2. 1..created \subseteq 1..created'
    BY <1>1
  <1>3. ASSUME NEW a \in Agents, NEW e \in EventId
        PROVE  /\ shown[a][e] > 0 => e <= created'
               /\ events'[e].kind \notin Repeatable =>
                    shown[a][e] = 0 \/ (shown[a][e] = 1 /\ events'[e].state # "Ready")
    <2>1. e \in Nat /\ shown[a][e] \in Nat
      BY SessionAssumption DEF TypeOK, EventId
    <2>2. CASE e <= created
      BY <1>1, <2>1, <2>2 DEF OnceInv
    <2>3. CASE ~(e <= created)
      BY <2>1, <2>3 DEF OnceInv
    <2> QED BY <2>2, <2>3
  <1> QED BY <1>2, <1>3 DEF OnceInv

LEMMA AppendOnce ==
  ASSUME TypeOK, OnceInv, created < MaxEvents, NEW k \in Kinds, AppendForensicEvent(k),
         UNCHANGED <<tasks, pairs, shown>>
  PROVE  OnceInv'
  <1>1. created \in Nat /\ created' = created + 1
    BY SessionAssumption DEF TypeOK, AppendForensicEvent
  <1>2. \A e \in EventId : e <= created => events'[e] = events[e]
    BY <1>1 DEF TypeOK, AppendForensicEvent
  <1> QED BY <1>1, <1>2, NewEventsOnce

LEMMA StartReplayOnce ==
  ASSUME OnePage, TypeOK, StoreInv, OnceInv, NEW a \in Agents, NEW speed \in Speeds,
         StartReplay(a, speed)
  PROVE  OnceInv'
  <1> DEFINE t == [agent |-> a, events |-> Range(store), recordStart |-> recordStart,
                   replayStart |-> now, speed |-> speed]
  <1>1. tasks \in Seq(Task) /\ tasks' = Append(tasks, t) /\ Len(tasks) \in Nat
    BY DEF TypeOK, StartReplay
  <1>2. Range(store) \subseteq 1..created
    BY DEF StoreInv, Range
  <1>3. \A i \in 1..Len(tasks') : tasks'[i].events \subseteq 1..created
    <2> SUFFICES ASSUME NEW i \in 1..Len(tasks') PROVE tasks'[i].events \subseteq 1..created
      OBVIOUS
    <2>1. CASE i = Len(tasks) + 1
      <3>1. tasks'[i] = t
        BY <1>1, <2>1
      <3> QED BY <1>2, <3>1
    <2>2. CASE i # Len(tasks) + 1
      <3>1. i \in 1..Len(tasks) /\ tasks'[i] = tasks[i]
        BY <1>1, <2>2
      <3> QED BY <3>1 DEF OnceInv
    <2> QED BY <2>1, <2>2
  <1>4. \A b \in Agents, e \in EventId : shown'[b][e] = 0
    BY DEF OnePage, TypeOK, StartReplay, NothingShown
  <1>5. UNCHANGED <<pairs, created>>
    BY DEF StartReplay
  <1> QED BY <1>3, <1>4, <1>5 DEF OnceInv

LEMMA RunDelayedOnce ==
  ASSUME TypeOK, OnceInv, RunDelayed
  PROVE  OnceInv'
  <1>1. tasks # <<>> /\ tasks \in Seq(Task) /\ tasks' = Tail(tasks)
    BY DEF TypeOK, RunDelayed
  <1>2. \A i \in 1..Len(tasks') : tasks'[i] = tasks[i + 1] /\ i + 1 \in 1..Len(tasks)
    BY <1>1
  <1>3. Head(tasks).events \subseteq 1..created
    <2>1. Head(tasks) = tasks[1] /\ 1 \in 1..Len(tasks)
      BY <1>1
    <2> QED BY <2>1 DEF OnceInv
  <1>4. \A p \in pairs' : p.event \in 1..created
    BY <1>3, RunDelayedPosts DEF HeldUp, PairOf, OnceInv
  <1>5. UNCHANGED <<created, events, shown>>
    BY DEF RunDelayed, storeVars
  <1> QED BY <1>2, <1>4, <1>5 DEF OnceInv

\* One visit: the event was not shown before, or may be shown again, and whatever
\* state it is left in is not Ready.
LEMMA VisitOnce ==
  ASSUME TypeOK, OnceInv, NEW a \in Agents, NEW e \in EventId, Visited(e), NEW s \in After(e)
  PROVE  events[e].kind \notin Repeatable => shown[a][e] = 0 /\ s # "Ready"
  BY DEF OnceInv, Visited, After, Repeatable

LEMMA RunUndelayedOnce ==
  ASSUME OnePage, TypeOK, OnceInv, RunUndelayed
  PROVE  OnceInv'
  <1> DEFINE t == Head(tasks)
             a == t.agent
             V == IF inspState[a].replaying THEN {e \in Reached(t) : Visited(e)} ELSE {}
  <1>1. tasks # <<>> /\ tasks \in Seq(Task) /\ tasks' = Tail(tasks)
    BY DEF TypeOK, RunUndelayed
  <1>2. \A i \in 1..Len(tasks') : tasks'[i] = tasks[i + 1] /\ i + 1 \in 1..Len(tasks)
    BY <1>1
  <1>3. a \in Agents /\ t.events \subseteq 1..created /\ t.events \subseteq EventId
    <2>1. t = tasks[1] /\ 1 \in 1..Len(tasks)
      BY <1>1
    <2> QED BY <1>1, <2>1, HeadTask DEF OnceInv
  <1>4. V \subseteq t.events /\ \A e \in V : Visited(e)
    BY DEF Reached
  <1>5. PICK after \in Outcomes(V) :
          events' = [e \in EventId |->
            IF e \in V THEN [events[e] EXCEPT !.state = after[e]] ELSE events[e]]
    BY DEF RunUndelayed
  <1>6. /\ shown' = [shown EXCEPT ![a] =
                      [e \in EventId |-> shown[a][e] + (IF e \in V THEN 1 ELSE 0)]]
        /\ UNCHANGED <<created, pairs>>
    BY DEF RunUndelayed
  <1>7. ASSUME NEW b \in Agents, NEW e \in EventId
        PROVE  /\ shown'[b][e] > 0 => e <= created
               /\ events'[e].kind \notin Repeatable =>
                    shown'[b][e] = 0 \/ (shown'[b][e] = 1 /\ events'[e].state # "Ready")
    <2>1. b = a /\ events[e] \in Event /\ shown[a][e] \in Nat /\ created \in Nat
      BY <1>3, OnePage, SessionAssumption DEF OnePage, TypeOK
    <2>2. CASE e \in V
      <3>1. shown'[a][e] = shown[a][e] + 1
        BY <1>3, <1>6, <2>2 DEF TypeOK
      <3>2. events'[e].kind = events[e].kind /\ events'[e].state = after[e]
        BY <1>5, <2>1, <2>2 DEF Event
      <3>3. events[e].kind \notin Repeatable => shown[a][e] = 0 /\ after[e] # "Ready"
        BY <1>3, <1>4, <1>5, <2>2, VisitOnce DEF Outcomes
      <3>4. e <= created
        BY <1>3, <1>4, <2>1, <2>2
      <3> QED BY <2>1, <3>1, <3>2, <3>3, <3>4
    <2>3. CASE e \notin V
      <3>1. shown'[a][e] = shown[a][e]
        BY <1>3, <1>6, <2>1, <2>3 DEF TypeOK
      <3>2. events'[e] = events[e]
        BY <1>5, <2>3
      <3> QED BY <1>3, <2>1, <3>1, <3>2 DEF OnceInv
    <2> QED BY <2>2, <2>3
  <1> QED BY <1>2, <1>6, <1>7 DEF OnceInv

LEMMA RunPairOnce ==
  ASSUME OnePage, TypeOK, OnceInv, NEW p \in pairs, RunPairInject(p) \/ RunPairCancel(p)
  PROVE  OnceInv'
  <1>1. p.agent \in Agents /\ p.event \in EventId /\ p.event \in 1..created
    BY DEF TypeOK, Pair, OnceInv
  <1>2. UNCHANGED <<tasks, created>> /\ pairs' \subseteq pairs
    BY DEF RunPairInject, RunPairCancel
  <1>3. ASSUME NEW b \in Agents, NEW e \in EventId
        PROVE  /\ shown'[b][e] > 0 => e <= created
               /\ events'[e].kind \notin Repeatable =>
                    shown'[b][e] = 0 \/ (shown'[b][e] = 1 /\ events'[e].state # "Ready")
    <2>1. /\ b = p.agent /\ events[e] \in Event /\ shown[b][e] \in Nat /\ created \in Nat
          /\ events \in [EventId -> Event] /\ shown \in [Agents -> [EventId -> Nat]]
      BY <1>1, OnePage, SessionAssumption DEF OnePage, TypeOK
    <2>2. CASE RunPairInject(p) /\ Visited(p.event)
      <3>1. PICK s \in After(p.event) : events' = [events EXCEPT ![p.event].state = s]
        BY <2>2 DEF RunPairInject
      <3>2. shown' = [shown EXCEPT ![p.agent][p.event] = @ + 1]
        BY <2>2 DEF RunPairInject
      <3>3. CASE e = p.event
        <4>1. shown'[b][e] = shown[b][e] + 1
          BY <1>1, <2>1, <3>2, <3>3
        <4>2. events'[e].kind = events[e].kind /\ events'[e].state = s
          BY <1>1, <2>1, <3>1, <3>3 DEF Event
        <4>3. events[e].kind \notin Repeatable => shown[b][e] = 0 /\ s # "Ready"
          BY <2>2, <3>1, <3>3, VisitOnce
        <4>4. e <= created
          BY <1>1, <2>1, <3>3
        <4> QED BY <2>1, <4>1, <4>2, <4>3, <4>4
      <3>4. CASE e # p.event
        <4>1. shown'[b][e] = shown[b][e] /\ events'[e] = events[e]
          BY <1>1, <2>1, <3>1, <3>2, <3>4
        <4> QED BY <4>1 DEF OnceInv
      <3> QED BY <3>3, <3>4
    <2>3. CASE RunPairInject(p) /\ ~Visited(p.event)
      <3>1. UNCHANGED <<events, shown>>
        BY <2>3 DEF RunPairInject
      <3> QED BY <3>1 DEF OnceInv
    <2>4. CASE RunPairCancel(p)
      <3>1. shown' = shown /\ events' = [events EXCEPT ![p.event].state = "Cancelled"]
        BY <2>4 DEF RunPairCancel, histVars
      <3>2. events'[e].kind = events[e].kind
            /\ (events'[e].state = events[e].state \/ events'[e].state # "Ready")
        BY <1>1, <2>1, <3>1 DEF Event
      <3> QED BY <3>1, <3>2 DEF OnceInv
    <2> QED BY <2>2, <2>3, <2>4
  <1> QED BY <1>2, <1>3 DEF OnceInv

LEMMA StepOnce ==
  ASSUME OnePage, TypeOK, StoreInv, OnceInv, [Next]_vars
  PROVE  OnceInv'
  <1>0. created \in Nat
    BY SessionAssumption DEF TypeOK
  <1>1. ASSUME NEW a \in Agents, Command(a) PROVE OnceInv'
    <2>1. CASE StartRecording(a)
      <3>1. created' = created + 5 /\ UNCHANGED <<tasks, pairs, shown>>
        BY <2>1 DEF StartRecording, loopVars, histVars
      <3>2. \A e \in EventId : e <= created => events'[e] = events[e]
        BY <1>0, <2>1 DEF StartRecording, EventId
      <3> QED BY <1>0, <3>1, <3>2, NewEventsOnce
    <2>2. CASE StopRecording(a)
      BY <2>2, AppendOnce DEF StopRecording, loopVars, Kinds, histVars
    <2>3. CASE DumpRecording(a)
      BY <2>3 DEF OnceInv, DumpRecording, storeVars, loopVars, histVars
    <2>4. CASE LoadRecording(a)
      <3>1. /\ Len(file.events) \in Nat /\ created' = created + Len(file.events)
            /\ UNCHANGED <<tasks, pairs, shown>>
        BY <2>4 DEF TypeOK, File, LoadRecording, loopVars, histVars
      <3>2. \A e \in EventId : e <= created => events'[e] = events[e]
        BY <1>0, <2>4, <3>1 DEF LoadRecording, EventId
      <3> QED BY <1>0, <3>1, <3>2, NewEventsOnce
    <2>5. CASE LoadIgnored(a)
      BY <2>5 DEF OnceInv, LoadIgnored, storeVars, loopVars, histVars
    <2>6. ASSUME NEW speed \in Speeds, StartReplay(a, speed) PROVE OnceInv'
      BY <2>6, StartReplayOnce
    <2>7. CASE StopReplay(a)
      BY <2>7 DEF OnceInv, StopReplay, storeVars, loopVars, histVars
    <2> QED BY <1>1, <2>1, <2>2, <2>3, <2>4, <2>5, <2>6, <2>7 DEF Command
  <1>2. ASSUME NEW a \in Agents, NEW k \in UserKinds, HandleUserEvent(a, k) PROVE OnceInv'
    BY <1>2, AppendOnce, SessionAssumption DEF HandleUserEvent, loopVars, Kinds, histVars
  <1>3. CASE MessageLoop
    BY <1>3, RunDelayedOnce, RunUndelayedOnce, RunPairOnce DEF MessageLoop
  <1>4. CASE Tick  BY <1>4 DEF OnceInv, Tick, storeVars, loopVars, histVars
  <1>5. CASE SwapRenderer
    <2>1. /\ tasks' = <<>> /\ pairs' = {}
          /\ \A a \in Agents, e \in EventId : shown'[a][e] = 0
      BY <1>5 DEF SwapRenderer, NothingShown
    <2>2. 1..Len(tasks') = {}
      BY <2>1
    <2> QED BY <2>1, <2>2 DEF OnceInv
  <1>6. CASE UNCHANGED vars  BY <1>6 DEF OnceInv, vars, storeVars, loopVars, histVars
  <1> QED BY <1>1, <1>2, <1>3, <1>4, <1>5, <1>6 DEF Next

\* Though a stopped replay's task may still be waiting when the next replay begins,
\* take the new token and post a second pair for every event, each event is injected
\* once in a replay: but for input events and history items.
THEOREM OneShotEventsAlwaysOnce ==
  ASSUME OnePage
  PROVE  Spec => []OneShotEventsOnce
  <1>1. Init => StoreInv /\ OnceInv
    <2> SUFFICES ASSUME Init PROVE StoreInv /\ OnceInv
      OBVIOUS
    <2>1. file.events # <<>> => file.events[1].kind = "recStart"
      BY SessionAssumption DEF Init, NoFile
    <2>2. StoreInv
      BY <2>1 DEF Init, StoreInv, StoreStartsWithRecStart
    <2>3. OnceInv
      BY DEF Init, OnceInv, NothingShown
    <2> QED BY <2>2, <2>3
  <1>2. TypeOK /\ StoreInv /\ OnceInv /\ [Next]_vars => OnceInv'
    BY OnePage, StepOnce
  <1>3. TypeOK /\ OnceInv => OneShotEventsOnce
    <2> SUFFICES ASSUME TypeOK, OnceInv, NEW a \in Agents, NEW e \in EventId, shown[a][e] > 1
                 PROVE  events[e].kind \in {"input", "history"}
      BY DEF OneShotEventsOnce
    <2>1. shown[a][e] # 0 /\ shown[a][e] # 1
      OBVIOUS
    <2> QED BY <2>1 DEF OnceInv, Repeatable
  <1> QED BY <1>1, <1>2, <1>3, TypeCorrect, StepStore, PTL DEF Spec
-----------------------------------------------------------------------------
(***************************************************************************)
(* The order in which a replay shows events: that of their recording,      *)
(* whatever is left in the message loop of earlier replays, with nothing   *)
(* skipped but what their pairs cancel.                                    *)
(***************************************************************************)
\* Events of a recording differ in their clock readings in the order of their ticks.
Ordered(es) == \A i, j \in 1..Len(es) : es[i].tick < es[j].tick => es[i].seq < es[j].seq

FilesOrdered == \A f \in InitialFiles : Ordered(f.events)

StoreOrdered ==
  \A e, f \in Range(store) : events[e].tick < events[f].tick => events[e].seq < events[f].seq

\* A task is about the whole store or about one that is gone; what is being
\* recorded has not been posted.
TasksWhole ==
  \A i \in 1..Len(tasks) :
    \/ tasks[i].events = Range(store) /\ \A a \in Agents : ~recording[a]
    \/ tasks[i].events \cap Range(store) = {}

\* The replay of a has shown e or will pass it by.
Spent(a, e) == shown[a][e] > 0 \/ ~Visited(e)

\* Recorded before f by more than the tasks of a's replay were held up.
Earlier(a, e, f) == e \in Range(store) /\ f \in Range(store) /\ WellBefore(a, e, f)

\* What was recorded that much before an event that a replay has shown is spent.
ShownInOrder ==
  \A a \in Agents : \A e, f \in EventId :
    replaying[a] /\ Earlier(a, e, f) /\ shown[a][f] > 0 => Spent(a, e)

\* What was recorded that much before the event of a pair of the replay in progress is spent,
\* or its own pair of the same task comes first.
PairsInOrder ==
  \A p \in pairs : \A e \in EventId :
    StillReplaying(p.agent, p.id) /\ Earlier(p.agent, e, p.event) =>
      \/ Spent(p.agent, e)
      \/ \E q \in pairs : q.event = e /\ q.agent = p.agent /\ q.id = p.id /\ Precedes(q, p)

\* What a replay has not shown is still to come or was cancelled.
UnshownReady ==
  \A a \in Agents : \A e \in Range(store) :
    replaying[a] /\ shown[a][e] = 0 => events[e].state \in {"Ready", "Cancelled"}

OrderInv ==
  /\ Ordered(file.events)
  /\ StoreOrdered
  /\ TasksWhole
  /\ ShownInOrder
  /\ PairsInOrder
  /\ UnshownReady
-----------------------------------------------------------------------------
(***************************************************************************)
(* The order of the store, of the file and of the tasks.                   *)
(***************************************************************************)
LEMMA InStore ==
  ASSUME TypeOK, StoreInv
  PROVE  /\ \A e : e \in Range(store) <=> \E i \in 1..Len(store) : store[i] = e
         /\ \A e \in Range(store) : e \in EventId /\ e \in 1..created /\ events[e] \in Event
  <1>1. store \in Seq(EventId)
    BY DEF TypeOK
  <1>2. \A e : e \in Range(store) <=> \E i \in 1..Len(store) : store[i] = e
    BY <1>1 DEF Range
  <1> QED BY <1>2, StoredExist DEF StoreInv

\* Steps that keep the store and what is told of its events.
LEMMA StoreOrderKept ==
  ASSUME TypeOK, StoreInv, StoreOrdered, InfoKept, UNCHANGED store
  PROVE  StoreOrdered'
  BY InStore DEF StoreOrdered, InfoKept

\* Tasks left in the loop, by steps that record nothing new.
LEMMA TasksKept ==
  ASSUME TypeOK, TasksWhole, UNCHANGED store, tasks' = tasks \/ (tasks # <<>> /\ tasks' = Tail(tasks)),
         \A a \in Agents : recording'[a] => recording[a]
  PROVE  TasksWhole'
  <1>1. tasks \in Seq(Task)
    BY DEF TypeOK
  <1>2. CASE tasks' = tasks  BY <1>2 DEF TasksWhole
  <1>3. CASE tasks # <<>> /\ tasks' = Tail(tasks)
    <2>1. \A i \in 1..Len(tasks') : tasks'[i] = tasks[i + 1] /\ i + 1 \in 1..Len(tasks)
      BY <1>1, <1>3
    <2> QED BY <2>1 DEF TasksWhole
  <1> QED BY <1>2, <1>3

\* A store of new objects has nothing of what was posted.
LEMMA TasksOfTheOld ==
  ASSUME TypeOK, OnceInv, UNCHANGED tasks, \A e \in Range(store') : e \in Nat /\ e > created
  PROVE  TasksWhole'
  <1>1. created \in Nat
    BY SessionAssumption DEF TypeOK
  <1>2. ASSUME NEW i \in 1..Len(tasks) PROVE tasks[i].events \cap Range(store') = {}
    <2>1. tasks[i].events \subseteq 1..created
      BY DEF OnceInv
    <2> QED BY <1>1, <2>1
  <1> QED BY <1>2 DEF TasksWhole

LEMMA StartRecordingOrder ==
  ASSUME TypeOK, StoreInv, OnceInv, NEW a \in Agents, StartRecording(a)
  PROVE  StoreOrdered' /\ TasksWhole'
  <1>1. created \in Nat /\ created + 5 <= MaxEvents /\ MaxEvents \in Nat /\ now \in Nat
    BY SessionAssumption DEF TypeOK, StartRecording
  <1>2. store' = <<created + 1, created + 2, created + 3, created + 5, created + 4>>
    BY DEF StartRecording
  <1>3. ASSUME NEW e \in Range(store')
        PROVE  e \in Nat /\ e > created /\ e <= created + 5 /\ events'[e].tick = now
    <2>1. PICK i \in 1..5 : e = store'[i]
      BY <1>2 DEF Range
    <2>2. e \in EventId /\ e - created \in 1..5 /\ e \in Nat
      BY <1>1, <1>2, <2>1 DEF EventId
    <2> QED BY <1>1, <2>2 DEF StartRecording
  <1>4. StoreOrdered'
    BY <1>1, <1>3 DEF StoreOrdered
  <1>5. tasks' = tasks
    BY DEF StartRecording, loopVars
  <1> QED BY <1>3, <1>4, <1>5, TasksOfTheOld

\* An event appended to a recording in progress is the last, and nobody posted it.
LEMMA AppendOrder ==
  ASSUME TypeOK, StoreInv, OnceInv, Open, StoreOrdered, TasksWhole, created < MaxEvents,
         NEW k \in Kinds, AppendForensicEvent(k), UNCHANGED tasks, \E a \in Agents : recording[a]
  PROVE  StoreOrdered' /\ TasksWhole'
  <1>1. /\ created + 1 \in EventId /\ now \in Nat /\ events \in [EventId -> Event]
        /\ store \in Seq(EventId) /\ Len(store) \in Nat /\ created \in Nat
    BY SessionAssumption DEF TypeOK, EventId
  <1>2. Range(store') = Range(store) \cup {created + 1}
    <2>1. store' = Append(store, created + 1)
      BY DEF AppendForensicEvent
    <2>2. /\ DOMAIN store' = DOMAIN store \cup {Len(store) + 1}
          /\ \A i \in DOMAIN store : store'[i] = store[i]
          /\ store'[Len(store) + 1] = created + 1
      BY <1>1, <2>1
    <2> QED BY <2>2 DEF Range
  <1>3. /\ events'[created + 1].tick = now
        /\ events'[created + 1].seq = Len(store) + 1
    BY <1>1 DEF AppendForensicEvent
  <1>4. ASSUME NEW e \in Range(store)
        PROVE  /\ events'[e] = events[e] /\ events[e].tick <= now /\ events[e].seq <= Len(store)
               /\ events[e] \in Event
    <2>1. PICK i \in 1..Len(store) : store[i] = e
      BY InStore
    <2>2. events'[e] = events[e] /\ events[e] \in Event
      BY <1>1, <2>1, StoredExist DEF AppendForensicEvent
    <2> QED BY <2>1, <2>2 DEF Open
  <1>5. StoreOrdered'
    <2> SUFFICES ASSUME NEW e \in Range(store'), NEW f \in Range(store'),
                        events'[e].tick < events'[f].tick
                 PROVE  events'[e].seq < events'[f].seq
      BY DEF StoreOrdered
    <2>1. CASE e \in Range(store) /\ f \in Range(store)
      BY <1>4, <2>1 DEF StoreOrdered
    <2>2. CASE e \in Range(store) /\ f = created + 1
      <3>1. events'[e].seq <= Len(store) /\ events'[e].seq \in Nat
        BY <1>4, <2>2 DEF Event
      <3>2. events'[f].seq = Len(store) + 1
        BY <1>3, <2>2
      <3> QED BY <1>1, <3>1, <3>2
    <2>3. CASE e = created + 1 /\ f \in Range(store)
      BY <1>1, <1>3, <1>4, <2>3 DEF Event
    <2>4. CASE e = created + 1 /\ f = created + 1
      BY <1>1, <1>3, <2>4
    <2> QED BY <1>2, <2>1, <2>2, <2>3, <2>4
  <1>6. TasksWhole'
    <2>1. ASSUME NEW i \in 1..Len(tasks) PROVE tasks[i].events \cap Range(store') = {}
      <3>1. tasks[i].events \cap Range(store) = {}
        BY DEF TasksWhole
      <3>2. created + 1 \notin tasks[i].events
        BY <1>1 DEF OnceInv
      <3> QED BY <1>2, <3>1, <3>2
    <2> QED BY <2>1 DEF TasksWhole
  <1> QED BY <1>5, <1>6

LEMMA LoadRecordingOrder ==
  ASSUME TypeOK, OnceInv, Ordered(file.events), NEW a \in Agents, LoadRecording(a)
  PROVE  StoreOrdered' /\ TasksWhole'
  <1> DEFINE n == Len(file.events)
  <1>1. created \in Nat /\ n \in Nat /\ created + n <= MaxEvents /\ MaxEvents \in Nat
    BY SessionAssumption DEF TypeOK, File, LoadRecording
  <1>2. store' = [i \in 1..n |-> created + i]
    BY DEF LoadRecording
  <1>3. ASSUME NEW e \in Range(store')
        PROVE  /\ e \in Nat /\ e > created /\ e - created \in 1..n
               /\ events'[e].tick = file.events[e - created].tick
               /\ events'[e].seq  = file.events[e - created].seq
    <2>1. PICK i \in 1..n : e = created + i
      BY <1>2 DEF Range
    <2>2. e \in EventId /\ e - created = i
      BY <1>1, <2>1 DEF EventId
    <2> QED BY <1>1, <2>1, <2>2 DEF LoadRecording
  <1>4. StoreOrdered'
    BY <1>3 DEF StoreOrdered, Ordered
  <1>5. tasks' = tasks
    BY DEF LoadRecording, loopVars
  <1> QED BY <1>3, <1>4, <1>5, TasksOfTheOld

LEMMA DumpRecordingOrder ==
  ASSUME TypeOK, StoreInv, StoreOrdered, NEW a \in Agents, DumpRecording(a)
  PROVE  Ordered(file'.events)
  <1> DEFINE n == Len(store)
  <1>1. n \in Nat
    BY DEF TypeOK
  <1>2. file'.events = [i \in 1..n |->
          [kind |-> events[store[i]].kind, tick |-> events[store[i]].tick,
           seq |-> events[store[i]].seq]]
    BY DEF DumpRecording
  <1>3. Len(file'.events) = n
    BY <1>1, <1>2
  <1>4. \A i \in 1..n : store[i] \in Range(store)
    BY InStore
  <1> QED BY <1>2, <1>3, <1>4 DEF StoreOrdered, Ordered

LEMMA StartReplayTasks ==
  ASSUME TypeOK, TasksWhole, NEW a \in Agents, NEW speed \in Speeds, StartReplay(a, speed), OnePage
  PROVE  TasksWhole'
  <1> DEFINE t == [agent |-> a, events |-> Range(store), recordStart |-> recordStart,
                   replayStart |-> now, speed |-> speed]
  <1>1. tasks \in Seq(Task) /\ tasks' = Append(tasks, t) /\ Len(tasks) \in Nat
    BY DEF TypeOK, StartReplay
  <1>2. UNCHANGED <<store, recording>> /\ \A b \in Agents : ~recording[b]
    BY DEF OnePage, StartReplay, SetReplayState
  <1> SUFFICES ASSUME NEW i \in 1..Len(tasks')
               PROVE  tasks'[i].events = Range(store) \/ tasks'[i].events \cap Range(store) = {}
    BY <1>2 DEF TasksWhole
  <1>3. CASE i = Len(tasks) + 1
    <2>1. tasks'[i] = t
      BY <1>1, <1>3
    <2> QED BY <2>1
  <1>4. CASE i # Len(tasks) + 1
    <2>1. i \in 1..Len(tasks) /\ tasks'[i] = tasks[i]
      BY <1>1, <1>4
    <2> QED BY <2>1 DEF TasksWhole
  <1> QED BY <1>3, <1>4
-----------------------------------------------------------------------------
(***************************************************************************)
(* What a step of the message loop shows.                                  *)
(***************************************************************************)
\* The step visits the events V for agent a: the others are not shown, and at most
\* cancelled.
Shows(a, V) ==
  /\ \A e \in V : Visited(e)
  /\ \A e \in EventId :
       shown'[a][e] = (IF e \in V THEN shown[a][e] + 1 ELSE shown[a][e])
  /\ \A e \in EventId \ V : events'[e].state \in {events[e].state, "Cancelled"}

\* What is spent stays so, and what is visited is spent.
LEMMA ShowsSpent ==
  ASSUME TypeOK, InfoKept, NEW a \in Agents, NEW V, Shows(a, V),
         NEW e \in EventId, Spent(a, e) \/ e \in V \/ ~Visited(e)
  PROVE  Spent(a, e)'
  <1>1. shown[a][e] \in Nat /\ events[e] \in Event
    BY DEF TypeOK
  <1>2. CASE e \in V
    BY <1>1, <1>2 DEF Shows, Spent
  <1>3. CASE e \notin V /\ shown[a][e] > 0
    BY <1>1, <1>3 DEF Shows, Spent
  <1>4. CASE e \notin V /\ ~Visited(e)
    <2>1. events'[e].kind = events[e].kind /\ events'[e].state \in {events[e].state, "Cancelled"}
      BY <1>4 DEF Shows, InfoKept
    <2>2. ~Visited(e)'
      BY <1>4, <2>1 DEF Visited
    <2> QED BY <2>2 DEF Spent
  <1> QED BY <1>2, <1>3, <1>4 DEF Spent

LEMMA EarlierKept ==
  ASSUME InfoKept, UNCHANGED <<store, lag>>, NEW a \in Agents,
         NEW e \in EventId, NEW f \in EventId, Earlier(a, e, f)'
  PROVE  Earlier(a, e, f)
  BY DEF Earlier, WellBefore, InfoKept

\* However little a task was held up, of two events of which the one is earlier its clock
\* reading was the earlier one.
LEMMA EarlierRead ==
  ASSUME TypeOK, StoreOrdered, NEW a \in Agents, NEW e \in EventId, NEW f \in EventId,
         Earlier(a, e, f)
  PROVE  events[e].seq < events[f].seq
  <1>1. lag[a] \in Nat /\ events[e].tick \in Nat /\ events[f].tick \in Nat
    BY DEF TypeOK, Event
  <1>2. events[e].tick < events[f].tick
    BY <1>1 DEF Earlier, WellBefore
  <1> QED BY <1>2 DEF StoreOrdered, Earlier

\* Of what is visited everything earlier is spent, or visited in the same step.
LEMMA ShowsInOrder ==
  ASSUME OnePage, TypeOK, ShownInOrder, InfoKept, UNCHANGED <<store, lag>>, NEW a \in Agents, NEW V, Shows(a, V),
         replaying'[a] => replaying[a],
         \A f \in V : \A e \in EventId : Earlier(a, e, f) => Spent(a, e) \/ e \in V \/ ~Visited(e)
  PROVE  ShownInOrder'
  <1> SUFFICES ASSUME NEW e \in EventId, NEW f \in EventId,
                      replaying'[a], Earlier(a, e, f)', shown'[a][f] > 0
               PROVE  Spent(a, e)'
    BY OnePage DEF OnePage, ShownInOrder
  <1>1. Earlier(a, e, f)
    BY EarlierKept
  <1>2. CASE f \in V
    BY <1>1, <1>2, ShowsSpent
  <1>3. CASE f \notin V
    <2>1. shown[a][f] > 0
      BY <1>3 DEF Shows
    <2>2. Spent(a, e)
      BY <1>1, <2>1 DEF ShownInOrder
    <2> QED BY <2>2, ShowsSpent
  <1> QED BY <1>2, <1>3

LEMMA ShowsUnshown ==
  ASSUME OnePage, TypeOK, StoreInv, UnshownReady, UNCHANGED store, NEW a \in Agents, NEW V, Shows(a, V),
         replaying'[a] => replaying[a]
  PROVE  UnshownReady'
  <1> SUFFICES ASSUME NEW e \in Range(store), replaying'[a], shown'[a][e] = 0
               PROVE  events'[e].state \in {"Ready", "Cancelled"}
    BY OnePage DEF OnePage, UnshownReady
  <1>1. e \in EventId /\ shown[a][e] \in Nat
    BY InStore DEF TypeOK
  <1>2. e \notin V /\ shown[a][e] = 0
    BY <1>1 DEF Shows
  <1>3. events[e].state \in {"Ready", "Cancelled"}
    BY <1>2 DEF UnshownReady
  <1> QED BY <1>1, <1>2, <1>3 DEF Shows

\* Pairs leave in the order of their events: one of the replay in progress that is
\* taken from the loop has its event spent.
LEMMA ShowsPairs ==
  ASSUME OnePage, TypeOK, PairsInOrder, InfoKept, UNCHANGED <<store, lag>>, pairs' \subseteq pairs,
         NEW a \in Agents, NEW V, Shows(a, V),
         \A id : StillReplaying(a, id)' => StillReplaying(a, id),
         \A q \in pairs \ pairs' :
           StillReplaying(a, q.id) => q.event \in V \/ ~Visited(q.event)
  PROVE  PairsInOrder'
  <1> SUFFICES ASSUME NEW p \in pairs', NEW e \in EventId,
                      StillReplaying(p.agent, p.id)', Earlier(p.agent, e, p.event)'
               PROVE  \/ Spent(p.agent, e)'
                      \/ \E q \in pairs' : /\ q.event = e /\ q.agent = p.agent /\ q.id = p.id
                                           /\ Precedes(q, p)'
    BY DEF PairsInOrder
  <1>1. p \in pairs /\ p.agent = a /\ p.event \in EventId
    BY OnePage DEF OnePage, TypeOK, Pair
  <1>2. StillReplaying(a, p.id) /\ Earlier(a, e, p.event)
    BY <1>1, EarlierKept
  <1>3. CASE Spent(a, e)
    BY <1>1, <1>3, ShowsSpent
  <1>4. CASE ~Spent(a, e)
    <2>1. PICK q \in pairs : q.event = e /\ q.agent = a /\ q.id = p.id /\ Precedes(q, p)
      BY <1>1, <1>2, <1>4 DEF PairsInOrder
    <2>2. Precedes(q, p)'
      BY <1>1, <2>1 DEF Precedes, InfoKept
    <2>3. CASE q \in pairs'
      BY <1>1, <2>1, <2>2, <2>3
    <2>4. CASE q \notin pairs'
      <3>1. e \in V \/ ~Visited(e)
        BY <1>2, <2>1, <2>4
      <3> QED BY <1>1, <3>1, ShowsSpent
    <2> QED BY <2>3, <2>4
  <1> QED BY <1>3, <1>4
-----------------------------------------------------------------------------
(***************************************************************************)
(* The steps of the message loop.                                          *)
(***************************************************************************)
LEMMA EndReplayEnds ==
  ASSUME OnePage, TypeOK, ModesAgree, NEW a \in Agents, EndReplay(a)
  PROVE  ~replaying'[a] /\ ~inspState'[a].replaying
  <1>1. CASE ~recording[a] /\ replaying[a]
    BY <1>1 DEF EndReplay, SetReplayState, TypeOK
  <1>2. CASE ~(~recording[a] /\ replaying[a])
    <2>1. UNCHANGED modeVars
      BY <1>2 DEF EndReplay
    <2> QED BY <1>2, <2>1 DEF modeVars, ModesAgree, Mirrored
  <1> QED BY <1>1, <1>2

LEMMA ReplayGoesOn ==
  ASSUME OnePage, TypeOK, ModesAgree, MessageLoop, NEW a \in Agents
  PROVE  /\ replaying'[a] => replaying[a]
         /\ \A id : StillReplaying(a, id)' => StillReplaying(a, id)
  <1>1. CASE UNCHANGED <<modeVars, v8>>
    BY <1>1 DEF modeVars, StillReplaying
  <1>2. CASE EndReplay(a)
    BY <1>2, EndReplayEnds DEF StillReplaying
  <1> QED BY <1>1, <1>2, MessageLoopFrame, OnePage DEF OnePage

LEMMA UndelayedShows ==
  ASSUME OnePage, TypeOK, ModesAgree, RunUndelayed, NEW a \in Agents
  PROVE  LET t == Head(tasks)
         IN  Shows(a, IF replaying[a] THEN {e \in Reached(t) : Visited(e)} ELSE {})
  <1> DEFINE t == Head(tasks)
             V == IF inspState[t.agent].replaying THEN {e \in Reached(t) : Visited(e)} ELSE {}
  <1>1. t.agent = a
    BY HeadTask, OnePage DEF OnePage, RunUndelayed
  <1>2. inspState[a].replaying = replaying[a]
    BY DEF ModesAgree, Mirrored
  <1>3. \A e \in EventId \ V : events'[e] = events[e]
    BY DEF RunUndelayed
  <1>4. \A e \in EventId : shown'[a][e] = (IF e \in V THEN shown[a][e] + 1 ELSE shown[a][e])
    <2>1. shown' = [shown EXCEPT ![a] =
                     [e \in EventId |-> shown[a][e] + (IF e \in V THEN 1 ELSE 0)]]
      BY <1>1 DEF RunUndelayed
    <2> QED BY <2>1 DEF TypeOK
  <1>5. \A e \in V : Visited(e)
    OBVIOUS
  <1>6. Shows(a, V)
    BY <1>3, <1>4, <1>5 DEF Shows
  <1> QED BY <1>1, <1>2, <1>6

LEMMA InjectShows ==
  ASSUME OnePage, TypeOK, NEW p \in pairs, RunPairInject(p), NEW a \in Agents
  PROVE  Shows(a, IF Visited(p.event) THEN {p.event} ELSE {})
  <1>1. p.agent = a /\ p.event \in EventId /\ events \in [EventId -> Event]
        /\ shown \in [Agents -> [EventId -> Nat]]
    BY OnePage DEF OnePage, TypeOK, Pair
  <1>2. CASE Visited(p.event)
    <2>1. PICK s \in After(p.event) : events' = [events EXCEPT ![p.event].state = s]
      BY <1>2 DEF RunPairInject
    <2>2. shown' = [shown EXCEPT ![a][p.event] = @ + 1]
      BY <1>1, <1>2 DEF RunPairInject
    <2> QED BY <1>1, <1>2, <2>1, <2>2 DEF Shows
  <1>3. CASE ~Visited(p.event)
    BY <1>3 DEF RunPairInject, Shows
  <1> QED BY <1>2, <1>3

LEMMA CancelShows ==
  ASSUME TypeOK, NEW p \in pairs, RunPairCancel(p), NEW a \in Agents
  PROVE  Shows(a, {})
  <1>1. p.event \in EventId /\ events \in [EventId -> Event]
    BY DEF TypeOK, Pair
  <1>2. shown' = shown /\ events' = [events EXCEPT ![p.event].state = "Cancelled"]
    BY DEF RunPairCancel, histVars
  <1>3. ASSUME NEW e \in EventId PROVE events'[e].state \in {events[e].state, "Cancelled"}
    BY <1>1, <1>2 DEF Event
  <1> QED BY <1>2, <1>3 DEF Shows

\* Among the events of a store, what a task without a scaler visits has before it
\* only what it visits too or passes by.
LEMMA UndelayedInOrder ==
  ASSUME OnePage, TypeOK, StoreInv, StoreOrdered, TasksWhole, RunUndelayed,
         NEW a \in Agents, NEW f \in Reached(Head(tasks)), NEW e \in EventId, Earlier(a, e, f)
  PROVE  e \in Reached(Head(tasks))
  <1> DEFINE t == Head(tasks)
  <1>1. tasks \in Seq(Task) /\ tasks # <<>>
    BY DEF TypeOK, RunUndelayed
  <1>2. t = tasks[1] /\ 1 \in 1..Len(tasks)
    BY <1>1
  <1>3. f \in t.events /\ t.events \subseteq EventId
    BY <1>1, HeadTask DEF Reached
  <1>4. t.events = Range(store)
    BY <1>2, <1>3 DEF TasksWhole, Earlier
  <1>5. events[e].seq < events[f].seq
    BY <1>3, EarlierRead
  <1>6. \A s \in EventId : events[s].seq \in Nat
    BY DEF TypeOK, Event
  <1> QED BY <1>3, <1>4, <1>5, <1>6 DEF Reached, Earlier

\* Multiplied by the scaler, delays keep their order.
LEMMA Scaled ==
  ASSUME NEW x \in Nat, NEW y \in Nat, NEW s \in Nat, x < y, s > 0
  PROVE  /\ x * s \in Nat /\ y * s \in Nat
         /\ x * s < y * s
  <1>1. PICK d \in Nat : y = x + d /\ d > 0
    <2>1. y - x \in Nat /\ y = x + (y - x) /\ y - x > 0
      OBVIOUS
    <2> QED BY <2>1
  <1>2. y * s = x * s + d * s /\ x * s \in Nat /\ d * s \in Nat
    BY <1>1
  <1>3. d * s > 0
    BY <1>1
  <1> QED BY <1>2, <1>3

\* The clock goes less far in between than the events are apart.
LEMMA StillLess ==
  ASSUME NEW ticks \in Int, NEW more \in Int, NEW base \in Int, NEW start \in Int,
         NEW look \in Int, NEW later \in Int, NEW hold \in Int,
         ticks + hold < more, later <= look + hold
  PROVE  (ticks - base) + start - look < (more - base) + start - later
  OBVIOUS

\* Of two events of a task that were recorded further apart than it is held up, the earlier
\* is due first, or leaves at once and was posted first.
LEMMA PairsOrdered ==
  ASSUME TypeOK, NEW t \in Task, t.speed > 0, NEW e \in EventId, NEW f \in EventId,
         NEW hold \in Nat, NEW held \in [1..hold -> Int],
         events[e].tick + hold < events[f].tick, events[e].seq < events[f].seq
  PROVE  Precedes(PairOf(t, e, held), PairOf(t, f, held))
  <1> DEFINE x == Left(t, e, held)
             y == Left(t, f, held)
             dx == Delay(t, e, held)
             dy == Delay(t, f, held)
             p == PairOf(t, e, held)
             q == PairOf(t, f, held)
             readE == Clock(held, ReadAt(e))
             readF == Clock(held, ReadAt(f))
             postE == Clock(held, PostedAt(e))
             postF == Clock(held, PostedAt(f))
  <1>1. /\ events[e].tick \in Nat /\ events[f].tick \in Nat
        /\ events[e].seq \in Nat /\ events[f].seq \in Nat
        /\ t.recordStart \in Nat /\ t.replayStart \in Nat /\ t.speed \in Nat /\ now \in Nat
    BY SessionAssumption DEF TypeOK, Event, Task
  <1>2. /\ ReadAt(e) \in Int /\ ReadAt(f) \in Int /\ ReadAt(e) <= ReadAt(f)
        /\ PostedAt(e) \in Int /\ PostedAt(f) \in Int /\ PostedAt(e) <= PostedAt(f)
    <2>1. events[e].seq \in Int /\ events[f].seq \in Int /\ events[e].seq < events[f].seq
      BY <1>1
    <2> DEFINE seqE == events[e].seq
               seqF == events[f].seq
    <2>2. /\ ReadAt(e) = 2 * seqE - 1 /\ ReadAt(f) = 2 * seqF - 1
          /\ PostedAt(e) = 2 * seqE /\ PostedAt(f) = 2 * seqF
      BY DEF ReadAt, PostedAt
    <2> HIDE DEF seqE, seqF
    <2>3. seqE \in Int /\ seqF \in Int /\ seqE < seqF
      BY <2>1 DEF seqE, seqF
    <2> QED BY <2>2, <2>3
  <1>3. /\ readE \in Nat /\ readF \in Nat /\ now <= readE /\ readF <= now + hold
        /\ postE \in Nat /\ postF \in Nat /\ postE <= postF
    BY <1>2, ClockIs, ClockMoves
  <1>4. /\ x = (events[e].tick - t.recordStart) + t.replayStart - readE
        /\ y = (events[f].tick - t.recordStart) + t.replayStart - readF
    BY DEF Left
  <1>5. /\ dx = IF x < 0 THEN 0 ELSE x * t.speed
        /\ dy = IF y < 0 THEN 0 ELSE y * t.speed
    BY DEF Delay
  <1>6. /\ p.event = e /\ p.due = postE + dx /\ p.batch = batches /\ (p.late <=> dx = 0)
        /\ q.event = f /\ q.due = postF + dy /\ q.batch = batches /\ (q.late <=> dy = 0)
    BY DEF PairOf
  <1> HIDE DEF x, y, dx, dy, p, q, readE, readF, postE, postF
  <1>7. x \in Int /\ y \in Int /\ x < y
    <2>1. readF <= readE + hold
      BY <1>1, <1>3
    <2> DEFINE tickE == events[e].tick
               tickF == events[f].tick
               base  == t.recordStart
               start == t.replayStart
    <2>2. /\ tickE \in Int /\ tickF \in Int /\ tickE + hold < tickF
          /\ base \in Int /\ start \in Int /\ readE \in Int /\ readF \in Int
      BY <1>1, <1>3
    <2>3. x = (tickE - base) + start - readE /\ y = (tickF - base) + start - readF
      BY <1>4
    <2> HIDE DEF tickE, tickF, base, start
    <2>4. x \in Int /\ y \in Int
      BY <2>2, <2>3
    <2>5. x < y
      BY <2>1, <2>2, <2>3, StillLess
    <2> QED BY <2>4, <2>5
  <1>8. CASE x <= 0
    <2>1. dx = 0
      BY <1>1, <1>5, <1>7, <1>8
    <2>2. Precedes(p, q)
      BY <1>6, <2>1 DEF Precedes
    <2> QED BY <2>2 DEF p, q
  <1>9. CASE x > 0
    <2>1. x \in Nat /\ y \in Nat
      BY <1>7, <1>9
    <2>2. 0 * t.speed < x * t.speed /\ x * t.speed \in Nat
      BY <1>1, <1>9, <2>1, Scaled
    <2>3. x * t.speed < y * t.speed /\ y * t.speed \in Nat
      BY <1>1, <1>7, <2>1, Scaled
    <2>4. /\ dx = x * t.speed /\ dy = y * t.speed
      BY <1>5, <2>1
    <2>5. dx \in Nat /\ dy \in Nat /\ 0 < dx /\ dx < dy
      BY <1>1, <2>2, <2>3, <2>4
    <2>6. p.due < q.due
      BY <1>3, <1>6, <2>5
    <2>7. dx # 0 /\ dy # 0
      BY <2>5
    <2>8. Precedes(p, q)
      BY <1>6, <2>6, <2>7 DEF Precedes
    <2> QED BY <2>8 DEF p, q
  <1> QED BY <1>7, <1>8, <1>9

\* The longest hold only grows.
LEMMA RunDelayedLag ==
  ASSUME TypeOK, NEW a \in Agents, NEW b \in Agents, NEW hold \in Nat,
         lag' = [lag EXCEPT ![b] = IF hold > @ THEN hold ELSE @]
  PROVE  /\ lag[a] \in Nat /\ lag'[a] \in Nat /\ lag[a] <= lag'[a]
         /\ a = b => hold <= lag'[a]
  BY DEF TypeOK

LEMMA RunDelayedEarlier ==
  ASSUME TypeOK, RunDelayed, NEW a \in Agents, NEW e \in EventId, NEW f \in EventId,
         Earlier(a, e, f)'
  PROVE  Earlier(a, e, f)
  <1>1. events' = events /\ store' = store
    BY DEF RunDelayed, storeVars
  <1>2. lag[a] \in Nat /\ lag'[a] \in Nat /\ lag[a] <= lag'[a]
    BY RunDelayedPosts, RunDelayedLag DEF HeldUp
  <1>3. events[e].tick \in Nat /\ events[f].tick \in Nat
    BY DEF TypeOK, Event
  <1> QED BY <1>1, <1>2, <1>3 DEF Earlier, WellBefore

LEMMA RunDelayedPairs ==
  ASSUME OnePage, TypeOK, StoreInv, StoreOrdered, TasksWhole, PairsInOrder, RunDelayed
  PROVE  PairsInOrder'
  <1> DEFINE t == Head(tasks)
  <1>1. tasks \in Seq(Task) /\ tasks # <<>>
    BY DEF TypeOK, RunDelayed
  <1>2. /\ t = tasks[1] /\ 1 \in 1..Len(tasks) /\ t.events \subseteq EventId
        /\ t \in Task /\ t.speed > 0 /\ t.agent \in Agents
    BY <1>1, HeadTask, RunDelayedPosts
  <1>3. PICK hold \in Nat : \E held \in [1..hold -> Int] : HeldUp(t, hold, held)
    BY RunDelayedPosts
  <1>4. PICK held \in [1..hold -> Int] :
          /\ lag' = [lag EXCEPT ![t.agent] = IF hold > @ THEN hold ELSE @]
          /\ pairs' = pairs \cup {PairOf(t, e, held) : e \in t.events}
    BY <1>3 DEF HeldUp
  <1>5. UNCHANGED <<events, store, shown, inspState>>
    BY DEF RunDelayed, storeVars, modeVars
  <1>6. \A p \in pairs' : p.agent \in Agents /\ p.event \in EventId
    BY RunDelayedType DEF TypeOK, Pair
  <1> SUFFICES ASSUME NEW p \in pairs', NEW e \in EventId,
                      StillReplaying(p.agent, p.id), Earlier(p.agent, e, p.event)'
               PROVE  \/ Spent(p.agent, e)
                      \/ \E q \in pairs' : /\ q.event = e /\ q.agent = p.agent /\ q.id = p.id
                                           /\ Precedes(q, p)
    BY <1>5 DEF PairsInOrder, StillReplaying, Spent, Visited, Precedes
  <1>7. Earlier(p.agent, e, p.event)
    BY <1>6, RunDelayedEarlier
  <1>8. CASE p \in pairs
    BY <1>4, <1>7, <1>8 DEF PairsInOrder
  <1>9. ASSUME NEW f \in t.events, p = PairOf(t, f, held)
        PROVE  \E q \in pairs' : /\ q.event = e /\ q.agent = p.agent /\ q.id = p.id
                                 /\ Precedes(q, p)
    <2> DEFINE q == PairOf(t, e, held)
    <2>1. /\ p.agent = t.agent /\ p.event = f /\ p.id = inspState[t.agent].stateID
          /\ q.agent = t.agent /\ q.event = e /\ q.id = inspState[t.agent].stateID
      BY <1>9 DEF PairOf
    <2>2. t.events = Range(store)
      BY <1>2, <1>7, <2>1 DEF TasksWhole, Earlier
    <2>3. q \in pairs'
      BY <1>4, <1>7, <2>2 DEF Earlier
    <2>4. events[e].seq < events[f].seq
      BY <1>2, <1>6, <1>7, <2>1, EarlierRead
    <2>5. events[e].tick + hold < events[f].tick
      <3>1. /\ hold <= lag'[t.agent] /\ lag'[t.agent] \in Nat
            /\ events[e].tick \in Nat /\ events[f].tick \in Nat
        BY <1>2, <1>4, RunDelayedLag DEF TypeOK, Event
      <3>2. events[e].tick + lag'[t.agent] < events[f].tick
        BY <1>5, <2>1 DEF Earlier, WellBefore
      <3> QED BY <3>1, <3>2
    <2>6. Precedes(q, p)
      BY <1>2, <1>9, <2>4, <2>5, PairsOrdered
    <2> HIDE DEF q
    <2> QED BY <2>1, <2>3, <2>6
  <1> QED BY <1>4, <1>8, <1>9

\* What each kind of step keeps of the order in which things are shown.
ShowingInv == ShownInOrder /\ PairsInOrder /\ UnshownReady

LEMMA RunDelayedShowing ==
  ASSUME OnePage, TypeOK, StoreInv, OrderInv, RunDelayed
  PROVE  ShowingInv'
  <1>1. UNCHANGED <<events, store, shown, replaying>>
    BY DEF RunDelayed, storeVars, modeVars
  <1>2. ShownInOrder'
    <2> SUFFICES ASSUME NEW a \in Agents, NEW e \in EventId, NEW f \in EventId,
                        replaying'[a], Earlier(a, e, f)', shown'[a][f] > 0
                 PROVE  Spent(a, e)'
      BY DEF ShownInOrder
    <2>1. Earlier(a, e, f)
      BY RunDelayedEarlier
    <2>2. Spent(a, e)
      BY <1>1, <2>1 DEF OrderInv, ShownInOrder
    <2> QED BY <1>1, <2>2 DEF Spent, Visited
  <1>3. UnshownReady'
    BY <1>1 DEF OrderInv, UnshownReady
  <1> QED BY <1>2, <1>3, RunDelayedPairs DEF OrderInv, ShowingInv

LEMMA RunUndelayedShowing ==
  ASSUME OnePage, TypeOK, ModesAgree, StoreInv, OrderInv, RunUndelayed, NEW a \in Agents
  PROVE  ShowingInv'
  <1> DEFINE V == IF replaying[a] THEN {e \in Reached(Head(tasks)) : Visited(e)} ELSE {}
  <1>1. MessageLoop
    BY DEF MessageLoop
  <1>2. Shows(a, V)
    BY UndelayedShows
  <1>3. /\ InfoKept /\ UNCHANGED <<store, lag>>
        /\ replaying'[a] => replaying[a]
        /\ \A id : StillReplaying(a, id)' => StillReplaying(a, id)
    BY <1>1, MessageLoopFrame, ReplayGoesOn DEF RunUndelayed
  <1>4. ASSUME NEW f \in V, NEW e \in EventId, Earlier(a, e, f)
        PROVE  e \in V \/ ~Visited(e)
    BY <1>4, UndelayedInOrder DEF OrderInv
  <1>5. pairs' = pairs
    BY DEF RunUndelayed
  <1> HIDE DEF V
  <1>6. ShownInOrder'
    BY <1>2, <1>3, <1>4, ShowsInOrder DEF OrderInv
  <1>7. PairsInOrder'
    BY <1>2, <1>3, <1>5, ShowsPairs DEF OrderInv
  <1>8. UnshownReady'
    BY <1>2, <1>3, ShowsUnshown DEF OrderInv
  <1> QED BY <1>6, <1>7, <1>8 DEF ShowingInv

LEMMA RunPairInjectShowing ==
  ASSUME OnePage, TypeOK, ModesAgree, StoreInv, OrderInv, NEW p \in pairs, RunPairInject(p)
  PROVE  ShowingInv'
  <1> DEFINE a == p.agent
             V == IF Visited(p.event) THEN {p.event} ELSE {}
  <1>1. MessageLoop /\ a \in Agents /\ StillReplaying(a, p.id) /\ Fires(p)
    BY DEF MessageLoop, RunPairInject, TypeOK, Pair
  <1>2. Shows(a, V)
    BY <1>1, InjectShows
  <1>3. /\ InfoKept /\ UNCHANGED <<store, lag>>
        /\ replaying'[a] => replaying[a]
        /\ \A id : StillReplaying(a, id)' => StillReplaying(a, id)
    BY <1>1, MessageLoopFrame, ReplayGoesOn DEF RunPairInject
  <1>4. ASSUME NEW f \in V, NEW e \in EventId, Earlier(a, e, f)
        PROVE  Spent(a, e)
    <2>1. f = p.event
      OBVIOUS
    <2>2. ~ \E q \in pairs : Precedes(q, p)
      BY <1>1 DEF Fires
    <2> QED BY <1>1, <1>4, <2>1, <2>2 DEF OrderInv, PairsInOrder
  <1>5. pairs' = pairs \ {p} /\ (p.event \in V \/ ~Visited(p.event))
    BY DEF RunPairInject
  <1> HIDE DEF V
  <1>6. ShownInOrder'
    BY <1>1, <1>2, <1>3, <1>4, ShowsInOrder DEF OrderInv
  <1>7. PairsInOrder'
    BY <1>1, <1>2, <1>3, <1>5, ShowsPairs DEF OrderInv
  <1>8. UnshownReady'
    BY <1>1, <1>2, <1>3, ShowsUnshown DEF OrderInv
  <1> QED BY <1>6, <1>7, <1>8 DEF ShowingInv

LEMMA RunPairCancelShowing ==
  ASSUME OnePage, TypeOK, ModesAgree, StoreInv, OrderInv, NEW p \in pairs, RunPairCancel(p)
  PROVE  ShowingInv'
  <1> DEFINE a == p.agent
  <1>1. MessageLoop /\ a \in Agents /\ ~StillReplaying(a, p.id)
    BY DEF MessageLoop, RunPairCancel, TypeOK, Pair
  <1>2. Shows(a, {})
    BY <1>1, CancelShows
  <1>3. /\ InfoKept /\ UNCHANGED <<store, lag>>
        /\ replaying'[a] => replaying[a]
        /\ \A id : StillReplaying(a, id)' => StillReplaying(a, id)
    BY <1>1, MessageLoopFrame, ReplayGoesOn DEF RunPairCancel, histVars
  <1>4. pairs' = pairs \ {p}
    BY DEF RunPairCancel
  <1>5. ShownInOrder'
    BY <1>1, <1>2, <1>3, ShowsInOrder DEF OrderInv
  <1>6. PairsInOrder'
    BY <1>1, <1>2, <1>3, <1>4, ShowsPairs DEF OrderInv
  <1>7. UnshownReady'
    BY <1>1, <1>2, <1>3, ShowsUnshown DEF OrderInv
  <1> QED BY <1>5, <1>6, <1>7 DEF ShowingInv

LEMMA MessageLoopOrder ==
  ASSUME OnePage, TypeOK, ModesAgree, StoreInv, OrderInv, MessageLoop
  PROVE  OrderInv'
  <1>1. InfoKept /\ UNCHANGED <<store, file>> /\ recording' = recording
    BY MessageLoopFrame, MessageLoopRecording
  <1>2. Ordered(file'.events) /\ StoreOrdered'
    BY <1>1, StoreOrderKept DEF OrderInv
  <1>3. TasksWhole'
    <2>1. tasks' = tasks \/ (tasks # <<>> /\ tasks' = Tail(tasks))
      BY DEF MessageLoop, RunDelayed, RunUndelayed, RunPairInject, RunPairCancel
    <2> QED BY <1>1, <2>1, TasksKept DEF OrderInv
  <1>4. ShowingInv'
    <2>1. CASE RunDelayed  BY <2>1, RunDelayedShowing
    <2>2. CASE RunUndelayed
      <3>1. Head(tasks).agent \in Agents
        BY <2>2, HeadTask DEF RunUndelayed
      <3> QED BY <2>2, <3>1, RunUndelayedShowing
    <2>3. ASSUME NEW p \in pairs, RunPairInject(p) PROVE ShowingInv'
      BY <2>3, RunPairInjectShowing
    <2>4. ASSUME NEW p \in pairs, RunPairCancel(p) PROVE ShowingInv'
      BY <2>4, RunPairCancelShowing
    <2> QED BY <2>1, <2>2, <2>3, <2>4 DEF MessageLoop
  <1> QED BY <1>2, <1>3, <1>4 DEF OrderInv, ShowingInv
-----------------------------------------------------------------------------
(***************************************************************************)
(* The other steps.                                                        *)
(***************************************************************************)
\* Nothing is asked of an agent that does not replay.
LEMMA IdleShowing ==
  ASSUME TypeOK', ModesAgree', \A a \in Agents : ~replaying'[a]
  PROVE  ShowingInv'
  <1>1. \A a \in Agents : \A id : ~StillReplaying(a, id)'
    BY DEF ModesAgree, Mirrored, StillReplaying
  <1>2. \A p \in pairs' : p.agent \in Agents
    BY DEF TypeOK, Pair
  <1> QED BY <1>1, <1>2 DEF ShowingInv, ShownInOrder, PairsInOrder, UnshownReady

\* Steps that concern none of this.
LEMMA OrderKept ==
  ASSUME OrderInv, UNCHANGED <<events, store, shown, lag, tasks, pairs, recording, replaying, inspState>>,
         Ordered(file'.events)
  PROVE  OrderInv'
  BY DEF OrderInv, StoreOrdered, TasksWhole, ShownInOrder, PairsInOrder, UnshownReady,
         Earlier, WellBefore, Spent, Visited, Precedes, StillReplaying

LEMMA StartReplayOrder ==
  ASSUME OnePage, TypeOK, ModesAgree, StoreInv, OrderInv, NEW a \in Agents, NEW speed \in Speeds,
         StartReplay(a, speed)
  PROVE  OrderInv'
  <1>1. InfoKept
    BY DEF TypeOK, Event, StartReplay, InfoKept
  <1>2. UNCHANGED <<store, file, pairs>>
    BY DEF StartReplay, otherVars, histVars
  <1>3. \A b \in Agents, e \in EventId : shown'[b][e] = 0
    BY DEF OnePage, TypeOK, StartReplay, NothingShown
  <1>4. inspState'[a].stateID = stateId[a] + 1 /\ stateId[a] \in Nat
    BY DEF TypeOK, StartReplay, SetReplayState
  <1>5. \A p \in pairs : ~StillReplaying(p.agent, p.id)'
    <2> SUFFICES ASSUME NEW p \in pairs PROVE ~StillReplaying(a, p.id)' /\ p.agent = a
      OBVIOUS
    <2>1. p.agent = a /\ p.id \in Int
      BY OnePage DEF OnePage, TypeOK, Pair
    <2>2. p.id <= stateId[a]
      BY <2>1 DEF ModesAgree
    <2> QED BY <1>4, <2>1, <2>2 DEF StillReplaying
  <1>6. UnshownReady'
    <2>1. \A e \in Range(store) : events'[e].state = "Ready"
      BY InStore DEF StartReplay, Event
    <2> QED BY <1>2, <2>1 DEF UnshownReady
  <1>7. ShownInOrder' /\ PairsInOrder'
    BY <1>2, <1>3, <1>5 DEF ShownInOrder, PairsInOrder
  <1>8. StoreOrdered' /\ TasksWhole'
    BY <1>1, <1>2, StoreOrderKept, StartReplayTasks DEF OrderInv
  <1> QED BY <1>2, <1>6, <1>7, <1>8 DEF OrderInv

LEMMA SwapRendererOrder ==
  ASSUME OrderInv, SwapRenderer
  PROVE  OrderInv'
  <1>1. store' = <<>> /\ tasks' = <<>> /\ pairs' = {} /\ file' = file
    BY DEF SwapRenderer
  <1>2. Range(store') = {} /\ 1..Len(tasks') = {}
    BY <1>1 DEF Range
  <1> QED BY <1>1, <1>2 DEF OrderInv, StoreOrdered, TasksWhole, ShownInOrder, PairsInOrder,
                            UnshownReady, Earlier

LEMMA StepOrder ==
  ASSUME OnePage, TypeOK, ModesAgree, StoreInv, ClosedInv, OnceInv, OrderInv, [Next]_vars
  PROVE  OrderInv'
  <1>0. TypeOK' /\ ModesAgree'
    BY StepType, StepModes
  <1>1. ASSUME NEW a \in Agents, Command(a) PROVE OrderInv'
    <2>1. CASE StartRecording(a)
      <3>1. \A b \in Agents : ~replaying'[b]
        BY <2>1, OnePage DEF OnePage, StartRecording, SetRecordingState
      <3>2. file' = file
        BY <2>1 DEF StartRecording, otherVars, histVars
      <3> QED BY <1>0, <2>1, <3>1, <3>2, StartRecordingOrder, IdleShowing DEF OrderInv, ShowingInv
    <2>2. CASE StopRecording(a)
      <3>1. \A b \in Agents : ~replaying'[b]
        BY <2>2, OnePage DEF OnePage, StopRecording, SetRecordingState
      <3>2. /\ recording[a] /\ created < MaxEvents /\ "stop" \in Kinds
            /\ AppendForensicEvent("stop") /\ UNCHANGED <<tasks, file>>
        BY <2>2 DEF StopRecording, loopVars, otherVars, histVars, Kinds
      <3>3. Open
        BY <3>2 DEF ClosedInv
      <3>4. StoreOrdered' /\ TasksWhole'
        BY <3>2, <3>3, AppendOrder DEF OrderInv
      <3> QED BY <1>0, <3>1, <3>2, <3>4, IdleShowing DEF OrderInv, ShowingInv
    <2>3. CASE DumpRecording(a)
      <3>1. Ordered(file'.events)
        BY <2>3, DumpRecordingOrder DEF OrderInv
      <3> QED BY <2>3, <3>1, OrderKept DEF DumpRecording, histVars, modeVars, storeVars, loopVars
    <2>4. CASE LoadRecording(a)
      <3>1. \A b \in Agents : ~replaying'[b]
        BY <2>4, OnePage DEF OnePage, LoadRecording, SetRecordingState, modeVars
      <3>2. file' = file
        BY <2>4 DEF LoadRecording, otherVars, histVars
      <3> QED BY <1>0, <2>4, <3>1, <3>2, LoadRecordingOrder, IdleShowing DEF OrderInv, ShowingInv
    <2>5. CASE LoadIgnored(a)
      <3>1. file' = file
        BY <2>5 DEF LoadIgnored, otherVars, histVars
      <3> QED BY <2>5, <3>1, OrderKept DEF OrderInv, LoadIgnored, histVars, modeVars, storeVars, loopVars
    <2>6. ASSUME NEW speed \in Speeds, StartReplay(a, speed) PROVE OrderInv'
      BY <2>6, StartReplayOrder
    <2>7. CASE StopReplay(a)
      <3>1. EndReplay(a) /\ UNCHANGED <<events, store, file, tasks>>
        BY <2>7 DEF StopReplay, storeVars, loopVars, otherVars, histVars
      <3>2. \A b \in Agents : ~replaying'[b]
        BY <3>1, EndReplayEnds, OnePage DEF OnePage
      <3>3. StoreOrdered' /\ TasksWhole'
        BY <3>1, EndReplayRecording DEF OrderInv, StoreOrdered, TasksWhole
      <3> QED BY <1>0, <3>1, <3>2, <3>3, IdleShowing DEF OrderInv, ShowingInv
    <2> QED BY <1>1, <2>1, <2>2, <2>3, <2>4, <2>5, <2>6, <2>7 DEF Command
  <1>2. ASSUME NEW a \in Agents, NEW k \in UserKinds, HandleUserEvent(a, k) PROVE OrderInv'
    <2>1. /\ recording[a] /\ created < MaxEvents /\ k \in Kinds
          /\ AppendForensicEvent(k) /\ UNCHANGED <<tasks, file, replaying>>
      BY <1>2, SessionAssumption DEF HandleUserEvent, loopVars, otherVars, histVars, modeVars, Kinds
    <2>2. Open
      BY <2>1 DEF ClosedInv
    <2>3. StoreOrdered' /\ TasksWhole'
      BY <2>1, <2>2, AppendOrder DEF OrderInv
    <2>4. \A b \in Agents : ~replaying'[b]
      BY <2>1, OnePage DEF OnePage, ModesAgree
    <2> QED BY <1>0, <2>1, <2>3, <2>4, IdleShowing DEF OrderInv, ShowingInv
  <1>3. CASE MessageLoop  BY <1>3, MessageLoopOrder
  <1>4. CASE Tick
    <2>1. file' = file
      BY <1>4 DEF Tick
    <2> QED BY <1>4, <2>1, OrderKept DEF OrderInv, Tick, histVars, modeVars, storeVars, loopVars
  <1>5. CASE SwapRenderer  BY <1>5, SwapRendererOrder
  <1>6. CASE UNCHANGED vars
    <2>1. file' = file
      BY <1>6 DEF vars, otherVars, histVars
    <2> QED BY <1>6, <2>1, OrderKept DEF OrderInv, vars, histVars, modeVars, storeVars, loopVars
  <1> QED BY <1>1, <1>2, <1>3, <1>4, <1>5, <1>6 DEF Next
-----------------------------------------------------------------------------
(***************************************************************************)
(* What follows for a step that injects an event for the first time.       *)
(***************************************************************************)
LEMMA OnlyTheLoopShows ==
  ASSUME OnePage, TypeOK, [Next]_vars, NEW a \in Agents, NEW f \in EventId, ShownFirst(a, f)
  PROVE  MessageLoop
  <1>1. shown'[a][f] # 0 /\ shown'[a][f] # shown[a][f]
    BY DEF ShownFirst
  <1>2. ASSUME NEW b \in Agents, Command(b) PROVE FALSE
    <2>1. ASSUME NEW speed \in Speeds, StartReplay(b, speed) PROVE FALSE
      BY <1>1, <2>1, OnePage DEF OnePage, TypeOK, StartReplay, NothingShown
    <2>2. CASE UNCHANGED shown  BY <1>1, <2>2
    <2> QED BY <1>2, <2>1, <2>2 DEF Command, StartRecording, StopRecording, DumpRecording,
                                   LoadRecording, LoadIgnored, StopReplay, histVars
  <1>3. ASSUME NEW b \in Agents, NEW k \in UserKinds, HandleUserEvent(b, k) PROVE FALSE
    BY <1>1, <1>3 DEF HandleUserEvent, histVars
  <1>4. ~Tick
    BY <1>1 DEF Tick, histVars
  <1>5. ~SwapRenderer
    BY <1>1 DEF SwapRenderer, NothingShown
  <1>6. ~UNCHANGED vars
    BY <1>1 DEF vars, histVars
  <1> QED BY <1>2, <1>3, <1>4, <1>5, <1>6 DEF Next

\* The step visits it in a replay, with all that was recorded before.
LEMMA FirstShown ==
  ASSUME OnePage, TypeOK, ModesAgree, StoreInv, OrderInv, [Next]_vars,
         NEW a \in Agents, NEW f \in EventId, ShownFirst(a, f)
  PROVE  /\ replaying[a] /\ Visited(f)
         /\ \E V : /\ Shows(a, V) /\ f \in V
                   /\ \A e \in EventId : Earlier(a, e, f) => Spent(a, e) \/ e \in V
  <1>1. MessageLoop /\ shown'[a][f] # shown[a][f]
    BY OnlyTheLoopShows DEF ShownFirst
  <1>2. CASE RunDelayed
    BY <1>1, <1>2 DEF RunDelayed
  <1>3. CASE RunUndelayed
    <2> DEFINE V == IF replaying[a] THEN {e \in Reached(Head(tasks)) : Visited(e)} ELSE {}
    <2>1. Shows(a, V)
      BY <1>3, UndelayedShows
    <2>2. f \in V
      BY <1>1, <2>1 DEF Shows
    <2>3. \A e \in EventId : Earlier(a, e, f) => Spent(a, e) \/ e \in V
      BY <1>3, <2>2, UndelayedInOrder DEF OrderInv, Spent
    <2> QED BY <2>1, <2>2, <2>3
  <1>4. ASSUME NEW p \in pairs, RunPairInject(p)
        PROVE  /\ replaying[a] /\ Visited(f)
               /\ \E V : /\ Shows(a, V) /\ f \in V
                         /\ \A e \in EventId : Earlier(a, e, f) => Spent(a, e) \/ e \in V
    <2> DEFINE V == IF Visited(p.event) THEN {p.event} ELSE {}
    <2>1. Shows(a, V)
      BY <1>4, InjectShows
    <2>2. f \in V /\ f = p.event
      BY <1>1, <2>1 DEF Shows
    <2>3. p.agent = a /\ StillReplaying(a, p.id) /\ ~ \E q \in pairs : Precedes(q, p)
      BY <1>4, OnePage DEF OnePage, TypeOK, Pair, RunPairInject, Fires
    <2>4. replaying[a]
      BY <2>3 DEF StillReplaying, ModesAgree, Mirrored
    <2>5. \A e \in EventId : Earlier(a, e, f) => Spent(a, e)
      BY <2>2, <2>3 DEF OrderInv, PairsInOrder
    <2> QED BY <2>1, <2>2, <2>4, <2>5
  <1>5. ASSUME NEW p \in pairs, RunPairCancel(p) PROVE FALSE
    BY <1>1, <1>5 DEF RunPairCancel, histVars
  <1> QED BY <1>1, <1>2, <1>3, <1>4, <1>5 DEF MessageLoop

LEMMA StepInRecordedOrder ==
  ASSUME OnePage, TypeOK, ModesAgree, StoreInv, OrderInv, [Next]_vars
  PROVE  InRecordedOrder
  <1> SUFFICES ASSUME NEW a \in Agents, NEW e \in Range(store), NEW f \in Range(store),
                      ShownFirst(a, e), WellBefore(a, e, f), shown[a][f] # 0
               PROVE  FALSE
    BY DEF InRecordedOrder
  <1>1. e \in EventId /\ f \in EventId /\ Earlier(a, e, f)
    BY InStore DEF Earlier
  <1>2. shown[a][f] > 0 /\ ~(shown[a][e] > 0)
    BY <1>1 DEF TypeOK, ShownFirst
  <1>3. replaying[a] /\ Visited(e)
    BY <1>1, FirstShown
  <1>4. Spent(a, e)
    BY <1>1, <1>2, <1>3 DEF OrderInv, ShownInOrder
  <1> QED BY <1>2, <1>3, <1>4 DEF Spent

LEMMA StepShownSoFar ==
  ASSUME OnePage, TypeOK, ModesAgree, StoreInv, OrderInv, [Next]_vars
  PROVE  ShownSoFar
  <1> SUFFICES ASSUME NEW a \in Agents, NEW e \in Range(store), NEW f \in Range(store),
                      ShownFirst(a, f), WellBefore(a, e, f),
                      events[e].kind # "recStart"
               PROVE  shown'[a][e] > 0 \/ events'[e].state = "Cancelled"
    BY DEF ShownSoFar
  <1>1. e \in EventId /\ f \in EventId /\ Earlier(a, e, f) /\ shown[a][e] \in Nat
    BY InStore DEF Earlier, TypeOK
  <1>2. replaying[a]
    BY <1>1, FirstShown
  <1>3. PICK V : Shows(a, V) /\ (Spent(a, e) \/ e \in V)
    BY <1>1, FirstShown
  <1>4. CASE e \in V
    BY <1>1, <1>3, <1>4 DEF Shows
  <1>5. CASE e \notin V /\ shown[a][e] > 0
    BY <1>1, <1>3, <1>5 DEF Shows
  <1>6. CASE e \notin V /\ shown[a][e] = 0
    <2>1. ~Visited(e)
      BY <1>3, <1>6 DEF Spent
    <2>2. events[e].state = "Cancelled"
      BY <1>2, <1>6, <2>1 DEF OrderInv, UnshownReady, Visited
    <2> QED BY <1>1, <1>3, <1>6, <2>2 DEF Shows
  <1> QED BY <1>1, <1>4, <1>5, <1>6

\* A file that a client brings is one that a recording left.
FilesAreRecordings == FilesClosed /\ FilesOrdered

AllInv == StoreInv /\ ClosedInv /\ OnceInv /\ OrderInv

LEMMA InitAll ==
  ASSUME FilesAreRecordings, Init
  PROVE  AllInv
  <1>1. file.events # <<>> => file.events[1].kind = "recStart" /\ Closed(file.events)
    BY SessionAssumption, FilesAreRecordings DEF Init, NoFile, FilesAreRecordings, FilesClosed
  <1>2. Ordered(file.events)
    BY FilesAreRecordings DEF Init, NoFile, FilesAreRecordings, FilesOrdered, Ordered
  <1>3. store = <<>> /\ tasks = <<>> /\ pairs = {} /\ Range(store) = {} /\ 1..Len(tasks) = {}
    BY DEF Init, Range
  <1>4. OrderInv
    BY <1>2, <1>3 DEF OrderInv, StoreOrdered, TasksWhole, ShownInOrder, PairsInOrder,
                      UnshownReady, Earlier
  <1>5. StoreInv
    BY <1>1 DEF Init, StoreInv, StoreStartsWithRecStart
  <1>6. ClosedInv
    BY <1>1 DEF Init, ClosedInv, RecordingIsClosed
  <1>7. OnceInv
    BY DEF Init, OnceInv, NothingShown
  <1> QED BY <1>4, <1>5, <1>6, <1>7 DEF AllInv

LEMMA StepAll ==
  ASSUME OnePage, TypeOK, ModesAgree, AllInv, [Next]_vars
  PROVE  AllInv'
  BY StepStore, StepClosed, StepOnce, StepOrder DEF AllInv

\* Replays stopped and begun again, at any speeds, of recordings of any length, by tasks that
\* are held up for any time between any of their looks at the clock: no event is injected for
\* the first time after one that was recorded later by more than a task was held up.
THEOREM FirstInjectionsAlwaysInOrder ==
  ASSUME OnePage, FilesAreRecordings
  PROVE  Spec => FirstInjectionsInOrder
  <1>1. Init => AllInv
    BY FilesAreRecordings, InitAll
  <1>2. TypeOK /\ ModesAgree /\ AllInv /\ [Next]_vars => AllInv'
    BY OnePage, StepAll
  <1>3. TypeOK /\ ModesAgree /\ AllInv /\ [Next]_vars => [InRecordedOrder]_vars
    BY OnePage, StepInRecordedOrder DEF AllInv
  <1> QED BY <1>1, <1>2, <1>3, TypeCorrect, ModesAlwaysAgree, PTL DEF Spec, FirstInjectionsInOrder

\* When a replay gets to an event it has injected all that was recorded before it by more
\* than a task was held up, but for what late pairs of earlier replays cancelled.
THEOREM NothingIsSkipped ==
  ASSUME OnePage, FilesAreRecordings
  PROVE  Spec => NothingSkipped
  <1>1. Init => AllInv
    BY FilesAreRecordings, InitAll
  <1>2. TypeOK /\ ModesAgree /\ AllInv /\ [Next]_vars => AllInv'
    BY OnePage, StepAll
  <1>3. TypeOK /\ ModesAgree /\ AllInv /\ [Next]_vars => [ShownSoFar]_vars
    BY OnePage, StepShownSoFar DEF AllInv
  <1> QED BY <1>1, <1>2, <1>3, TypeCorrect, ModesAlwaysAgree, PTL DEF Spec, NothingSkipped
=============================================================================
