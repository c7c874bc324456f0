------------------------------ MODULE ReplayData ------------------------------
(***************************************************************************)
(* What Blink asks the platform for a page, recorded and replayed by key:  *)
(* the clipboard (ForensicWebClipboard), dialogs, visited links, random    *)
(* bytes, the user agent, the locale and sizes of memory                   *)
(* (ForensicPlatformWrapper), kept by ForensicReplayDataStore in one list  *)
(* of answers for each key.  The calls differ in what a replay does when   *)
(* the list is missing or used up: their policy.                           *)
(***************************************************************************)
EXTENDS Integers, Sequences

CONSTANTS
  Calls,       \* calls of the platform, with their arguments
  Policy,      \* what a replay does with each call
  CallSets,    \* the sets of calls a page may make
  Answers,     \* what the platform may answer
  Outputs,     \* what a call may leave in its output parameters,
  Untouched,   \*   among them what the caller put there
  \* bounds of the model
  MaxAsks,     \* times a recorded page makes one call
  MaxSessions  \* recordings and replays begun

Policies == {"asserted",  \* the list and the answer are asserted to be there
             "outputs",   \* so they are, and output parameters are part of the key
             "default",   \* no list: 0 or false; used up: the last answer
             "latest",    \* no answer left: the last one, which must exist
             "locale",    \* no answer left: the last one, or the platform's
             "filled",    \* no list: the caller's buffer stays as it is
             "unreplayed"} \* recorded, and answered with 0 in a replay

ASSUME DataAssumption ==
  /\ Policy \in [Calls -> Policies]
  /\ CallSets \subseteq SUBSET Calls
  /\ Answers \subseteq Nat \ {0}
  /\ Untouched \in Outputs
  /\ MaxAsks \in Nat /\ MaxSessions \in Nat

Aborted  == -1  \* an assertion failed, or a null pointer was followed
Unfilled == -2  \* what happened to be in the caller's buffer
Replies  == Answers \cup {0, Aborted, Unfilled}

VARIABLES
  wrapperMode, \* what the wrapper reads from the agent's InspectorState
  pageCalls,   \* the calls the page makes
  lists,       \* the store: per key the answers, and how many were replayed
  saved,       \* what the devtools client has dumped
  sessions,    \* recordings and replays begun (bounded by MaxSessions)
  answered,    \* history: the replies to each call of the recorded page
  filled,      \* history: calls of it that changed their output parameters
  told         \* history: the replies in the current replay

dataVars == <<wrapperMode, pageCalls, lists, saved, sessions, answered, filled, told>>

\* The key of a call: its arguments and, for some, its output parameters.
Slot(c, o) == IF Policy[c] = "outputs" THEN <<c, o>> ELSE <<c, Untouched>>
Slots      == Calls \X Outputs
NoLists    == [s \in {} |-> <<>>]
NoReplies  == [c \in Calls |-> <<>>]
NothingSaved == [lists |-> NoLists, answered |-> NoReplies, filled |-> {}]

Entry == [vals : Seq(Answers) \ {<<>>}, index : Nat]

IsStore(f) ==
  /\ DOMAIN f \subseteq Slots /\ f = [s \in DOMAIN f |-> f[s]]
  /\ \A s \in DOMAIN f : f[s] \in Entry /\ f[s].index <= Len(f[s].vals)

DataTypeOK ==
  /\ wrapperMode \in {"off", "recording", "replaying"}
  /\ pageCalls \in CallSets
  /\ IsStore(lists) /\ IsStore(saved.lists)
  /\ sessions \in 0..MaxSessions
  /\ answered \in [Calls -> Seq(Answers)] /\ saved.answered \in [Calls -> Seq(Answers)]
  /\ filled \subseteq Calls /\ saved.filled \subseteq Calls
  /\ told \in [Calls -> Seq(Replies)]
-----------------------------------------------------------------------------
\* append...: the answer joins the list of its key.
append(s, v) ==
  [t \in DOMAIN lists \cup {s} |->
     IF t # s THEN lists[t]
     ELSE IF s \in DOMAIN lists THEN [lists[s] EXCEPT !.vals = Append(@, v)]
     ELSE [vals |-> <<v>>, index |-> 0]]

HasNext(s) == s \in DOMAIN lists /\ lists[s].index < Len(lists[s].vals)
Next_(s)   == lists[s].vals[lists[s].index + 1]
last(s)    == lists[s].vals[Len(lists[s].vals)]

\* next() moves the list's index on, if there is an answer left.
Take(s) == IF HasNext(s) THEN [lists EXCEPT ![s].index = @ + 1] ELSE lists

\* The reply to c when its list has no answer left; real is the platform's.
Exhausted(c, s, real) ==
  CASE Policy[c] \in {"asserted", "outputs"} -> Aborted
    [] Policy[c] = "default" -> IF s \in DOMAIN lists THEN last(s) ELSE 0
    [] Policy[c] = "latest"  -> IF s \in DOMAIN lists THEN last(s) ELSE Aborted
    [] Policy[c] = "locale"  -> IF s \in DOMAIN lists THEN last(s) ELSE real
    [] Policy[c] = "filled"  -> IF s \in DOMAIN lists THEN Aborted ELSE Unfilled
    [] Policy[c] = "unreplayed" -> 0

Reply(c, s, real) ==
  IF HasNext(s) /\ Policy[c] # "unreplayed" THEN Next_(s) ELSE Exhausted(c, s, real)

\* Mutant: what is left of an earlier recording is kept, in other lists too.
ClearFew == [s \in {t \in DOMAIN lists : Policy[t[1]] \in {"locale", "default"}} |-> lists[s]]

\* ForensicReplayDataStore::clear, which leaves m_defaultLocaleVals alone.
Clear == [s \in {t \in DOMAIN lists : Policy[t[1]] = "locale"} |-> lists[s]]

\* Mutant: the indices are kept.
ResetNone == lists

Reset == [s \in DOMAIN lists |-> [lists[s] EXCEPT !.index = 0]]
-----------------------------------------------------------------------------
\* The platform answers v and leaves o in the output parameters; both are recorded.
Recorded(c, v, o) ==
  /\ wrapperMode = "recording" /\ c \in pageCalls
  /\ Len(answered[c]) < MaxAsks
  /\ lists' = append(Slot(c, o), v)
  /\ answered' = [answered EXCEPT ![c] = Append(@, v)]
  /\ filled' = IF o = Untouched THEN filled ELSE filled \cup {c}
  /\ UNCHANGED <<wrapperMode, pageCalls, saved, sessions, told>>

\* A replayed call is looked up under the output parameters as the caller passes
\* them.  Having been aborted, the page makes no further call.
Replayed(c, real) ==
  LET s == Slot(c, Untouched)
  IN /\ wrapperMode = "replaying" /\ c \in pageCalls
     /\ \A d \in Calls : Len(told[d]) > 0 => told[d][Len(told[d])] # Aborted
     /\ Len(told[c]) <= Len(answered[c])
     /\ told' = [told EXCEPT ![c] = Append(@, Reply(c, s, real))]
     /\ lists' = IF Policy[c] = "unreplayed" THEN lists ELSE Take(s)
     /\ UNCHANGED <<wrapperMode, pageCalls, saved, sessions, answered, filled>>

StartRecordingAnswers ==
  /\ wrapperMode # "replaying" /\ sessions < MaxSessions
  /\ wrapperMode' = "recording" /\ sessions' = sessions + 1
  /\ lists' = Clear
  /\ answered' = NoReplies /\ filled' = {}
  /\ UNCHANGED <<pageCalls, saved, told>>

StartReplayingAnswers ==
  /\ wrapperMode = "off" /\ sessions < MaxSessions
  /\ wrapperMode' = "replaying" /\ sessions' = sessions + 1
  /\ lists' = Reset
  /\ told' = NoReplies
  /\ UNCHANGED <<pageCalls, saved, answered, filled>>

Stop ==
  /\ wrapperMode # "off"
  /\ wrapperMode' = "off"
  /\ told' = NoReplies
  /\ UNCHANGED <<pageCalls, lists, saved, sessions, answered, filled>>

\* Only the answers are written: a copy from the file starts over.
Copy == [s \in DOMAIN lists |-> [lists[s] EXCEPT !.index = 0]]

Dump ==
  /\ wrapperMode = "off"
  /\ saved' = [lists |-> Copy, answered |-> answered, filled |-> filled]
  /\ UNCHANGED <<wrapperMode, pageCalls, lists, sessions, answered, filled, told>>

\* Each list and map of the store is emptied before it is read from the file.
Load ==
  /\ wrapperMode = "off"
  /\ lists' = saved.lists
  /\ answered' = saved.answered /\ filled' = saved.filled
  /\ UNCHANGED <<wrapperMode, pageCalls, saved, sessions, told>>

DataInit ==
  /\ wrapperMode = "off" /\ pageCalls \in CallSets
  /\ lists = NoLists /\ saved = NothingSaved
  /\ sessions = 0
  /\ answered = NoReplies /\ filled = {} /\ told = NoReplies

DataNext ==
  \/ \E c \in Calls, v \in Answers :
       \/ \E o \in Outputs : Recorded(c, v, o)
       \/ Replayed(c, v)
  \/ StartRecordingAnswers \/ StartReplayingAnswers \/ Stop \/ Dump \/ Load

DataSpec == DataInit /\ [][DataNext]_dataVars
-----------------------------------------------------------------------------
\* A replayed page that makes a call as often as the recorded page did is told what
\* that page was told, through stops, dumps, loads and further recordings.  Not so
\* for sizes of memory, which are not replayed, for the locale, whose list outlives
\* clear(), and where output parameters hide the answer from its key.
ReadsAreFaithful ==
  wrapperMode = "replaying" =>
    \A c \in Calls : \A k \in DOMAIN told[c] \cap DOMAIN answered[c] :
      Policy[c] \notin {"unreplayed", "locale"} /\ c \notin filled =>
        told[c][k] = answered[c][k]

\* A replay is aborted only where the page makes a call more often than the recorded
\* page did, or where the recorded call changed its output parameters.
AbortsOnlyOnExcess ==
  \A c \in Calls : \A k \in DOMAIN told[c] :
    told[c][k] = Aborted => k > Len(answered[c]) \/ c \in filled
=============================================================================
