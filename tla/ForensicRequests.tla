-------------------------- MODULE ForensicRequests --------------------------
(***************************************************************************)
(* URL loads while a renderer records and replays: the loaders the         *)
(* platform wrapper hands out (ForensicWebURLLoader), what the recorder    *)
(* assembles from their callbacks (ForensicRequestAssembler), the request  *)
(* and redirect maps of the data store, and the tasks that tell a client   *)
(* what was recorded.                                                      *)
(*                                                                         *)
(* Of the forensics agent only the mode and the state token matter here,   *)
(* those of the agent whose InspectorState the wrapper reads: they change  *)
(* as SessionMode allows, which ForensicSession implements.                *)
(*                                                                         *)
(* There is no clock.  The events of a replayed load up to the response    *)
(* are injected without a delay and so in order; those of data and end are *)
(* delayed to about the recorded instant, which here is some time later,   *)
(* and in no certain order: the two delays are computed from different     *)
(* clock readings and each is cut to whole milliseconds.                   *)
(***************************************************************************)
EXTENDS Integers, Sequences, FiniteSets, SequencesExt

CONSTANTS
  Clients,       \* WebURLLoaderClients, by address
  PageClients,   \* those of the agent's own page; the others are of other pages
  Requests,      \* requests, as WebURLRequestHash tells them apart
  Traces,        \* stack traces a page's requests are made from
  NoTrace,       \* the empty one
  \* bounds of the model
  MaxLoads,      \* loads of one recording, and of one replay
  MaxHops,       \* redirects of one load
  MaxChunks,     \* chunks of data of one load
  MaxToken       \* state token after which nothing is started

ASSUME RequestsAssumption ==
  /\ PageClients \subseteq Clients
  /\ NoTrace \notin Traces
  /\ MaxLoads \in Nat /\ MaxHops \in Nat /\ MaxChunks \in Nat /\ MaxToken \in Nat

\* What a load is answered with: answers are numbered by the loads of a recording;
\* a request that the recording has no answer to is answered with a 204 made up.
None      == 0
NoContent == -1
Answer    == -1..MaxLoads

View  == [hops : Seq(Requests), answer : Answer, chunks : Nat,
          end : {"", "finish", "fail", "cancel"}]
Fresh == [hops |-> <<>>, answer |-> None, chunks |-> 0, end |-> ""]

Item == [what : {"redirect"}, to : Requests]
   \cup [what : {"response"}, answer : Answer]
   \cup [what : {"data"}, chunks : Nat]
   \cup [what : {"finish", "fail"}]

\* The load of a client, from a loader that wraps the platform's (wire) or from one
\* that has the store.  Of the events it was given, plan are still Ready; posted is
\* what its loader has in the message loop; number counts the loads of a recording
\* or replay; like (history) is the recorded load that this one replays.
Load == [first : Requests, via : {"wire", "store"}, sync : BOOLEAN, token : Nat, number : 1..MaxLoads,
         view : View, plan : Seq(Item), posted : {"", "task", "missing", "pairs"}, id : Nat,
         like : Nat]

Trace    == Traces \cup {NoTrace}
Pending  == [request : Requests, trace : Trace, answer : Answer, chunks : Nat]
Entry    == [trace : Trace, answer : Answer, chunks : Nat, failed : BOOLEAN]
Redirect == [trace : Trace, to : Requests]
Logged   == [first : Requests, sync : BOOLEAN, view : View]

VARIABLES
  mode, token,  \* of the agent
  pending,      \* m_pendingMap of the recorder, by client
  requestMap,   \* m_requestMap of the store,
  requestAt,    \*   and how many entries of each value have been replayed
  redirectMap,  \* m_redirectMap
  redirectAt,
  load,         \* the last load of each client that has had one
  started,      \* loads of the recording or replay
  \* history
  log,          \* the loads of a reliable recording, as they ended
  reliable,     \* is it one?
  following,    \* does the replay make the requests that were recorded, in their order?
  handed        \* the answers handed out in the replay

sessionVars == <<mode, token>>
mapVars     == <<requestMap, redirectMap>>
cursorVars  == <<requestAt, redirectAt>>
historyVars == <<log, reliable, following, handed>>
vars == <<sessionVars, pending, mapVars, cursorVars, load, started, historyVars>>

Session == INSTANCE SessionMode WITH NothingShown <- <<>>, shown <- <<>>

NoClient == [c \in {} |-> None]

Init ==
  /\ Session!Init
  /\ pending = NoClient
  /\ requestMap = [r \in Requests |-> <<>>] /\ requestAt = [r \in Requests |-> 0]
  /\ redirectMap = [r \in Requests |-> <<>>] /\ redirectAt = [r \in Requests |-> 0]
  /\ load = NoClient
  /\ started = 0
  /\ log = <<>> /\ reliable = FALSE /\ following = FALSE /\ handed = <<>>
-----------------------------------------------------------------------------
(***************************************************************************)
(* What a client is told.                                                  *)
(***************************************************************************)
Open(c) == c \in DOMAIN load /\ load[c].view.end = ""

Tell(view, item) ==
  CASE item.what = "redirect" -> [view EXCEPT !.hops = Append(@, item.to)]
    [] item.what = "response" -> [view EXCEPT !.answer = item.answer]
    [] item.what = "data"     -> [view EXCEPT !.chunks = @ + item.chunks]
    [] OTHER                  -> [view EXCEPT !.end = item.what]

\* Mutant: a loader that is cancelled leaves its events Ready.
CancelledReady(x) == [x EXCEPT !.view.end = "cancel"]

\* ForensicWebURLLoader::cancel(): its events that are Ready are not told any more.
Cancelled(x) == [x EXCEPT !.view.end = "cancel", !.plan = <<>>, !.posted = ""]

\* A client that was told the end lets go of its loader by cancelling it, too.
Told(x, item) ==
  IF item.what \in {"finish", "fail"}
  THEN [x EXCEPT !.view = Tell(@, item), !.plan = <<>>, !.posted = ""]
  ELSE [x EXCEPT !.view = Tell(@, item)]

\* A client may cancel in the midst of a callback: that is, right after it.
Cancel(c) ==
  /\ Open(c)
  /\ load' = [load EXCEPT ![c] = Cancelled(@)]
  /\ UNCHANGED <<sessionVars, pending, mapVars, cursorVars, started, historyVars>>
-----------------------------------------------------------------------------
(***************************************************************************)
(* The agent's mode.                                                       *)
(***************************************************************************)
ReloadPage ==
  load' = [c \in DOMAIN load |->
    IF Open(c) /\ c \in PageClients THEN Cancelled(load[c]) ELSE load[c]]

BeginLog == log' = <<>> /\ reliable' = TRUE /\ following' = FALSE /\ handed' = <<>>

\* The recorder is cleared.  The page is then reloaded, which stops its own loads.
StartRecording ==
  /\ token < MaxToken
  /\ Session!StartRecording
  /\ pending' = NoClient
  /\ requestMap' = [r \in Requests |-> <<>>] /\ requestAt' = [r \in Requests |-> 0]
  /\ redirectMap' = [r \in Requests |-> <<>>] /\ redirectAt' = [r \in Requests |-> 0]
  /\ ReloadPage
  /\ started' = 0
  /\ BeginLog

Visits(x) == <<x.first>> \o x.view.hops

\* A request is either redirected or answered, but not the one today and the other
\* tomorrow.
Consistent ==
  \A j, k \in DOMAIN log : \A i \in 1..Len(log[j].view.hops) :
    Visits(log[j])[i] # Last(Visits(log[k]))

\* A recording is reliable when it has one load at a time, each to its end.
EndLog ==
  LET good == reliable /\ Len(log) = started /\ Consistent IN
  /\ reliable' = good
  /\ log' = IF good THEN log ELSE <<>>
  /\ UNCHANGED <<following, handed>>

StopRecording ==
  /\ Session!StopRecording
  /\ EndLog
  /\ UNCHANGED <<pending, mapVars, cursorVars, load, started>>

\* Mutant: the cursors of the redirects are not reset.
StartReplayMidway ==
  /\ token \in 1..MaxToken - 1
  /\ Session!StartReplay
  /\ requestAt' = [r \in Requests |-> 0]
  /\ started' = 0 /\ following' = reliable /\ handed' = <<>>
  /\ UNCHANGED <<pending, mapVars, redirectAt, load, log, reliable>>

\* There is something to replay once there has been a recording.
StartReplay ==
  /\ token \in 1..MaxToken - 1
  /\ Session!StartReplay
  /\ requestAt' = [r \in Requests |-> 0]
  /\ redirectAt' = [r \in Requests |-> 0]
  /\ started' = 0 /\ following' = reliable /\ handed' = <<>>
  /\ UNCHANGED <<pending, mapVars, load, log, reliable>>

StopReplay ==
  /\ Session!StopReplay
  /\ UNCHANGED <<pending, mapVars, cursorVars, load, started, historyVars>>
-----------------------------------------------------------------------------
(***************************************************************************)
(* Starting a load.  A platform that neither records nor replays hands out *)
(* its own loaders, of which nothing is known here.                        *)
(***************************************************************************)
MayLoad(c) == started < MaxLoads /\ ~Open(c)

NewLoad(r, via, sync, like) ==
  [first |-> r, via |-> via, sync |-> sync, token |-> token, number |-> started + 1,
   view |-> Fresh, plan |-> <<>>, posted |-> "", id |-> 0, like |-> like]

Begin(c, x) ==
  /\ load' = [d \in DOMAIN load \cup {c} |-> IF d = c THEN x ELSE load[d]]
  /\ started' = started + 1

\* A load that begins while another is under way makes a recording unreliable.
LogBegin == /\ reliable' = (reliable /\ \A d \in DOMAIN load : ~Open(d))
            /\ log' = IF reliable' THEN log ELSE <<>>
            /\ UNCHANGED <<following, handed>>

LogEnd(x) == /\ log' = IF reliable THEN Append(log, [first |-> x.first, sync |-> x.sync, view |-> x.view])
                       ELSE <<>>
             /\ UNCHANGED <<reliable, following, handed>>

\* Mutant: an entry that is there already is kept (HashMap::add).
InitPendingRequestOnce(c, entry) ==
  pending' = [d \in DOMAIN pending \cup {c} |-> IF d \in DOMAIN pending THEN pending[d] ELSE entry]

\* Clients are known by their address: an entry that a cancelled load left behind
\* is replaced.
InitPendingRequest(c, entry) ==
  pending' = [d \in DOMAIN pending \cup {c} |-> IF d = c THEN entry ELSE pending[d]]

LoadRecording(c, r, trace) ==
  /\ mode = "recording" /\ MayLoad(c)
  /\ InitPendingRequest(c, [request |-> r, trace |-> trace, answer |-> None, chunks |-> 0])
  /\ Begin(c, NewLoad(r, "wire", FALSE, 0))
  /\ LogBegin
  /\ UNCHANGED <<sessionVars, mapVars, cursorVars>>

Current(map, at, r) == IF at[r] < Len(map[r]) THEN {map[r][at[r] + 1]} ELSE {}

\* findMatchingRequest: a request the recording does not know may stand for one that
\* was made from the same place.  The closest in time is taken, and only if its map
\* has come to it: here, none or any that its map has come to.
MadeFrom(trace, map, at) == {r \in Requests : \E e \in Current(map, at, r) : e.trace = trace}

Matching(trace) == MadeFrom(trace, requestMap, requestAt) \cup MadeFrom(trace, redirectMap, redirectAt)

\* With the mask for requests that were answered, one that was redirected is taken
\* nevertheless when no other was made from there: the search starts with it.
MatchingTerminal(trace) ==
  IF \E r \in Requests : \E e \in ToSet(requestMap[r]) : e.trace = trace
  THEN MadeFrom(trace, requestMap, requestAt)
  ELSE MadeFrom(trace, redirectMap, redirectAt)

Recognised(r, trace, known, matches) ==
  IF known \/ trace = NoTrace THEN {r} ELSE {r} \cup matches

\* createRedirectEvents: the redirects recorded next, from one request to the next.
Hop(s) ==
  IF s.at[s.request] < Len(redirectMap[s.request])
  THEN LET to == redirectMap[s.request][s.at[s.request] + 1].to IN
       [request |-> to, at |-> [s.at EXCEPT ![s.request] = @ + 1], hops |-> Append(s.hops, to)]
  ELSE s

Chain(r) ==
  LET chain[n \in 0..MaxLoads * MaxHops] ==
        IF n = 0 THEN [request |-> r, at |-> redirectAt, hops |-> <<>>] ELSE Hop(chain[n - 1])
  IN chain[MaxLoads * MaxHops]

\* Mutant: the entry is looked at and left (current() for next()).
NextRequestEntryKept(r) == UNCHANGED requestAt

NextRequestEntry(r) ==
  requestAt' = [requestAt EXCEPT ![r] = IF @ < Len(requestMap[r]) THEN @ + 1 ELSE @]

Redirects(hops) == [i \in DOMAIN hops |-> [what |-> "redirect", to |-> hops[i]]]

Missing == <<[what |-> "response", answer |-> NoContent], [what |-> "finish"]>>

\* Mutant: a load without data has no end.
ServedWithoutEnd(e) ==
  IF e.failed THEN <<[what |-> "fail"]>>
  ELSE <<[what |-> "response", answer |-> e.answer]>>
       \o (IF e.chunks > 0 THEN <<[what |-> "data", chunks |-> e.chunks], [what |-> "finish"]>> ELSE <<>>)

Served(e) ==
  IF e.failed THEN <<[what |-> "fail"]>>
  ELSE <<[what |-> "response", answer |-> e.answer]>>
       \o (IF e.chunks > 0 THEN <<[what |-> "data", chunks |-> e.chunks]>> ELSE <<>>)
       \o <<[what |-> "finish"]>>

Like(r, sync) ==
  IF /\ following /\ started + 1 \in DOMAIN log
     /\ log[started + 1].first = r /\ log[started + 1].sync = sync
  THEN started + 1
  ELSE 0

Hand(found, like) ==
  /\ handed' = handed \o [i \in 1..Cardinality(found) |-> (CHOOSE e \in found : TRUE).answer]
  /\ following' = (like > 0)
  /\ UNCHANGED <<log, reliable>>

LoadReplay(c, r, trace) ==
  /\ mode = "replaying" /\ MayLoad(c)
  /\ \E r0 \in Recognised(r, trace, requestMap[r] # <<>> \/ redirectMap[r] # <<>>, Matching(trace)) :
       LET chain == Chain(r0)
           found == Current(requestMap, requestAt, chain.request)
           rest  == IF found = {} THEN Missing ELSE Served(CHOOSE e \in found : TRUE)
       IN /\ redirectAt' = chain.at
          /\ NextRequestEntry(chain.request)
          /\ Begin(c, [NewLoad(r, "store", FALSE, Like(r, FALSE)) EXCEPT
                         !.plan = Redirects(chain.hops) \o rest,
                         !.posted = IF found = {} THEN "missing" ELSE "task"])
          /\ Hand(found, Like(r, FALSE))
  /\ UNCHANGED <<sessionVars, pending, mapVars>>
-----------------------------------------------------------------------------
(***************************************************************************)
(* Synchronous loads: started and ended in one step.                       *)
(***************************************************************************)
Added(r, entry) == requestMap' = [requestMap EXCEPT ![r] = Append(@, entry)]

End(failed) == IF failed THEN "fail" ELSE "finish"

Answered(x, e) == [x EXCEPT !.view = [hops |-> <<>>, answer |-> e.answer, chunks |-> e.chunks,
                                      end |-> End(e.failed)]]

\* syncRequestFinished
SyncRecording(c, r, trace) ==
  /\ mode = "recording" /\ MayLoad(c)
  /\ \E chunks \in 0..MaxChunks, failed \in BOOLEAN :
       LET e == [trace |-> trace, answer |-> started + 1, chunks |-> chunks, failed |-> failed]
           x == Answered(NewLoad(r, "wire", TRUE, 0), e)
       IN /\ Added(r, e)
          /\ Begin(c, x)
          /\ IF \E d \in DOMAIN load : Open(d)
             THEN log' = <<>> /\ reliable' = FALSE /\ UNCHANGED <<following, handed>>
             ELSE LogEnd(x)
  /\ UNCHANGED <<sessionVars, pending, redirectMap, cursorVars>>

\* The redirects are not looked at.
SyncReplay(c, r, trace) ==
  /\ mode = "replaying" /\ MayLoad(c)
  /\ \E r0 \in Recognised(r, trace, requestMap[r] # <<>>, MatchingTerminal(trace)) :
       LET found == Current(requestMap, requestAt, r0)
           new   == NewLoad(r, "store", TRUE, Like(r, TRUE))
       IN /\ requestMap[r0] # <<>> => found # {}    \* ASSERT(entry)
          /\ NextRequestEntry(r0)
          /\ Begin(c, IF found = {} THEN [new EXCEPT !.view = [@ EXCEPT !.answer = NoContent, !.end = "finish"]]
                      ELSE Answered(new, CHOOSE e \in found : TRUE))
          /\ Hand(found, Like(r, TRUE))
  /\ UNCHANGED <<sessionVars, pending, mapVars, redirectAt>>
-----------------------------------------------------------------------------
(***************************************************************************)
(* A recorded load: the callbacks of the platform's loader are passed on,  *)
(* and told to the recorder first when the agent records at that moment.   *)
(* The recorder asserts that it knows the client.                          *)
(***************************************************************************)
OnWire(c) == Open(c) /\ load[c].via = "wire"
Known(c)  == c \in DOMAIN pending

Tells(c, item) == load' = [load EXCEPT ![c] = Told(@, item)]

Unrecorded == mode # "recording" /\ UNCHANGED <<pending, mapVars>>

SetPending(c, p) == pending' = [pending EXCEPT ![c] = p]

AddPendingRedirect(c, r) ==
  /\ redirectMap' = [redirectMap EXCEPT ![pending[c].request] =
                       Append(@, [trace |-> pending[c].trace, to |-> r])]
  /\ SetPending(c, [pending[c] EXCEPT !.request = r, !.trace = NoTrace])
  /\ UNCHANGED requestMap

WillSendRequest(c, r) ==
  /\ OnWire(c) /\ load[c].view.answer = None /\ Len(load[c].view.hops) < MaxHops
  /\ Tells(c, [what |-> "redirect", to |-> r])
  /\ Unrecorded \/ (mode = "recording" /\ Known(c) /\ AddPendingRedirect(c, r))
  /\ UNCHANGED <<sessionVars, cursorVars, started, historyVars>>

DidReceiveResponse(c) ==
  /\ OnWire(c) /\ load[c].view.answer = None
  /\ Tells(c, [what |-> "response", answer |-> load[c].number])
  /\ \/ Unrecorded
     \/ /\ mode = "recording" /\ Known(c)
        /\ SetPending(c, [pending[c] EXCEPT !.answer = load[c].number])
        /\ UNCHANGED mapVars
  /\ UNCHANGED <<sessionVars, cursorVars, started, historyVars>>

DidReceiveData(c) ==
  /\ OnWire(c) /\ load[c].view.answer # None /\ load[c].view.chunks < MaxChunks
  /\ Tells(c, [what |-> "data", chunks |-> 1])
  /\ \/ Unrecorded
     \/ /\ mode = "recording" /\ Known(c)
        /\ SetPending(c, [pending[c] EXCEPT !.chunks = @ + 1])
        /\ UNCHANGED mapVars
  /\ UNCHANGED <<sessionVars, cursorVars, started, historyVars>>

\* addFinishedRequest, and nothing is pending any more.
PendingRequestEnded(c, failed) ==
  /\ Added(pending[c].request, [trace |-> pending[c].trace, answer |-> pending[c].answer,
                                chunks |-> pending[c].chunks, failed |-> failed])
  /\ pending' = [d \in DOMAIN pending \ {c} |-> pending[d]]
  /\ UNCHANGED redirectMap

\* didFinishLoading, didFail
DidEnd(c, failed) ==
  /\ OnWire(c) /\ (failed \/ load[c].view.answer # None)
  /\ Tells(c, [what |-> End(failed)])
  /\ \/ Unrecorded /\ UNCHANGED historyVars
     \/ mode = "recording" /\ Known(c) /\ PendingRequestEnded(c, failed) /\ LogEnd(load'[c])
  /\ UNCHANGED <<sessionVars, cursorVars, started>>
-----------------------------------------------------------------------------
(***************************************************************************)
(* A replayed load: the task that was posted with its events, and their    *)
(* pairs.                                                                  *)
(***************************************************************************)
loopUnchanged == UNCHANGED <<sessionVars, pending, mapVars, cursorVars, started, historyVars>>

RunTask(c) ==
  /\ load[c].posted = "task"
  /\ load' = [load EXCEPT ![c].posted = "pairs", ![c].id = token]
  /\ loopUnchanged

\* What a client knows after the first n of the events.
Telling(view, plan) ==
  LET known[n \in 0..Len(plan)] == IF n = 0 THEN view ELSE Tell(known[n - 1], plan[n])
  IN known

\* The task for a missing request ignores the agent's state and tells everything
\* at once, or all until the client cancels.
RunMissing(c) ==
  /\ load[c].posted = "missing"
  /\ \E n \in DOMAIN load[c].plan :
       LET view == Telling(load[c].view, load[c].plan)[n]
           told == [load[c] EXCEPT !.view = view, !.plan = <<>>, !.posted = ""]
       IN load' = [load EXCEPT ![c] = IF n = Len(load[c].plan) THEN told ELSE Cancelled(told)]
  /\ loopUnchanged

Delayed(item) == item.what \in {"data", "finish"}

Fires(c, i) ==
  /\ load[c].posted = "pairs" /\ i \in DOMAIN load[c].plan
  /\ \A j \in 1..i - 1 : Delayed(load[c].plan[j]) /\ Delayed(load[c].plan[i])

Replaying(id) == mode = "replaying" /\ token = id

Without(x, i) == [x EXCEPT !.plan = RemoveAt(@, i)]

RunPairInject(c, i) ==
  /\ Fires(c, i) /\ Replaying(load[c].id)
  /\ load' = [load EXCEPT ![c] = Told(Without(@, i), @.plan[i])]
  /\ loopUnchanged

\* Pairs do not ignore the agent's state, although their task was told to.
RunPairCancel(c, i) ==
  /\ Fires(c, i) /\ ~Replaying(load[c].id)
  /\ load' = [load EXCEPT ![c] = Without(@, i)]
  /\ loopUnchanged
-----------------------------------------------------------------------------
Mode == \/ StartRecording \/ StopRecording
        \/ StartReplay \/ StopReplay

StartLoad(c, r, trace) ==
  \/ LoadRecording(c, r, trace) \/ LoadReplay(c, r, trace)
  \/ SyncRecording(c, r, trace) \/ SyncReplay(c, r, trace)

Network(c) ==
  \/ \E r \in Requests : WillSendRequest(c, r)
  \/ DidReceiveResponse(c)
  \/ DidReceiveData(c)
  \/ \E failed \in BOOLEAN : DidEnd(c, failed)

MessageLoop(c) ==
  \/ RunTask(c)
  \/ RunMissing(c)
  \/ \E i \in DOMAIN load[c].plan : RunPairInject(c, i) \/ RunPairCancel(c, i)

Next ==
  \/ Mode
  \/ \E c \in Clients, r \in Requests, trace \in Trace : StartLoad(c, r, trace)
  \/ \E c \in DOMAIN load : Cancel(c) \/ Network(c) \/ MessageLoop(c)

Spec == Init /\ [][Next]_vars

\* The message loop runs what is posted to it; neither the network nor the page
\* nor the user has to do anything.
Fairness == \A c \in Clients : WF_vars(c \in DOMAIN load /\ MessageLoop(c))

FairSpec == Spec /\ Fairness
-----------------------------------------------------------------------------
(***************************************************************************)
(* Safety.                                                                 *)
(***************************************************************************)
\* The values of the state; no cursor of the store is behind the last entry of its
\* request (nextRequestEntry, nextRedirectPair).
TypeOK ==
  /\ mode \in {"idle", "recording", "replaying"} /\ token \in Nat
  /\ DOMAIN pending \subseteq Clients /\ pending \in [DOMAIN pending -> Pending]
  /\ requestMap \in [Requests -> Seq(Entry)] /\ requestAt \in [Requests -> Nat]
  /\ redirectMap \in [Requests -> Seq(Redirect)] /\ redirectAt \in [Requests -> Nat]
  /\ \A r \in Requests : /\ requestAt[r] <= Len(requestMap[r])
                         /\ redirectAt[r] <= Len(redirectMap[r])
  /\ DOMAIN load \subseteq Clients /\ load \in [DOMAIN load -> Load]
  /\ started \in 0..MaxLoads
  /\ log \in Seq(Logged) /\ reliable \in BOOLEAN /\ following \in BOOLEAN
  /\ handed \in Seq(Answer)

\* What is pending for a client is what that client has been told of its load:
\* an entry left behind by an earlier load of the same address is never taken
\* for it.
PendingIsWhatWasTold ==
  mode = "recording" =>
    \A c \in DOMAIN load :
      OnWire(c) /\ load[c].token = token =>
        /\ Known(c)
        /\ pending[c].request = Last(Visits(load[c]))
        /\ pending[c].answer = load[c].view.answer
        /\ pending[c].chunks = load[c].view.chunks

\* A page that makes the requests of a reliable recording in their order is led to
\* the same places and told the same (nextRedirectPair, nextRequestEntry), in every
\* replay, whatever replays were broken off before and whichever loads overlap now.
FaithfulReplay ==
  mode = "replaying" =>
    \A c \in DOMAIN load : load[c].token = token /\ load[c].like > 0 =>
      LET was == log[load[c].like].view
          is  == load[c].view
      IN /\ IsPrefix(is.hops, was.hops)
         /\ is.answer \in {None, was.answer}
         /\ is.chunks \in {0, was.chunks}
         /\ is.end \in {"finish", "fail"} => is.end = was.end /\ is.hops = was.hops

\* No answer is served twice in a replay, also not to a request that was only
\* recognised by its stack trace.
AnswersServedOnce ==
  \A j, k \in DOMAIN handed : handed[j] = handed[k] /\ handed[j] # None => j = k

\* ASSERT(m_pendingMap.contains(client)): a callback that is recorded finds its
\* client's entry.
PendingPresent == mode = "recording" => \A c \in DOMAIN load : OnWire(c) => Known(c)

\* "take no account of InspectorForensicsAgent state": an event that was planned is
\* told to the client, unless the client is no longer there.
LoadsIgnoreAgentState ==
  [][\A c \in DOMAIN load :
       Open(c) /\ load'[c].plan # load[c].plan => load'[c].view # load[c].view]_vars

\* A load served from a recording ends, unless its replay does before.
ReplayedLoadsEnd ==
  \A c \in Clients :
    (Open(c) /\ load[c].via = "store" /\ Replaying(load[c].token))
      ~> ~(Open(c) /\ load[c].via = "store" /\ Replaying(load[c].token))
-----------------------------------------------------------------------------
(***************************************************************************)
(* Whatever a client is told is what a client of a loader may be told; a   *)
(* synchronous load has no client to tell.                                 *)
(***************************************************************************)
ViewOf(c) == IF c \in DOMAIN load /\ ~load[c].sync THEN load[c].view ELSE [Fresh EXCEPT !.end = "cancel"]

P(c) == INSTANCE LoadProtocol WITH view <- ViewOf(c)

KeepsProtocol ==
  /\ \A c \in Clients : P(c)!Init
  /\ [][\A c \in Clients : [P(c)!Next]_(ViewOf(c))]_vars
=============================================================================
