--------------------------- MODULE RequestsProofs ---------------------------
(***************************************************************************)
(* What is proved of ForensicRequests for any clients, requests and        *)
(* traces, and any number of loads, redirects and chunks: the recorder's   *)
(* pending entries are those of the loads under way; the values of the     *)
(* state; no answer is served twice; what a client is told keeps to        *)
(* LoadProtocol.  FaithfulReplayProofs goes on from here.                  *)
(*                                                                         *)
(* Chain and Telling are recursive functions: what they do is shown by     *)
(* Induction and Recursion of NumberLemmas.                                *)
(***************************************************************************)
EXTENDS ForensicRequests, NumberLemmas

IsLoad(x) ==
  x \in [first : {x.first}, via : {x.via}, sync : {x.sync}, token : {x.token},
         number : {x.number}, view : {x.view}, plan : {x.plan}, posted : {x.posted},
         id : {x.id}, like : {x.like}]

IsView(v) == v \in [hops : {v.hops}, answer : {v.answer}, chunks : {v.chunks}, end : {v.end}]

IsPending(p) == p \in [request : {p.request}, trace : {p.trace}, answer : {p.answer},
                       chunks : {p.chunks}]

\* A load over the network has nothing in the message loop, and its token has been
\* given.
Wire(x, t) ==
  x.via = "wire" =>
    /\ x.posted = ""
    /\ x.first \in Requests
    /\ IsView(x.view) /\ x.view.hops \in Seq(Requests)
    /\ x.token \in Nat /\ x.token <= t

\* The entry p is that of the load x.
Mirrors(p, x) ==
  /\ p.request = Last(Visits(x))
  /\ p.answer = x.view.answer
  /\ p.chunks = x.view.chunks

PendingInv ==
  /\ token \in Nat
  /\ \A c \in DOMAIN load : IsLoad(load[c]) /\ Wire(load[c], token)
  /\ \A c \in DOMAIN pending : IsPending(pending[c])
  /\ PendingIsWhatWasTold

\* x is a load that the recording under way has begun and not seen the end of.
Recorded(x) == mode = "recording" /\ x.via = "wire" /\ x.view.end = "" /\ x.token = token

LEMMA RecordedMirrors ==
  ASSUME PendingInv, NEW c \in DOMAIN load, Recorded(load[c])
  PROVE  Known(c) /\ Mirrors(pending[c], load[c])
  BY DEF PendingInv, PendingIsWhatWasTold, Recorded, OnWire, Open, Known, Mirrors

\* One client's load, perhaps a new one, becomes x; the others and their entries
\* stay.
LEMMA OneLoadChanges ==
  ASSUME PendingInv, NEW c, NEW x, UNCHANGED sessionVars,
         DOMAIN load' = DOMAIN load \cup {c}, load'[c] = x,
         \A d \in DOMAIN load \ {c} : load'[d] = load[d],
         IsLoad(x), Wire(x, token),
         \A d \in DOMAIN pending \ {c} : d \in DOMAIN pending' /\ pending'[d] = pending[d],
         \A d \in DOMAIN pending' : IsPending(pending'[d]),
         Recorded(x) => c \in DOMAIN pending' /\ Mirrors(pending'[c], x)
  PROVE  PendingInv'
  <1>1. mode' = mode /\ token' = token
    BY DEF sessionVars
  <1>2. ASSUME NEW d \in DOMAIN load' PROVE IsLoad(load'[d]) /\ Wire(load'[d], token')
    BY <1>1, <1>2 DEF PendingInv
  <1>3. ASSUME mode' = "recording", NEW d \in DOMAIN load',
               load'[d].view.end = "", load'[d].via = "wire", load'[d].token = token'
        PROVE  d \in DOMAIN pending' /\ Mirrors(pending'[d], load'[d])
    <2>1. CASE d = c
      BY <1>1, <1>3, <2>1 DEF Recorded
    <2>2. CASE d # c
      <3>1. d \in DOMAIN load /\ load'[d] = load[d]
        BY <1>3, <2>2
      <3>2. Recorded(load[d])
        BY <1>1, <1>3, <3>1 DEF Recorded
      <3>3. d \in DOMAIN pending /\ Mirrors(pending[d], load[d])
        BY <3>1, <3>2, RecordedMirrors DEF Known
      <3> QED BY <2>2, <3>1, <3>3
    <2> QED BY <2>1, <2>2
  <1>4. PendingIsWhatWasTold'
    BY <1>3 DEF PendingIsWhatWasTold, OnWire, Open, Known, Mirrors, Visits
  <1> QED BY <1>1, <1>2, <1>4 DEF PendingInv

\* A step that touches neither the recorder nor the mode and leaves the client's
\* load ended, or from the store.
LEMMA UnrecordedLoad ==
  ASSUME PendingInv, NEW c, NEW x, UNCHANGED sessionVars, UNCHANGED pending,
         DOMAIN load' = DOMAIN load \cup {c}, load'[c] = x,
         \A d \in DOMAIN load \ {c} : load'[d] = load[d],
         IsLoad(x), Wire(x, token), ~Recorded(x)
  PROVE  PendingInv'
  BY OneLoadChanges DEF PendingInv

LEMMA CancelledLoad ==
  ASSUME NEW x, NEW t, IsLoad(x), Wire(x, t)
  PROVE  /\ IsLoad(Cancelled(x)) /\ Wire(Cancelled(x), t)
         /\ Cancelled(x).via = x.via
         /\ x.via = "wire" => Cancelled(x).view.end = "cancel"
  <1>1. /\ Cancelled(x).first = x.first /\ Cancelled(x).via = x.via
        /\ Cancelled(x).token = x.token /\ Cancelled(x).posted = ""
    BY DEF IsLoad, Cancelled
  <1>2. IsLoad(Cancelled(x))
    BY DEF IsLoad, Cancelled
  <1>3. IsView(x.view) => /\ IsView(Cancelled(x).view)
                          /\ Cancelled(x).view.hops = x.view.hops
                          /\ Cancelled(x).view.end = "cancel"
    BY DEF IsLoad, IsView, Cancelled
  <1> QED BY <1>1, <1>2, <1>3 DEF Wire

LEMMA ToldLoad ==
  ASSUME NEW x, NEW item, IsLoad(x)
  PROVE  /\ IsLoad(Told(x, item)) /\ Told(x, item).via = x.via
         /\ Told(x, item).first = x.first /\ Told(x, item).token = x.token
         /\ Told(x, item).view = Tell(x.view, item)
         /\ x.posted = "" => Told(x, item).posted = ""
  <1>1. CASE item.what \in {"finish", "fail"}  BY <1>1 DEF IsLoad, Told
  <1>2. CASE item.what \notin {"finish", "fail"}  BY <1>2 DEF IsLoad, Told
  <1> QED BY <1>1, <1>2

\* What a callback does to what a client knows.
LEMMA ToldView ==
  ASSUME NEW v, IsView(v), NEW item,
         v.hops \in Seq(Requests), item.what = "redirect" => item.to \in Requests
  PROVE  /\ IsView(Tell(v, item)) /\ Tell(v, item).hops \in Seq(Requests)
         /\ item.what = "redirect" =>
              /\ Tell(v, item).hops = Append(v.hops, item.to)
              /\ Tell(v, item).answer = v.answer /\ Tell(v, item).chunks = v.chunks
         /\ item.what = "response" =>
              /\ Tell(v, item).hops = v.hops
              /\ Tell(v, item).answer = item.answer /\ Tell(v, item).chunks = v.chunks
         /\ item.what = "data" =>
              /\ Tell(v, item).hops = v.hops
              /\ Tell(v, item).answer = v.answer /\ Tell(v, item).chunks = v.chunks + item.chunks
         /\ item.what \in {"finish", "fail"} => Tell(v, item).end = item.what
  <1>1. CASE item.what = "redirect"
    <2>1. Tell(v, item) = [v EXCEPT !.hops = Append(@, item.to)]
      BY <1>1 DEF Tell
    <2> QED BY <1>1, <2>1 DEF IsView
  <1>2. CASE item.what = "response"
    <2>1. Tell(v, item) = [v EXCEPT !.answer = item.answer]
      BY <1>2 DEF Tell
    <2> QED BY <1>2, <2>1 DEF IsView
  <1>3. CASE item.what = "data"
    <2>1. Tell(v, item) = [v EXCEPT !.chunks = @ + item.chunks]
      BY <1>3 DEF Tell
    <2> QED BY <1>3, <2>1 DEF IsView
  <1>4. CASE item.what \notin {"redirect", "response", "data"}
    <2>1. Tell(v, item) = [v EXCEPT !.end = item.what]
      BY <1>4 DEF Tell
    <2> QED BY <1>4, <2>1 DEF IsView
  <1> QED BY <1>1, <1>2, <1>3, <1>4

LEMMA ToldWire ==
  ASSUME NEW x, NEW t, IsLoad(x), Wire(x, t), x.via = "wire",
         NEW item, item.what = "redirect" => item.to \in Requests
  PROVE  Wire(Told(x, item), t)
  <1>1. IsView(x.view) /\ x.view.hops \in Seq(Requests)
    BY DEF Wire
  <1>2. IsView(Tell(x.view, item)) /\ Tell(x.view, item).hops \in Seq(Requests)
    BY <1>1, ToldView
  <1> QED BY <1>2, ToldLoad DEF Wire

\* A load is cancelled, or told something the recorder does not hear.
LEMMA CancelPending ==
  ASSUME PendingInv, NEW c \in DOMAIN load, UNCHANGED sessionVars, UNCHANGED pending,
         load' = [load EXCEPT ![c] = Cancelled(@)]
  PROVE  PendingInv'
  <1>1. IsLoad(load[c]) /\ Wire(load[c], token)
    BY DEF PendingInv
  <1>2. /\ IsLoad(Cancelled(load[c])) /\ Wire(Cancelled(load[c]), token)
        /\ ~Recorded(Cancelled(load[c]))
    BY <1>1, CancelledLoad DEF Recorded
  <1> QED BY <1>2, UnrecordedLoad

LEMMA NextToken ==
  ASSUME NEW x, NEW t \in Nat, Wire(x, t)
  PROVE  Wire(x, t + 1) /\ (x.via = "wire" => x.token # t + 1)
  <1>1. \A k \in Nat : k <= t => k <= t + 1 /\ k # t + 1
    OBVIOUS
  <1> QED BY <1>1, Zenon DEF Wire

\* A mode's change takes a token that no load has yet, or ends the recording.
LEMMA ModePending ==
  ASSUME PendingInv, Mode
  PROVE  PendingInv'
  <1>1. token \in Nat /\ token' = token + 1
    BY DEF PendingInv, Mode, StartRecording, StopRecording, StartReplay, StopReplay,
           Session!StartRecording, Session!StopRecording, Session!StartReplay,
           Session!StopReplay
  <1>2. /\ DOMAIN load' = DOMAIN load
        /\ \A c \in DOMAIN load : load'[c] \in {load[c], Cancelled(load[c])}
    BY DEF Mode, StartRecording, StopRecording, StartReplay, StopReplay, ReloadPage
  <1>3. pending' \in {pending, NoClient}
    BY DEF Mode, StartRecording, StopRecording, StartReplay, StopReplay
  <1>4. ASSUME NEW c \in DOMAIN load PROVE IsLoad(load'[c]) /\ Wire(load'[c], token)
    BY <1>2, CancelledLoad DEF PendingInv
  <1>5. ASSUME NEW c \in DOMAIN load
        PROVE  Wire(load'[c], token') /\ (load'[c].via = "wire" => load'[c].token # token')
    BY <1>1, <1>4, NextToken
  <1>6. \A c \in DOMAIN pending' : IsPending(pending'[c])
    BY <1>3 DEF PendingInv, NoClient
  <1>7. PendingIsWhatWasTold'
    BY <1>2, <1>5 DEF PendingIsWhatWasTold, OnWire
  <1> QED BY <1>1, <1>2, <1>4, <1>5, <1>6, <1>7 DEF PendingInv
-----------------------------------------------------------------------------
LEMMA NewLoadIsLoad ==
  ASSUME PendingInv, NEW r \in Requests, NEW via, NEW sync, NEW like
  PROVE  /\ IsLoad(NewLoad(r, via, sync, like)) /\ Wire(NewLoad(r, via, sync, like), token)
         /\ NewLoad(r, via, sync, like).via = via
         /\ NewLoad(r, via, sync, like).view = Fresh
  <1> DEFINE x == NewLoad(r, via, sync, like)
  <1>1. /\ x.via = via /\ x.view = Fresh /\ x.posted = "" /\ x.first = r /\ x.token = token
        /\ IsLoad(x)
    BY DEF NewLoad, IsLoad
  <1>2. IsView(Fresh) /\ Fresh.hops \in Seq(Requests)
    BY DEF IsView, Fresh
  <1>3. token \in Nat /\ token <= token
    BY DEF PendingInv
  <1> HIDE DEF x
  <1>4. Wire(x, token)
    BY <1>1, <1>2, <1>3, Zenon DEF Wire
  <1> QED BY <1>1, <1>4 DEF x

LEMMA BeginsOne ==
  ASSUME NEW c, NEW x, Begin(c, x)
  PROVE  /\ DOMAIN load' = DOMAIN load \cup {c} /\ load'[c] = x
         /\ \A d \in DOMAIN load \ {c} : load'[d] = load[d]
  BY DEF Begin

LEMMA LastVisit ==
  ASSUME NEW f \in Requests
  PROVE  /\ Last(<<f>> \o <<>>) = f
         /\ \A h \in Seq(Requests), r \in Requests : Last(<<f>> \o Append(h, r)) = r
  <1>1. <<f>> \o <<>> = <<f>>
    OBVIOUS
  <1>2. Last(<<f>>) = f
    BY DEF Last
  <1>3. ASSUME NEW h \in Seq(Requests), NEW r \in Requests
        PROVE  Last(<<f>> \o Append(h, r)) = r
    <2>1. <<f>> \in Seq(Requests) /\ Append(h, r) \in Seq(Requests)
      OBVIOUS
    <2>2. /\ Len(<<f>> \o Append(h, r)) = Len(h) + 2
          /\ (<<f>> \o Append(h, r))[Len(h) + 2] = r
      BY <2>1
    <2> QED BY <2>2 DEF Last
  <1> QED BY <1>1, <1>2, <1>3

LEMMA LoadRecordingPending ==
  ASSUME PendingInv, NEW c \in Clients, NEW r \in Requests, NEW trace \in Trace,
         LoadRecording(c, r, trace)
  PROVE  PendingInv'
  <1> DEFINE x == NewLoad(r, "wire", FALSE, 0)
             p == [request |-> r, trace |-> trace, answer |-> None, chunks |-> 0]
  <1>1. IsLoad(x) /\ Wire(x, token) /\ Begin(c, x) /\ UNCHANGED sessionVars
    BY NewLoadIsLoad DEF LoadRecording
  <1>2. /\ DOMAIN pending' = DOMAIN pending \cup {c} /\ pending'[c] = p
        /\ \A d \in DOMAIN pending \ {c} : pending'[d] = pending[d]
    BY DEF LoadRecording, InitPendingRequest
  <1>3. IsPending(p)
    BY DEF IsPending
  <1>4. \A d \in DOMAIN pending' : IsPending(pending'[d])
    BY <1>2, <1>3 DEF PendingInv
  <1>5. Mirrors(p, x)
    <2>1. x.first = r /\ x.view.hops = <<>>
      BY DEF NewLoad, Fresh
    <2>2. Last(Visits(x)) = r
      BY <2>1, LastVisit DEF Visits
    <2> QED BY <2>2 DEF Mirrors, NewLoad, Fresh
  <1> HIDE DEF x, p
  <1> QED BY <1>1, <1>2, <1>4, <1>5, BeginsOne, OneLoadChanges

LEMMA StoreLoadPending ==
  ASSUME PendingInv, NEW c \in Clients, NEW r \in Requests, NEW trace \in Trace,
         LoadReplay(c, r, trace) \/ SyncReplay(c, r, trace)
  PROVE  PendingInv'
  <1>1. PICK x : Begin(c, x) /\ IsLoad(x) /\ x.via = "store"
    <2>1. CASE LoadReplay(c, r, trace)
      <3>1. PICK plan, posted :
              Begin(c, [NewLoad(r, "store", FALSE, Like(r, FALSE)) EXCEPT
                          !.plan = plan, !.posted = posted])
        BY <2>1 DEF LoadReplay
      <3>2. [NewLoad(r, "store", FALSE, Like(r, FALSE)) EXCEPT !.plan = plan, !.posted = posted].via
              = "store"
        BY DEF NewLoad
      <3>3. IsLoad([NewLoad(r, "store", FALSE, Like(r, FALSE)) EXCEPT
                      !.plan = plan, !.posted = posted])
        BY DEF NewLoad, IsLoad
      <3> QED BY <3>1, <3>2, <3>3
    <2>2. CASE SyncReplay(c, r, trace)
      <3>1. PICK view : Begin(c, [NewLoad(r, "store", TRUE, Like(r, TRUE)) EXCEPT !.view = view])
        BY <2>2 DEF SyncReplay, Answered
      <3>2. [NewLoad(r, "store", TRUE, Like(r, TRUE)) EXCEPT !.view = view].via = "store"
        BY DEF NewLoad
      <3>3. IsLoad([NewLoad(r, "store", TRUE, Like(r, TRUE)) EXCEPT !.view = view])
        BY DEF NewLoad, IsLoad
      <3> QED BY <3>1, <3>2, <3>3
    <2> QED BY <2>1, <2>2
  <1>2. Wire(x, token) /\ ~Recorded(x)
    BY <1>1 DEF Wire, Recorded
  <1>3. UNCHANGED sessionVars /\ UNCHANGED pending
    BY DEF LoadReplay, SyncReplay
  <1> QED BY <1>1, <1>2, <1>3, BeginsOne, UnrecordedLoad

LEMMA SyncRecordingPending ==
  ASSUME PendingInv, NEW c \in Clients, NEW r \in Requests, NEW trace \in Trace,
         SyncRecording(c, r, trace)
  PROVE  PendingInv'
  <1> DEFINE new == NewLoad(r, "wire", TRUE, 0)
  <1>1. PICK e : Begin(c, Answered(new, e))
    BY DEF SyncRecording
  <1>2. IsLoad(new) /\ new.first = r /\ new.token = token /\ new.posted = ""
    BY DEF NewLoad, IsLoad
  <1> HIDE DEF new
  <1> DEFINE x == Answered(new, e)
             v == [hops |-> <<>>, answer |-> e.answer, chunks |-> e.chunks, end |-> End(e.failed)]
  <1>3. /\ IsLoad(x) /\ x.first = r /\ x.token = token /\ x.posted = "" /\ x.view = v
    BY <1>2 DEF Answered, IsLoad
  <1>4. IsView(v) /\ v.hops = <<>> /\ v.end # ""
    BY DEF IsView, End
  <1>5. token \in Nat /\ token <= token /\ <<>> \in Seq(Requests)
    BY DEF PendingInv
  <1> HIDE DEF x, v
  <1>6. Wire(x, token) /\ ~Recorded(x)
    BY <1>3, <1>4, <1>5, Zenon DEF Wire, Recorded
  <1>7. UNCHANGED sessionVars /\ UNCHANGED pending /\ Begin(c, x)
    BY <1>1 DEF SyncRecording, x
  <1> QED BY <1>3, <1>6, <1>7, BeginsOne, UnrecordedLoad
-----------------------------------------------------------------------------
\* A load over the network is told something, and its entry still mirrors it.
LEMMA TellsPending ==
  ASSUME PendingInv, NEW c \in DOMAIN load, OnWire(c), UNCHANGED sessionVars,
         NEW item, item.what = "redirect" => item.to \in Requests, Tells(c, item),
         \A d \in DOMAIN pending \ {c} : d \in DOMAIN pending' /\ pending'[d] = pending[d],
         \A d \in DOMAIN pending' : IsPending(pending'[d]),
         Recorded(load[c]) /\ Tell(load[c].view, item).end = "" =>
           /\ c \in DOMAIN pending'
           /\ pending'[c].request = Last(<<load[c].first>> \o Tell(load[c].view, item).hops)
           /\ pending'[c].answer = Tell(load[c].view, item).answer
           /\ pending'[c].chunks = Tell(load[c].view, item).chunks
  PROVE  PendingInv'
  <1> DEFINE x == Told(load[c], item)
  <1>1. IsLoad(load[c]) /\ Wire(load[c], token) /\ load[c].via = "wire" /\ load[c].view.end = ""
    BY DEF PendingInv, OnWire, Open
  <1>2. IsLoad(x) /\ Wire(x, token)
    BY <1>1, ToldLoad, ToldWire
  <1>3. /\ x.via = load[c].via /\ x.first = load[c].first /\ x.token = load[c].token
        /\ x.view = Tell(load[c].view, item)
    BY <1>1, ToldLoad
  <1>4. DOMAIN load' = DOMAIN load \cup {c} /\ load'[c] = x
        /\ \A d \in DOMAIN load \ {c} : load'[d] = load[d]
    BY DEF Tells
  <1> HIDE DEF x
  <1>5. Recorded(x) => c \in DOMAIN pending' /\ Mirrors(pending'[c], x)
    BY <1>1, <1>3 DEF Recorded, Mirrors, Visits
  <1> QED BY <1>2, <1>4, <1>5, OneLoadChanges

\* The recorder does not hear of it.
LEMMA UnrecordedPending ==
  ASSUME PendingInv, NEW c \in DOMAIN load, OnWire(c), UNCHANGED sessionVars,
         NEW item, item.what = "redirect" => item.to \in Requests, Tells(c, item), Unrecorded
  PROVE  PendingInv'
  BY TellsPending DEF PendingInv, Unrecorded, Recorded

\* The recorder changes the client's entry.
LEMMA SetPendingKeeps ==
  ASSUME PendingInv, NEW c, Known(c), NEW p, IsPending(p), SetPending(c, p)
  PROVE  /\ \A d \in DOMAIN pending \ {c} : d \in DOMAIN pending' /\ pending'[d] = pending[d]
         /\ \A d \in DOMAIN pending' : IsPending(pending'[d])
         /\ c \in DOMAIN pending' /\ pending'[c] = p
  BY DEF PendingInv, Known, SetPending

LEMMA WireView ==
  ASSUME PendingInv, NEW c \in DOMAIN load, OnWire(c)
  PROVE  IsView(load[c].view) /\ load[c].view.hops \in Seq(Requests) /\ load[c].first \in Requests
  BY DEF PendingInv, OnWire, Wire

LEMMA WillSendRequestPending ==
  ASSUME PendingInv, NEW c \in DOMAIN load, NEW r \in Requests, WillSendRequest(c, r)
  PROVE  PendingInv'
  <1> DEFINE item == [what |-> "redirect", to |-> r]
             p == [pending[c] EXCEPT !.request = r, !.trace = NoTrace]
  <1>1. OnWire(c) /\ Tells(c, item) /\ UNCHANGED sessionVars
    BY DEF WillSendRequest
  <1>2. CASE Unrecorded  BY <1>1, <1>2, UnrecordedPending
  <1>3. CASE mode = "recording" /\ Known(c) /\ AddPendingRedirect(c, r)
    <2>1. IsPending(pending[c]) /\ SetPending(c, p)
      BY <1>3 DEF PendingInv, Known, AddPendingRedirect
    <2>2. /\ IsPending(p) /\ p.request = r
          /\ p.answer = pending[c].answer /\ p.chunks = pending[c].chunks
      BY <2>1 DEF IsPending
    <2> HIDE DEF p
    <2>3. /\ Tell(load[c].view, item).hops = Append(load[c].view.hops, r)
          /\ Tell(load[c].view, item).answer = load[c].view.answer
          /\ Tell(load[c].view, item).chunks = load[c].view.chunks
      BY <1>1, WireView, ToldView
    <2>4. Last(<<load[c].first>> \o Append(load[c].view.hops, r)) = r
      BY <1>1, WireView, LastVisit
    <2>5. Recorded(load[c]) => Mirrors(pending[c], load[c])
      BY RecordedMirrors
    <2>6. /\ \A d \in DOMAIN pending \ {c} : d \in DOMAIN pending' /\ pending'[d] = pending[d]
          /\ \A d \in DOMAIN pending' : IsPending(pending'[d])
          /\ c \in DOMAIN pending' /\ pending'[c] = p
      BY <1>3, <2>1, <2>2, SetPendingKeeps
    <2>7. item.what = "redirect" => item.to \in Requests
      OBVIOUS
    <2> HIDE DEF item
    <2> QED BY <1>1, <2>2, <2>3, <2>4, <2>5, <2>6, <2>7, TellsPending DEF Mirrors
  <1> QED BY <1>2, <1>3 DEF WillSendRequest

LEMMA DidReceiveResponsePending ==
  ASSUME PendingInv, NEW c \in DOMAIN load, DidReceiveResponse(c)
  PROVE  PendingInv'
  <1> DEFINE n == load[c].number
             item == [what |-> "response", answer |-> n]
             p == [pending[c] EXCEPT !.answer = n]
  <1>1. OnWire(c) /\ Tells(c, item) /\ UNCHANGED sessionVars
    BY DEF DidReceiveResponse
  <1>2. CASE Unrecorded  BY <1>1, <1>2, UnrecordedPending
  <1>3. CASE mode = "recording" /\ Known(c) /\ SetPending(c, p)
    <2>1. IsPending(pending[c])
      BY <1>3 DEF PendingInv, Known
    <2>2. /\ IsPending(p) /\ p.request = pending[c].request
          /\ p.answer = n /\ p.chunks = pending[c].chunks
      BY <2>1 DEF IsPending
    <2> HIDE DEF p
    <2>3. /\ Tell(load[c].view, item).hops = load[c].view.hops
          /\ Tell(load[c].view, item).answer = n
          /\ Tell(load[c].view, item).chunks = load[c].view.chunks
      BY <1>1, WireView, ToldView
    <2>4. Recorded(load[c]) => Mirrors(pending[c], load[c])
      BY RecordedMirrors
    <2>5. /\ \A d \in DOMAIN pending \ {c} : d \in DOMAIN pending' /\ pending'[d] = pending[d]
          /\ \A d \in DOMAIN pending' : IsPending(pending'[d])
          /\ c \in DOMAIN pending' /\ pending'[c] = p
      BY <1>3, <2>2, SetPendingKeeps
    <2>6. item.what = "redirect" => item.to \in Requests
      OBVIOUS
    <2> HIDE DEF item
    <2> QED BY <1>1, <2>2, <2>3, <2>4, <2>5, <2>6, TellsPending DEF Mirrors, Visits
  <1> QED BY <1>2, <1>3 DEF DidReceiveResponse

LEMMA DidReceiveDataPending ==
  ASSUME PendingInv, NEW c \in DOMAIN load, DidReceiveData(c)
  PROVE  PendingInv'
  <1> DEFINE item == [what |-> "data", chunks |-> 1]
             p == [pending[c] EXCEPT !.chunks = @ + 1]
  <1>1. OnWire(c) /\ Tells(c, item) /\ UNCHANGED sessionVars
    BY DEF DidReceiveData
  <1>2. CASE Unrecorded  BY <1>1, <1>2, UnrecordedPending
  <1>3. CASE mode = "recording" /\ Known(c) /\ SetPending(c, p)
    <2>1. IsPending(pending[c])
      BY <1>3 DEF PendingInv, Known
    <2>2. /\ IsPending(p) /\ p.request = pending[c].request
          /\ p.answer = pending[c].answer /\ p.chunks = pending[c].chunks + 1
      BY <2>1 DEF IsPending
    <2> HIDE DEF p
    <2>3. /\ Tell(load[c].view, item).hops = load[c].view.hops
          /\ Tell(load[c].view, item).answer = load[c].view.answer
          /\ Tell(load[c].view, item).chunks = load[c].view.chunks + 1
      BY <1>1, WireView, ToldView
    <2>4. Recorded(load[c]) => Mirrors(pending[c], load[c])
      BY RecordedMirrors
    <2>5. /\ \A d \in DOMAIN pending \ {c} : d \in DOMAIN pending' /\ pending'[d] = pending[d]
          /\ \A d \in DOMAIN pending' : IsPending(pending'[d])
          /\ c \in DOMAIN pending' /\ pending'[c] = p
      BY <1>3, <2>2, SetPendingKeeps
    <2>6. item.what = "redirect" => item.to \in Requests
      OBVIOUS
    <2> HIDE DEF item
    <2> QED BY <1>1, <2>2, <2>3, <2>4, <2>5, <2>6, TellsPending DEF Mirrors, Visits
  <1> QED BY <1>2, <1>3 DEF DidReceiveData

LEMMA DidEndPending ==
  ASSUME PendingInv, NEW c \in DOMAIN load, NEW failed \in BOOLEAN, DidEnd(c, failed)
  PROVE  PendingInv'
  <1> DEFINE item == [what |-> End(failed)]
  <1>1. OnWire(c) /\ Tells(c, item) /\ UNCHANGED sessionVars
    BY DEF DidEnd
  <1>2. item.what \in {"finish", "fail"}
    BY DEF End
  <1>3. CASE Unrecorded  BY <1>1, <1>2, <1>3, UnrecordedPending
  <1>4. CASE PendingRequestEnded(c, failed)
    <2>1. pending' = [d \in DOMAIN pending \ {c} |-> pending[d]]
      BY <1>4 DEF PendingRequestEnded
    <2>2. Tell(load[c].view, item).end # ""
      BY <1>1, <1>2, WireView, ToldView
    <2>3. \A d \in DOMAIN pending \ {c} : d \in DOMAIN pending' /\ pending'[d] = pending[d]
      BY <2>1
    <2>4. \A d \in DOMAIN pending' : IsPending(pending'[d])
      BY <2>1 DEF PendingInv
    <2> QED BY <1>1, <1>2, <2>2, <2>3, <2>4, TellsPending
  <1> QED BY <1>3, <1>4 DEF DidEnd
-----------------------------------------------------------------------------
\* What the message loop runs is of loads from the store.
LEMMA MessageLoopPending ==
  ASSUME PendingInv, NEW c \in DOMAIN load, MessageLoop(c)
  PROVE  PendingInv'
  <1>1. IsLoad(load[c]) /\ Wire(load[c], token)
    BY DEF PendingInv
  <1>2. load[c].posted # ""
    BY DEF MessageLoop, RunTask, RunMissing, RunPairInject, RunPairCancel, Fires
  <1>3. load[c].via # "wire"
    BY <1>1, <1>2 DEF Wire
  <1>4. UNCHANGED sessionVars /\ UNCHANGED pending
    BY DEF MessageLoop, RunTask, RunMissing, RunPairInject, RunPairCancel, loopUnchanged
  <1>5. ASSUME NEW x, IsLoad(x), x.via = load[c].via, load' = [load EXCEPT ![c] = x]
        PROVE  PendingInv'
    <2>1. Wire(x, token) /\ ~Recorded(x)
      BY <1>3, <1>5 DEF Wire, Recorded
    <2> QED BY <1>4, <1>5, <2>1, UnrecordedLoad
  <1>6. ASSUME NEW i PROVE IsLoad(Without(load[c], i)) /\ Without(load[c], i).via = load[c].via
    BY <1>1 DEF IsLoad, Without
  <1>7. CASE RunTask(c)
    <2> DEFINE x == [load[c] EXCEPT !.posted = "pairs", !.id = token]
    <2>1. IsLoad(x) /\ x.via = load[c].via
      BY <1>1 DEF IsLoad
    <2>2. load' = [load EXCEPT ![c] = x]
      BY <1>7 DEF RunTask
    <2> QED BY <1>5, <2>1, <2>2
  <1>8. CASE RunMissing(c)
    <2> DEFINE told(v) == [load[c] EXCEPT !.view = v, !.plan = <<>>, !.posted = ""]
    <2>1. PICK v : \/ load' = [load EXCEPT ![c] = told(v)]
                   \/ load' = [load EXCEPT ![c] = Cancelled(told(v))]
      BY <1>8 DEF RunMissing
    <2>2. IsLoad(told(v)) /\ told(v).via = load[c].via
      BY <1>1 DEF IsLoad
    <2>3. Wire(told(v), token)
      BY <1>3, <2>2 DEF Wire
    <2>4. IsLoad(Cancelled(told(v))) /\ Cancelled(told(v)).via = load[c].via
      BY <2>2, <2>3, CancelledLoad
    <2> QED BY <1>5, <2>1, <2>2, <2>4
  <1>9. ASSUME NEW i, RunPairInject(c, i) PROVE PendingInv'
    <2> DEFINE x == Told(Without(load[c], i), load[c].plan[i])
    <2>1. IsLoad(Without(load[c], i)) /\ Without(load[c], i).via = load[c].via
      BY <1>6
    <2>2. IsLoad(x) /\ x.via = load[c].via
      BY <2>1, ToldLoad, Zenon
    <2>3. load' = [load EXCEPT ![c] = x]
      BY <1>9 DEF RunPairInject
    <2> QED BY <1>5, <2>2, <2>3
  <1>10. ASSUME NEW i, RunPairCancel(c, i) PROVE PendingInv'
    BY <1>5, <1>6, <1>10 DEF RunPairCancel
  <1> QED BY <1>7, <1>8, <1>9, <1>10 DEF MessageLoop

LEMMA StepPending == PendingInv /\ [Next]_vars => PendingInv'
  <1> SUFFICES ASSUME PendingInv, [Next]_vars PROVE PendingInv'
    OBVIOUS
  <1>1. CASE Mode  BY <1>1, ModePending
  <1>2. ASSUME NEW c \in Clients, NEW r \in Requests, NEW trace \in Trace, StartLoad(c, r, trace)
        PROVE  PendingInv'
    BY <1>2, LoadRecordingPending, StoreLoadPending, SyncRecordingPending DEF StartLoad
  <1>3. ASSUME NEW c \in DOMAIN load, Cancel(c) PROVE PendingInv'
    BY <1>3, CancelPending DEF Cancel
  <1>4. ASSUME NEW c \in DOMAIN load, Network(c) PROVE PendingInv'
    BY <1>4, WillSendRequestPending, DidReceiveResponsePending, DidReceiveDataPending,
       DidEndPending DEF Network
  <1>5. ASSUME NEW c \in DOMAIN load, MessageLoop(c) PROVE PendingInv'
    BY <1>5, MessageLoopPending
  <1>6. CASE UNCHANGED vars
    BY <1>6 DEF vars, sessionVars, PendingInv, PendingIsWhatWasTold, OnWire, Open, Known
  <1> QED BY <1>1, <1>2, <1>3, <1>4, <1>5, <1>6 DEF Next

LEMMA InitPending == Init => PendingInv
  <1> SUFFICES ASSUME Init PROVE PendingInv
    OBVIOUS
  <1>1. token \in Nat
    BY DEF Init, Session!Init
  <1>2. DOMAIN load = {} /\ DOMAIN pending = {}
    BY DEF Init, NoClient
  <1> QED BY <1>1, <1>2 DEF PendingInv, PendingIsWhatWasTold

\* The recorder's entry of a client is that of the load the client has under way:
\* not one that a cancelled load, an earlier recording or a synchronous load of the
\* same address left behind, and not one that lags behind what the client was told.
THEOREM PendingIsAlwaysWhatWasTold == Spec => []PendingIsWhatWasTold
  <1>1. Init => PendingInv
    BY InitPending
  <1>2. PendingInv => PendingIsWhatWasTold
    BY DEF PendingInv
  <1> QED BY <1>1, <1>2, StepPending, PTL DEF Spec
-----------------------------------------------------------------------------
Bound == MaxLoads * MaxHops

Chains == [request : Requests, at : [Requests -> Nat], hops : Seq(Requests)]

ChainFrom(r) == [request |-> r, at |-> redirectAt, hops |-> <<>>]

LEMMA HopType ==
  ASSUME TypeOK, NEW s \in Chains
  PROVE  /\ Hop(s) \in Chains
         /\ s.at[s.request] < Len(redirectMap[s.request]) =>
              LET to == redirectMap[s.request][s.at[s.request] + 1].to IN
                /\ to \in Requests
                /\ Hop(s).request = to
                /\ Hop(s).at = [s.at EXCEPT ![s.request] = @ + 1]
                /\ Hop(s).hops = Append(s.hops, to)
  <1>1. CASE s.at[s.request] < Len(redirectMap[s.request])
    <2> DEFINE e == redirectMap[s.request][s.at[s.request] + 1]
    <2>1. s.request \in Requests /\ s.at \in [Requests -> Nat] /\ s.hops \in Seq(Requests)
      BY DEF Chains
    <2>2. redirectMap[s.request] \in Seq(Redirect) /\ s.at[s.request] \in Nat
      BY <2>1 DEF TypeOK
    <2>3. e \in Redirect
      BY <1>1, <2>2
    <2>4. e.to \in Requests
      BY <2>3 DEF Redirect
    <2>5. Hop(s) = [request |-> e.to, at |-> [s.at EXCEPT ![s.request] = @ + 1],
                    hops |-> Append(s.hops, e.to)]
      BY <1>1 DEF Hop
    <2> HIDE DEF e
    <2>6. [s.at EXCEPT ![s.request] = @ + 1] \in [Requests -> Nat]
      BY <2>1, <2>2
    <2>7. Append(s.hops, e.to) \in Seq(Requests)
      BY <2>1, <2>4
    <2> QED BY <2>4, <2>5, <2>6, <2>7 DEF Chains, e
  <1>2. CASE ~ (s.at[s.request] < Len(redirectMap[s.request]))
    BY <1>2 DEF Hop
  <1> QED BY <1>1, <1>2

LEMMA ChainSteps ==
  ASSUME TypeOK, NEW r \in Requests
  PROVE  \E f \in [0..Bound -> Chains] :
           /\ f[0] = ChainFrom(r) /\ f[Bound] = Chain(r)
           /\ \A n \in 1..Bound : f[n] = Hop(f[n - 1])
  <1> DEFINE body(f) == [n \in 0..Bound |-> IF n = 0 THEN ChainFrom(r) ELSE Hop(f[n - 1])]
             step == [n \in 1..Bound |-> [s \in Chains |-> Hop(s)]]
             chain == CHOOSE f : f = body(f)
  <1>1. Bound \in Nat
    BY RequestsAssumption DEF Bound
  <1>2. ChainFrom(r) \in Chains
    BY DEF ChainFrom, Chains, TypeOK
  <1>3. step \in [1..Bound -> [Chains -> Chains]]
    BY HopType
  <1> DEFINE f == Run(Bound, Chains, ChainFrom(r), step)
  <1>4. /\ f \in [0..Bound -> Chains] /\ f[0] = ChainFrom(r)
        /\ \A n \in 1..Bound : f[n] = step[n][f[n - 1]]
    <2> HIDE DEF step
    <2> QED BY <1>1, <1>2, <1>3, Recursion
  <1>5. \A n \in 1..Bound : f[n] = Hop(f[n - 1])
    <2> TAKE n \in 1..Bound
    <2>1. n - 1 \in 0..Bound
      BY <1>1
    <2> QED BY <1>4, <2>1
  <1> HIDE DEF f
  <1>6. f = body(f)
    <2>1. \A n \in 0..Bound : f[n] = body(f)[n]
      BY <1>4, <1>5, <1>1
    <2> QED BY <1>4, <2>1
  <1>7. chain = body(chain)
    BY <1>6
  <1>8. Chain(r) = chain[Bound]
    BY DEF Chain, ChainFrom, Bound
  <1> HIDE DEF chain
  <1>9. chain[0] = ChainFrom(r)
    BY <1>7, <1>1
  <1>10. \A n \in 1..Bound : chain[n] = Hop(chain[n - 1])
    BY <1>7, <1>1
  <1> DEFINE S == {n \in 0..Bound : chain[n] \in Chains}
  <1>11. 0 \in S
    BY <1>1, <1>2, <1>9
  <1>12. ASSUME NEW n \in 0..Bound, n \in S, n < Bound PROVE n + 1 \in S
    <2>1. n + 1 \in 1..Bound /\ (n + 1) - 1 = n
      BY <1>1, <1>12
    <2>2. chain[n + 1] = Hop(chain[n])
      BY <1>10, <2>1
    <2>3. chain[n] \in Chains
      BY <1>12
    <2>4. Hop(chain[n]) \in Chains
      BY <2>3, HopType
    <2> QED BY <1>1, <2>1, <2>2, <2>4
  <1>13. 0..Bound \subseteq S
    <2> HIDE DEF S
    <2>1. \A n \in 0..Bound : n \in S /\ n < Bound => n + 1 \in S
      BY <1>12
    <2> QED BY <1>1, <1>11, <2>1, Induction
  <1>14. chain \in [0..Bound -> Chains]
    BY <1>7, <1>13
  <1> QED BY <1>8, <1>9, <1>10, <1>14

LEMMA ChainType == ASSUME TypeOK, NEW r \in Requests PROVE Chain(r) \in Chains
  <1>1. Bound \in Nat
    BY RequestsAssumption DEF Bound
  <1> QED BY <1>1, ChainSteps
-----------------------------------------------------------------------------
LEMMA TellType ==
  ASSUME NEW v \in View, NEW item \in Item
  PROVE  Tell(v, item) \in View
  <1>1. CASE item.what = "redirect"
    <2>1. item.to \in Requests
      BY <1>1 DEF Item
    <2>2. Append(v.hops, item.to) \in Seq(Requests)
      <3>1. v.hops \in Seq(Requests)
        BY DEF View
      <3> QED BY <2>1, <3>1
    <2> QED BY <1>1, <2>2 DEF Tell, View
  <1>2. CASE item.what = "response"
    <2>1. item.answer \in Answer
      BY <1>2 DEF Item
    <2> QED BY <1>2, <2>1 DEF Tell, View
  <1>3. CASE item.what = "data"
    <2>1. v.chunks + item.chunks \in Nat
      <3>1. v.chunks \in Nat
        BY DEF View
      <3>2. item.chunks \in Nat
        BY <1>3 DEF Item
      <3> QED BY <3>1, <3>2
    <2> QED BY <1>3, <2>1 DEF Tell, View
  <1>4. CASE item.what \in {"finish", "fail"}
    BY <1>4 DEF Tell, View
  <1>5. item.what \in {"redirect", "response", "data", "finish", "fail"}
    BY DEF Item
  <1> QED BY <1>1, <1>2, <1>3, <1>4, <1>5

LEMMA TellingSteps ==
  ASSUME NEW v \in View, NEW plan \in Seq(Item)
  PROVE  /\ Telling(v, plan) \in [0..Len(plan) -> View]
         /\ Telling(v, plan)[0] = v
         /\ \A n \in 1..Len(plan) : Telling(v, plan)[n] = Tell(Telling(v, plan)[n - 1], plan[n])
  <1> DEFINE k == Len(plan)
             body(f) == [n \in 0..k |-> IF n = 0 THEN v ELSE Tell(f[n - 1], plan[n])]
             step == [n \in 1..k |-> [w \in View |-> Tell(w, plan[n])]]
             known == CHOOSE f : f = body(f)
  <1>1. k \in Nat /\ \A n \in 1..k : plan[n] \in Item
    OBVIOUS
  <1>2. step \in [1..k -> [View -> View]]
    BY <1>1, TellType
  <1> DEFINE f == Run(k, View, v, step)
  <1>3. f \in [0..k -> View] /\ f[0] = v /\ \A n \in 1..k : f[n] = step[n][f[n - 1]]
    <2> HIDE DEF step, k
    <2> QED BY <1>1, <1>2, Recursion
  <1>4. \A n \in 1..k : f[n] = Tell(f[n - 1], plan[n])
    <2> TAKE n \in 1..k
    <2>1. n - 1 \in 0..k
      BY <1>1
    <2> QED BY <1>3, <2>1
  <1> HIDE DEF f
  <1>5. f = body(f)
    <2>1. \A n \in 0..k : f[n] = body(f)[n]
      BY <1>1, <1>3, <1>4
    <2> QED BY <1>3, <2>1
  <1>6. known = body(known)
    BY <1>5
  <1>7. Telling(v, plan) = known
    BY DEF Telling
  <1> HIDE DEF known
  <1>8. /\ known[0] = v
        /\ \A n \in 1..k : known[n] = Tell(known[n - 1], plan[n])
        /\ DOMAIN known = 0..k
    BY <1>6, <1>1
  <1> DEFINE S == {n \in 0..k : known[n] = f[n]}
  <1>9. 0 \in S
    BY <1>1, <1>3, <1>8
  <1>10. \A n \in 0..k : n \in S /\ n < k => n + 1 \in S
    <2> SUFFICES ASSUME NEW n \in 0..k, known[n] = f[n], n < k PROVE known[n + 1] = f[n + 1] /\ n + 1 \in 0..k
      OBVIOUS
    <2>1. n + 1 \in 1..k /\ (n + 1) - 1 = n
      BY <1>1
    <2> QED BY <1>4, <1>8, <2>1
  <1>11. 0..k \subseteq S
    <2> HIDE DEF S
    <2> QED BY <1>1, <1>9, <1>10, Induction
  <1>12. known = f
    BY <1>3, <1>6, <1>11
  <1> QED BY <1>3, <1>7, <1>8, <1>12

LEMMA ToldType ==
  ASSUME NEW x \in Load, NEW item \in Item
  PROVE  Told(x, item) \in Load
  <1>1. x.view \in View
    BY DEF Load
  <1>2. Tell(x.view, item) \in View /\ <<>> \in Seq(Item)
    BY <1>1, TellType
  <1> QED BY <1>2 DEF Told, Load

LEMMA CancelledType ==
  ASSUME NEW x \in Load
  PROVE  Cancelled(x) \in Load
  <1>1. [x.view EXCEPT !.end = "cancel"] \in View /\ <<>> \in Seq(Item)
    <2>1. x.view \in View
      BY DEF Load
    <2>2. \A w \in View : [w EXCEPT !.end = "cancel"] \in View
      BY DEF View
    <2> QED BY <2>1, <2>2
  <1>2. Cancelled(x) = [x EXCEPT !.view = [x.view EXCEPT !.end = "cancel"], !.plan = <<>>, !.posted = ""]
    BY DEF Cancelled, Load
  <1> QED BY <1>1, <1>2 DEF Load

LEMMA PlanTypes ==
  /\ \A h \in Seq(Requests) : Redirects(h) \in Seq(Item) /\ Len(Redirects(h)) = Len(h)
  /\ Missing \in Seq(Item)
  /\ \A e \in Entry : Served(e) \in Seq(Item)
  <1>1. ASSUME NEW h \in Seq(Requests)
        PROVE  Redirects(h) \in Seq(Item) /\ Len(Redirects(h)) = Len(h)
    <2>1. \A i \in DOMAIN h : [what |-> "redirect", to |-> h[i]] \in Item
      BY DEF Item
    <2> QED BY <2>1 DEF Redirects
  <1>2. /\ \A a \in Answer : [what |-> "response", answer |-> a] \in Item
        /\ \A n \in Nat : [what |-> "data", chunks |-> n] \in Item
        /\ \A w \in {"finish", "fail"} : [what |-> w] \in Item
    BY DEF Item
  <1>3. NoContent \in Answer
    BY RequestsAssumption DEF NoContent, Answer
  <1>4. Missing \in Seq(Item)
    BY <1>2, <1>3 DEF Missing
  <1>5. ASSUME NEW e \in Entry PROVE Served(e) \in Seq(Item)
    <2>1. e.answer \in Answer /\ e.chunks \in Nat
      BY DEF Entry
    <2>2. /\ <<[what |-> "fail"]>> \in Seq(Item) /\ <<[what |-> "finish"]>> \in Seq(Item)
          /\ <<[what |-> "response", answer |-> e.answer]>> \in Seq(Item)
          /\ <<[what |-> "data", chunks |-> e.chunks]>> \in Seq(Item) /\ <<>> \in Seq(Item)
      BY <1>2, <2>1
    <2> QED BY <2>2 DEF Served
  <1> QED BY <1>1, <1>4, <1>5
-----------------------------------------------------------------------------
LEMMA BeginType ==
  ASSUME TypeOK, NEW c \in Clients, NEW x \in Load, started < MaxLoads, Begin(c, x)
  PROVE  /\ DOMAIN load' \subseteq Clients /\ load' \in [DOMAIN load' -> Load]
         /\ started' \in 0..MaxLoads
  <1>1. /\ DOMAIN load \subseteq Clients /\ load \in [DOMAIN load -> Load]
        /\ started \in 0..MaxLoads /\ MaxLoads \in Nat
    BY RequestsAssumption DEF TypeOK
  <1>2. load' = [d \in DOMAIN load \cup {c} |-> IF d = c THEN x ELSE load[d]]
    BY DEF Begin
  <1>3. started' = started + 1
    BY DEF Begin
  <1> QED BY <1>1, <1>2, <1>3

LEMMA NewLoadType ==
  ASSUME TypeOK, started < MaxLoads, NEW r \in Requests, NEW via \in {"wire", "store"},
         NEW sync \in BOOLEAN, NEW like \in Nat
  PROVE  NewLoad(r, via, sync, like) \in Load
  <1>1. started + 1 \in 1..MaxLoads
    BY RequestsAssumption DEF TypeOK
  <1>2. Fresh \in View
    BY RequestsAssumption DEF Fresh, View, Answer, None
  <1>3. token \in Nat /\ <<>> \in Seq(Item)
    BY DEF TypeOK
  <1> QED BY <1>1, <1>2, <1>3 DEF NewLoad, Load

LEMMA LikeType == ASSUME TypeOK, NEW r, NEW sync PROVE Like(r, sync) \in Nat
  BY DEF TypeOK, Like

LEMMA CurrentType ==
  ASSUME TypeOK, NEW r \in Requests
  PROVE  /\ \A e \in Current(requestMap, requestAt, r) :
              /\ requestAt[r] < Len(requestMap[r])
              /\ requestAt[r] + 1 \in DOMAIN requestMap[r]
              /\ e = requestMap[r][requestAt[r] + 1]
              /\ e \in Entry
         /\ Current(requestMap, requestAt, r) = {} => ~ (requestAt[r] < Len(requestMap[r]))
  <1>1. requestMap[r] \in Seq(Entry) /\ requestAt[r] \in Nat
    BY DEF TypeOK
  <1>2. requestAt[r] < Len(requestMap[r]) =>
          /\ requestAt[r] + 1 \in DOMAIN requestMap[r]
          /\ requestMap[r][requestAt[r] + 1] \in Entry
    BY <1>1
  <1> QED BY <1>2 DEF Current

LEMMA CursorType ==
  ASSUME TypeOK, NEW r \in Requests, NextRequestEntry(r)
  PROVE  /\ requestAt' \in [Requests -> Nat]
         /\ \A q \in Requests : requestAt'[q] <= Len(requestMap[q])
  <1>1. \A q \in Requests : /\ requestMap[q] \in Seq(Entry) /\ requestAt[q] \in Nat
                            /\ requestAt[q] <= Len(requestMap[q])
    BY DEF TypeOK
  <1>2. requestAt' = [requestAt EXCEPT ![r] = IF @ < Len(requestMap[r]) THEN @ + 1 ELSE @]
    BY DEF NextRequestEntry
  <1>3. requestAt \in [Requests -> Nat]
    BY DEF TypeOK
  <1> QED BY <1>1, <1>2, <1>3

\* The redirects of a chain are taken from the map.
LEMMA ChainCursor ==
  ASSUME TypeOK, NEW r \in Requests, NEW q \in Requests
  PROVE  Chain(r).at[q] <= Len(redirectMap[q])
  <1> DEFINE Fits(s) == s.at[q] <= Len(redirectMap[q])
  <1>1. PICK f \in [0..Bound -> Chains] :
           /\ f[0] = ChainFrom(r) /\ f[Bound] = Chain(r)
           /\ \A n \in 1..Bound : f[n] = Hop(f[n - 1])
    BY ChainSteps
  <1>2. Bound \in Nat
    BY RequestsAssumption DEF Bound
  <1> DEFINE S == {n \in 0..Bound : Fits(f[n])}
  <1>3. 0 \in S
    BY <1>1, <1>2 DEF ChainFrom, TypeOK
  <1>4. \A n \in 0..Bound : n \in S /\ n < Bound => n + 1 \in S
    <2> SUFFICES ASSUME NEW n \in 0..Bound, Fits(f[n]), n < Bound
                 PROVE  Fits(f[n + 1])
      BY <1>2
    <2>1. n + 1 \in 1..Bound /\ (n + 1) - 1 = n
      BY <1>2
    <2>2. f[n + 1] = Hop(f[n]) /\ f[n] \in Chains
      BY <1>1, <2>1
    <2> DEFINE s == f[n]
    <2>3. /\ s.request \in Requests /\ s.at \in [Requests -> Nat]
          /\ \A p \in Requests : redirectMap[p] \in Seq(Redirect)
      BY <2>2 DEF Chains, TypeOK
    <2>4. CASE s.at[s.request] < Len(redirectMap[s.request])
      <3>1. Hop(s).at = [s.at EXCEPT ![s.request] = @ + 1]
        BY <2>2, <2>4, HopType
      <3>2. CASE q = s.request  BY <2>2, <2>3, <2>4, <3>1, <3>2
      <3>3. CASE q # s.request  BY <2>2, <2>3, <3>1, <3>3
      <3> QED BY <3>2, <3>3
    <2>5. CASE ~ (s.at[s.request] < Len(redirectMap[s.request]))
      BY <2>2, <2>5 DEF Hop
    <2> QED BY <2>4, <2>5
  <1>5. 0..Bound \subseteq S
    <2> HIDE DEF S
    <2> QED BY <1>2, <1>3, <1>4, Induction
  <1> QED BY <1>1, <1>2, <1>5
-----------------------------------------------------------------------------
\* At most one answer is handed out.
LEMMA HandIs ==
  ASSUME TypeOK, NEW r \in Requests, NEW like,
         Hand(Current(requestMap, requestAt, r), like)
  PROVE  /\ Current(requestMap, requestAt, r) = {} => handed' = handed
         /\ \A e \in Current(requestMap, requestAt, r) :
              /\ (CHOOSE d \in Current(requestMap, requestAt, r) : TRUE) = e
              /\ handed' = Append(handed, e.answer)
  <1> DEFINE found == Current(requestMap, requestAt, r)
             one == (CHOOSE e \in found : TRUE).answer
  <1>1. handed' = handed \o [i \in 1..Cardinality(found) |-> one]
    BY DEF Hand
  <1>2. handed \in Seq(Answer)
    BY DEF TypeOK
  <1>3. ASSUME found = {} PROVE handed' = handed
    <2>1. Cardinality(found) = 0
      BY <1>3, FS_EmptySet
    <2> HIDE DEF found
    <2> DEFINE a == one
    <2> HIDE DEF a
    <2>2. [i \in 1..0 |-> a] = <<>>
      OBVIOUS
    <2> QED BY <1>1, <1>2, <2>1, <2>2 DEF a
  <1>4. ASSUME NEW e \in found PROVE (CHOOSE d \in found : TRUE) = e /\ handed' = Append(handed, e.answer)
    <2>1. found = {e}
      BY DEF Current
    <2>2. Cardinality(found) = 1
      BY <2>1, FS_Singleton
    <2>3. (CHOOSE d \in found : TRUE) = e
      BY <2>1
    <2>4. e \in Entry
      BY <1>4, CurrentType
    <2> DEFINE a == e.answer
    <2>5. a \in Answer
      BY <2>4 DEF Entry
    <2>6. handed' = handed \o [i \in 1..1 |-> a]
      BY <1>1, <2>2, <2>3
    <2> HIDE DEF a
    <2>7. [i \in 1..1 |-> a] = <<a>>
      OBVIOUS
    <2> QED BY <1>2, <2>3, <2>5, <2>6, <2>7 DEF a
  <1> QED BY <1>3, <1>4

LEMMA HandType ==
  ASSUME TypeOK, NEW r \in Requests, NEW like \in Nat,
         Hand(Current(requestMap, requestAt, r), like)
  PROVE  handed' \in Seq(Answer) /\ following' \in BOOLEAN /\ UNCHANGED <<log, reliable>>
  <1>1. handed \in Seq(Answer)
    BY DEF TypeOK
  <1>2. \A e \in Current(requestMap, requestAt, r) : e.answer \in Answer
    BY CurrentType DEF Entry
  <1>3. handed' \in Seq(Answer)
    BY <1>1, <1>2, HandIs
  <1> QED BY <1>3 DEF Hand

LEMMA LoadReplayType ==
  ASSUME TypeOK, NEW c \in Clients, NEW r \in Requests, NEW trace \in Trace,
         LoadReplay(c, r, trace)
  PROVE  TypeOK'
  <1> DEFINE found(q) == Current(requestMap, requestAt, q)
             rest(q) == IF found(q) = {} THEN Missing ELSE Served(CHOOSE e \in found(q) : TRUE)
             x(h, q) == [NewLoad(r, "store", FALSE, Like(r, FALSE)) EXCEPT
                           !.plan = Redirects(h) \o rest(q),
                           !.posted = IF found(q) = {} THEN "missing" ELSE "task"]
  <1>1. /\ started < MaxLoads
        /\ UNCHANGED <<sessionVars, pending, mapVars>>
    BY DEF LoadReplay, MayLoad
  <1>2. PICK r0 \in Requests :
          /\ redirectAt' = Chain(r0).at
          /\ NextRequestEntry(Chain(r0).request)
          /\ Begin(c, x(Chain(r0).hops, Chain(r0).request))
          /\ Hand(found(Chain(r0).request), Like(r, FALSE))
    <2>1. ASSUME NEW r0 \in Recognised(r, trace, requestMap[r] # <<>> \/ redirectMap[r] # <<>>, Matching(trace))
          PROVE  r0 \in Requests
      BY <2>1 DEF Recognised, Matching, MadeFrom
    <2> QED BY <2>1 DEF LoadReplay
  <1> DEFINE q == Chain(r0).request
  <1>3. q \in Requests /\ Chain(r0).at \in [Requests -> Nat] /\ Chain(r0).hops \in Seq(Requests)
    BY ChainType DEF Chains
  <1>4. \A p \in Requests : redirectAt'[p] <= Len(redirectMap[p])
    BY <1>2, ChainCursor
  <1>5. NewLoad(r, "store", FALSE, Like(r, FALSE)) \in Load
    BY <1>1, NewLoadType, LikeType
  <1>6. Redirects(Chain(r0).hops) \o rest(q) \in Seq(Item)
    <2>1. rest(q) \in Seq(Item)
      <3>1. CASE found(q) = {}  BY <3>1, PlanTypes
      <3>2. CASE found(q) # {}
        <4>1. (CHOOSE e \in found(q) : TRUE) \in found(q)
          BY <3>2
        <4>2. (CHOOSE e \in found(q) : TRUE) \in Entry
          BY <1>3, <4>1, CurrentType
        <4> QED BY <3>2, <4>2, PlanTypes
      <3> QED BY <3>1, <3>2
    <2>2. Redirects(Chain(r0).hops) \in Seq(Item)
      BY <1>3, PlanTypes
    <2> HIDE DEF rest, q
    <2> QED BY <2>1, <2>2
  <1>7. x(Chain(r0).hops, q) \in Load
    <2> DEFINE n == NewLoad(r, "store", FALSE, Like(r, FALSE))
               plan == Redirects(Chain(r0).hops) \o rest(q)
               posted == IF found(q) = {} THEN "missing" ELSE "task"
    <2>1. n \in Load /\ plan \in Seq(Item) /\ posted \in {"", "task", "missing", "pairs"}
      BY <1>5, <1>6
    <2> HIDE DEF n, plan, posted
    <2>2. [n EXCEPT !.plan = plan, !.posted = posted] \in Load
      BY <2>1 DEF Load
    <2> QED BY <2>2 DEF n, plan, posted
  <1> HIDE DEF x
  <1>8. /\ DOMAIN load' \subseteq Clients /\ load' \in [DOMAIN load' -> Load]
        /\ started' \in 0..MaxLoads
    BY <1>1, <1>2, <1>7, BeginType
  <1>9. /\ requestAt' \in [Requests -> Nat]
        /\ \A p \in Requests : requestAt'[p] <= Len(requestMap[p])
    BY <1>2, <1>3, CursorType
  <1>10. handed' \in Seq(Answer) /\ following' \in BOOLEAN /\ UNCHANGED <<log, reliable>>
    BY <1>2, <1>3, HandType, LikeType
  <1> QED BY <1>1, <1>2, <1>3, <1>4, <1>8, <1>9, <1>10 DEF TypeOK, sessionVars, mapVars

LEMMA AnsweredType ==
  ASSUME NEW x \in Load, NEW e \in Entry
  PROVE  Answered(x, e) \in Load
  <1> DEFINE v == [hops |-> <<>>, answer |-> e.answer, chunks |-> e.chunks, end |-> End(e.failed)]
  <1>1. v \in View
    BY DEF Entry, View, End
  <1> HIDE DEF v
  <1>2. [x EXCEPT !.view = v] \in Load
    BY <1>1 DEF Load
  <1> QED BY <1>2 DEF Answered, v

LEMMA SyncReplayType ==
  ASSUME TypeOK, NEW c \in Clients, NEW r \in Requests, NEW trace \in Trace,
         SyncReplay(c, r, trace)
  PROVE  TypeOK'
  <1> DEFINE found(q) == Current(requestMap, requestAt, q)
             new == NewLoad(r, "store", TRUE, Like(r, TRUE))
             x(q) == IF found(q) = {} THEN [new EXCEPT !.view = [@ EXCEPT !.answer = NoContent, !.end = "finish"]]
                     ELSE Answered(new, CHOOSE e \in found(q) : TRUE)
  <1>1. /\ started < MaxLoads
        /\ UNCHANGED <<sessionVars, pending, mapVars, redirectAt>>
    BY DEF SyncReplay, MayLoad
  <1>2. PICK q \in Requests : /\ NextRequestEntry(q) /\ Begin(c, x(q))
                              /\ Hand(found(q), Like(r, TRUE))
    <2>1. ASSUME NEW r0 \in Recognised(r, trace, requestMap[r] # <<>>, MatchingTerminal(trace))
          PROVE  r0 \in Requests
      BY <2>1 DEF Recognised, MatchingTerminal, MadeFrom
    <2> QED BY <2>1 DEF SyncReplay
  <1>3. new \in Load
    BY <1>1, NewLoadType, LikeType
  <1>4. x(q) \in Load
    <2>1. CASE found(q) = {}
      <3> HIDE DEF new
      <3>1. NoContent \in Answer /\ new.view \in View
        <4>1. new.view \in View
          BY <1>3 DEF Load
        <4>2. NoContent \in Answer
          BY RequestsAssumption DEF NoContent, Answer
        <4> QED BY <4>1, <4>2
      <3>2. [new.view EXCEPT !.answer = NoContent, !.end = "finish"] \in View
        BY <3>1 DEF View
      <3>3. [new EXCEPT !.view = [new.view EXCEPT !.answer = NoContent, !.end = "finish"]] \in Load
        BY <1>3, <3>2 DEF Load
      <3>4. x(q) = [new EXCEPT !.view = [new.view EXCEPT !.answer = NoContent, !.end = "finish"]]
        BY <2>1, <1>3 DEF Load
      <3> QED BY <3>3, <3>4
    <2>2. CASE found(q) # {}
      <3>1. (CHOOSE e \in found(q) : TRUE) \in Entry
        BY <2>2, CurrentType
      <3> QED BY <1>3, <2>2, <3>1, AnsweredType
    <2> QED BY <2>1, <2>2
  <1> HIDE DEF x
  <1>5. /\ DOMAIN load' \subseteq Clients /\ load' \in [DOMAIN load' -> Load]
        /\ started' \in 0..MaxLoads
    BY <1>1, <1>2, <1>4, BeginType
  <1>6. /\ requestAt' \in [Requests -> Nat]
        /\ \A p \in Requests : requestAt'[p] <= Len(requestMap[p])
    BY <1>2, CursorType
  <1>7. handed' \in Seq(Answer) /\ following' \in BOOLEAN /\ UNCHANGED <<log, reliable>>
    BY <1>2, HandType, LikeType
  <1> QED BY <1>1, <1>5, <1>6, <1>7 DEF TypeOK, sessionVars, mapVars

LEMMA LoadRecordingType ==
  ASSUME TypeOK, NEW c \in Clients, NEW r \in Requests, NEW trace \in Trace,
         LoadRecording(c, r, trace)
  PROVE  TypeOK'
  <1>1. /\ started < MaxLoads /\ Begin(c, NewLoad(r, "wire", FALSE, 0)) /\ LogBegin
        /\ UNCHANGED <<sessionVars, mapVars, cursorVars>>
    BY DEF LoadRecording, MayLoad
  <1>2. NewLoad(r, "wire", FALSE, 0) \in Load
    BY <1>1, NewLoadType
  <1>3. /\ DOMAIN load' \subseteq Clients /\ load' \in [DOMAIN load' -> Load]
        /\ started' \in 0..MaxLoads
    BY <1>1, <1>2, BeginType
  <1>4. DOMAIN pending' \subseteq Clients /\ pending' \in [DOMAIN pending' -> Pending]
    <2> DEFINE p == [request |-> r, trace |-> trace, answer |-> None, chunks |-> 0]
    <2>1. p \in Pending
      BY RequestsAssumption DEF Pending, Answer, None
    <2>2. InitPendingRequest(c, p)
      BY DEF LoadRecording
    <2> HIDE DEF p
    <2> QED BY <2>1, <2>2 DEF TypeOK, InitPendingRequest
  <1>5. log' \in Seq(Logged) /\ reliable' \in BOOLEAN /\ UNCHANGED <<following, handed>>
    BY <1>1 DEF LogBegin, TypeOK
  <1> QED BY <1>1, <1>3, <1>4, <1>5 DEF TypeOK, sessionVars, mapVars, cursorVars

LEMMA AddedType ==
  ASSUME TypeOK, NEW r \in Requests, NEW e \in Entry, Added(r, e)
  PROVE  /\ requestMap' \in [Requests -> Seq(Entry)]
         /\ requestMap'[r] = Append(requestMap[r], e)
         /\ \A q \in Requests \ {r} : requestMap'[q] = requestMap[q]
         /\ \A q \in Requests : requestAt[q] <= Len(requestMap'[q])
  <1>1. \A q \in Requests : requestMap[q] \in Seq(Entry) /\ requestAt[q] \in Nat
                           /\ requestAt[q] <= Len(requestMap[q])
    BY DEF TypeOK
  <1>2. requestMap' = [requestMap EXCEPT ![r] = Append(@, e)] /\ requestMap \in [Requests -> Seq(Entry)]
    BY DEF Added, TypeOK
  <1>3. Append(requestMap[r], e) \in Seq(Entry) /\ Len(Append(requestMap[r], e)) = Len(requestMap[r]) + 1
    BY <1>1
  <1>4. /\ requestMap'[r] = Append(requestMap[r], e)
        /\ \A q \in Requests \ {r} : requestMap'[q] = requestMap[q]
        /\ requestMap' \in [Requests -> Seq(Entry)]
    BY <1>2, <1>3
  <1>5. ASSUME NEW q \in Requests PROVE requestAt[q] <= Len(requestMap'[q])
    <2>1. CASE q = r  BY <1>1, <1>3, <1>4, <2>1
    <2>2. CASE q # r  BY <1>1, <1>4, <2>2
    <2> QED BY <2>1, <2>2
  <1> QED BY <1>4, <1>5

LEMMA LogEndType ==
  ASSUME TypeOK, NEW x \in Load, LogEnd(x)
  PROVE  log' \in Seq(Logged) /\ UNCHANGED <<reliable, following, handed>>
  <1>1. [first |-> x.first, sync |-> x.sync, view |-> x.view] \in Logged
    BY DEF Load, Logged
  <1>2. log \in Seq(Logged)
    BY DEF TypeOK
  <1> QED BY <1>1, <1>2 DEF LogEnd

LEMMA SyncRecordingType ==
  ASSUME TypeOK, NEW c \in Clients, NEW r \in Requests, NEW trace \in Trace,
         SyncRecording(c, r, trace)
  PROVE  TypeOK'
  <1> DEFINE new == NewLoad(r, "wire", TRUE, 0)
             e(chunks, failed) == [trace |-> trace, answer |-> started + 1, chunks |-> chunks, failed |-> failed]
  <1>1. /\ started < MaxLoads /\ UNCHANGED <<sessionVars, pending, redirectMap, cursorVars>>
    BY DEF SyncRecording, MayLoad
  <1>2. PICK chunks \in 0..MaxChunks, failed \in BOOLEAN :
          /\ Added(r, e(chunks, failed)) /\ Begin(c, Answered(new, e(chunks, failed)))
          /\ \/ log' = <<>> /\ reliable' = FALSE /\ UNCHANGED <<following, handed>>
             \/ LogEnd(Answered(new, e(chunks, failed)))
    BY DEF SyncRecording
  <1>3. e(chunks, failed) \in Entry
    <2>1. started + 1 \in Answer /\ chunks \in Nat
      BY <1>1, RequestsAssumption DEF TypeOK, Answer
    <2> QED BY <2>1 DEF Entry
  <1>4. new \in Load
    BY <1>1, NewLoadType
  <1> HIDE DEF new, e
  <1>5. Answered(new, e(chunks, failed)) \in Load
    BY <1>3, <1>4, AnsweredType
  <1>6. /\ DOMAIN load' \subseteq Clients /\ load' \in [DOMAIN load' -> Load]
        /\ started' \in 0..MaxLoads
    BY <1>1, <1>2, <1>5, BeginType
  <1>7. /\ requestMap' \in [Requests -> Seq(Entry)]
        /\ \A q \in Requests : requestAt[q] <= Len(requestMap'[q])
    BY <1>2, <1>3, AddedType
  <1>8. log' \in Seq(Logged) /\ reliable' \in BOOLEAN /\ UNCHANGED <<following, handed>>
    <2>1. CASE log' = <<>> /\ reliable' = FALSE /\ UNCHANGED <<following, handed>>
      <3>1. <<>> \in Seq(Logged)
        OBVIOUS
      <3> QED BY <2>1, <3>1, Zenon
    <2>2. CASE LogEnd(Answered(new, e(chunks, failed)))
      <3>1. log' \in Seq(Logged) /\ UNCHANGED <<reliable, following, handed>>
        BY <1>5, <2>2, LogEndType
      <3>2. reliable \in BOOLEAN
        BY DEF TypeOK
      <3> QED BY <3>1, <3>2, Zenon
    <2> QED BY <1>2, <2>1, <2>2
  <1> QED BY <1>1, <1>6, <1>7, <1>8 DEF TypeOK, sessionVars, cursorVars
-----------------------------------------------------------------------------
LEMMA ModeType ==
  ASSUME TypeOK, Mode
  PROVE  TypeOK'
  <1>1. token \in Nat /\ token' = token + 1 /\ mode' \in {"idle", "recording", "replaying"}
    BY DEF TypeOK, Mode, StartRecording, StopRecording, StartReplay, StopReplay,
           Session!StartRecording, Session!StopRecording, Session!StartReplay,
           Session!StopReplay
  <1>2. DOMAIN load' \subseteq Clients /\ load' \in [DOMAIN load' -> Load]
    <2>1. CASE ReloadPage
      BY <2>1, CancelledType DEF ReloadPage, TypeOK
    <2>2. CASE UNCHANGED load
      BY <2>2 DEF TypeOK
    <2> QED BY <2>1, <2>2 DEF Mode, StartRecording, StopRecording, StartReplay, StopReplay
  <1>3. DOMAIN pending' \subseteq Clients /\ pending' \in [DOMAIN pending' -> Pending]
    <2>1. CASE pending' = NoClient
      BY <2>1 DEF NoClient
    <2>2. CASE UNCHANGED pending
      BY <2>2 DEF TypeOK
    <2> QED BY <2>1, <2>2 DEF Mode, StartRecording, StopRecording, StartReplay, StopReplay
  <1>4. /\ requestMap' \in [Requests -> Seq(Entry)] /\ requestAt' \in [Requests -> Nat]
        /\ redirectMap' \in [Requests -> Seq(Redirect)] /\ redirectAt' \in [Requests -> Nat]
        /\ \A r \in Requests : /\ requestAt'[r] <= Len(requestMap'[r])
                               /\ redirectAt'[r] <= Len(redirectMap'[r])
    <2>1. \A r \in Requests : /\ requestMap[r] \in Seq(Entry) /\ redirectMap[r] \in Seq(Redirect)
                              /\ Len(requestMap[r]) \in Nat /\ Len(redirectMap[r]) \in Nat
      BY DEF TypeOK
    <2>2. CASE StartRecording  BY <2>2 DEF StartRecording
    <2>3. CASE StartReplay  BY <2>1, <2>3 DEF StartReplay, TypeOK, mapVars
    <2>4. CASE StopRecording \/ StopReplay
      BY <2>4 DEF StopRecording, StopReplay, TypeOK, mapVars, cursorVars
    <2> QED BY <2>2, <2>3, <2>4 DEF Mode
  <1>5. started' \in 0..MaxLoads
    BY RequestsAssumption DEF TypeOK, Mode, StartRecording, StopRecording, StartReplay, StopReplay
  <1>6. log' \in Seq(Logged) /\ reliable' \in BOOLEAN /\ following' \in BOOLEAN /\ handed' \in Seq(Answer)
    <2>1. CASE StartRecording
      <3>1. log' = <<>> /\ reliable' = TRUE /\ following' = FALSE /\ handed' = <<>>
        BY <2>1 DEF StartRecording, BeginLog
      <3>2. <<>> \in Seq(Logged) /\ <<>> \in Seq(Answer)
        OBVIOUS
      <3> QED BY <3>1, <3>2, Zenon
    <2>2. CASE StopRecording
      <3>1. log' \in {log, <<>>}
        BY <2>2 DEF StopRecording, EndLog
      <3>2. reliable' \in BOOLEAN
        BY <2>2, Zenon DEF StopRecording, EndLog
      <3>3. following' \in BOOLEAN /\ handed' \in Seq(Answer)
        BY <2>2, Zenon DEF StopRecording, EndLog, TypeOK
      <3>4. log' \in Seq(Logged)
        <4>1. log \in Seq(Logged) /\ <<>> \in Seq(Logged)
          BY DEF TypeOK
        <4> QED BY <3>1, <4>1
      <3> QED BY <3>2, <3>3, <3>4
    <2>3. CASE StartReplay
      BY <2>3 DEF StartReplay, TypeOK
    <2>4. CASE StopReplay
      BY <2>4 DEF StopReplay, historyVars, TypeOK
    <2> QED BY <2>1, <2>2, <2>3, <2>4 DEF Mode
  <1> QED BY <1>1, <1>2, <1>3, <1>4, <1>5, <1>6 DEF TypeOK

\* One client's load becomes x, and nothing else changes.
LEMMA OneLoadType ==
  ASSUME TypeOK, NEW c \in DOMAIN load, NEW x \in Load, load' = [load EXCEPT ![c] = x],
         loopUnchanged
  PROVE  TypeOK'
  <1>1. DOMAIN load' \subseteq Clients /\ load' \in [DOMAIN load' -> Load]
    BY DEF TypeOK
  <1> QED BY <1>1 DEF TypeOK, loopUnchanged, sessionVars, mapVars, cursorVars, historyVars

LEMMA NetworkType ==
  ASSUME TypeOK, NEW c \in DOMAIN load, Network(c)
  PROVE  TypeOK'
  <1>1. load[c] \in Load /\ c \in Clients
    BY DEF TypeOK
  <1>2. load[c].number \in Answer
    <2>1. load[c].number \in 1..MaxLoads
      BY <1>1 DEF Load
    <2> QED BY <2>1, RequestsAssumption DEF Answer
  <1>3. PICK item \in Item : Tells(c, item)
    BY <1>2 DEF Network, WillSendRequest, DidReceiveResponse, DidReceiveData, DidEnd, Item, End
  <1>4. DOMAIN load' \subseteq Clients /\ load' \in [DOMAIN load' -> Load]
    <2>1. Told(load[c], item) \in Load
      BY <1>1, ToldType
    <2> QED BY <1>3, <2>1 DEF Tells, TypeOK
  <1>5. UNCHANGED <<sessionVars, cursorVars, started>>
    BY DEF Network, WillSendRequest, DidReceiveResponse, DidReceiveData, DidEnd
  <1>6. Known(c) => pending[c] \in Pending
    BY DEF Known, TypeOK
  <1>7. /\ DOMAIN pending' \subseteq Clients /\ pending' \in [DOMAIN pending' -> Pending]
        /\ requestMap' \in [Requests -> Seq(Entry)] /\ redirectMap' \in [Requests -> Seq(Redirect)]
        /\ \A r \in Requests : /\ requestAt[r] <= Len(requestMap'[r])
                               /\ redirectAt[r] <= Len(redirectMap'[r])
    <2>1. CASE Unrecorded
      BY <2>1 DEF Unrecorded, mapVars, TypeOK
    <2>2. CASE \E r \in Requests : Known(c) /\ AddPendingRedirect(c, r)
      <3>1. PICK r \in Requests : Known(c) /\ AddPendingRedirect(c, r)
        BY <2>2
      <3> DEFINE p == pending[c]
                 d == [trace |-> p.trace, to |-> r]
                 n == [p EXCEPT !.request = r, !.trace = NoTrace]
      <3>2. p \in Pending
        BY <1>6, <3>1
      <3>3. SetPending(c, n) /\ redirectMap' = [redirectMap EXCEPT ![p.request] = Append(@, d)]
            /\ UNCHANGED requestMap
        BY <3>1 DEF AddPendingRedirect
      <3> HIDE DEF p
      <3>4. p.request \in Requests /\ d \in Redirect
        BY <3>2 DEF Pending, Redirect
      <3>5. n \in Pending
        BY <3>2 DEF Pending, Trace
      <3> HIDE DEF d, n
      <3>6. DOMAIN pending' \subseteq Clients /\ pending' \in [DOMAIN pending' -> Pending]
        BY <3>3, <3>5 DEF SetPending, TypeOK
      <3>7. \A q \in Requests : /\ redirectMap[q] \in Seq(Redirect) /\ redirectAt[q] \in Nat
                                /\ redirectAt[q] <= Len(redirectMap[q])
        BY DEF TypeOK
      <3>8. Append(redirectMap[p.request], d) \in Seq(Redirect)
            /\ Len(Append(redirectMap[p.request], d)) = Len(redirectMap[p.request]) + 1
        BY <3>4, <3>7
      <3>9. redirectMap' \in [Requests -> Seq(Redirect)]
        BY <3>3, <3>4, <3>8 DEF TypeOK
      <3>10. ASSUME NEW q \in Requests PROVE redirectAt[q] <= Len(redirectMap'[q])
        <4>1. CASE q = p.request  BY <3>3, <3>7, <3>8, <4>1 DEF TypeOK
        <4>2. CASE q # p.request  BY <3>3, <3>7, <4>2 DEF TypeOK
        <4> QED BY <4>1, <4>2
      <3> QED BY <3>3, <3>6, <3>9, <3>10 DEF TypeOK
    <2>3. CASE /\ Known(c) /\ UNCHANGED mapVars
               /\ \/ SetPending(c, [pending[c] EXCEPT !.answer = load[c].number])
                  \/ SetPending(c, [pending[c] EXCEPT !.chunks = @ + 1])
      <3>1. [pending[c] EXCEPT !.answer = load[c].number] \in Pending
        BY <1>2, <1>6, <2>3 DEF Pending
      <3>2. [pending[c] EXCEPT !.chunks = @ + 1] \in Pending
        BY <1>6, <2>3 DEF Pending
      <3>3. PICK n \in Pending : SetPending(c, n)
        BY <2>3, <3>1, <3>2
      <3> QED BY <2>3, <3>3 DEF SetPending, TypeOK, mapVars
    <2>4. CASE \E failed \in BOOLEAN : Known(c) /\ PendingRequestEnded(c, failed)
      <3>1. PICK failed \in BOOLEAN : Known(c) /\ PendingRequestEnded(c, failed)
        BY <2>4
      <3> DEFINE e == [trace |-> pending[c].trace, answer |-> pending[c].answer,
                       chunks |-> pending[c].chunks, failed |-> failed]
      <3>2. pending[c] \in Pending
        BY <1>6, <3>1
      <3>3. e \in Entry /\ pending[c].request \in Requests
        BY <3>2 DEF Pending, Entry
      <3>4. Added(pending[c].request, e) /\ UNCHANGED redirectMap
            /\ pending' = [d \in DOMAIN pending \ {c} |-> pending[d]]
        BY <3>1 DEF PendingRequestEnded
      <3> HIDE DEF e
      <3> QED BY <3>3, <3>4, AddedType DEF TypeOK
    <2> QED BY <2>1, <2>2, <2>3, <2>4
            DEF Network, WillSendRequest, DidReceiveResponse, DidReceiveData, DidEnd
  <1>8. log' \in Seq(Logged) /\ UNCHANGED <<reliable, following, handed>>
    <2>1. CASE UNCHANGED historyVars
      BY <2>1 DEF historyVars, TypeOK
    <2>2. CASE LogEnd(load'[c])
      BY <1>4, <2>2, LogEndType, <1>3 DEF Tells
    <2> QED BY <2>1, <2>2
            DEF Network, WillSendRequest, DidReceiveResponse, DidReceiveData, DidEnd
  <1> QED BY <1>4, <1>5, <1>7, <1>8 DEF TypeOK, sessionVars, cursorVars

LEMMA WithoutType ==
  ASSUME NEW x \in Load, NEW i \in DOMAIN x.plan
  PROVE  Without(x, i) \in Load /\ x.plan[i] \in Item
  <1>1. x.plan \in Seq(Item)
    BY DEF Load
  <1>2. \A plan \in Seq(Item) : \A j \in DOMAIN plan : RemoveAt(plan, j) \in Seq(Item)
    BY DEF RemoveAt
  <1>3. RemoveAt(x.plan, i) \in Seq(Item)
    BY <1>1, <1>2
  <1>4. x.plan[i] \in Item
    BY <1>1
  <1>5. \A plan \in Seq(Item) : [x EXCEPT !.plan = plan] \in Load
    BY DEF Load
  <1>6. Without(x, i) = [x EXCEPT !.plan = RemoveAt(x.plan, i)]
    BY DEF Without, Load
  <1> QED BY <1>3, <1>4, <1>5, <1>6

LEMMA MessageLoopType ==
  ASSUME TypeOK, NEW c \in DOMAIN load, MessageLoop(c)
  PROVE  TypeOK'
  <1>1. load[c] \in Load /\ token \in Nat
    BY DEF TypeOK
  <1>2. CASE RunTask(c)
    <2>1. [load[c] EXCEPT !.posted = "pairs", !.id = token] \in Load
      BY <1>1 DEF Load
    <2>2. load' = [load EXCEPT ![c] = [load[c] EXCEPT !.posted = "pairs", !.id = token]]
      BY <1>2 DEF RunTask
    <2>3. loopUnchanged
      BY <1>2 DEF RunTask
    <2> QED BY <2>1, <2>2, <2>3, OneLoadType
  <1>3. CASE RunMissing(c)
    <2> DEFINE told(v) == [load[c] EXCEPT !.view = v, !.plan = <<>>, !.posted = ""]
               x == load[c]
    <2>1. PICK n \in DOMAIN x.plan :
            \/ load' = [load EXCEPT ![c] = told(Telling(x.view, x.plan)[n])]
            \/ load' = [load EXCEPT ![c] = Cancelled(told(Telling(x.view, x.plan)[n]))]
      BY <1>3 DEF RunMissing
    <2>2. x.view \in View /\ x.plan \in Seq(Item)
      BY <1>1 DEF Load
    <2>3. Telling(x.view, x.plan) \in [0..Len(x.plan) -> View] /\ n \in 0..Len(x.plan)
      BY <2>2, TellingSteps
    <2> DEFINE v == Telling(x.view, x.plan)[n]
    <2>4. v \in View
      BY <2>3
    <2> HIDE DEF v, x
    <2>5. told(v) \in Load
      <3>1. <<>> \in Seq(Item)
        OBVIOUS
      <3>2. \A y \in Load, w \in View : [y EXCEPT !.view = w, !.plan = <<>>, !.posted = ""] \in Load
        BY <3>1 DEF Load
      <3> QED BY <1>1, <2>4, <3>2
    <2> HIDE DEF told
    <2>6. Cancelled(told(v)) \in Load
      BY <2>5, CancelledType
    <2>7. loopUnchanged
      BY <1>3 DEF RunMissing
    <2> QED BY <2>1, <2>5, <2>6, <2>7, OneLoadType DEF v, x
  <1>4. ASSUME NEW i \in DOMAIN load[c].plan, RunPairInject(c, i) \/ RunPairCancel(c, i)
        PROVE  TypeOK'
    <2>1. Without(load[c], i) \in Load /\ load[c].plan[i] \in Item
      BY <1>1, WithoutType
    <2>2. Told(Without(load[c], i), load[c].plan[i]) \in Load
      BY <2>1, ToldType
    <2>3. /\ loopUnchanged
          /\ \/ load' = [load EXCEPT ![c] = Told(Without(load[c], i), load[c].plan[i])]
             \/ load' = [load EXCEPT ![c] = Without(load[c], i)]
      BY <1>4 DEF RunPairInject, RunPairCancel
    <2> QED BY <2>1, <2>2, <2>3, OneLoadType
  <1> QED BY <1>2, <1>3, <1>4 DEF MessageLoop

LEMMA CancelType ==
  ASSUME TypeOK, NEW c \in DOMAIN load, Cancel(c)
  PROVE  TypeOK'
  <1>1. load[c] \in Load
    BY DEF TypeOK
  <1>2. Cancelled(load[c]) \in Load
    BY <1>1, CancelledType
  <1>3. load' = [load EXCEPT ![c] = Cancelled(load[c])] /\ loopUnchanged
    BY DEF Cancel, loopUnchanged
  <1> QED BY <1>2, <1>3, OneLoadType

LEMMA StepType == TypeOK /\ [Next]_vars => TypeOK'
  <1> SUFFICES ASSUME TypeOK, [Next]_vars PROVE TypeOK'
    OBVIOUS
  <1>1. CASE Mode  BY <1>1, ModeType
  <1>2. ASSUME NEW c \in Clients, NEW r \in Requests, NEW trace \in Trace, StartLoad(c, r, trace)
        PROVE  TypeOK'
    BY <1>2, LoadRecordingType, LoadReplayType, SyncRecordingType, SyncReplayType DEF StartLoad
  <1>3. ASSUME NEW c \in DOMAIN load, Cancel(c) PROVE TypeOK'
    BY <1>3, CancelType
  <1>4. ASSUME NEW c \in DOMAIN load, Network(c) PROVE TypeOK'
    BY <1>4, NetworkType
  <1>5. ASSUME NEW c \in DOMAIN load, MessageLoop(c) PROVE TypeOK'
    BY <1>5, MessageLoopType
  <1>6. CASE UNCHANGED vars
    BY <1>6 DEF vars, TypeOK, sessionVars, mapVars, cursorVars, historyVars
  <1> QED BY <1>1, <1>2, <1>3, <1>4, <1>5, <1>6 DEF Next

LEMMA InitType == Init => TypeOK
  <1> SUFFICES ASSUME Init PROVE TypeOK
    OBVIOUS
  <1>1. /\ mode = "idle" /\ token = 0
        /\ pending = NoClient /\ load = NoClient /\ started = 0
        /\ requestMap = [r \in Requests |-> <<>>] /\ requestAt = [r \in Requests |-> 0]
        /\ redirectMap = [r \in Requests |-> <<>>] /\ redirectAt = [r \in Requests |-> 0]
    BY DEF Init, Session!Init
  <1>2. /\ requestMap \in [Requests -> Seq(Entry)] /\ requestAt \in [Requests -> Nat]
        /\ redirectMap \in [Requests -> Seq(Redirect)] /\ redirectAt \in [Requests -> Nat]
        /\ \A r \in Requests : /\ requestAt[r] <= Len(requestMap[r])
                               /\ redirectAt[r] <= Len(redirectMap[r])
    BY <1>1
  <1>3. started \in 0..MaxLoads
    BY <1>1, RequestsAssumption
  <1>4. DOMAIN NoClient = {} /\ NoClient \in [DOMAIN NoClient -> Load] /\ NoClient \in [DOMAIN NoClient -> Pending]
    BY DEF NoClient
  <1>5. log = <<>> /\ handed = <<>> /\ <<>> \in Seq(Logged) /\ <<>> \in Seq(Answer)
    BY DEF Init
  <1>6. reliable \in BOOLEAN /\ following \in BOOLEAN
    BY Zenon DEF Init
  <1> QED BY <1>1, <1>2, <1>3, <1>4, <1>5, <1>6 DEF TypeOK

\* The state keeps to its types, and the cursors of the store never pass the last
\* entry of their request, however replays, loads and messages interleave.
THEOREM TypesAlwaysOK == Spec => []TypeOK
  BY InitType, StepType, PTL DEF Spec
-----------------------------------------------------------------------------
(***************************************************************************)
(* No answer is served twice.                                              *)
(***************************************************************************)
\* The recording under way counts the load of c, and has not seen its end.
Counted(c) == OnWire(c) /\ load[c].token = token

TokensGiven == \A c \in DOMAIN load : load[c].token <= token

\* The answers of a recording are those of different loads.
AnswersDiffer ==
  \A r, q \in Requests : \A i \in DOMAIN requestMap[r], j \in DOMAIN requestMap[q] :
    requestMap[r][i].answer = requestMap[q][j].answer /\ requestMap[r][i].answer # None =>
      r = q /\ i = j

AnswersGiven ==
  mode = "recording" =>
    \A r \in Requests : \A i \in DOMAIN requestMap[r] : requestMap[r][i].answer <= started

\* What a load under way will be stored with is in no entry yet.
LoadsNumbered ==
  mode = "recording" => \A c \in DOMAIN load : Counted(c) =>
    /\ load[c].number <= started
    /\ load[c].view.answer \in {None, load[c].number}
    /\ \A r \in Requests : \A i \in DOMAIN requestMap[r] :
         requestMap[r][i].answer # load[c].number
    /\ \A d \in DOMAIN load : Counted(d) /\ load[d].number = load[c].number => d = c

\* The recorder knows no client by a load of an earlier recording.
KnownIsCounted ==
  mode = "recording" => \A c \in DOMAIN load : OnWire(c) /\ Known(c) => Counted(c)

\* What has been handed out is behind the cursors.
HandedIsPassed ==
  \A k \in DOMAIN handed : handed[k] # None =>
    \E r \in Requests : \E i \in DOMAIN requestMap[r] :
      i <= requestAt[r] /\ requestMap[r][i].answer = handed[k]

ServedInv ==
  /\ TokensGiven
  /\ AnswersDiffer /\ AnswersGiven /\ LoadsNumbered /\ KnownIsCounted
  /\ HandedIsPassed /\ AnswersServedOnce

\* The entries after e was added for r.
OneMore(r, e) ==
  \A q \in Requests :
    /\ \A i \in DOMAIN requestMap'[q] :
         \/ i \in DOMAIN requestMap[q] /\ requestMap'[q][i] = requestMap[q][i]
         \/ q = r /\ i = Len(requestMap[r]) + 1 /\ requestMap'[q][i] = e
    /\ \A i \in DOMAIN requestMap[q] :
         i \in DOMAIN requestMap'[q] /\ requestMap'[q][i] = requestMap[q][i]

LEMMA AddedEntries ==
  ASSUME TypeOK, NEW r \in Requests, NEW e \in Entry, Added(r, e)
  PROVE  OneMore(r, e)
  <1> SUFFICES ASSUME NEW q \in Requests
               PROVE  /\ \A i \in DOMAIN requestMap'[q] :
                           \/ i \in DOMAIN requestMap[q] /\ requestMap'[q][i] = requestMap[q][i]
                           \/ q = r /\ i = Len(requestMap[r]) + 1 /\ requestMap'[q][i] = e
                      /\ \A i \in DOMAIN requestMap[q] :
                           i \in DOMAIN requestMap'[q] /\ requestMap'[q][i] = requestMap[q][i]
    BY DEF OneMore
  <1>1. requestMap[q] \in Seq(Entry) /\ requestMap[r] \in Seq(Entry)
    BY DEF TypeOK
  <1>2. requestMap'[r] = Append(requestMap[r], e)
    BY AddedType
  <1>3. CASE q = r
    BY <1>1, <1>2, <1>3
  <1>4. CASE q # r
    <2>1. requestMap'[q] = requestMap[q]
      BY <1>4, AddedType
    <2> QED BY <2>1
  <1> QED BY <1>3, <1>4

LEMMA AddedDiffer ==
  ASSUME TypeOK, AnswersDiffer, NEW r \in Requests, NEW e \in Entry, Added(r, e),
         \/ e.answer = None
         \/ \A q \in Requests : \A i \in DOMAIN requestMap[q] : requestMap[q][i].answer # e.answer
  PROVE  AnswersDiffer'
  BY AddedEntries DEF AnswersDiffer, OneMore

LEMMA AddedPassed ==
  ASSUME TypeOK, HandedIsPassed, NEW r \in Requests, NEW e \in Entry, Added(r, e),
         UNCHANGED <<requestAt, handed>>
  PROVE  HandedIsPassed'
  <1> SUFFICES ASSUME NEW k \in DOMAIN handed, handed[k] # None
               PROVE  \E q \in Requests : \E i \in DOMAIN requestMap'[q] :
                        i <= requestAt[q] /\ requestMap'[q][i].answer = handed[k]
    BY DEF HandedIsPassed
  <1>1. PICK q \in Requests : \E i \in DOMAIN requestMap[q] :
          i <= requestAt[q] /\ requestMap[q][i].answer = handed[k]
    BY DEF HandedIsPassed
  <1>2. PICK i \in DOMAIN requestMap[q] : i <= requestAt[q] /\ requestMap[q][i].answer = handed[k]
    BY <1>1
  <1>3. i \in DOMAIN requestMap'[q] /\ requestMap'[q][i] = requestMap[q][i]
    BY AddedEntries DEF OneMore
  <1> QED BY <1>2, <1>3

LEMMA ModeServed ==
  ASSUME TypeOK, ServedInv, Mode
  PROVE  ServedInv'
  <1>1. token \in Nat /\ token' = token + 1
    BY DEF TypeOK, Mode, StartRecording, StopRecording, StartReplay, StopReplay,
           Session!StartRecording, Session!StopRecording, Session!StartReplay,
           Session!StopReplay
  <1>2. \A c \in DOMAIN load : load[c].token \in Nat /\ load[c].token <= token
    BY DEF TypeOK, ServedInv, TokensGiven, Load
  <1>3. /\ DOMAIN load' = DOMAIN load
        /\ \A c \in DOMAIN load : load'[c].token = load[c].token
    <2>1. \A x \in Load : Cancelled(x).token = x.token
      BY DEF Cancelled, Load
    <2>2. \A c \in DOMAIN load : load'[c] \in {load[c], Cancelled(load[c])}
      BY DEF Mode, StartRecording, StopRecording, StartReplay, StopReplay, ReloadPage
    <2>3. DOMAIN load' = DOMAIN load
      BY DEF Mode, StartRecording, StopRecording, StartReplay, StopReplay, ReloadPage
    <2>4. \A c \in DOMAIN load : load[c] \in Load
      BY DEF TypeOK
    <2> QED BY <2>1, <2>2, <2>3, <2>4
  <1>4. TokensGiven' /\ \A c \in DOMAIN load' : ~ Counted(c)'
    BY <1>1, <1>2, <1>3 DEF TokensGiven, Counted
  <1>5. LoadsNumbered'
    BY <1>4 DEF LoadsNumbered
  <1>6. CASE StartRecording
    <2>1. /\ requestMap' = [r \in Requests |-> <<>>] /\ handed' = <<>> /\ pending' = NoClient
      BY <1>6 DEF StartRecording, BeginLog
    <2>2. \A r \in Requests : DOMAIN requestMap'[r] = {}
      BY <2>1
    <2>3. DOMAIN handed' = {} /\ DOMAIN pending' = {}
      BY <2>1 DEF NoClient
    <2> QED BY <1>4, <1>5, <2>2, <2>3 DEF ServedInv, AnswersDiffer, AnswersGiven, KnownIsCounted,
               Known, HandedIsPassed, AnswersServedOnce
  <1>7. CASE StartReplay
    <2>1. mode' # "recording" /\ handed' = <<>> /\ UNCHANGED requestMap
      BY <1>7 DEF StartReplay, Session!StartReplay, mapVars
    <2>2. DOMAIN handed' = {}
      BY <2>1
    <2> QED BY <1>4, <1>5, <2>1, <2>2 DEF ServedInv, AnswersDiffer, AnswersGiven, KnownIsCounted,
               HandedIsPassed, AnswersServedOnce
  <1>8. CASE StopRecording \/ StopReplay
    <2>1. mode' # "recording" /\ UNCHANGED <<requestMap, requestAt, handed>>
      BY <1>8 DEF StopRecording, StopReplay, Session!StopRecording, Session!StopReplay, EndLog,
         mapVars, cursorVars, historyVars
    <2> QED BY <1>4, <1>5, <2>1 DEF ServedInv, AnswersDiffer, AnswersGiven, KnownIsCounted,
               HandedIsPassed, AnswersServedOnce
  <1> QED BY <1>6, <1>7, <1>8 DEF Mode

\* A load that is of no recording under way, or not any more, is told something.
LEMMA OneLoadServed ==
  ASSUME TypeOK, ServedInv, NEW c \in DOMAIN load, NEW x, load' = [load EXCEPT ![c] = x],
         loopUnchanged, x.token = load[c].token, x.via # "wire" \/ x.view.end # ""
  PROVE  ServedInv'
  <1>1. /\ DOMAIN load' = DOMAIN load /\ load'[c] = x
        /\ \A d \in DOMAIN load \ {c} : load'[d] = load[d]
    BY DEF TypeOK
  <1>2. /\ mode' = mode /\ token' = token /\ pending' = pending /\ requestMap' = requestMap
        /\ requestAt' = requestAt /\ started' = started /\ handed' = handed
    BY DEF loopUnchanged, sessionVars, mapVars, cursorVars, historyVars
  <1>4. TokensGiven'
    BY <1>1, <1>2 DEF ServedInv, TokensGiven
  <1>5. LoadsNumbered'
    <2> SUFFICES ASSUME mode' = "recording", NEW d \in DOMAIN load', Counted(d)'
                 PROVE  /\ load'[d].number <= started'
                        /\ load'[d].view.answer \in {None, load'[d].number}
                        /\ \A r \in Requests : \A i \in DOMAIN requestMap'[r] :
                             requestMap'[r][i].answer # load'[d].number
                        /\ \A b \in DOMAIN load' :
                             Counted(b)' /\ load'[b].number = load'[d].number => b = d
      BY DEF LoadsNumbered
    <2>1. mode = "recording" /\ d \in DOMAIN load /\ d # c /\ Counted(d) /\ load'[d] = load[d]
      BY <1>1, <1>2 DEF Counted, OnWire, Open
    <2>2. /\ load[d].number <= started
          /\ load[d].view.answer \in {None, load[d].number}
          /\ \A r \in Requests : \A i \in DOMAIN requestMap[r] :
               requestMap[r][i].answer # load[d].number
      BY <2>1 DEF ServedInv, LoadsNumbered
    <2>3. ASSUME NEW b \in DOMAIN load', Counted(b)', load'[b].number = load'[d].number PROVE b = d
      <3>1. b \in DOMAIN load /\ b # c /\ Counted(b) /\ load'[b] = load[b]
        BY <1>1, <1>2, <2>3 DEF Counted, OnWire, Open
      <3> QED BY <2>1, <2>3, <3>1 DEF ServedInv, LoadsNumbered
    <2> QED BY <1>2, <2>1, <2>2, <2>3
  <1>6. KnownIsCounted'
    <2> SUFFICES ASSUME mode' = "recording", NEW d \in DOMAIN load', OnWire(d)', Known(d)'
                 PROVE  Counted(d)'
      BY DEF KnownIsCounted
    <2>1. d # c /\ OnWire(d) /\ d \in DOMAIN load /\ Known(d) /\ mode = "recording"
      <3>1. d # c /\ OnWire(d) /\ d \in DOMAIN load
        BY <1>1, <1>2 DEF OnWire, Open
      <3> QED BY <1>2, <3>1 DEF Known
    <2>2. Counted(d)
      BY <2>1 DEF ServedInv, KnownIsCounted
    <2> QED BY <1>1, <1>2, <2>1, <2>2 DEF Counted, OnWire, Open
  <1>7. AnswersDiffer'
    BY <1>2 DEF ServedInv, AnswersDiffer
  <1>8. AnswersGiven'
    BY <1>2 DEF ServedInv, AnswersGiven
  <1>9. HandedIsPassed' /\ AnswersServedOnce'
    BY <1>2 DEF ServedInv, HandedIsPassed, AnswersServedOnce
  <1> QED BY <1>8, <1>9, <1>4, <1>5, <1>6, <1>7 DEF ServedInv

\* What stays of a load, whatever happens to it.
LEMMA LoadStays ==
  ASSUME NEW x \in Load
  PROVE  /\ Cancelled(x).token = x.token /\ Cancelled(x).via = x.via
         /\ Cancelled(x).number = x.number /\ Cancelled(x).view.end = "cancel"
         /\ \A i : /\ Without(x, i).token = x.token /\ Without(x, i).via = x.via
                   /\ Without(x, i).number = x.number /\ Without(x, i).view = x.view
         /\ \A item : /\ Told(x, item).token = x.token /\ Told(x, item).via = x.via
                      /\ Told(x, item).number = x.number
                      /\ Told(x, item).view = Tell(x.view, item)
  <1>1. Cancelled(x).token = x.token /\ Cancelled(x).via = x.via
        /\ Cancelled(x).number = x.number /\ Cancelled(x).view.end = "cancel"
    BY DEF Cancelled, Load, View
  <1>2. \A i : /\ Without(x, i).token = x.token /\ Without(x, i).via = x.via
               /\ Without(x, i).number = x.number /\ Without(x, i).view = x.view
    BY DEF Without, Load
  <1>3. ASSUME NEW item
        PROVE  /\ Told(x, item).token = x.token /\ Told(x, item).via = x.via
               /\ Told(x, item).number = x.number
               /\ Told(x, item).view = Tell(x.view, item)
    BY DEF Told, Load
  <1> QED BY <1>1, <1>2, <1>3

LEMMA CancelServed ==
  ASSUME TypeOK, ServedInv, NEW c \in DOMAIN load, Cancel(c)
  PROVE  ServedInv'
  <1>1. load[c] \in Load
    BY DEF TypeOK
  <1>2. load' = [load EXCEPT ![c] = Cancelled(load[c])] /\ loopUnchanged
    BY DEF Cancel, loopUnchanged
  <1>3. Cancelled(load[c]).token = load[c].token /\ Cancelled(load[c]).view.end # ""
    BY <1>1, LoadStays
  <1> QED BY <1>2, <1>3, OneLoadServed

LEMMA MessageLoopServed ==
  ASSUME TypeOK, PendingInv, ServedInv, NEW c \in DOMAIN load, MessageLoop(c)
  PROVE  ServedInv'
  <1>1. load[c] \in Load /\ Wire(load[c], token)
    BY DEF TypeOK, PendingInv
  <1>2. load[c].posted # "" /\ loopUnchanged
    BY DEF MessageLoop, RunTask, RunMissing, RunPairInject, RunPairCancel, Fires
  <1>3. load[c].via # "wire"
    BY <1>1, <1>2 DEF Wire
  <1>4. PICK x : load' = [load EXCEPT ![c] = x] /\ x.token = load[c].token /\ x.via = load[c].via
    <2>1. CASE RunTask(c)
      <3> DEFINE x == [load[c] EXCEPT !.posted = "pairs", !.id = token]
      <3>1. load' = [load EXCEPT ![c] = x] /\ x.token = load[c].token /\ x.via = load[c].via
        BY <1>1, <2>1 DEF RunTask, Load
      <3> HIDE DEF x
      <3> QED BY <3>1
    <2>2. CASE RunMissing(c)
      <3> DEFINE told(v) == [load[c] EXCEPT !.view = v, !.plan = <<>>, !.posted = ""]
      <3>1. PICK v : \/ load' = [load EXCEPT ![c] = told(v)]
                     \/ load' = [load EXCEPT ![c] = Cancelled(told(v))]
        BY <2>2 DEF RunMissing
      <3>2. told(v).token = load[c].token /\ told(v).via = load[c].via
        BY <1>1 DEF Load
      <3>3. Cancelled(told(v)).token = load[c].token /\ Cancelled(told(v)).via = load[c].via
        BY <1>1 DEF Load, Cancelled
      <3> HIDE DEF told
      <3> QED BY <3>1, <3>2, <3>3
    <2>3. ASSUME NEW i \in DOMAIN load[c].plan, RunPairInject(c, i) \/ RunPairCancel(c, i)
          PROVE  \E x : load' = [load EXCEPT ![c] = x] /\ x.token = load[c].token /\ x.via = load[c].via
      <3> DEFINE w == Without(load[c], i)
                 t == Told(w, load[c].plan[i])
      <3>1. w \in Load /\ w.token = load[c].token /\ w.via = load[c].via
        BY <1>1, LoadStays, WithoutType
      <3> HIDE DEF w
      <3>2. t.token = load[c].token /\ t.via = load[c].via
        BY <3>1, LoadStays
      <3>3. load' = [load EXCEPT ![c] = t] \/ load' = [load EXCEPT ![c] = w]
        BY <2>3 DEF RunPairInject, RunPairCancel, w
      <3> HIDE DEF t
      <3> QED BY <3>1, <3>2, <3>3
    <2> QED BY <2>1, <2>2, <2>3 DEF MessageLoop
  <1> QED BY <1>2, <1>3, <1>4, OneLoadServed

\* A recorded load goes on.
LEMMA CountedServed ==
  ASSUME TypeOK, ServedInv, mode = "recording", NEW c \in DOMAIN load, Counted(c),
         NEW x, load' = [load EXCEPT ![c] = x],
         x.token = load[c].token, x.number = load[c].number,
         x.view.answer \in {None, load[c].number},
         UNCHANGED <<mode, token, requestMap, requestAt, started, handed>>,
         DOMAIN pending' = DOMAIN pending
  PROVE  ServedInv'
  <1>1. /\ DOMAIN load' = DOMAIN load /\ load'[c] = x
        /\ \A d \in DOMAIN load \ {c} : load'[d] = load[d]
    BY DEF TypeOK
  <1>2. TokensGiven'
    BY <1>1 DEF ServedInv, TokensGiven
  <1>3. LoadsNumbered'
    <2> SUFFICES ASSUME NEW d \in DOMAIN load', Counted(d)'
                 PROVE  /\ load'[d].number <= started
                        /\ load'[d].view.answer \in {None, load'[d].number}
                        /\ \A r \in Requests : \A i \in DOMAIN requestMap[r] :
                             requestMap[r][i].answer # load'[d].number
                        /\ \A b \in DOMAIN load' :
                             Counted(b)' /\ load'[b].number = load'[d].number => b = d
      BY DEF LoadsNumbered
    <2>1. d \in DOMAIN load /\ Counted(d) /\ load'[d].number = load[d].number
      BY <1>1 DEF Counted, OnWire, Open
    <2>2. /\ load[d].number <= started
          /\ load[d].view.answer \in {None, load[d].number}
          /\ \A r \in Requests : \A i \in DOMAIN requestMap[r] :
               requestMap[r][i].answer # load[d].number
      BY <2>1 DEF ServedInv, LoadsNumbered
    <2>3. ASSUME NEW b \in DOMAIN load', Counted(b)', load'[b].number = load'[d].number PROVE b = d
      <3>1. b \in DOMAIN load /\ Counted(b) /\ load'[b].number = load[b].number
        BY <1>1, <2>3 DEF Counted, OnWire, Open
      <3> QED BY <2>1, <2>3, <3>1 DEF ServedInv, LoadsNumbered
    <2>4. load'[d].view.answer \in {None, load'[d].number}
      BY <1>1, <2>1, <2>2
    <2> QED BY <2>1, <2>2, <2>3, <2>4
  <1>4. KnownIsCounted'
    <2> SUFFICES ASSUME NEW d \in DOMAIN load', OnWire(d)', Known(d)'
                 PROVE  Counted(d)'
      BY DEF KnownIsCounted
    <2>1. CASE d = c
      BY <1>1, <2>1 DEF Counted
    <2>2. CASE d # c
      <3>1. d \in DOMAIN load /\ OnWire(d) /\ Known(d) /\ load'[d] = load[d]
        BY <1>1, <2>2 DEF OnWire, Open, Known
      <3>2. Counted(d)
        BY <3>1 DEF ServedInv, KnownIsCounted
      <3> QED BY <3>1, <3>2 DEF Counted
    <2> QED BY <2>1, <2>2
  <1>5. AnswersDiffer'
    BY DEF ServedInv, AnswersDiffer
  <1>6. AnswersGiven'
    BY DEF ServedInv, AnswersGiven
  <1>7. HandedIsPassed' /\ AnswersServedOnce'
    BY DEF ServedInv, HandedIsPassed, AnswersServedOnce
  <1> QED BY <1>2, <1>3, <1>4, <1>5, <1>6, <1>7 DEF ServedInv

\* A load is told something, and nobody records.
LEMMA UncountedServed ==
  ASSUME TypeOK, ServedInv, mode # "recording", NEW c \in DOMAIN load,
         NEW x, load' = [load EXCEPT ![c] = x], x.token = load[c].token,
         UNCHANGED <<mode, token, requestMap, requestAt, handed>>
  PROVE  ServedInv'
  <1>1. TokensGiven'
    BY DEF ServedInv, TokensGiven, TypeOK
  <1>2. AnswersDiffer'
    BY DEF ServedInv, AnswersDiffer
  <1>3. HandedIsPassed' /\ AnswersServedOnce'
    BY DEF ServedInv, HandedIsPassed, AnswersServedOnce
  <1> QED BY <1>1, <1>2, <1>3 DEF ServedInv, LoadsNumbered, KnownIsCounted, AnswersGiven

LEMMA Numbers ==
  ASSUME TypeOK
  PROVE  /\ None <= started /\ started \in Nat /\ token \in Nat
         /\ \A c \in DOMAIN load : load[c].number # None /\ load[c].number \in Nat
         /\ \A r \in Requests : \A i \in DOMAIN requestMap[r] : requestMap[r][i].answer \in Int
  <1>1. started \in 0..MaxLoads
    BY DEF TypeOK
  <1>2. \A x \in Load : x.number \in 1..MaxLoads
    BY DEF Load
  <1>3. \A e \in Entry : e.answer \in Answer
    BY DEF Entry
  <1>4. Answer \subseteq Int
    BY RequestsAssumption DEF Answer
  <1>5. \A r \in Requests : requestMap[r] \in Seq(Entry)
    BY DEF TypeOK
  <1> QED BY <1>1, <1>2, <1>3, <1>4, <1>5, RequestsAssumption DEF None, TypeOK

\* A recorded load ends and is stored.
LEMMA EndedServed ==
  ASSUME TypeOK, PendingInv, ServedInv, mode = "recording", NEW c \in DOMAIN load, Counted(c),
         Known(c), NEW r \in Requests, NEW e \in Entry, Added(r, e), e.answer = pending[c].answer,
         pending' = [d \in DOMAIN pending \ {c} |-> pending[d]],
         NEW x, load' = [load EXCEPT ![c] = x], x.token = load[c].token, x.view.end # "",
         UNCHANGED <<mode, token, requestAt, started, handed>>
  PROVE  ServedInv'
  <1>4. e.answer \in {None, load[c].number}
    <2>1. pending[c].answer = load[c].view.answer
      BY DEF PendingInv, PendingIsWhatWasTold, Counted
    <2> QED BY <2>1 DEF ServedInv, LoadsNumbered
  <1>5. load[c].number <= started /\ \A q \in Requests : \A i \in DOMAIN requestMap[q] :
          requestMap[q][i].answer # load[c].number
    BY DEF ServedInv, LoadsNumbered
  <1>6. AnswersDiffer'
    BY <1>4, <1>5, AddedDiffer DEF ServedInv
  <1>7. OneMore(r, e)
    BY AddedEntries
  <1>8. AnswersGiven'
    <2>1. None <= started
      BY Numbers
    <2> QED BY <1>4, <1>5, <1>7, <2>1 DEF ServedInv, AnswersGiven, OneMore
  <1>9. HandedIsPassed'
    BY AddedPassed DEF ServedInv
  <1>10. /\ DOMAIN load' = DOMAIN load /\ load'[c] = x
         /\ \A d \in DOMAIN load \ {c} : load'[d] = load[d]
    BY DEF TypeOK
  <1>11. TokensGiven'
    BY <1>10 DEF ServedInv, TokensGiven
  <1>12. LoadsNumbered'
    <2> SUFFICES ASSUME NEW d \in DOMAIN load', Counted(d)'
                 PROVE  /\ load'[d].number <= started
                        /\ load'[d].view.answer \in {None, load'[d].number}
                        /\ \A q \in Requests : \A i \in DOMAIN requestMap'[q] :
                             requestMap'[q][i].answer # load'[d].number
                        /\ \A b \in DOMAIN load' :
                             Counted(b)' /\ load'[b].number = load'[d].number => b = d
      BY DEF LoadsNumbered
    <2>1. d \in DOMAIN load /\ d # c /\ Counted(d) /\ load'[d] = load[d]
      BY <1>10 DEF Counted, OnWire, Open
    <2>2. /\ load[d].number <= started
          /\ load[d].view.answer \in {None, load[d].number}
          /\ load[d].number # load[c].number
          /\ \A q \in Requests : \A i \in DOMAIN requestMap[q] :
               requestMap[q][i].answer # load[d].number
      BY <2>1 DEF ServedInv, LoadsNumbered
    <2>3. load[d].number # None
      BY <2>1, Numbers
    <2>4. \A q \in Requests : \A i \in DOMAIN requestMap'[q] :
            requestMap'[q][i].answer # load[d].number
      BY <1>4, <1>7, <2>2, <2>3 DEF OneMore
    <2>5. ASSUME NEW b \in DOMAIN load', Counted(b)', load'[b].number = load'[d].number PROVE b = d
      <3>1. b \in DOMAIN load /\ Counted(b) /\ load'[b] = load[b]
        BY <1>10, <2>5 DEF Counted, OnWire, Open
      <3> QED BY <2>1, <2>5, <3>1 DEF ServedInv, LoadsNumbered
    <2> QED BY <2>1, <2>2, <2>4, <2>5
  <1>13. KnownIsCounted'
    <2> SUFFICES ASSUME NEW d \in DOMAIN load', OnWire(d)', Known(d)'
                 PROVE  Counted(d)'
      BY DEF KnownIsCounted
    <2>1. d # c /\ d \in DOMAIN pending
      BY DEF Known
    <2>2. d \in DOMAIN load /\ OnWire(d) /\ Known(d) /\ load'[d] = load[d]
      BY <1>10, <2>1 DEF OnWire, Open, Known
    <2>3. Counted(d)
      BY <2>2 DEF ServedInv, KnownIsCounted
    <2> QED BY <2>2, <2>3 DEF Counted
  <1>14. AnswersServedOnce'
    BY DEF ServedInv, AnswersServedOnce
  <1> QED BY <1>6, <1>8, <1>9, <1>11, <1>12, <1>13, <1>14 DEF ServedInv

LEMMA NetworkServed ==
  ASSUME TypeOK, PendingInv, ServedInv, NEW c \in DOMAIN load, Network(c)
  PROVE  ServedInv'
  <1>1. load[c] \in Load /\ OnWire(c)
    BY DEF TypeOK, Network, WillSendRequest, DidReceiveResponse, DidReceiveData, DidEnd
  <1>2. UNCHANGED <<mode, token, requestAt, started>>
    BY DEF Network, WillSendRequest, DidReceiveResponse, DidReceiveData, DidEnd, sessionVars, cursorVars
  <1>3. UNCHANGED handed
    BY DEF Network, WillSendRequest, DidReceiveResponse, DidReceiveData, DidEnd, historyVars, LogEnd
  <1>4. CASE mode # "recording"
    <2>1. PICK item : Tells(c, item) /\ UNCHANGED requestMap
      BY <1>4 DEF Network, WillSendRequest, DidReceiveResponse, DidReceiveData, DidEnd, Unrecorded, mapVars
    <2> DEFINE x == Told(load[c], item)
    <2>2. load' = [load EXCEPT ![c] = x] /\ x.token = load[c].token
      BY <1>1, <2>1, LoadStays DEF Tells
    <2> HIDE DEF x
    <2> QED BY <1>2, <1>3, <1>4, <2>1, <2>2, UncountedServed
  <1>5. CASE mode = "recording"
    <2>1. Known(c)
      BY <1>5 DEF Network, WillSendRequest, DidReceiveResponse, DidReceiveData, DidEnd, Unrecorded
    <2>2. Counted(c)
      BY <1>1, <1>5, <2>1 DEF ServedInv, KnownIsCounted
    <2>3. load[c].view.answer \in {None, load[c].number} /\ load[c].view \in View
      BY <1>1, <1>5, <2>2 DEF ServedInv, LoadsNumbered, Load
    <2>4. ASSUME NEW item, Tells(c, item), DOMAIN pending' = DOMAIN pending, UNCHANGED requestMap,
                 Tell(load[c].view, item).answer \in {None, load[c].number}
          PROVE  ServedInv'
      <3> DEFINE x == Told(load[c], item)
      <3>1. /\ load' = [load EXCEPT ![c] = x] /\ x.token = load[c].token
            /\ x.number = load[c].number /\ x.view.answer \in {None, load[c].number}
        BY <1>1, <2>4, LoadStays DEF Tells
      <3> HIDE DEF x
      <3> QED BY <1>2, <1>3, <1>5, <2>2, <2>4, <3>1, CountedServed
    <2>5. ASSUME NEW r \in Requests, WillSendRequest(c, r) PROVE ServedInv'
      <3> DEFINE item == [what |-> "redirect", to |-> r]
      <3>1. Tells(c, item) /\ DOMAIN pending' = DOMAIN pending /\ UNCHANGED requestMap
        BY <1>5, <2>5 DEF WillSendRequest, Unrecorded, AddPendingRedirect, SetPending
      <3>2. Tell(load[c].view, item).answer = load[c].view.answer
        BY <2>3 DEF Tell, View
      <3> HIDE DEF item
      <3> QED BY <2>3, <2>4, <3>1, <3>2
    <2>6. CASE DidReceiveResponse(c)
      <3> DEFINE item == [what |-> "response", answer |-> load[c].number]
      <3>1. Tells(c, item) /\ DOMAIN pending' = DOMAIN pending /\ UNCHANGED requestMap
        BY <1>5, <2>6 DEF DidReceiveResponse, Unrecorded, SetPending, mapVars
      <3>2. Tell(load[c].view, item).answer = load[c].number
        BY <2>3 DEF Tell, View
      <3> HIDE DEF item
      <3> QED BY <2>4, <3>1, <3>2
    <2>7. CASE DidReceiveData(c)
      <3> DEFINE item == [what |-> "data", chunks |-> 1]
      <3>1. Tells(c, item) /\ DOMAIN pending' = DOMAIN pending /\ UNCHANGED requestMap
        BY <1>5, <2>7 DEF DidReceiveData, Unrecorded, SetPending, mapVars
      <3>2. Tell(load[c].view, item).answer = load[c].view.answer
        BY <2>3 DEF Tell, View
      <3> HIDE DEF item
      <3> QED BY <2>3, <2>4, <3>1, <3>2
    <2>8. ASSUME NEW failed \in BOOLEAN, DidEnd(c, failed) PROVE ServedInv'
      <3> DEFINE item == [what |-> End(failed)]
                 e == [trace |-> pending[c].trace, answer |-> pending[c].answer,
                       chunks |-> pending[c].chunks, failed |-> failed]
                 x == Told(load[c], item)
                 r == pending[c].request
      <3>1. /\ Tells(c, item) /\ Added(r, e)
            /\ pending' = [d \in DOMAIN pending \ {c} |-> pending[d]]
        BY <1>5, <2>8 DEF DidEnd, Unrecorded, PendingRequestEnded
      <3>2. pending[c] \in Pending
        BY <2>1 DEF Known, TypeOK
      <3>3. e \in Entry /\ e.answer = pending[c].answer /\ r \in Requests
        BY <3>2 DEF Pending, Entry
      <3>4. load' = [load EXCEPT ![c] = x] /\ x.token = load[c].token
            /\ x.view = Tell(load[c].view, item)
        BY <1>1, <3>1, LoadStays DEF Tells
      <3>5. Tell(load[c].view, item).end # ""
        BY <2>3 DEF Tell, View, End
      <3> HIDE DEF item, e, x, r
      <3> QED BY <1>2, <1>3, <1>5, <2>1, <2>2, <3>1, <3>3, <3>4, <3>5, EndedServed
    <2> QED BY <2>5, <2>6, <2>7, <2>8 DEF Network
  <1> QED BY <1>4, <1>5

\* A load begins in a recording.
LEMMA BegunLoads ==
  ASSUME TypeOK, NEW c, NEW x, Begin(c, x)
  PROVE  /\ DOMAIN load' = DOMAIN load \cup {c} /\ load'[c] = x
         /\ \A d \in DOMAIN load \ {c} : load'[d] = load[d]
         /\ started' = started + 1
  BY DEF Begin

LEMMA LoadRecordingServed ==
  ASSUME TypeOK, ServedInv, NEW c \in Clients, NEW r \in Requests, NEW trace \in Trace,
         LoadRecording(c, r, trace)
  PROVE  ServedInv'
  <1> DEFINE x == NewLoad(r, "wire", FALSE, 0)
  <1>1. /\ mode = "recording" /\ mode' = mode /\ token' = token
        /\ UNCHANGED <<requestMap, requestAt, handed>>
    BY DEF LoadRecording, sessionVars, mapVars, cursorVars, LogBegin
  <1>2. Begin(c, x) /\ x.token = token /\ x.number = started + 1 /\ x.view.answer = None
    BY DEF LoadRecording, NewLoad, Fresh
  <1>3. DOMAIN pending' = DOMAIN pending \cup {c}
    BY DEF LoadRecording, InitPendingRequest
  <1> HIDE DEF x
  <1>4. /\ DOMAIN load' = DOMAIN load \cup {c} /\ load'[c] = x
        /\ \A d \in DOMAIN load \ {c} : load'[d] = load[d]
        /\ started' = started + 1
    BY <1>2, BegunLoads
  <1>5. \A q \in Requests : \A i \in DOMAIN requestMap[q] :
          requestMap[q][i].answer <= started /\ requestMap[q][i].answer \in Int
    BY <1>1, Numbers DEF ServedInv, AnswersGiven
  <1>6. started \in Nat /\ token \in Nat
    BY Numbers
  <1>7. TokensGiven'
    BY <1>1, <1>2, <1>4, <1>6 DEF ServedInv, TokensGiven
  <1>8. ASSUME NEW d \in DOMAIN load', Counted(d)', d # c
        PROVE  /\ d \in DOMAIN load /\ Counted(d) /\ load'[d] = load[d]
               /\ load[d].number <= started /\ load[d].number \in Nat
               /\ load[d].view.answer \in {None, load[d].number}
               /\ \A q \in Requests : \A i \in DOMAIN requestMap[q] :
                    requestMap[q][i].answer # load[d].number
    <2>1. d \in DOMAIN load /\ Counted(d) /\ load'[d] = load[d]
      BY <1>1, <1>4, <1>8 DEF Counted, OnWire, Open
    <2>2. load[d].number \in Nat
      BY <2>1, Numbers
    <2> QED BY <1>1, <2>1, <2>2 DEF ServedInv, LoadsNumbered
  <1>9. LoadsNumbered'
    <2> SUFFICES ASSUME NEW d \in DOMAIN load', Counted(d)'
                 PROVE  /\ load'[d].number <= started + 1
                        /\ load'[d].view.answer \in {None, load'[d].number}
                        /\ \A q \in Requests : \A i \in DOMAIN requestMap[q] :
                             requestMap[q][i].answer # load'[d].number
                        /\ \A b \in DOMAIN load' :
                             Counted(b)' /\ load'[b].number = load'[d].number => b = d
      BY <1>1, <1>4 DEF LoadsNumbered
    <2>1. CASE d = c
      <3>1. ASSUME NEW b \in DOMAIN load', Counted(b)', load'[b].number = load'[d].number, b # c
            PROVE  FALSE
        <4>1. load'[b] = load[b] /\ load[b].number <= started /\ load[b].number \in Nat
          BY <1>8, <3>1
        <4> QED BY <1>2, <1>4, <1>6, <2>1, <3>1, <4>1
      <3> QED BY <1>2, <1>4, <1>5, <1>6, <2>1, <3>1
    <2>2. CASE d # c
      <3>1. /\ d \in DOMAIN load /\ Counted(d) /\ load'[d] = load[d]
            /\ load[d].number <= started /\ load[d].number \in Nat
            /\ load[d].view.answer \in {None, load[d].number}
            /\ \A q \in Requests : \A i \in DOMAIN requestMap[q] :
                 requestMap[q][i].answer # load[d].number
        BY <1>8, <2>2
      <3>2. ASSUME NEW b \in DOMAIN load', Counted(b)', load'[b].number = load'[d].number
            PROVE  b = d
        <4>1. CASE b = c  BY <1>2, <1>4, <1>6, <3>1, <3>2, <4>1
        <4>2. CASE b # c
          <5>1. b \in DOMAIN load /\ Counted(b) /\ load'[b] = load[b]
            BY <1>8, <3>2, <4>2
          <5> QED BY <1>1, <3>1, <3>2, <5>1 DEF ServedInv, LoadsNumbered
        <4> QED BY <4>1, <4>2
      <3> QED BY <1>6, <3>1, <3>2
    <2> QED BY <2>1, <2>2
  <1>10. KnownIsCounted'
    <2> SUFFICES ASSUME NEW d \in DOMAIN load', OnWire(d)', Known(d)'
                 PROVE  Counted(d)'
      BY DEF KnownIsCounted
    <2>1. CASE d = c  BY <1>1, <1>2, <1>4, <2>1 DEF Counted
    <2>2. CASE d # c
      <3>1. d \in DOMAIN load /\ OnWire(d) /\ Known(d) /\ load'[d] = load[d]
        BY <1>3, <1>4, <2>2 DEF OnWire, Open, Known
      <3>2. Counted(d)
        BY <1>1, <3>1 DEF ServedInv, KnownIsCounted
      <3> QED BY <1>1, <3>1, <3>2 DEF Counted
    <2> QED BY <2>1, <2>2
  <1>11. AnswersGiven'
    BY <1>1, <1>4, <1>5, <1>6 DEF AnswersGiven
  <1>12. AnswersDiffer' /\ HandedIsPassed' /\ AnswersServedOnce'
    BY <1>1 DEF ServedInv, AnswersDiffer, HandedIsPassed, AnswersServedOnce
  <1> QED BY <1>7, <1>9, <1>10, <1>11, <1>12 DEF ServedInv

LEMMA NotYet == ASSUME NEW s \in Int PROVE \A n \in Int : n <= s => n # s + 1 /\ n <= s + 1
  OBVIOUS

LEMMA SyncRecordingServed ==
  ASSUME TypeOK, ServedInv, NEW c \in Clients, NEW r \in Requests, NEW trace \in Trace,
         SyncRecording(c, r, trace)
  PROVE  ServedInv'
  <1> DEFINE ee(chunks, failed) ==
               [trace |-> trace, answer |-> started + 1, chunks |-> chunks, failed |-> failed]
             xx(chunks, failed) == Answered(NewLoad(r, "wire", TRUE, 0), ee(chunks, failed))
  <1>1. /\ mode = "recording" /\ mode' = mode /\ token' = token /\ started < MaxLoads
        /\ UNCHANGED <<pending, requestAt>>
    BY DEF SyncRecording, MayLoad, sessionVars, cursorVars
  <1>2. UNCHANGED handed
    BY DEF SyncRecording, LogEnd
  <1>3. PICK e, x :
          /\ e \in Entry /\ Added(r, e) /\ Begin(c, x) /\ e.answer = started + 1
          /\ x.token = token /\ x.view.end # ""
    <2>1. PICK chunks \in 0..MaxChunks, failed \in BOOLEAN :
            Added(r, ee(chunks, failed)) /\ Begin(c, xx(chunks, failed))
      BY DEF SyncRecording
    <2>2. ee(chunks, failed) \in Entry /\ ee(chunks, failed).answer = started + 1
      <3>1. started + 1 \in Answer /\ chunks \in Nat
        BY <1>1, RequestsAssumption DEF TypeOK, Answer
      <3> QED BY <3>1 DEF Entry
    <2>3. xx(chunks, failed).token = token /\ xx(chunks, failed).view.end # ""
      BY DEF Answered, NewLoad, End
    <2> HIDE DEF ee, xx
    <2> QED BY <2>1, <2>2, <2>3
  <1>4. /\ DOMAIN load' = DOMAIN load \cup {c} /\ load'[c] = x
        /\ \A d \in DOMAIN load \ {c} : load'[d] = load[d]
        /\ started' = started + 1
    BY <1>3, BegunLoads
  <1>5. \A q \in Requests : \A i \in DOMAIN requestMap[q] :
          requestMap[q][i].answer <= started /\ requestMap[q][i].answer \in Int
    BY <1>1, Numbers DEF ServedInv, AnswersGiven
  <1>6. started \in Nat /\ token \in Nat
    BY Numbers
  <1>7. OneMore(r, e)
    BY <1>3, AddedEntries
  <1>8. TokensGiven'
    <2> SUFFICES ASSUME NEW d \in DOMAIN load' PROVE load'[d].token <= token
      BY <1>1 DEF TokensGiven
    <2>1. CASE d = c
      <3>1. load'[d].token = token
        BY <1>3, <1>4, <2>1
      <3>2. token <= token
        BY <1>6
      <3> QED BY <3>1, <3>2
    <2>2. CASE d # c
      <3>1. d \in DOMAIN load /\ load'[d] = load[d]
        BY <1>4, <2>2
      <3> QED BY <3>1 DEF ServedInv, TokensGiven
    <2> QED BY <2>1, <2>2
  <1>9. AnswersGiven'
    <2> SUFFICES ASSUME NEW q \in Requests, NEW i \in DOMAIN requestMap'[q]
                 PROVE  requestMap'[q][i].answer <= started + 1
      BY <1>4 DEF AnswersGiven
    <2>1. CASE i \in DOMAIN requestMap[q] /\ requestMap'[q][i] = requestMap[q][i]
      <3>1. requestMap[q][i].answer <= started /\ requestMap[q][i].answer \in Int
        BY <1>5, <2>1
      <3>2. requestMap[q][i].answer <= started + 1
        BY <1>6, <3>1, NotYet
      <3> QED BY <2>1, <3>2
    <2>2. CASE requestMap'[q][i] = e
      <3>1. started + 1 <= started + 1
        BY <1>6
      <3> QED BY <1>3, <2>2, <3>1
    <2> QED BY <1>7, <2>1, <2>2 DEF OneMore
  <1>10. AnswersDiffer'
    <2>1. \A q \in Requests : \A i \in DOMAIN requestMap[q] : requestMap[q][i].answer # e.answer
      <3>1. \A n \in Int : n <= started => n # started + 1
        BY <1>6, NotYet
      <3> QED BY <1>3, <1>5, <3>1
    <2> QED BY <1>3, <2>1, AddedDiffer DEF ServedInv
  <1>11. HandedIsPassed'
    BY <1>1, <1>2, <1>3, AddedPassed DEF ServedInv
  <1>12. LoadsNumbered'
    <2> SUFFICES ASSUME NEW d \in DOMAIN load', Counted(d)'
                 PROVE  /\ load'[d].number <= started + 1
                        /\ load'[d].view.answer \in {None, load'[d].number}
                        /\ \A q \in Requests : \A i \in DOMAIN requestMap'[q] :
                             requestMap'[q][i].answer # load'[d].number
                        /\ \A b \in DOMAIN load' :
                             Counted(b)' /\ load'[b].number = load'[d].number => b = d
      BY <1>1, <1>4 DEF LoadsNumbered
    <2>1. d \in DOMAIN load /\ Counted(d) /\ load'[d] = load[d]
      BY <1>1, <1>3, <1>4 DEF Counted, OnWire, Open
    <2>2. /\ load[d].number <= started
          /\ load[d].view.answer \in {None, load[d].number}
          /\ \A q \in Requests : \A i \in DOMAIN requestMap[q] :
               requestMap[q][i].answer # load[d].number
      BY <1>1, <2>1 DEF ServedInv, LoadsNumbered
    <2>3. load[d].number \in Nat
      BY <2>1, Numbers
    <2>4. \A q \in Requests : \A i \in DOMAIN requestMap'[q] :
            requestMap'[q][i].answer # load[d].number
      <3>1. load[d].number # started + 1
        <4>1. load[d].number \in Int /\ load[d].number <= started
          BY <2>2, <2>3
        <4> QED BY <1>6, <4>1, NotYet
      <3>2. e.answer # load[d].number
        BY <1>3, <3>1
      <3> SUFFICES ASSUME NEW q \in Requests, NEW i \in DOMAIN requestMap'[q]
                   PROVE  requestMap'[q][i].answer # load[d].number
        OBVIOUS
      <3>3. CASE i \in DOMAIN requestMap[q] /\ requestMap'[q][i] = requestMap[q][i]
        BY <2>2, <3>3
      <3>4. CASE requestMap'[q][i] = e
        BY <3>2, <3>4
      <3> QED BY <1>7, <3>3, <3>4 DEF OneMore
    <2>5. ASSUME NEW b \in DOMAIN load', Counted(b)', load'[b].number = load'[d].number PROVE b = d
      <3>1. b \in DOMAIN load /\ Counted(b) /\ load'[b] = load[b]
        BY <1>1, <1>3, <1>4, <2>5 DEF Counted, OnWire, Open
      <3> QED BY <1>1, <2>1, <2>5, <3>1 DEF ServedInv, LoadsNumbered
    <2> QED BY <1>6, <2>1, <2>2, <2>3, <2>4, <2>5
  <1>13. KnownIsCounted'
    <2> SUFFICES ASSUME NEW d \in DOMAIN load', OnWire(d)', Known(d)'
                 PROVE  Counted(d)'
      BY DEF KnownIsCounted
    <2>1. d \in DOMAIN load /\ OnWire(d) /\ Known(d) /\ load'[d] = load[d]
      BY <1>1, <1>3, <1>4 DEF OnWire, Open, Known
    <2>2. Counted(d)
      BY <1>1, <2>1 DEF ServedInv, KnownIsCounted
    <2> QED BY <1>1, <2>1, <2>2 DEF Counted
  <1>14. AnswersServedOnce'
    BY <1>2 DEF ServedInv, AnswersServedOnce
  <1> QED BY <1>8, <1>9, <1>10, <1>11, <1>12, <1>13, <1>14 DEF ServedInv

\* The next answer of a request is handed out.
LEMMA HandServed ==
  ASSUME TypeOK, ServedInv, NEW r \in Requests, NEW like,
         Hand(Current(requestMap, requestAt, r), like), NextRequestEntry(r), UNCHANGED requestMap
  PROVE  HandedIsPassed' /\ AnswersServedOnce'
  <1>1. /\ requestAt \in [Requests -> Nat] /\ handed \in Seq(Answer)
        /\ requestMap[r] \in Seq(Entry)
    BY DEF TypeOK
  <1>2. requestAt' = [requestAt EXCEPT ![r] = IF @ < Len(requestMap[r]) THEN @ + 1 ELSE @]
    BY DEF NextRequestEntry
  <1>3. \A q \in Requests : requestAt[q] \in Nat /\ requestAt[q] <= requestAt'[q]
    BY <1>1, <1>2
  <1>4. ASSUME NEW k \in DOMAIN handed, handed[k] # None
        PROVE  /\ \E q \in Requests : \E i \in DOMAIN requestMap[q] :
                    i <= requestAt'[q] /\ requestMap[q][i].answer = handed[k]
               /\ \A i \in DOMAIN requestMap[r] :
                    i > requestAt[r] => requestMap[r][i].answer # handed[k]
    <2>1. PICK q \in Requests : \E i \in DOMAIN requestMap[q] :
            i <= requestAt[q] /\ requestMap[q][i].answer = handed[k]
      BY <1>4 DEF ServedInv, HandedIsPassed
    <2>2. PICK i \in DOMAIN requestMap[q] : i <= requestAt[q] /\ requestMap[q][i].answer = handed[k]
      BY <2>1
    <2>3. i \in Nat
      BY <2>2 DEF TypeOK
    <2>4. i <= requestAt'[q]
      BY <1>3, <2>2, <2>3, CursorType
    <2>5. ASSUME NEW j \in DOMAIN requestMap[r], j > requestAt[r], requestMap[r][j].answer = handed[k]
          PROVE  FALSE
      <3>1. q = r /\ i = j
        BY <1>4, <2>2, <2>5 DEF ServedInv, AnswersDiffer
      <3> QED BY <1>3, <2>2, <2>3, <2>5, <3>1
    <2> QED BY <2>2, <2>4, <2>5
  <1>5. CASE Current(requestMap, requestAt, r) = {}
    <2>1. handed' = handed
      BY <1>5, HandIs
    <2> QED BY <1>4, <2>1 DEF ServedInv, HandedIsPassed, AnswersServedOnce
  <1>6. ASSUME NEW e \in Current(requestMap, requestAt, r)
        PROVE  HandedIsPassed' /\ AnswersServedOnce'
    <2> DEFINE n == Len(handed) + 1
               at == requestAt[r] + 1
    <2>1. handed' = Append(handed, e.answer)
      BY <1>6, HandIs
    <2>2. /\ at \in DOMAIN requestMap[r] /\ e = requestMap[r][at] /\ e \in Entry
          /\ requestAt[r] < Len(requestMap[r])
      BY <1>6, CurrentType
    <2>3. requestAt'[r] = at /\ at > requestAt[r] /\ at <= at
      BY <1>1, <1>2, <2>2
    <2>4. e.answer \in Answer
      BY <2>2 DEF Entry
    <2>5. /\ DOMAIN handed' = DOMAIN handed \cup {n} /\ handed'[n] = e.answer
          /\ \A k \in DOMAIN handed : handed'[k] = handed[k]
      BY <1>1, <2>1, <2>4
    <2> HIDE DEF n, at
    <2>6. HandedIsPassed'
      <3> SUFFICES ASSUME NEW k \in DOMAIN handed', handed'[k] # None
                   PROVE  \E q \in Requests : \E i \in DOMAIN requestMap[q] :
                            i <= requestAt'[q] /\ requestMap[q][i].answer = handed'[k]
        BY DEF HandedIsPassed
      <3>1. CASE k = n
        BY <2>2, <2>3, <2>5, <3>1
      <3>2. CASE k \in DOMAIN handed
        BY <1>4, <2>5, <3>2
      <3> QED BY <2>5, <3>1, <3>2
    <2>7. \A k \in DOMAIN handed : handed[k] # None => handed[k] # e.answer
      BY <1>4, <2>2, <2>3
    <2>8. AnswersServedOnce'
      BY <2>5, <2>7 DEF ServedInv, AnswersServedOnce
    <2> QED BY <2>6, <2>8
  <1> QED BY <1>5, <1>6

LEMMA ReplayServed ==
  ASSUME TypeOK, ServedInv, NEW c \in Clients, NEW r \in Requests, NEW trace \in Trace,
         LoadReplay(c, r, trace) \/ SyncReplay(c, r, trace)
  PROVE  ServedInv'
  <1>1. mode = "replaying" /\ UNCHANGED <<mode, token, requestMap>>
    BY DEF LoadReplay, SyncReplay, sessionVars, mapVars
  <1>2. PICK q, like, x :
          /\ q \in Requests /\ NextRequestEntry(q) /\ Hand(Current(requestMap, requestAt, q), like)
          /\ Begin(c, x) /\ x.token = token
    <2>1. CASE LoadReplay(c, r, trace)
      <3> DEFINE found(p) == Current(requestMap, requestAt, p)
                 x(h, p) == [NewLoad(r, "store", FALSE, Like(r, FALSE)) EXCEPT
                    !.plan = Redirects(h) \o (IF found(p) = {} THEN Missing ELSE Served(CHOOSE e \in found(p) : TRUE)),
                    !.posted = IF found(p) = {} THEN "missing" ELSE "task"]
      <3>1. PICK r0 \in Requests :
              /\ NextRequestEntry(Chain(r0).request)
              /\ Begin(c, x(Chain(r0).hops, Chain(r0).request))
              /\ Hand(found(Chain(r0).request), Like(r, FALSE))
        <4>1. ASSUME NEW r0 \in Recognised(r, trace, requestMap[r] # <<>> \/ redirectMap[r] # <<>>, Matching(trace))
              PROVE  r0 \in Requests
          BY <4>1 DEF Recognised, Matching, MadeFrom
        <4> QED BY <2>1, <4>1 DEF LoadReplay
      <3>2. Chain(r0).request \in Requests
        BY ChainType DEF Chains
      <3>3. \A h, p : x(h, p).token = token
        BY DEF NewLoad
      <3> HIDE DEF x
      <3> QED BY <3>1, <3>2, <3>3
    <2>2. CASE SyncReplay(c, r, trace)
      <3> DEFINE found(p) == Current(requestMap, requestAt, p)
                 new == NewLoad(r, "store", TRUE, Like(r, TRUE))
                 x(p) == IF found(p) = {} THEN [new EXCEPT !.view = [@ EXCEPT !.answer = NoContent, !.end = "finish"]]
                         ELSE Answered(new, CHOOSE e \in found(p) : TRUE)
      <3>1. PICK p \in Requests : /\ NextRequestEntry(p) /\ Begin(c, x(p))
                                  /\ Hand(found(p), Like(r, TRUE))
        <4>1. ASSUME NEW r0 \in Recognised(r, trace, requestMap[r] # <<>>, MatchingTerminal(trace))
              PROVE  r0 \in Requests
          BY <4>1 DEF Recognised, MatchingTerminal, MadeFrom
        <4> QED BY <2>2, <4>1 DEF SyncReplay
      <3>2. x(p).token = token
        BY DEF NewLoad, Answered
      <3> HIDE DEF x
      <3> QED BY <3>1, <3>2
    <2> QED BY <2>1, <2>2
  <1>3. HandedIsPassed' /\ AnswersServedOnce'
    BY <1>1, <1>2, HandServed
  <1>4. TokensGiven'
    <2>1. token \in Nat
      BY DEF TypeOK
    <2>2. /\ DOMAIN load' = DOMAIN load \cup {c} /\ load'[c] = x
          /\ \A d \in DOMAIN load \ {c} : load'[d] = load[d]
      BY <1>2, BegunLoads
    <2> SUFFICES ASSUME NEW d \in DOMAIN load' PROVE load'[d].token <= token
      BY <1>1 DEF TokensGiven
    <2>3. CASE d = c  BY <1>2, <2>1, <2>2, <2>3
    <2>4. CASE d # c
      <3>1. d \in DOMAIN load /\ load'[d] = load[d]
        BY <2>2, <2>4
      <3> QED BY <3>1 DEF ServedInv, TokensGiven
    <2> QED BY <2>3, <2>4
  <1>5. AnswersDiffer'
    BY <1>1 DEF ServedInv, AnswersDiffer
  <1> QED BY <1>1, <1>3, <1>4, <1>5 DEF ServedInv, AnswersGiven, LoadsNumbered, KnownIsCounted

LEMMA StepServed == TypeOK /\ PendingInv /\ ServedInv /\ [Next]_vars => ServedInv'
  <1> SUFFICES ASSUME TypeOK, PendingInv, ServedInv, [Next]_vars PROVE ServedInv'
    OBVIOUS
  <1>1. CASE Mode  BY <1>1, ModeServed
  <1>2. ASSUME NEW c \in Clients, NEW r \in Requests, NEW trace \in Trace, StartLoad(c, r, trace)
        PROVE  ServedInv'
    BY <1>2, LoadRecordingServed, ReplayServed, SyncRecordingServed DEF StartLoad
  <1>3. ASSUME NEW c \in DOMAIN load, Cancel(c) PROVE ServedInv'
    BY <1>3, CancelServed
  <1>4. ASSUME NEW c \in DOMAIN load, Network(c) PROVE ServedInv'
    BY <1>4, NetworkServed
  <1>5. ASSUME NEW c \in DOMAIN load, MessageLoop(c) PROVE ServedInv'
    BY <1>5, MessageLoopServed
  <1>6. CASE UNCHANGED vars
    <2>1. /\ UNCHANGED <<mode, token, pending, requestMap, requestAt, load, started, handed>>
      BY <1>6 DEF vars, sessionVars, mapVars, cursorVars, historyVars
    <2>2. TokensGiven' /\ AnswersDiffer' /\ AnswersGiven'
      BY <2>1 DEF ServedInv, TokensGiven, AnswersDiffer, AnswersGiven
    <2>3. LoadsNumbered'
      BY <2>1 DEF ServedInv, LoadsNumbered, Counted, OnWire, Open
    <2>4. KnownIsCounted'
      BY <2>1 DEF ServedInv, KnownIsCounted, Counted, OnWire, Open, Known
    <2>5. HandedIsPassed' /\ AnswersServedOnce'
      BY <2>1 DEF ServedInv, HandedIsPassed, AnswersServedOnce
    <2> QED BY <2>2, <2>3, <2>4, <2>5 DEF ServedInv
  <1> QED BY <1>1, <1>2, <1>3, <1>4, <1>5, <1>6 DEF Next

LEMMA InitServed == Init => ServedInv
  <1> SUFFICES ASSUME Init PROVE ServedInv
    OBVIOUS
  <1>1. DOMAIN load = {} /\ DOMAIN pending = {} /\ DOMAIN handed = {}
        /\ \A r \in Requests : DOMAIN requestMap[r] = {}
    BY DEF Init, NoClient
  <1> QED BY <1>1 DEF ServedInv, TokensGiven, AnswersDiffer, AnswersGiven, LoadsNumbered, KnownIsCounted,
             HandedIsPassed, AnswersServedOnce

\* However loads overlap, fail, are cancelled or begun by other pages: a replay
\* serves no answer of its recording twice, also not to requests that were only
\* recognised by their stack trace.
THEOREM AnswersAlwaysServedOnce == Spec => []AnswersServedOnce
  <1>1. ServedInv => AnswersServedOnce
    BY DEF ServedInv
  <1>2. Init => PendingInv
    BY InitPending
  <1> QED BY <1>1, <1>2, InitType, StepType, StepPending, InitServed, StepServed, PTL DEF Spec
-----------------------------------------------------------------------------
(***************************************************************************)
(* What a client is told keeps to LoadProtocol: ForensicRequests           *)
(* implements that module for every client.                                *)
(*                                                                         *)
(* The invariant is about what is still to be told: the events that are    *)
(* left fit what the client knows, whichever of those due is next.  In a   *)
(* load over the network they come from the network, which keeps to the    *)
(* protocol by assumption; in a replayed one from an entry that was        *)
(* recorded and so has an answer, or has failed.                           *)
(***************************************************************************)
\* What is left of a plan may be told to a client that knows v.
PlanFits(v, p) ==
  \A i \in DOMAIN p :
    /\ p[i].what \in {"redirect", "response"} =>
         v.answer = None /\ \A j \in 1..i - 1 : p[j].what = "redirect"
    /\ p[i].what = "response" => p[i].answer # None
    /\ p[i].what = "data" => p[i].chunks > 0
    /\ Delayed(p[i]) => v.answer # None \/ \E j \in 1..i - 1 : p[j].what = "response"

\* A load, in mode m with token t.  The pairs of a replay that was broken off may have
\* been dropped one by one: those that are left will not be told.
Fits(x, m, t) ==
  /\ x.view.end = "" => ~x.sync /\ (x.view.answer = None => x.view.chunks = 0)
  /\ x.posted # "" => x.view.end = ""
  /\ x.posted = "missing" =>
       x.view = Fresh /\ \A i \in DOMAIN x.plan : x.plan[i].what \notin {"data", "fail"}
  /\ x.posted = "pairs" => x.token <= x.id /\ x.id <= t
  /\ x.posted \in {"task", "missing"} \/ (x.posted = "pairs" /\ m = "replaying" /\ t = x.id) =>
       PlanFits(x.view, x.plan)

EntriesAnswered ==
  \A r \in Requests : \A i \in DOMAIN requestMap[r] :
    requestMap[r][i].failed \/ requestMap[r][i].answer # None

ProtocolInv ==
  /\ EntriesAnswered
  /\ \A c \in DOMAIN load : Fits(load[c], mode, token)

\* What a client may be told next.
Allowed(c) == [P(c)!Next]_(ViewOf(c))

MayTell(v, w) ==
  /\ v.end = ""
  /\ \/ /\ v.answer = None
        /\ w.chunks = 0
        /\ w.end = "finish" => w.answer # None
        /\ Len(v.hops) <= Len(w.hops) /\ SubSeq(w.hops, 1, Len(v.hops)) = v.hops
     \/ v.answer = None /\ w.answer # None /\ w = [v EXCEPT !.answer = w.answer]
     \/ v.answer # None /\ w.chunks > v.chunks /\ w = [v EXCEPT !.chunks = w.chunks]
     \/ v.answer # None /\ w = [v EXCEPT !.end = "finish"]
     \/ \E end \in {"fail", "cancel"} : w = [v EXCEPT !.end = end]

LEMMA AllowedTold ==
  ASSUME NEW c, MayTell(ViewOf(c), ViewOf(c)')
  PROVE  Allowed(c)
  BY DEF MayTell, Allowed, P!Next, P!Redirected, P!Answered, P!Received, P!Finished,
         P!Broken, P!Unended, P!IsExtension

LEMMA AllowedStart ==
  ASSUME NEW c, ViewOf(c).end # "", ViewOf(c)' \in {Fresh, [Fresh EXCEPT !.end = "cancel"]}
  PROVE  Allowed(c)
  BY DEF Allowed, P!Next, P!Started, P!Forgotten, P!Unended, P!Fresh, Fresh

LEMMA AllowedInit ==
  ASSUME NEW c, Init
  PROVE  P(c)!Init
  <1>1. c \notin DOMAIN load
    BY DEF Init, NoClient
  <1>2. ViewOf(c) = [Fresh EXCEPT !.end = "cancel"]
    BY <1>1 DEF ViewOf
  <1> QED BY <1>2 DEF P!Init, P!Fresh, Fresh

LEMMA SameView ==
  ASSUME NEW c, ViewOf(c)' = ViewOf(c)
  PROVE  Allowed(c)
  BY DEF Allowed

\* Where the others are.
LEMMA OthersKeep ==
  ASSUME NEW c, DOMAIN load' = DOMAIN load \cup {c},
         \A d \in DOMAIN load \ {c} : load'[d] = load[d], NEW d, d # c
  PROVE  Allowed(d)
  <1>1. ViewOf(d)' = ViewOf(d)
    BY DEF ViewOf
  <1> QED BY <1>1, SameView

\* A client is told something.
LEMMA OneTold ==
  ASSUME ProtocolInv, NEW c \in DOMAIN load, NEW x, load' = [load EXCEPT ![c] = x],
         UNCHANGED <<mode, token>>, EntriesAnswered', Fits(x, mode, token),
         x.view = load[c].view \/ (~load[c].sync /\ MayTell(load[c].view, x.view)),
         x.sync = load[c].sync
  PROVE  ProtocolInv' /\ \A d \in Clients : Allowed(d)
  <1>1. /\ DOMAIN load' = DOMAIN load /\ load'[c] = x
        /\ \A d \in DOMAIN load \ {c} : load'[d] = load[d]
    OBVIOUS
  <1>2. ProtocolInv'
    BY <1>1 DEF ProtocolInv
  <1>3. Allowed(c)
    <2>1. CASE x.view = load[c].view
      <3>1. ViewOf(c)' = ViewOf(c)
        BY <1>1, <2>1 DEF ViewOf
      <3> QED BY <3>1, SameView
    <2>2. CASE ~load[c].sync /\ MayTell(load[c].view, x.view)
      <3>1. ViewOf(c) = load[c].view /\ ViewOf(c)' = x.view
        BY <1>1, <2>2 DEF ViewOf
      <3> QED BY <2>2, <3>1, AllowedTold
    <2> QED BY <2>1, <2>2
  <1>4. \A d \in Clients : Allowed(d)
    BY <1>1, <1>3, OthersKeep
  <1> QED BY <1>2, <1>4

\* A client begins a load.
LEMMA OneBegun ==
  ASSUME ProtocolInv, NEW c, NEW x, ~Open(c), Begin(c, x),
         UNCHANGED <<mode, token>>, EntriesAnswered', Fits(x, mode, token),
         x.sync \/ x.view = Fresh
  PROVE  ProtocolInv' /\ \A d \in Clients : Allowed(d)
  <1>1. /\ DOMAIN load' = DOMAIN load \cup {c} /\ load'[c] = x
        /\ \A d \in DOMAIN load \ {c} : load'[d] = load[d]
    BY BeginsOne
  <1>2. ProtocolInv'
    BY <1>1 DEF ProtocolInv
  <1>3. ViewOf(c).end # ""
    BY DEF Open, ViewOf, Fresh
  <1>4. ViewOf(c)' \in {Fresh, [Fresh EXCEPT !.end = "cancel"]}
    BY <1>1 DEF ViewOf
  <1>5. \A d \in Clients : Allowed(d)
    BY <1>1, <1>3, <1>4, AllowedStart, OthersKeep
  <1> QED BY <1>2, <1>5

LEMMA CancelledFits ==
  ASSUME NEW x \in Load, NEW m, NEW t, x.view.end = ""
  PROVE  Fits(Cancelled(x), m, t) /\ MayTell(x.view, Cancelled(x).view)
         /\ Cancelled(x).sync = x.sync
  <1>1. Cancelled(x).view = [x.view EXCEPT !.end = "cancel"] /\ Cancelled(x).posted = ""
        /\ Cancelled(x).sync = x.sync
    BY DEF Cancelled, Load
  <1>2. x.view \in View
    BY DEF Load
  <1>3. Cancelled(x).view.end = "cancel"
    BY <1>1, <1>2 DEF View
  <1>4. MayTell(x.view, Cancelled(x).view)
    BY <1>1 DEF MayTell
  <1> QED BY <1>1, <1>3, <1>4 DEF Fits

LEMMA CancelProtocol ==
  ASSUME TypeOK, ProtocolInv, NEW c \in DOMAIN load, Cancel(c)
  PROVE  ProtocolInv' /\ \A d \in Clients : Allowed(d)
  <1>1. load[c] \in Load
    BY DEF TypeOK
  <1>2. load[c].view.end = "" /\ load' = [load EXCEPT ![c] = Cancelled(load[c])]
        /\ UNCHANGED <<mode, token, requestMap>>
    BY DEF Cancel, Open, sessionVars, mapVars
  <1>3. ~load[c].sync /\ EntriesAnswered'
    BY <1>2 DEF ProtocolInv, Fits, EntriesAnswered
  <1>4. Fits(Cancelled(load[c]), mode, token) /\ MayTell(load[c].view, Cancelled(load[c]).view)
        /\ Cancelled(load[c]).sync = load[c].sync
    BY <1>1, <1>2, CancelledFits
  <1> QED BY <1>2, <1>3, <1>4, OneTold

\* A token that is new stops what was posted before.
LEMMA NextTokenFits ==
  ASSUME NEW x, NEW m, NEW t \in Nat, NEW n, Fits(x, m, t), x \in Load
  PROVE  Fits(x, n, t + 1)
  <1>1. x.id \in Nat
    BY DEF Load
  <1>2. \A i \in Nat : i <= t => i <= t + 1 /\ i # t + 1
    OBVIOUS
  <1> QED BY <1>1, <1>2 DEF Fits

LEMMA ModeProtocol ==
  ASSUME TypeOK, ProtocolInv, Mode
  PROVE  ProtocolInv' /\ \A d \in Clients : Allowed(d)
  <1>1. token \in Nat /\ token' = token + 1
    BY DEF TypeOK, Mode, StartRecording, StopRecording, StartReplay, StopReplay,
           Session!StartRecording, Session!StopRecording, Session!StartReplay,
           Session!StopReplay
  <1>2. /\ DOMAIN load' = DOMAIN load
        /\ \A c \in DOMAIN load : \/ load'[c] = load[c]
                                  \/ load[c].view.end = "" /\ load'[c] = Cancelled(load[c])
    BY DEF Mode, StartRecording, StopRecording, StartReplay, StopReplay, ReloadPage, Open
  <1>3. EntriesAnswered'
    <2>1. CASE StartRecording
      <3>1. \A r \in Requests : DOMAIN requestMap'[r] = {}
        BY <2>1 DEF StartRecording
      <3> QED BY <3>1 DEF EntriesAnswered
    <2>2. CASE UNCHANGED requestMap
      BY <2>2 DEF ProtocolInv, EntriesAnswered
    <2> QED BY <2>1, <2>2 DEF Mode, StopRecording, StartReplay, StopReplay, mapVars
  <1>4. ASSUME NEW c \in DOMAIN load' PROVE Fits(load'[c], mode', token')
    <2>1. load[c] \in Load /\ Fits(load[c], mode, token) /\ c \in DOMAIN load
      BY <1>2 DEF TypeOK, ProtocolInv
    <2>2. Fits(load[c], mode', token + 1)
      BY <1>1, <2>1, NextTokenFits
    <2>3. load[c].view.end = "" => Fits(Cancelled(load[c]), mode', token + 1)
      BY <2>1, CancelledFits
    <2> QED BY <1>1, <1>2, <2>1, <2>2, <2>3
  <1>5. ASSUME NEW c \in Clients PROVE Allowed(c)
    <2>1. CASE c \notin DOMAIN load
      <3>1. ViewOf(c)' = ViewOf(c)
        BY <1>2, <2>1 DEF ViewOf
      <3> QED BY <3>1, SameView
    <2>2. CASE c \in DOMAIN load /\ load'[c] = load[c]
      <3>1. ViewOf(c)' = ViewOf(c)
        BY <1>2, <2>2 DEF ViewOf
      <3> QED BY <3>1, SameView
    <2>3. CASE c \in DOMAIN load /\ load[c].view.end = "" /\ load'[c] = Cancelled(load[c])
      <3>1. load[c] \in Load /\ ~load[c].sync
        BY <2>3 DEF TypeOK, ProtocolInv, Fits
      <3>2. MayTell(load[c].view, Cancelled(load[c]).view) /\ Cancelled(load[c]).sync = load[c].sync
        BY <2>3, <3>1, CancelledFits
      <3>3. ViewOf(c) = load[c].view /\ ViewOf(c)' = Cancelled(load[c]).view
        BY <1>2, <2>3, <3>1, <3>2 DEF ViewOf
      <3> QED BY <3>2, <3>3, AllowedTold
    <2> QED BY <1>2, <2>1, <2>2, <2>3
  <1> QED BY <1>3, <1>4, <1>5 DEF ProtocolInv
-----------------------------------------------------------------------------
LEMMA Extended ==
  ASSUME NEW S, NEW s \in Seq(S), NEW e \in S
  PROVE  Len(s) <= Len(Append(s, e)) /\ SubSeq(Append(s, e), 1, Len(s)) = s
  OBVIOUS

LEMMA More == \A n \in Nat : n + 1 > n
  OBVIOUS

\* What a callback of the platform's loader tells.
LEMMA ToldFits ==
  ASSUME NEW x \in Load, NEW item \in Item, NEW m, NEW t,
         x.via = "wire", x.posted = "", x.view.end = "", Fits(x, m, t),
         \/ item.what = "redirect" /\ x.view.answer = None
         \/ item.what = "response" /\ x.view.answer = None /\ item.answer # None
         \/ item.what = "data" /\ x.view.answer # None /\ item.chunks = 1
         \/ item.what = "finish" /\ x.view.answer # None
         \/ item.what = "fail"
  PROVE  Fits(Told(x, item), m, t) /\ MayTell(x.view, Told(x, item).view)
         /\ Told(x, item).sync = x.sync
  <1> DEFINE v == x.view
             w == Tell(v, item)
  <1>1. /\ v \in View /\ v.end = "" /\ ~x.sync /\ (v.answer = None => v.chunks = 0)
        /\ v.hops \in Seq(Requests) /\ v.chunks \in Nat
    BY DEF Load, View, Fits
  <1>2. /\ Told(x, item).view = w /\ Told(x, item).sync = x.sync
        /\ Told(x, item).posted = ""
    BY DEF Told, Load
  <1> HIDE DEF v
  <1>3. CASE item.what = "redirect" /\ v.answer = None
    <2>1. w = [v EXCEPT !.hops = Append(v.hops, item.to)]
      BY <1>1, <1>3 DEF Tell, View
    <2>2. /\ w.hops = Append(v.hops, item.to) /\ w.answer = None /\ w.chunks = 0
          /\ w.end = ""
      BY <1>1, <1>3, <2>1 DEF View
    <2>3. item.to \in Requests
      BY <1>3 DEF Item
    <2>4. Len(v.hops) <= Len(w.hops) /\ SubSeq(w.hops, 1, Len(v.hops)) = v.hops
      <3>1. Len(v.hops) <= Len(Append(v.hops, item.to))
            /\ SubSeq(Append(v.hops, item.to), 1, Len(v.hops)) = v.hops
        BY <1>1, <2>3, Extended
      <3> HIDE DEF w
      <3> QED BY <2>2, <3>1, Zenon
    <2> HIDE DEF w
    <2> QED BY <1>1, <1>2, <1>3, <2>2, <2>4 DEF Fits, MayTell, v
  <1>4. CASE item.what = "response" /\ v.answer = None /\ item.answer # None
    <2>1. w = [v EXCEPT !.answer = item.answer]
      BY <1>4 DEF Tell
    <2>2. w.answer = item.answer /\ w.end = ""
      BY <1>1, <2>1 DEF View
    <2> HIDE DEF w
    <2> QED BY <1>1, <1>2, <1>4, <2>1, <2>2 DEF Fits, MayTell, v
  <1>5. CASE item.what = "data" /\ v.answer # None /\ item.chunks = 1
    <2>1. w = [v EXCEPT !.chunks = v.chunks + 1]
      BY <1>1, <1>5 DEF Tell, View
    <2>2. w.chunks = v.chunks + 1 /\ w.answer = v.answer /\ w.end = ""
      BY <1>1, <2>1 DEF View
    <2>3. w.chunks > v.chunks
      BY <1>1, <2>2, Zenon, More
    <2> HIDE DEF w
    <2> QED BY <1>1, <1>2, <1>5, <2>1, <2>2, <2>3 DEF Fits, MayTell, v
  <1>6. CASE (item.what = "finish" /\ v.answer # None) \/ item.what = "fail"
    <2>1. w = [v EXCEPT !.end = item.what]
      BY <1>6 DEF Tell
    <2>2. w.end # ""
      BY <1>1, <1>6, <2>1 DEF View
    <2> HIDE DEF w
    <2> QED BY <1>1, <1>2, <1>6, <2>1, <2>2 DEF Fits, MayTell, v
  <1> QED BY <1>3, <1>4, <1>5, <1>6 DEF v

LEMMA NetworkProtocol ==
  ASSUME TypeOK, PendingInv, ServedInv, ProtocolInv, NEW c \in DOMAIN load, Network(c)
  PROVE  ProtocolInv' /\ \A d \in Clients : Allowed(d)
  <1>1. /\ load[c] \in Load /\ OnWire(c) /\ UNCHANGED <<mode, token>>
        /\ load[c].via = "wire" /\ load[c].view.end = "" /\ Fits(load[c], mode, token)
    BY DEF TypeOK, ProtocolInv, Network, WillSendRequest, DidReceiveResponse, DidReceiveData, DidEnd,
           OnWire, Open, sessionVars
  <1>2. load[c].posted = "" /\ ~load[c].sync
    BY <1>1 DEF PendingInv, Wire, Fits
  <1>3. load[c].number \in Answer /\ load[c].number # None
    <2>1. load[c].number \in 1..MaxLoads
      BY <1>1 DEF Load
    <2> QED BY <2>1, RequestsAssumption DEF Answer, None
  <1>4. PICK item \in Item :
          /\ Tells(c, item)
          /\ \/ item.what = "redirect" /\ load[c].view.answer = None
             \/ item.what = "response" /\ load[c].view.answer = None /\ item.answer # None
             \/ item.what = "data" /\ load[c].view.answer # None /\ item.chunks = 1
             \/ item.what = "finish" /\ load[c].view.answer # None
             \/ item.what = "fail"
    <2>1. CASE \E r \in Requests : WillSendRequest(c, r)
      BY <2>1 DEF WillSendRequest, Item
    <2>2. CASE DidReceiveResponse(c)
      BY <1>3, <2>2 DEF DidReceiveResponse, Item
    <2>3. CASE DidReceiveData(c)
      BY <2>3 DEF DidReceiveData, Item
    <2>4. CASE \E failed \in BOOLEAN : DidEnd(c, failed)
      BY <2>4 DEF DidEnd, End, Item
    <2> QED BY <2>1, <2>2, <2>3, <2>4 DEF Network
  <1>5. EntriesAnswered'
    <2>1. CASE UNCHANGED requestMap
      BY <2>1 DEF ProtocolInv, EntriesAnswered
    <2>2. ASSUME NEW failed \in BOOLEAN, DidEnd(c, failed), PendingRequestEnded(c, failed),
                 mode = "recording", Known(c)
          PROVE  EntriesAnswered'
      <3> DEFINE p == pending[c]
                 e == [trace |-> p.trace, answer |-> p.answer, chunks |-> p.chunks, failed |-> failed]
      <3>1. p \in Pending
        BY <2>2 DEF TypeOK, Known
      <3>2. Added(p.request, e)
        BY <2>2 DEF PendingRequestEnded
      <3> HIDE DEF p
      <3>3. e \in Entry /\ p.request \in Requests /\ e.answer = p.answer /\ e.failed = failed
        BY <3>1 DEF Pending, Entry
      <3>4. p.answer = load[c].view.answer
        <4>1. Counted(c)
          BY <1>1, <2>2 DEF ServedInv, KnownIsCounted
        <4> QED BY <1>1, <2>2, <4>1 DEF PendingInv, PendingIsWhatWasTold, Counted, p
      <3>5. e.failed \/ e.answer # None
        BY <2>2, <3>3, <3>4 DEF DidEnd
      <3> HIDE DEF e
      <3>6. OneMore(p.request, e)
        BY <3>2, <3>3, AddedEntries
      <3> QED BY <3>5, <3>6 DEF OneMore, ProtocolInv, EntriesAnswered
    <2> QED BY <2>1, <2>2 DEF Network, WillSendRequest, DidReceiveResponse, DidReceiveData, DidEnd,
               Unrecorded, mapVars, AddPendingRedirect
  <1>6. /\ Fits(Told(load[c], item), mode, token) /\ MayTell(load[c].view, Told(load[c], item).view)
        /\ Told(load[c], item).sync = load[c].sync
    BY <1>1, <1>2, <1>4, ToldFits
  <1>7. load' = [load EXCEPT ![c] = Told(load[c], item)]
    BY <1>4 DEF Tells
  <1> QED BY <1>1, <1>2, <1>5, <1>6, <1>7, OneTold

LEMMA FreshFits ==
  ASSUME NEW r, NEW via, NEW like, NEW m, NEW t
  PROVE  Fits(NewLoad(r, via, FALSE, like), m, t) /\ NewLoad(r, via, FALSE, like).view = Fresh
  BY DEF Fits, NewLoad, Fresh, None

LEMMA LoadRecordingProtocol ==
  ASSUME TypeOK, ProtocolInv, NEW c \in Clients, NEW r \in Requests, NEW trace \in Trace,
         LoadRecording(c, r, trace)
  PROVE  ProtocolInv' /\ \A d \in Clients : Allowed(d)
  <1>1. /\ Begin(c, NewLoad(r, "wire", FALSE, 0)) /\ ~Open(c)
        /\ UNCHANGED <<mode, token, requestMap>>
    BY DEF LoadRecording, MayLoad, sessionVars, mapVars
  <1>2. EntriesAnswered'
    BY <1>1 DEF ProtocolInv, EntriesAnswered
  <1> QED BY <1>1, <1>2, FreshFits, OneBegun

LEMMA AnsweredFits ==
  ASSUME NEW r, NEW via, NEW like, NEW m, NEW t, NEW e
  PROVE  /\ Fits(Answered(NewLoad(r, via, TRUE, like), e), m, t)
         /\ Answered(NewLoad(r, via, TRUE, like), e).sync
  <1> DEFINE x == Answered(NewLoad(r, via, TRUE, like), e)
  <1>1. x.view.end # "" /\ x.posted = "" /\ x.sync = TRUE
    BY DEF NewLoad, Answered, End
  <1> HIDE DEF x
  <1> QED BY <1>1 DEF Fits, x

LEMMA SyncRecordingProtocol ==
  ASSUME TypeOK, ProtocolInv, NEW c \in Clients, NEW r \in Requests, NEW trace \in Trace,
         SyncRecording(c, r, trace)
  PROVE  ProtocolInv' /\ \A d \in Clients : Allowed(d)
  <1> DEFINE ee(chunks, failed) ==
               [trace |-> trace, answer |-> started + 1, chunks |-> chunks, failed |-> failed]
             xx(e) == Answered(NewLoad(r, "wire", TRUE, 0), e)
  <1>1. ~Open(c) /\ UNCHANGED <<mode, token>> /\ started < MaxLoads /\ started \in Nat
    BY DEF SyncRecording, MayLoad, sessionVars, TypeOK
  <1>2. PICK chunks \in 0..MaxChunks, failed \in BOOLEAN :
          Added(r, ee(chunks, failed)) /\ Begin(c, xx(ee(chunks, failed)))
    BY DEF SyncRecording
  <1> DEFINE e == ee(chunks, failed)
  <1>3. e \in Entry /\ e.answer # None
    <2>1. started + 1 \in Answer /\ started + 1 # None /\ chunks \in Nat
      BY <1>1, RequestsAssumption DEF TypeOK, Answer, None
    <2> QED BY <2>1 DEF Entry
  <1> HIDE DEF e, ee
  <1>4. OneMore(r, e)
    BY <1>2, <1>3, AddedEntries DEF e
  <1>5. EntriesAnswered'
    BY <1>3, <1>4 DEF OneMore, ProtocolInv, EntriesAnswered
  <1>6. Fits(xx(e), mode, token) /\ xx(e).sync
    BY AnsweredFits
  <1>7. Begin(c, xx(e))
    BY <1>2 DEF e
  <1> HIDE DEF xx
  <1> QED BY <1>1, <1>5, <1>6, <1>7, OneBegun
-----------------------------------------------------------------------------
\* The events that a replayed load begins with.
PlanIs(p, h, rest) ==
  /\ p \in Seq(Item) /\ Len(p) = Len(h) + Len(rest)
  /\ \A i \in 1..Len(h) : p[i].what = "redirect" /\ p[i].to = h[i]
  /\ \A k \in 1..Len(rest) : p[Len(h) + k] = rest[k]
  /\ \A i \in DOMAIN p : \/ i \in 1..Len(h)
                         \/ /\ i > Len(h) /\ i - Len(h) \in 1..Len(rest)
                            /\ p[i] = rest[i - Len(h)]

LEMMA PlanItems ==
  ASSUME NEW h \in Seq(Requests), NEW rest \in Seq(Item)
  PROVE  PlanIs(Redirects(h) \o rest, h, rest)
  <1> DEFINE f == Redirects(h)
             p == f \o rest
  <1>1. f \in Seq(Item) /\ Len(f) = Len(h)
    BY PlanTypes
  <1>2. \A i \in 1..Len(h) : f[i].what = "redirect" /\ f[i].to = h[i]
    BY DEF Redirects
  <1> HIDE DEF f
  <1>3. p \in Seq(Item) /\ Len(p) = Len(h) + Len(rest)
    BY <1>1
  <1>4. \A i \in 1..Len(h) : p[i] = f[i]
    BY <1>1
  <1>5. \A k \in 1..Len(rest) : p[Len(h) + k] = rest[k]
    BY <1>1
  <1> HIDE DEF p
  <1>6. ASSUME NEW i \in DOMAIN p, i \notin 1..Len(h)
        PROVE  i > Len(h) /\ i - Len(h) \in 1..Len(rest) /\ p[i] = rest[i - Len(h)]
    <2>1. i > Len(h) /\ i - Len(h) \in 1..Len(rest) /\ Len(h) + (i - Len(h)) = i
      BY <1>3, <1>6
    <2> QED BY <1>5, <2>1
  <1>7. PlanIs(p, h, rest)
    BY <1>2, <1>3, <1>4, <1>5, <1>6 DEF PlanIs
  <1> QED BY <1>7 DEF p, f

LEMMA MissingItems ==
  /\ Len(Missing) = 2 /\ Missing[1] = [what |-> "response", answer |-> NoContent]
  /\ Missing[2] = [what |-> "finish"]
  BY DEF Missing

LEMMA ServedItems ==
  ASSUME NEW e \in Entry
  PROVE  /\ e.failed => Len(Served(e)) = 1 /\ Served(e)[1] = [what |-> "fail"]
         /\ ~e.failed =>
              /\ Served(e)[1] = [what |-> "response", answer |-> e.answer]
              /\ \/ /\ e.chunks = 0 /\ Len(Served(e)) = 2
                    /\ Served(e)[2] = [what |-> "finish"]
                 \/ /\ e.chunks > 0 /\ Len(Served(e)) = 3
                    /\ Served(e)[2] = [what |-> "data", chunks |-> e.chunks]
                    /\ Served(e)[3] = [what |-> "finish"]
  <1>1. e.chunks \in Nat
    BY DEF Entry
  <1>2. CASE e.failed
    BY <1>2 DEF Served
  <1>3. CASE ~e.failed /\ e.chunks = 0
    <2>1. Served(e) = <<[what |-> "response", answer |-> e.answer]>> \o <<>> \o <<[what |-> "finish"]>>
      BY <1>3 DEF Served
    <2> QED BY <1>3, <2>1
  <1>4. CASE ~e.failed /\ e.chunks > 0
    <2>1. Served(e) = <<[what |-> "response", answer |-> e.answer]>>
                      \o <<[what |-> "data", chunks |-> e.chunks]>> \o <<[what |-> "finish"]>>
      BY <1>4 DEF Served
    <2> QED BY <1>4, <2>1
  <1> QED BY <1>1, <1>2, <1>3, <1>4

\* What comes after the redirects.
Rest(rest) ==
  \A k \in 1..Len(rest) :
    /\ rest[k].what # "redirect"
    /\ rest[k].what = "response" => k = 1 /\ rest[k].answer # None
    /\ rest[k].what = "data" => rest[k].chunks > 0
    /\ rest[k].what \in {"data", "finish"} => k > 1 /\ rest[1].what = "response"

LEMMA RestIs ==
  /\ Missing \in Seq(Item) /\ Rest(Missing)
  /\ \A k \in 1..Len(Missing) : Missing[k].what \notin {"data", "fail"}
  /\ \A e \in Entry : e.failed \/ e.answer # None => Served(e) \in Seq(Item) /\ Rest(Served(e))
  <1>1. Rest(Missing) /\ \A k \in 1..Len(Missing) : Missing[k].what \notin {"data", "fail"}
    <2>1. \A k \in 1..2 : k = 1 \/ k = 2
      OBVIOUS
    <2> QED BY <2>1, MissingItems DEF Rest, NoContent, None
  <1>2. ASSUME NEW e \in Entry, e.failed \/ e.answer # None PROVE Rest(Served(e))
    <2> DEFINE s == Served(e)
    <2>0. /\ e.failed => Len(s) = 1 /\ s[1] = [what |-> "fail"]
          /\ ~e.failed =>
               /\ s[1] = [what |-> "response", answer |-> e.answer]
               /\ \/ /\ e.chunks = 0 /\ Len(s) = 2
                     /\ s[2] = [what |-> "finish"]
                  \/ /\ e.chunks > 0 /\ Len(s) = 3
                     /\ s[2] = [what |-> "data", chunks |-> e.chunks]
                     /\ s[3] = [what |-> "finish"]
      BY ServedItems
    <2> HIDE DEF s
    <2>1. CASE e.failed
      <3>1. Len(s) = 1 /\ s[1].what = "fail"
        BY <2>0, <2>1
      <3>2. \A k \in 1..1 : k = 1
        OBVIOUS
      <3>3. Rest(s)
        BY <3>1, <3>2 DEF Rest
      <3> QED BY <3>3 DEF s
    <2>2. CASE ~e.failed /\ Len(s) = 2
      <3>1. s[1].what = "response" /\ s[1].answer # None /\ s[2].what = "finish"
        BY <1>2, <2>0, <2>2
      <3>2. \A k \in 1..2 : k = 1 \/ (k = 2 /\ k > 1)
        OBVIOUS
      <3>3. Rest(s)
        BY <2>2, <3>1, <3>2 DEF Rest
      <3> QED BY <3>3 DEF s
    <2>3. CASE ~e.failed /\ Len(s) = 3
      <3>1. /\ s[1].what = "response" /\ s[1].answer # None
            /\ s[2].what = "data" /\ s[2].chunks > 0 /\ s[3].what = "finish"
        BY <1>2, <2>0, <2>3
      <3>2. \A k \in 1..3 : k = 1 \/ (k = 2 /\ k > 1) \/ (k = 3 /\ k > 1)
        OBVIOUS
      <3>3. Rest(s)
        BY <2>3, <3>1, <3>2 DEF Rest
      <3> QED BY <3>3 DEF s
    <2> QED BY <2>0, <2>1, <2>2, <2>3
  <1> QED BY <1>1, <1>2, PlanTypes

LEMMA PlanFitsFresh ==
  ASSUME NEW h \in Seq(Requests), NEW rest \in Seq(Item), Rest(rest)
  PROVE  /\ PlanFits(Fresh, Redirects(h) \o rest)
         /\ (\A k \in 1..Len(rest) : rest[k].what \notin {"data", "fail"}) =>
              \A i \in DOMAIN (Redirects(h) \o rest) :
                (Redirects(h) \o rest)[i].what \notin {"data", "fail"}
  <1> DEFINE p == Redirects(h) \o rest
  <1> HIDE DEF p
  <1>1. /\ p \in Seq(Item) /\ Len(p) = Len(h) + Len(rest)
        /\ \A i \in 1..Len(h) : p[i].what = "redirect" /\ p[i].to = h[i]
        /\ \A k \in 1..Len(rest) : p[Len(h) + k] = rest[k]
        /\ \A i \in DOMAIN p : i \in 1..Len(h) \/ (i > Len(h) /\ i - Len(h) \in 1..Len(rest)
                                                   /\ p[i] = rest[i - Len(h)])
    <2>1. PlanIs(p, h, rest)
      BY PlanItems DEF p
    <2> QED BY <2>1 DEF PlanIs
  <1>2. ASSUME NEW i \in DOMAIN p
        PROVE  /\ p[i].what \in {"redirect", "response"} => \A j \in 1..i - 1 : p[j].what = "redirect"
               /\ p[i].what = "response" => p[i].answer # None
               /\ p[i].what = "data" => p[i].chunks > 0
               /\ Delayed(p[i]) => \E j \in 1..i - 1 : p[j].what = "response"
    <2>1. CASE i \in 1..Len(h)
      <3>1. p[i].what = "redirect"
        BY <1>1, <2>1
      <3>2. \A j \in 1..i - 1 : j \in 1..Len(h)
        BY <2>1
      <3> QED BY <1>1, <3>1, <3>2 DEF Delayed
    <2>2. CASE i > Len(h) /\ i - Len(h) \in 1..Len(rest) /\ p[i] = rest[i - Len(h)]
      <3> DEFINE k == i - Len(h)
      <3>1. /\ p[i].what # "redirect"
            /\ p[i].what = "response" => k = 1 /\ p[i].answer # None
            /\ p[i].what = "data" => p[i].chunks > 0
            /\ p[i].what \in {"data", "finish"} => k > 1 /\ rest[1].what = "response"
        BY <2>2 DEF Rest
      <3>2. Len(h) \in Nat /\ i \in Int /\ Len(rest) \in Nat
        BY <1>1
      <3>3. k = 1 => \A j \in 1..i - 1 : j \in 1..Len(h)
        BY <3>2
      <3>4. k > 1 => Len(h) + 1 \in 1..i - 1 /\ 1 \in 1..Len(rest)
        BY <2>2, <3>2
      <3>5. k > 1 => Len(h) + 1 \in 1..i - 1 /\ p[Len(h) + 1] = rest[1]
        BY <1>1, <3>4
      <3> HIDE DEF k
      <3> QED BY <1>1, <3>1, <3>3, <3>5 DEF Delayed
    <2> QED BY <1>1, <2>1, <2>2
  <1>3. PlanFits(Fresh, p)
    BY <1>2 DEF PlanFits, Fresh
  <1>4. ASSUME \A k \in 1..Len(rest) : rest[k].what \notin {"data", "fail"}, NEW i \in DOMAIN p
        PROVE  p[i].what \notin {"data", "fail"}
    BY <1>1, <1>4
  <1> QED BY <1>3, <1>4 DEF p

LEMMA FoundEntry ==
  ASSUME TypeOK, ProtocolInv, NEW q \in Requests, Current(requestMap, requestAt, q) # {}
  PROVE  /\ (CHOOSE e \in Current(requestMap, requestAt, q) : TRUE) \in Entry
         /\ \/ (CHOOSE e \in Current(requestMap, requestAt, q) : TRUE).failed
            \/ (CHOOSE e \in Current(requestMap, requestAt, q) : TRUE).answer # None
  <1> DEFINE e == CHOOSE e \in Current(requestMap, requestAt, q) : TRUE
  <1>1. e \in Current(requestMap, requestAt, q)
    OBVIOUS
  <1> HIDE DEF e
  <1>2. /\ requestAt[q] + 1 \in DOMAIN requestMap[q] /\ e = requestMap[q][requestAt[q] + 1]
        /\ e \in Entry
    BY <1>1, CurrentType
  <1>3. e.failed \/ e.answer # None
    BY <1>2 DEF ProtocolInv, EntriesAnswered
  <1> QED BY <1>2, <1>3 DEF e

LEMMA LoadReplayProtocol ==
  ASSUME TypeOK, ProtocolInv, NEW c \in Clients, NEW r \in Requests, NEW trace \in Trace,
         LoadReplay(c, r, trace)
  PROVE  ProtocolInv' /\ \A d \in Clients : Allowed(d)
  <1> DEFINE found(q) == Current(requestMap, requestAt, q)
             rest(q) == IF found(q) = {} THEN Missing ELSE Served(CHOOSE e \in found(q) : TRUE)
             posted(q) == IF found(q) = {} THEN "missing" ELSE "task"
             new == NewLoad(r, "store", FALSE, Like(r, FALSE))
             xx(h, q) == [new EXCEPT !.plan = Redirects(h) \o rest(q), !.posted = posted(q)]
  <1>1. ~Open(c) /\ UNCHANGED <<mode, token, requestMap>>
    BY DEF LoadReplay, MayLoad, sessionVars, mapVars
  <1>2. EntriesAnswered'
    BY <1>1 DEF ProtocolInv, EntriesAnswered
  <1>3. PICK r0 \in Requests : Begin(c, xx(Chain(r0).hops, Chain(r0).request))
    <2>1. ASSUME NEW r0 \in Recognised(r, trace, requestMap[r] # <<>> \/ redirectMap[r] # <<>>, Matching(trace))
          PROVE  r0 \in Requests
      BY <2>1 DEF Recognised, Matching, MadeFrom
    <2> QED BY <2>1 DEF LoadReplay
  <1> DEFINE q == Chain(r0).request
             h == Chain(r0).hops
             x == xx(h, q)
  <1>4. q \in Requests /\ h \in Seq(Requests)
    BY ChainType DEF Chains
  <1> HIDE DEF q, h
  <1>5. /\ rest(q) \in Seq(Item) /\ Rest(rest(q))
        /\ posted(q) = "missing" => \A k \in 1..Len(rest(q)) : rest(q)[k].what \notin {"data", "fail"}
        /\ posted(q) \in {"task", "missing"}
    <2>1. CASE found(q) = {}
      BY <2>1, RestIs
    <2>2. CASE found(q) # {}
      BY <1>4, <2>2, FoundEntry, RestIs
    <2> QED BY <2>1, <2>2
  <1>6. /\ x.plan = Redirects(h) \o rest(q) /\ x.posted = posted(q) /\ x.view = Fresh
        /\ x.sync = FALSE
    BY DEF NewLoad
  <1>7. Begin(c, x)
    BY <1>3 DEF q, h
  <1> HIDE DEF x, rest, posted
  <1>8. /\ PlanFits(Fresh, x.plan)
        /\ posted(q) = "missing" => \A i \in DOMAIN x.plan : x.plan[i].what \notin {"data", "fail"}
    BY <1>4, <1>5, <1>6, PlanFitsFresh
  <1>9. Fits(x, mode, token)
    <2>1. Fresh.end = "" /\ Fresh.answer = None /\ Fresh.chunks = 0
      BY DEF Fresh
    <2> QED BY <1>5, <1>6, <1>8, <2>1 DEF Fits
  <1> QED BY <1>1, <1>2, <1>6, <1>7, <1>9, OneBegun

LEMMA SyncReplayProtocol ==
  ASSUME TypeOK, ProtocolInv, NEW c \in Clients, NEW r \in Requests, NEW trace \in Trace,
         SyncReplay(c, r, trace)
  PROVE  ProtocolInv' /\ \A d \in Clients : Allowed(d)
  <1> DEFINE new == NewLoad(r, "store", TRUE, Like(r, TRUE))
             y == [new EXCEPT !.view = [@ EXCEPT !.answer = NoContent, !.end = "finish"]]
  <1>1. ~Open(c) /\ UNCHANGED <<mode, token, requestMap>>
    BY DEF SyncReplay, MayLoad, sessionVars, mapVars
  <1>2. EntriesAnswered'
    BY <1>1 DEF ProtocolInv, EntriesAnswered
  <1>3. \E e : Begin(c, y) \/ Begin(c, Answered(new, e))
    BY DEF SyncReplay
  <1>4. Fits(y, mode, token) /\ y.sync
    <2>1. y.view.end = "finish" /\ y.posted = "" /\ y.sync = TRUE
      BY DEF NewLoad, Fresh
    <2> HIDE DEF y
    <2> QED BY <2>1 DEF Fits
  <1>5. \A e : Fits(Answered(new, e), mode, token) /\ Answered(new, e).sync
    BY AnsweredFits
  <1> HIDE DEF y, new
  <1> QED BY <1>1, <1>2, <1>3, <1>4, <1>5, OneBegun
-----------------------------------------------------------------------------
Removed(p, i, w) ==
  /\ w \in Seq(Item) /\ Len(w) = Len(p) - 1
  /\ \A k \in DOMAIN w : /\ k < i => k \in DOMAIN p /\ w[k] = p[k]
                         /\ k >= i => k + 1 \in DOMAIN p /\ w[k] = p[k + 1]

LEMMA RemovedItems ==
  ASSUME NEW p \in Seq(Item), NEW i \in DOMAIN p
  PROVE  Removed(p, i, RemoveAt(p, i))
  <1> DEFINE a == SubSeq(p, 1, i - 1)
             b == SubSeq(p, i + 1, Len(p))
  <1>1. i \in 1..Len(p) /\ Len(p) \in Nat
    OBVIOUS
  <1>2. /\ a \in Seq(Item) /\ Len(a) = i - 1
        /\ \A k \in 1..i - 1 : a[k] = p[k]
    BY <1>1
  <1>3. /\ b \in Seq(Item) /\ Len(b) = Len(p) - i
        /\ \A k \in 1..Len(p) - i : b[k] = p[i + k]
    BY <1>1
  <1>4. RemoveAt(p, i) = a \o b
    BY DEF RemoveAt
  <1> HIDE DEF a, b
  <1> DEFINE w == a \o b
  <1>5. /\ w \in Seq(Item) /\ Len(w) = Len(p) - 1
        /\ \A k \in DOMAIN w : w[k] = IF k < i THEN a[k] ELSE b[k - (i - 1)]
    BY <1>1, <1>2, <1>3
  <1> HIDE DEF w
  <1>6. ASSUME NEW k \in DOMAIN w
        PROVE  /\ k < i => k \in DOMAIN p /\ w[k] = p[k]
               /\ k >= i => k + 1 \in DOMAIN p /\ w[k] = p[k + 1]
    <2>1. k \in 1..Len(p) - 1
      BY <1>5
    <2>2. CASE k < i
      <3>1. k \in 1..i - 1 /\ k \in DOMAIN p
        BY <1>1, <2>1, <2>2
      <3> QED BY <1>1, <1>2, <1>5, <2>1, <2>2, <3>1
    <2>3. CASE k >= i
      <3>1. k - (i - 1) \in 1..Len(p) - i /\ i + (k - (i - 1)) = k + 1 /\ k + 1 \in DOMAIN p
        BY <1>1, <2>1, <2>3
      <3>2. w[k] = b[k - (i - 1)]
        BY <1>1, <1>5, <2>1, <2>3
      <3> QED BY <1>1, <1>3, <2>1, <2>3, <3>1, <3>2
    <2> QED BY <1>1, <2>1, <2>2, <2>3
  <1> QED BY <1>4, <1>5, <1>6 DEF Removed, w

\* The client has been told no end, and no data before an answer.
Begun(v) == v.end = "" /\ (v.answer = None => v.chunks = 0)

\* The pairs in the order in which they were made, those of data and end in any.
Due(p, i) == \A j \in 1..i - 1 : Delayed(p[j]) /\ Delayed(p[i])

\* Of the events that are due, any may be told next, and the others still fit then.
LEMMA InjectFits ==
  ASSUME NEW v \in View, NEW p \in Seq(Item), NEW i \in DOMAIN p, PlanFits(v, p),
         Begun(v), Due(p, i)
  PROVE  /\ MayTell(v, Tell(v, p[i]))
         /\ Tell(v, p[i]).end = IF p[i].what \in {"finish", "fail"} THEN p[i].what ELSE ""
         /\ p[i].what \notin {"finish", "fail"} =>
              /\ Begun(Tell(v, p[i]))
              /\ PlanFits(Tell(v, p[i]), RemoveAt(p, i))
  <1> DEFINE w == Tell(v, p[i])
             s == RemoveAt(p, i)
  <1>1. p[i] \in Item /\ p[i].what \in {"redirect", "response", "data", "finish", "fail"}
    BY DEF Item
  <1>2. /\ v.hops \in Seq(Requests) /\ v.chunks \in Nat
        /\ v.end = "" /\ (v.answer = None => v.chunks = 0)
    BY DEF View, Begun
  <1>3. /\ s \in Seq(Item) /\ Len(s) = Len(p) - 1
        /\ \A k \in DOMAIN s : /\ k < i => k \in DOMAIN p /\ s[k] = p[k]
                               /\ k >= i => k + 1 \in DOMAIN p /\ s[k] = p[k + 1]
    BY RemovedItems DEF Removed
  <1> HIDE DEF s
  <1>10. ASSUME NEW k \in DOMAIN s PROVE \E j \in DOMAIN p : s[k] = p[j]
    <2>1. CASE k < i
      <3>1. k \in DOMAIN p /\ s[k] = p[k]
        BY <1>3, <2>1
      <3> QED BY <3>1
    <2>2. CASE k >= i
      <3>1. k + 1 \in DOMAIN p /\ s[k] = p[k + 1]
        BY <1>3, <2>2
      <3> QED BY <3>1
    <2>3. k \in Nat /\ i \in Nat
      BY <1>3
    <2> QED BY <2>1, <2>2, <2>3
  <1>4. Delayed(p[i]) => v.answer # None
    <2>1. SUFFICES ASSUME Delayed(p[i]), NEW j \in 1..i - 1, p[j].what = "response" PROVE FALSE
      BY DEF PlanFits
    <2> QED BY <2>1 DEF Delayed, Due
  <1>5. ~Delayed(p[i]) => i = 1
    <2>1. i # 1 => 1 \in 1..i - 1
      OBVIOUS
    <2> QED BY <2>1 DEF Due
  <1>6. CASE p[i].what = "redirect"
    <2>1. w = [v EXCEPT !.hops = Append(v.hops, p[i].to)] /\ v.answer = None
      BY <1>2, <1>6 DEF Tell, View, PlanFits
    <2>2. w.hops = Append(v.hops, p[i].to) /\ w.answer = None /\ w.chunks = 0 /\ w.end = ""
      BY <1>2, <2>1 DEF View
    <2>3. Len(v.hops) <= Len(w.hops) /\ SubSeq(w.hops, 1, Len(v.hops)) = v.hops
      <3>1. p[i].to \in Requests
        BY <1>1, <1>6 DEF Item
      <3>2. Len(v.hops) <= Len(Append(v.hops, p[i].to))
            /\ SubSeq(Append(v.hops, p[i].to), 1, Len(v.hops)) = v.hops
        BY <1>2, <3>1, Extended
      <3> HIDE DEF w
      <3> QED BY <2>2, <3>2, Zenon
    <2> HIDE DEF w
    <2>4. MayTell(v, w)
      BY <1>2, <2>1, <2>2, <2>3 DEF MayTell
    <2>5. i = 1
      BY <1>5, <1>6 DEF Delayed
    <2>6. PlanFits(w, s)
      <3> SUFFICES ASSUME NEW k \in DOMAIN s
                   PROVE  /\ s[k].what \in {"redirect", "response"} =>
                               w.answer = None /\ \A j \in 1..k - 1 : s[j].what = "redirect"
                          /\ s[k].what = "response" => s[k].answer # None
                          /\ s[k].what = "data" => s[k].chunks > 0
                          /\ Delayed(s[k]) => \E j \in 1..k - 1 : s[j].what = "response"
        BY DEF PlanFits
      <3>1. \A j \in DOMAIN s : j + 1 \in DOMAIN p /\ s[j] = p[j + 1]
        BY <1>3, <2>5
      <3>2. s[k].what \in {"redirect", "response"} => \A j \in 1..k - 1 : s[j].what = "redirect"
        <4> SUFFICES ASSUME s[k].what \in {"redirect", "response"}, NEW j \in 1..k - 1
                     PROVE  s[j].what = "redirect"
          OBVIOUS
        <4>1. j \in DOMAIN s /\ j + 1 \in 1..(k + 1) - 1
          BY <1>3
        <4> QED BY <3>1, <4>1 DEF PlanFits
      <3>3. Delayed(s[k]) => \E j \in 1..k - 1 : s[j].what = "response"
        <4> SUFFICES ASSUME Delayed(s[k]) PROVE \E j \in 1..k - 1 : s[j].what = "response"
          OBVIOUS
        <4>1. PICK j \in 1..(k + 1) - 1 : p[j].what = "response"
          BY <2>1, <3>1 DEF PlanFits
        <4>2. j # 1
          BY <1>6, <2>5, <4>1
        <4>3. j - 1 \in 1..k - 1 /\ (j - 1) + 1 = j /\ j - 1 \in DOMAIN s
          BY <1>3, <4>2
        <4> QED BY <3>1, <4>1, <4>3
      <3>4. /\ s[k].what = "response" => s[k].answer # None
            /\ s[k].what = "data" => s[k].chunks > 0
        BY <3>1 DEF PlanFits
      <3> QED BY <2>2, <3>2, <3>3, <3>4
    <2> QED BY <1>6, <2>2, <2>4, <2>6 DEF w, s, Begun
  <1>7. CASE p[i].what = "response"
    <2>1. w = [v EXCEPT !.answer = p[i].answer] /\ v.answer = None /\ p[i].answer # None
      BY <1>7 DEF Tell, PlanFits
    <2>2. w.answer = p[i].answer /\ w.end = ""
      BY <1>2, <2>1 DEF View
    <2> HIDE DEF w
    <2>3. MayTell(v, w)
      BY <1>2, <2>1, <2>2 DEF MayTell
    <2>4. i = 1
      BY <1>5, <1>7 DEF Delayed
    <2>5. PlanFits(w, s)
      <3> SUFFICES ASSUME NEW k \in DOMAIN s
                   PROVE  /\ s[k].what \notin {"redirect", "response"}
                          /\ s[k].what = "data" => s[k].chunks > 0
        BY <2>1, <2>2 DEF PlanFits
      <3>1. k + 1 \in DOMAIN p /\ s[k] = p[k + 1] /\ 1 \in 1..(k + 1) - 1
        BY <1>3, <2>4
      <3>2. p[1].what # "redirect"
        BY <1>7, <2>4
      <3> QED BY <3>1, <3>2 DEF PlanFits
    <2> QED BY <1>7, <2>1, <2>2, <2>3, <2>5 DEF w, s, Begun
  <1>8. CASE p[i].what = "data"
    <2>1. w = [v EXCEPT !.chunks = v.chunks + p[i].chunks] /\ v.answer # None /\ p[i].chunks > 0
      BY <1>4, <1>8 DEF Tell, View, PlanFits, Delayed
    <2>2. w.chunks = v.chunks + p[i].chunks /\ w.end = "" /\ w.answer = v.answer
      BY <1>2, <2>1 DEF View
    <2>3. p[i].chunks \in Nat
      BY <1>1, <1>8 DEF Item
    <2>4. w.chunks > v.chunks
      <3>1. \A n, m \in Nat : m > 0 => n + m > n
        OBVIOUS
      <3> HIDE DEF w
      <3> QED BY <1>2, <2>1, <2>2, <2>3, <3>1
    <2> HIDE DEF w
    <2>5. MayTell(v, w)
      BY <1>2, <2>1, <2>2, <2>4 DEF MayTell
    <2>6. PlanFits(w, s)
      <3> SUFFICES ASSUME NEW k \in DOMAIN s
                   PROVE  /\ s[k].what \notin {"redirect", "response"}
                          /\ s[k].what = "data" => s[k].chunks > 0
        BY <2>1, <2>2 DEF PlanFits
      <3>1. \E j \in DOMAIN p : s[k] = p[j]
        BY <1>10
      <3> QED BY <2>1, <3>1 DEF PlanFits
    <2> QED BY <1>8, <2>1, <2>2, <2>5, <2>6 DEF w, s, Begun
  <1>9. CASE p[i].what \in {"finish", "fail"}
    <2>1. w = [v EXCEPT !.end = p[i].what]
      BY <1>9 DEF Tell
    <2>2. w.end = p[i].what
      BY <1>2, <2>1 DEF View
    <2>3. p[i].what = "finish" => v.answer # None
      BY <1>4 DEF Delayed
    <2> HIDE DEF w
    <2>4. MayTell(v, w)
      BY <1>2, <1>9, <2>1, <2>3 DEF MayTell
    <2> QED BY <1>9, <2>2, <2>4 DEF w
  <1> QED BY <1>1, <1>6, <1>7, <1>8, <1>9
-----------------------------------------------------------------------------
LEMMA RunTaskProtocol ==
  ASSUME TypeOK, ServedInv, ProtocolInv, NEW c \in DOMAIN load, RunTask(c)
  PROVE  ProtocolInv' /\ \A d \in Clients : Allowed(d)
  <1> DEFINE x == [load[c] EXCEPT !.posted = "pairs", !.id = token]
  <1>1. load[c] \in Load /\ Fits(load[c], mode, token) /\ load[c].token <= token /\ token \in Nat
    BY DEF TypeOK, ProtocolInv, ServedInv, TokensGiven
  <1>2. /\ load' = [load EXCEPT ![c] = x] /\ load[c].posted = "task"
        /\ UNCHANGED <<mode, token, requestMap>>
    BY DEF RunTask, loopUnchanged, sessionVars, mapVars
  <1>3. EntriesAnswered'
    BY <1>2 DEF ProtocolInv, EntriesAnswered
  <1>4. /\ x.view = load[c].view /\ x.plan = load[c].plan /\ x.sync = load[c].sync
        /\ x.posted = "pairs" /\ x.id = token /\ x.token = load[c].token
    BY <1>1 DEF Load
  <1> HIDE DEF x
  <1>5. /\ PlanFits(x.view, x.plan)
        /\ x.view.end = "" /\ ~x.sync /\ (x.view.answer = None => x.view.chunks = 0)
    BY <1>1, <1>2, <1>4 DEF Fits
  <1>6. x.token <= x.id /\ x.id <= token
    BY <1>1, <1>4
  <1>7. Fits(x, mode, token)
    BY <1>4, <1>5, <1>6 DEF Fits
  <1> QED BY <1>2, <1>3, <1>4, <1>7, OneTold

\* What a client knows of a load for which nothing was recorded.
MissingView(w) ==
  /\ w \in View /\ w.chunks = 0 /\ w.end \in {"", "finish"}
  /\ w.end = "finish" => w.answer # None

LEMMA FreshType == Fresh \in View
  <1>1. <<>> \in Seq(Requests) /\ None \in Answer
    BY RequestsAssumption DEF None, Answer
  <1> QED BY <1>1 DEF Fresh, View

LEMMA MissingTold ==
  ASSUME NEW p \in Seq(Item), PlanFits(Fresh, p),
         \A i \in DOMAIN p : p[i].what \notin {"data", "fail"}, NEW n \in 0..Len(p)
  PROVE  MissingView(Telling(Fresh, p)[n])
  <1> DEFINE known == Telling(Fresh, p)
             Good(m) == /\ MissingView(known[m])
                        /\ (\E j \in 1..m : p[j].what = "response") => known[m].answer # None
             S == {m \in 0..Len(p) : Good(m)}
  <1>1. Fresh \in View
    BY FreshType
  <1>2. /\ known[0] = Fresh
        /\ \A m \in 1..Len(p) : known[m] = Tell(known[m - 1], p[m])
    BY <1>1, TellingSteps
  <1> HIDE DEF known
  <1>3. 0 \in S
    <2>1. MissingView(Fresh)
      BY <1>1 DEF MissingView, Fresh
    <2>2. ~\E j \in 1..0 : p[j].what = "response"
      OBVIOUS
    <2>3. Good(0)
      BY <1>2, <2>1, <2>2
    <2>4. 0 \in 0..Len(p)
      OBVIOUS
    <2> HIDE DEF Good
    <2> QED BY <2>3, <2>4
  <1>4. ASSUME NEW m \in 0..Len(p), m \in S, m < Len(p) PROVE m + 1 \in S
    <2> DEFINE v == known[m]
               item == p[m + 1]
               w == Tell(v, item)
    <2>1. m + 1 \in 1..Len(p) /\ (m + 1) - 1 = m /\ m + 1 \in DOMAIN p
      BY <1>4
    <2>2. known[m + 1] = w
      BY <1>2, <2>1
    <2>3. item \in Item /\ item.what \in {"redirect", "response", "finish"}
      BY <2>1 DEF Item
    <2>4. MissingView(v) /\ ((\E j \in 1..m : p[j].what = "response") => v.answer # None)
      BY <1>4
    <2>5. w \in View
      BY <2>3, <2>4, TellType DEF MissingView
    <2>6. item.what = "response" => item.answer # None
      BY <2>1 DEF PlanFits
    <2>7. item.what = "finish" => v.answer # None
      <3> SUFFICES ASSUME item.what = "finish" PROVE v.answer # None
        OBVIOUS
      <3>1. \E j \in 1..(m + 1) - 1 : p[j].what = "response"
        BY <2>1 DEF PlanFits, Delayed, Fresh
      <3> QED BY <2>1, <2>4, <3>1
    <2>8. \A j \in 1..m + 1 : j \in 1..m \/ j = m + 1
      OBVIOUS
    <2> HIDE DEF v
    <2>9. CASE item.what = "redirect"
      <3>1. w.answer = v.answer /\ w.end = v.end /\ w.chunks = v.chunks
        BY <2>4, <2>9 DEF Tell, View, MissingView
      <3>2. Good(m + 1)
        BY <2>2, <2>4, <2>5, <2>8, <2>9, <3>1 DEF MissingView
      <3> QED BY <2>1, <3>2
    <2>10. CASE item.what = "response"
      <3>1. w.answer = item.answer /\ w.end = v.end /\ w.chunks = v.chunks
        BY <2>4, <2>10 DEF Tell, View, MissingView
      <3>2. Good(m + 1)
        BY <2>2, <2>4, <2>5, <2>6, <2>10, <3>1 DEF MissingView
      <3> QED BY <2>1, <3>2
    <2>11. CASE item.what = "finish"
      <3>1. w.answer = v.answer /\ w.end = "finish" /\ w.chunks = v.chunks
        BY <2>4, <2>11 DEF Tell, View, MissingView
      <3>2. Good(m + 1)
        BY <2>2, <2>4, <2>5, <2>7, <2>11, <3>1 DEF MissingView
      <3> QED BY <2>1, <3>2
    <2> QED BY <2>3, <2>9, <2>10, <2>11
  <1> HIDE DEF Good
  <1>5. Len(p) \in Nat
    OBVIOUS
  <1> HIDE DEF S
  <1>6. 0..Len(p) \subseteq S
    BY <1>3, <1>4, <1>5, Induction
  <1>7. Good(n)
    BY <1>6 DEF S
  <1> QED BY <1>7 DEF Good, known

LEMMA RunMissingProtocol ==
  ASSUME TypeOK, ProtocolInv, NEW c \in DOMAIN load, RunMissing(c)
  PROVE  ProtocolInv' /\ \A d \in Clients : Allowed(d)
  <1> DEFINE x == load[c]
             told(w) == [x EXCEPT !.view = w, !.plan = <<>>, !.posted = ""]
  <1>1. x \in Load /\ Fits(x, mode, token) /\ x.posted = "missing" /\ x.plan \in Seq(Item)
    BY DEF TypeOK, ProtocolInv, RunMissing, Load
  <1>2. /\ x.view = Fresh /\ PlanFits(Fresh, x.plan) /\ ~x.sync
        /\ \A i \in DOMAIN x.plan : x.plan[i].what \notin {"data", "fail"}
    BY <1>1 DEF Fits
  <1>3. UNCHANGED <<mode, token, requestMap>>
    BY DEF RunMissing, loopUnchanged, sessionVars, mapVars
  <1>4. EntriesAnswered'
    BY <1>3 DEF ProtocolInv, EntriesAnswered
  <1>5. PICK n \in 0..Len(x.plan) :
          \/ load' = [load EXCEPT ![c] = told(Telling(Fresh, x.plan)[n])]
          \/ load' = [load EXCEPT ![c] = Cancelled(told(Telling(Fresh, x.plan)[n]))]
    <2>1. PICK n \in DOMAIN x.plan :
            \/ load' = [load EXCEPT ![c] = told(Telling(x.view, x.plan)[n])]
            \/ load' = [load EXCEPT ![c] = Cancelled(told(Telling(x.view, x.plan)[n]))]
      BY DEF RunMissing
    <2>2. n \in 0..Len(x.plan)
      BY <1>1, <2>1
    <2> QED BY <1>2, <2>1, <2>2
  <1> DEFINE w == Telling(Fresh, x.plan)[n]
             y == told(w)
  <1>6. MissingView(w)
    BY <1>1, <1>2, MissingTold
  <1> HIDE DEF w
  <1>7. y.view = w /\ y.posted = "" /\ y.sync = x.sync
    BY <1>1 DEF Load
  <1>8. /\ Cancelled(y).view = [w EXCEPT !.end = "cancel"] /\ Cancelled(y).posted = ""
        /\ Cancelled(y).sync = x.sync
    BY <1>1 DEF Load, Cancelled
  <1>9. load' = [load EXCEPT ![c] = y] \/ load' = [load EXCEPT ![c] = Cancelled(y)]
    BY <1>5 DEF w
  <1> HIDE DEF y
  <1> DEFINE u == [w EXCEPT !.end = "cancel"]
  <1>10. w.hops \in Seq(Requests)
    BY <1>6 DEF MissingView, View
  <1>11. /\ u.hops = w.hops /\ u.chunks = 0 /\ u.end = "cancel"
    BY <1>6 DEF MissingView, View
  <1> HIDE DEF u
  <1>12. 0 <= Len(w.hops) /\ SubSeq(w.hops, 1, 0) = <<>>
    BY <1>10
  <1>13. MayTell(Fresh, w)
    BY <1>6, <1>12 DEF MayTell, Fresh, MissingView
  <1>14. MayTell(Fresh, u)
    BY <1>11, <1>12 DEF MayTell, Fresh
  <1>15. Fits(y, mode, token)
    BY <1>2, <1>6, <1>7 DEF Fits, MissingView
  <1>16. Fits(Cancelled(y), mode, token)
    BY <1>8, <1>11 DEF Fits, u
  <1>17. CASE load' = [load EXCEPT ![c] = y]
    BY <1>2, <1>3, <1>4, <1>7, <1>13, <1>15, <1>17, OneTold
  <1>18. CASE load' = [load EXCEPT ![c] = Cancelled(y)]
    BY <1>2, <1>3, <1>4, <1>8, <1>14, <1>16, <1>18, OneTold DEF u
  <1> QED BY <1>9, <1>17, <1>18

LEMMA RunPairInjectProtocol ==
  ASSUME TypeOK, ProtocolInv, NEW c \in DOMAIN load, NEW i, RunPairInject(c, i)
  PROVE  ProtocolInv' /\ \A d \in Clients : Allowed(d)
  <1> DEFINE x == load[c]
             v == x.view
             p == x.plan
             y == Told(Without(x, i), p[i])
  <1>1. x \in Load /\ Fits(x, mode, token) /\ x.posted = "pairs" /\ i \in DOMAIN p
        /\ mode = "replaying" /\ token = x.id /\ v \in View /\ p \in Seq(Item)
    BY DEF TypeOK, ProtocolInv, RunPairInject, Fires, Replaying, Load
  <1>2. PlanFits(v, p) /\ Begun(v) /\ ~x.sync /\ x.token <= x.id /\ x.id <= token
    BY <1>1 DEF Fits, Begun
  <1>3. Due(p, i)
    BY DEF RunPairInject, Fires, Due
  <1>4. /\ UNCHANGED <<mode, token, requestMap>>
        /\ load' = [load EXCEPT ![c] = y]
    BY DEF RunPairInject, loopUnchanged, sessionVars, mapVars
  <1>5. EntriesAnswered'
    BY <1>4 DEF ProtocolInv, EntriesAnswered
  <1>6. /\ MayTell(v, Tell(v, p[i]))
        /\ Tell(v, p[i]).end = IF p[i].what \in {"finish", "fail"} THEN p[i].what ELSE ""
        /\ p[i].what \notin {"finish", "fail"} =>
             /\ Begun(Tell(v, p[i]))
             /\ PlanFits(Tell(v, p[i]), RemoveAt(p, i))
    BY <1>1, <1>2, <1>3, InjectFits
  <1>7. /\ y.view = Tell(v, p[i]) /\ y.sync = x.sync /\ y.id = x.id /\ y.token = x.token
        /\ p[i].what \in {"finish", "fail"} => y.posted = ""
        /\ p[i].what \notin {"finish", "fail"} => y.posted = x.posted /\ y.plan = RemoveAt(p, i)
    <2>1. /\ Without(x, i).view = v /\ Without(x, i).sync = x.sync /\ Without(x, i).id = x.id
          /\ Without(x, i).token = x.token /\ Without(x, i).posted = x.posted
          /\ Without(x, i).plan = RemoveAt(p, i)
      BY <1>1 DEF Without, Load
    <2>2. Without(x, i) \in Load
      BY <1>1, WithoutType
    <2> DEFINE z == Without(x, i)
    <2> HIDE DEF z
    <2>3. z \in Load => /\ Told(z, p[i]).view = Tell(z.view, p[i])
                        /\ Told(z, p[i]).sync = z.sync /\ Told(z, p[i]).id = z.id
                        /\ Told(z, p[i]).token = z.token
                        /\ p[i].what \in {"finish", "fail"} => Told(z, p[i]).posted = ""
                        /\ p[i].what \notin {"finish", "fail"} =>
                             Told(z, p[i]).posted = z.posted /\ Told(z, p[i]).plan = z.plan
      BY DEF Told, Load
    <2> QED BY <2>1, <2>2, <2>3 DEF z
  <1> HIDE DEF y
  <1>8. Fits(y, mode, token)
    <2>1. CASE p[i].what \in {"finish", "fail"}
      <3>1. y.view.end # "" /\ y.posted = ""
        BY <1>6, <1>7, <2>1
      <3> QED BY <3>1 DEF Fits
    <2>2. CASE p[i].what \notin {"finish", "fail"}
      <3>1. /\ y.view.end = "" /\ y.posted = "pairs" /\ ~y.sync
            /\ (y.view.answer = None => y.view.chunks = 0) /\ PlanFits(y.view, y.plan)
            /\ y.token <= y.id /\ y.id <= token
        BY <1>1, <1>2, <1>6, <1>7, <2>2 DEF Begun
      <3> QED BY <3>1 DEF Fits
    <2> QED BY <2>1, <2>2
  <1>9. ~x.sync /\ MayTell(x.view, y.view) /\ y.sync = x.sync
    BY <1>2, <1>6, <1>7
  <1> QED BY <1>4, <1>5, <1>8, <1>9, OneTold

LEMMA RunPairCancelProtocol ==
  ASSUME TypeOK, ProtocolInv, NEW c \in DOMAIN load, NEW i, RunPairCancel(c, i)
  PROVE  ProtocolInv' /\ \A d \in Clients : Allowed(d)
  <1> DEFINE x == load[c]
             y == Without(x, i)
  <1>1. x \in Load /\ Fits(x, mode, token) /\ x.posted = "pairs"
        /\ ~(mode = "replaying" /\ token = x.id)
    BY DEF TypeOK, ProtocolInv, RunPairCancel, Fires, Replaying
  <1>2. UNCHANGED <<mode, token, requestMap>> /\ load' = [load EXCEPT ![c] = y]
    BY DEF RunPairCancel, loopUnchanged, sessionVars, mapVars
  <1>3. EntriesAnswered'
    BY <1>2 DEF ProtocolInv, EntriesAnswered
  <1>4. /\ y.view = x.view /\ y.sync = x.sync /\ y.id = x.id /\ y.token = x.token
        /\ y.posted = x.posted
    BY <1>1 DEF Without, Load
  <1> HIDE DEF y
  <1>5. Fits(y, mode, token)
    BY <1>1, <1>4 DEF Fits
  <1> QED BY <1>2, <1>3, <1>4, <1>5, OneTold
-----------------------------------------------------------------------------
LEMMA StepProtocol ==
  ASSUME TypeOK, PendingInv, ServedInv, ProtocolInv, [Next]_vars
  PROVE  ProtocolInv' /\ \A d \in Clients : Allowed(d)
  <1>1. CASE Mode
    BY <1>1, ModeProtocol
  <1>2. ASSUME NEW c \in Clients, NEW r \in Requests, NEW trace \in Trace, StartLoad(c, r, trace)
        PROVE  ProtocolInv' /\ \A d \in Clients : Allowed(d)
    BY <1>2, LoadRecordingProtocol, LoadReplayProtocol, SyncRecordingProtocol, SyncReplayProtocol
       DEF StartLoad
  <1>3. ASSUME NEW c \in DOMAIN load, Cancel(c) \/ Network(c) \/ MessageLoop(c)
        PROVE  ProtocolInv' /\ \A d \in Clients : Allowed(d)
    <2>1. CASE Cancel(c)
      BY <2>1, CancelProtocol
    <2>2. CASE Network(c)
      BY <2>2, NetworkProtocol
    <2>3. CASE MessageLoop(c)
      BY <2>3, RunTaskProtocol, RunMissingProtocol, RunPairInjectProtocol, RunPairCancelProtocol
         DEF MessageLoop
    <2> QED BY <1>3, <2>1, <2>2, <2>3
  <1>4. CASE UNCHANGED vars
    <2>1. UNCHANGED <<mode, token, requestMap, load>>
      BY <1>4 DEF vars, sessionVars, mapVars
    <2>2. ProtocolInv'
      BY <2>1 DEF ProtocolInv, EntriesAnswered
    <2>3. ASSUME NEW d \in Clients PROVE Allowed(d)
      <3>1. ViewOf(d)' = ViewOf(d)
        BY <2>1 DEF ViewOf
      <3> QED BY <3>1, SameView
    <2> QED BY <2>2, <2>3
  <1> QED BY <1>1, <1>2, <1>3, <1>4 DEF Next

LEMMA InitProtocol == Init => ProtocolInv
  <1> SUFFICES ASSUME Init PROVE ProtocolInv
    OBVIOUS
  <1>1. \A r \in Requests : DOMAIN requestMap[r] = {}
    BY DEF Init
  <1>2. DOMAIN load = {}
    BY DEF Init, NoClient
  <1> QED BY <1>1, <1>2 DEF ProtocolInv, EntriesAnswered

\* Whatever the network, the recording and the user do, every client of the loaders is
\* told of its loads in the order that LoadProtocol allows (ResourceLoader's assertions),
\* also when a replay is broken off, repeated or overlaps the loads of an earlier mode:
\* the specification implements the abstract one for each client.
THEOREM ClientsAreToldInOrder == Spec => KeepsProtocol
  <1>1. Init => \A c \in Clients : P(c)!Init
    BY AllowedInit
  <1>2. TypeOK /\ PendingInv /\ ServedInv /\ ProtocolInv /\ [Next]_vars
          => \A c \in Clients : [P(c)!Next]_(ViewOf(c))
    BY StepProtocol DEF Allowed
  <1>3. TypeOK /\ PendingInv /\ ServedInv /\ ProtocolInv /\ [Next]_vars => ProtocolInv'
    BY StepProtocol
  <1> QED
    BY <1>1, <1>2, <1>3, InitProtocol, InitType, StepType, InitServed, StepServed,
       InitPending, StepPending, PTL DEF Spec, KeepsProtocol
=============================================================================
