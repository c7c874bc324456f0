---------------------------- MODULE LoadProtocol ----------------------------
(***************************************************************************)
(* What the client of URL loaders may be told of each of its loads, from   *)
(* the network or from a recording: redirects, then an answer, then its    *)
(* data, then the end; and nothing after the end.  ResourceLoader asserts  *)
(* this order, in release builds too (its m_connectionState and m_state).  *)
(* One task of the message loop may tell several of these things.          *)
(***************************************************************************)
EXTENDS Integers, Sequences

CONSTANT None    \* no answer yet

VARIABLE view    \* hops, answer, chunks of data and the end the client knows of

Unended == view.end = ""

IsExtension(s, t) == Len(s) <= Len(t) /\ SubSeq(t, 1, Len(s)) = s

Fresh == [hops |-> <<>>, answer |-> None, chunks |-> 0, end |-> ""]

\* Before a client's first load, and between two, there is nothing to tell.
Init == view = [Fresh EXCEPT !.end = "cancel"]

\* A new load.
Started == ~Unended /\ view' = Fresh

\* The client was not told of a load that it made synchronously.
Forgotten == ~Unended /\ view' = [Fresh EXCEPT !.end = "cancel"]

\* Redirects, one after the other; perhaps the answer they lead to.
Redirected == /\ Unended /\ view.answer = None
              /\ IsExtension(view.hops, view'.hops)
              /\ view'.chunks = 0
              /\ view'.end = "finish" => view'.answer # None

Answered == /\ Unended /\ view.answer = None /\ view'.answer # None
            /\ view' = [view EXCEPT !.answer = view'.answer]

Received == /\ Unended /\ view.answer # None
            /\ view'.chunks > view.chunks
            /\ view' = [view EXCEPT !.chunks = view'.chunks]

Finished == /\ Unended /\ view.answer # None
            /\ view' = [view EXCEPT !.end = "finish"]

\* A load may fail or be cancelled at any time before.
Broken == /\ Unended
          /\ \E end \in {"fail", "cancel"} : view' = [view EXCEPT !.end = end]

Next == Started \/ Forgotten \/ Redirected \/ Answered \/ Received \/ Finished \/ Broken

Spec == Init /\ [][Next]_view
=============================================================================
