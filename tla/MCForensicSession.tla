------------------------- MODULE MCForensicSession -------------------------
(* Small instances of ForensicSession for TLC. *)
EXTENDS ForensicSession

\* A recording made earlier and kept by the client: what startRecording opens
\* with, the events of the user's, and the stop event.
Opened == <<[kind |-> "recStart",   tick |-> 0, seq |-> 1],
            [kind |-> "clearCache", tick |-> 0, seq |-> 2],
            [kind |-> "loadURL",    tick |-> 0, seq |-> 3],
            [kind |-> "resize",     tick |-> 0, seq |-> 5],
            [kind |-> "loadURL",    tick |-> 0, seq |-> 4]>>

Recorded(used, t) ==
  [events |-> Opened \o used \o <<[kind |-> "stop", tick |-> t, seq |-> 6 + Len(used)]>>,
   start |-> 0, rec |-> 1, v8 |-> TRUE]

\* A second event, one tick or two after the first: the time for which a task may be held
\* up, or more.
Twice(k, t) == <<[kind |-> k, tick |-> 1, seq |-> 6], [kind |-> "scroll", tick |-> t, seq |-> 7]>>

NoFiles   == {}
InputFile == {Recorded(<<[kind |-> "input", tick |-> 1, seq |-> 6]>>, 2)}
TwoEvents == {Recorded(Twice("input", 2), 3), Recorded(Twice("history", 3), 3)}
=============================================================================
