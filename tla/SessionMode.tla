----------------------------- MODULE SessionMode -----------------------------
(***************************************************************************)
(* What one page's forensics agent promises its user, whatever timers,     *)
(* tasks and event objects it is built from: it is idle, recording or      *)
(* replaying; every change of mode takes the next state token; and the     *)
(* page is shown recorded events only while it is replaying.               *)
(***************************************************************************)
EXTENDS Naturals

CONSTANT NothingShown    \* what has been shown when a replay begins

VARIABLES mode, token, shown

vars == <<mode, token, shown>>

Init == /\ mode = "idle"
        /\ token = 0
        /\ shown = NothingShown

\* A recording may be restarted without being stopped; a replay may not be
\* interrupted by one.
StartRecording == /\ mode \in {"idle", "recording"}
                  /\ mode' = "recording"
                  /\ token' = token + 1
                  /\ UNCHANGED shown

StopRecording == /\ mode = "recording"
                 /\ mode' = "idle"
                 /\ token' = token + 1
                 /\ UNCHANGED shown

StartReplay == /\ mode = "idle"
               /\ mode' = "replaying"
               /\ token' = token + 1
               /\ shown' = NothingShown

StopReplay == /\ mode = "replaying"
              /\ mode' = "idle"
              /\ token' = token + 1
              /\ UNCHANGED shown

\* Recorded events reach the page: only in a replay, which may end with them.
Show == /\ mode = "replaying"
        /\ \/ UNCHANGED <<mode, token>>
           \/ /\ mode' = "idle"
              /\ token' = token + 1

\* The renderer is replaced: the mode survives, what the page was shown does not.
Forget == /\ shown' = NothingShown
          /\ UNCHANGED <<mode, token>>

Next == \/ StartRecording
        \/ StopRecording
        \/ StartReplay
        \/ StopReplay
        \/ Show
        \/ Forget

Spec == Init /\ [][Next]_vars
=============================================================================
