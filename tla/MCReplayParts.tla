---------------------------- MODULE MCReplayParts ----------------------------
(***************************************************************************)
(* Three parts of a replay that share nothing, for TLC: the clocks of      *)
(* ReplayClock, the answers of ReplayData with one call of each policy,    *)
(* and the navigations of SelfHealing.  Each behaviour runs one of them,   *)
(* the others stay at the start.                                           *)
(***************************************************************************)
EXTENDS ReplayClock, ReplayData, SelfHealing

VARIABLE machine  \* the part that runs

\* Pages that ask for one kind of value several times, and one for two kinds.
SmallPages == {[dates |-> 3, rands |-> 0, readings |-> 0],
               [dates |-> 0, rands |-> 2, readings |-> 0],
               [dates |-> 0, rands |-> 0, readings |-> 3],
               [dates |-> 1, rands |-> 1, readings |-> 0]}

SomeCalls == {"readPlainText", "readHTML", "isLinkVisited", "userAgent",
              "defaultLocale", "cryptographicallyRandomValues", "memoryUsageMB"}

PolicyOf ==
  [call \in SomeCalls |->
     CASE call = "readPlainText" -> "asserted"
       [] call = "readHTML" -> "outputs"
       [] call = "isLinkVisited" -> "default"
       [] call = "userAgent" -> "latest"
       [] call = "defaultLocale" -> "locale"
       [] call = "cryptographicallyRandomValues" -> "filled"
       [] call = "memoryUsageMB" -> "unreplayed"]

\* Each call by itself, and the clipboard's calls together.
SomeCallSets == {{call} : call \in SomeCalls} \cup {{"readPlainText", "readHTML"}}

\* No action tells one stack trace from another, or one page but about:blank.
TracesAndPagesAreAlike == Permutations(Traces) \cup Permutations(URLs)
-----------------------------------------------------------------------------
PartsInit ==
  /\ machine \in {"clock", "data", "healing"}
  /\ Init /\ DataInit /\ HealingInit
  /\ machine # "clock" => page.rands = 2
  /\ machine # "data" => pageCalls = {"userAgent"}

PartsNext ==
  /\ machine' = machine
  /\ \/ machine = "clock" /\ Next /\ UNCHANGED <<dataVars, healingVars>>
     \/ machine = "data" /\ DataNext /\ UNCHANGED <<vars, healingVars>>
     \/ machine = "healing" /\ HealingNext /\ UNCHANGED <<vars, dataVars>>

PartsSpec == PartsInit /\ [][PartsNext]_<<machine, vars, dataVars, healingVars>>
=============================================================================
