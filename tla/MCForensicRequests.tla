------------------------- MODULE MCForensicRequests -------------------------
(***************************************************************************)
(* Instances of ForensicRequests for TLC.                                  *)
(***************************************************************************)
EXTENDS ForensicRequests
=============================================================================
