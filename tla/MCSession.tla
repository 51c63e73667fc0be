------------------------------- MODULE MCSession -------------------------------
(***************************************************************************)
(* Instances of the server for TLC.                                        *)
(***************************************************************************)
EXTENDS SessionProperties, TLC

\* Ids of each kind are interchangeable in safety runs.
Symmetry == Permutations(Sessions) \cup Permutations(Conns) \cup Permutations(Queries)

RestartOps  == {"user", "fork", "delete", "stop", "crash", "torn", "unsaved"}
PatientOps  == {"user", "fork", "create", "delete", "leave", "stop", "crash"}
AbortOps    == {"user", "abort", "mode", "create", "leave", "fail"}
ServedOps   == {"user", "fail", "stop"}
MessageOps  == {"user", "abort"}
LeaveOps    == {"user", "leave"}

NoHook     == {}
MixedHook  == {"none", "ask", "deny"}
=============================================================================
