---------------------------- MODULE MCSession ----------------------------
(* TLC instances of Session: candidates by name. *)
EXTENDS Session

MCCandidate == {"srflx", "relay"}
MCOfferer == {"A"}
=============================================================================
