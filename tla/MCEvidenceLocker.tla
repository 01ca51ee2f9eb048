-------------------------- MODULE MCEvidenceLocker --------------------------
(* Instances of EvidenceLocker for TLC. *)
EXTENDS EvidenceLocker

CONSTANTS c1, c2, c3, p1

\* Every call in one process.
OneHost == [c \in Call |-> p1]
=============================================================================
