--------------------------- MODULE MCFindingStore ---------------------------
(* One host with an issue of each class. *)
EXTENDS FindingStore

CONSTANTS port, login, h1

MCHostOf  == [i \in Issue |-> h1]
MCClassOf == [i \in Issue |-> IF i = login THEN "intrusion" ELSE "vulnerability"]

=============================================================================
