---------------------------- MODULE MCBaselines -----------------------------
(* A host with a signature of each class, and another one whose baselines  *)
(* can push those of the first out of the last Limit events.               *)
EXTENDS Baselines

CONSTANTS web, db, port, login, old

MCHostOf  == [s \in Signature |-> IF s = old THEN db ELSE web]
MCClassOf == [s \in Signature |-> IF s = login THEN "intrusion" ELSE "vulnerability"]

=============================================================================
