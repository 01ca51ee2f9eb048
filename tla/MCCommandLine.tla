--------------------------- MODULE MCCommandLine ----------------------------
(* Commands of an operator beside other clients, one of them without the
   token.  One destination has a flag among its words. *)
EXTENDS CommandLine

CONSTANTS r1, r2, r3

MCAuthentic == {r2, r3}
MCTargets   == {Local, <<"web", "--apply">>}

=============================================================================
