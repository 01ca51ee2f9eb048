---------------------------- MODULE JobLifecycle ----------------------------
(***************************************************************************)
(* What SPEC.md section 3 promises of an envelope's life, apart from the   *)
(* queue, the pipelines and the evidence: an envelope is received,         *)
(* classified once, run unless its intent is Unknown, and ends once, in an *)
(* outcome its pipeline can have.  A crash may lose it at any point.       *)
(* AgentLoop.tla is shown to implement this specification.                 *)
(***************************************************************************)
CONSTANTS Job,      \* the envelopes
          NoIntent  \* the intent of an envelope that is not classified

VARIABLES status,   \* where the envelope is in its life
          intent    \* what SignalGate made of it

lifeVars == <<status, intent>>

Intent  == {"query", "command", "payload", "unknown"}
Outcome == {"completed", "failed", "denied", "ignored"}
Status  == {"new", "received", "classified", "running", "lost"} \cup Outcome

\* The outcomes each pipeline can end in.
OutcomesOf(i) ==
    CASE i = "query"   -> {"completed"}
      [] i = "command" -> {"completed", "failed", "ignored"}
      [] i = "payload" -> Outcome
      [] OTHER         -> {}

LifeInit ==
    /\ status = [j \in Job |-> "new"]
    /\ intent = [j \in Job |-> NoIntent]

Move(j, from, to) ==
    /\ status[j] = from
    /\ status' = [status EXCEPT ![j] = to]

Take(j) == Move(j, "new", "received") /\ UNCHANGED intent

Classified(j, i) ==
    /\ Move(j, "received", "classified")
    /\ intent' = [intent EXCEPT ![j] = i]

Run(j) ==
    /\ intent[j] # "unknown"
    /\ Move(j, "classified", "running")
    /\ UNCHANGED intent

Skip(j) ==
    /\ intent[j] = "unknown"
    /\ Move(j, "classified", "ignored")
    /\ UNCHANGED intent

Settle(j, o) ==
    /\ o \in OutcomesOf(intent[j])
    /\ Move(j, "running", o)
    /\ UNCHANGED intent

\* A crash takes any number of unfinished envelopes with it.
Lose(S) ==
    /\ \A j \in S : status[j] \notin Outcome \cup {"lost"}
    /\ status' = [j \in Job |-> IF j \in S THEN "lost" ELSE status[j]]
    /\ UNCHANGED intent

LifeNext ==
    \/ \E j \in Job :
          \/ Take(j) \/ Run(j) \/ Skip(j)
          \/ \E i \in Intent : Classified(j, i)
          \/ \E o \in Outcome : Settle(j, o)
    \/ \E S \in SUBSET Job : Lose(S)

LifeSpec == LifeInit /\ [][LifeNext]_lifeVars

=============================================================================
