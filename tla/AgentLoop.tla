----------------------------- MODULE AgentLoop -----------------------------
(***************************************************************************)
(* The agent loop of src/loop/mod.rs and the bounded channel in front of   *)
(* it.  Channels, the heartbeat and the scheduled jobs send envelopes with *)
(* mpsc::Sender::send().await; one loop takes them one at a time, asks     *)
(* SignalGate for an intent, runs the pipeline of that intent and submits  *)
(* every lifecycle transition to the Evidence Locker.                      *)
(*                                                                         *)
(* Every await of the loop is a step of its own, so a crash of the process *)
(* can fall between any two of them; the queue is in memory and dies with  *)
(* it, the evidence is in the database and stays.  A failing locker is     *)
(* only logged (record_job_state), so any record may be missing.           *)
(*                                                                         *)
(* What a command does is ActiveDefense.tla's subject: here a dispatch     *)
(* only counts.  Operators marked "Mistake:" are plausible wrong versions  *)
(* of the definition below them, kept to show which property notices.      *)
(***************************************************************************)
EXTENDS Integers, Sequences

CONSTANTS
    Envelope,     \* the envelopes that may ever be sent
    NoEnvelope,   \* the loop is waiting in rx.recv()
    NoIntent,     \* an envelope not classified yet
    Contents,     \* what envelopes may say, a subset of Content
    Capacity,     \* runtime.event_buffer, the bound of the channel
    MaxPayloads,  \* runtime.max_concurrent_payloads, at least 1
    MaxCrashes    \* bound on the number of process crashes

\* What an envelope says, as far as routing can tell.  "defense" and "defend"
\* are the commands parse_active_defense_command knows, the first with a
\* prefix SignalGate knows too; "odd" is scan:nonsense and the like; "text" is
\* everything else.
Content == {"blank", "payload", "compact", "heartbeat", "defense", "odd", "defend", "text"}

ASSUME ContentAssumption  == Contents \subseteq Content
ASSUME NullAssumption     == NoEnvelope \notin Envelope
ASSUME CapacityAssumption == Capacity \in Nat \ {0}
ASSUME PayloadsAssumption == MaxPayloads \in Nat \ {0}
ASSUME CrashesAssumption  == MaxCrashes \in Nat

VARIABLES
    content,    \* what each envelope says, as far as routing can tell
    apiKey,     \* is SignalGate configured with an LLM key?
    engaged,    \* does check_engagement_context() pass?
    place,      \* where each envelope is
    queue,      \* the channel, oldest envelope first
    cur,        \* the envelope the loop works on
    step,       \* the await the loop stands at
    intent,     \* the classification of each envelope
    gates,      \* the payload gates each envelope has passed
    outcome,    \* how each envelope ended
    dispatched, \* how often each envelope reached the command handler
    ran,        \* how often each envelope's payload was instantiated in the sandbox
    permits,    \* the free permits of payload_slots
    trail,      \* the lifecycle states in the evidence, per envelope
    unrecorded, \* the envelopes for which a record failed
    crashes     \* the number of crashes so far

config  == <<content, apiKey, engaged>>
channel == <<place, queue>>
effects == <<gates, dispatched, ran, permits>>
journal == <<trail, unrecorded>>
vars    == <<config, channel, cur, step, intent, effects, outcome, journal, crashes>>

Intent  == {"query", "command", "payload", "unknown"}
Outcome == {"completed", "failed", "denied", "ignored"}
Place   == {"outside", "sending", "queued", "taken", "settled", "lost"}
Gate    == {"engagement", "approval", "scan"}
Step    == {"idle", "received", "classify", "classified", "running", "query", "command",
            "payload", "approval", "slot", "load", "scan", "execute", "settle"}
JobState == {"received", "classified", "running"} \cup Outcome

TypeOK ==
    /\ content \in [Envelope -> Contents]
    /\ apiKey \in BOOLEAN /\ engaged \in BOOLEAN
    /\ place \in [Envelope -> Place]
    /\ queue \in Seq(Envelope) /\ Len(queue) <= Capacity
    /\ cur \in Envelope \cup {NoEnvelope}
    /\ step \in Step
    /\ intent \in [Envelope -> Intent \cup {NoIntent}]
    /\ gates \in [Envelope -> SUBSET Gate]
    /\ outcome \in [Envelope -> Outcome \cup {"none"}]
    /\ dispatched \in [Envelope -> Nat]
    /\ ran \in [Envelope -> Nat]
    /\ permits \in 0..MaxPayloads
    /\ trail \in [Envelope -> Seq(JobState)]
    /\ unrecorded \subseteq Envelope
    /\ crashes \in 0..MaxCrashes

Init ==
    /\ content \in [Envelope -> Contents]
    /\ apiKey \in BOOLEAN
    /\ engaged \in BOOLEAN
    /\ place = [e \in Envelope |-> "outside"]
    /\ queue = <<>>
    /\ cur = NoEnvelope
    /\ step = "idle"
    /\ intent = [e \in Envelope |-> NoIntent]
    /\ gates = [e \in Envelope |-> {}]
    /\ outcome = [e \in Envelope |-> "none"]
    /\ dispatched = [e \in Envelope |-> 0]
    /\ ran = [e \in Envelope |-> 0]
    /\ permits = MaxPayloads
    /\ trail = [e \in Envelope |-> <<>>]
    /\ unrecorded = {}
    /\ crashes = 0

-----------------------------------------------------------------------------
(* The channel. *)

\* A REPL line, an accepted POST /ingest, a tick: send() is called.
Send(e) ==
    /\ place[e] = "outside"
    /\ place' = [place EXCEPT ![e] = "sending"]
    /\ UNCHANGED <<config, queue, cur, step, intent, effects, outcome, journal, crashes>>

\* Mistake: an unbounded channel.
Enqueue_Unbounded(e) ==
    /\ place[e] = "sending"
    /\ queue' = Append(queue, e)
    /\ place' = [place EXCEPT ![e] = "queued"]
    /\ UNCHANGED <<config, cur, step, intent, effects, outcome, journal, crashes>>

\* send() completes once the channel has room.
Enqueue(e) ==
    /\ place[e] = "sending"
    /\ Len(queue) < Capacity
    /\ queue' = Append(queue, e)
    /\ place' = [place EXCEPT ![e] = "queued"]
    /\ UNCHANGED <<config, cur, step, intent, effects, outcome, journal, crashes>>

\* The HTTP client goes away while its send() waits: the future is dropped.
Abandon(e) ==
    /\ place[e] = "sending"
    /\ place' = [place EXCEPT ![e] = "lost"]
    /\ UNCHANGED <<config, queue, cur, step, intent, effects, outcome, journal, crashes>>

-----------------------------------------------------------------------------
(* The loop. *)

Recv ==
    /\ step = "idle" /\ queue # <<>>
    /\ cur' = Head(queue)
    /\ queue' = Tail(queue)
    /\ place' = [place EXCEPT ![cur'] = "taken"]
    /\ step' = "received"
    /\ UNCHANGED <<config, intent, effects, outcome, journal, crashes>>

\* record_job_state: the locker takes the event, or fails and is ignored.
Record(s) ==
    \/ /\ trail' = [trail EXCEPT ![cur] = Append(@, s)]
       /\ UNCHANGED unrecorded
    \/ /\ unrecorded' = unrecorded \cup {cur}
       /\ UNCHANGED trail

RecordReceived ==
    /\ step = "received"
    /\ Record("received")
    /\ step' = "classify"
    /\ UNCHANGED <<config, channel, cur, intent, effects, outcome, crashes>>

\* classify_locally(): the intents decided without asking anybody.
LocalIntents(c) ==
    CASE c = "blank"   -> {"unknown"}
      [] c = "payload" -> {"payload"}
      [] c \in {"compact", "heartbeat", "defense", "odd"} -> {"command"}
      [] OTHER -> {}

\* classify_intent(): local rules first; Query when there is no key; else
\* whatever the LLM answers, and Unknown when it fails or answers nonsense.
Intents(c) ==
    IF LocalIntents(c) # {} THEN LocalIntents(c)
    ELSE IF ~apiKey THEN {"query"} ELSE Intent

Classify ==
    /\ step = "classify"
    /\ \E i \in Intents(content[cur]) : intent' = [intent EXCEPT ![cur] = i]
    /\ step' = "classified"
    /\ UNCHANGED <<config, channel, cur, effects, outcome, journal, crashes>>

\* Mistake: the Unknown arm of the match falls into the pipelines.
RecordClassified_RunsAll ==
    /\ step = "classified"
    /\ Record("classified")
    /\ step' = "running"
    /\ UNCHANGED <<config, channel, cur, intent, effects, outcome, crashes>>

\* The classification is recorded; an Unknown envelope is ignored at once.
RecordClassified ==
    /\ step = "classified"
    /\ Record("classified")
    /\ IF intent[cur] = "unknown"
       THEN /\ step' = "settle"
            /\ outcome' = [outcome EXCEPT ![cur] = "ignored"]
       ELSE /\ step' = "running"
            /\ UNCHANGED outcome
    /\ UNCHANGED <<config, channel, cur, intent, effects, crashes>>

\* Mistake: the pipeline starts first and is recorded when it ends.
RecordRunning_Late ==
    /\ step = "running"
    /\ step' = intent[cur]
    /\ UNCHANGED <<config, channel, cur, intent, effects, outcome, journal, crashes>>

\* Running is recorded before the pipeline of the intent starts.
RecordRunning ==
    /\ step = "running"
    /\ Record("running")
    /\ step' = intent[cur]
    /\ UNCHANGED <<config, channel, cur, intent, effects, outcome, crashes>>

\* A pipeline ends: this is what the last record of the envelope will say.
Decide(o) ==
    /\ outcome' = [outcome EXCEPT ![cur] = o]
    /\ step' = "settle"

\* The query pipeline: a failing retrieval counts as no context.
Query ==
    /\ step = "query"
    /\ Decide("completed")
    /\ UNCHANGED <<config, channel, cur, intent, effects, journal, crashes>>

\* The command pipeline.  The handler answers Ok(false) to what it does not
\* know (HEARTBEAT among it), else Ok(true) or an error.
CommandOutcomes(c) ==
    IF c \in {"compact", "defense", "defend"} THEN {"completed", "failed"} ELSE {"ignored"}

Command ==
    /\ step = "command"
    /\ dispatched' = [dispatched EXCEPT ![cur] = @ + 1]
    /\ \E o \in CommandOutcomes(content[cur]) : Decide(o)
    /\ UNCHANGED <<config, channel, cur, intent, gates, ran, permits, journal, crashes>>

\* The payload pipeline: a "payload:" prefix and an engagement context ...
CheckEngagement ==
    /\ step = "payload"
    /\ IF content[cur] # "payload" THEN Decide("ignored") /\ UNCHANGED gates
       ELSE IF ~engaged THEN Decide("denied") /\ UNCHANGED gates
       ELSE /\ gates' = [gates EXCEPT ![cur] = @ \cup {"engagement"}]
            /\ step' = "approval"
            /\ UNCHANGED outcome
    /\ UNCHANGED <<config, channel, cur, intent, dispatched, ran, permits, journal, crashes>>

\* Mistake: unwrap_or(true), a failing approval counts as granted.
Approve_FailOpen ==
    /\ step = "approval"
    /\ \/ /\ gates' = [gates EXCEPT ![cur] = @ \cup {"approval"}]
          /\ step' = "slot"
          /\ UNCHANGED outcome
       \/ /\ step' = "slot"
          /\ UNCHANGED <<outcome, gates>>
    /\ UNCHANGED <<config, channel, cur, intent, dispatched, ran, permits, journal, crashes>>

\* ... GhostMCP's approval (an error counts as a denial) ...
Approve ==
    /\ step = "approval"
    /\ \/ /\ gates' = [gates EXCEPT ![cur] = @ \cup {"approval"}]
          /\ step' = "slot"
          /\ UNCHANGED outcome
       \/ Decide("denied") /\ UNCHANGED gates
    /\ UNCHANGED <<config, channel, cur, intent, dispatched, ran, permits, journal, crashes>>

\* ... a permit (the semaphore is never closed, so acquire() does not fail;
\* the permit goes back when the iteration ends) ...
AcquireSlot ==
    /\ step = "slot"
    /\ permits > 0
    /\ permits' = permits - 1
    /\ step' = "load"
    /\ UNCHANGED <<config, channel, cur, intent, gates, dispatched, ran, outcome, journal, crashes>>

\* Mistake: a payload that cannot be loaded is skipped without continue.
PreparePayload_FallsThrough ==
    /\ step = "load"
    /\ \/ step' = "scan" /\ UNCHANGED outcome
       \/ Decide("completed")
    /\ UNCHANGED <<config, channel, cur, intent, effects, journal, crashes>>

\* ... the WASM file (bad name, or no such file) ...
PreparePayload ==
    /\ step = "load"
    /\ \/ step' = "scan" /\ UNCHANGED outcome
       \/ Decide("failed")
    /\ UNCHANGED <<config, channel, cur, intent, effects, journal, crashes>>

\* What scan() answers: Ok(true), or an error for what does not parse, an
\* import off the list or a suspicious instruction.  The loop asks only for
\* errors, so an Ok(false) would pass for clean; scan() never gives one.
ScanAnswers == {"clean", "error"}

\* ... and the scanner.
Scan ==
    /\ step = "scan"
    /\ \E a \in ScanAnswers :
          \/ /\ a # "error"
             /\ gates' = [gates EXCEPT ![cur] = IF a = "clean" THEN @ \cup {"scan"} ELSE @]
             /\ step' = "execute"
             /\ UNCHANGED outcome
          \/ a = "error" /\ Decide("denied") /\ UNCHANGED gates
    /\ UNCHANGED <<config, channel, cur, intent, dispatched, ran, permits, journal, crashes>>

\* How run_payload() ends: refused before there is an instance (a capability
\* the empty manifest of the loop does not grant, a module that does not
\* compile or link), trapped (out of fuel, past its deadline, a fault of its
\* own), or returned (also from a module without an entry point).
SandboxAnswers == {"refused", "trapped", "returned"}

RunPayload ==
    /\ step = "execute"
    /\ \E a \in SandboxAnswers :
          /\ ran' = [ran EXCEPT ![cur] = IF a = "refused" THEN @ ELSE @ + 1]
          /\ Decide(IF a = "returned" THEN "completed" ELSE "failed")
    /\ UNCHANGED <<config, channel, cur, intent, gates, dispatched, permits, journal, crashes>>

\* Mistake: the permit is forgotten instead of dropped.
Settle_LeaksPermit ==
    /\ step = "settle"
    /\ Record(outcome[cur])
    /\ place' = [place EXCEPT ![cur] = "settled"]
    /\ cur' = NoEnvelope
    /\ step' = "idle"
    /\ UNCHANGED <<config, queue, intent, effects, outcome, crashes>>

\* The outcome is recorded and the iteration ends.
Settle ==
    /\ step = "settle"
    /\ Record(outcome[cur])
    /\ place' = [place EXCEPT ![cur] = "settled"]
    /\ cur' = NoEnvelope
    /\ step' = "idle"
    /\ permits' = MaxPayloads
    /\ UNCHANGED <<config, queue, intent, gates, dispatched, ran, outcome, crashes>>

InMemory == {e \in Envelope : place[e] \in {"sending", "queued", "taken"}}

\* Mistake: the envelope at work is put back into the channel after a crash.
Crash_Redelivers ==
    /\ crashes < MaxCrashes
    /\ crashes' = crashes + 1
    /\ cur # NoEnvelope
    /\ place' = [e \in Envelope |-> IF e = cur THEN "queued"
                                    ELSE IF e \in InMemory THEN "lost" ELSE place[e]]
    /\ queue' = <<cur>>
    /\ cur' = NoEnvelope
    /\ step' = "idle"
    /\ permits' = MaxPayloads
    /\ UNCHANGED <<config, intent, gates, dispatched, ran, outcome, journal>>

\* The process dies and starts again: whatever was in memory is gone.
Crash ==
    /\ crashes < MaxCrashes
    /\ crashes' = crashes + 1
    /\ place' = [e \in Envelope |-> IF e \in InMemory THEN "lost" ELSE place[e]]
    /\ queue' = <<>>
    /\ cur' = NoEnvelope
    /\ step' = "idle"
    /\ permits' = MaxPayloads
    /\ UNCHANGED <<config, intent, gates, dispatched, ran, outcome, journal>>

Loop ==
    \/ Recv \/ RecordReceived \/ Classify \/ RecordClassified \/ RecordRunning
    \/ Query \/ Command
    \/ CheckEngagement \/ Approve \/ AcquireSlot \/ PreparePayload \/ Scan \/ RunPayload
    \/ Settle

Next ==
    \/ \E e \in Envelope : Send(e) \/ Enqueue(e) \/ Abandon(e)
    \/ Loop
    \/ Crash

Spec == Init /\ [][Next]_vars

(***************************************************************************)
(* The runtime keeps polling the loop, whose awaits all return: the LLM,   *)
(* the database and the targets answer or fail (the code sets no timeout   *)
(* of its own on them).  A tokio channel serves blocked senders in order,  *)
(* so a waiting send() is not passed over for ever.  Nobody has to send.   *)
(***************************************************************************)
Fairness == WF_vars(Loop) /\ \A e \in Envelope : SF_vars(Enqueue(e))

FairSpec == Spec /\ Fairness

-----------------------------------------------------------------------------
Rank(s) ==
    CASE s = "received"   -> 1
      [] s = "classified" -> 2
      [] s = "running"    -> 3
      [] OTHER            -> 4

(***************************************************************************)
(* The evidence of an envelope is in lifecycle order and ends at most      *)
(* once, even when records fail and the process crashes and restarts: a    *)
(* reader of the chain never sees two outcomes, or a state after one.      *)
(***************************************************************************)
TrailInOrder ==
    \A e \in Envelope : \A i, j \in DOMAIN trail[e] :
        i < j => Rank(trail[e][i]) < Rank(trail[e][j])

(***************************************************************************)
(* An outcome in the evidence is the outcome the pipeline really had, and  *)
(* "completed" of a payload envelope means that its payload was executed.  *)
(***************************************************************************)
EvidenceIsTrue ==
    \A e \in Envelope : \A i \in DOMAIN trail[e] :
        trail[e][i] \in Outcome =>
            /\ trail[e][i] = outcome[e]
            /\ (outcome[e] = "completed" /\ intent[e] = "payload") => ran[e] = 1
            /\ outcome[e] = "denied" => ran[e] = 0

(***************************************************************************)
(* A payload is executed only after the engagement check, GhostMCP's       *)
(* approval and a clean scan of that same envelope's payload.              *)
(***************************************************************************)
ExecutionIsGated ==
    \A e \in Envelope : ran[e] > 0 =>
        engaged /\ content[e] = "payload" /\ gates[e] = Gate

(***************************************************************************)
(* No envelope is executed or dispatched twice: neither a crash nor a      *)
(* blocked sender makes the loop work on an envelope again.                *)
(***************************************************************************)
AtMostOnce == \A e \in Envelope : ran[e] + dispatched[e] <= 1

(***************************************************************************)
(* Nothing is done unseen: when no record of an envelope failed, Running   *)
(* is in the evidence before its command or payload has any effect, so a   *)
(* crash in the middle leaves a trace of what had begun.                   *)
(***************************************************************************)
EffectsAreAnnounced ==
    \A e \in Envelope \ unrecorded :
        ran[e] + dispatched[e] > 0 => \E i \in DOMAIN trail[e] : trail[e][i] = "running"

(***************************************************************************)
(* The active-defense commands that parse_active_defense_command knows     *)
(* reach it: none of them completes without having been dispatched.        *)
(***************************************************************************)
KnownCommandsAreDispatched ==
    \A e \in Envelope :
        content[e] \in {"defense", "defend"} /\ outcome[e] = "completed" => dispatched[e] = 1

(***************************************************************************)
(* What was sent is settled in the end, unless its sender gives up or a    *)
(* crash takes it: the backpressure of a full channel is never permanent,  *)
(* and no pipeline, refusal or failed record stops the loop.               *)
(***************************************************************************)
SentIsSettled ==
    \A e \in Envelope :
        place[e] \in {"sending", "queued"} ~> place[e] \in {"settled", "lost"}

-----------------------------------------------------------------------------
\* The status of an envelope, read off the loop and not off the trail: a record
\* that fails stops nothing, and TrailInOrder and EvidenceIsTrue speak of it.
StatusOf(e) ==
    IF outcome[e] # "none" THEN outcome[e]
    ELSE CASE place[e] = "lost" -> "lost"
           [] place[e] = "taken" ->
                IF step \in {"received", "classify"} THEN "received"
                ELSE IF step \in {"classified", "running"} THEN "classified" ELSE "running"
           [] OTHER -> "new"

Life == INSTANCE JobLifecycle WITH
    Job    <- Envelope,
    status <- [e \in Envelope |-> StatusOf(e)]

(***************************************************************************)
(* The loop implements the lifecycle of SPEC.md: every step moves one      *)
(* envelope along it, loses some, or changes nothing.                      *)
(***************************************************************************)
ImplementsLifecycle == Life!LifeSpec

=============================================================================
