-------------------------- MODULE AgentLoop_proofs --------------------------
(***************************************************************************)
(* Theorems about AgentLoop.tla for any set of envelopes, any capacity of  *)
(* the channel and any number of payload slots and crashes.                *)
(***************************************************************************)
EXTENDS AgentLoop, TLAPS

-----------------------------------------------------------------------------
(* The inductive invariant. *)

\* An envelope is in the channel once, and only while it is queued.
QueueInv ==
    /\ \A i \in 1..Len(queue) : place[queue[i]] = "queued"
    /\ \A i, j \in 1..Len(queue) : queue[i] = queue[j] => i = j

\* The loop works on one envelope, or on none and is idle.
CurInv ==
    /\ cur = NoEnvelope <=> step = "idle"
    /\ \A e \in Envelope : place[e] = "taken" <=> e = cur

\* Nothing has happened to an envelope the loop has not taken.
FreshInv ==
    \A e \in Envelope : place[e] \in {"outside", "sending", "queued"} =>
        /\ intent[e] = NoIntent
        /\ gates[e] = {}
        /\ outcome[e] = "none"
        /\ dispatched[e] = 0 /\ ran[e] = 0
        /\ trail[e] = <<>>

\* The greatest rank the next record of cur exceeds.
Recorded ==
    CASE step = "received" -> 1
      [] step \in {"classify", "classified"} -> 2
      [] step = "running" -> 3
      [] OTHER -> 4

PayloadSteps == {"approval", "slot", "load", "scan", "execute"}
Pipelines    == {"query", "command", "payload"} \cup PayloadSteps

\* What is known of cur at each step of its iteration.
WorkInv ==
    cur # NoEnvelope =>
        /\ \A i \in 1..Len(trail[cur]) : Rank(trail[cur][i]) < Recorded
        /\ step # "settle" => /\ outcome[cur] = "none"
                              /\ dispatched[cur] = 0 /\ ran[cur] = 0
        /\ step = "settle" => outcome[cur] \in Outcome
        /\ step = "classified" => intent[cur] \in Intent
        /\ step = "running" => intent[cur] \in {"query", "command", "payload"}
        /\ step \in {"query", "command", "payload"} => intent[cur] = step
        /\ step \in PayloadSteps =>
              /\ intent[cur] = "payload" /\ engaged /\ content[cur] = "payload"
              /\ "engagement" \in gates[cur]
        /\ step \in {"slot", "load", "scan", "execute"} => "approval" \in gates[cur]
        /\ step = "execute" => "scan" \in gates[cur]
        /\ (step \in Pipelines /\ cur \notin unrecorded) =>
              \E i \in 1..Len(trail[cur]) : trail[cur][i] = "running"

LoopInv ==
    /\ TypeOK
    /\ QueueInv
    /\ CurInv
    /\ FreshInv
    /\ WorkInv
    /\ TrailInOrder
    /\ ExecutionIsGated
    /\ AtMostOnce
    /\ EffectsAreAnnounced

-----------------------------------------------------------------------------
(* Steps preserve the types. *)

LEMMA LoopInit == Init => LoopInv
BY NullAssumption, CapacityAssumption, PayloadsAssumption, CrashesAssumption
   DEF Init, LoopInv, TypeOK, QueueInv, CurInv, FreshInv, WorkInv, TrailInOrder,
       ExecutionIsGated, AtMostOnce, EffectsAreAnnounced, Place, Step, Outcome

LEMMA RecordType ==
    ASSUME TypeOK, cur \in Envelope, NEW s \in JobState, Record(s)
    PROVE  trail' \in [Envelope -> Seq(JobState)] /\ unrecorded' \subseteq Envelope
<1>1. trail[cur] \in Seq(JobState) /\ Append(trail[cur], s) \in Seq(JobState)
  BY DEF TypeOK
<1>. QED  BY <1>1 DEF TypeOK, Record

LEMMA GateType ==
    ASSUME TypeOK, cur \in Envelope, NEW g \in Gate,
           gates' = [gates EXCEPT ![cur] = @ \cup {g}]
    PROVE  gates' \in [Envelope -> SUBSET Gate]
BY DEF TypeOK

LEMMA TypeStep ==
    ASSUME LoopInv, [Next]_vars
    PROVE  TypeOK'
<1>. USE CapacityAssumption, PayloadsAssumption, CrashesAssumption
     DEF LoopInv, TypeOK, config, channel, effects, journal, Decide, Place, Step
<1>0. step # "idle" => cur \in Envelope
  BY DEF CurInv
<1>1. ASSUME NEW e \in Envelope, Send(e) \/ Enqueue(e) \/ Abandon(e) PROVE TypeOK'
  <2>1. CASE Send(e) \/ Abandon(e)
    BY <2>1 DEF Send, Abandon
  <2>2. CASE Enqueue(e)
    <3>1. queue' \in Seq(Envelope) /\ Len(queue') = Len(queue) + 1
      BY <2>2 DEF Enqueue
    <3>. QED  BY <2>2, <3>1 DEF Enqueue
  <2>. QED  BY <1>1, <2>1, <2>2
<1>2. CASE Recv
  BY <1>2 DEF Recv
<1>3. CASE RecordReceived
  BY <1>0, <1>3, RecordType DEF RecordReceived, JobState
<1>4. CASE Classify
  BY <1>0, <1>4 DEF Classify, Intents, LocalIntents, Intent
<1>5. CASE RecordClassified
  BY <1>0, <1>5, RecordType DEF RecordClassified, JobState, Outcome
<1>6. CASE RecordRunning
  BY <1>0, <1>6, RecordType, NullAssumption DEF RecordRunning, JobState, WorkInv
<1>7. CASE Query
  BY <1>0, <1>7 DEF Query, Outcome
<1>8. CASE Command
  BY <1>0, <1>8 DEF Command, CommandOutcomes, Outcome
<1>9. CASE CheckEngagement
  <2>1. gates' \in [Envelope -> SUBSET Gate]
    BY <1>0, <1>9, GateType, "engagement" \in Gate DEF CheckEngagement, Gate
  <2>. QED  BY <1>0, <1>9, <2>1 DEF CheckEngagement, Outcome
<1>10. CASE Approve
  <2>1. gates' \in [Envelope -> SUBSET Gate]
    BY <1>0, <1>10, GateType, "approval" \in Gate DEF Approve, Gate
  <2>. QED  BY <1>0, <1>10, <2>1 DEF Approve, Outcome
<1>11. CASE AcquireSlot
  BY <1>0, <1>11 DEF AcquireSlot
<1>12. CASE PreparePayload
  BY <1>0, <1>12 DEF PreparePayload, Outcome
<1>13. CASE Scan
  <2>1. gates' \in [Envelope -> SUBSET Gate]
    BY <1>0, <1>13, GateType, "scan" \in Gate DEF Scan, ScanAnswers, Gate
  <2>. QED  BY <1>0, <1>13, <2>1 DEF Scan, ScanAnswers, Outcome
<1>14. CASE RunPayload
  BY <1>0, <1>14 DEF RunPayload, SandboxAnswers, Outcome
<1>15. CASE Settle
  <2>1. outcome[cur] \in JobState
    BY NullAssumption, <1>0, <1>15 DEF Settle, WorkInv, JobState, CurInv
  <2>. QED  BY <1>0, <1>15, <2>1, RecordType DEF Settle
<1>16. CASE Crash
  BY <1>16 DEF Crash
<1>17. CASE UNCHANGED vars
  BY <1>17 DEF vars
<1>. QED
  BY <1>1, <1>2, <1>3, <1>4, <1>5, <1>6, <1>7, <1>8, <1>9, <1>10, <1>11, <1>12, <1>13, <1>14,
     <1>15, <1>16, <1>17 DEF Next, Loop

-----------------------------------------------------------------------------
(* Steps keep every envelope in one place. *)

LEMMA PlaceStep ==
    ASSUME LoopInv, [Next]_vars
    PROVE  QueueInv' /\ CurInv'
<1>1. /\ NoEnvelope \notin Envelope /\ cur \in Envelope \cup {NoEnvelope}
      /\ place \in [Envelope -> Place] /\ queue \in Seq(Envelope)
  BY NullAssumption DEF LoopInv, TypeOK
<1>2. \A i \in 1..Len(queue) : queue[i] \in Envelope /\ place[queue[i]] = "queued"
  BY <1>1 DEF LoopInv, QueueInv
<1>3. \A i, j \in 1..Len(queue) : queue[i] = queue[j] => i = j
  BY DEF LoopInv, QueueInv
<1>4. /\ cur = NoEnvelope <=> step = "idle"
      /\ \A e \in Envelope : place[e] = "taken" <=> e = cur
  BY DEF LoopInv, CurInv
<1>5. ASSUME queue' = queue, \A i \in 1..Len(queue) : place'[queue[i]] = place[queue[i]]
      PROVE  QueueInv'
  BY <1>2, <1>3, <1>5 DEF QueueInv
<1>6. ASSUME NEW e \in Envelope, Send(e) \/ Abandon(e) PROVE QueueInv' /\ CurInv'
  <2>1. /\ place[e] \in {"outside", "sending"}
        /\ \E p \in {"sending", "lost"} : place' = [place EXCEPT ![e] = p]
        /\ queue' = queue /\ cur' = cur /\ step' = step
    BY <1>6 DEF Send, Abandon
  <2>2. \A i \in 1..Len(queue) : place'[queue[i]] = place[queue[i]]
    <3>1. \A f \in Envelope : f # e => place'[f] = place[f]
      BY <1>1, <2>1
    <3>2. \A i \in 1..Len(queue) : queue[i] # e
      BY <1>2, <2>1
    <3>. QED  BY <1>2, <3>1, <3>2
  <2>3. CurInv'
    <3>1. \A f \in Envelope : place'[f] = "taken" <=> place[f] = "taken"
      BY <1>1, <2>1
    <3>. QED  BY <1>4, <2>1, <3>1 DEF CurInv
  <2>. QED  BY <1>5, <2>1, <2>2, <2>3
<1>7. ASSUME NEW e \in Envelope, Enqueue(e) PROVE QueueInv' /\ CurInv'
  <2>1. /\ place[e] = "sending" /\ place' = [place EXCEPT ![e] = "queued"]
        /\ cur' = cur /\ step' = step /\ queue' = Append(queue, e)
    BY <1>7 DEF Enqueue
  <2>2. /\ Len(queue') = Len(queue) + 1
        /\ \A i \in 1..Len(queue) : queue'[i] = queue[i]
        /\ queue'[Len(queue) + 1] = e
    BY <1>1, <2>1
  <2>3. Len(queue) \in Nat
    BY <1>1
  <2>4. \A i \in 1..Len(queue') : i \in 1..Len(queue) \/ i = Len(queue) + 1
    BY <2>2, <2>3
  <2>5. \A i \in 1..Len(queue) : queue[i] # e
    BY <1>2, <2>1
  <2>6. QueueInv'
    <3>1. \A i \in 1..Len(queue') : place'[queue'[i]] = "queued"
      <4>1. \A i \in 1..Len(queue) : place'[queue[i]] = "queued"
        BY <1>1, <1>2, <2>1
      <4>2. place'[e] = "queued"
        BY <1>1, <2>1
      <4>. QED  BY <2>2, <2>4, <4>1, <4>2
    <3>2. \A i, j \in 1..Len(queue') : queue'[i] = queue'[j] => i = j
      BY <1>3, <2>2, <2>4, <2>5
    <3>. QED  BY <3>1, <3>2 DEF QueueInv
  <2>7. CurInv'
    <3>1. \A f \in Envelope : place'[f] = "taken" <=> place[f] = "taken"
      BY <1>1, <2>1
    <3>. QED  BY <1>4, <2>1, <3>1 DEF CurInv
  <2>. QED  BY <2>6, <2>7
<1>8. CASE Recv
  <2>1. /\ step = "idle" /\ step' = "received" /\ queue # <<>>
        /\ cur' = Head(queue) /\ queue' = Tail(queue)
        /\ place' = [place EXCEPT ![Head(queue)] = "taken"]
    BY <1>8 DEF Recv
  <2>2. /\ Len(queue) \in Nat /\ Len(queue) > 0 /\ Len(queue') = Len(queue) - 1
        /\ Head(queue) = queue[1]
        /\ \A i \in 1..Len(queue') : queue'[i] = queue[i + 1]
    BY <1>1, <2>1
  <2>3. /\ Head(queue) \in Envelope /\ 1 \in 1..Len(queue)
        /\ \A i \in 1..Len(queue') : i + 1 \in 1..Len(queue) /\ i + 1 # 1
    BY <1>2, <2>2
  <2>4. \A f \in Envelope : f # Head(queue) => place'[f] = place[f]
    BY <1>1, <2>1
  <2>5. QueueInv'
    <3>1. \A i \in 1..Len(queue') : queue'[i] \in Envelope /\ queue'[i] # Head(queue)
      BY <1>2, <1>3, <2>2, <2>3
    <3>2. \A i \in 1..Len(queue') : place'[queue'[i]] = "queued"
      BY <1>2, <2>2, <2>3, <2>4, <3>1
    <3>3. \A i, j \in 1..Len(queue') : queue'[i] = queue'[j] => i + 1 = j + 1
      BY <1>3, <2>2, <2>3
    <3>4. \A i, j \in 1..Len(queue') : i + 1 = j + 1 => i = j
      BY <2>2
    <3>. QED  BY <3>2, <3>3, <3>4 DEF QueueInv
  <2>6. CurInv'
    <3>1. place'[Head(queue)] = "taken"
      BY <1>1, <2>1, <2>3
    <3>2. \A f \in Envelope : place[f] # "taken"
      BY <1>1, <1>4, <2>1
    <3>. QED  BY <1>1, <2>1, <2>3, <2>4, <3>1, <3>2 DEF CurInv
  <2>. QED  BY <2>5, <2>6
<1>9. CASE Settle
  <2>1. /\ step # "idle" /\ place' = [place EXCEPT ![cur] = "settled"]
        /\ queue' = queue /\ cur' = NoEnvelope /\ step' = "idle"
    BY <1>9 DEF Settle
  <2>2. cur \in Envelope /\ place[cur] = "taken"
    BY <1>1, <1>4, <2>1
  <2>3. \A f \in Envelope : f # cur => place'[f] = place[f]
    BY <1>1, <2>1
  <2>4. \A i \in 1..Len(queue) : place'[queue[i]] = place[queue[i]]
    BY <1>2, <2>2, <2>3
  <2>5. CurInv'
    <3>1. \A f \in Envelope : place'[f] # "taken"
      BY <1>1, <1>4, <2>1, <2>2, <2>3
    <3>. QED  BY <1>1, <2>1, <3>1 DEF CurInv
  <2>. QED  BY <1>5, <2>1, <2>4, <2>5
<1>10. CASE Crash
  <2>1. /\ queue' = <<>> /\ cur' = NoEnvelope /\ step' = "idle"
        /\ \A f \in Envelope : place'[f] # "taken"
    BY <1>1, <1>10 DEF Crash, InMemory
  <2>. QED  BY <1>1, <2>1 DEF QueueInv, CurInv
<1>11. ASSUME Loop, ~Recv, ~Settle PROVE QueueInv' /\ CurInv'
  <2>1. /\ place' = place /\ queue' = queue /\ cur' = cur /\ step # "idle"
    BY <1>11 DEF Loop, RecordReceived, Classify, RecordClassified, RecordRunning, Query,
       Command, CheckEngagement, Approve, AcquireSlot, PreparePayload, Scan, RunPayload,
       Decide, channel
  <2>2. step' # "idle"
    <3>1. step = "running" => intent[cur] # "idle"
      BY <1>1, <1>4 DEF LoopInv, WorkInv
    <3>. QED
      BY <1>11, <3>1 DEF Loop, RecordReceived, Classify, RecordClassified, RecordRunning,
         Query, Command, CheckEngagement, Approve, AcquireSlot, PreparePayload, Scan,
         RunPayload, Decide
  <2>. QED  BY <1>4, <1>5, <2>1, <2>2 DEF CurInv
<1>12. CASE UNCHANGED vars
  BY <1>4, <1>5, <1>12 DEF vars, channel, CurInv
<1>. QED
  BY <1>6, <1>7, <1>8, <1>9, <1>10, <1>11, <1>12 DEF Next

-----------------------------------------------------------------------------
(* What a record does to the evidence. *)

LEMMA RecordGrows ==
    ASSUME TypeOK, cur \in Envelope, NEW s \in JobState, Record(s)
    PROVE  /\ \A e \in Envelope : e # cur => trail'[e] = trail[e]
           /\ \A e \in Envelope : e # cur => (e \in unrecorded' <=> e \in unrecorded)
           /\ unrecorded \subseteq unrecorded'
           /\ \A i \in 1..Len(trail[cur]) :
                 i \in 1..Len(trail'[cur]) /\ trail'[cur][i] = trail[cur][i]
           /\ \A i \in 1..Len(trail'[cur]) :
                 \/ i \in 1..Len(trail[cur])
                 \/ i = Len(trail[cur]) + 1 /\ trail'[cur][i] = s
           /\ cur \notin unrecorded' =>
                 \E i \in 1..Len(trail'[cur]) : trail'[cur][i] = s
<1>1. trail[cur] \in Seq(JobState)
  BY DEF TypeOK
<1>2. CASE trail' = [trail EXCEPT ![cur] = Append(@, s)] /\ unrecorded' = unrecorded
  <2>. DEFINE t == trail[cur]
              u == Append(t, s)
  <2>1. /\ Len(t) \in Nat /\ Len(u) = Len(t) + 1 /\ u[Len(t) + 1] = s
        /\ \A i \in 1..Len(t) : u[i] = t[i]
    BY <1>1
  <2>2. trail'[cur] = u /\ \A e \in Envelope : e # cur => trail'[e] = trail[e]
    BY <1>2 DEF TypeOK
  <2>. QED  BY <1>2, <2>1, <2>2
<1>3. CASE unrecorded' = unrecorded \cup {cur} /\ trail' = trail
  BY <1>1, <1>3
<1>. QED  BY <1>2, <1>3 DEF Record

LEMMA RecordRank ==
    ASSUME TypeOK, cur \in Envelope, NEW s \in JobState, Record(s),
           \A i \in 1..Len(trail[cur]) : Rank(trail[cur][i]) < Rank(s)
    PROVE  \A i \in 1..Len(trail'[cur]) : Rank(trail'[cur][i]) < Rank(s) + 1
<1>1. \A x : Rank(x) \in Nat
  BY DEF Rank
<1>. SUFFICES ASSUME NEW i \in 1..Len(trail'[cur])
              PROVE  Rank(trail'[cur][i]) < Rank(s) + 1
  OBVIOUS
<1>2. CASE i \in 1..Len(trail[cur])
  <2>1. trail'[cur][i] = trail[cur][i]
    BY <1>2, RecordGrows
  <2>2. Rank(trail[cur][i]) < Rank(s)
    BY <1>2
  <2>. QED  BY <1>1, <2>1, <2>2
<1>3. CASE trail'[cur][i] = s
  BY <1>1, <1>3
<1>. QED  BY <1>2, <1>3, RecordGrows

LEMMA TrailDomain == TypeOK => \A e \in Envelope : DOMAIN trail[e] = 1..Len(trail[e])
BY DEF TypeOK

-----------------------------------------------------------------------------
(* Steps preserve what is known of the envelopes that are not yet taken    *)
(* and of the one the loop works on.                                       *)

LEMMA FreshStep ==
    ASSUME LoopInv, [Next]_vars
    PROVE  FreshInv'
<1>. USE NullAssumption
     DEF LoopInv, TypeOK, FreshInv, CurInv, config, channel, effects, journal, Decide
<1>1. ASSUME NEW e \in Envelope, Send(e) \/ Enqueue(e) \/ Abandon(e) PROVE FreshInv'
  BY <1>1 DEF Send, Enqueue, Abandon
<1>2. CASE Recv
  BY <1>2 DEF Recv
<1>3. CASE Crash
  BY <1>3 DEF Crash, InMemory
<1>4. ASSUME Loop, ~Recv PROVE FreshInv'
  <2>1. cur \in Envelope /\ place[cur] = "taken"
    BY <1>4 DEF Loop, RecordReceived, Classify, RecordClassified, RecordRunning, Query,
       Command, CheckEngagement, Approve, AcquireSlot, PreparePayload, Scan, RunPayload, Settle
  <2>2. \A e \in Envelope : e # cur => place'[e] = place[e]
    BY <1>4, <2>1 DEF Loop, RecordReceived, Classify, RecordClassified, RecordRunning, Query,
       Command, CheckEngagement, Approve, AcquireSlot, PreparePayload, Scan, RunPayload, Settle
  <2>3. place'[cur] \in {"taken", "settled"}
    BY <1>4, <2>1 DEF Loop, RecordReceived, Classify, RecordClassified, RecordRunning, Query,
       Command, CheckEngagement, Approve, AcquireSlot, PreparePayload, Scan, RunPayload, Settle
  <2>4. \A e \in Envelope : e # cur =>
           /\ intent'[e] = intent[e] /\ gates'[e] = gates[e] /\ outcome'[e] = outcome[e]
           /\ dispatched'[e] = dispatched[e] /\ ran'[e] = ran[e]
    BY <1>4, <2>1 DEF Loop, RecordReceived, Classify, RecordClassified, RecordRunning, Query,
       Command, CheckEngagement, Approve, AcquireSlot, PreparePayload, Scan, RunPayload, Settle
  <2>5. \A e \in Envelope : e # cur => trail'[e] = trail[e]
    BY <1>4, <2>1 DEF Loop, RecordReceived, Classify, RecordClassified, RecordRunning, Query,
       Command, CheckEngagement, Approve, AcquireSlot, PreparePayload, Scan, RunPayload, Settle,
       Record
  <2>. QED  BY <2>1, <2>2, <2>3, <2>4, <2>5
<1>5. CASE UNCHANGED vars
  BY <1>5 DEF vars
<1>. QED  BY <1>1, <1>2, <1>3, <1>4, <1>5 DEF Next

LEMMA WorkStep ==
    ASSUME LoopInv, [Next]_vars
    PROVE  WorkInv'
<1>. USE NullAssumption
     DEF LoopInv, TypeOK, WorkInv, CurInv, config, channel, effects, journal, Decide,
         PayloadSteps, Pipelines, Recorded
<1>0. step # "idle" => cur \in Envelope
  OBVIOUS
<1>1. ASSUME NEW e \in Envelope, Send(e) \/ Enqueue(e) \/ Abandon(e) PROVE WorkInv'
  <2>1. UNCHANGED <<content, engaged, cur, step, intent, gates, dispatched, ran, outcome,
                    trail, unrecorded>>
    BY <1>1 DEF Send, Enqueue, Abandon
  <2>2. WorkInv
    OBVIOUS
  <2>. HIDE DEF LoopInv, TypeOK, CurInv
  <2>. QED  BY <2>1, <2>2
<1>2. CASE Recv
  <2>1. Head(queue) \in Envelope /\ place[Head(queue)] = "queued"
    <3>1. 1 \in 1..Len(queue) /\ Head(queue) = queue[1] /\ queue[1] \in Envelope
      BY <1>2 DEF Recv
    <3>. QED  BY <3>1 DEF QueueInv
  <2>2. trail'[cur'] = <<>> /\ outcome'[cur'] = "none" /\ dispatched'[cur'] = 0 /\ ran'[cur'] = 0
    BY <1>2, <2>1 DEF Recv, FreshInv
  <2>. QED  BY <1>2, <2>2 DEF Recv
<1>3. CASE RecordReceived
  BY <1>0, <1>3, RecordGrows DEF RecordReceived, JobState, Rank
<1>4. CASE Classify
  BY <1>0, <1>4 DEF Classify, Intents, LocalIntents, Intent
<1>5. CASE RecordClassified
  <2>1. /\ cur' = cur /\ cur \in Envelope /\ step = "classified" /\ Record("classified")
        /\ UNCHANGED <<content, engaged, intent, gates, dispatched, ran>>
        /\ \/ step' = "settle" /\ outcome'[cur] \in Outcome
           \/ step' = "running" /\ intent[cur] # "unknown" /\ outcome' = outcome
    BY <1>0, <1>5 DEF RecordClassified, Outcome
  <2>2. intent[cur] \in Intent
    BY <2>1
  <2>3. \A i \in 1..Len(trail'[cur]) : Rank(trail'[cur][i]) < 3
    <3>1. Rank("classified") = 2 /\ "classified" \in JobState
      BY DEF Rank, JobState
    <3>2. \A i \in 1..Len(trail[cur]) : Rank(trail[cur][i]) < Rank("classified")
      BY <2>1, <3>1
    <3>3. \A i \in 1..Len(trail'[cur]) : Rank(trail'[cur][i]) < Rank("classified") + 1
      BY <2>1, <3>1, <3>2, RecordRank
    <3>. QED  BY <3>1, <3>3
  <2>4. WorkInv' \/ step' = "settle"
    BY <2>1, <2>2, <2>3 DEF Intent
  <2>5. WorkInv' \/ step' = "running"
    <3>1. \A i \in 1..Len(trail'[cur]) : Rank(trail'[cur][i]) < 4
      BY <2>3 DEF Rank
    <3>. QED  BY <2>1, <3>1
  <2>. QED  BY <2>4, <2>5
<1>6. CASE RecordRunning
  <2>1. /\ cur' = cur /\ cur \in Envelope /\ step = "running" /\ Record("running")
        /\ UNCHANGED <<content, engaged, intent, gates, dispatched, ran, outcome>>
        /\ step' = intent[cur]
    BY <1>0, <1>6 DEF RecordRunning
  <2>2. \A i \in 1..Len(trail'[cur]) : Rank(trail'[cur][i]) < 4
    <3>1. Rank("running") = 3 /\ "running" \in JobState
      BY DEF Rank, JobState
    <3>2. \A i \in 1..Len(trail[cur]) : Rank(trail[cur][i]) < Rank("running")
      BY <2>1, <3>1
    <3>3. \A i \in 1..Len(trail'[cur]) : Rank(trail'[cur][i]) < Rank("running") + 1
      BY <2>1, <3>1, <3>2, RecordRank
    <3>. QED  BY <3>1, <3>3
  <2>3. cur \notin unrecorded' => \E i \in 1..Len(trail'[cur]) : trail'[cur][i] = "running"
    BY <2>1, RecordGrows DEF JobState
  <2>. QED  BY <2>1, <2>2, <2>3
<1>7. CASE Query
  BY <1>0, <1>7 DEF Query, Outcome
<1>8. CASE Command
  BY <1>0, <1>8 DEF Command, CommandOutcomes, Outcome
<1>9. CASE CheckEngagement
  BY <1>0, <1>9 DEF CheckEngagement, Outcome
<1>10. CASE Approve
  BY <1>0, <1>10 DEF Approve, Outcome
<1>11. CASE AcquireSlot
  BY <1>0, <1>11 DEF AcquireSlot
<1>12. CASE PreparePayload
  BY <1>0, <1>12 DEF PreparePayload, Outcome
<1>13. CASE Scan
  BY <1>0, <1>13 DEF Scan, ScanAnswers, Outcome
<1>14. CASE RunPayload
  BY <1>0, <1>14 DEF RunPayload, SandboxAnswers, Outcome
<1>15. CASE Settle \/ Crash
  BY <1>15 DEF Settle, Crash
<1>16. CASE UNCHANGED vars
  BY <1>16 DEF vars
<1>. QED
  BY <1>1, <1>2, <1>3, <1>4, <1>5, <1>6, <1>7, <1>8, <1>9, <1>10, <1>11, <1>12, <1>13, <1>14,
     <1>15, <1>16 DEF Next, Loop

-----------------------------------------------------------------------------
(* Steps preserve the properties of the evidence and of the effects. *)

LEMMA RecordInOrder ==
    ASSUME TypeOK, TypeOK', TrailInOrder, cur \in Envelope, NEW s \in JobState, Record(s),
           \A i \in 1..Len(trail[cur]) : Rank(trail[cur][i]) < Rank(s)
    PROVE  TrailInOrder'
<1>. SUFFICES ASSUME NEW e \in Envelope,
                     NEW i \in 1..Len(trail'[e]), NEW j \in 1..Len(trail'[e]), i < j
              PROVE  Rank(trail'[e][i]) < Rank(trail'[e][j])
  <2>1. \A e \in Envelope : DOMAIN trail'[e] = 1..Len(trail'[e])
    BY DEF TypeOK
  <2>. QED  BY <2>1 DEF TrailInOrder
<1>1. CASE e # cur
  BY <1>1, RecordGrows, TrailDomain DEF TrailInOrder
<1>2. CASE e = cur /\ j \in 1..Len(trail[cur])
  <2>1. i \in 1..Len(trail[cur])
    BY <1>2 DEF TypeOK
  <2>2. trail'[e][i] = trail[e][i] /\ trail'[e][j] = trail[e][j]
    BY <1>2, <2>1, RecordGrows
  <2>. QED  BY <1>2, <2>1, <2>2, TrailDomain DEF TrailInOrder
<1>3. CASE e = cur /\ j \notin 1..Len(trail[cur])
  <2>1. j = Len(trail[cur]) + 1 /\ trail'[e][j] = s
    BY <1>3, RecordGrows
  <2>2. i \in 1..Len(trail[cur])
    BY <1>3, <2>1 DEF TypeOK
  <2>3. trail'[e][i] = trail[e][i]
    BY <1>3, <2>2, RecordGrows
  <2>. QED  BY <1>3, <2>1, <2>2, <2>3
<1>. QED  BY <1>1, <1>2, <1>3

LEMMA TrailStep ==
    ASSUME LoopInv, [Next]_vars
    PROVE  TrailInOrder'
<1>1. CASE trail' = trail
  BY <1>1 DEF LoopInv, TrailInOrder
<1>2. ASSUME NEW s \in JobState, Record(s), step # "idle", Recorded = Rank(s) PROVE TrailInOrder'
  <2>1. cur \in Envelope
    BY <1>2 DEF LoopInv, CurInv, TypeOK
  <2>2. \A i \in 1..Len(trail[cur]) : Rank(trail[cur][i]) < Rank(s)
    BY <1>2, <2>1, NullAssumption DEF LoopInv, WorkInv
  <2>. QED  BY <1>2, <2>1, <2>2, TypeStep, RecordInOrder DEF LoopInv
<1>3. CASE RecordReceived
  BY <1>2, <1>3 DEF RecordReceived, JobState, Rank, Recorded
<1>4. CASE RecordClassified
  BY <1>2, <1>4 DEF RecordClassified, JobState, Rank, Recorded
<1>5. CASE RecordRunning
  BY <1>2, <1>5 DEF RecordRunning, JobState, Rank, Recorded
<1>6. CASE Settle
  <2>1. outcome[cur] \in Outcome /\ step = "settle" /\ Record(outcome[cur])
    BY <1>6, NullAssumption DEF Settle, LoopInv, WorkInv, CurInv, TypeOK
  <2>2. Rank(outcome[cur]) = 4 /\ Recorded = 4 /\ outcome[cur] \in JobState
    BY <2>1 DEF Rank, Recorded, Outcome, JobState
  <2>. QED  BY <1>2, <2>1, <2>2
<1>7. CASE ~RecordReceived /\ ~RecordClassified /\ ~RecordRunning /\ ~Settle
  <2>1. trail' = trail
    BY <1>7 DEF Next, Loop, vars, journal, Send, Enqueue, Abandon, Recv, Classify, Query, Command,
       CheckEngagement, Approve, AcquireSlot, PreparePayload, Scan, RunPayload, Crash
  <2>. QED  BY <1>1, <2>1
<1>. QED  BY <1>3, <1>4, <1>5, <1>6, <1>7

LEMMA EffectStep ==
    ASSUME LoopInv, [Next]_vars
    PROVE  ExecutionIsGated' /\ AtMostOnce'
<1>. USE NullAssumption
     DEF LoopInv, TypeOK, WorkInv, CurInv, ExecutionIsGated, AtMostOnce,
         config, channel, effects, journal, Decide, PayloadSteps
<1>0. step # "idle" => cur \in Envelope
  OBVIOUS
<1>1. CASE Command
  BY <1>0, <1>1 DEF Command
<1>2. CASE RunPayload
  <2>0. step = "execute"
    BY <1>2 DEF RunPayload
  <2>1. gates[cur] = Gate
    BY <1>0, <2>0 DEF Gate
  <2>2. /\ cur \in Envelope /\ engaged /\ content[cur] = "payload"
        /\ ran[cur] = 0 /\ dispatched[cur] = 0
        /\ UNCHANGED <<engaged, content, gates, dispatched>>
    BY <1>0, <1>2, <2>0 DEF RunPayload
  <2>3. ran \in [Envelope -> Nat] /\ dispatched \in [Envelope -> Nat] /\ ExecutionIsGated /\ AtMostOnce
    OBVIOUS
  <2>4. /\ ran'[cur] \in {0, 1} /\ dispatched'[cur] = 0
        /\ \A e \in Envelope \ {cur} : ran'[e] = ran[e] /\ dispatched'[e] = dispatched[e]
    <3>1. PICK a \in SandboxAnswers :
            ran' = [ran EXCEPT ![cur] = IF a = "refused" THEN @ ELSE @ + 1]
      BY <1>2 DEF RunPayload
    <3>. QED  BY <2>2, <2>3, <3>1
  <2>5. ExecutionIsGated'
    <3>. SUFFICES ASSUME NEW e \in Envelope, ran'[e] > 0
                  PROVE  engaged' /\ content'[e] = "payload" /\ gates'[e] = Gate
      BY DEF ExecutionIsGated
    <3>1. CASE e = cur
      BY <3>1, <2>1, <2>2
    <3>2. CASE e # cur
      <4>1. ran[e] > 0
        BY <3>2, <2>4
      <4>. QED  BY <4>1, <2>2, <2>3 DEF ExecutionIsGated
    <3>. QED  BY <3>1, <3>2
  <2>6. AtMostOnce'
    <3>. SUFFICES ASSUME NEW e \in Envelope PROVE ran'[e] + dispatched'[e] <= 1
      BY DEF AtMostOnce
    <3>1. CASE e = cur
      BY <3>1, <2>4
    <3>2. CASE e # cur
      <4>1. ran'[e] = ran[e] /\ dispatched'[e] = dispatched[e] /\ ran[e] + dispatched[e] <= 1
        BY <3>2, <2>3, <2>4 DEF AtMostOnce
      <4>. QED  BY <4>1
    <3>. QED  BY <3>1, <3>2
  <2>. QED  BY <2>5, <2>6
<1>3. CASE CheckEngagement \/ Approve \/ Scan
  <2>1. /\ cur \in Envelope
        /\ \A e \in Envelope \ {cur} : gates'[e] = gates[e]
        /\ UNCHANGED <<engaged, content, ran, dispatched>>
    <3>1. CASE CheckEngagement
      BY <1>0, <3>1 DEF CheckEngagement
    <3>2. CASE Approve
      BY <1>0, <3>2 DEF Approve
    <3>3. CASE Scan
      BY <1>0, <3>3 DEF Scan
    <3>. QED  BY <1>3, <3>1, <3>2, <3>3
  <2>2. step \in {"payload", "approval", "scan"}
    BY <1>3 DEF CheckEngagement, Approve, Scan
  <2>3. ran[cur] = 0
    BY <1>0, <2>2
  <2>4. \A e \in Envelope : ran[e] > 0 => gates'[e] = gates[e]
    BY <2>1, <2>3
  <2>5. ExecutionIsGated'
    BY <2>1, <2>4 DEF ExecutionIsGated
  <2>6. AtMostOnce'
    BY <2>1 DEF AtMostOnce
  <2>. QED  BY <2>5, <2>6
<1>6. CASE ~Command /\ ~RunPayload /\ ~CheckEngagement /\ ~Approve /\ ~Scan
  <2>1. UNCHANGED <<ran, dispatched, gates, engaged, content>>
    BY <1>6 DEF Next, Loop, vars, Send, Enqueue, Abandon, Recv, RecordReceived, Classify,
       RecordClassified, RecordRunning, Query, AcquireSlot, PreparePayload, Settle, Crash
  <2>. QED  BY <2>1
<1>. QED  BY <1>1, <1>2, <1>3, <1>6

LEMMA AnnounceStep ==
    ASSUME LoopInv, [Next]_vars
    PROVE  EffectsAreAnnounced'
<1>. DEFINE announced(e) == \E i \in 1..Len(trail[e]) : trail[e][i] = "running"
<1>1. \A e \in Envelope : announced(e) => announced(e)'
  <2>1. CASE trail' = trail
    BY <2>1
  <2>2. ASSUME NEW s \in JobState, Record(s), step # "idle" PROVE \A e \in Envelope : announced(e) => announced(e)'
    <3>1. cur \in Envelope
      BY <2>2 DEF LoopInv, CurInv, TypeOK
    <3>. QED  BY <2>2, <3>1, RecordGrows DEF LoopInv
  <2>3. CASE RecordReceived
    BY <2>2, <2>3 DEF RecordReceived, JobState
  <2>4. CASE RecordClassified
    BY <2>2, <2>4 DEF RecordClassified, JobState
  <2>5. CASE RecordRunning
    BY <2>2, <2>5 DEF RecordRunning, JobState
  <2>6. CASE Settle
    <3>1. outcome[cur] \in JobState /\ step # "idle" /\ Record(outcome[cur])
      BY <2>6, NullAssumption DEF Settle, LoopInv, WorkInv, CurInv, TypeOK, JobState
    <3>. QED  BY <2>2, <3>1
  <2>7. CASE ~RecordReceived /\ ~RecordClassified /\ ~RecordRunning /\ ~Settle
    <3>1. trail' = trail
      BY <2>7 DEF Next, Loop, vars, journal, Send, Enqueue, Abandon, Recv, Classify, Query,
         Command, CheckEngagement, Approve, AcquireSlot, PreparePayload, Scan, RunPayload, Crash
    <3>. QED  BY <2>1, <3>1
  <2>. QED  BY <2>3, <2>4, <2>5, <2>6, <2>7
<1>2. unrecorded \subseteq unrecorded'
  BY DEF Next, Loop, vars, journal, Send, Enqueue, Abandon, Recv, RecordReceived, Classify,
     RecordClassified, RecordRunning, Query, Command, CheckEngagement, Approve, AcquireSlot,
     PreparePayload, Scan, RunPayload, Settle, Crash, Record
<1>3. ASSUME NEW e \in Envelope, e \notin unrecorded, (ran[e] + dispatched[e] > 0)'
      PROVE  announced(e)
  <2>. USE DEF LoopInv, TypeOK
  <2>1. CASE ran[e] + dispatched[e] > 0
    BY <1>3, <2>1, TrailDomain DEF EffectsAreAnnounced
  <2>2. CASE ~(ran[e] + dispatched[e] > 0)
    <3>1. Command \/ RunPayload
      <4>1. UNCHANGED <<ran, dispatched>> \/ Command \/ RunPayload
        BY DEF Next, Loop, vars, effects, Send, Enqueue, Abandon, Recv, RecordReceived, Classify,
           RecordClassified, RecordRunning, Query, CheckEngagement, Approve, AcquireSlot,
           PreparePayload, Scan, Settle, Crash
      <4>. QED  BY <1>3, <2>2, <4>1
    <3>2. e = cur /\ step \in Pipelines
      BY <1>3, <2>2, <3>1 DEF Command, RunPayload, Pipelines, PayloadSteps
    <3>. QED  BY <1>3, <3>2, NullAssumption DEF WorkInv
  <2>. QED  BY <2>1, <2>2
<1>4. ASSUME NEW e \in Envelope PROVE DOMAIN trail'[e] = 1..Len(trail'[e])
  BY <1>4, TypeStep DEF TypeOK
<1>. QED  BY <1>1, <1>2, <1>3, <1>4 DEF EffectsAreAnnounced

LEMMA LoopInvariant == Spec => []LoopInv
<1>1. LoopInv /\ [Next]_vars => LoopInv'
  BY TypeStep, PlaceStep, FreshStep, WorkStep, TrailStep, EffectStep, AnnounceStep DEF LoopInv
<1>. QED  BY <1>1, LoopInit, PTL DEF Spec

-----------------------------------------------------------------------------
(* The theorems. *)

(***************************************************************************)
(* The loop's variables keep their types; in particular the channel never  *)
(* holds more envelopes than its capacity.                                 *)
(***************************************************************************)
THEOREM TypeCorrect == Spec => []TypeOK
<1>1. LoopInv => TypeOK
  BY DEF LoopInv
<1>. QED  BY <1>1, LoopInvariant, PTL

(***************************************************************************)
(* The evidence of an envelope is always in lifecycle order, with one      *)
(* outcome at most, at its end.                                            *)
(***************************************************************************)
THEOREM LifecycleOrder == Spec => []TrailInOrder
<1>1. LoopInv => TrailInOrder
  BY DEF LoopInv
<1>. QED  BY <1>1, LoopInvariant, PTL

(***************************************************************************)
(* No payload is executed before its engagement check, its approval and    *)
(* its scan.                                                               *)
(***************************************************************************)
THEOREM GatedExecution == Spec => []ExecutionIsGated
<1>1. LoopInv => ExecutionIsGated
  BY DEF LoopInv
<1>. QED  BY <1>1, LoopInvariant, PTL

(***************************************************************************)
(* No envelope has its payload executed or its command dispatched twice.   *)
(***************************************************************************)
THEOREM NoDoubleWork == Spec => []AtMostOnce
<1>1. LoopInv => AtMostOnce
  BY DEF LoopInv
<1>. QED  BY <1>1, LoopInvariant, PTL

(***************************************************************************)
(* Every effect is announced by a Running record, unless a record of that  *)
(* envelope failed.                                                        *)
(***************************************************************************)
THEOREM EffectsHaveEvidence == Spec => []EffectsAreAnnounced
<1>1. LoopInv => EffectsAreAnnounced
  BY DEF LoopInv
<1>. QED  BY <1>1, LoopInvariant, PTL

-----------------------------------------------------------------------------
(* What an outcome says, and that the evidence agrees with it. *)

\* A settled envelope has its outcome; a completed payload was executed, a
\* denied one was not; an outcome in the evidence is the envelope's own.
EndInv ==
    /\ \A e \in Envelope : place[e] = "settled" => outcome[e] \in Outcome
    /\ \A e \in Envelope : outcome[e] = "completed" /\ intent[e] = "payload" => ran[e] = 1
    /\ \A e \in Envelope : outcome[e] = "denied" => ran[e] = 0
    /\ \A e \in Envelope : \A i \in 1..Len(trail[e]) :
          trail[e][i] \in Outcome => trail[e][i] = outcome[e]

\* At the start nothing has ended.
LEMMA EndInit == Init => EndInv
BY DEF Init, EndInv

\* Only the loop's own work changes what is known of an envelope's end, and
\* only for the envelope it works on.
LEMMA OnlyCur ==
    ASSUME LoopInv, Loop, ~Recv
    PROVE  /\ cur \in Envelope /\ place[cur] = "taken" /\ step # "idle"
           /\ \A e \in Envelope : e # cur =>
                 /\ place'[e] = place[e] /\ outcome'[e] = outcome[e]
                 /\ intent'[e] = intent[e] /\ ran'[e] = ran[e] /\ trail'[e] = trail[e]
<1>. USE DEF LoopInv, TypeOK, CurInv, config, channel, effects, journal, Decide
<1>1. step # "idle" /\ cur \in Envelope /\ place[cur] = "taken"
  BY DEF Loop, RecordReceived, Classify, RecordClassified, RecordRunning, Query,
     Command, CheckEngagement, Approve, AcquireSlot, PreparePayload, Scan, RunPayload, Settle
<1>2. \A e \in Envelope : e # cur => place'[e] = place[e]
  BY <1>1 DEF Loop, RecordReceived, Classify, RecordClassified, RecordRunning, Query,
     Command, CheckEngagement, Approve, AcquireSlot, PreparePayload, Scan, RunPayload, Settle
<1>3. \A e \in Envelope : e # cur =>
         outcome'[e] = outcome[e] /\ intent'[e] = intent[e] /\ ran'[e] = ran[e]
  BY <1>1 DEF Loop, RecordReceived, Classify, RecordClassified, RecordRunning, Query,
     Command, CheckEngagement, Approve, AcquireSlot, PreparePayload, Scan, RunPayload, Settle
<1>4. \A e \in Envelope : e # cur => trail'[e] = trail[e]
  BY <1>1 DEF Loop, RecordReceived, Classify, RecordClassified, RecordRunning, Query,
     Command, CheckEngagement, Approve, AcquireSlot, PreparePayload, Scan, RunPayload, Settle,
     Record
<1>. QED  BY <1>1, <1>2, <1>3, <1>4

\* A record that is no outcome leaves the envelope's outcomes as they were.
LEMMA RecordKeepsOutcomes ==
    ASSUME TypeOK, cur \in Envelope, NEW s \in JobState, Record(s), s \in Outcome => s = outcome[cur],
           \A i \in 1..Len(trail[cur]) : trail[cur][i] \in Outcome => trail[cur][i] = outcome[cur]
    PROVE  \A i \in 1..Len(trail'[cur]) : trail'[cur][i] \in Outcome => trail'[cur][i] = outcome[cur]
<1>. SUFFICES ASSUME NEW i \in 1..Len(trail'[cur]), trail'[cur][i] \in Outcome
              PROVE  trail'[cur][i] = outcome[cur]
  OBVIOUS
<1>1. CASE i \in 1..Len(trail[cur])
  <2>1. trail'[cur][i] = trail[cur][i]
    BY <1>1, RecordGrows
  <2>. QED  BY <1>1, <2>1
<1>2. CASE trail'[cur][i] = s
  BY <1>2
<1>. QED  BY <1>1, <1>2, RecordGrows

\* An envelope whose work is not finished has no outcome in the evidence.
LEMMA NoOutcomeYet ==
    ASSUME LoopInv, cur \in Envelope
    PROVE  \A i \in 1..Len(trail[cur]) : trail[cur][i] \notin Outcome
<1>1. \A x \in Outcome : Rank(x) = 4
  BY DEF Outcome, Rank
<1>2. Recorded \in 1..4
  BY DEF Recorded
<1>3. \A i \in 1..Len(trail[cur]) : Rank(trail[cur][i]) < Recorded
  BY NullAssumption DEF LoopInv, WorkInv
<1>. QED  BY <1>1, <1>2, <1>3

\* Every step keeps what the trail says of an end.
LEMMA EndStep ==
    ASSUME LoopInv, EndInv, [Next]_vars
    PROVE  EndInv'
<1>1. /\ NoEnvelope \notin Envelope /\ cur \in Envelope \cup {NoEnvelope}
      /\ place \in [Envelope -> Place] /\ intent \in [Envelope -> Intent \cup {NoIntent}]
      /\ outcome \in [Envelope -> Outcome \cup {"none"}] /\ ran \in [Envelope -> Nat]
  BY NullAssumption DEF LoopInv, TypeOK
<1>2. ASSUME NEW e \in Envelope, Send(e) \/ Enqueue(e) \/ Abandon(e) PROVE EndInv'
  BY <1>1, <1>2 DEF Send, Enqueue, Abandon, effects, journal, EndInv
<1>3. CASE Recv
  <2>1. \A e \in Envelope : place'[e] = "settled" => place[e] = "settled"
    BY <1>1, <1>3 DEF Recv
  <2>. QED  BY <1>3, <2>1 DEF Recv, effects, journal, EndInv
<1>4. CASE Crash
  <2>1. \A e \in Envelope : place'[e] = "settled" => place[e] = "settled"
    BY <1>4 DEF Crash
  <2>. QED  BY <1>4, <2>1 DEF Crash, journal, EndInv
<1>5. CASE UNCHANGED vars
  BY <1>5 DEF vars, channel, effects, journal, EndInv
<1>6. ASSUME Loop, ~Recv PROVE EndInv'
  <2>1. /\ cur \in Envelope /\ place[cur] = "taken" /\ step # "idle"
        /\ \A e \in Envelope : e # cur =>
              /\ place'[e] = place[e] /\ outcome'[e] = outcome[e]
              /\ intent'[e] = intent[e] /\ ran'[e] = ran[e] /\ trail'[e] = trail[e]
    BY <1>6, OnlyCur
  <2>2. step # "settle" => outcome[cur] = "none" /\ ran[cur] = 0
    BY <1>1, <2>1 DEF LoopInv, WorkInv
  <2>3. step = "settle" => outcome[cur] \in Outcome
    BY <1>1, <2>1 DEF LoopInv, WorkInv
  <2>4. \A i \in 1..Len(trail[cur]) : trail[cur][i] \notin Outcome
    BY <2>1, NoOutcomeYet
  \* It is enough to look at the envelope the loop works on.
  <2>5. ASSUME place'[cur] = "settled" => outcome'[cur] \in Outcome,
               outcome'[cur] = "completed" /\ intent'[cur] = "payload" => ran'[cur] = 1,
               outcome'[cur] = "denied" => ran'[cur] = 0,
               \A i \in 1..Len(trail'[cur]) :
                  trail'[cur][i] \in Outcome => trail'[cur][i] = outcome'[cur]
        PROVE  EndInv'
    BY <2>1, <2>5 DEF EndInv
  <2>6. ASSUME NEW s \in JobState, Record(s), s \in Outcome => s = outcome[cur]
        PROVE  \A i \in 1..Len(trail'[cur]) :
                  trail'[cur][i] \in Outcome => trail'[cur][i] = outcome[cur]
    BY <2>1, <2>4, <2>6, RecordKeepsOutcomes DEF LoopInv
  <2>7. CASE RecordReceived
    BY <1>1, <2>1, <2>2, <2>5, <2>6, <2>7
       DEF RecordReceived, channel, effects, JobState, Outcome
  <2>8. CASE Classify
    BY <1>1, <2>1, <2>2, <2>4, <2>5, <2>8 DEF Classify, channel, effects, journal
  <2>9. CASE RecordClassified
    <3>1. /\ place'[cur] = "taken" /\ ran'[cur] = 0 /\ outcome'[cur] \in {"none", "ignored"}
          /\ Record("classified")
      BY <1>1, <2>1, <2>2, <2>9 DEF RecordClassified, channel, effects
    <3>2. \A i \in 1..Len(trail'[cur]) : trail'[cur][i] \notin Outcome
      <4>1. "classified" \in JobState /\ "classified" \notin Outcome /\ TypeOK
        BY DEF JobState, Outcome, LoopInv
      <4>. QED  BY <2>1, <2>4, <3>1, <4>1, RecordGrows
    <3>. QED  BY <2>5, <3>1, <3>2
  <2>10. CASE RecordRunning
    BY <1>1, <2>1, <2>2, <2>5, <2>6, <2>10
       DEF RecordRunning, channel, effects, JobState, Outcome
  <2>11. CASE Query
    <3>1. intent[cur] = "query"
      BY <1>1, <2>1, <2>11 DEF Query, LoopInv, WorkInv
    <3>. QED
      BY <1>1, <2>1, <2>2, <2>4, <2>5, <2>11, <3>1 DEF Query, Decide, channel, effects, journal
  <2>12. CASE Command
    <3>1. intent[cur] = "command"
      BY <1>1, <2>1, <2>12 DEF Command, LoopInv, WorkInv
    <3>. QED
      BY <1>1, <2>1, <2>2, <2>4, <2>5, <2>12, <3>1
         DEF Command, CommandOutcomes, Decide, channel, journal
  <2>13. CASE CheckEngagement
    BY <1>1, <2>1, <2>2, <2>4, <2>5, <2>13 DEF CheckEngagement, Decide, channel, journal
  <2>14. CASE Approve
    BY <1>1, <2>1, <2>2, <2>4, <2>5, <2>14 DEF Approve, Decide, channel, journal
  <2>15. CASE AcquireSlot
    BY <1>1, <2>1, <2>2, <2>4, <2>5, <2>15 DEF AcquireSlot, channel, journal
  <2>16. CASE PreparePayload
    BY <1>1, <2>1, <2>2, <2>4, <2>5, <2>16 DEF PreparePayload, Decide, channel, effects, journal
  <2>17. CASE Scan
    BY <1>1, <2>1, <2>2, <2>4, <2>5, <2>17 DEF Scan, ScanAnswers, Decide, channel, journal
  <2>18. CASE RunPayload
    <3>1. PICK a \in SandboxAnswers :
             /\ ran' = [ran EXCEPT ![cur] = IF a = "refused" THEN @ ELSE @ + 1]
             /\ outcome' = [outcome EXCEPT ![cur] =
                               IF a = "returned" THEN "completed" ELSE "failed"]
      BY <2>18 DEF RunPayload, Decide
    <3>2. /\ place' = place /\ trail' = trail /\ ran[cur] = 0
      BY <2>2, <2>18 DEF RunPayload, channel, journal
    <3>3. outcome'[cur] = "completed" => ran'[cur] = 1
      BY <1>1, <2>1, <3>1, <3>2
    <3>4. outcome'[cur] \in {"completed", "failed"}
      BY <1>1, <2>1, <3>1
    <3>. QED  BY <2>1, <2>4, <2>5, <3>2, <3>3, <3>4
  <2>19. CASE Settle
    <3>1. /\ step = "settle" /\ outcome[cur] \in JobState /\ Record(outcome[cur])
          /\ UNCHANGED <<outcome, intent, ran>>
      BY <2>3, <2>19 DEF Settle, JobState
    <3>2. \A i \in 1..Len(trail'[cur]) : trail'[cur][i] \in Outcome => trail'[cur][i] = outcome'[cur]
      BY <2>6, <3>1
    <3>. QED  BY <2>1, <2>3, <2>5, <3>1, <3>2 DEF EndInv
  <2>. QED
    BY <1>6, <2>7, <2>8, <2>9, <2>10, <2>11, <2>12, <2>13, <2>14, <2>15, <2>16, <2>17, <2>18,
       <2>19 DEF Loop
<1>. QED  BY <1>2, <1>3, <1>4, <1>5, <1>6 DEF Next

\* The invariant holds in every reachable state.
LEMMA EndInvariant == Spec => [](LoopInv /\ EndInv)
<1>1. LoopInv /\ EndInv /\ [Next]_vars => EndInv'
  BY EndStep
<1>. QED  BY <1>1, EndInit, LoopInvariant, PTL DEF Spec

(***************************************************************************)
(* An outcome in the evidence is the one the pipeline had: a payload that  *)
(* is recorded as completed was executed, a denied one was not.            *)
(***************************************************************************)
THEOREM TrueEvidence == Spec => []EvidenceIsTrue
<1>1. LoopInv /\ EndInv => EvidenceIsTrue
  BY TrailDomain DEF LoopInv, EndInv, EvidenceIsTrue
<1>. QED  BY <1>1, EndInvariant, PTL

-----------------------------------------------------------------------------
(* The loop implements JobLifecycle.tla. *)

\* An envelope the loop has not in hand keeps its status while its place and
\* its outcome stay, whatever the loop does.
LEMMA StatusKept ==
    ASSUME NEW e \in Envelope, place'[e] = place[e], outcome'[e] = outcome[e], place[e] # "taken"
    PROVE  StatusOf(e)' = StatusOf(e)
BY DEF StatusOf

\* The status of the envelope in hand is told by the step the loop stands at.
LEMMA StatusInHand ==
    ASSUME LoopInv, cur \in Envelope
    PROVE  /\ step \in {"received", "classify"} => StatusOf(cur) = "received"
           /\ step \in {"classified", "running"} => StatusOf(cur) = "classified"
           /\ step \in Pipelines => StatusOf(cur) = "running"
           /\ step = "settle" => StatusOf(cur) = outcome[cur]
<1>1. place[cur] = "taken" /\ cur # NoEnvelope /\ step # "idle"
  BY NullAssumption DEF LoopInv, CurInv
<1>2. step # "settle" => outcome[cur] = "none"
  BY <1>1 DEF LoopInv, WorkInv
<1>3. step = "settle" => outcome[cur] # "none"
  BY <1>1 DEF LoopInv, WorkInv, Outcome
<1>. QED  BY <1>1, <1>2, <1>3 DEF StatusOf, Pipelines, PayloadSteps

\* A step that gives one envelope the status s and leaves the others' alone.
LEMMA OneMoves ==
    ASSUME NEW e \in Envelope, NEW s, StatusOf(e)' = s,
           \A f \in Envelope : f # e => StatusOf(f)' = StatusOf(f)
    PROVE  [f \in Envelope |-> StatusOf(f)]' = [[f \in Envelope |-> StatusOf(f)] EXCEPT ![e] = s]
OBVIOUS

\* Where the envelope in hand goes: one pipeline step, or the end of it.
LEMMA PipelineRefines ==
    ASSUME LoopInv, LoopInv', Loop, cur \in Envelope, cur' = cur, intent' = intent,
           step \in Pipelines,
           \/ step' \in Pipelines
           \/ step' = "settle" /\ outcome'[cur] \in Life!OutcomesOf(intent[cur])
    PROVE  [Life!LifeNext]_(Life!lifeVars)
<1>1. ~Recv /\ StatusOf(cur) = "running"
  BY StatusInHand DEF Recv, Pipelines, PayloadSteps
<1>2. \A e \in Envelope : e # cur => StatusOf(e)' = StatusOf(e)
  <2>1. \A e \in Envelope : e # cur => place[e] # "taken"
    BY DEF LoopInv, CurInv
  <2>. QED  BY <1>1, <2>1, OnlyCur, StatusKept
<1>3. CASE step' \in Pipelines
  <2>1. StatusOf(cur)' = "running"
    <3>1. place'[cur] = "taken" /\ outcome'[cur] = "none"
      BY <1>3, NullAssumption DEF LoopInv, CurInv, WorkInv, Pipelines, PayloadSteps
    <3>. QED  BY <1>3, <3>1 DEF StatusOf, Pipelines, PayloadSteps
  <2>2. \A e \in Envelope : StatusOf(e)' = StatusOf(e)
    BY <1>1, <1>2, <2>1
  <2>. QED  BY <2>2 DEF Life!lifeVars
<1>4. CASE step' = "settle" /\ outcome'[cur] \in Life!OutcomesOf(intent[cur])
  <2>1. outcome'[cur] \in Outcome
    BY <1>4, NullAssumption DEF LoopInv, WorkInv
  <2>2. StatusOf(cur)' = outcome'[cur]
    BY <2>1 DEF StatusOf, Outcome
  <2>3. Life!Settle(cur, outcome'[cur])
    BY <1>1, <1>2, <1>4, <2>2, OneMoves DEF Life!Settle, Life!Move
  <2>. QED  BY <2>1, <2>3 DEF Life!LifeNext, Outcome, Life!Outcome
<1>. QED  BY <1>3, <1>4

\* A step of the loop is a step of the lifecycle, or none.
LEMMA LoopRefines ==
    ASSUME LoopInv, LoopInv', EndInv, [Next]_vars
    PROVE  [Life!LifeNext]_(Life!lifeVars)
<1>. DEFINE Status == [e \in Envelope |-> StatusOf(e)]
<1>0. /\ NoEnvelope \notin Envelope /\ cur \in Envelope \cup {NoEnvelope}
      /\ place \in [Envelope -> Place] /\ intent \in [Envelope -> Intent \cup {NoIntent}]
      /\ outcome \in [Envelope -> Outcome \cup {"none"}]
      /\ \A e \in Envelope : place[e] = "taken" <=> e = cur
  BY NullAssumption DEF LoopInv, TypeOK, CurInv
<1>1. ASSUME \A e \in Envelope : StatusOf(e)' = StatusOf(e), intent' = intent
      PROVE  [Life!LifeNext]_(Life!lifeVars)
  BY <1>1 DEF Life!lifeVars
<1>2. ASSUME NEW e \in Envelope, Send(e) \/ Enqueue(e)
      PROVE  [Life!LifeNext]_(Life!lifeVars)
  <2>1. \A f \in Envelope : StatusOf(f)' = StatusOf(f)
    BY <1>0, <1>2 DEF Send, Enqueue, StatusOf
  <2>. QED  BY <1>1, <1>2, <2>1 DEF Send, Enqueue
\* An envelope whose sender gives up is lost before the loop ever saw it.
<1>3. ASSUME NEW e \in Envelope, Abandon(e)
      PROVE  [Life!LifeNext]_(Life!lifeVars)
  <2>1. outcome[e] = "none" /\ place[e] = "sending"
    BY <1>3 DEF Abandon, LoopInv, FreshInv
  <2>2. StatusOf(e) = "new" /\ StatusOf(e)' = "lost"
    BY <1>0, <1>3, <2>1 DEF Abandon, StatusOf
  <2>3. \A f \in Envelope : f # e => StatusOf(f)' = StatusOf(f)
    BY <1>0, <1>3 DEF Abandon, StatusOf
  <2>4. Life!Lose({e})
    BY <1>3, <2>2, <2>3 DEF Life!Lose, Life!Outcome, Abandon
  <2>. QED  BY <2>4 DEF Life!LifeNext
<1>4. CASE Recv
  <2>. DEFINE h == Head(queue)
  <2>a. 1 \in 1..Len(queue) /\ h = queue[1] /\ h \in Envelope
    BY <1>4 DEF Recv, LoopInv, TypeOK
  <2>0. PICK e \in Envelope : e = h
    BY <2>a
  <2>1. place[e] = "queued" /\ outcome[e] = "none"
    BY <2>a, <2>0 DEF LoopInv, QueueInv, FreshInv
  <2>2. /\ place' = [place EXCEPT ![e] = "taken"] /\ step' = "received"
        /\ outcome' = outcome /\ intent' = intent /\ step = "idle"
    BY <1>4, <2>0 DEF Recv
  <2>3. StatusOf(e) = "new" /\ StatusOf(e)' = "received"
    BY <1>0, <2>1, <2>2 DEF StatusOf
  <2>4. \A f \in Envelope : place[f] # "taken"
    BY <1>0, <2>2 DEF LoopInv, CurInv
  <2>5. \A f \in Envelope : f # e => StatusOf(f)' = StatusOf(f)
    BY <1>0, <2>1, <2>2, <2>4, StatusKept
  <2>6. Life!Take(e)
    BY <2>1, <2>2, <2>3, <2>5, OneMoves DEF Life!Take, Life!Move
  <2>. QED  BY <2>1, <2>6 DEF Life!LifeNext
\* The process dies with the unfinished envelopes; a decided one keeps its outcome.
<1>5. CASE Crash
  <2>. DEFINE S == {e \in InMemory : outcome[e] = "none"}
  <2>1. S \subseteq Envelope /\ intent' = intent /\ outcome' = outcome
    BY <1>5 DEF Crash, InMemory
  <2>2. \A e \in S : StatusOf(e) \notin Life!Outcome \cup {"lost"}
    BY DEF InMemory, StatusOf, Life!Outcome
  <2>3. \A e \in S : StatusOf(e)' = "lost"
    BY <1>5 DEF Crash, InMemory, StatusOf
  <2>4. \A e \in Envelope \ S : StatusOf(e)' = StatusOf(e)
    <3>1. ASSUME NEW e \in Envelope \ S, e \in InMemory PROVE StatusOf(e)' = StatusOf(e)
      <4>1. outcome[e] # "none"
        BY <3>1
      <4>. QED  BY <2>1, <4>1 DEF StatusOf
    <3>2. ASSUME NEW e \in Envelope \ S, e \notin InMemory PROVE StatusOf(e)' = StatusOf(e)
      BY <1>5, <3>2, StatusKept DEF Crash, InMemory
    <3>. QED  BY <3>1, <3>2
  <2>. HIDE DEF S
  <2>5. Life!Lose(S)
    BY <2>1, <2>2, <2>3, <2>4 DEF Life!Lose
  <2>. QED  BY <2>1, <2>5 DEF Life!LifeNext
<1>6. CASE UNCHANGED vars
  BY <1>1, <1>6 DEF vars, channel, StatusOf
<1>7. ASSUME Loop, ~Recv, NEW e \in Envelope, e = cur
      PROVE  [Life!LifeNext]_(Life!lifeVars)
  <2>1. /\ place[e] = "taken" /\ step # "idle"
        /\ \A f \in Envelope : f # e => place'[f] = place[f] /\ outcome'[f] = outcome[f]
    BY <1>7, OnlyCur
  <2>2. \A f \in Envelope : f # e => StatusOf(f)' = StatusOf(f)
    BY <1>0, <1>7, <2>1, StatusKept
  <2>3. /\ e # NoEnvelope
        /\ step # "settle" => outcome[e] = "none"
        /\ step = "settle" => outcome[e] \in Outcome
        /\ step = "running" => intent[e] \in {"query", "command", "payload"}
        /\ step \in {"query", "command", "payload"} => intent[e] = step
        /\ step \in PayloadSteps => intent[e] = "payload"
    BY <1>7, <1>0, <2>1 DEF LoopInv, WorkInv
  <2>4. CASE RecordReceived
    <3>1. step = "received" /\ step' = "classify" /\ UNCHANGED <<place, intent, outcome>>
      BY <1>7, <2>4 DEF RecordReceived, channel
    <3>2. StatusOf(e)' = StatusOf(e)
      BY <1>7, <2>1, <3>1 DEF StatusOf
    <3>. QED  BY <1>7, <1>1, <2>2, <3>1, <3>2
  <2>5. CASE Classify
    <3>1. /\ step = "classify" /\ step' = "classified" /\ UNCHANGED <<place, outcome>>
      BY <1>7, <2>5 DEF Classify, channel
    <3>2. PICK i \in Intent : intent' = [intent EXCEPT ![cur] = i]
      BY <1>7, <2>5 DEF Classify, Intents, LocalIntents, Intent
    <3>3. StatusOf(e) = "received" /\ StatusOf(e)' = "classified"
      BY <1>7, <2>1, <2>3, <3>1 DEF StatusOf
    <3>4. Life!Classified(e, i)
      BY <1>7, <2>1, <2>2, <3>2, <3>3, OneMoves DEF Life!Classified, Life!Move
    <3>. QED  BY <1>7, <2>1, <3>4 DEF Life!LifeNext, Intent, Life!Intent
  <2>6. CASE RecordClassified
    <3>1. step = "classified" /\ UNCHANGED <<place, intent>>
      BY <1>7, <2>6 DEF RecordClassified, channel
    <3>2. StatusOf(e) = "classified"
      BY <1>7, <2>1, <2>3, <3>1 DEF StatusOf
    <3>3. CASE intent[e] = "unknown"
      <4>1. outcome'[e] = "ignored"
        BY <1>7, <1>0, <2>1, <2>6, <3>3 DEF RecordClassified
      <4>2. StatusOf(e)' = "ignored"
        BY <1>7, <4>1 DEF StatusOf
      <4>3. Life!Skip(e)
        BY <1>7, <2>1, <2>2, <3>1, <3>2, <3>3, <4>2, OneMoves DEF Life!Skip, Life!Move
      <4>. QED  BY <1>7, <2>1, <4>3 DEF Life!LifeNext
    <3>4. CASE intent[e] # "unknown"
      <4>1. step' = "running" /\ outcome' = outcome
        BY <1>7, <2>6, <3>4 DEF RecordClassified
      <4>2. StatusOf(e)' = StatusOf(e)
        BY <1>7, <2>1, <3>1, <4>1 DEF StatusOf
      <4>. QED  BY <1>7, <1>1, <2>2, <3>1, <4>2
    <3>. QED  BY <1>7, <3>3, <3>4
  <2>7. CASE RecordRunning
    <3>1. step = "running" /\ step' = intent[e] /\ UNCHANGED <<place, intent, outcome>>
      BY <1>7, <2>7 DEF RecordRunning, channel
    <3>2. StatusOf(e) = "classified" /\ StatusOf(e)' = "running"
      BY <1>7, <2>1, <2>3, <3>1 DEF StatusOf
    <3>3. intent[e] # "unknown"
      BY <1>7, <2>3, <3>1
    <3>4. Life!Run(e)
      BY <1>7, <2>1, <2>2, <3>1, <3>2, <3>3, OneMoves DEF Life!Run, Life!Move
    <3>. QED  BY <1>7, <2>1, <3>4 DEF Life!LifeNext
  <2>8. ASSUME cur' = cur, intent' = intent, step \in Pipelines,
               \/ step' \in Pipelines
               \/ step' = "settle" /\ outcome'[e] \in Life!OutcomesOf(intent[e])
        PROVE  [Life!LifeNext]_(Life!lifeVars)
    BY <1>7, <2>8, PipelineRefines
  <2>9. CASE Query
    <3>1. intent[e] = "query" /\ outcome'[e] = "completed"
      BY <1>7, <1>0, <2>1, <2>3, <2>9 DEF Query, Decide
    <3>. QED  BY <1>7, <2>8, <2>9, <3>1 DEF Query, Decide, Pipelines, Life!OutcomesOf
  <2>10. CASE Command
    <3>1. intent[e] = "command" /\ outcome'[e] \in {"completed", "failed", "ignored"}
      BY <1>7, <1>0, <2>1, <2>3, <2>10 DEF Command, CommandOutcomes, Decide
    <3>. QED  BY <1>7, <2>8, <2>10, <3>1 DEF Command, Decide, Pipelines, Life!OutcomesOf
  <2>11. ASSUME CheckEngagement \/ Approve \/ AcquireSlot \/ PreparePayload \/ Scan \/ RunPayload
         PROVE  [Life!LifeNext]_(Life!lifeVars)
    <3>1. cur' = cur /\ intent' = intent /\ step \in Pipelines /\ intent[e] = "payload"
      BY <1>7, <2>3, <2>11 DEF CheckEngagement, Approve, AcquireSlot, PreparePayload, Scan, RunPayload,
         Pipelines, PayloadSteps
    <3>2. step' \in Pipelines \cup {"settle"}
      BY <1>7, <2>11 DEF CheckEngagement, Approve, AcquireSlot, PreparePayload, Scan, RunPayload,
         ScanAnswers, Decide, Pipelines, PayloadSteps
    <3>3. step' = "settle" => outcome'[e] \in Outcome
      BY <1>7, <2>1, <2>3, <3>1 DEF LoopInv, WorkInv
    <3>4. Outcome = Life!OutcomesOf(intent[e])
      BY <1>7, <3>1 DEF Outcome, Life!Outcome, Life!OutcomesOf
    <3>. QED  BY <1>7, <2>8, <3>1, <3>2, <3>3, <3>4
  <2>12. CASE Settle
    <3>1. step = "settle" /\ UNCHANGED <<intent, outcome>>
      BY <1>7, <2>12 DEF Settle
    <3>2. StatusOf(e)' = StatusOf(e)
      BY <1>7, <2>3, <3>1 DEF StatusOf, Outcome
    <3>. QED  BY <1>7, <1>1, <2>2, <3>1, <3>2
  <2>. QED  BY <1>7, <2>4, <2>5, <2>6, <2>7, <2>9, <2>10, <2>11, <2>12 DEF Loop
<1>. QED  BY <1>2, <1>3, <1>4, <1>5, <1>6, <1>7, OnlyCur DEF Next

(***************************************************************************)
(* Every envelope lives the life SPEC.md promises it: received once,       *)
(* classified once, run unless it is Unknown, and ended once in an outcome *)
(* its pipeline can have; a crash or an impatient sender may only lose it. *)
(***************************************************************************)
THEOREM LoopImplementsLifecycle == Spec => ImplementsLifecycle
<1>1. Init => Life!LifeInit
  BY DEF Init, Life!LifeInit, StatusOf
<1>2. LoopInv /\ LoopInv' /\ EndInv /\ [Next]_vars => [Life!LifeNext]_(Life!lifeVars)
  BY LoopRefines
<1>. QED  BY <1>1, <1>2, EndInvariant, PTL DEF Spec, ImplementsLifecycle, Life!LifeSpec

-----------------------------------------------------------------------------
(* What SentIsSettled rests on: the loop does not stop inside an envelope. *)

\* Outside a payload all permits are free, and within one all but its own.
PermitInv ==
    step # "settle" =>
        permits = IF step \in {"load", "scan", "execute"} THEN MaxPayloads - 1
                  ELSE MaxPayloads

\* acquire() never waits: the loop asks for a permit when one is free.
SlotIsFree == step = "slot" => permits > 0

LEMMA PermitStep ==
    ASSUME LoopInv, PermitInv, [Next]_vars
    PROVE  PermitInv'
<1>. step \in Step /\ MaxPayloads \in Nat
  BY PayloadsAssumption DEF LoopInv, TypeOK
<1>1. ASSUME NEW e \in Envelope, Send(e) \/ Enqueue(e) \/ Abandon(e) PROVE PermitInv'
  BY <1>1 DEF Send, Enqueue, Abandon, PermitInv, effects
<1>2. CASE Recv \/ RecordReceived \/ Classify \/ RecordClassified
  BY <1>2 DEF Recv, RecordReceived, Classify, RecordClassified, PermitInv, effects
<1>3. CASE RecordRunning
  <2>1. intent[cur] \in {"query", "command", "payload"}
    BY <1>3, NullAssumption DEF RecordRunning, LoopInv, TypeOK, CurInv, WorkInv
  <2>. QED  BY <1>3, <2>1 DEF RecordRunning, PermitInv, effects
<1>4. CASE Query \/ Command \/ CheckEngagement \/ Approve
  BY <1>4 DEF Query, Command, CheckEngagement, Approve, Decide, PermitInv, effects
<1>5. CASE AcquireSlot \/ PreparePayload \/ Scan \/ RunPayload
  BY <1>5 DEF AcquireSlot, PreparePayload, Scan, RunPayload, Decide, PermitInv, effects
<1>6. CASE Settle \/ Crash
  BY <1>6 DEF Settle, Crash, PermitInv
<1>7. CASE UNCHANGED vars
  BY <1>7 DEF vars, effects, PermitInv
<1>. QED  BY <1>1, <1>2, <1>3, <1>4, <1>5, <1>6, <1>7 DEF Next, Loop

(***************************************************************************)
(* The one guard of the loop that is not about the envelope in hand, the   *)
(* permit of payload_slots, is never in its way, however envelopes ended   *)
(* before: denied, failed, or cut off by a crash.                          *)
(***************************************************************************)
THEOREM SlotsAreGivenBack == Spec => []SlotIsFree
<1>1. Init => PermitInv
  BY DEF Init, PermitInv
<1>2. LoopInv /\ PermitInv /\ [Next]_vars => PermitInv'
  BY PermitStep
<1>3. PermitInv => SlotIsFree
  BY PayloadsAssumption DEF PermitInv, SlotIsFree
<1>. QED  BY <1>1, <1>2, <1>3, LoopInvariant, PTL DEF Spec

\* How far the loop is with the envelope in hand.
Progress(s) ==
    CASE s = "received"   -> 1
      [] s = "classify"   -> 2
      [] s = "classified" -> 3
      [] s = "running"    -> 4
      [] s \in {"query", "command", "payload"} -> 5
      [] s = "approval"   -> 6
      [] s = "slot"       -> 7
      [] s = "load"       -> 8
      [] s = "scan"       -> 9
      [] s = "execute"    -> 10
      [] s = "settle"     -> 11
      [] OTHER            -> 12

\* A step of the loop gets on with the envelope; nobody else moves the loop,
\* but for a crash.
LoopAdvances ==
    [][/\ Loop /\ step # "idle" => Progress(step') > Progress(step)
       /\ ~Loop => step' = step \/ crashes' > crashes]_vars

(***************************************************************************)
(* The loop works on an envelope in at most eleven steps of its own:       *)
(* nothing, not a failed record, a refusal or a dropped sender, takes it   *)
(* back to an earlier await of the same envelope, and the senders do not   *)
(* disturb it.                                                             *)
(***************************************************************************)
THEOREM LoopGetsOn == Spec => LoopAdvances
<1>1. ASSUME LoopInv, Loop, step # "idle" PROVE Progress(step') > Progress(step)
  <2>1. CASE RecordReceived \/ Classify \/ RecordClassified
    BY <1>1, <2>1 DEF Recv, RecordReceived, Classify, RecordClassified, Progress
  <2>2. CASE RecordRunning
    <3>1. step = "running" /\ step' \in {"query", "command", "payload"}
      BY <1>1, <2>2 DEF RecordRunning, LoopInv, CurInv, WorkInv
    <3>. QED  BY <3>1 DEF Progress
  <2>3. CASE Query \/ Command \/ CheckEngagement \/ Approve
    BY <2>3 DEF Query, Command, CheckEngagement, Approve, Decide, Progress
  <2>4. CASE AcquireSlot \/ PreparePayload \/ Scan \/ RunPayload \/ Settle
    BY <2>4 DEF AcquireSlot, PreparePayload, Scan, RunPayload, Settle, Decide, Progress
  <2>. QED  BY <1>1, <2>1, <2>2, <2>3, <2>4 DEF Loop, Recv
<1>2. ASSUME LoopInv, [Next]_vars, ~Loop PROVE step' = step \/ crashes' > crashes
  <2>1. crashes \in Nat
    <3>1. crashes \in 0..MaxCrashes
      BY <1>2 DEF LoopInv, TypeOK
    <3>. QED  BY <3>1, CrashesAssumption
  <2>2. ASSUME NEW e \in Envelope, Send(e) \/ Enqueue(e) \/ Abandon(e) PROVE step' = step
    BY <2>2 DEF Send, Enqueue, Abandon
  <2>3. CASE Crash
    BY <2>1, <2>3 DEF Crash
  <2>4. CASE UNCHANGED vars
    BY <2>4 DEF vars
  <2>. QED  BY <1>2, <2>2, <2>3, <2>4 DEF Next
<1>. QED  BY <1>1, <1>2, LoopInvariant, PTL DEF Spec, LoopAdvances

=============================================================================
