------------------------ MODULE ActiveDefense_proofs ------------------------
(***************************************************************************)
(* Proofs about ActiveDefense.tla.  The inductive invariant follows the    *)
(* paths: which steps a kind of command can stand at (PathInv), what the   *)
(* gates behind it have established (GateInv, AskedInv), and what is on    *)
(* record and done by then (RecordInv, FixInv).                            *)
(***************************************************************************)
EXTENDS ActiveDefense, TLAPS

\* The steps of each kind of command.
StepsOf(k) ==
    CASE k = "scan"     -> {"gate", "started", "look", "report", "reconcile", "close"}
      [] k = "plan"     -> {"gate", "started", "plan", "close"}
      [] k = "apply"    -> {"gate", "approve", "denied", "started", "plan", "fix", "fixed"}
      [] k = "verify"   -> {"gate", "approve", "denied", "started", "look", "report",
                            "reconcile", "verified", "close"}
      [] k = "baseline" -> {"gate", "look", "reconcile", "signatures", "capture", "close"}
      [] k = "drift"    -> {"gate", "started", "baseline", "signatures", "capture", "initialized",
                            "look", "reconcile", "close", "window", "approve", "denied", "plan", "fix",
                            "fixed"}
      [] OTHER          -> {"gate", "started", "look", "report", "reconcile", "poc", "verified",
                            "pocDenied", "plan", "planned", "approve", "denied", "replan", "fix",
                            "fixed", "post", "close"}

PathInv == at \in StepsOf(cmd.kind) \cup {"idle"}

\* The gate of the command was passed.
Passed == config.engaged /\ InScope(cmd.target) /\ Rank(LevelOf(cmd)) <= Rank(MaxLevel)

GateInv ==
    /\ at \notin {"idle", "gate"} \/ touched \/ fixed \/ events # {} => Passed
    /\ at = "gate" => ~touched /\ ~fixed /\ events = {}
    /\ touched => Reachable

\* What has been asked for and granted when the target is about to change.
Asked ==
    /\ cmd.kind # "apply" => cmd.apply
    /\ cmd.kind = "drift" => config.auto /\ opened
    /\ ActionOf(cmd.kind) \in config.approved

AskedInv ==
    /\ cmd.kind = "apply" /\ at \in {"started", "plan"} => Asked
    /\ cmd.kind = "drift" /\ at = "window" => cmd.apply
    /\ cmd.kind = "drift" /\ at = "approve" => cmd.apply /\ config.auto /\ opened
    /\ cmd.kind = "drift" /\ at = "plan" => Asked
    /\ cmd.kind = "defend" /\ at = "approve" => cmd.apply
    /\ at \in {"replan", "fix"} => Asked
    /\ at = "fix" => touched

RecordInv ==
    /\ (cmd.kind # "baseline" /\ at \notin {"idle", "gate", "started"})
          => "started" \in events \/ (cmd.kind \in {"apply", "verify"} /\ at \in {"approve", "denied"})
    /\ "denied" \in events =>
          /\ ~fixed
          /\ at \in {"fixed", "post", "close", "idle"}
          /\ at = "close" => cmd.kind # "drift"

FixInv ==
    /\ fixed =>
          /\ touched /\ Asked /\ config.apt
          /\ cmd.kind \in {"apply", "drift", "defend"}
          /\ "started" \in events
          /\ at \in {"fixed", "post", "close", "idle"}
          /\ at = "close" => cmd.kind = "defend"
          /\ at = "fixed" \/ "fixed" \in events \/ outcome = "failed"
    /\ at # "idle" => outcome = "none"

DefenseInv ==
    /\ TypeOK
    /\ PathInv
    /\ GateInv
    /\ AskedInv
    /\ RecordInv
    /\ FixInv

-----------------------------------------------------------------------------
\* Facts about the paths.
LEMMA AfterIsOnPath ==
    ASSUME cmd.kind \in Command, NEW s \in StepsOf(cmd.kind)
    PROVE  After(s) \in StepsOf(cmd.kind) \cup {"idle"}
<1> DEFINE k == cmd.kind
<1>1. CASE k = "scan"     BY <1>1 DEF After, StepsOf
<1>2. CASE k = "plan"     BY <1>2 DEF After, StepsOf
<1>3. CASE k = "apply"    BY <1>3 DEF After, StepsOf
<1>4. CASE k = "verify"   BY <1>4 DEF After, StepsOf
<1>5. CASE k = "baseline" BY <1>5 DEF After, StepsOf
<1>6. CASE k = "drift"    BY <1>6 DEF After, StepsOf
<1>7. CASE k = "defend"   BY <1>7 DEF After, StepsOf
<1>8. QED BY <1>1, <1>2, <1>3, <1>4, <1>5, <1>6, <1>7 DEF Command

LEMMA StepsAreSteps ==
    ASSUME NEW k \in Command
    PROVE  StepsOf(k) \cup {"idle"} \subseteq Step
BY DEF Command, StepsOf, Step

\* A command keeps what its gates have established while the process lives.
LEMMA SameCommand ==
    ASSUME UNCHANGED <<config, cmd>>
    PROVE  /\ Passed' = Passed
           /\ Reachable' = Reachable
           /\ UNCHANGED opened => Asked' = Asked
BY DEF Passed, Asked, Reachable, MaxLevel

LEMMA DefenseInit == Init => DefenseInv
<1> SUFFICES ASSUME Init PROVE DefenseInv
    OBVIOUS
<1>1. cmd = [kind |-> "scan", target |-> "local", apply |-> FALSE]
    BY DEF Init, NoCommand
<1>2. TypeOK
  <2>1. cmd \in Request
      BY <1>1 DEF Request, Command, Target
  <2>2. config \in Config
      BY DEF Init, Configs
  <2>3. served \in 0..MaxCommands /\ crashes \in 0..MaxCrashes
      BY BoundAssumption DEF Init
  <2>4. at \in Step /\ outcome \in Outcome /\ refused \in Level \cup {"none"} /\ events \subseteq RecordStep
      BY DEF Init, Step, Outcome
  <2>5. QED
      BY <2>1, <2>2, <2>3, <2>4 DEF Init, TypeOK
<1>3. QED
    BY <1>1, <1>2 DEF Init, DefenseInv, PathInv, GateInv, AskedInv, RecordInv, FixInv

LEMMA DispatchKeepsDefense ==
    ASSUME DefenseInv, NEW k \in Commands, NEW t \in Target, NEW a \in BOOLEAN, Dispatch(k, t, a)
    PROVE  DefenseInv'
<1>1. k \in Command
    BY CommandsAssumption
<1>2. cmd' = [kind |-> k, target |-> t, apply |-> a] /\ cmd'.kind = k
    BY DEF Dispatch
<1>3. TypeOK'
  <2>1. cmd' \in Request
      BY <1>1, <1>2 DEF Request
  <2>2. served' \in 0..MaxCommands
      BY BoundAssumption DEF Dispatch, DefenseInv, TypeOK
  <2>3. at' \in Step /\ outcome' \in Outcome /\ refused' \in Level \cup {"none"} /\ events' \subseteq RecordStep
      BY DEF Dispatch, Step, Outcome
  <2>4. QED
      BY <2>1, <2>2, <2>3 DEF Dispatch, world, DefenseInv, TypeOK
<1>4. PathInv'
    BY <1>1, <1>2 DEF Dispatch, PathInv, StepsOf, Command
<1>5. GateInv' /\ AskedInv' /\ RecordInv' /\ FixInv'
    BY DEF Dispatch, GateInv, AskedInv, RecordInv, FixInv
<1>6. QED
    BY <1>3, <1>4, <1>5 DEF DefenseInv

\* The handler keeps the types, whatever its step does to the effects.
LEMMA HandlerTypes ==
    ASSUME TypeOK,
           UNCHANGED <<config, world, cmd, count>>,
           at' \in StepsOf(cmd.kind) \cup {"idle"},
           outcome' \in {outcome, "completed", "failed"},
           refused' \in Level \cup {"none"},
           events' \subseteq RecordStep,
           opened' \in BOOLEAN, plan' \in BOOLEAN, touched' \in BOOLEAN, fixed' \in BOOLEAN
    PROVE  TypeOK' /\ PathInv'
<1>1. cmd.kind \in Command
    BY DEF TypeOK, Request
<1>2. at' \in Step
    BY <1>1, StepsAreSteps
<1>3. outcome' \in Outcome
    BY DEF TypeOK, Outcome
<1>4. TypeOK'
    BY <1>2, <1>3 DEF TypeOK, world, count
<1>5. PathInv'
    BY DEF PathInv
<1>6. QED
    BY <1>4, <1>5

\* A command that ends here, having done nothing new.
LEMMA EndKeepsDefense ==
    ASSUME DefenseInv, at # "idle", at' = "idle",
           UNCHANGED <<config, world, cmd, opened, plan, events, effects, count>>,
           outcome' = "failed" \/ (outcome' = "completed" /\ at # "fix" /\ (at = "fixed" => "fixed" \in events)),
           refused' \in Level \cup {"none"}
    PROVE  DefenseInv'
<1>1. TypeOK' /\ PathInv'
    BY HandlerTypes DEF DefenseInv, TypeOK, effects
<1>2. GateInv'
    BY SameCommand DEF DefenseInv, GateInv, effects
<1>3. AskedInv' /\ RecordInv'
    BY DEF DefenseInv, AskedInv, RecordInv, effects
<1>4. FixInv'
    BY SameCommand DEF DefenseInv, FixInv, GateInv, effects
<1>5. QED
    BY <1>1, <1>2, <1>3, <1>4 DEF DefenseInv

LEMMA GateKeepsDefense ==
    ASSUME DefenseInv, Gate
    PROVE  DefenseInv'
<1>1. at = "gate" /\ cmd.kind \in Command /\ ~fixed /\ ~touched /\ events = {} /\ outcome = "none"
    BY DEF Gate, DefenseInv, TypeOK, Request, GateInv, FixInv
<1>2. UNCHANGED <<config, world, cmd, opened, plan, events, effects, count>>
    BY DEF Gate
<1>3. CASE Fail
    BY <1>1, <1>2, <1>3, EndKeepsDefense DEF Fail, DefenseInv, TypeOK
<1>4. CASE at' = "idle" /\ outcome' = "failed" /\ refused' = LevelOf(cmd)
    BY <1>1, <1>2, <1>4, EndKeepsDefense DEF LevelOf, Level
<1>5. CASE Passed /\ Continue(After("gate"))
  <2>1. at' \in {"approve", "look", "started"} /\ UNCHANGED <<outcome, refused>>
      BY <1>5 DEF Continue, After
  <2>2. /\ at' = "approve" => cmd.kind \in {"apply", "verify"}
        /\ at' = "look" => cmd.kind = "baseline"
        /\ at' = "started" => cmd.kind \notin {"apply", "verify", "baseline"}
      BY <1>5 DEF Continue, After
  <2>3. at' \in StepsOf(cmd.kind)
      BY <1>1, <2>1, <2>2 DEF StepsOf, Command
  <2>4. TypeOK' /\ PathInv'
      BY <1>2, <2>1, <2>3, HandlerTypes DEF DefenseInv, TypeOK, effects
  <2>5. GateInv'
      BY <1>1, <1>2, <1>5, <2>1, SameCommand DEF GateInv, effects
  <2>6. AskedInv' /\ RecordInv' /\ FixInv'
      BY <1>1, <1>2, <2>1, <2>2 DEF AskedInv, RecordInv, FixInv, effects
  <2>7. QED
      BY <2>4, <2>5, <2>6 DEF DefenseInv
<1>6. Rank(LevelOf(cmd)) \in 1..3 /\ Rank(MaxLevel) \in 1..3
    BY DEF Rank
<1>7. QED
    BY <1>3, <1>4, <1>5, <1>6 DEF Gate, Passed

LEMMA ApproveKeepsDefense ==
    ASSUME DefenseInv, Approve
    PROVE  DefenseInv'
<1>1. at = "approve" /\ cmd.kind \in {"apply", "verify", "drift", "defend"} /\ outcome = "none"
    BY DEF Approve, DefenseInv, TypeOK, Request, PathInv, StepsOf, FixInv, Command
<1>2. UNCHANGED <<config, world, cmd, opened, plan, events, effects, count>>
    BY DEF Approve
<1>3. ~fixed /\ "denied" \notin events /\ Passed
    BY <1>1 DEF DefenseInv, RecordInv, FixInv, GateInv
<1>4. CASE ActionOf(cmd.kind) \in config.approved /\ Continue(After("approve"))
  <2>1. /\ at' = IF cmd.kind = "drift" THEN "plan" ELSE IF cmd.kind = "defend" THEN "replan" ELSE "started"
        /\ UNCHANGED <<outcome, refused>>
      BY <1>1, <1>4 DEF Continue, After
  <2>2. at' \in StepsOf(cmd.kind)
      BY <1>1, <2>1 DEF StepsOf
  <2>3. TypeOK' /\ PathInv'
      BY <1>2, <2>1, <2>2, HandlerTypes DEF DefenseInv, TypeOK, effects
  <2>4. GateInv'
      BY <1>1, <1>2, <1>3, <2>1, SameCommand DEF DefenseInv, GateInv, effects
  <2>5. cmd.kind # "verify" => Asked
      BY <1>1, <1>4 DEF DefenseInv, AskedInv, Asked
  <2>6. AskedInv'
      BY <1>1, <1>2, <2>1, <2>5, SameCommand DEF AskedInv
  <2>7. RecordInv' /\ FixInv'
      BY <1>1, <1>2, <1>3, <2>1 DEF DefenseInv, RecordInv, FixInv, effects
  <2>8. QED
      BY <2>3, <2>4, <2>6, <2>7 DEF DefenseInv
<1>5. CASE Continue("denied")
  <2>1. at' = "denied" /\ UNCHANGED <<outcome, refused>>
      BY <1>5 DEF Continue
  <2>2. at' \in StepsOf(cmd.kind)
      BY <1>1, <2>1 DEF StepsOf
  <2>3. TypeOK' /\ PathInv'
      BY <1>2, <2>1, <2>2, HandlerTypes DEF DefenseInv, TypeOK, effects
  <2>4. GateInv'
      BY <1>1, <1>2, <1>3, <2>1, SameCommand DEF DefenseInv, GateInv, effects
  <2>5. AskedInv' /\ RecordInv' /\ FixInv'
      BY <1>1, <1>2, <1>3, <2>1 DEF DefenseInv, AskedInv, RecordInv, FixInv, effects
  <2>6. QED
      BY <2>3, <2>4, <2>5 DEF DefenseInv
<1>6. QED
    BY <1>4, <1>5 DEF Approve


\* A step that leaves the target unchanged, has not been denied anything and
\* goes to a step where nothing more must have been asked for.
LEMMA MoveKeepsDefense ==
    ASSUME DefenseInv, at \notin {"idle", "gate"}, ~fixed, "denied" \notin events,
           UNCHANGED <<config, world, cmd, count, fixed, outcome, refused>>,
           events' = events \/ (events' = events \cup {at} /\ at \in RecordStep \ {"denied"}),
           opened' \in BOOLEAN, plan' \in BOOLEAN,
           touched' = touched \/ (touched' = TRUE /\ Reachable),
           at' \in StepsOf(cmd.kind) \ {"gate", "started", "idle"},
           cmd.kind # "baseline" => "started" \in events' \/ (cmd.kind = "verify" /\ at' = "denied"),
           AskedInv'
    PROVE  DefenseInv'
<1>1. TypeOK' /\ PathInv'
    BY HandlerTypes DEF DefenseInv, TypeOK, RecordStep
<1>2. GateInv'
    BY SameCommand DEF DefenseInv, GateInv
<1>3. "denied" \notin events'
    BY DEF RecordStep
<1>4. RecordInv' /\ FixInv'
    BY <1>3 DEF DefenseInv, RecordInv, FixInv
<1>5. QED
    BY <1>1, <1>2, <1>4 DEF DefenseInv

LEMMA ApprovePocsKeepsDefense ==
    ASSUME DefenseInv, ApprovePocs
    PROVE  DefenseInv'
<1>1. at = "poc" /\ cmd.kind = "defend" /\ "started" \in events /\ ~fixed /\ "denied" \notin events
    BY DEF ApprovePocs, DefenseInv, TypeOK, Request, Command, PathInv, StepsOf, RecordInv, FixInv
<1>2. UNCHANGED <<config, world, cmd, opened, plan, events, effects, count>>
    BY DEF ApprovePocs
<1>3. CASE Fail
    BY <1>1, <1>2, <1>3, EndKeepsDefense DEF Fail, DefenseInv, TypeOK
<1>4. CASE Continue("verified") \/ Continue("pocDenied")
  <2>1. at' \in {"verified", "pocDenied"} /\ UNCHANGED <<outcome, refused>>
      BY <1>4 DEF Continue
  <2>2. at' \in StepsOf(cmd.kind) \ {"gate", "started", "idle"}
      BY <1>1, <2>1 DEF StepsOf
  <2>3. AskedInv'
      BY <1>1, <1>2, <2>1 DEF AskedInv
  <2>4. QED
      BY <1>1, <1>2, <2>1, <2>2, <2>3, MoveKeepsDefense DEF effects, DefenseInv, TypeOK
<1>5. QED
    BY <1>3, <1>4 DEF ApprovePocs

LEMMA LookKeepsDefense ==
    ASSUME DefenseInv, Look
    PROVE  DefenseInv'
<1>1. at \in {"look", "signatures"} /\ cmd.kind \in Command /\ ~fixed /\ "denied" \notin events
    BY DEF Look, DefenseInv, TypeOK, Request, RecordInv, FixInv
<1>2. UNCHANGED <<config, world, cmd, opened, plan, events, fixed, count>>
    BY DEF Look
<1>3. CASE Fail /\ UNCHANGED touched
    BY <1>1, <1>2, <1>3, EndKeepsDefense DEF Fail, effects, DefenseInv, TypeOK
<1>4. CASE Reachable /\ touched' = TRUE /\ Continue(After(at))
  <2>1. at' \in {"report", "reconcile", "capture"} /\ UNCHANGED <<outcome, refused>>
      BY <1>1, <1>4 DEF Continue, After
  <2>2. /\ at' = "capture" <=> at = "signatures"
        /\ at' = "report" <=> at = "look" /\ cmd.kind \notin {"baseline", "drift"}
      BY <1>1, <1>4 DEF Continue, After
  <2>3. at \in StepsOf(cmd.kind)
      BY <1>1 DEF DefenseInv, PathInv
  <2>4. at' \in StepsOf(cmd.kind) \ {"gate", "started", "idle"}
      BY <1>1, <2>1, <2>2, <2>3 DEF StepsOf, Command
  <2>5. AskedInv'
      BY <1>1, <1>2, <2>1 DEF AskedInv
  <2>6. cmd.kind # "baseline" => "started" \in events
      BY <1>1 DEF DefenseInv, RecordInv
  <2>7. QED
      BY <1>1, <1>2, <1>4, <2>1, <2>4, <2>5, <2>6, MoveKeepsDefense DEF DefenseInv, TypeOK
<1>5. QED
    BY <1>3, <1>4 DEF Look

LEMMA ReadBaselineKeepsDefense ==
    ASSUME DefenseInv, ReadBaseline
    PROVE  DefenseInv'
<1>1. at = "baseline" /\ cmd.kind = "drift" /\ "started" \in events /\ ~fixed /\ "denied" \notin events
    BY DEF ReadBaseline, DefenseInv, TypeOK, Request, Command, PathInv, StepsOf, RecordInv, FixInv
<1>2. UNCHANGED <<config, world, cmd, opened, plan, events, effects, count>>
    BY DEF ReadBaseline
<1>3. CASE Fail
    BY <1>1, <1>2, <1>3, EndKeepsDefense DEF Fail, DefenseInv, TypeOK
<1>4. CASE Continue("signatures") \/ Continue("look")
  <2>1. at' \in {"signatures", "look"} /\ UNCHANGED <<outcome, refused>>
      BY <1>4 DEF Continue
  <2>2. at' \in StepsOf(cmd.kind) \ {"gate", "started", "idle"}
      BY <1>1, <2>1 DEF StepsOf
  <2>3. AskedInv'
      BY <1>1, <1>2, <2>1 DEF AskedInv
  <2>4. QED
      BY <1>1, <1>2, <2>1, <2>2, <2>3, MoveKeepsDefense DEF effects, DefenseInv, TypeOK
<1>5. QED
    BY <1>3, <1>4 DEF ReadBaseline

LEMMA ReconcileKeepsDefense ==
    ASSUME DefenseInv, Reconcile
    PROVE  DefenseInv'
<1>1. at = "reconcile" /\ cmd.kind \in Command /\ ~fixed /\ "denied" \notin events
    BY DEF Reconcile, DefenseInv, TypeOK, Request, RecordInv, FixInv
<1>2. UNCHANGED <<config, world, cmd, opened, plan, events, effects, count>>
    BY DEF Reconcile
<1>3. CASE Fail
    BY <1>1, <1>2, <1>3, EndKeepsDefense DEF Fail, DefenseInv, TypeOK
<1>4. CASE Continue(After("reconcile"))
  <2>1. at' \in {"verified", "signatures", "poc", "close"} /\ UNCHANGED <<outcome, refused>>
      BY <1>4 DEF Continue, After
  <2>2. /\ at' = "verified" => cmd.kind = "verify"
        /\ at' = "signatures" => cmd.kind = "baseline"
        /\ at' = "poc" => cmd.kind = "defend"
        /\ at' = "close" => cmd.kind \notin {"verify", "baseline", "defend"}
      BY <1>4 DEF Continue, After
  <2>3. at \in StepsOf(cmd.kind)
      BY <1>1 DEF DefenseInv, PathInv
  <2>4. at' \in StepsOf(cmd.kind) \ {"gate", "started", "idle"}
      BY <1>1, <2>1, <2>2, <2>3 DEF StepsOf, Command
  <2>5. AskedInv'
      BY <1>1, <1>2, <2>1 DEF AskedInv
  <2>6. cmd.kind # "baseline" => "started" \in events
      BY <1>1 DEF DefenseInv, RecordInv
  <2>7. QED
      BY <1>1, <1>2, <2>1, <2>4, <2>5, <2>6, MoveKeepsDefense DEF DefenseInv, TypeOK, effects
<1>5. QED
    BY <1>3, <1>4 DEF Reconcile

LEMMA PlanKeepsDefense ==
    ASSUME DefenseInv, Plan
    PROVE  DefenseInv'
<1>1. at \in {"plan", "replan"} /\ cmd.kind \in Command /\ ~fixed /\ "denied" \notin events
    BY DEF Plan, DefenseInv, TypeOK, Request, RecordInv, FixInv
<1>2. UNCHANGED <<config, world, cmd, opened, events, fixed, count>>
    BY DEF Plan
<1>3. CASE Fail /\ UNCHANGED <<plan, touched>>
    BY <1>1, <1>2, <1>3, EndKeepsDefense DEF Fail, effects, DefenseInv, TypeOK
<1>4. CASE plan' = upgradable /\ Reachable /\ touched' = TRUE /\ Continue(After(at))
  <2>1. at' \in {"close", "planned", "fix"} /\ UNCHANGED <<outcome, refused>>
      BY <1>1, <1>4 DEF Continue, After
  <2>2. /\ at' = "close" => cmd.kind = "plan"
        /\ at' = "planned" => cmd.kind = "defend"
        /\ at' = "fix" => at = "replan" \/ cmd.kind \notin {"plan", "defend"}
      BY <1>1, <1>4 DEF Continue, After
  <2>3. at \in StepsOf(cmd.kind)
      BY <1>1 DEF DefenseInv, PathInv
  <2>4. at' \in StepsOf(cmd.kind) \ {"gate", "started", "idle"}
      BY <1>1, <2>1, <2>2, <2>3 DEF StepsOf, Command
  <2>5. at' = "fix" => Asked
      BY <1>1, <2>2, <2>3 DEF DefenseInv, AskedInv, StepsOf, Command
  <2>6. AskedInv'
      BY <1>1, <1>2, <1>4, <2>1, <2>5, SameCommand DEF AskedInv
  <2>7. cmd.kind # "baseline" => "started" \in events
      BY <1>1 DEF DefenseInv, RecordInv
  <2>8. QED
      BY <1>1, <1>2, <1>4, <2>1, <2>4, <2>6, <2>7, MoveKeepsDefense DEF DefenseInv, TypeOK
<1>5. QED
    BY <1>3, <1>4 DEF Plan

LEMMA WindowKeepsDefense ==
    ASSUME DefenseInv, Window
    PROVE  DefenseInv'
<1>1. at = "window" /\ cmd.kind = "drift" /\ "started" \in events /\ ~fixed /\ "denied" \notin events
    BY DEF Window, DefenseInv, TypeOK, Request, Command, PathInv, StepsOf, RecordInv, FixInv
<1>2. UNCHANGED <<config, world, cmd, plan, events, effects, count>>
    BY DEF Window
<1>3. at' \in {"approve", "denied"} /\ UNCHANGED <<outcome, refused>> /\ (at' = "approve" => config.auto /\ opened')
    BY DEF Window, Continue
<1>4. at' \in StepsOf(cmd.kind) \ {"gate", "started", "idle"}
    BY <1>1, <1>3 DEF StepsOf
<1>5. AskedInv'
    BY <1>1, <1>2, <1>3 DEF DefenseInv, AskedInv
<1>6. opened' \in BOOLEAN
    BY DEF Window, DefenseInv, TypeOK
<1>7. QED
    BY <1>1, <1>2, <1>3, <1>4, <1>5, <1>6, MoveKeepsDefense DEF effects, DefenseInv, TypeOK

\* An event before the target is changed, or after a denial or a change.
LEMMA RecordKeepsDefense ==
    ASSUME DefenseInv, Record
    PROVE  DefenseInv'
<1>1. at \in RecordStep /\ cmd.kind \in Command /\ at \in StepsOf(cmd.kind) /\ at # "idle" /\ at # "gate"
    BY DEF Record, DefenseInv, TypeOK, Request, PathInv, RecordStep
<1>2. UNCHANGED <<config, world, cmd, opened, plan, effects, count>>
    BY DEF Record
<1>3. outcome = "none" /\ refused \in Level \cup {"none"} /\ events \subseteq RecordStep /\ Passed
    BY <1>1 DEF DefenseInv, FixInv, TypeOK, GateInv
<1>4. CASE Fail /\ UNCHANGED events
    BY <1>1, <1>2, <1>3, <1>4, EndKeepsDefense DEF Fail
<1>5. CASE /\ at \in {"started", "report", "capture", "verified", "pocDenied", "planned"}
           /\ events' = events \cup {at} /\ Continue(After(at))
  <2>1. at' \in {"plan", "baseline", "look", "reconcile", "initialized", "close", "approve"}
      BY <1>5 DEF Continue, After
  <2>2. UNCHANGED <<outcome, refused>>
      BY <1>5, <2>1 DEF Continue
  <2>3. at' \in StepsOf(cmd.kind)
    <3>1. After(at) \in StepsOf(cmd.kind) \cup {"idle"}
        BY <1>1, AfterIsOnPath
    <3>2. QED
        BY <1>5, <2>1, <3>1 DEF Continue
  <2>4. ~fixed /\ "denied" \notin events
      BY <1>5 DEF DefenseInv, RecordInv, FixInv
  <2>5. cmd.kind # "baseline" => "started" \in events'
      BY <1>5 DEF DefenseInv, RecordInv
  <2>6. at' = "plan" /\ cmd.kind = "apply" => Asked
      BY <1>1, <1>5 DEF Continue, After, DefenseInv, AskedInv, StepsOf
  <2>7. at' = "plan" => cmd.kind # "drift"
      BY <1>1, <1>5 DEF Continue, After, StepsOf
  <2>8. at' = "approve" => cmd.kind = "defend" /\ cmd.apply
      BY <1>1, <1>5 DEF Continue, After, StepsOf, Command
  <2>9. AskedInv'
      BY <1>2, <2>1, <2>6, <2>7, <2>8, SameCommand DEF AskedInv
  <2>10. QED
      BY <1>1, <1>2, <1>5, <2>1, <2>2, <2>3, <2>4, <2>5, <2>9, MoveKeepsDefense
      DEF effects, DefenseInv, TypeOK
<1>6. CASE at = "close" /\ cmd.kind = "drift" /\ cmd.apply /\ events' = events \cup {at} /\ Continue("window")
  <2>1. at' = "window" /\ UNCHANGED <<outcome, refused>>
      BY <1>6 DEF Continue
  <2>2. ~fixed /\ "denied" \notin events /\ "started" \in events
      BY <1>6 DEF DefenseInv, RecordInv, FixInv
  <2>3. at' \in StepsOf(cmd.kind)
      BY <1>6, <2>1 DEF StepsOf
  <2>4. AskedInv'
      BY <1>2, <1>6, <2>1 DEF AskedInv
  <2>5. QED
      BY <1>1, <1>2, <1>6, <2>1, <2>2, <2>3, <2>4, MoveKeepsDefense DEF effects, DefenseInv, TypeOK
<1>7. CASE /\ at \in {"initialized", "close", "fixed", "post", "denied"}
           /\ events' = events \cup {at} /\ Continue(After(at))
  <2>1. at' \in {"idle", "post", "close"}
      BY <1>7 DEF Continue, After
  <2>2. outcome' = (IF at' = "idle" THEN "completed" ELSE outcome) /\ UNCHANGED refused
      BY <1>7 DEF Continue
  <2>3. at' \in StepsOf(cmd.kind) \cup {"idle"}
    <3>1. After(at) \in StepsOf(cmd.kind) \cup {"idle"}
        BY <1>1, AfterIsOnPath
    <3>2. QED
        BY <1>7, <3>1 DEF Continue
  <2>4. TypeOK' /\ PathInv'
    <3>1. events' \subseteq RecordStep /\ outcome' \in {outcome, "completed", "failed"}
        BY <1>1, <1>3, <1>7, <2>2
    <3>2. opened' \in BOOLEAN /\ plan' \in BOOLEAN /\ touched' \in BOOLEAN /\ fixed' \in BOOLEAN
        BY <1>2 DEF effects, DefenseInv, TypeOK
    <3>3. QED
        BY <1>2, <1>3, <2>2, <2>3, <3>1, <3>2, HandlerTypes DEF DefenseInv
  <2>5. GateInv'
      BY <1>2, <1>3, <2>1, SameCommand DEF DefenseInv, GateInv, effects
  <2>6. AskedInv'
      BY <2>1 DEF AskedInv
  <2>7. at' \in {"post", "close"} => cmd.kind = "defend"
      BY <1>1, <1>7 DEF Continue, After, StepsOf, Command
  <2>8. /\ at' = "post" => at = "fixed"
        /\ at = "fixed" => at' \in {"post", "idle"}
        /\ at = "denied" => at' \in {"close", "idle"}
      BY <1>7 DEF Continue, After
  <2>9. "started" \in events' \/ at' = "idle"
      BY <1>1, <1>7, <2>1, <2>7 DEF DefenseInv, RecordInv
  <2>10. at = "denied" => ~fixed
      BY DEF DefenseInv, FixInv
  <2>11. RecordInv'
      BY <1>2, <1>7, <2>1, <2>7, <2>8, <2>9, <2>10 DEF DefenseInv, RecordInv, effects
  <2>12. FixInv'
      BY <1>2, <1>3, <1>7, <2>1, <2>2, <2>7, SameCommand DEF DefenseInv, FixInv, effects
  <2>13. QED
      BY <2>4, <2>5, <2>6, <2>11, <2>12 DEF DefenseInv
<1>8. QED
    BY <1>1, <1>4, <1>5, <1>6, <1>7 DEF Record, RecordStep

\* The change itself, or the denial of its action.
LEMMA FixKeepsDefense ==
    ASSUME DefenseInv, Fix
    PROVE  DefenseInv'
<1>1. at = "fix" /\ cmd.kind \in {"apply", "drift", "defend"} /\ outcome = "none"
    BY DEF Fix, DefenseInv, TypeOK, Request, Command, PathInv, StepsOf, FixInv
<1>2. UNCHANGED <<config, world, cmd, opened, plan, touched, count>>
    BY DEF Fix
<1>3. Asked /\ touched /\ Passed /\ "started" \in events /\ ~fixed /\ "denied" \notin events
    BY <1>1 DEF DefenseInv, AskedInv, GateInv, RecordInv, FixInv
<1>4. CASE Fail /\ UNCHANGED <<events, fixed>>
    BY <1>1, <1>2, <1>4, EndKeepsDefense DEF Fail, effects, DefenseInv, TypeOK
<1>5. CASE /\ Continue("fixed")
           /\ \/ UNCHANGED <<fixed, events>>
              \/ config.apt /\ fixed' = TRUE /\ UNCHANGED events
              \/ events' = events \cup {"denied"} /\ UNCHANGED fixed
  <2>1. at' = "fixed" /\ UNCHANGED <<outcome, refused>>
      BY <1>5 DEF Continue
  <2>2. at' \in StepsOf(cmd.kind)
      BY <1>1, <2>1 DEF StepsOf
  <2>3. events' \subseteq RecordStep /\ fixed' \in BOOLEAN
      BY <1>5 DEF DefenseInv, TypeOK, RecordStep
  <2>4. TypeOK' /\ PathInv'
      BY <1>2, <2>1, <2>2, <2>3, HandlerTypes DEF DefenseInv, TypeOK
  <2>5. GateInv'
      BY <1>2, <1>3, <2>1, SameCommand DEF DefenseInv, GateInv
  <2>6. AskedInv'
      BY <2>1 DEF AskedInv
  <2>7. RecordInv' /\ FixInv'
      BY <1>1, <1>2, <1>3, <1>5, <2>1, SameCommand DEF RecordInv, FixInv
  <2>8. QED
      BY <2>4, <2>5, <2>6, <2>7 DEF DefenseInv
<1>6. QED
    BY <1>4, <1>5 DEF Fix

LEMMA WorldKeepsDefense ==
    ASSUME DefenseInv, Clock \/ Publish \/ UNCHANGED vars
    PROVE  DefenseInv'
<1>1. UNCHANGED <<config, cmd, opened, at, plan, events, touched, fixed, refused, outcome, served, crashes>>
    BY DEF Clock, Publish, vars, effects, count
<1>2. inWindow' \in BOOLEAN /\ upgradable' \in BOOLEAN
    BY DEF Clock, Publish, vars, world, DefenseInv, TypeOK
<1>3. TypeOK' /\ PathInv'
    BY <1>1, <1>2 DEF DefenseInv, TypeOK, PathInv
<1>4. GateInv' /\ AskedInv' /\ RecordInv' /\ FixInv'
    BY <1>1, SameCommand DEF DefenseInv, GateInv, AskedInv, RecordInv, FixInv
<1>5. QED
    BY <1>3, <1>4 DEF DefenseInv

LEMMA CrashKeepsDefense ==
    ASSUME DefenseInv, Crash
    PROVE  DefenseInv'
<1>1. cmd' = [kind |-> "scan", target |-> "local", apply |-> FALSE]
    BY DEF Crash, NoCommand
<1>2. TypeOK'
  <2>1. cmd' \in Request
      BY <1>1 DEF Request, Command, Target
  <2>2. config' \in Config
      BY DEF Crash, DefenseInv, TypeOK
  <2>3. served' \in 0..MaxCommands /\ crashes' \in 0..MaxCrashes
      BY BoundAssumption DEF Crash, DefenseInv, TypeOK
  <2>4. at' \in Step /\ outcome' \in Outcome /\ refused' \in Level \cup {"none"} /\ events' \subseteq RecordStep
      BY DEF Crash, Step, Outcome
  <2>5. QED
      BY <2>1, <2>2, <2>3, <2>4 DEF Crash, world, DefenseInv, TypeOK
<1>3. PathInv' /\ GateInv' /\ AskedInv' /\ RecordInv' /\ FixInv'
    BY <1>1 DEF Crash, PathInv, GateInv, AskedInv, RecordInv, FixInv
<1>4. QED
    BY <1>2, <1>3 DEF DefenseInv

LEMMA DefenseInvariant == Spec => []DefenseInv
<1>1. ASSUME DefenseInv, [Next]_vars
      PROVE  DefenseInv'
    BY <1>1, DispatchKeepsDefense, GateKeepsDefense, ApproveKeepsDefense, ApprovePocsKeepsDefense,
       RecordKeepsDefense, LookKeepsDefense, ReadBaselineKeepsDefense, ReconcileKeepsDefense,
       PlanKeepsDefense, WindowKeepsDefense, FixKeepsDefense, WorldKeepsDefense, CrashKeepsDefense
    DEF Next, Handler
<1>2. QED
    BY <1>1, DefenseInit, PTL DEF Spec

-----------------------------------------------------------------------------
(* The theorems. *)

\* The types of the variables.
THEOREM TypeCorrect == Spec => []TypeOK
<1>1. DefenseInv => TypeOK
    BY DEF DefenseInv
<1>2. QED
    BY <1>1, DefenseInvariant, PTL

\* No command changes a target unless every gate of the policy was passed by
\* it, for any configuration, and however the world changes meanwhile.
THEOREM RemediationAuthority == Spec => []FixIsAuthorised
<1>1. DefenseInv => FixIsAuthorised
  <2>1. SUFFICES ASSUME DefenseInv, fixed PROVE FixIsAuthorised
      BY DEF FixIsAuthorised
  <2>2. touched /\ Asked /\ config.apt /\ cmd.kind \in {"apply", "drift", "defend"} /\ Passed /\ Reachable
      BY <2>1 DEF DefenseInv, FixInv, GateInv
  <2>3. LevelOf(cmd) = "intrusive"
      BY <2>2 DEF LevelOf, Asked
  <2>4. Rank(MaxLevel) >= 3
      BY <2>2, <2>3 DEF Passed, Rank
  <2>5. MaxLevel \in Level
    <3>1. config.requested \in Level
        BY <2>1 DEF DefenseInv, TypeOK, Config
    <3>2. QED
        BY <3>1 DEF MaxLevel, ParseLevel, Level
  <2>6. MaxLevel = "intrusive"
      BY <2>4, <2>5 DEF Rank, Level
  <2>7. QED
      BY <2>2, <2>6 DEF FixIsAuthorised, Asked, Passed
<1>2. QED
    BY <1>1, DefenseInvariant, PTL

\* Every change of a target is announced in the evidence, and reported there
\* when the command completes.
THEOREM ChangesAreRecorded == Spec => []FixIsOnRecord
<1>1. DefenseInv => FixIsOnRecord
    BY DEF DefenseInv, FixInv, FixIsOnRecord
<1>2. QED
    BY <1>1, DefenseInvariant, PTL

\* After a recorded denial the command changes nothing.
THEOREM DenialsAreFinal == Spec => []DeniedNeverFixes
<1>1. DefenseInv => DeniedNeverFixes
    BY DEF DefenseInv, RecordInv, DeniedNeverFixes
<1>2. QED
    BY <1>1, DefenseInvariant, PTL

\* No command of any kind runs anything on a host it may not reach.
THEOREM ScopeIsKept == Spec => []HostsStayInScope
<1>1. DefenseInv => HostsStayInScope
    BY DEF DefenseInv, GateInv, Passed, HostsStayInScope
<1>2. QED
    BY <1>1, DefenseInvariant, PTL

=============================================================================
