---------------------------- MODULE ActiveDefense ---------------------------
(***************************************************************************)
(* handle_active_defense_command() of src/active_defense/commands.rs: what *)
(* one command checks, asks, records and does, in its order, from the      *)
(* dispatch by the agent loop to the outcome it returns.  Each arm of the  *)
(* match is a path through the steps below (After); each step is one await *)
(* or one contact with the target, and an await may return an error, which *)
(* ends the command there.  A run of probes, each recorded by itself, is   *)
(* one look and one record.                                                *)
(*                                                                         *)
(* The policy is read at start-up and the tokens, switches and allowlists  *)
(* come from the environment of the process, so they are fixed until a     *)
(* restart.  The time of day and the pending upgrades of the target change *)
(* at any moment.  What the findings table does with a report is in        *)
(* FindingStore.tla.                                                       *)
(***************************************************************************)
EXTENDS Integers, Sequences, FiniteSets

CONSTANTS
    Commands,      \* the commands in use, a subset of Command
    Requested,     \* the tool levels an operator may ask for
    PolicyFromEnv, \* is the policy read by load_from_env(), as the daemon does?
    MaxCommands,   \* bound on the number of commands
    MaxCrashes     \* bound on the number of crashes

Command == {"scan", "plan", "apply", "verify", "baseline", "drift", "defend"}
Level   == {"passive", "active", "intrusive"}
Target  == {"local", "inside", "outside"}  \* this host; SSH hosts in and out of scope
Action  == {"remediation:apply", "remediation:auto_apply", "verify:safe_pocs"}
Outcome == {"none", "completed", "failed"}

ASSUME CommandsAssumption == Commands \subseteq Command
ASSUME LevelAssumption    == Requested \subseteq Level /\ Requested # {}
ASSUME PolicyAssumption   == PolicyFromEnv \in BOOLEAN
ASSUME BoundAssumption    == MaxCommands \in Nat /\ MaxCrashes \in Nat

VARIABLES
    config,     \* policy and environment of this process
    inWindow,   \* is it maintenance time?
    upgradable, \* does the target have pending upgrades?
    cmd,        \* the command at work: kind, target and --apply
    at,         \* the step it stands at
    opened,     \* did it find the maintenance window open when it asked?
    plan,       \* does the plan in memory hold an action?
    events,     \* the steps it has recorded in the Evidence Locker
    touched,    \* has it run anything on the target?
    fixed,      \* has it changed the target?
    refused,    \* the level it was refused for, if it was
    outcome,    \* what it returned
    served,     \* the number of commands so far
    crashes     \* the number of crashes so far

world   == <<inWindow, upgradable>>
effects == <<touched, fixed>>
count   == <<served, crashes>>
vars    == <<config, world, cmd, opened, at, plan, events, effects, refused, outcome, count>>

Config == [engaged : BOOLEAN, requested : Level, approved : SUBSET Action,
           ssh : BOOLEAN, auto : BOOLEAN, apt : BOOLEAN]

Step == {"idle", "gate", "approve", "started", "baseline", "look", "report", "reconcile",
         "signatures", "capture", "initialized", "poc", "verified", "pocDenied", "plan", "planned",
         "window", "replan", "fix", "fixed", "post", "denied", "close"}

\* The steps that write an event.  baseline_completed and the *.completed
\* events are all "close".
RecordStep == {"started", "report", "capture", "initialized", "verified", "pocDenied",
               "planned", "fixed", "post", "denied", "close"}

Request == [kind : Command, target : Target, apply : BOOLEAN]

TypeOK ==
    /\ config \in Config
    /\ inWindow \in BOOLEAN /\ upgradable \in BOOLEAN
    /\ cmd \in Request /\ opened \in BOOLEAN
    /\ at \in Step
    /\ plan \in BOOLEAN
    /\ events \subseteq RecordStep
    /\ touched \in BOOLEAN /\ fixed \in BOOLEAN
    /\ refused \in Level \cup {"none"}
    /\ outcome \in Outcome
    /\ served \in 0..MaxCommands
    /\ crashes \in 0..MaxCrashes

Configs == {c \in Config : c.requested \in Requested}

NoCommand == [kind |-> "scan", target |-> "local", apply |-> FALSE]

Init ==
    /\ config \in Configs
    /\ inWindow \in BOOLEAN /\ upgradable \in BOOLEAN
    /\ cmd = NoCommand /\ opened = FALSE /\ at = "idle" /\ plan = FALSE /\ events = {}
    /\ touched = FALSE /\ fixed = FALSE
    /\ refused = "none" /\ outcome = "none"
    /\ served = 0 /\ crashes = 0

-----------------------------------------------------------------------------
(* Policy. *)

\* ToolLevel::parse().
ParseLevel(l) == IF l \in {"passive", "active"} THEN l ELSE "passive"

MaxLevel == IF PolicyFromEnv THEN ParseLevel(config.requested) ELSE config.requested

Rank(l) == CASE l = "passive" -> 1 [] l = "active" -> 2 [] OTHER -> 3

\* The level a command asks for.
LevelOf(c) ==
    IF c.kind = "apply" \/ (c.kind \in {"drift", "defend"} /\ c.apply)
    THEN "intrusive" ELSE "passive"

InScope(t) == t # "outside"

\* The action GhostMCP is asked about before the target is changed.
ActionOf(k) ==
    CASE k = "drift"  -> "remediation:auto_apply"
      [] k = "verify" -> "verify:safe_pocs"
      [] OTHER        -> "remediation:apply"

\* A command can be run on the target: SSH needs its own allowlist.
Reachable == cmd.target = "local" \/ config.ssh

-----------------------------------------------------------------------------
(* The paths of the commands. *)

\* The step after s, when nothing ends the command.
After(s) ==
    LET k == cmd.kind IN
    CASE s = "gate"      -> IF k \in {"apply", "verify"} THEN "approve"
                            ELSE IF k = "baseline" THEN "look" ELSE "started"
      [] s = "approve"   -> CASE k = "drift"  -> "plan"
                              [] k = "defend" -> "replan"
                              [] OTHER        -> "started"
      [] s = "started"   -> CASE k \in {"plan", "apply"} -> "plan"
                              [] k = "drift"             -> "baseline"
                              [] OTHER                   -> "look"
      [] s = "look"      -> IF k \in {"baseline", "drift"} THEN "reconcile" ELSE "report"
      [] s = "report"    -> "reconcile"
      [] s = "reconcile" -> CASE k = "verify"   -> "verified"
                              [] k = "baseline" -> "signatures"
                              [] k = "defend"   -> "poc"
                              [] OTHER          -> "close"
      [] s = "signatures" -> "capture"
      [] s = "capture"   -> IF k = "drift" THEN "initialized" ELSE "close"
      [] s = "verified"  -> IF k = "defend" THEN "plan" ELSE "close"
      [] s = "pocDenied" -> "plan"
      [] s = "plan"      -> CASE k = "plan" -> "close" [] k = "defend" -> "planned" [] OTHER -> "fix"
      [] s = "planned"   -> IF cmd.apply THEN "approve" ELSE "close"
      [] s = "replan"    -> "fix"
      [] s = "fix"       -> "fixed"
      [] s = "fixed"     -> IF k = "defend" THEN "post" ELSE "idle"
      [] s = "post"      -> "close"
      [] s = "denied"    -> IF k = "defend" THEN "close" ELSE "idle"
      [] OTHER           -> "idle"

\* The command goes on to step s, or returns Ok(true) when there is none.
Continue(s) ==
    /\ at' = s
    /\ outcome' = IF s = "idle" THEN "completed" ELSE outcome
    /\ UNCHANGED refused

\* An error of any step is passed on to the agent loop.
Fail ==
    /\ at' = "idle"
    /\ outcome' = "failed"
    /\ UNCHANGED refused

\* The agent loop hands over a command; it forgets the one before.
Dispatch(k, t, a) ==
    /\ at = "idle" /\ served < MaxCommands
    /\ served' = served + 1
    /\ cmd' = [kind |-> k, target |-> t, apply |-> a] /\ opened' = FALSE
    /\ at' = "gate"
    /\ plan' = FALSE /\ events' = {} /\ refused' = "none" /\ outcome' = "none"
    /\ touched' = FALSE /\ fixed' = FALSE
    /\ UNCHANGED <<config, world, crashes>>

\* Mistake: the target's scope is validated only for commands that change it.
Gate_ScopeForApply ==
    /\ at = "gate"
    /\ IF ~config.engaged \/ (~InScope(cmd.target) /\ cmd.apply) THEN Fail
       ELSE IF Rank(LevelOf(cmd)) > Rank(MaxLevel)
       THEN at' = "idle" /\ outcome' = "failed" /\ refused' = LevelOf(cmd)
       ELSE Continue(After("gate"))
    /\ UNCHANGED <<config, world, cmd, opened, plan, events, effects, count>>

\* Mistake: --apply does not raise the level of drift and defend.
Gate_ForgetsApply ==
    /\ at = "gate"
    /\ IF ~config.engaged \/ ~InScope(cmd.target) THEN Fail
       ELSE IF cmd.kind = "apply" /\ Rank("intrusive") > Rank(MaxLevel)
       THEN at' = "idle" /\ outcome' = "failed" /\ refused' = "intrusive"
       ELSE Continue(After("gate"))
    /\ UNCHANGED <<config, world, cmd, opened, plan, events, effects, count>>

\* Engagement, scope and tool level, before anything else.
Gate ==
    /\ at = "gate"
    /\ IF ~config.engaged \/ ~InScope(cmd.target) THEN Fail
       ELSE IF Rank(LevelOf(cmd)) > Rank(MaxLevel)
       THEN at' = "idle" /\ outcome' = "failed" /\ refused' = LevelOf(cmd)
       ELSE Continue(After("gate"))
    /\ UNCHANGED <<config, world, cmd, opened, plan, events, effects, count>>

\* authorize_action(): an error counts as a denial.
Approve ==
    /\ at = "approve"
    /\ \/ ActionOf(cmd.kind) \in config.approved /\ Continue(After("approve"))
       \/ ActionOf(cmd.kind) \notin config.approved /\ Continue("denied")
    /\ UNCHANGED <<config, world, cmd, opened, plan, events, effects, count>>

\* defend:run asks before its PoCs, and only skips them when denied.
ApprovePocs ==
    /\ at = "poc"
    /\ IF "verify:safe_pocs" \in config.approved
       THEN IF Reachable THEN Continue("verified") ELSE Fail
       ELSE Continue("pocDenied")
    /\ UNCHANGED <<config, world, cmd, opened, plan, events, effects, count>>

\* Mistake: an event that cannot be recorded is skipped.
Record_Skips ==
    /\ at \in RecordStep
    /\ events' \in {events, events \cup {at}}
    /\ Continue(IF at = "close" /\ cmd.kind = "drift" /\ cmd.apply THEN "window" ELSE After(at))
    /\ UNCHANGED <<config, world, cmd, opened, plan, effects, count>>

\* evidence.record(...).await?.  drift.completed comes before the automatic
\* remediation, which follows when the report has something added.
Record ==
    /\ at \in RecordStep
    /\ \/ /\ events' = events \cup {at}
          /\ \/ Continue(After(at))
             \/ at = "close" /\ cmd.kind = "drift" /\ cmd.apply /\ Continue("window")
       \/ Fail /\ UNCHANGED events
    /\ UNCHANGED <<config, world, cmd, opened, plan, effects, count>>

\* Probes, detectors and the signatures of a baseline: reads on the target.  A
\* program that cannot be run there counts as one that found nothing.
Look ==
    /\ at \in {"look", "signatures"}
    /\ IF Reachable
       THEN touched' = TRUE /\ Continue(After(at))
       ELSE Fail /\ UNCHANGED touched
    /\ UNCHANGED <<config, world, cmd, opened, plan, events, fixed, count>>

\* evaluate_drift(): is there a baseline of this target?  If there is, the
\* target is looked at as well.
ReadBaseline ==
    /\ at = "baseline"
    /\ \/ Continue("signatures")
       \/ Continue("look")
       \/ Fail
    /\ UNCHANGED <<config, world, cmd, opened, plan, events, effects, count>>

Reconcile ==
    /\ at = "reconcile"
    /\ Continue(After("reconcile")) \/ Fail
    /\ UNCHANGED <<config, world, cmd, opened, plan, events, effects, count>>

\* plan_remediation(): one action when upgrades are pending.
Plan ==
    /\ at \in {"plan", "replan"}
    /\ IF Reachable
       THEN plan' = upgradable /\ touched' = TRUE /\ Continue(After(at))
       ELSE Fail /\ UNCHANGED <<plan, touched>>
    /\ UNCHANGED <<config, world, cmd, opened, events, fixed, count>>

\* Mistake: a window that is not configured or not open is no obstacle.
Window_IgnoresTime ==
    /\ at = "window"
    /\ opened' = inWindow
    /\ Continue(IF config.auto THEN "approve" ELSE "denied")
    /\ UNCHANGED <<config, world, cmd, plan, events, effects, count>>

\* auto_remediation_allowed_now(): asked once, before the approval and the plan.
Window ==
    /\ at = "window"
    /\ opened' = inWindow
    /\ Continue(IF config.auto /\ inWindow THEN "approve" ELSE "denied")
    /\ UNCHANGED <<config, world, cmd, plan, events, effects, count>>

\* The actions of the plan: those the allowlist has are applied, the others
\* are recorded as denied.
Fix ==
    /\ at = "fix"
    /\ \/ /\ ~plan
          /\ Continue("fixed")
          /\ UNCHANGED <<fixed, events>>
       \/ /\ plan /\ config.apt
          /\ fixed' = TRUE
          /\ Continue("fixed")
          /\ UNCHANGED events
       \/ /\ plan /\ ~config.apt
          /\ \/ events' = events \cup {"denied"} /\ Continue("fixed")
             \/ Fail /\ UNCHANGED events
          /\ UNCHANGED fixed
    /\ UNCHANGED <<config, world, cmd, opened, plan, touched, count>>

\* Time passes, and packages are published and upgraded.
Clock ==
    /\ inWindow' = ~inWindow
    /\ UNCHANGED <<config, upgradable, cmd, opened, at, plan, events, effects, refused, outcome, count>>

Publish ==
    /\ upgradable' = ~upgradable
    /\ UNCHANGED <<config, inWindow, cmd, opened, at, plan, events, effects, refused, outcome, count>>

\* The daemon dies with the command and is started again: nothing of the
\* command is left, and another environment is another initial state.
Crash ==
    /\ crashes < MaxCrashes
    /\ crashes' = crashes + 1
    /\ cmd' = NoCommand /\ opened' = FALSE /\ at' = "idle" /\ plan' = FALSE /\ events' = {}
    /\ touched' = FALSE /\ fixed' = FALSE
    /\ refused' = "none" /\ outcome' = "none"
    /\ UNCHANGED <<config, world, served>>

Handler ==
    \/ Gate \/ Approve \/ ApprovePocs \/ Record \/ Look \/ ReadBaseline \/ Reconcile
    \/ Plan \/ Window \/ Fix

Next ==
    \/ \E k \in Commands, t \in Target, a \in BOOLEAN : Dispatch(k, t, a)
    \/ Handler
    \/ Clock \/ Publish \/ Crash

Spec == Init /\ [][Next]_vars

-----------------------------------------------------------------------------
(***************************************************************************)
(* A target is changed only when every gate of SECURITY_MODEL.md's         *)
(* "Remediation authority" was passed by this very command: engagement,    *)
(* scope, an intrusive tool level, GhostMCP's approval of the right action *)
(* and the action allowlist; by drift and defend only with --apply, and by *)
(* drift only when automatic remediation is switched on and the command    *)
(* found the maintenance window open.  It asks once, before the approval   *)
(* and the plan: that the window is open still when the target is changed, *)
(* as the document has it, is not kept by the code and not said here.      *)
(***************************************************************************)
FixIsAuthorised ==
    fixed =>
        /\ config.engaged /\ InScope(cmd.target) /\ Reachable
        /\ MaxLevel = "intrusive"
        /\ ActionOf(cmd.kind) \in config.approved
        /\ config.apt
        /\ cmd.kind \in {"apply", "drift", "defend"}
        /\ cmd.kind # "apply" => cmd.apply
        /\ cmd.kind = "drift" => config.auto /\ opened

(***************************************************************************)
(* No change of a target is unannounced or goes unreported: the command's  *)
(* started event is in the locker before it, and the command completes     *)
(* only with an event that says what was applied.                          *)
(***************************************************************************)
FixIsOnRecord ==
    fixed =>
        /\ "started" \in events
        /\ outcome = "completed" => "fixed" \in events

(***************************************************************************)
(* A denial is final: once a command has recorded one it has not changed   *)
(* the target, and never will.                                             *)
(***************************************************************************)
DeniedNeverFixes == "denied" \in events => ~fixed

(***************************************************************************)
(* Nothing is run on a host without an engagement, outside the scope or    *)
(* off the SSH allowlist, whatever the command.                            *)
(***************************************************************************)
HostsStayInScope == touched => config.engaged /\ InScope(cmd.target) /\ Reachable

(***************************************************************************)
(* A command is refused for its tool level only when the operator asked    *)
(* for a lower one.                                                        *)
(***************************************************************************)
RefusalsMatchRequest ==
    refused # "none" => Rank(refused) > Rank(config.requested)

=============================================================================
