----------------------------- MODULE Baselines ------------------------------
(***************************************************************************)
(* Baselines and drift (src/active_defense/monitor.rs and the two commands *)
(* of commands.rs that use it).  defend:baseline puts what the detectors   *)
(* report of a target, as a list of signatures, into the Evidence Locker.  *)
(* defend:drift looks for the target's baseline among the last Limit ones  *)
(* of all targets, runs the detectors and reports the difference; when it  *)
(* finds none it takes what is there now for the baseline.                 *)
(*                                                                         *)
(* The agent loop runs one command at a time; the hosts change meanwhile.  *)
(* Both commands run the detectors a second time for the findings table,   *)
(* which is FindingStore.tla's subject and one step here; what drift does  *)
(* with --apply is ActiveDefense.tla's.                                    *)
(***************************************************************************)
EXTENDS Integers, Sequences, FiniteSetsExt

CONSTANTS
    Target,     \* the hosts
    Signature,  \* what detectors can report: kind, severity and title on a host
    HostOf,     \* the host of each signature
    ClassOf,    \* the detector of each signature
    Limit,      \* how many baseline events evaluate_drift() asks for, 100
    MaxEvents   \* bound on the number of baseline events

Class == {"vulnerability", "intrusion"}

ASSUME SignatureAssumption ==
    HostOf \in [Signature -> Target] /\ ClassOf \in [Signature -> Class]
ASSUME LimitAssumption == Limit \in Nat \ {0} /\ MaxEvents \in Nat

NoBaseline == 0  \* in place of the number of a baseline event

VARIABLES
    present,  \* the signatures that would be found now
    log,      \* the baseline events, oldest first
    step,     \* what the command does next
    cmd,      \* the command at work, or the last one
    target,   \* its target
    base,     \* the baseline event it compares with
    pending,  \* the detectors it still has to run
    current,  \* the signatures they reported
    report,   \* the report of the last command, if it was a drift that completed
    gone,     \* what was absent, or hidden by a failing probe, since it began to look
    since     \* the same, since the newest baseline of each target began to look

command == <<cmd, target>>
look    == <<base, pending, current>>
history == <<gone, since>>
vars    == <<present, log, step, command, look, report, history>>

On(t)    == {s \in Signature : HostOf[s] = t}
Snapshot == [target : Target, signatures : SUBSET Signature]
NoReport == [base |-> NoBaseline, added |-> {}, resolved |-> {}, done |-> FALSE]
Report   == [base : 1..MaxEvents, added : SUBSET Signature, resolved : SUBSET Signature,
             done : {TRUE}]

TypeOK ==
    /\ present \subseteq Signature
    /\ log \in Seq(Snapshot) /\ Len(log) <= MaxEvents
    /\ step \in {"idle", "table", "read", "collect", "capture", "report"}
    /\ cmd \in {"baseline", "drift"} /\ target \in Target
    /\ base \in 0..Len(log)
    /\ pending \subseteq Class
    /\ current \subseteq Signature
    /\ report \in Report \cup {NoReport}
    /\ gone \subseteq Signature /\ since \subseteq Signature

Init ==
    /\ present \in SUBSET Signature
    /\ log = <<>>
    /\ step = "idle"
    /\ cmd = "baseline" /\ target \in Target
    /\ base = NoBaseline /\ pending = {} /\ current = {}
    /\ report = NoReport
    /\ gone = {} /\ since = {}

-----------------------------------------------------------------------------
\* A service starts or stops, a package is published, a log grows or rotates.
Change(s) ==
    /\ present' = IF s \in present THEN present \ {s} ELSE present \cup {s}
    /\ gone' = IF step = "idle" THEN gone ELSE gone \cup (Signature \ present')
    /\ since' = since \cup (Signature \ present')
    /\ UNCHANGED <<log, step, command, look, report>>

\* The agent loop hands over a command; drift records that it has started.
Begin(c, t) ==
    /\ step = "idle"
    /\ Len(log) < MaxEvents
    /\ cmd' = c /\ target' = t
    /\ step' = IF c = "baseline" THEN "table" ELSE "read"
    /\ base' = NoBaseline /\ pending' = {} /\ current' = {}
    /\ report' = NoReport
    /\ gone' = {}
    /\ UNCHANGED <<present, log, since>>

\* collect_signatures() is called.
StartCollecting ==
    /\ step' = "collect"
    /\ pending' = Class
    /\ gone' = Signature \ present

\* The detectors run for the findings table, and both scopes are reconciled.
ReconcileFindings ==
    /\ step = "table"
    /\ IF cmd = "baseline" THEN StartCollecting
       ELSE step' = "report" /\ UNCHANGED <<pending, gone>>
    /\ UNCHANGED <<present, log, command, base, current, report, since>>

\* The baselines of t among the last Limit baseline events, which
\* query_by_kind() returns with the newest first.
BaselinesOf(t) == {n \in DOMAIN log : n > Len(log) - Limit /\ log[n].target = t}

\* Mistake: the oldest of them is taken.
ReadBaseline_Oldest ==
    /\ step = "read"
    /\ base' = IF BaselinesOf(target) = {} THEN NoBaseline ELSE Min(BaselinesOf(target))
    /\ StartCollecting
    /\ UNCHANGED <<present, log, command, current, report, since>>

ReadBaseline ==
    /\ step = "read"
    /\ base' = IF BaselinesOf(target) = {} THEN NoBaseline ELSE Max(BaselinesOf(target))
    /\ StartCollecting
    /\ UNCHANGED <<present, log, command, current, report, since>>

\* Without a baseline, drift captures one and is done.
AfterCollecting == IF cmd = "drift" /\ base # NoBaseline THEN "table" ELSE "capture"

\* What the probes may show of what is there.  From the skipped result of a
\* missing program a detector concludes at most that it is missing, which is a
\* condition of its own (ssh_auth_log_unavailable).
Shown(there) == SUBSET there

\* A detector looks at the host, the one for vulnerabilities first.
Collect(c) ==
    /\ step = "collect" /\ c \in pending
    /\ c = "intrusion" => "vulnerability" \notin pending
    /\ LET there == {s \in present \cap On(target) : ClassOf[s] = c}
       IN  \E seen \in Shown(there) :
              /\ current' = current \cup seen
              /\ gone' = gone \cup (there \ seen)
    /\ pending' = pending \ {c}
    /\ step' = IF pending' = {} THEN AfterCollecting ELSE step
    /\ UNCHANGED <<present, log, command, base, report, since>>

\* capture_baseline() records the snapshot; if the completed event after it
\* fails, the snapshot stays.
Capture ==
    /\ step = "capture"
    /\ log' = Append(log, [target |-> target, signatures |-> current])
    /\ since' = (since \ On(target)) \cup (gone \cap On(target))
    /\ step' = "idle"
    /\ UNCHANGED <<present, command, look, report, gone>>

\* The signatures compared with.
Known == IF base = NoBaseline THEN {} ELSE log[base].signatures

\* Drift records its report.  diff_signatures() was called before the second
\* run of the detectors, with what the first one had seen; what is in both is
\* called unchanged.
RecordReport ==
    /\ step = "report"
    /\ report' = [base |-> base, added |-> current \ Known, resolved |-> Known \ current,
                  done |-> TRUE]
    /\ step' = "idle"
    /\ UNCHANGED <<present, log, command, look, history>>

\* A probe, a query or a record fails, or the process dies: the command ends.
Stop ==
    /\ step # "idle"
    /\ step' = "idle"
    /\ UNCHANGED <<present, log, command, look, report, history>>

Next ==
    \/ \E s \in Signature : Change(s)
    \/ \E c \in {"baseline", "drift"}, t \in Target : Begin(c, t)
    \/ ReconcileFindings \/ ReadBaseline
    \/ \E c \in Class : Collect(c)
    \/ Capture \/ RecordReport \/ Stop

Spec == Init /\ [][Next]_vars

-----------------------------------------------------------------------------
(***************************************************************************)
(* A drift report compares with the newest baseline ever captured of its   *)
(* target, and its differences are real: what it calls added was away, or  *)
(* hidden by a failing probe, at some time since that baseline was taken,  *)
(* what it calls resolved was so while the command looked, and what stayed *)
(* there unhidden and is not in the baseline is reported.                  *)
(***************************************************************************)
ReportIsTrue ==
    report.done =>
        LET known == log[report.base].signatures
        IN  /\ report.base = Max({n \in DOMAIN log : log[n].target = target})
            /\ report.added \subseteq since \ known
            /\ report.resolved \subseteq gone \cap known
            /\ On(target) \ (gone \cup known) \subseteq report.added

=============================================================================
