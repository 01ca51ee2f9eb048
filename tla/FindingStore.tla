---------------------------- MODULE FindingStore ----------------------------
(***************************************************************************)
(* The table of findings (src/operations.rs) and the active-defense        *)
(* commands that reconcile it with what the detectors report               *)
(* (src/active_defense/).  A command looks at a host, records what it saw  *)
(* in the Evidence Locker, then for each scope upserts what it found, one  *)
(* statement per finding, and resolves what the scope has and it did not   *)
(* find.  There is no transaction around a pass: between two statements    *)
(* the operator may triage a finding from the CLI, and a failing statement *)
(* or a crash ends the command where it stands.                            *)
(*                                                                         *)
(* The conditions on the hosts come and go by themselves.  Severity,       *)
(* titles, timestamps and occurrence counts are left out: no statement     *)
(* depends on them.                                                        *)
(***************************************************************************)
EXTENDS Integers, Sequences

CONSTANTS
    Issue,         \* what detectors can find: a host, a kind and a title
    Host,          \* the targets
    HostOf,        \* the host of each issue
    ClassOf,       \* the detector that looks for each issue
    Commands,      \* the commands in use, a subset of Command
    Verdicts,      \* the statuses the operator sets
    MaxReports,    \* bound on the number of findings events
    ProbesMayFail  \* may a probe fail, and its findings be missed?

Class   == {"vulnerability", "intrusion"}
Scope   == Class
Command == {"scan:vuln", "scan:intrusion", "verify", "defend:baseline", "defend:drift",
            "defend:run"}
Closed  == {"resolved", "false_positive"}
Status  == {"new", "confirmed", "accepted", "remediation_planned", "remediated"} \cup Closed

ASSUME IssueAssumption   == HostOf \in [Issue -> Host] /\ ClassOf \in [Issue -> Class]
ASSUME CommandAssumption == Commands \subseteq Command
ASSUME VerdictAssumption == Verdicts \subseteq Status
ASSUME BoundAssumption   == MaxReports \in Nat /\ ProbesMayFail \in BOOLEAN

VARIABLES
    present,  \* the issues that exist now
    gone,     \* those absent, or hidden by a failing probe, since the command began
    rows,     \* the table operational_findings, by fingerprint
    reports,  \* what each findings event in the Evidence Locker lists
    step,     \* what the command does next
    cmd,      \* the command at work
    host,     \* its target
    pending,  \* the detectors it still has to run
    found,    \* what its detectors reported
    event,    \* its findings event, 0 when it records none
    scopes,   \* the passes it still has to make
    todo,     \* the findings the current pass still has to upsert
    judged,   \* the issues the operator judged since the command began
    last      \* the last pass made by this command

target  == <<cmd, host>>
scan    == <<pending, found, event, scopes, todo>>
history == <<gone, judged, last>>
vars    == <<present, rows, reports, step, target, scan, history>>

Row    == [status : Status \cup {"none"}, scope : Scope \cup {"none"},
           stamped : BOOLEAN, event : Nat]
NoRow  == [status |-> "none", scope |-> "none", stamped |-> FALSE, event |-> 0]
NoPass == [scope |-> "none", seen |-> {}]
Pass   == [scope : Scope \cup {"none"}, seen : SUBSET Issue]
Step   == {"idle", "detect", "record", "pass"}

TypeOK ==
    /\ present \subseteq Issue /\ gone \subseteq Issue
    /\ rows \in [Issue -> Row]
    /\ reports \in Seq(SUBSET Issue) /\ Len(reports) <= MaxReports
    /\ step \in Step
    /\ cmd \in Command /\ host \in Host
    /\ pending \subseteq Class
    /\ found \subseteq Issue
    /\ event \in 0..MaxReports
    /\ scopes \in Seq(Scope)
    /\ todo \subseteq Issue
    /\ judged \subseteq Issue
    /\ last \in Pass

Init ==
    /\ present \in SUBSET Issue
    /\ gone = {}
    /\ rows = [i \in Issue |-> NoRow]
    /\ reports = <<>>
    /\ step = "idle"
    /\ cmd \in Commands /\ host \in Host
    /\ pending = {} /\ found = {} /\ event = 0 /\ scopes = <<>> /\ todo = {}
    /\ judged = {} /\ last = NoPass

-----------------------------------------------------------------------------
(* The host. *)

\* A service starts or stops, a package is upgraded, a log grows or rotates.
Change(i) ==
    /\ present' = IF i \in present THEN present \ {i} ELSE present \cup {i}
    /\ gone' = IF step = "idle" THEN {} ELSE gone \cup (Issue \ present')
    /\ UNCHANGED <<rows, reports, step, target, scan, judged, last>>

-----------------------------------------------------------------------------
(* The commands. *)

\* The passes of a command, in order ...
PassesOf(c) ==
    CASE c = "scan:vuln"      -> <<"vulnerability">>
      [] c = "scan:intrusion" -> <<"intrusion">>
      [] c = "verify"         -> <<"vulnerability">>
      [] OTHER                -> <<"vulnerability", "intrusion">>

\* ... and the detectors whose findings a pass reconciles: run_verify()
\* returns the findings of both detectors as one list.
LookedFor(c, s) == IF c = "verify" THEN Class ELSE {s}

Detectors(c) == UNION {LookedFor(c, PassesOf(c)[n]) : n \in DOMAIN PassesOf(c)}

\* Baseline and drift pass None as the evidence event.
Records(c) == c \notin {"defend:baseline", "defend:drift"}

Begin(c, h) ==
    /\ step = "idle"
    /\ Records(c) => Len(reports) < MaxReports
    /\ step' = "detect"
    /\ cmd' = c /\ host' = h
    /\ pending' = Detectors(c)
    /\ found' = {} /\ event' = 0 /\ scopes' = PassesOf(c) /\ todo' = {}
    /\ gone' = Issue \ present
    /\ judged' = {} /\ last' = NoPass
    /\ UNCHANGED <<present, rows, reports>>

\* A detector runs its probes on the host.  A probe that is missing, or fails
\* because the host cannot be reached, reports nothing, and so does the
\* detector for what that probe would have shown.
Observable(c) == {i \in present : HostOf[i] = host /\ ClassOf[i] = c}

Detect(c) ==
    /\ step = "detect" /\ c \in pending
    /\ c = "intrusion" => "vulnerability" \notin pending
    /\ \E S \in IF ProbesMayFail THEN SUBSET Observable(c) ELSE {Observable(c)} :
          /\ found' = found \cup S
          /\ gone' = gone \cup (Observable(c) \ S)
    /\ pending' = pending \ {c}
    /\ step' = IF pending' = {} THEN "record" ELSE "detect"
    /\ UNCHANGED <<present, rows, reports, target, event, scopes, todo, judged, last>>

PassFindings(F, c, s) == {i \in F : ClassOf[i] \in LookedFor(c, s)}

\* Mistake: only the findings of the first pass are written into the event.
Record_FirstPass ==
    /\ step = "record"
    /\ IF Records(cmd)
       THEN /\ reports' = Append(reports, {i \in found : ClassOf[i] = Head(scopes)})
            /\ event' = Len(reports')
       ELSE UNCHANGED <<reports, event>>
    /\ todo' = PassFindings(found, cmd, Head(scopes))
    /\ step' = "pass"
    /\ UNCHANGED <<present, rows, target, pending, found, scopes, history>>

\* The findings event is in the locker before the table is touched.
Record ==
    /\ step = "record"
    /\ IF Records(cmd)
       THEN /\ reports' = Append(reports, found)
            /\ event' = Len(reports')
       ELSE UNCHANGED <<reports, event>>
    /\ todo' = PassFindings(found, cmd, Head(scopes))
    /\ step' = "pass"
    /\ UNCHANGED <<present, rows, target, pending, found, scopes, history>>

\* Mistake: a new sighting reopens whatever was closed.
Upserted_Reopens(r, s, ev) ==
    [status |-> IF r.status \in {"none"} \cup Closed THEN "new" ELSE r.status,
     scope |-> s, stamped |-> FALSE, event |-> IF ev # 0 THEN ev ELSE r.event]

\* INSERT ... ON CONFLICT (fingerprint) DO UPDATE: a resolved finding is new
\* again, any other keeps its status; the finding moves into this scope.
Upserted(r, s, ev) ==
    [status  |-> IF r.status \in {"none", "resolved"} THEN "new" ELSE r.status,
     scope   |-> s,
     stamped |-> r.status # "resolved" /\ r.stamped,
     event   |-> IF ev # 0 THEN ev ELSE r.event]

\* A row whose status is set; resolved_at follows the status.
WithStatus(r, v) ==
    [status |-> v, scope |-> r.scope, stamped |-> v \in Closed, event |-> r.event]

Upsert(i) ==
    /\ step = "pass" /\ i \in todo
    /\ rows' = [rows EXCEPT ![i] = Upserted(@, Head(scopes), event)]
    /\ todo' = todo \ {i}
    /\ UNCHANGED <<present, reports, step, target, pending, found, event, scopes, history>>

\* Mistake: nothing is resolved by a pass that found nothing.
Stale_NotWhenEmpty(i, s) ==
    /\ HostOf[i] = host /\ rows[i].scope = s
    /\ rows[i].status \notin Closed \cup {"none"}
    /\ PassFindings(found, cmd, s) # {}
    /\ i \notin PassFindings(found, cmd, s)

\* Mistake: the statement forgets the scope.
Stale_AnyScope(i, s) ==
    /\ HostOf[i] = host
    /\ rows[i].status \notin Closed \cup {"none"}
    /\ i \notin PassFindings(found, cmd, s)

\* The rows the pass resolves.
Stale(i, s) ==
    /\ HostOf[i] = host /\ rows[i].scope = s
    /\ rows[i].status \notin Closed \cup {"none"}
    /\ i \notin PassFindings(found, cmd, s)

\* What a command had in memory is gone when it ends.
End ==
    /\ step' = "idle"
    /\ pending' = {} /\ found' = {} /\ event' = 0 /\ scopes' = <<>> /\ todo' = {}
    /\ gone' = {}

ResolveStale ==
    /\ step = "pass" /\ todo = {}
    /\ LET s == Head(scopes)
       IN  /\ rows' = [i \in Issue |->
                         IF Stale(i, s) THEN WithStatus(rows[i], "resolved") ELSE rows[i]]
           /\ last' = [scope |-> s, seen |-> PassFindings(found, cmd, s)]
    /\ IF Len(scopes) = 1 THEN End
       ELSE /\ scopes' = Tail(scopes)
            /\ todo' = PassFindings(found, cmd, Head(scopes'))
            /\ UNCHANGED <<step, pending, found, event, gone>>
    /\ UNCHANGED <<present, reports, target, judged>>

\* A probe or a statement returns an error, the process dies, or drift finds
\* no baseline and only captures one.  A statement whose client is gone has
\* been executed by then or never is; one that the server still commits later
\* is left out.
Interrupt ==
    /\ step # "idle"
    /\ End
    /\ UNCHANGED <<present, rows, reports, target, judged, last>>

-----------------------------------------------------------------------------
(* The operator. *)

\* set_finding_status(), from the CLI, at any time.
SetStatus(i, v) ==
    /\ rows[i].status # "none"
    /\ rows' = [rows EXCEPT ![i] = WithStatus(@, v)]
    /\ judged' = judged \cup {i}
    /\ UNCHANGED <<present, reports, step, target, scan, gone, last>>

Next ==
    \/ \E i \in Issue : Change(i) \/ Upsert(i)
    \/ \E c \in Commands, h \in Host : Begin(c, h)
    \/ \E c \in Class : Detect(c)
    \/ Record \/ ResolveStale \/ Interrupt
    \/ \E i \in Issue, v \in Verdicts : SetStatus(i, v)

Spec == Init /\ [][Next]_vars

-----------------------------------------------------------------------------
(***************************************************************************)
(* resolved_at is set exactly on the findings that are closed, however the *)
(* operator and the commands take turns on the row.                        *)
(***************************************************************************)
ClosedIffStamped ==
    \A i \in Issue : rows[i].stamped <=> rows[i].status \in Closed

(***************************************************************************)
(* The evidence event a finding names is in the locker and lists that      *)
(* finding, also when the command that wrote it was cut short and when a   *)
(* later pass without an event touched the row.                            *)
(***************************************************************************)
EvidenceBacksFinding ==
    \A i \in Issue : rows[i].event # 0 =>
        rows[i].event \in DOMAIN reports /\ i \in reports[rows[i].event]

(***************************************************************************)
(* A false positive stays one until the operator says otherwise; the other *)
(* statuses of the operator are changed by a command only to resolved.     *)
(***************************************************************************)
TriageSticks ==
    [][\A i \in Issue :
          rows'[i].status # rows[i].status =>
             \/ \E v \in Verdicts : SetStatus(i, v)
             \/ rows[i].status \in {"none", "resolved"} /\ rows'[i].status = "new"
             \/ rows[i].status \notin Closed /\ rows'[i].status = "resolved"]_vars

(***************************************************************************)
(* After a pass the table says what the pass saw: what it found is not     *)
(* resolved, and what its scope still has open it found, except for what   *)
(* the operator has judged meanwhile.                                      *)
(***************************************************************************)
PassIsExact ==
    \A i \in Issue \ judged :
        /\ i \in last.seen => rows[i].status \notin {"none", "resolved"}
        /\ (HostOf[i] = host /\ rows[i].scope = last.scope /\ last.scope # "none"
              /\ rows[i].status \notin Closed) => i \in last.seen

Resolves(i) ==
    ResolveStale /\ rows[i].status # "resolved" /\ rows'[i].status = "resolved"

(***************************************************************************)
(* A pass resolves a finding of its own scope only if the condition was    *)
(* absent at some time while the command ran, or a failing probe hid it:   *)
(* never because another pass, another host or the operator got between    *)
(* the look and the statement.                                             *)
(***************************************************************************)
ResolvesWhatIsGone ==
    [][\A i \in Issue : Resolves(i) /\ rows[i].scope = ClassOf[i] => i \in gone]_vars

(***************************************************************************)
(* The same of every finding, whatever scope a command has put it in.      *)
(***************************************************************************)
NeverResolvesPresent == [][\A i \in Issue : Resolves(i) => i \in gone]_vars

=============================================================================
