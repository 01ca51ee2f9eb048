-------------------------- MODULE Baselines_proofs --------------------------
(***************************************************************************)
(* What a drift report says is so, for any hosts, signatures and detectors *)
(* and for any number of baselines, of which any number is looked at.      *)
(***************************************************************************)
EXTENDS Baselines, TLAPS, WellFoundedInduction

USE SignatureAssumption, LimitAssumption

-----------------------------------------------------------------------------
(* The newest baseline. *)

\* n is the number of the newest baseline of t.
Newest(n, t) ==
    /\ n \in DOMAIN log /\ log[n].target = t
    /\ \A m \in DOMAIN log : log[m].target = t => m <= n

\* A nonempty set of numbers up to n has a greatest one, and that is its Max.
LEMMA MaxIsGreatest ==
    ASSUME NEW n \in Nat, NEW S \in SUBSET (1..n), S # {}
    PROVE  Max(S) \in S /\ \A m \in S : m <= Max(S)
<1>. DEFINE T == {n - m : m \in S}
<1>1. T \in SUBSET Nat /\ T # {}
  OBVIOUS
<1>. HIDE DEF T
<1>2. \A k, m \in Nat : k < m => <<k, m>> \in OpToRel(<, Nat)
  BY DEF OpToRel
<1>3. PICK d \in T : \A k \in T : ~(<<k, d>> \in OpToRel(<, Nat))
  BY <1>1, NatLessThanWellFounded, WFMin
<1>4. d \in Nat /\ \A k \in T : k \in Nat /\ ~(k < d)
  BY <1>1, <1>2, <1>3
<1>5. PICK x \in S : d = n - x
  BY <1>3 DEF T
<1>6. \A m \in S : x >= m
  <2>1. \A m \in S : n - m \in T
    BY DEF T
  <2>. QED  BY <1>4, <1>5, <2>1
<1>7. Max(S) \in S /\ \A m \in S : Max(S) >= m
  BY <1>5, <1>6 DEF Max
<1>. QED  BY <1>7

\* One number at most is the newest.
LEMMA NewestIsOne ==
    ASSUME log \in Seq(Snapshot), NEW n, NEW m, NEW t, Newest(n, t), Newest(m, t)
    PROVE  n = m
<1>1. n \in Nat /\ m \in Nat /\ n <= m /\ m <= n
  BY DEF Newest
<1>. QED  BY <1>1

\* Among the last Limit ones the greatest number is the newest of all.
LEMMA FoundIsNewest ==
    ASSUME log \in Seq(Snapshot), NEW t, BaselinesOf(t) # {}
    PROVE  Newest(Max(BaselinesOf(t)), t)
<1>1. Len(log) \in Nat /\ DOMAIN log = 1..Len(log)
  OBVIOUS
<1>2. BaselinesOf(t) \in SUBSET (1..Len(log))
  BY <1>1 DEF BaselinesOf
<1>. DEFINE n == Max(BaselinesOf(t))
<1>3. n \in BaselinesOf(t) /\ \A m \in BaselinesOf(t) : m <= n
  BY <1>1, <1>2, MaxIsGreatest
<1>4. n \in DOMAIN log /\ n > Len(log) - Limit /\ log[n].target = t /\ n \in Nat
  BY <1>1, <1>3 DEF BaselinesOf
<1>. HIDE DEF n
<1>5. ASSUME NEW m \in DOMAIN log, log[m].target = t PROVE m <= n
  <2>1. CASE m \in BaselinesOf(t)
    BY <1>3, <2>1
  <2>2. CASE m \notin BaselinesOf(t)
    <3>1. ~(m > Len(log) - Limit)
      BY <1>5, <2>2 DEF BaselinesOf
    <3>. QED  BY <1>1, <1>4, <3>1
  <2>. QED  BY <2>1, <2>2
<1>. QED  BY <1>4, <1>5 DEF Newest, n

\* Of all the baselines of t the newest is the Max.
LEMMA NewestIsMax ==
    ASSUME log \in Seq(Snapshot), NEW n, NEW t, Newest(n, t)
    PROVE  n = Max({k \in DOMAIN log : log[k].target = t})
<1>. DEFINE S == {k \in DOMAIN log : log[k].target = t}
<1>1. Len(log) \in Nat /\ S \in SUBSET (1..Len(log)) /\ n \in S
  BY DEF Newest
<1>2. Max(S) \in S /\ \A m \in S : m <= Max(S)
  BY <1>1, MaxIsGreatest
<1>3. \A m \in S : m <= n
  BY DEF Newest
<1>4. n \in Nat /\ Max(S) \in Nat /\ n <= Max(S) /\ Max(S) <= n
  BY <1>1, <1>2, <1>3
<1>. HIDE DEF S
<1>5. n = Max(S)
  BY <1>4
<1>. QED  BY <1>5 DEF S

-----------------------------------------------------------------------------
(* The inductive invariant. *)

\* The steps at which a command has begun to look, and has looked.
Looked  == step = "capture" \/ (cmd = "drift" /\ step \in {"table", "report"})
Looking == step = "collect" \/ Looked

\* There is room for the baseline of a command at work, and no report yet.
CommandInv ==
    /\ step # "idle" => report = NoReport /\ Len(log) < MaxEvents
    /\ step \in {"read", "report"} => cmd = "drift"

\* Drift compares with the newest baseline, and there is none where one is
\* about to be captured.
BaseInv ==
    /\ base # NoBaseline => Newest(base, target)
    /\ cmd = "baseline" \/ step = "capture" => base = NoBaseline
    /\ cmd = "drift" /\ step \in {"table", "report"} => base # NoBaseline

\* A detector that has run has reported a signature of the target, unless it
\* was away or hidden.
LookInv ==
    /\ current \subseteq On(target)
    /\ step = "collect" => Signature \ present \subseteq gone
    /\ Looking => \A s \in On(target) : ClassOf[s] \notin pending => s \in current \cup gone
    /\ Looked => pending = {}

\* A signature that is not in the newest baseline of its host has been away or
\* hidden since.
LogInv ==
    /\ \A n \in DOMAIN log : log[n].signatures \subseteq On(log[n].target)
    /\ \A n \in DOMAIN log, t \in Target :
          Newest(n, t) => On(t) \ log[n].signatures \subseteq since

BaselinesInv == TypeOK /\ CommandInv /\ BaseInv /\ LookInv /\ LogInv /\ ReportIsTrue

\* The invariant holds at the start.
LEMMA BaselinesInit == Init => BaselinesInv
<1>. SUFFICES ASSUME Init PROVE BaselinesInv
  OBVIOUS
<1>1. TypeOK
  BY DEF Init, TypeOK, NoBaseline
<1>2. CommandInv /\ BaseInv /\ LookInv /\ LogInv /\ ReportIsTrue
  BY DEF Init, CommandInv, BaseInv, LookInv, Looked, Looking, LogInv, Newest, NoBaseline,
     ReportIsTrue, NoReport
<1>. QED  BY <1>1, <1>2 DEF BaselinesInv

\* What is read from the log is a baseline of it.
LEMMA ReadType ==
    ASSUME TypeOK, NEW t
    PROVE  BaselinesOf(t) # {} =>
              Max(BaselinesOf(t)) \in 1..Len(log) /\ Newest(Max(BaselinesOf(t)), t)
<1>. SUFFICES ASSUME BaselinesOf(t) # {}
              PROVE  Max(BaselinesOf(t)) \in 1..Len(log) /\ Newest(Max(BaselinesOf(t)), t)
  OBVIOUS
<1>1. log \in Seq(Snapshot)
  BY DEF TypeOK
<1>2. Newest(Max(BaselinesOf(t)), t)
  BY <1>1, FoundIsNewest
<1>. QED  BY <1>1, <1>2 DEF Newest

\* Every step keeps the types: a baseline is recorded only while there is room.
LEMMA BaselinesType == BaselinesInv /\ [Next]_vars => TypeOK'
<1>. SUFFICES ASSUME BaselinesInv, [Next]_vars PROVE TypeOK'
  OBVIOUS
<1>. USE DEF command, look, history
<1>0. TypeOK /\ CommandInv /\ BaseInv
  BY DEF BaselinesInv
<1>1. ASSUME NEW s \in Signature, Change(s) PROVE TypeOK'
  BY <1>0, <1>1 DEF Change, TypeOK
<1>2. ASSUME NEW c \in {"baseline", "drift"}, NEW t \in Target, Begin(c, t) PROVE TypeOK'
  BY <1>0, <1>2 DEF Begin, TypeOK, NoBaseline
<1>3. CASE ReconcileFindings
  BY <1>0, <1>3 DEF ReconcileFindings, StartCollecting, TypeOK
<1>4. CASE ReadBaseline
  <2>1. base' \in 0..Len(log)
    BY <1>0, <1>4, ReadType DEF ReadBaseline, NoBaseline, TypeOK
  <2>. QED  BY <1>0, <1>4, <2>1 DEF ReadBaseline, StartCollecting, TypeOK
<1>5. ASSUME NEW c \in Class, Collect(c) PROVE TypeOK'
  <2>. DEFINE there == {s \in present \cap On(target) : ClassOf[s] = c}
  <2>1. PICK seen \in SUBSET there : current' = current \cup seen /\ gone' = gone \cup (there \ seen)
    BY <1>5 DEF Collect, Shown
  <2>2. current' \subseteq Signature /\ gone' \subseteq Signature
    BY <1>0, <2>1 DEF TypeOK
  <2>. QED  BY <1>0, <1>5, <2>2 DEF Collect, AfterCollecting, TypeOK
<1>6. CASE Capture
  <2>1. /\ [target |-> target, signatures |-> current] \in Snapshot
        /\ log \in Seq(Snapshot) /\ Len(log) < MaxEvents /\ base \in 0..Len(log)
    BY <1>0, <1>6 DEF Capture, CommandInv, Snapshot, TypeOK
  <2>2. log' \in Seq(Snapshot) /\ Len(log') = Len(log) + 1
    BY <1>6, <2>1 DEF Capture
  <2>3. Len(log') <= MaxEvents /\ base \in 0..Len(log')
    BY <2>1, <2>2
  <2>. QED  BY <1>0, <1>6, <2>2, <2>3 DEF Capture, TypeOK
<1>7. CASE RecordReport
  <2>1. base \in 1..MaxEvents
    BY <1>0, <1>7 DEF RecordReport, CommandInv, BaseInv, NoBaseline, TypeOK
  <2>2. Known \subseteq Signature
    <3>1. base \in DOMAIN log /\ base # NoBaseline
      BY <1>0, <2>1 DEF TypeOK, NoBaseline
    <3>2. log[base] \in Snapshot
      BY <1>0, <3>1 DEF TypeOK
    <3>. QED  BY <3>1, <3>2 DEF Known, Snapshot
  <2>3. report' \in Report
    BY <1>0, <1>7, <2>1, <2>2 DEF RecordReport, Report, TypeOK
  <2>. QED  BY <1>0, <1>7, <2>3 DEF RecordReport, TypeOK
<1>8. CASE Stop
  BY <1>0, <1>8 DEF Stop, TypeOK
<1>9. CASE UNCHANGED vars
  BY <1>0, <1>9 DEF vars, TypeOK
<1>. QED
  BY <1>1, <1>2, <1>3, <1>4, <1>5, <1>6, <1>7, <1>8, <1>9 DEF Next

\* Every step keeps CommandInv.
LEMMA CommandStep == BaselinesInv /\ [Next]_vars => CommandInv'
<1>. SUFFICES ASSUME BaselinesInv, [Next]_vars PROVE CommandInv'
  OBVIOUS
<1>. USE DEF command, look, history
<1>0. TypeOK /\ CommandInv /\ BaseInv
  BY DEF BaselinesInv
<1>1. ASSUME NEW s \in Signature, Change(s) PROVE CommandInv'
  BY <1>0, <1>1 DEF Change, CommandInv
<1>2. ASSUME NEW c \in {"baseline", "drift"}, NEW t \in Target, Begin(c, t) PROVE CommandInv'
  BY <1>0, <1>2 DEF Begin, CommandInv
<1>3. CASE ReconcileFindings
  BY <1>0, <1>3 DEF ReconcileFindings, StartCollecting, CommandInv, TypeOK
<1>4. CASE ReadBaseline \/ Stop
  BY <1>0, <1>4 DEF ReadBaseline, StartCollecting, Stop, CommandInv
<1>5. ASSUME NEW c \in Class, Collect(c) PROVE CommandInv'
  BY <1>0, <1>5 DEF Collect, AfterCollecting, CommandInv
<1>6. CASE Capture \/ RecordReport
  BY <1>0, <1>6 DEF Capture, RecordReport, CommandInv
<1>7. CASE UNCHANGED vars
  BY <1>0, <1>7 DEF vars, CommandInv
<1>. QED
  BY <1>1, <1>2, <1>3, <1>4, <1>5, <1>6, <1>7 DEF Next

\* What a drift compares with stays the newest, as nothing is captured meanwhile.
LEMMA BaseStep == BaselinesInv /\ [Next]_vars => BaseInv'
<1>. SUFFICES ASSUME BaselinesInv, [Next]_vars PROVE BaseInv'
  OBVIOUS
<1>. USE DEF command, look, history
<1>0. TypeOK /\ CommandInv /\ BaseInv
  BY DEF BaselinesInv
<1>1. ASSUME NEW s \in Signature, Change(s) PROVE BaseInv'
  BY <1>0, <1>1 DEF Change, BaseInv, Newest
<1>2. ASSUME NEW c \in {"baseline", "drift"}, NEW t \in Target, Begin(c, t) PROVE BaseInv'
  BY <1>0, <1>2 DEF Begin, BaseInv
<1>3. CASE ReconcileFindings
  BY <1>0, <1>3 DEF ReconcileFindings, StartCollecting, BaseInv, Newest
<1>4. CASE ReadBaseline
  <2>1. base' # NoBaseline => Newest(base', target)
    BY <1>0, <1>4, ReadType DEF ReadBaseline
  <2>2. log' = log /\ target' = target /\ cmd' = cmd /\ step' = "collect" /\ cmd = "drift"
    BY <1>0, <1>4 DEF ReadBaseline, StartCollecting, CommandInv
  <2>. QED  BY <2>1, <2>2 DEF BaseInv, Newest
<1>5. ASSUME NEW c \in Class, Collect(c) PROVE BaseInv'
  <2>1. UNCHANGED <<log, cmd, target, base>>
    BY <1>5 DEF Collect
  <2>2. step' = "collect" \/ step' = AfterCollecting
    BY <1>5 DEF Collect
  <2>3. /\ step' = "capture" => base = NoBaseline
        /\ step' = "table" /\ cmd = "drift" => base # NoBaseline
        /\ step' # "report"
    BY <1>0, <2>2 DEF AfterCollecting, BaseInv, TypeOK
  <2>. QED  BY <1>0, <2>1, <2>3 DEF BaseInv, Newest
<1>6. CASE Capture
  BY <1>0, <1>6 DEF Capture, BaseInv
<1>7. CASE RecordReport \/ Stop
  BY <1>0, <1>7 DEF RecordReport, Stop, BaseInv, Newest
<1>8. CASE UNCHANGED vars
  BY <1>0, <1>8 DEF vars, BaseInv, Newest
<1>. QED
  BY <1>1, <1>2, <1>3, <1>4, <1>5, <1>6, <1>7, <1>8 DEF Next

\* A condition a detector does not report has been away or hidden.
LEMMA LookStep == BaselinesInv /\ [Next]_vars => LookInv'
<1>. SUFFICES ASSUME BaselinesInv, [Next]_vars PROVE LookInv'
  OBVIOUS
<1>. USE DEF command, look, history
<1>0. TypeOK /\ CommandInv /\ BaseInv /\ LookInv
  BY DEF BaselinesInv
<1>1. ASSUME NEW s \in Signature, Change(s) PROVE LookInv'
  <2>1. UNCHANGED <<target, cmd, step, pending, current>> /\ gone \subseteq gone'
    BY <1>1 DEF Change
  <2>2. step = "collect" => Signature \ present' \subseteq gone'
    BY <1>1 DEF Change
  <2>. QED  BY <1>0, <2>1, <2>2 DEF LookInv, Looked, Looking, On
<1>2. ASSUME NEW c \in {"baseline", "drift"}, NEW t \in Target, Begin(c, t) PROVE LookInv'
  BY <1>2 DEF Begin, LookInv, Looked, Looking
<1>3. CASE ReconcileFindings
  <2>1. CASE cmd = "baseline"
    <3>1. /\ step' = "collect" /\ pending' = Class /\ gone' = Signature \ present
          /\ UNCHANGED <<target, current, present>>
      BY <1>3, <2>1 DEF ReconcileFindings, StartCollecting
    <3>2. \A s \in On(target) : ClassOf[s] \in Class
      BY DEF On
    <3>. QED  BY <1>0, <3>1, <3>2 DEF LookInv, Looked, Looking, On
  <2>2. CASE cmd # "baseline"
    <3>1. step = "table" /\ step' = "report" /\ cmd = "drift"
      BY <1>0, <1>3, <2>2 DEF ReconcileFindings, TypeOK
    <3>2. UNCHANGED <<target, cmd, pending, current, gone>>
      BY <1>3, <2>2 DEF ReconcileFindings
    <3>. QED  BY <1>0, <3>1, <3>2 DEF LookInv, Looked, Looking, On
  <2>. QED  BY <2>1, <2>2
<1>4. CASE ReadBaseline
  <2>1. /\ step' = "collect" /\ pending' = Class /\ gone' = Signature \ present
        /\ UNCHANGED <<target, current, present>>
    BY <1>4 DEF ReadBaseline, StartCollecting
  <2>2. \A s \in On(target) : ClassOf[s] \in Class
    BY DEF On
  <2>. QED  BY <1>0, <2>1, <2>2 DEF LookInv, Looked, Looking, On
<1>5. ASSUME NEW c \in Class, Collect(c) PROVE LookInv'
  <2>. DEFINE there == {s \in present \cap On(target) : ClassOf[s] = c}
  <2>1. PICK seen \in SUBSET there : current' = current \cup seen /\ gone' = gone \cup (there \ seen)
    BY <1>5 DEF Collect, Shown
  <2>2. /\ step = "collect" /\ pending' = pending \ {c} /\ UNCHANGED <<target, cmd, present>>
        /\ step' = IF pending' = {} THEN AfterCollecting ELSE step
    BY <1>5 DEF Collect
  <2>3. /\ current \subseteq On(target) /\ Signature \ present \subseteq gone
        /\ \A s \in On(target) : ClassOf[s] \notin pending => s \in current \cup gone
    BY <1>0, <2>2 DEF LookInv, Looking
  <2>4. \A s \in On(target) : ClassOf[s] \notin pending' => s \in current' \cup gone'
    <3>1. SUFFICES ASSUME NEW s \in On(target), ClassOf[s] \notin pending \ {c}
                   PROVE  s \in current' \cup gone'
      BY <2>2
    <3>2. s \in Signature
      BY DEF On
    <3>3. CASE ClassOf[s] = c
      BY <2>1, <2>3, <3>2, <3>3
    <3>4. CASE ClassOf[s] # c
      BY <2>1, <2>3, <3>1, <3>4
    <3>. QED  BY <3>3, <3>4
  <2>5. current' \subseteq On(target) /\ gone \subseteq gone'
    BY <2>1, <2>3
  <2>6. step' # "collect" => pending' = {}
    BY <2>2
  <2>. HIDE DEF there
  <2>7. current' \subseteq On(target') /\ (step' = "collect" => Signature \ present' \subseteq gone')
    BY <2>2, <2>3, <2>5 DEF On
  <2>8. \A s \in On(target') : ClassOf[s] \notin pending' => s \in current' \cup gone'
    BY <2>2, <2>4
  <2>9. Looked' => pending' = {}
    BY <2>6 DEF Looked
  <2>. QED  BY <2>7, <2>8, <2>9 DEF LookInv, On
<1>6. CASE Capture \/ RecordReport \/ Stop
  <2>1. UNCHANGED <<target, current>> /\ step' = "idle"
    BY <1>6 DEF Capture, RecordReport, Stop
  <2>. QED  BY <1>0, <2>1 DEF LookInv, Looked, Looking, On
<1>7. CASE UNCHANGED vars
  BY <1>0, <1>7 DEF vars, LookInv, Looked, Looking, On
<1>. QED
  BY <1>1, <1>2, <1>3, <1>4, <1>5, <1>6, <1>7 DEF Next

\* What has been looked for is there, or was away or hidden.
LEMMA SeenOrGone ==
    ASSUME LookInv, Looked
    PROVE  current \subseteq On(target) /\ On(target) \ current \subseteq gone
BY DEF LookInv, Looked, Looking

\* A new baseline begins the account of its host anew and leaves the others alone.
LEMMA LogStep == BaselinesInv /\ [Next]_vars => LogInv'
<1>. SUFFICES ASSUME BaselinesInv, [Next]_vars PROVE LogInv'
  OBVIOUS
<1>. USE DEF command, look, history
<1>0. TypeOK /\ LookInv /\ LogInv
  BY DEF BaselinesInv
<1>1. ASSUME log' = log, since \subseteq since' PROVE LogInv'
  BY <1>0, <1>1 DEF LogInv, Newest
<1>2. ASSUME NEW s \in Signature, Change(s) PROVE LogInv'
  BY <1>1, <1>2 DEF Change
<1>3. CASE Capture
  <2>. DEFINE taken == [target |-> target, signatures |-> current]
  <2>1. /\ log' = Append(log, taken) /\ since' = (since \ On(target)) \cup (gone \cap On(target))
        /\ Looked /\ target' = target
    BY <1>3 DEF Capture, Looked
  <2>2. taken \in Snapshot /\ log \in Seq(Snapshot)
    BY <1>0 DEF TypeOK, Snapshot
  <2>3. taken.target = target /\ taken.signatures = current
    OBVIOUS
  <2>. HIDE DEF taken
  <2>4. /\ Len(log) \in Nat /\ DOMAIN log = 1..Len(log) /\ DOMAIN log' = 1..(Len(log) + 1)
        /\ log'[Len(log) + 1] = taken /\ \A n \in DOMAIN log : log'[n] = log[n]
    BY <2>1, <2>2
  <2>5. \A n \in DOMAIN log' : n \in DOMAIN log \/ n = Len(log) + 1
    BY <2>4
  <2>6. current \subseteq On(target) /\ On(target) \ current \subseteq gone
    BY <1>0, <2>1, SeenOrGone
  <2>7. \A n \in DOMAIN log' : log'[n].signatures \subseteq On(log'[n].target)
    BY <1>0, <2>3, <2>4, <2>5, <2>6 DEF LogInv
  <2>8. ASSUME NEW n \in DOMAIN log', NEW t \in Target, log'[n].target = t,
               \A m \in DOMAIN log' : log'[m].target = t => m <= n
        PROVE  On(t) \ log'[n].signatures \subseteq since'
    <3>1. CASE n = Len(log) + 1
      <4>1. t = target /\ log'[n].signatures = current
        BY <2>3, <2>4, <2>8, <3>1
      <4>. QED  BY <2>1, <2>6, <4>1
    <3>2. CASE n \in DOMAIN log
      <4>1. t # target
        <5>1. ~(Len(log) + 1 <= n) /\ Len(log) + 1 \in DOMAIN log'
          BY <2>4, <3>2
        <5>. QED  BY <2>3, <2>4, <2>8, <5>1
      <4>2. Newest(n, t)
        <5>1. \A m \in DOMAIN log : m \in DOMAIN log'
          BY <2>4
        <5>. QED  BY <2>4, <2>8, <3>2, <5>1 DEF Newest
      <4>3. On(t) \cap On(target) = {}
        BY <4>1 DEF On
      <4>. QED  BY <1>0, <2>1, <2>4, <3>2, <4>2, <4>3 DEF LogInv
    <3>. QED  BY <2>5, <3>1, <3>2
  <2>. QED  BY <2>7, <2>8 DEF LogInv, Newest
<1>4. ASSUME NEW c \in {"baseline", "drift"}, NEW t \in Target, Begin(c, t) PROVE LogInv'
  BY <1>1, <1>4 DEF Begin
<1>5. ASSUME NEW c \in Class, Collect(c) PROVE LogInv'
  BY <1>1, <1>5 DEF Collect
<1>6. CASE ReconcileFindings \/ ReadBaseline \/ RecordReport \/ Stop \/ UNCHANGED vars
  BY <1>1, <1>6 DEF ReconcileFindings, StartCollecting, ReadBaseline, RecordReport, Stop, vars
<1>. QED
  BY <1>2, <1>3, <1>4, <1>5, <1>6 DEF Next

\* The report that is recorded is true.
LEMMA RecordIsTrue ==
    ASSUME BaselinesInv, RecordReport
    PROVE  ReportIsTrue'
<1>. USE DEF look, history, command
<1>0. TypeOK /\ CommandInv /\ BaseInv /\ LookInv /\ LogInv
  BY DEF BaselinesInv
<1>1. cmd = "drift" /\ step = "report" /\ base # NoBaseline /\ Newest(base, target) /\ Looked
  BY <1>0 DEF RecordReport, CommandInv, BaseInv, Looked
<1>2. /\ current \subseteq On(target) /\ On(target) \ current \subseteq gone
  BY <1>0, <1>1, SeenOrGone
<1>. DEFINE known == log[base].signatures
<1>3. known \subseteq On(target) /\ On(target) \ known \subseteq since
  BY <1>0, <1>1 DEF LogInv, Newest, TypeOK
<1>4. Known = known
  BY <1>1 DEF Known
<1>5. /\ report'.base = base /\ report'.added = current \ known /\ report'.resolved = known \ current
      /\ UNCHANGED <<log, target, gone, since>>
  BY <1>4 DEF RecordReport
<1>6. base = Max({n \in DOMAIN log : log[n].target = target})
  BY <1>0, <1>1, NewestIsMax DEF TypeOK
<1>. HIDE DEF known
<1>7. /\ current \ known \subseteq since \ known
      /\ known \ current \subseteq gone \cap known
      /\ On(target) \ (gone \cup known) \subseteq current \ known
  BY <1>2, <1>3
<1>. QED  BY <1>5, <1>6, <1>7 DEF ReportIsTrue, known, On

\* A report stays true until the next command begins.
LEMMA ReportStep == BaselinesInv /\ [Next]_vars => ReportIsTrue'
<1>. SUFFICES ASSUME BaselinesInv, [Next]_vars PROVE ReportIsTrue'
  OBVIOUS
<1>. USE DEF command, look, history
<1>0. TypeOK /\ CommandInv /\ ReportIsTrue
  BY DEF BaselinesInv
<1>1. ASSUME UNCHANGED <<log, target, report>>, since \subseteq since', report.done => gone' = gone
      PROVE  ReportIsTrue'
  BY <1>0, <1>1 DEF ReportIsTrue, On
<1>2. ASSUME report' = NoReport PROVE ReportIsTrue'
  BY <1>2 DEF ReportIsTrue, NoReport
<1>3. step # "idle" => report = NoReport
  BY <1>0 DEF CommandInv
<1>4. ASSUME NEW s \in Signature, Change(s) PROVE ReportIsTrue'
  <2>1. CASE step = "idle"
    BY <1>1, <1>4, <2>1 DEF Change
  <2>2. CASE step # "idle"
    BY <1>2, <1>3, <1>4, <2>2 DEF Change
  <2>. QED  BY <2>1, <2>2
<1>5. ASSUME NEW c \in {"baseline", "drift"}, NEW t \in Target, Begin(c, t) PROVE ReportIsTrue'
  BY <1>2, <1>5 DEF Begin
<1>6. ASSUME NEW c \in Class, Collect(c) PROVE ReportIsTrue'
  BY <1>2, <1>3, <1>6 DEF Collect
<1>7. CASE ReconcileFindings \/ ReadBaseline \/ Capture \/ Stop
  BY <1>2, <1>3, <1>7 DEF ReconcileFindings, ReadBaseline, Capture, Stop
<1>8. CASE RecordReport
  BY <1>8, RecordIsTrue
<1>9. CASE UNCHANGED vars
  BY <1>1, <1>9 DEF vars
<1>. QED
  BY <1>4, <1>5, <1>6, <1>7, <1>8, <1>9 DEF Next

\* The invariant holds in every reachable state.
LEMMA BaselinesInvariant == Spec => []BaselinesInv
<1>1. BaselinesInv /\ [Next]_vars => BaselinesInv'
  BY BaselinesType, CommandStep, BaseStep, LookStep, LogStep, ReportStep DEF BaselinesInv
<1>. QED  BY <1>1, BaselinesInit, PTL DEF Spec

-----------------------------------------------------------------------------
(***************************************************************************)
(* The commands, the log of baselines and the reports are well typed.      *)
(***************************************************************************)
THEOREM BaselinesTypeCorrect == Spec => []TypeOK
<1>1. BaselinesInv => TypeOK
  BY DEF BaselinesInv
<1>. QED  BY <1>1, BaselinesInvariant, PTL

(***************************************************************************)
(* Drift is never told from an older baseline than the newest its target   *)
(* ever had, however far back those of other targets have pushed it, and   *)
(* every difference it reports is one, for any hosts and signatures.       *)
(***************************************************************************)
THEOREM DriftIsReal == Spec => []ReportIsTrue
<1>1. BaselinesInv => ReportIsTrue
  BY DEF BaselinesInv
<1>. QED  BY <1>1, BaselinesInvariant, PTL

=============================================================================
