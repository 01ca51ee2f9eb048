------------------------ MODULE FindingStore_proofs -------------------------
(***************************************************************************)
(* Proofs about FindingStore.tla.  The inductive invariant TableInv says   *)
(* how what a running command has in memory relates to the table and to    *)
(* the Evidence Locker; the properties follow from it step by step.        *)
(***************************************************************************)
EXTENDS FindingStore, SequenceTheorems, TLAPS

\* What a running command has in memory.
CommandInv ==
    /\ step # "idle" => scopes # <<>>
    /\ step \in {"detect", "record"} => event = 0 /\ (Records(cmd) => Len(reports) < MaxReports)
    /\ step = "idle" => event = 0
    /\ todo \subseteq found
    /\ event # 0 => event \in 1..Len(reports) /\ found = reports[event]

TableInv ==
    /\ TypeOK
    /\ CommandInv
    /\ ClosedIffStamped
    /\ EvidenceBacksFinding

LEMMA PassesType ==
    ASSUME NEW c
    PROVE  PassesOf(c) \in Seq(Scope) /\ PassesOf(c) # <<>>
<1>1. PassesOf(c) \in {<<"vulnerability">>, <<"intrusion">>, <<"vulnerability", "intrusion">>}
  BY DEF PassesOf
<1>2. "vulnerability" \in Scope /\ "intrusion" \in Scope
  BY DEF Scope, Class
<1>3. \A x, y \in Scope : <<x>> \in Seq(Scope) /\ <<x, y>> \in Seq(Scope) /\ <<x>> # <<>> /\ <<x, y>> # <<>>
  OBVIOUS
<1>. QED  BY <1>1, <1>2, <1>3

LEMMA LongTail ==
    ASSUME NEW S, NEW q \in Seq(S), q # <<>>, Len(q) # 1
    PROVE  Tail(q) # <<>>
<1>1. Len(q) \in Nat /\ Len(q) > 1 /\ Len(Tail(q)) = Len(q) - 1
  BY EmptySeq
<1>2. Len(<<>>) = 0
  BY EmptySeq
<1>. QED  BY <1>1, <1>2

LEMMA DetectorsType ==
    ASSUME NEW c
    PROVE  Detectors(c) \subseteq Class
BY DEF Detectors, PassesOf, LookedFor, Class

LEMMA UpsertedType ==
    ASSUME NEW r \in Row, NEW s \in Scope, NEW ev \in Nat
    PROVE  Upserted(r, s, ev) \in Row
BY DEF Upserted, Row, Status, Closed

LEMMA WithStatusType ==
    ASSUME NEW r \in Row, NEW v \in Status
    PROVE  WithStatus(r, v) \in Row
BY DEF WithStatus, Row

LEMMA StampFollows ==
    ASSUME NEW r, NEW s, NEW ev, NEW v, r.stamped \in BOOLEAN
    PROVE  /\ WithStatus(r, v).stamped = (v \in Closed)
           /\ Upserted(r, s, ev).stamped = (r.status # "resolved" /\ r.stamped)
<1>1. WithStatus(r, v).stamped = (v \in Closed)
  BY Zenon DEF WithStatus
<1>2. Upserted(r, s, ev).stamped = (r.status # "resolved" /\ r.stamped)
  BY Zenon DEF Upserted
<1>. QED  BY <1>1, <1>2

LEMMA TableInit == Init => TableInv
<1>. SUFFICES ASSUME Init PROVE TableInv
  OBVIOUS
<1>. USE CommandAssumption, BoundAssumption DEF Init
<1>1. TypeOK
  BY DEF TypeOK, NoRow, Row, NoPass, Pass, Step
<1>2. CommandInv
  BY DEF CommandInv
<1>3. ClosedIffStamped
  BY DEF ClosedIffStamped, NoRow, Closed
<1>4. EvidenceBacksFinding
  BY DEF EvidenceBacksFinding, NoRow
<1>. QED  BY <1>1, <1>2, <1>3, <1>4 DEF TableInv

LEMMA TypeStep ==
    ASSUME TableInv, [Next]_vars
    PROVE  TypeOK'
<1>. USE IssueAssumption, CommandAssumption, BoundAssumption, VerdictAssumption
     DEF TypeOK, CommandInv
<1>. HIDE DEF CommandInv
<1>0. TypeOK /\ CommandInv
  BY DEF TableInv
<1>1. CASE \E i \in Issue : Change(i)
  BY <1>0, <1>1 DEF Change, target, scan
<1>2. ASSUME NEW i \in Issue, Upsert(i) PROVE TypeOK'
  <2>1. Head(scopes) \in Scope /\ event \in Nat /\ rows[i] \in Row
    BY <1>0, <1>2 DEF Upsert, CommandInv
  <2>2. rows' \in [Issue -> Row]
    BY <1>0, <1>2, <2>1, UpsertedType DEF Upsert
  <2>. QED  BY <1>0, <1>2, <2>2 DEF Upsert, target, history
<1>3. ASSUME NEW c \in Commands, NEW h \in Host, Begin(c, h) PROVE TypeOK'
  BY <1>0, <1>3, PassesType, DetectorsType DEF Begin, Step, NoPass, Pass
<1>4. ASSUME NEW c \in Class, Detect(c) PROVE TypeOK'
  <2>1. found' \subseteq Issue /\ gone' \subseteq Issue
    BY <1>0, <1>4 DEF Detect, Observable
  <2>. QED  BY <1>0, <1>4, <2>1 DEF Detect, target, Step
<1>5. CASE Record
  <2>1. todo' \subseteq Issue
    BY <1>0, <1>5 DEF Record, PassFindings
  <2>2. CASE Records(cmd)
    <3>1. Len(reports) < MaxReports /\ reports' = Append(reports, found) /\ event' = Len(reports')
      BY <1>0, <1>5, <2>2 DEF Record, CommandInv
    <3>2. reports' \in Seq(SUBSET Issue) /\ Len(reports') = Len(reports) + 1
      BY <1>0, <3>1
    <3>3. Len(reports') <= MaxReports /\ event' \in 0..MaxReports
      BY <1>0, <3>1, <3>2
    <3>. QED  BY <1>0, <1>5, <2>1, <3>2, <3>3 DEF Record, target, history, Step
  <2>3. CASE ~Records(cmd)
    BY <1>0, <1>5, <2>1, <2>3 DEF Record, target, history, Step
  <2>. QED  BY <2>2, <2>3
<1>6. CASE ResolveStale
  <2>1. scopes # <<>> /\ Head(scopes) \in Scope /\ Tail(scopes) \in Seq(Scope)
    <3>1. step = "pass"
      BY <1>6 DEF ResolveStale
    <3>2. scopes # <<>> /\ scopes \in Seq(Scope)
      BY <1>0, <3>1 DEF CommandInv
    <3>. QED  BY <3>2
  <2>2. rows' \in [Issue -> Row]
    BY <1>0, <1>6, WithStatusType DEF ResolveStale, Status, Closed
  <2>3. last' \in Pass
    BY <1>0, <1>6, <2>1 DEF ResolveStale, Pass, PassFindings
  <2>4. CASE Len(scopes) = 1
    <3>1. /\ step' = "idle" /\ pending' = {} /\ found' = {} /\ event' = 0
          /\ scopes' = <<>> /\ todo' = {} /\ gone' = {}
          /\ UNCHANGED <<present, reports, cmd, host, judged>>
      BY <1>6, <2>4 DEF ResolveStale, End, target
    <3>. QED  BY <1>0, <2>2, <2>3, <3>1 DEF Step
  <2>5. CASE Len(scopes) # 1
    <3>1. todo' \subseteq Issue
      BY <1>0, <1>6, <2>5 DEF ResolveStale, PassFindings
    <3>. QED  BY <1>0, <1>6, <2>1, <2>2, <2>3, <2>5, <3>1 DEF ResolveStale, target
  <2>. QED  BY <2>4, <2>5
<1>7. CASE Interrupt
  BY <1>0, <1>7 DEF Interrupt, End, target, Step
<1>8. ASSUME NEW i \in Issue, NEW v \in Verdicts, SetStatus(i, v) PROVE TypeOK'
  <2>1. rows' \in [Issue -> Row]
    BY <1>0, <1>8, WithStatusType DEF SetStatus
  <2>. QED  BY <1>0, <1>8, <2>1 DEF SetStatus, target, scan
<1>9. CASE UNCHANGED vars
  BY <1>0, <1>9 DEF vars, target, scan, history
<1>. QED  BY <1>1, <1>2, <1>3, <1>4, <1>5, <1>6, <1>7, <1>8, <1>9 DEF Next
LEMMA CommandStep ==
    ASSUME TableInv, [Next]_vars
    PROVE  CommandInv'
<1>0. TypeOK /\ CommandInv
  BY DEF TableInv
<1>1. CASE UNCHANGED <<reports, step, cmd, found, event, scopes, todo>>
  BY <1>0, <1>1 DEF CommandInv, Records
<1>2. ASSUME NEW i \in Issue, Upsert(i) PROVE CommandInv'
  BY <1>0, <1>2 DEF Upsert, CommandInv, Records, target
<1>3. ASSUME NEW c \in Commands, NEW h \in Host, Begin(c, h) PROVE CommandInv'
  <2>1. Records(c) => Len(reports) < MaxReports
    BY <1>3 DEF Begin
  <2>. QED  BY <1>0, <1>3, <2>1, PassesType DEF Begin, CommandInv, Records
<1>4. ASSUME NEW c \in Class, Detect(c) PROVE CommandInv'
  <2>1. found \subseteq found' /\ step = "detect" /\ step' \in {"record", "detect"}
    BY <1>4 DEF Detect
  <2>. QED  BY <1>0, <1>4, <2>1 DEF Detect, CommandInv, Records, target
<1>5. CASE Record
  <2>1. todo' \subseteq found' /\ scopes' # <<>> /\ step' = "pass" /\ found' = found
    BY <1>0, <1>5 DEF Record, PassFindings, CommandInv
  <2>2. event' # 0 => event' \in 1..Len(reports') /\ found = reports'[event']
    <3>1. CASE Records(cmd)
      <4>1. reports' = Append(reports, found) /\ event' = Len(reports')
        BY <1>5, <3>1 DEF Record
      <4>2. found \in SUBSET Issue /\ reports \in Seq(SUBSET Issue)
        BY <1>0 DEF TypeOK
      <4>. QED  BY <4>1, <4>2
    <3>2. CASE ~Records(cmd)
      BY <1>0, <1>5, <3>2 DEF Record, CommandInv
    <3>. QED  BY <3>1, <3>2
  <2>. QED  BY <2>1, <2>2 DEF CommandInv
<1>6. CASE ResolveStale
  <2>1. CASE Len(scopes) = 1
    BY <1>6, <2>1 DEF ResolveStale, End, CommandInv
  <2>2. CASE Len(scopes) # 1
    <3>1. /\ todo' = PassFindings(found, cmd, Head(scopes')) /\ scopes' = Tail(scopes)
          /\ step' = "pass" /\ UNCHANGED <<reports, found, event>>
      BY <1>6, <2>2 DEF ResolveStale
    <3>2. Tail(scopes) # <<>>
      <4>1. scopes \in Seq(Scope) /\ scopes # <<>>
        BY <1>0, <1>6 DEF ResolveStale, CommandInv, TypeOK
      <4>. QED  BY <2>2, <4>1, LongTail
    <3>. QED  BY <1>0, <3>1, <3>2 DEF CommandInv, PassFindings
  <2>. QED  BY <2>1, <2>2
<1>7. CASE Interrupt
  BY <1>7 DEF Interrupt, End, CommandInv
<1>8. ASSUME NEW i \in Issue PROVE Change(i) \/ (\E v \in Verdicts : SetStatus(i, v)) => CommandInv'
  BY <1>1 DEF Change, SetStatus, scan, target
<1>. QED  BY <1>1, <1>2, <1>3, <1>4, <1>5, <1>6, <1>7, <1>8 DEF Next, vars, target, scan

\* Only three kinds of step change a row, and in these ways.
LEMMA RowSteps ==
    ASSUME TypeOK, [Next]_vars, NEW i \in Issue, rows'[i] # rows[i]
    PROVE  \/ Upsert(i) /\ rows'[i] = Upserted(rows[i], Head(scopes), event)
           \/ /\ ResolveStale /\ Stale(i, Head(scopes))
              /\ rows'[i] = WithStatus(rows[i], "resolved")
           \/ \E v \in Verdicts : SetStatus(i, v) /\ rows'[i] = WithStatus(rows[i], v)
<1>. USE DEF TypeOK
<1>1. \/ \E j \in Issue : Upsert(j)
      \/ ResolveStale
      \/ \E j \in Issue, v \in Verdicts : SetStatus(j, v)
  BY DEF Next, vars, target, scan, history, Change, Begin, Detect, Record, Interrupt
<1>2. ASSUME NEW j \in Issue, Upsert(j) PROVE i = j /\ rows'[i] = Upserted(rows[i], Head(scopes), event)
  BY <1>2 DEF Upsert
<1>3. CASE ResolveStale
  BY <1>3 DEF ResolveStale
<1>4. ASSUME NEW j \in Issue, NEW v \in Verdicts, SetStatus(j, v)
      PROVE  i = j /\ rows'[i] = WithStatus(rows[i], v)
  BY <1>4 DEF SetStatus
<1>. QED  BY <1>1, <1>2, <1>3, <1>4

LEMMA StampStep ==
    ASSUME TableInv, [Next]_vars
    PROVE  ClosedIffStamped'
<1>. SUFFICES ASSUME NEW i \in Issue, rows'[i] # rows[i]
              PROVE  rows'[i].stamped <=> rows'[i].status \in Closed
  BY DEF TableInv, ClosedIffStamped
<1>1. rows[i].stamped <=> rows[i].status \in Closed
  BY DEF TableInv, ClosedIffStamped
<1>2. rows[i].stamped \in BOOLEAN
  BY DEF TableInv, TypeOK, Row
<1>3. CASE rows'[i] = Upserted(rows[i], Head(scopes), event)
  <2>1. rows'[i].status = IF rows[i].status \in {"none", "resolved"} THEN "new" ELSE rows[i].status
    BY <1>3 DEF Upserted
  <2>2. rows'[i].stamped = (rows[i].status # "resolved" /\ rows[i].stamped)
    BY <1>2, <1>3, StampFollows
  <2>. QED  BY <1>1, <2>1, <2>2 DEF Closed
<1>4. ASSUME NEW v, rows'[i] = WithStatus(rows[i], v) PROVE rows'[i].stamped <=> rows'[i].status \in Closed
  <2>1. rows'[i].stamped = (v \in Closed)
    BY <1>2, <1>4, StampFollows
  <2>2. rows'[i].status = v
    BY <1>4 DEF WithStatus
  <2>. QED  BY <2>1, <2>2
<1>. QED  BY <1>3, <1>4, RowSteps DEF TableInv

LEMMA EvidenceStep ==
    ASSUME TableInv, [Next]_vars
    PROVE  EvidenceBacksFinding'
<1>0. TypeOK /\ CommandInv /\ EvidenceBacksFinding
  BY DEF TableInv
<1>1. \A n \in 1..Len(reports) : n \in 1..Len(reports') /\ reports'[n] = reports[n]
  <2>1. reports' = reports \/ reports' = Append(reports, found)
    BY DEF Next, vars, target, scan, history, Change, Upsert, Begin, Detect, Record, ResolveStale,
       Interrupt, SetStatus
  <2>2. found \in SUBSET Issue /\ reports \in Seq(SUBSET Issue)
    BY <1>0 DEF TypeOK
  <2>. QED  BY <2>1, <2>2
<1>2. DOMAIN reports = 1..Len(reports) /\ DOMAIN reports' = 1..Len(reports')
  BY <1>0, TypeStep DEF TypeOK
<1>3. ASSUME NEW i \in Issue, rows'[i].event # 0
      PROVE  rows'[i].event \in 1..Len(reports) /\ i \in reports[rows'[i].event]
  <2>1. CASE rows'[i].event = rows[i].event
    BY <1>0, <1>2, <1>3, <2>1 DEF EvidenceBacksFinding
  <2>2. CASE rows'[i].event # rows[i].event
    <3>1. Upsert(i) /\ rows'[i] = Upserted(rows[i], Head(scopes), event)
      <4>1. \A v : WithStatus(rows[i], v).event = rows[i].event
        BY DEF WithStatus
      <4>. QED  BY <1>0, <2>2, <4>1, RowSteps
    <3>2. event # 0 /\ rows'[i].event = event
      BY <2>2, <3>1 DEF Upserted
    <3>3. i \in found
      BY <1>0, <3>1 DEF Upsert, CommandInv
    <3>. QED  BY <1>0, <3>2, <3>3 DEF CommandInv
  <2>. QED  BY <2>1, <2>2
<1>. QED  BY <1>1, <1>2, <1>3 DEF EvidenceBacksFinding

LEMMA TableInvariant == Spec => []TableInv
<1>1. TableInv /\ [Next]_vars => TableInv'
  BY TypeStep, CommandStep, StampStep, EvidenceStep DEF TableInv
<1>. QED  BY <1>1, TableInit, PTL DEF Spec
-----------------------------------------------------------------------------
(* What a pass has done so far, and what the last one left behind. *)

\* The pass at work has upserted what it no longer has to do.
ProgressInv ==
    step = "pass" =>
        /\ todo \subseteq PassFindings(found, cmd, Head(scopes))
        /\ \A i \in PassFindings(found, cmd, Head(scopes)) \ (todo \cup judged) :
              rows[i].status \notin {"none", "resolved"}

\* A second pass is the intrusion pass after the vulnerability pass.
LastInv ==
    /\ last.scope = "none" => last.seen = {}
    /\ step \in {"detect", "record"} => last.scope = "none" /\ scopes = PassesOf(cmd)
    /\ step = "pass" /\ last.scope = "none" => scopes = PassesOf(cmd)
    /\ step = "pass" /\ last.scope # "none" =>
          /\ last.scope = "vulnerability" /\ scopes = <<"intrusion">> /\ cmd # "verify"
          /\ \A i \in last.seen : ClassOf[i] = "vulnerability"

\* A row that does not exist has no scope.
EmptyInv == \A i \in Issue : rows[i].status = "none" => rows[i].scope = "none"

ExactInv == TableInv /\ EmptyInv /\ ProgressInv /\ LastInv /\ PassIsExact

LEMMA ExactInit == Init => ExactInv
BY TableInit DEF Init, ExactInv, EmptyInv, ProgressInv, LastInv, PassIsExact, NoPass, NoRow

LEMMA WithStatusFields ==
    ASSUME NEW r, NEW v
    PROVE  WithStatus(r, v).status = v /\ WithStatus(r, v).scope = r.scope
BY DEF WithStatus

LEMMA UpsertedStatus ==
    ASSUME NEW r, NEW s, NEW ev
    PROVE  Upserted(r, s, ev).status \notin {"none", "resolved"} /\ Upserted(r, s, ev).scope = s
BY DEF Upserted

LEMMA SecondPass ==
    ASSUME NEW c, PassesOf(c) # <<>>, Len(PassesOf(c)) # 1
    PROVE  c # "verify" /\ PassesOf(c) = <<"vulnerability", "intrusion">>
BY DEF PassesOf

LEMMA EmptyStep ==
    ASSUME ExactInv, [Next]_vars
    PROVE  EmptyInv'
<1>0. TypeOK /\ EmptyInv
  BY DEF ExactInv, TableInv
<1>. SUFFICES ASSUME NEW i \in Issue, rows'[i] # rows[i] PROVE rows'[i].status # "none"
  BY <1>0 DEF EmptyInv
<1>. QED  BY <1>0, RowSteps, UpsertedStatus, WithStatusFields, VerdictAssumption DEF Status, Closed

LEMMA ProgressStep ==
    ASSUME TableInv, ProgressInv, [Next]_vars
    PROVE  ProgressInv'
<1>0. TypeOK /\ CommandInv /\ ProgressInv
  BY DEF TableInv
<1>1. CASE UNCHANGED <<rows, step, cmd, found, scopes, todo, judged>>
  BY <1>0, <1>1 DEF ProgressInv, PassFindings
<1>2. ASSUME NEW j \in Issue, Upsert(j) PROVE ProgressInv'
  <2>1. UNCHANGED <<cmd, found, scopes, judged>> /\ step = "pass" /\ todo' = todo \ {j}
    BY <1>2 DEF Upsert, target, history
  <2>2. \A i \in Issue : i # j => rows'[i] = rows[i]
    BY <1>0, <1>2 DEF Upsert, TypeOK
  <2>3. rows'[j].status \notin {"none", "resolved"}
    BY <1>0, <1>2, UpsertedStatus DEF Upsert, TypeOK
  <2>4. PassFindings(found, cmd, Head(scopes)) \subseteq Issue
    BY <1>0 DEF PassFindings, TypeOK
  <2>. QED  BY <1>0, <2>1, <2>2, <2>3, <2>4 DEF ProgressInv, PassFindings
<1>3. CASE Record
  BY <1>0, <1>3 DEF Record, ProgressInv, PassFindings, target, history
<1>4. CASE ResolveStale
  BY <1>0, <1>4 DEF ResolveStale, End, ProgressInv, PassFindings, target
<1>5. ASSUME NEW j \in Issue, NEW v \in Verdicts, SetStatus(j, v) PROVE ProgressInv'
  <2>1. UNCHANGED <<step, cmd, found, scopes, todo>> /\ judged' = judged \cup {j}
    BY <1>5 DEF SetStatus, target, scan
  <2>2. \A i \in Issue : i # j => rows'[i] = rows[i]
    BY <1>0, <1>5 DEF SetStatus, TypeOK
  <2>3. PassFindings(found, cmd, Head(scopes)) \subseteq Issue
    BY <1>0 DEF PassFindings, TypeOK
  <2>. QED  BY <1>0, <2>1, <2>2, <2>3 DEF ProgressInv, PassFindings
<1>6. ASSUME (\E c \in Commands, h \in Host : Begin(c, h)) \/ (\E c \in Class : Detect(c)) \/ Interrupt
      PROVE  ProgressInv'
  <2>1. step' # "pass"
    BY <1>6 DEF Begin, Detect, Interrupt, End
  <2>. QED  BY <2>1 DEF ProgressInv
<1>7. ASSUME NEW i \in Issue, Change(i) PROVE ProgressInv'
  BY <1>1, <1>7 DEF Change, target, scan
<1>. QED  BY <1>1, <1>2, <1>3, <1>4, <1>5, <1>6, <1>7 DEF Next, vars, target, scan, history

LEMMA LastStep ==
    ASSUME ExactInv, [Next]_vars
    PROVE  LastInv'
<1>0. TypeOK /\ CommandInv /\ LastInv
  BY DEF ExactInv, TableInv
<1>1. CASE UNCHANGED <<step, cmd, scopes, last>>
  BY <1>0, <1>1 DEF LastInv
<1>2. CASE \E c \in Commands, h \in Host : Begin(c, h)
  BY <1>2 DEF Begin, LastInv, NoPass
<1>3. CASE \E c \in Class : Detect(c)
  <2>1. step = "detect" /\ step' \in {"detect", "record"} /\ UNCHANGED <<cmd, scopes, last>>
    BY <1>3 DEF Detect, target, history
  <2>. QED  BY <1>0, <2>1 DEF LastInv
<1>4. CASE Record
  BY <1>0, <1>4 DEF Record, LastInv, target, history
<1>5. CASE ResolveStale
  <2>1. last'.scope = Head(scopes) /\ last'.seen = PassFindings(found, cmd, Head(scopes)) /\ cmd' = cmd
    BY <1>5 DEF ResolveStale, target
  <2>2. Head(scopes) # "none" /\ scopes # <<>>
    BY <1>0, <1>5 DEF ResolveStale, CommandInv, TypeOK, Scope, Class
  <2>3. CASE Len(scopes) = 1
    BY <1>5, <2>1, <2>2, <2>3 DEF ResolveStale, End, LastInv
  <2>4. CASE Len(scopes) # 1
    <3>1. step = "pass" /\ step' = "pass" /\ scopes' = Tail(scopes)
      BY <1>5, <2>4 DEF ResolveStale
    <3>2. last.scope = "none"
      BY <1>0, <2>4, <3>1 DEF LastInv
    <3>3. scopes = <<"vulnerability", "intrusion">> /\ cmd # "verify"
      BY <1>0, <2>2, <2>4, <3>1, <3>2, SecondPass DEF LastInv
    <3>4. \A i \in last'.seen : ClassOf[i] = "vulnerability"
      BY <2>1, <3>3 DEF PassFindings, LookedFor
    <3>. QED  BY <2>1, <3>1, <3>3, <3>4 DEF LastInv
  <2>. QED  BY <2>3, <2>4
<1>6. CASE Interrupt
  BY <1>0, <1>6 DEF Interrupt, End, LastInv
<1>7. ASSUME NEW i \in Issue, Change(i) \/ Upsert(i) \/ \E v \in Verdicts : SetStatus(i, v)
      PROVE  LastInv'
  BY <1>1, <1>7 DEF Change, Upsert, SetStatus, target, scan, history
<1>. QED  BY <1>1, <1>2, <1>3, <1>4, <1>5, <1>6, <1>7 DEF Next, vars, target, scan, history

LEMMA ExactStep ==
    ASSUME ExactInv, [Next]_vars
    PROVE  PassIsExact'
<1>0. TypeOK /\ CommandInv /\ EmptyInv /\ ProgressInv /\ LastInv /\ PassIsExact
  BY DEF ExactInv, TableInv
<1>1. CASE UNCHANGED <<rows, host, judged, last>>
  BY <1>0, <1>1 DEF PassIsExact
<1>2. CASE \E c \in Commands, h \in Host : Begin(c, h)
  BY <1>2 DEF Begin, PassIsExact, NoPass
<1>3. ASSUME NEW j \in Issue, Upsert(j) PROVE PassIsExact'
  <2>1. UNCHANGED <<host, judged, last>> /\ step = "pass" /\ j \in todo
    BY <1>3 DEF Upsert, target, history
  <2>2. \A i \in Issue : i # j => rows'[i] = rows[i]
    BY <1>0, <1>3 DEF Upsert, TypeOK
  <2>3. rows'[j].status \notin {"none", "resolved"} /\ rows'[j].scope = Head(scopes)
    BY <1>0, <1>3, UpsertedStatus DEF Upsert, TypeOK
  <2>4. last.scope # "none" => Head(scopes) # last.scope
    BY <1>0, <2>1 DEF LastInv
  <2>. QED  BY <1>0, <2>1, <2>2, <2>3, <2>4 DEF PassIsExact
<1>4. CASE ResolveStale
  <2>. DEFINE s == Head(scopes)
              S == PassFindings(found, cmd, s)
  <2>1. /\ step = "pass" /\ todo = {} /\ host' = host /\ judged' = judged
        /\ last'.scope = s /\ last'.seen = S
    BY <1>4 DEF ResolveStale, target
  <2>2. \A i \in Issue : rows'[i] = IF Stale(i, s) THEN WithStatus(rows[i], "resolved") ELSE rows[i]
    BY <1>4 DEF ResolveStale
  <2>3. ASSUME NEW i \in Issue \ judged, i \in S PROVE rows'[i].status \notin {"none", "resolved"}
    <3>1. rows'[i] = rows[i]
      BY <2>2, <2>3 DEF Stale
    <3>. QED  BY <1>0, <2>1, <2>3, <3>1 DEF ProgressInv
  <2>4. ASSUME NEW i \in Issue, HostOf[i] = host, rows'[i].scope = s, s # "none",
               rows'[i].status \notin Closed
        PROVE  i \in S
    <3>1. ~Stale(i, s)
      <4>1. Stale(i, s) => rows'[i].status = "resolved"
        BY <2>2, WithStatusFields
      <4>. QED  BY <2>4, <4>1 DEF Closed
    <3>2. rows'[i] = rows[i]
      BY <2>2, <3>1
    <3>3. rows[i].status # "none"
      BY <1>0, <2>4, <3>2 DEF EmptyInv
    <3>. QED  BY <2>4, <3>1, <3>2, <3>3 DEF Stale
  <2>. QED  BY <2>1, <2>3, <2>4 DEF PassIsExact
<1>5. ASSUME NEW j \in Issue, NEW v \in Verdicts, SetStatus(j, v) PROVE PassIsExact'
  <2>1. UNCHANGED <<host, last>> /\ judged' = judged \cup {j}
    BY <1>5 DEF SetStatus, target
  <2>2. \A i \in Issue : i # j => rows'[i] = rows[i]
    BY <1>0, <1>5 DEF SetStatus, TypeOK
  <2>. QED  BY <1>0, <2>1, <2>2 DEF PassIsExact
<1>. QED  BY <1>1, <1>2, <1>3, <1>4, <1>5
          DEF Next, vars, target, scan, history, Change, Detect, Record, Interrupt

LEMMA ExactInvariant == Spec => []ExactInv
<1>1. ExactInv /\ [Next]_vars => ExactInv'
  BY TypeStep, CommandStep, StampStep, EvidenceStep, EmptyStep, ProgressStep,
     LastStep, ExactStep DEF ExactInv, TableInv
<1>. QED  BY <1>1, ExactInit, PTL DEF Spec
-----------------------------------------------------------------------------
(* What a command did not find was absent, or hidden, when its detector    *)
(* looked.                                                                 *)

WatchInv ==
    /\ step # "idle" =>
          /\ Issue \ present \subseteq gone
          /\ \A n \in 1..Len(scopes) : scopes[n] \in Detectors(cmd)
          /\ \A i \in Issue \ found :
                HostOf[i] = host /\ ClassOf[i] \in Detectors(cmd) \ pending => i \in gone
    /\ step \in {"record", "pass"} => pending = {}

Watched == TableInv /\ ProgressInv /\ WatchInv

LEMMA WatchInit == Init => Watched
BY TableInit DEF Init, Watched, ProgressInv, WatchInv, NoRow

LEMMA WatchStep ==
    ASSUME Watched, [Next]_vars
    PROVE  WatchInv'
<1>0. TypeOK /\ CommandInv /\ ProgressInv /\ WatchInv
  BY DEF Watched, TableInv
<1>1. CASE UNCHANGED <<present, gone, rows, step, cmd, host, pending, found, scopes>>
  BY <1>0, <1>1 DEF WatchInv
<1>2. ASSUME NEW i \in Issue, Change(i) PROVE WatchInv'
  BY <1>0, <1>2 DEF Change, WatchInv, target, scan
<1>3. ASSUME NEW j \in Issue, Upsert(j) PROVE WatchInv'
  <2>1. /\ UNCHANGED <<present, gone, step, cmd, host, pending, found, scopes>>
        /\ step = "pass" /\ j \in todo
    BY <1>3 DEF Upsert, target, history
  <2>. QED  BY <1>0, <2>1 DEF WatchInv
<1>4. ASSUME NEW c \in Commands, NEW h \in Host, Begin(c, h) PROVE WatchInv'
  <2>1. \A n \in 1..Len(PassesOf(c)) : PassesOf(c)[n] \in Detectors(c)
    <3>1. DOMAIN PassesOf(c) = 1..Len(PassesOf(c))
      BY PassesType
    <3>2. \A n \in DOMAIN PassesOf(c) : PassesOf(c)[n] \in LookedFor(c, PassesOf(c)[n])
      BY <3>1, PassesType DEF LookedFor, Scope
    <3>. QED  BY <3>1, <3>2 DEF Detectors
  <2>. QED  BY <1>0, <1>4, <2>1 DEF Begin, WatchInv
<1>5. ASSUME NEW c \in Class, Detect(c) PROVE WatchInv'
  <2>1. /\ pending' = pending \ {c} /\ step = "detect"
        /\ step' = IF pending' = {} THEN "record" ELSE "detect"
        /\ UNCHANGED <<present, rows, cmd, host, scopes>>
    BY <1>5 DEF Detect, target
  <2>2. PICK S : found' = found \cup S /\ gone' = gone \cup (Observable(c) \ S)
    BY <1>5 DEF Detect
  <2>3. ASSUME NEW i \in Issue \ found', HostOf[i] = host, ClassOf[i] \in Detectors(cmd) \ pending'
        PROVE  i \in gone'
    <3>1. CASE ClassOf[i] = c
      BY <1>0, <2>1, <2>2, <2>3, <3>1 DEF Observable, WatchInv
    <3>2. CASE ClassOf[i] # c
      BY <1>0, <2>1, <2>2, <2>3, <3>2 DEF WatchInv
    <3>. QED  BY <3>1, <3>2
  <2>. QED  BY <1>0, <2>1, <2>2, <2>3 DEF WatchInv
<1>6. CASE Record
  <2>1. /\ step = "record" /\ step' = "pass"
        /\ UNCHANGED <<present, gone, rows, cmd, host, pending, found, scopes>>
    BY <1>6 DEF Record, target, history
  <2>. QED  BY <1>0, <2>1 DEF WatchInv
<1>7. CASE ResolveStale
  <2>1. /\ step = "pass" /\ UNCHANGED <<present, cmd, host>>
        /\ \/ step' = "idle"
           \/ /\ step' = "pass" /\ scopes' = Tail(scopes)
              /\ UNCHANGED <<gone, pending, found>>
    BY <1>7 DEF ResolveStale, End, target
  <2>2. \A i \in Issue : rows'[i].scope = rows[i].scope
    <3>1. \A i \in Issue : rows'[i] \in {rows[i], WithStatus(rows[i], "resolved")}
      BY <1>7 DEF ResolveStale
    <3>. QED  BY <3>1, WithStatusFields
  <2>3. scopes # <<>> /\ scopes \in Seq(Scope)
    BY <1>0, <2>1 DEF CommandInv, TypeOK
  <2>4. (\A n \in 1..Len(scopes) : scopes[n] \in Detectors(cmd))
          => \A n \in 1..Len(Tail(scopes)) : Tail(scopes)[n] \in Detectors(cmd)
    BY <2>3
  <2>. QED  BY <1>0, <2>1, <2>2, <2>4 DEF WatchInv
<1>8. CASE Interrupt
  BY <1>0, <1>8 DEF Interrupt, End, WatchInv, target
<1>9. ASSUME NEW j \in Issue, NEW v \in Verdicts, SetStatus(j, v) PROVE WatchInv'
  <2>1. \A i \in Issue : rows'[i] \in {rows[i], WithStatus(rows[i], v)}
    BY <1>0, <1>9 DEF SetStatus, TypeOK
  <2>2. UNCHANGED <<present, gone, step, cmd, host, pending, found, scopes>>
    BY <1>9 DEF SetStatus, target, scan
  <2>. QED  BY <1>0, <2>1, <2>2, WithStatusFields DEF WatchInv
<1>. QED  BY <1>1, <1>2, <1>3, <1>4, <1>5, <1>6, <1>7, <1>8, <1>9
          DEF Next, vars, target, scan, history

LEMMA WatchInvariant == Spec => []Watched
<1>1. Init => Watched
  BY WatchInit
<1>2. ASSUME Watched, [Next]_vars PROVE Watched'
  <2>1. WatchInv'
    BY <1>2, WatchStep
  <2>2. TableInv'
    BY <1>2, TypeStep, CommandStep, StampStep, EvidenceStep DEF Watched, TableInv
  <2>3. ProgressInv'
    BY <1>2, ProgressStep DEF Watched
  <2>. QED  BY <2>1, <2>2, <2>3 DEF Watched
<1>. QED  BY <1>1, <1>2, PTL DEF Spec

-----------------------------------------------------------------------------
(* The theorems. *)

(***************************************************************************)
(* The table, the locker and the command keep their types, whatever the    *)
(* operator and the commands do to each other's rows.                      *)
(***************************************************************************)
THEOREM TypeCorrect == Spec => []TypeOK
<1>1. TableInv => TypeOK
  BY DEF TableInv
<1>. QED  BY <1>1, TableInvariant, PTL

(***************************************************************************)
(* A finding has a resolved_at exactly while it is closed.                 *)
(***************************************************************************)
THEOREM StampsFollowStatus == Spec => []ClosedIffStamped
<1>1. TableInv => ClosedIffStamped
  BY DEF TableInv
<1>. QED  BY <1>1, TableInvariant, PTL

(***************************************************************************)
(* The evidence a finding names exists and lists it.                       *)
(***************************************************************************)
THEOREM FindingsHaveEvidence == Spec => []EvidenceBacksFinding
<1>1. TableInv => EvidenceBacksFinding
  BY DEF TableInv
<1>. QED  BY <1>1, TableInvariant, PTL

(***************************************************************************)
(* A finished pass leaves in its scope exactly what it saw, up to what the *)
(* operator judged meanwhile.                                              *)
(***************************************************************************)
THEOREM PassesAreExact == Spec => []PassIsExact
<1>1. ExactInv => PassIsExact
  BY DEF ExactInv
<1>. QED  BY <1>1, ExactInvariant, PTL

(***************************************************************************)
(* Commands move findings only between open and resolved; every other      *)
(* change of a status is the operator's.                                   *)
(***************************************************************************)
THEOREM TriageSurvives == Spec => TriageSticks
<1>. DEFINE Move(i) ==
       \/ \E v \in Verdicts : SetStatus(i, v)
       \/ rows[i].status \in {"none", "resolved"} /\ rows'[i].status = "new"
       \/ rows[i].status \notin Closed /\ rows'[i].status = "resolved"
<1>1. ASSUME TypeOK, [Next]_vars, NEW i \in Issue, rows'[i].status # rows[i].status PROVE Move(i)
  <2>1. rows'[i] # rows[i]
    BY <1>1
  <2>2. CASE rows'[i] = Upserted(rows[i], Head(scopes), event)
    BY <1>1, <2>2 DEF Upserted
  <2>3. CASE Stale(i, Head(scopes)) /\ rows'[i] = WithStatus(rows[i], "resolved")
    BY <2>3, WithStatusFields DEF Stale
  <2>. QED  BY <1>1, <2>1, <2>2, <2>3, RowSteps
<1>2. TypeOK /\ [Next]_vars => [\A i \in Issue : rows'[i].status # rows[i].status => Move(i)]_vars
  BY <1>1
<1>. QED  BY <1>2, TypeCorrect, PTL DEF Spec, TriageSticks

(***************************************************************************)
(* A pass resolves only findings of its scope whose condition was absent,  *)
(* or hidden by a failing probe, while the command ran.                    *)
(***************************************************************************)
THEOREM ResolvedMeansAbsent == Spec => ResolvesWhatIsGone
<1>1. ASSUME Watched, NEW i \in Issue, Resolves(i), rows[i].scope = ClassOf[i]
      PROVE  i \in gone
  <2>0. TypeOK /\ CommandInv /\ WatchInv
    BY <1>1 DEF Watched, TableInv
  <2>1. Stale(i, Head(scopes))
    BY <1>1 DEF Resolves, ResolveStale
  <2>2. step = "pass" /\ pending = {} /\ Head(scopes) = scopes[1] /\ 1 \in 1..Len(scopes)
    <3>1. step = "pass"
      BY <1>1 DEF Resolves, ResolveStale
    <3>2. scopes # <<>> /\ scopes \in Seq(Scope)
      BY <2>0, <3>1 DEF CommandInv, TypeOK
    <3>. QED  BY <2>0, <3>1, <3>2 DEF WatchInv
  <2>3. Head(scopes) \in Detectors(cmd)
    BY <2>0, <2>2 DEF WatchInv
  <2>4. ClassOf[i] = Head(scopes)
    BY <1>1, <2>1 DEF Stale
  <2>5. ClassOf[i] \in Class
    BY IssueAssumption
  <2>6. i \notin found
    BY <2>1, <2>4, <2>5 DEF Stale, PassFindings, LookedFor
  <2>. QED  BY <2>0, <2>1, <2>2, <2>3, <2>4, <2>6 DEF WatchInv, Stale
<1>2. Watched => [\A i \in Issue : Resolves(i) /\ rows[i].scope = ClassOf[i] => i \in gone]_vars
  BY <1>1
<1>. QED  BY <1>2, WatchInvariant, PTL DEF ResolvesWhatIsGone

=============================================================================
