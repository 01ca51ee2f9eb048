------------------------- MODULE Deployment_proofs --------------------------
(***************************************************************************)
(* Theorems about EvidenceLocker.tla and about Deployment.tla, which       *)
(* extends it, for any set of daemons and calls.                           *)
(*                                                                         *)
(* The locker first.  What its audit reports, what Ok means and who holds  *)
(* its lock need no assumption.  That its chain is linear is stated with   *)
(* the condition it needs (no statement has committed late) and, for the   *)
(* locker by itself, for one process; for a deployment of any number of    *)
(* daemons the second condition is a part of the state too (no two of them *)
(* were at work together), and nothing is assumed.                         *)
(***************************************************************************)
EXTENDS Deployment, TLAPS

OneInstance == \A i, j \in Instance : i = j

-----------------------------------------------------------------------------
(* Facts about IsLatest. *)

\* When chain_seq orders the rows, two answers of get_latest_hash() on the
\* same rows are the same answer.
LEMMA LatestUnique ==
    ASSUME NEW S \in SUBSET Row,
           \A r, s \in S : r.seq = s.seq => r = s,
           NEW g, NEW h, IsLatest(S, g), IsLatest(S, h)
    PROVE  g = h
<1>1. CASE S = {}
  BY <1>1 DEF IsLatest
<1>2. CASE S # {}
  <2>1. PICK r \in S : r.id = g /\ \A s \in S : s.seq <= r.seq
    BY <1>2 DEF IsLatest
  <2>2. PICK t \in S : t.id = h /\ \A s \in S : s.seq <= t.seq
    BY <1>2 DEF IsLatest
  <2>3. r.seq = t.seq
    BY <2>1, <2>2 DEF Row
  <2>. QED  BY <2>1, <2>2, <2>3
<1>. QED  BY <1>1, <1>2

\* A row above all the others becomes the latest one.
LEMMA LatestOfTop ==
    ASSUME NEW S \in SUBSET Row, NEW r \in Row,
           \A s \in S : s.seq < r.seq
    PROVE  IsLatest(S \cup {r}, r.id)
BY DEF IsLatest, Row

-----------------------------------------------------------------------------
(* What the locker does, alone or in a daemon. *)

\* A step of a call or of the server, the end of a process, or neither.
LockerMove ==
    \/ \E c \in Call : BeginRecord(c) \/ BeginAppend(c)
    \/ \E c \in Call : CallStep(c) \/ QueryFails(c) \/ LoseConnection(c)
    \/ Server
    \/ \E i \in Instance : Die(i) /\ crashes' \in 0..MaxCrashes
    \/ UNCHANGED vars

LEMMA NextIsMove ==
    ASSUME TypeOK, [Next]_vars
    PROVE  LockerMove
<1>1. ASSUME NEW i \in Instance, Crash(i) PROVE LockerMove
  <2>1. crashes' \in 0..MaxCrashes
    BY <1>1, CrashesAssumption DEF Crash, TypeOK
  <2>. QED  BY <1>1, <2>1 DEF Crash, LockerMove
<1>. QED  BY <1>1 DEF Next, LockerMove

LEMMA TypeStep ==
    ASSUME TypeOK, LockerMove
    PROVE  TypeOK'
<1>. USE HostAssumption, CrashesAssumption DEF TypeOK
<1>1. ASSUME NEW c \in Call, BeginRecord(c) \/ BeginAppend(c) PROVE TypeOK'
  BY <1>1 DEF BeginRecord, BeginAppend, Goto, dbVars, Step
<1>2. ASSUME NEW c \in Call, CallStep(c) PROVE TypeOK'
  <2>1. CASE SubmitInsert(c)
    BY <2>1 DEF SubmitInsert, Goto, Step, Critical, Row
  <2>2. CASE Acquire(c) \/ ReadLatest(c) \/ CheckTip(c)
    BY <2>2 DEF Acquire, ReadLatest, CheckTip, Goto, dbVars, Step, Critical
  <2>3. CASE RejectFork(c) \/ Answer(c)
    BY <2>3 DEF RejectFork, Answer, Finish, dbVars, Step, Final
  <2>. QED  BY <1>2, <2>1, <2>2, <2>3 DEF CallStep
<1>3. ASSUME NEW c \in Call, QueryFails(c) \/ LoseConnection(c) PROVE TypeOK'
  BY <1>3 DEF QueryFails, LoseConnection, Finish, dbVars, Step, Final
<1>4. CASE Server
  <2>1. PICK r \in inflight : CommitRow(r) \/ AbortRow(r)
    BY <1>4 DEF Server
  <2>2. late' \in BOOLEAN
    BY <2>1 DEF CommitRow, AbortRow
  <2>. QED  BY <2>1, <2>2 DEF CommitRow, AbortRow
<1>5. ASSUME NEW i \in Instance, Die(i), crashes' \in 0..MaxCrashes PROVE TypeOK'
  BY <1>5 DEF Die, dbVars, Step, Final
<1>6. CASE UNCHANGED vars
  BY <1>6 DEF vars
<1>. QED  BY <1>1, <1>2, <1>3, <1>4, <1>5, <1>6 DEF LockerMove

LEMMA TypeInit == Init => TypeOK
<1>. SUFFICES ASSUME Init PROVE TypeOK
  OBVIOUS
<1>1. late \in BOOLEAN
  BY DEF Init
<1>2. /\ rows \subseteq Row /\ inflight \subseteq Row /\ nextSeq \in Nat
      /\ lock \in [Instance -> Call \cup {Free}]
      /\ pc \in [Call -> Step] /\ prev \in [Call -> Hash] /\ crashes \in 0..MaxCrashes
  BY CrashesAssumption DEF Init, Step, Hash
<1>. QED  BY <1>1, <1>2 DEF TypeOK

\* The rows only grow, and how a call ended is final.
LEMMA MoveKeeps ==
    ASSUME TypeOK, LockerMove
    PROVE  /\ rows \subseteq rows'
           /\ \A c \in Call : pc[c] \in {"sent"} \cup Final =>
                  pc'[c] \in {"sent"} \cup Final /\ prev'[c] = prev[c]
           /\ \A c \in Call : pc'[c] = "ok" => pc[c] = "ok" \/ \E r \in rows : r.id = c
           /\ (\E r \in inflight : CommitRow(r)) \/ (rows' = rows /\ late' = late)
<1>. USE DEF TypeOK
<1>1. ASSUME NEW c \in Call,
             \/ BeginRecord(c) \/ BeginAppend(c) \/ Acquire(c) \/ ReadLatest(c) \/ CheckTip(c)
             \/ RejectFork(c) \/ SubmitInsert(c) \/ Answer(c) \/ QueryFails(c) \/ LoseConnection(c)
      PROVE  /\ rows' = rows /\ late' = late
             /\ \A d \in Call \ {c} : pc'[d] = pc[d] /\ prev'[d] = prev[d]
             /\ pc[c] \notin Final
             /\ pc[c] = "sent" => pc'[c] \in Final /\ prev' = prev
             /\ pc'[c] = "ok" => \E r \in rows : r.id = c
  BY <1>1 DEF BeginRecord, BeginAppend, Acquire, ReadLatest, CheckTip, RejectFork, SubmitInsert,
     Answer, QueryFails, LoseConnection, Goto, Finish, dbVars, Final
<1>2. CASE Server
  BY <1>2 DEF Server, CommitRow, AbortRow
<1>3. ASSUME NEW i \in Instance, Die(i)
      PROVE  /\ rows' = rows /\ late' = late /\ prev' = prev
             /\ \A c \in Call : pc'[c] = pc[c] \/ pc'[c] = "dead"
             /\ \A c \in Call : pc[c] \in Final => pc'[c] = pc[c]
  BY <1>3 DEF Die, dbVars
<1>4. CASE UNCHANGED vars
  BY <1>4 DEF vars
<1>5. CASE \E c \in Call :
             \/ BeginRecord(c) \/ BeginAppend(c) \/ Acquire(c) \/ ReadLatest(c) \/ CheckTip(c)
             \/ RejectFork(c) \/ SubmitInsert(c) \/ Answer(c) \/ QueryFails(c) \/ LoseConnection(c)
  BY <1>1, <1>5 DEF Final
<1>6. CASE \E i \in Instance : Die(i)
  BY <1>3, <1>6 DEF Final
<1>. QED  BY <1>2, <1>4, <1>5, <1>6 DEF LockerMove, CallStep

(***************************************************************************)
(* The variables of the locker keep their types, with any number of        *)
(* processes: in particular a lock is held by a call or by nobody, and     *)
(* rows hold events of calls only.                                         *)
(***************************************************************************)
THEOREM TypeCorrect == Spec => []TypeOK
<1>1. TypeOK /\ [Next]_vars => TypeOK'
  BY NextIsMove, TypeStep
<1>. QED  BY <1>1, TypeInit, PTL DEF Spec

(***************************************************************************)
(* No step removes or rewrites a committed row.                            *)
(***************************************************************************)
THEOREM RowsOnlyGrow == Spec => AppendOnly
<1>1. TypeOK /\ [Next]_vars => [\A r \in rows : r \in rows']_rows
  BY NextIsMove, MoveKeeps
<1>. QED  BY <1>1, TypeCorrect, PTL DEF Spec, AppendOnly

-----------------------------------------------------------------------------
(* The rows, with any number of processes and with late commits. *)

Rows == rows \cup inflight

\* chain_seq values and events occur once.
UniqueInv ==
    /\ \A r \in Rows : r.seq < nextSeq
    /\ \A r, s \in Rows : r.seq = s.seq => r = s
    /\ \A r, s \in Rows : r.id = s.id => r = s
    /\ \A r \in Rows : pc[r.id] \in {"sent"} \cup Final
    /\ \A r \in inflight : r \notin rows

\* What an event names was committed before it got its chain_seq, and a row
\* carries what its call named.
NamedInv ==
    /\ \A r \in Rows : r.prev # NoHash => \E t \in rows : t.id = r.prev /\ t.seq < r.seq
    /\ \A c \in Call : pc[c] = "insert" /\ prev[c] # NoHash => \E t \in rows : t.id = prev[c]
    /\ \A r \in Rows : r.prev = prev[r.id]

\* The table has a last row.
TopInv == \E h \in Hash : IsLatest(rows, h)

AuditInv == TypeOK /\ UniqueInv /\ NamedInv /\ TopInv

LEMMA AuditInit == Init => AuditInv
<1>1. Init => UniqueInv /\ NamedInv /\ TopInv
  BY DEF Init, UniqueInv, NamedInv, TopInv, IsLatest, Rows, Hash
<1>. QED  BY <1>1, TypeInit DEF AuditInv

\* Steps that send or store nothing.
LEMMA AuditMove ==
    ASSUME AuditInv, TypeOK', LockerMove, UNCHANGED dbVars,
           \A c \in Call : pc'[c] = "insert" /\ prev'[c] # NoHash =>
               \E t \in rows : t.id = prev'[c]
    PROVE  AuditInv'
<1>1. \A r \in Rows : r.id \in Call
  BY DEF AuditInv, TypeOK, Rows, Row
<1>2. UniqueInv'
  BY <1>1, MoveKeeps DEF AuditInv, UniqueInv, Rows, dbVars
<1>3. NamedInv'
  BY <1>1, MoveKeeps DEF AuditInv, UniqueInv, NamedInv, Rows, dbVars
<1>4. TopInv'
  BY DEF AuditInv, TopInv, dbVars
<1>. QED  BY <1>2, <1>3, <1>4 DEF AuditInv

\* What the server does with a running INSERT.
LEMMA AuditServer ==
    ASSUME AuditInv, TypeOK', NEW r \in inflight, CommitRow(r) \/ AbortRow(r)
    PROVE  AuditInv'
<1>1. Rows' \subseteq Rows /\ rows \subseteq rows' /\ UNCHANGED <<nextSeq, pc, prev>>
  BY DEF CommitRow, AbortRow, Rows
<1>2. UniqueInv'
  BY <1>1 DEF AuditInv, UniqueInv, CommitRow, AbortRow
<1>3. NamedInv'
  BY <1>1 DEF AuditInv, NamedInv
<1>4. TopInv'
  <2>1. CASE AbortRow(r)
    BY <2>1 DEF AbortRow, AuditInv, TopInv
  <2>2. CASE CommitRow(r) /\ \A s \in rows : s.seq < r.seq
    <3>1. r \in Row /\ rows \in SUBSET Row
      BY DEF AuditInv, TypeOK
    <3>2. IsLatest(rows \cup {r}, r.id) /\ r.id \in Hash
      BY <2>2, <3>1, LatestOfTop DEF Row, Hash
    <3>. QED  BY <2>2, <3>2 DEF CommitRow, TopInv
  <2>3. CASE CommitRow(r) /\ \E s \in rows : ~(s.seq < r.seq)
    <3>1. PICK h \in Hash : IsLatest(rows, h)
      BY DEF AuditInv, TopInv
    <3>2. PICK t \in rows : t.id = h /\ \A s \in rows : s.seq <= t.seq
      BY <2>3, <3>1 DEF IsLatest
    <3>3. r.seq <= t.seq
      BY <2>3, <3>2 DEF AuditInv, TypeOK, Row
    <3>4. IsLatest(rows', h)
      BY <2>3, <3>2, <3>3 DEF CommitRow, IsLatest
    <3>. QED  BY <3>4 DEF TopInv
  <2>. QED  BY <2>1, <2>2, <2>3
<1>. QED  BY <1>2, <1>3, <1>4 DEF AuditInv

LEMMA AuditSubmit ==
    ASSUME AuditInv, TypeOK', NEW c \in Call, SubmitInsert(c)
    PROVE  AuditInv'
<1>. DEFINE new == [id |-> c, prev |-> prev[c], seq |-> nextSeq]
<1>1. /\ rows' = rows /\ inflight' = inflight \cup {new}
      /\ nextSeq' = nextSeq + 1 /\ prev' = prev
      /\ pc[c] = "insert" /\ pc' = [pc EXCEPT ![c] = "sent"]
  BY DEF SubmitInsert, Goto
<1>2. Rows' = Rows \cup {new}
  BY <1>1 DEF Rows
<1>3. new.id = c /\ new.prev = prev[c] /\ new.seq = nextSeq
  OBVIOUS
<1>4. \A r \in Rows : r.seq \in Nat /\ r.seq < nextSeq /\ r.id \in Call /\ r.id # c
  BY <1>1 DEF AuditInv, TypeOK, UniqueInv, Rows, Row, Final
<1>5. nextSeq \in Nat /\ \A d \in Call : d # c => pc'[d] = pc[d]
  BY <1>1 DEF AuditInv, TypeOK
<1>6. pc'[c] = "sent"
  BY <1>1 DEF AuditInv, TypeOK
<1>. HIDE DEF new
<1>7. UniqueInv'
  <2>1. \A r \in Rows' : r.seq < nextSeq'
    BY <1>1, <1>2, <1>3, <1>4, <1>5
  <2>2. \A r, s \in Rows' : (r.seq = s.seq => r = s) /\ (r.id = s.id => r = s)
    BY <1>2, <1>3, <1>4, <1>5 DEF AuditInv, UniqueInv
  <2>3. \A r \in Rows' : pc'[r.id] \in {"sent"} \cup Final
    BY <1>2, <1>3, <1>4, <1>5, <1>6 DEF AuditInv, UniqueInv
  <2>4. \A r \in inflight' : r \notin rows'
    BY <1>1, <1>3, <1>4 DEF AuditInv, UniqueInv, Rows
  <2>. QED  BY <2>1, <2>2, <2>3, <2>4 DEF UniqueInv
<1>8. NamedInv'
  <2>1. new.prev # NoHash => \E t \in rows : t.id = new.prev /\ t.seq < new.seq
    BY <1>1, <1>3, <1>4 DEF AuditInv, NamedInv, Rows
  <2>2. \A r \in Rows' : r.prev # NoHash => \E t \in rows : t.id = r.prev /\ t.seq < r.seq
    BY <1>2, <2>1 DEF AuditInv, NamedInv
  <2>3. \A d \in Call : pc'[d] = "insert" => pc[d] = "insert"
    BY <1>5, <1>6
  <2>4. \A r \in Rows' : r.prev = prev'[r.id]
    BY <1>1, <1>2, <1>3 DEF AuditInv, NamedInv
  <2>. QED  BY <1>1, <2>2, <2>3, <2>4 DEF AuditInv, NamedInv
<1>9. TopInv'
  BY <1>1 DEF AuditInv, TopInv
<1>. QED  BY <1>7, <1>8, <1>9 DEF AuditInv

LEMMA AuditStep ==
    ASSUME AuditInv, LockerMove
    PROVE  AuditInv'
<1>. TypeOK /\ TypeOK'
  BY TypeStep DEF AuditInv
<1>1. ASSUME NEW c \in Call,
             \/ BeginRecord(c) \/ BeginAppend(c) \/ Acquire(c) \/ ReadLatest(c)
             \/ RejectFork(c) \/ Answer(c) \/ QueryFails(c) \/ LoseConnection(c)
      PROVE  AuditInv'
  <2>1. UNCHANGED dbVars /\ pc' = [pc EXCEPT ![c] = pc'[c]] /\ pc'[c] # "insert"
        /\ \A d \in Call \ {c} : prev'[d] = prev[d]
    BY <1>1 DEF BeginRecord, BeginAppend, Acquire, ReadLatest, RejectFork, Answer, QueryFails,
       LoseConnection, Goto, Finish, TypeOK
  <2>2. \A d \in Call : pc'[d] = "insert" => d # c /\ pc[d] = "insert"
    BY <2>1 DEF TypeOK
  <2>. QED  BY <2>1, <2>2, AuditMove DEF AuditInv, NamedInv
<1>2. ASSUME NEW c \in Call, CheckTip(c) PROVE AuditInv'
  <2>1. UNCHANGED dbVars /\ prev' = prev /\ pc' = [pc EXCEPT ![c] = "insert"]
        /\ IsLatest(rows, prev[c])
    BY <1>2 DEF CheckTip, Goto
  <2>2. prev[c] # NoHash => \E t \in rows : t.id = prev[c]
    BY <2>1 DEF IsLatest
  <2>. QED  BY <2>1, <2>2, AuditMove DEF AuditInv, NamedInv, TypeOK
<1>3. ASSUME NEW c \in Call, SubmitInsert(c) PROVE AuditInv'
  BY <1>3, AuditSubmit
<1>4. CASE Server
  BY <1>4, AuditServer DEF Server
<1>5. ASSUME NEW i \in Instance, Die(i) PROVE AuditInv'
  <2>1. UNCHANGED <<dbVars, prev>> /\ \A c \in Call : pc'[c] = "insert" => pc[c] = "insert"
    BY <1>5 DEF Die, TypeOK
  <2>. QED  BY <2>1, AuditMove DEF AuditInv, NamedInv
<1>6. CASE UNCHANGED vars
  BY <1>6, AuditMove DEF vars, dbVars, AuditInv, NamedInv
<1>. QED  BY <1>1, <1>2, <1>3, <1>4, <1>5, <1>6 DEF LockerMove, CallStep

LEMMA AuditInvariant == Spec => []AuditInv
<1>1. AuditInv /\ [Next]_vars => AuditInv'
  BY NextIsMove, AuditStep DEF AuditInv
<1>. QED  BY <1>1, AuditInit, PTL DEF Spec

LEMMA AuditFindsForks == AuditInv => ForksAreReported
<1>. SUFFICES ASSUME AuditInv, BrokenLinks(rows) = {},
                     NEW r \in rows, NEW s \in rows, r.prev = s.prev, r.seq < s.seq
              PROVE  FALSE
  BY DEF ForksAreReported, NoFork, AuditInv, UniqueInv, TypeOK, Row, Rows
<1>1. r \in Below(rows, s) /\ IsLatest(Below(rows, s), s.prev)
  BY DEF BrokenLinks, Below
<1>2. PICK t \in Below(rows, s) : t.id = s.prev /\ \A u \in Below(rows, s) : u.seq <= t.seq
  BY <1>1 DEF IsLatest
<1>3. r.seq <= t.seq /\ t \in rows
  BY <1>1, <1>2 DEF Below
<1>4. r.prev # NoHash
  BY <1>2, <1>3, NullAssumption DEF AuditInv, TypeOK, Row
<1>5. PICK u \in rows : u.id = r.prev /\ u.seq < r.seq
  BY <1>4 DEF AuditInv, NamedInv, Rows
<1>6. u = t
  BY <1>2, <1>3, <1>5 DEF AuditInv, UniqueInv, Rows
<1>. QED  BY <1>3, <1>5, <1>6 DEF AuditInv, TypeOK, Row

(***************************************************************************)
(* verify_chain() reports every fork, with any number of processes, late   *)
(* commits, lost connections and crashes.                                  *)
(***************************************************************************)
THEOREM AuditorSeesForks == Spec => []ForksAreReported
BY AuditInvariant, AuditFindsForks, PTL

\* A call that is told Ok has its row by then, and rows stay.
LEMMA DurableStep ==
    ASSUME AuditInv, OkIsDurable, LockerMove
    PROVE  OkIsDurable'
<1>. SUFFICES ASSUME NEW c \in Call, pc'[c] = "ok"
              PROVE  \E r \in rows' : r.id = c /\ r.prev = prev'[c]
  BY DEF OkIsDurable
<1>1. PICK r \in rows : r.id = c
  BY MoveKeeps DEF AuditInv, OkIsDurable
<1>2. r.prev = prev[c] /\ pc[c] \in {"sent"} \cup Final
  BY <1>1 DEF AuditInv, UniqueInv, NamedInv, Rows
<1>. QED  BY <1>1, <1>2, MoveKeeps DEF AuditInv

(***************************************************************************)
(* An event whose record() answered Ok is in the chain, with the prev_hash *)
(* it was built on: with any number of processes, whatever statements      *)
(* commit late, connections break and processes crash.                     *)
(***************************************************************************)
THEOREM OkMeansDurable == Spec => []OkIsDurable
<1>1. Init => OkIsDurable
  BY DEF Init, OkIsDurable
<1>2. AuditInv /\ OkIsDurable /\ [Next]_vars => OkIsDurable'
  BY NextIsMove, DurableStep DEF AuditInv
<1>. QED  BY <1>1, <1>2, AuditInvariant, PTL DEF Spec

-----------------------------------------------------------------------------
(* The append_lock. *)

\* The lock of an instance is with the one call of it that runs under it.
LockFollowsCall ==
    \A i \in Instance, c \in Call :
        lock[i] = c <=> Host[c] = i /\ pc[c] \in Critical

\* Steps of one call that do not take it into or out of the critical section.
LEMMA LockStays ==
    ASSUME TypeOK, TypeOK', LockFollowsCall, lock' = lock, NEW c \in Call,
           pc' = [pc EXCEPT ![c] = pc'[c]], pc[c] \in Critical <=> pc'[c] \in Critical
    PROVE  LockFollowsCall'
BY DEF TypeOK, LockFollowsCall

\* Steps that end a call which holds the lock.
LEMMA LockDropped ==
    ASSUME TypeOK, LockFollowsCall, NEW c \in Call, NEW o \in Final,
           pc[c] \in Critical, Finish(c, o)
    PROVE  LockFollowsCall'
<1>1. /\ pc' = [pc EXCEPT ![c] = o] /\ o \notin Critical
      /\ lock' = [lock EXCEPT ![Host[c]] = Free]
  BY DEF Finish, Final, Critical
<1>2. Host[c] \in Instance /\ lock[Host[c]] = c
  BY HostAssumption DEF LockFollowsCall
<1>. QED  BY <1>1, <1>2, HostAssumption, NullAssumption DEF LockFollowsCall, TypeOK

LEMMA LockStep ==
    ASSUME TypeOK, LockFollowsCall, LockerMove
    PROVE  LockFollowsCall'
<1>. TypeOK'
  BY TypeStep
<1>1. ASSUME NEW c \in Call, BeginRecord(c) \/ BeginAppend(c) PROVE LockFollowsCall'
  <2>1. /\ lock' = lock /\ pc' = [pc EXCEPT ![c] = pc'[c]]
        /\ pc[c] = "idle" /\ pc'[c] \in {"lockRecord", "lockAppend"}
    BY <1>1 DEF BeginRecord, BeginAppend, Goto, TypeOK
  <2>. QED  BY <2>1, LockStays DEF Critical
<1>2. ASSUME NEW c \in Call, Acquire(c) PROVE LockFollowsCall'
  <2>1. /\ lock[Host[c]] = Free /\ lock' = [lock EXCEPT ![Host[c]] = c]
        /\ pc' = [pc EXCEPT ![c] = pc'[c]] /\ pc'[c] \in Critical
    BY <1>2 DEF Acquire, Goto, TypeOK, Critical
  <2>2. \A d \in Call : Host[d] = Host[c] => pc[d] \notin Critical
    BY <2>1, HostAssumption, NullAssumption DEF LockFollowsCall
  <2>. QED  BY <2>1, <2>2, HostAssumption DEF LockFollowsCall, TypeOK
<1>3. ASSUME NEW c \in Call, ReadLatest(c) \/ CheckTip(c) \/ SubmitInsert(c)
      PROVE  LockFollowsCall'
  <2>1. /\ lock' = lock /\ pc' = [pc EXCEPT ![c] = pc'[c]]
        /\ pc[c] \in Critical /\ pc'[c] \in Critical
    BY <1>3 DEF ReadLatest, CheckTip, SubmitInsert, Goto, TypeOK, Critical
  <2>. QED  BY <2>1, LockStays
<1>4. ASSUME NEW c \in Call, RejectFork(c) \/ QueryFails(c) \/ Answer(c) \/ LoseConnection(c)
      PROVE  LockFollowsCall'
  <2>1. pc[c] \in Critical /\ \E o \in Final : Finish(c, o)
    BY <1>4 DEF RejectFork, QueryFails, Answer, LoseConnection, Critical, Final
  <2>. QED  BY <2>1, LockDropped
<1>5. CASE Server
  BY <1>5 DEF Server, CommitRow, AbortRow, LockFollowsCall
<1>6. ASSUME NEW i \in Instance, Die(i) PROVE LockFollowsCall'
  <2>1. /\ lock' = [lock EXCEPT ![i] = Free]
        /\ pc' = [c \in Call |-> IF Host[c] = i /\ pc[c] \notin Final \cup {"idle"}
                                 THEN "dead" ELSE pc[c]]
    BY <1>6 DEF Die
  <2>. QED  BY <2>1, HostAssumption, NullAssumption DEF LockFollowsCall, TypeOK, Critical, Final
<1>7. CASE UNCHANGED vars
  BY <1>7 DEF vars, LockFollowsCall
<1>. QED  BY <1>1, <1>2, <1>3, <1>4, <1>5, <1>6, <1>7 DEF LockerMove, CallStep

LEMMA LockInit == Init => LockFollowsCall
BY NullAssumption DEF Init, LockFollowsCall, Critical

(***************************************************************************)
(* The append_lock is held by a call exactly while that call is between    *)
(* its reading of the tip and its answer: two calls of an instance are     *)
(* never there together, and no error path, lost connection or crash       *)
(* leaves the lock behind.  This is what CallsFinish rests on.             *)
(***************************************************************************)
THEOREM LockIsHandedBack == Spec => []LockFollowsCall
<1>1. TypeOK /\ LockFollowsCall /\ [Next]_vars => LockFollowsCall'
  BY NextIsMove, LockStep
<1>. QED  BY <1>1, LockInit, TypeCorrect, PTL DEF Spec

-----------------------------------------------------------------------------
(* The chain of one writer. *)

\* One call at a time is in its critical section.
Alone == \A c, d \in Call : pc[c] \in Critical /\ pc[d] \in Critical => c = d

\* The rows are linked, the tip that an event was checked against is still the
\* tip when its INSERT is sent, and while its caller waits for the answer.
TipInv ==
    /\ \A r \in rows : IsLatest(Below(rows, r), r.prev)
    /\ \A c \in Call : pc[c] = "insert" => IsLatest(rows, prev[c])
    /\ \A r \in inflight : pc[r.id] = "sent" =>
           IsLatest(rows, r.prev) /\ \A s \in rows : s.seq < r.seq

LEMMA TipInit == Init => TipInv
BY DEF Init, TipInv

\* A step that does not touch the rows or send one.
LEMMA QuietTip ==
    ASSUME AuditInv, TipInv, rows' = rows, inflight' \subseteq inflight,
           \A c \in Call : pc'[c] = "sent" => pc[c] = "sent",
           \A c \in Call : pc'[c] = "insert" =>
               prev'[c] = prev[c] /\ (pc[c] = "insert" \/ IsLatest(rows, prev[c]))
    PROVE  TipInv'
<1>1. \A r \in inflight : r.id \in Call
  BY DEF AuditInv, TypeOK, Row
<1>. QED  BY <1>1 DEF TipInv

LEMMA SubmitTip ==
    ASSUME AuditInv, TipInv, NEW c \in Call, SubmitInsert(c)
    PROVE  TipInv'
<1>. DEFINE new == [id |-> c, prev |-> prev[c], seq |-> nextSeq]
<1>1. /\ rows' = rows /\ inflight' = inflight \cup {new}
      /\ pc[c] = "insert" /\ pc' = [pc EXCEPT ![c] = "sent"] /\ prev' = prev
  BY DEF SubmitInsert, Goto
<1>2. \A s \in rows : s.seq < new.seq
  BY DEF AuditInv, UniqueInv, Rows
<1>3. IsLatest(rows, new.prev)
  BY <1>1 DEF TipInv
<1>4. \A r \in inflight : r.id \in Call /\ r.id # c
  BY <1>1 DEF AuditInv, TypeOK, UniqueInv, Rows, Row, Final
<1>5. \A d \in Call : pc'[d] = IF d = c THEN "sent" ELSE pc[d]
  BY <1>1 DEF AuditInv, TypeOK
<1>. HIDE DEF new
<1>. QED  BY <1>1, <1>2, <1>3, <1>4, <1>5 DEF TipInv

\* The event of a waiting caller lands on top of the event it names.
LEMMA CommitTip ==
    ASSUME AuditInv, Alone, TipInv, NEW r \in inflight, CommitRow(r), pc[r.id] = "sent"
    PROVE  TipInv'
<1>1. rows' = rows \cup {r} /\ inflight' = inflight \ {r} /\ UNCHANGED <<pc, prev>>
  BY DEF CommitRow
<1>2. r \in Row /\ rows \subseteq Row /\ inflight \subseteq Row /\ r.id \in Call
  BY DEF AuditInv, TypeOK, Row
<1>3. IsLatest(rows, r.prev) /\ \A s \in rows : s.seq < r.seq
  BY DEF TipInv
<1>4. \A s \in rows' : IsLatest(Below(rows', s), s.prev)
  <2>1. Below(rows', r) = rows
    BY <1>1, <1>2, <1>3 DEF Below, Row
  <2>2. \A s \in rows : Below(rows', s) = Below(rows, s)
    BY <1>1, <1>2, <1>3 DEF Below, Row
  <2>. QED  BY <1>1, <1>3, <2>1, <2>2 DEF TipInv
<1>5. \A c \in Call : pc'[c] # "insert"
  BY <1>1, <1>2 DEF Alone, Critical
<1>6. \A q \in inflight' : pc[q.id] # "sent"
  BY <1>1, <1>2 DEF Alone, AuditInv, UniqueInv, Rows, Critical, Row
<1>. QED  BY <1>1, <1>4, <1>5, <1>6 DEF TipInv

LEMMA TipStep ==
    ASSUME AuditInv, Alone, TipInv, LockerMove, ~late'
    PROVE  TipInv'
<1>. USE DEF AuditInv, TypeOK
<1>1. ASSUME NEW c \in Call,
             \/ BeginRecord(c) \/ BeginAppend(c) \/ Acquire(c) \/ ReadLatest(c) \/ CheckTip(c)
             \/ RejectFork(c) \/ Answer(c) \/ QueryFails(c) \/ LoseConnection(c)
      PROVE  TipInv'
  <2>1. /\ rows' = rows /\ inflight' = inflight
        /\ pc' = [pc EXCEPT ![c] = pc'[c]] /\ pc'[c] # "sent"
        /\ \A d \in Call \ {c} : prev'[d] = prev[d]
        /\ pc'[c] = "insert" => prev'[c] = prev[c] /\ IsLatest(rows, prev[c])
    BY <1>1 DEF BeginRecord, BeginAppend, Acquire, ReadLatest, CheckTip, RejectFork, Answer,
       QueryFails, LoseConnection, Finish, Goto, dbVars
  <2>. QED  BY <2>1, QuietTip
<1>2. ASSUME NEW c \in Call, SubmitInsert(c) PROVE TipInv'
  BY <1>2, SubmitTip
<1>3. ASSUME NEW r \in inflight, CommitRow(r) PROVE TipInv'
  BY <1>3, CommitTip DEF CommitRow
<1>4. ASSUME NEW r \in inflight, AbortRow(r) PROVE TipInv'
  BY <1>4, QuietTip DEF AbortRow
<1>5. ASSUME NEW i \in Instance, Die(i) PROVE TipInv'
  BY <1>5, QuietTip DEF Die, dbVars
<1>6. CASE UNCHANGED vars
  BY <1>6, QuietTip DEF vars
<1>. QED  BY <1>1, <1>2, <1>3, <1>4, <1>5, <1>6 DEF LockerMove, CallStep, Server

\* Linked rows do not fork.
LEMMA TipDoesNotFork ==
    ASSUME AuditInv, TipInv
    PROVE  NoFork
<1>1. BrokenLinks(rows) = {}
  BY DEF TipInv, BrokenLinks
<1>. QED  BY <1>1, AuditFindsForks DEF ForksAreReported

-----------------------------------------------------------------------------
(* The chain that the rows represent. *)

TipOf(S) == CHOOSE h \in Hash : IsLatest(S, h)

LEMMA TipIsLatest ==
    ASSUME NEW S \in SUBSET Row, \A r, s \in S : r.seq = s.seq => r = s,
           NEW g \in Hash, IsLatest(S, g)
    PROVE  TipOf(S) = g
<1>1. \A h \in Hash : IsLatest(S, h) => h = g
  BY LatestUnique
<1>. QED  BY <1>1 DEF TipOf

LEMMA RowsInOrder ==
    ASSUME AuditInv
    PROVE  rows \in SUBSET Row /\ \A r, s \in rows : r.seq = s.seq => r = s
BY DEF AuditInv, TypeOK, UniqueInv, Rows

\* A commit adds its event to the table; the tip is that event, or stays.
LEMMA CommitMovesTip ==
    ASSUME AuditInv, AuditInv', NEW r \in inflight, CommitRow(r)
    PROVE  TipOf(rows') \in {TipOf(rows), r.id}
<1>1. rows' = rows \cup {r}
  BY DEF CommitRow
<1>2. rows' \in SUBSET Row /\ \A s, t \in rows' : s.seq = t.seq => s = t
  BY DEF AuditInv, TypeOK, UniqueInv, Rows
<1>3. PICK h \in Hash : IsLatest(rows', h)
  BY DEF AuditInv, TopInv
<1>4. TipOf(rows') = h
  BY <1>2, <1>3, TipIsLatest
<1>5. PICK t \in rows' : t.id = h /\ \A s \in rows' : s.seq <= t.seq
  BY <1>1, <1>3 DEF IsLatest
<1>6. CASE t = r
  BY <1>4, <1>5, <1>6
<1>7. CASE t # r
  <2>1. t \in rows /\ IsLatest(rows, t.id)
    BY <1>1, <1>5, <1>7 DEF IsLatest
  <2>2. TipOf(rows) = h
    BY <1>5, <2>1, RowsInOrder, TipIsLatest
  <2>. QED  BY <1>4, <2>2
<1>. QED  BY <1>6, <1>7

\* The event of a waiting caller lands on the tip and becomes it.
LEMMA CommitAtTip ==
    ASSUME AuditInv, AuditInv', TipInv, NEW r \in inflight, CommitRow(r), ~late'
    PROVE  TipOf(rows) = r.prev /\ TipOf(rows') = r.id
<1>1. r \in Row /\ rows' = rows \cup {r} /\ pc[r.id] = "sent"
  BY DEF CommitRow, AuditInv, TypeOK
<1>2. IsLatest(rows, r.prev) /\ \A s \in rows : s.seq < r.seq
  BY <1>1 DEF TipInv
<1>3. r.prev \in Hash /\ r.id \in Hash
  BY <1>1 DEF Row, Hash
<1>4. rows \in SUBSET Row /\ rows' \in SUBSET Row
      /\ \A s, t \in rows' : s.seq = t.seq => s = t
  BY DEF AuditInv, TypeOK, UniqueInv, Rows
<1>5. IsLatest(rows', r.id)
  BY <1>1, <1>2, <1>4, LatestOfTop
<1>. QED  BY <1>2, <1>3, <1>4, <1>5, RowsInOrder, TipIsLatest

Links == {[id |-> r.id, prev |-> r.prev] : r \in rows}

\* Its link is fresh and names an event that is there.
LEMMA CommitLinks ==
    ASSUME AuditInv, NEW r \in inflight, CommitRow(r)
    PROVE  /\ r.id \in Call
           /\ r.id \notin {l.id : l \in Links}
           /\ Links' = Links \cup {[id |-> r.id, prev |-> r.prev]}
           /\ r.prev \in {l.id : l \in Links} \cup {NoHash}
<1>1. r.id \in Call /\ rows' = rows \cup {r}
  BY DEF CommitRow, AuditInv, TypeOK, Row
<1>2. \A s \in rows : s.id # r.id
  BY DEF AuditInv, UniqueInv, Rows
<1>3. r.prev # NoHash => \E t \in rows : t.id = r.prev
  BY DEF AuditInv, NamedInv, Rows
<1>4. \A l \in Links : \E s \in rows : l.id = s.id
  <2>1. ASSUME NEW l \in Links PROVE \E s \in rows : l.id = s.id
    <3>1. PICK s \in rows : l = [id |-> s.id, prev |-> s.prev]
      BY <2>1 DEF Links
    <3>. QED  BY <3>1
  <2>. QED  BY <2>1
<1>5. \A s \in rows : \E l \in Links : l.id = s.id
  <2>1. ASSUME NEW s \in rows PROVE \E l \in Links : l.id = s.id
    <3>1. [id |-> s.id, prev |-> s.prev] \in Links
      BY DEF Links
    <3>2. [id |-> s.id, prev |-> s.prev].id = s.id
      OBVIOUS
    <3>. QED  BY <3>1, <3>2
  <2>. QED  BY <2>1
<1>6. Links' = Links \cup {[id |-> r.id, prev |-> r.prev]}
  BY <1>1 DEF Links
<1>. QED  BY <1>1, <1>2, <1>3, <1>4, <1>5, <1>6

\* A step of the locker is a step of the abstract chain, or leaves it.
LEMMA LockerRefines ==
    ASSUME AuditInv, AuditInv', late \/ TipInv, LockerMove
    PROVE  [Chain!ChainNext]_(Chain!chainVars)
<1>1. CASE rows' = rows /\ late' = late
  BY <1>1 DEF Chain!chainVars, IsLatest
<1>2. ASSUME NEW r \in inflight, CommitRow(r), ~late' PROVE Chain!Extend(r.id)
  <2>1. ~late /\ TipInv
    BY <1>2 DEF CommitRow
  <2>2. TipOf(rows) = r.prev /\ TipOf(rows') = r.id
    BY <1>2, <2>1, CommitAtTip
  <2>3. /\ r.id \notin {l.id : l \in Links}
        /\ Links' = Links \cup {[id |-> r.id, prev |-> TipOf(rows)]}
    BY <1>2, <2>2, CommitLinks
  <2>. QED  BY <1>2, <2>1, <2>2, <2>3, Zenon DEF Chain!Extend, Chain!Add, Chain!Appended, Links, TipOf
<1>3. ASSUME NEW r \in inflight, CommitRow(r), late' PROVE Chain!Stray(r.id)
  <2>1. TipOf(rows') \in {TipOf(rows), r.id}
    BY <1>3, CommitMovesTip
  <2>2. /\ r.id \notin {l.id : l \in Links}
        /\ Links' = Links \cup {[id |-> r.id, prev |-> r.prev]}
        /\ r.prev \in {l.id : l \in Links} \cup {NoHash}
    BY <1>3, CommitLinks
  <2>. QED  BY <1>3, <2>1, <2>2, Zenon DEF Chain!Stray, Chain!Add, Chain!Appended, Links, TipOf
<1>4. \A r \in inflight : r.id \in Call
  BY DEF AuditInv, TypeOK, Row
<1>5. (\E r \in inflight : CommitRow(r)) \/ (rows' = rows /\ late' = late)
  BY MoveKeeps DEF AuditInv
<1>. QED  BY <1>1, <1>2, <1>3, <1>4, <1>5 DEF Chain!ChainNext

\* One process, and no late commit so far.
LEMMA SingleInvariant ==
    ASSUME OneInstance
    PROVE  Spec => [](AuditInv /\ LockFollowsCall /\ (late \/ TipInv))
<1>. DEFINE Inv == AuditInv /\ LockFollowsCall /\ (late \/ TipInv)
<1>1. Init => Inv
  BY AuditInit, LockInit, TipInit
<1>2. Inv /\ [Next]_vars => Inv'
  <2>. SUFFICES ASSUME Inv, [Next]_vars PROVE Inv'
    OBVIOUS
  <2>1. LockerMove
    BY NextIsMove DEF AuditInv
  <2>2. AuditInv' /\ LockFollowsCall'
    BY <2>1, AuditStep, LockStep DEF AuditInv
  <2>3. Alone
    BY HostAssumption DEF Alone, LockFollowsCall, OneInstance
  <2>4. late' \/ TipInv'
    <3>1. late => late'
      BY <2>1, MoveKeeps DEF AuditInv, CommitRow
    <3>. QED  BY <2>1, <2>3, <3>1, TipStep
  <2>. QED  BY <2>2, <2>4
<1>. QED  BY <1>1, <1>2, PTL DEF Spec

(***************************************************************************)
(* The table is one list from its first event to its tip, in the order of  *)
(* chain_seq, until a statement commits whose caller was gone.             *)
(***************************************************************************)
THEOREM ChainIsLinear ==
    ASSUME OneInstance
    PROVE  Spec => []LinkedInOrder
<1>1. late \/ TipInv => LinkedInOrder
  BY DEF TipInv, LinkedInOrder
<1>. QED  BY <1>1, SingleInvariant, PTL

(***************************************************************************)
(* No two events name the same predecessor, however calls, failed queries, *)
(* broken connections, stale append() callers and crashes interleave,      *)
(* until a statement commits whose caller was gone.                        *)
(***************************************************************************)
THEOREM ForkFreedom ==
    ASSUME OneInstance
    PROVE  Spec => [](late \/ NoFork)
<1>1. AuditInv /\ (late \/ TipInv) => late \/ NoFork
  BY TipDoesNotFork
<1>. QED  BY <1>1, SingleInvariant, PTL

(***************************************************************************)
(* Between the re-read of the tip and the commit of the INSERT nobody else *)
(* moves the tip, until a statement commits whose caller was gone.         *)
(***************************************************************************)
THEOREM NoStaleTip ==
    ASSUME OneInstance
    PROVE  Spec => []TipStillValid
<1>1. AuditInv /\ (late \/ TipInv) => TipStillValid
  BY DEF AuditInv, NamedInv, Rows, TipInv, TipStillValid
<1>. QED  BY <1>1, SingleInvariant, PTL

(***************************************************************************)
(* The locker of one process implements the chain of HashChain.tla, which  *)
(* is intact until a statement commits whose caller was gone.              *)
(***************************************************************************)
THEOREM LockerImplementsChain ==
    ASSUME OneInstance
    PROVE  Spec => ImplementsHashChain
<1>1. Init => Chain!ChainInit
  <2>. SUFFICES ASSUME Init PROVE Chain!ChainInit
    OBVIOUS
  <2>1. (CHOOSE h \in Hash : IsLatest(rows, h)) = NoHash
    BY DEF Init, IsLatest, Hash
  <2>2. (~late) = TRUE /\ {[id |-> r.id, prev |-> r.prev] : r \in rows} = {}
    BY DEF Init
  <2>. QED  BY <2>1, <2>2 DEF Chain!ChainInit
<1>. DEFINE Inv == AuditInv /\ LockFollowsCall /\ (late \/ TipInv)
<1>2. Inv /\ Inv' /\ [Next]_vars => [Chain!ChainNext]_(Chain!chainVars)
  BY NextIsMove, LockerRefines DEF AuditInv
<1>3. Spec => []Inv
  BY SingleInvariant
<1>. QED  BY <1>1, <1>2, <1>3, PTL DEF Spec, ImplementsHashChain, Chain!ChainSpec

-----------------------------------------------------------------------------
(* The deployment. *)

\* What a daemon has behind it at each stage of its start.
StageInv ==
    \A i \in Instance :
        /\ stage[i] \in {"locker", "spawn"} \cup Working => Migrations \subseteq schema
        /\ stage[i] \in {"spawn"} \cup Working => LockerParts \subseteq schema

\* What doctor saw is still so.
DoctorInv ==
    /\ doctor => schema = Schema /\ environment \notin {"noToken", "noDatabase"}
    /\ assured # {} => doctor

StartInv == DeploymentTypeOK /\ StageInv /\ ReadyBeforeWork /\ DoctorInv

LEMMA StartInit == DeploymentInit => StartInv
<1>. SUFFICES ASSUME DeploymentInit PROVE StartInv
  OBVIOUS
<1>1. TypeOK
  BY TypeInit DEF DeploymentInit
<1>2. doctor \in BOOLEAN /\ overlapped \in BOOLEAN /\ DoctorInv
  BY DEF DeploymentInit, DoctorInv
<1>3. edits \in 0..MaxEdits
  BY EditsAssumption DEF DeploymentInit
<1>4. DeploymentTypeOK
  BY <1>1, <1>2, <1>3 DEF DeploymentInit, DeploymentTypeOK, Schema
<1>5. StageInv /\ ReadyBeforeWork
  BY DEF DeploymentInit, Init, StageInv, ReadyBeforeWork, Working
<1>. QED  BY <1>2, <1>4, <1>5 DEF StartInv

-----------------------------------------------------------------------------
(* The kinds of steps. *)

Stages == {"load", "connect", "migrate", "locker", "spawn"}

LEMMA StartingStages == Starting = Stages
BY DEF Starting, Finds, Stages

Stopped(i) == Stop(i) /\ UNCHANGED <<environment, schema, doctor, overlapped, edits>>

Created(parts) ==
    /\ schema' = schema \cup parts /\ parts \subseteq Schema
    /\ UNCHANGED <<lockerVars, environment, stage, port, doctor, assured, overlapped, edits>>

Advance(i) ==
    /\ UNCHANGED <<lockerVars, environment, schema, doctor, edits>>
    /\ stage[i] \in Stages \cup Working \cup {"off"}
    /\ stage' = [stage EXCEPT ![i] = stage'[i]]
    /\ stage'[i] \in Stages \cup Working
    /\ port' \in {port, i} /\ (overlapped => overlapped')

\* A step of DeploymentNext stops a daemon, brings it further, creates a part
\* of the schema, or belongs to the locker or the operator.
LEMMA StepKinds ==
    ASSUME DeploymentTypeOK, DeploymentNext
    PROVE  \/ Work
           \/ Doctor \/ Edit
           \/ \E parts : Created(parts)
           \/ \E i \in Instance : Stopped(i) /\ (crashes' = crashes \/ CrashDaemon(i))
           \/ \E i \in Instance : Advance(i) /\ (Start(i) \/ StartUp(i))
<1>. USE DEF Exit, Move, Pass, Stages, Working
<1>1. ASSUME NEW i \in Instance, Start(i) PROVE Advance(i)
  BY <1>1 DEF Start, Advance, DeploymentTypeOK
<1>2. ASSUME NEW i \in Instance, StartUp(i)
      PROVE  \/ \E parts : Created(parts)
             \/ Stopped(i) /\ crashes' = crashes
             \/ Advance(i)
  <2>1. CASE Load(i) \/ Connect(i) \/ Migrated(i) \/ LockerReady(i) \/ Spawn(i)
    BY <2>1 DEF Load, Connect, Migrated, LockerReady, Spawn, Advance, DeploymentTypeOK
  <2>2. CASE ApplyMigration(i) \/ ApplyLocker(i)
    <3>1. PICK part \in Schema : Create(part)
      BY <2>2 DEF ApplyMigration, ApplyLocker, Schema
    <3>2. Created({part})
      BY <2>2, <3>1 DEF ApplyMigration, ApplyLocker, Create, Created
    <3>. QED  BY <3>2
  <2>3. CASE Refused(i) \/ Fails(i)
    BY <2>3 DEF Refused, Fails, Stopped
  <2>4. CASE Bind(i)
    BY <2>4 DEF Bind, Stopped, Advance, DeploymentTypeOK
  <2>. QED  BY <1>2, <2>1, <2>2, <2>3, <2>4 DEF StartUp
<1>3. CASE \E i \in Instance : CrashDaemon(i)
  BY <1>3 DEF CrashDaemon, Stopped
<1>4. CASE Migrate \/ TargetAdd
  <2>1. PICK part \in Schema : Create(part)
    BY <1>4 DEF Migrate, TargetAdd, ToolCreates, Schema
  <2>2. Created({part})
    BY <1>4, <2>1 DEF Migrate, TargetAdd, ToolCreates, Create, Created
  <2>. QED  BY <2>2
<1>. QED  BY <1>1, <1>2, <1>3, <1>4 DEF DeploymentNext

\* The steps of the locker in a deployment are steps of the locker.
LEMMA WorkIsLocker == Work => Next /\ UNCHANGED startVars
BY DEF Work, Next

\* To the locker, a step of a deployment is a step of its own, the end of a
\* process, or nothing.
LEMMA DeploymentIsMove ==
    ASSUME DeploymentTypeOK, [DeploymentNext]_deployVars
    PROVE  LockerMove
<1>. TypeOK /\ crashes \in 0..MaxCrashes
  BY DEF DeploymentTypeOK, TypeOK
<1>1. CASE Work
  BY <1>1, WorkIsLocker, NextIsMove
<1>2. ASSUME NEW i \in Instance, Stopped(i), crashes' = crashes \/ CrashDaemon(i) PROVE LockerMove
  <2>1. crashes' \in 0..MaxCrashes
    BY <1>2, CrashesAssumption DEF CrashDaemon
  <2>. QED  BY <1>2, <2>1 DEF Stopped, Stop, LockerMove
<1>3. CASE UNCHANGED lockerVars
  BY <1>3 DEF lockerVars, LockerMove
<1>. QED  BY <1>1, <1>2, <1>3, StepKinds DEF Doctor, Edit, Created, Advance, deployVars, lockerVars

LEMMA DeploymentType ==
    ASSUME DeploymentTypeOK, [DeploymentNext]_deployVars
    PROVE  DeploymentTypeOK'
<1>. USE EditsAssumption, StartingStages DEF DeploymentTypeOK
<1>. TypeOK'
  BY DeploymentIsMove, TypeStep
<1>1. CASE Work
  BY <1>1, WorkIsLocker DEF startVars
<1>2. CASE Doctor \/ Edit
  <2>1. edits' \in 0..MaxEdits
    <3>1. crashes \in Nat
      BY CrashesAssumption DEF TypeOK
    <3>. QED  BY <1>2, <3>1 DEF Doctor, Edit
  <2>. QED  BY <1>2, <2>1 DEF Doctor, Edit
<1>3. ASSUME NEW parts, Created(parts) PROVE DeploymentTypeOK'
  BY <1>3 DEF Created
<1>4. ASSUME NEW i \in Instance, Stopped(i) PROVE DeploymentTypeOK'
  BY <1>4 DEF Stopped, Stop
<1>5. ASSUME NEW i \in Instance, Advance(i), Start(i) \/ StartUp(i) PROVE DeploymentTypeOK'
  <2>1. assured' \in SUBSET Instance /\ overlapped' \in BOOLEAN
    BY <1>5 DEF Start, StartUp, Load, Connect, ApplyMigration, Migrated, ApplyLocker,
       LockerReady, Spawn, Bind, Refused, Fails, Exit, Stop
  <2>. QED  BY <1>5, <2>1 DEF Advance
<1>6. CASE UNCHANGED deployVars
  BY <1>6 DEF deployVars, startVars
<1>. QED  BY <1>1, <1>2, <1>3, <1>4, <1>5, <1>6, StepKinds

-----------------------------------------------------------------------------
(* A start. *)

\* Work begins, and goes on, with all of the schema.
LEMMA WorkReady ==
    ASSUME StartInv, Work
    PROVE  ReadyBeforeWork'
<1>. SUFFICES ASSUME NEW d \in Call, pc'[d] # "idle" PROVE schema' = Schema
  BY DEF ReadyBeforeWork
<1>1. schema' = schema
  BY DEF Work, startVars
<1>2. CASE pc[d] # "idle"
  BY <1>1, <1>2 DEF StartInv, ReadyBeforeWork
<1>3. CASE pc[d] = "idle"
  <2>1. \E c \in Call : Begins(Host[c]) /\ BeginRecord(c)
    <3>1. ASSUME NEW c \in Call, CallStep(c) \/ QueryFails(c) \/ LoseConnection(c) PROVE FALSE
      BY <1>3, <3>1 DEF CallStep, Acquire, ReadLatest, CheckTip, RejectFork, SubmitInsert, Answer,
         QueryFails, LoseConnection, Finish, Goto, StartInv, DeploymentTypeOK, TypeOK
    <3>2. ~Server
      BY <1>3 DEF Server, CommitRow, AbortRow
    <3>. QED  BY <3>1, <3>2 DEF Work
  <2>. QED  BY <1>1, <2>1, HostAssumption DEF Begins, StartInv, StageInv, DeploymentTypeOK, Schema
<1>. QED  BY <1>2, <1>3

LEMMA StartStep ==
    ASSUME StartInv, [DeploymentNext]_deployVars
    PROVE  StartInv'
<1>1. DeploymentTypeOK'
  BY DeploymentType DEF StartInv
<1>. USE DEF StartInv
<1>2. CASE Work
  <2>1. StageInv' /\ DoctorInv'
    BY <1>2, WorkIsLocker DEF startVars, StageInv, DoctorInv
  <2>. QED  BY <1>1, <1>2, <2>1, WorkReady
<1>3. CASE Doctor
  <2>1. StageInv' /\ ReadyBeforeWork'
    BY <1>3 DEF Doctor, StageInv, ReadyBeforeWork, lockerVars, vars
  <2>2. Healthy => schema = Schema /\ environment \notin {"noToken", "noDatabase"}
    BY DEF Healthy, DeploymentTypeOK, Schema, Migrations, LockerParts
  <2>. QED  BY <1>1, <1>3, <2>1, <2>2 DEF Doctor, DoctorInv
<1>4. CASE Edit
  BY <1>1, <1>4 DEF Edit, StageInv, ReadyBeforeWork, DoctorInv, lockerVars, vars
<1>5. ASSUME NEW parts, Created(parts) PROVE StartInv'
  BY <1>1, <1>5 DEF Created, StageInv, ReadyBeforeWork, DoctorInv, lockerVars, vars,
     DeploymentTypeOK
<1>6. ASSUME NEW i \in Instance, Stopped(i) PROVE StartInv'
  <2>1. \A j \in Instance : stage'[j] \in {stage[j], "off"}
    BY <1>6 DEF Stopped, Stop, DeploymentTypeOK
  <2>2. \A c \in Call : pc'[c] # "idle" => pc[c] # "idle"
    BY <1>6 DEF Stopped, Stop, Die, DeploymentTypeOK, TypeOK
  <2>3. schema' = schema /\ environment' = environment /\ doctor' = doctor
        /\ assured' \subseteq assured
    BY <1>6 DEF Stopped, Stop
  <2>4. StageInv'
    BY <2>1, <2>3 DEF StageInv, Working
  <2>5. ReadyBeforeWork' /\ DoctorInv'
    BY <2>2, <2>3 DEF ReadyBeforeWork, DoctorInv
  <2>. QED  BY <1>1, <2>4, <2>5
<1>7. ASSUME NEW i \in Instance, Advance(i), Start(i) \/ StartUp(i) PROVE StartInv'
  <2>1. ReadyBeforeWork'
    BY <1>7 DEF Advance, ReadyBeforeWork, lockerVars, vars
  <2>2. /\ \A j \in Instance \ {i} : stage'[j] = stage[j]
        /\ schema' = schema /\ environment' = environment /\ doctor' = doctor
        /\ stage'[i] \in Stages \cup Working
    BY <1>7 DEF Advance, DeploymentTypeOK
  <2>3. DoctorInv'
    <3>1. assured' \subseteq assured \/ doctor
      BY <1>7 DEF Start, StartUp, Load, Connect, ApplyMigration, Migrated, ApplyLocker,
         LockerReady, Spawn, Bind, Refused, Fails, Exit, Stop
    <3>. QED  BY <2>2, <3>1 DEF DoctorInv
  <2>4. /\ stage'[i] \in {"locker", "spawn"} \cup Working => Migrations \subseteq schema
        /\ stage'[i] \in {"spawn"} \cup Working => LockerParts \subseteq schema
    BY <1>7, <2>2 DEF Start, StartUp, Load, Connect, ApplyMigration, Migrated, ApplyLocker,
       LockerReady, Spawn, Bind, Refused, Fails, Exit, Stop, Pass, Move, StageInv, Stages, Working,
       DeploymentTypeOK
  <2>5. StageInv'
    BY <2>2, <2>4 DEF StageInv
  <2>. QED  BY <1>1, <2>1, <2>3, <2>5
<1>8. CASE UNCHANGED deployVars
  BY <1>1, <1>8 DEF deployVars, startVars, lockerVars, vars, StageInv, ReadyBeforeWork, DoctorInv
<1>. QED  BY <1>2, <1>3, <1>4, <1>5, <1>6, <1>7, <1>8, StepKinds

LEMMA StartInvariant == DeploymentSpec => []StartInv
<1>1. StartInv /\ [DeploymentNext]_deployVars => StartInv'
  BY StartStep
<1>. QED  BY <1>1, StartInit, PTL DEF DeploymentSpec

(***************************************************************************)
(* Every reachable state of a deployment is well typed.                    *)
(***************************************************************************)
THEOREM DeploymentTypeCorrect == DeploymentSpec => []DeploymentTypeOK
<1>1. StartInv => DeploymentTypeOK
  BY DEF StartInv
<1>. QED  BY <1>1, StartInvariant, PTL

(***************************************************************************)
(* The chain is used only with the whole schema in place, however many     *)
(* starts, tools and crashes came before.                                  *)
(***************************************************************************)
THEOREM WorkIsReady == DeploymentSpec => []ReadyBeforeWork
<1>1. StartInv => ReadyBeforeWork
  BY DEF StartInv
<1>. QED  BY <1>1, StartInvariant, PTL

(***************************************************************************)
(* After doctor found nothing, and while nobody changes the environment, a *)
(* start creates nothing, and is refused for nothing that doctor looks at. *)
(***************************************************************************)
THEOREM DoctorTellsTheTruth == DeploymentSpec => DoctorIsHonest
<1>. DEFINE Honest == \A i \in assured :
        /\ ~ApplyMigration(i) /\ ~ApplyLocker(i)
        /\ Refused(i) => environment \in Unlooked
<1>1. ASSUME StartInv PROVE Honest
  <2>. SUFFICES ASSUME NEW i \in assured PROVE
                /\ ~ApplyMigration(i) /\ ~ApplyLocker(i)
                /\ Refused(i) => environment \in Unlooked
    OBVIOUS
  <2>1. schema = Schema /\ environment \in Environment \ {"noToken", "noDatabase"}
    BY <1>1 DEF StartInv, DoctorInv, DeploymentTypeOK
  <2>2. ~ApplyMigration(i) /\ ~ApplyLocker(i)
    BY <2>1 DEF ApplyMigration, ApplyLocker, Create, Schema
  <2>3. Refused(i) => environment \in Unlooked
    BY <2>1 DEF Refused, Environment, Unlooked, Finds, Starting
  <2>. QED  BY <2>2, <2>3
<1>. QED  BY <1>1, StartInvariant, PTL DEF DeploymentSpec, DoctorIsHonest

-----------------------------------------------------------------------------
(* Forks. *)

\* A call of a daemon at work stands between the lock and its answer.
CallerInv == \A c \in Call : pc[c] \notin {"idle"} \cup Final => stage[Host[c]] \in Working

\* Until two daemons were at work together only one is.
AloneInv ==
    overlapped \/ \A i, j \in Instance : stage[i] \in Working /\ stage[j] \in Working => i = j

\* With one writer, and no late commit, the rows are one list.
WriterInv == CallerInv /\ AloneInv /\ (overlapped \/ late \/ TipInv)

DaemonInv == StartInv /\ AuditInv /\ LockFollowsCall /\ WriterInv

LEMMA DaemonInit == DeploymentInit => DaemonInv
<1>1. DeploymentInit => CallerInv /\ AloneInv
  BY DEF DeploymentInit, Init, CallerInv, AloneInv, Working
<1>. QED  BY <1>1, StartInit, AuditInit, LockInit, TipInit DEF DeploymentInit, DaemonInv, WriterInv

\* Of one writer, at most one call is in its critical section.
LEMMA OneWriterIsAlone ==
    ASSUME DaemonInv, ~overlapped
    PROVE  Alone
<1>. SUFFICES ASSUME NEW c \in Call, NEW d \in Call, pc[c] \in Critical, pc[d] \in Critical
              PROVE  c = d
  BY DEF Alone
<1>1. stage[Host[c]] \in Working /\ stage[Host[d]] \in Working
  BY DEF DaemonInv, WriterInv, CallerInv, Critical, Final
<1>2. Host[c] = Host[d]
  BY <1>1, HostAssumption DEF DaemonInv, WriterInv, AloneInv
<1>. QED  BY <1>2, HostAssumption DEF DaemonInv, LockFollowsCall

\* A daemon that comes to its tasks while another has its own is noticed.
LEMMA AdvanceAlone ==
    ASSUME StartInv, AloneInv, NEW i \in Instance, Advance(i), Start(i) \/ StartUp(i)
    PROVE  AloneInv' /\ \A j \in Instance : stage[j] \in Working => stage'[j] \in Working
<1>. USE DEF StartInv, DeploymentTypeOK
<1>1. stage' = [stage EXCEPT ![i] = stage'[i]] /\ (overlapped => overlapped')
  BY DEF Advance
<1>2. CASE Spawn(i)
  BY <1>2 DEF Spawn, Pass, Move, AloneInv, Working
<1>3. CASE ~Spawn(i)
  <2>1. stage'[i] \in Working <=> stage[i] \in Working
    BY <1>3 DEF Advance, Start, StartUp, Load, Connect, ApplyMigration, Migrated, ApplyLocker,
       LockerReady, Bind, Refused, Fails, Exit, Stop, Pass, Move, Stages, Working
  <2>. QED  BY <1>1, <2>1 DEF AloneInv
<1>. QED  BY <1>2, <1>3

\* Only a daemon at work calls, and its calls end with it.
LEMMA CallerStep ==
    ASSUME StartInv, CallerInv, AloneInv, [DeploymentNext]_deployVars
    PROVE  CallerInv' /\ AloneInv' /\ (overlapped => overlapped')
<1>. USE HostAssumption DEF StartInv, DeploymentTypeOK, TypeOK
<1>1. CASE Work
  <2>1. UNCHANGED <<stage, overlapped>> /\ AloneInv'
    BY <1>1 DEF Work, startVars, AloneInv
  <2>2. ASSUME NEW c \in Call, BeginRecord(c), Begins(Host[c]) PROVE CallerInv'
    BY <2>1, <2>2 DEF BeginRecord, Begins, Goto, CallerInv
  <2>3. ASSUME NEW c \in Call, CallStep(c) \/ QueryFails(c) \/ LoseConnection(c) PROVE CallerInv'
    <3>1. /\ pc[c] \notin {"idle"} \cup Final
          /\ pc' = [pc EXCEPT ![c] = pc'[c]]
      BY <2>3 DEF CallStep, Acquire, ReadLatest, CheckTip, RejectFork, SubmitInsert, Answer,
         QueryFails, LoseConnection, Finish, Goto, Final
    <3>. QED  BY <2>1, <3>1 DEF CallerInv
  <2>4. CASE Server
    BY <2>1, <2>4 DEF Server, CommitRow, AbortRow, CallerInv
  <2>. QED  BY <1>1, <2>1, <2>2, <2>3, <2>4 DEF Work
<1>2. ASSUME NEW i \in Instance, Stopped(i) PROVE CallerInv' /\ AloneInv' /\ (overlapped => overlapped')
  <2>1. stage' = [stage EXCEPT ![i] = "off"] /\ overlapped' = overlapped
        /\ pc' = [c \in Call |-> IF Host[c] = i /\ pc[c] \notin Final \cup {"idle"}
                                 THEN "dead" ELSE pc[c]]
    BY <1>2 DEF Stopped, Stop, Die
  <2>2. CallerInv'
    BY <2>1 DEF CallerInv, Final
  <2>3. \A j \in Instance : stage'[j] \in Working => stage[j] \in Working
    BY <2>1 DEF Working
  <2>. QED  BY <2>1, <2>2, <2>3 DEF AloneInv
<1>3. ASSUME NEW i \in Instance, Advance(i), Start(i) \/ StartUp(i)
      PROVE  CallerInv' /\ AloneInv' /\ (overlapped => overlapped')
  BY <1>3, AdvanceAlone DEF CallerInv, Advance, lockerVars, vars
<1>4. CASE UNCHANGED <<lockerVars, stage, overlapped>>
  BY <1>4 DEF CallerInv, AloneInv, lockerVars, vars
<1>. QED  BY <1>1, <1>2, <1>3, <1>4, StepKinds DEF Doctor, Edit, Created, deployVars, startVars

LEMMA DaemonStep ==
    ASSUME DaemonInv, [DeploymentNext]_deployVars
    PROVE  DaemonInv'
<1>. USE DEF DaemonInv
<1>1. LockerMove
  BY DeploymentIsMove DEF StartInv
<1>2. StartInv' /\ AuditInv' /\ LockFollowsCall'
  BY <1>1, StartStep, AuditStep, LockStep DEF AuditInv
<1>3. CallerInv' /\ AloneInv' /\ (overlapped => overlapped')
  BY CallerStep DEF WriterInv
<1>4. late => late'
  BY <1>1, MoveKeeps DEF AuditInv, CommitRow
<1>5. overlapped' \/ late' \/ TipInv'
  BY <1>1, <1>3, <1>4, OneWriterIsAlone, TipStep DEF WriterInv
<1>. QED  BY <1>2, <1>3, <1>5 DEF WriterInv

LEMMA DaemonInvariant == DeploymentSpec => []DaemonInv
<1>1. DaemonInv /\ [DeploymentNext]_deployVars => DaemonInv'
  BY DaemonStep
<1>. QED  BY <1>1, DaemonInit, PTL DEF DeploymentSpec

(***************************************************************************)
(* verify_chain() reports every fork that daemons on one database make.    *)
(***************************************************************************)
THEOREM DaemonsForksAreSeen == DeploymentSpec => []ForksAreReported
<1>1. DaemonInv => ForksAreReported
  BY AuditFindsForks DEF DaemonInv
<1>. QED  BY <1>1, DaemonInvariant, PTL

(***************************************************************************)
(* Only two daemons at work at once, or a statement that commits after its *)
(* caller is gone, fork the chain.                                         *)
(***************************************************************************)
THEOREM ForkTakesTwo == DeploymentSpec => []ForkNeedsTwoWriters
<1>1. DaemonInv => ForkNeedsTwoWriters
  BY TipDoesNotFork DEF DaemonInv, WriterInv, ForkNeedsTwoWriters
<1>. QED  BY <1>1, DaemonInvariant, PTL

(***************************************************************************)
(* Any number of daemons implement one chain, which is intact until two of *)
(* them are at work together or a statement commits late; from then on it  *)
(* still only grows, one fresh event at a time.                            *)
(***************************************************************************)
THEOREM DaemonsImplementChain == DeploymentSpec => ImplementsSharedChain
<1>1. DeploymentInit => SharedChain!ChainInit
  <2>. SUFFICES ASSUME DeploymentInit PROVE SharedChain!ChainInit
    OBVIOUS
  <2>1. (CHOOSE h \in Hash : IsLatest(rows, h)) = NoHash
    BY DEF DeploymentInit, Init, IsLatest, Hash
  <2>2. (~late /\ ~overlapped) = TRUE /\ {[id |-> r.id, prev |-> r.prev] : r \in rows} = {}
    BY DEF DeploymentInit, Init
  <2>. QED  BY <2>1, <2>2 DEF SharedChain!ChainInit
<1>2. ASSUME DaemonInv, DaemonInv', [DeploymentNext]_deployVars
      PROVE  [SharedChain!ChainNext]_(SharedChain!chainVars)
  <2>. USE DEF DaemonInv
  <2>1. LockerMove
    BY <1>2, DeploymentIsMove DEF StartInv
  <2>2. (overlapped => overlapped') /\ (late => late')
    <3>1. overlapped => overlapped'
      BY <1>2, CallerStep DEF WriterInv
    <3>2. late => late'
      BY <1>2, <2>1, MoveKeeps DEF AuditInv, CommitRow
    <3>. QED  BY <3>1, <3>2
  <2>3. CASE rows' = rows /\ late' = late /\ overlapped' = overlapped
    BY <2>3 DEF SharedChain!chainVars, IsLatest
  <2>4. CASE rows' = rows /\ late' = late /\ overlapped'
    BY <2>4, Zenon DEF SharedChain!Release, SharedChain!ChainNext, IsLatest
  <2>5. ASSUME NEW r \in inflight, CommitRow(r), ~late', ~overlapped'
        PROVE  SharedChain!Extend(r.id)
    <3>1. ~late /\ ~overlapped /\ TipInv
      BY <1>2, <2>2, <2>5 DEF WriterInv
    <3>2. TipOf(rows) = r.prev /\ TipOf(rows') = r.id
      BY <1>2, <2>5, <3>1, CommitAtTip
    <3>3. /\ r.id \notin {l.id : l \in Links}
          /\ Links' = Links \cup {[id |-> r.id, prev |-> TipOf(rows)]}
      BY <1>2, <2>5, <3>2, CommitLinks
    <3>. QED  BY <2>5, <3>1, <3>2, <3>3, Zenon
         DEF SharedChain!Extend, SharedChain!Add, SharedChain!Appended, Links, TipOf
  <2>6. ASSUME NEW r \in inflight, CommitRow(r), late' \/ overlapped'
        PROVE  SharedChain!Stray(r.id)
    <3>1. TipOf(rows') \in {TipOf(rows), r.id}
      BY <1>2, <2>6, CommitMovesTip
    <3>2. /\ r.id \notin {l.id : l \in Links}
          /\ Links' = Links \cup {[id |-> r.id, prev |-> r.prev]}
          /\ r.prev \in {l.id : l \in Links} \cup {NoHash}
      BY <1>2, <2>6, CommitLinks
    <3>. QED  BY <2>6, <3>1, <3>2, Zenon
         DEF SharedChain!Stray, SharedChain!Add, SharedChain!Appended, Links, TipOf
  <2>7. \A r \in inflight : r.id \in Call
    BY <1>2 DEF AuditInv, TypeOK, Row
  <2>8. (\E r \in inflight : CommitRow(r)) \/ (rows' = rows /\ late' = late)
    BY <1>2, <2>1, MoveKeeps DEF AuditInv
  <2>9. overlapped \in BOOLEAN /\ overlapped' \in BOOLEAN
    BY <1>2 DEF StartInv, DeploymentTypeOK
  <2>10. overlapped' \/ overlapped' = overlapped
    BY <2>2, <2>9
  <2>. QED  BY <2>3, <2>4, <2>5, <2>6, <2>7, <2>8, <2>10 DEF SharedChain!ChainNext
<1>. QED  BY <1>1, <1>2, DaemonInvariant, PTL
     DEF DeploymentSpec, ImplementsSharedChain, SharedChain!ChainSpec

=============================================================================
