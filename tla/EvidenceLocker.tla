--------------------------- MODULE EvidenceLocker ---------------------------
(***************************************************************************)
(* The Evidence Locker of src/evidence.rs: callers append events to the    *)
(* table evidence_chain, each event naming the hash of the one before it.  *)
(*                                                                         *)
(* A call is one invocation of record() or append() and creates one event  *)
(* (a fresh UUID), so a call also names its event and, SHA-256 being       *)
(* taken as injective, the event's hash.  A process that owns an           *)
(* EvidenceLocker is an instance: the append_lock is shared by the clones  *)
(* of one locker (Arc<Mutex>) and by nobody else.                          *)
(*                                                                         *)
(* The database is modelled at the granularity the code can observe: a     *)
(* SELECT reads the committed rows; an INSERT takes the next chain_seq     *)
(* when it starts executing and becomes visible when it commits; the       *)
(* server may also fail it, and the connection may break while it runs.    *)
(* Nothing ties a statement to its client: one whose caller was told Err,  *)
(* or has died, may still commit, and `late` remembers that one did.       *)
(*                                                                         *)
(* An operator marked "Mistake:" is not part of the model: it is a         *)
(* plausible wrong version of the definition below it, kept to show which  *)
(* property would notice.                                                  *)
(***************************************************************************)
EXTENDS Integers

CONSTANTS
    Call,         \* the record() and append() invocations
    Instance,     \* the running processes that use one database
    Host,         \* the instance each call runs in
    NoHash,       \* Option::None as a prev_hash
    Free,         \* nobody holds an append_lock
    MaxCrashes    \* bound on the number of process crashes

ASSUME HostAssumption    == Host \in [Call -> Instance]
ASSUME NullAssumption    == NoHash \notin Call /\ Free \notin Call
ASSUME CrashesAssumption == MaxCrashes \in Nat

VARIABLES
    rows,      \* the committed rows of evidence_chain
    inflight,  \* the rows of INSERTs the server is executing
    nextSeq,   \* the next value of the sequence behind chain_seq
    lock,      \* the holder of each instance's append_lock
    pc,        \* where each call stands
    prev,      \* the prev_hash of the event each call carries
    late,      \* history: has an INSERT committed whose caller was gone?
    crashes    \* the number of crashes so far

dbVars == <<rows, inflight, nextSeq>>
vars   == <<rows, inflight, nextSeq, lock, pc, prev, late, crashes>>

Hash  == Call \cup {NoHash}
Row   == [id : Call, prev : Hash, seq : Nat]

\* The steps of a call that run under the append_lock ...
Critical == {"read", "check", "insert", "sent"}
\* ... and the ways a call ends: Ok, Err, or its process died.
Final    == {"ok", "err", "dead"}
Step     == {"idle", "lockRecord", "lockAppend"} \cup Critical \cup Final

TypeOK ==
    /\ rows \subseteq Row
    /\ inflight \subseteq Row
    /\ nextSeq \in Nat
    /\ lock \in [Instance -> Call \cup {Free}]
    /\ pc \in [Call -> Step]
    /\ prev \in [Call -> Hash]
    /\ late \in BOOLEAN
    /\ crashes \in 0..MaxCrashes

-----------------------------------------------------------------------------
\* get_latest_hash: h is the hash of the row with the greatest chain_seq.
IsLatest(S, h) ==
    IF S = {} THEN h = NoHash
    ELSE \E r \in S : r.id = h /\ \A s \in S : s.seq <= r.seq

\* Leaving record() or append() drops the guard of the append_lock.
Finish(c, outcome) ==
    /\ pc' = [pc EXCEPT ![c] = outcome]
    /\ lock' = [lock EXCEPT ![Host[c]] = Free]

Goto(c, from, to) ==
    /\ pc[c] = from
    /\ pc' = [pc EXCEPT ![c] = to]

\* The rows below r in chain_seq order.
Below(S, r) == {s \in S : s.seq < r.seq}

Init ==
    /\ rows = {}
    /\ inflight = {}
    /\ nextSeq = 1
    /\ lock = [i \in Instance |-> Free]
    /\ pc = [c \in Call |-> "idle"]
    /\ prev = [c \in Call |-> NoHash]
    /\ late = FALSE
    /\ crashes = 0

\* record() is called and waits for the lock.
BeginRecord(c) ==
    /\ Goto(c, "idle", "lockRecord")
    /\ UNCHANGED <<dbVars, lock, prev, late, crashes>>

\* Mistake: the latest row is handed out where its hash was asked for.
BeginAppend_WholeRow(c) ==
    /\ Goto(c, "idle", "lockAppend")
    /\ \E r \in rows : prev' = [prev EXCEPT ![c] = r]
    /\ UNCHANGED <<dbVars, lock, late, crashes>>

\* A caller of append() builds its event from get_latest_hash() first,
\* without the lock, and then waits for it.
BeginAppend(c) ==
    /\ Goto(c, "idle", "lockAppend")
    /\ \E h \in Hash : IsLatest(rows, h) /\ prev' = [prev EXCEPT ![c] = h]
    /\ UNCHANGED <<dbVars, lock, late, crashes>>

\* Mistake: every clone of the locker has a lock of its own.
Acquire_OwnLock(c) ==
    /\ \/ Goto(c, "lockRecord", "read")
       \/ Goto(c, "lockAppend", "check")
    /\ UNCHANGED <<dbVars, lock, prev, late, crashes>>

Acquire(c) ==
    /\ lock[Host[c]] = Free
    /\ lock' = [lock EXCEPT ![Host[c]] = c]
    /\ \/ Goto(c, "lockRecord", "read")
       \/ Goto(c, "lockAppend", "check")
    /\ UNCHANGED <<dbVars, prev, late, crashes>>

\* record(): read the tip and build the event on it.
ReadLatest(c) ==
    /\ Goto(c, "read", "check")
    /\ \E h \in Hash : IsLatest(rows, h) /\ prev' = [prev EXCEPT ![c] = h]
    /\ UNCHANGED <<dbVars, lock, late, crashes>>

\* Mistake: append() trusts the prev_hash its caller chose.
CheckTip_NoReread(c) ==
    /\ Goto(c, "check", "insert")
    /\ UNCHANGED <<dbVars, lock, prev, late, crashes>>

\* append_locked(): the tip is read again; the event goes on ...
CheckTip(c) ==
    /\ IsLatest(rows, prev[c])
    /\ Goto(c, "check", "insert")
    /\ UNCHANGED <<dbVars, lock, prev, late, crashes>>

\* Mistake: a rejected append() forgets to drop the guard.
RejectFork_KeepsLock(c) ==
    /\ Goto(c, "check", "err")
    /\ ~IsLatest(rows, prev[c])
    /\ UNCHANGED <<dbVars, lock, prev, late, crashes>>

\* ... or is rejected as a fork.
RejectFork(c) ==
    /\ pc[c] = "check"
    /\ ~IsLatest(rows, prev[c])
    /\ Finish(c, "err")
    /\ UNCHANGED <<dbVars, prev, late, crashes>>

\* Either SELECT, or the INSERT before it reached the server, may fail.
QueryFails(c) ==
    /\ pc[c] \in {"read", "check", "insert"}
    /\ Finish(c, "err")
    /\ UNCHANGED <<dbVars, prev, late, crashes>>

\* The server starts the INSERT: nextval gives the row its chain_seq.
SubmitInsert(c) ==
    /\ Goto(c, "insert", "sent")
    /\ inflight' = inflight \cup {[id |-> c, prev |-> prev[c], seq |-> nextSeq]}
    /\ nextSeq' = nextSeq + 1
    /\ UNCHANGED <<rows, lock, prev, late, crashes>>

\* The INSERT commits, whether its caller still waits for it or not ...
CommitRow(r) ==
    /\ r \in inflight
    /\ rows' = rows \cup {r}
    /\ inflight' = inflight \ {r}
    /\ late' = (late \/ pc[r.id] # "sent")
    /\ UNCHANGED <<nextSeq, lock, pc, prev, crashes>>

\* ... or the server fails it; its chain_seq is not given back.
AbortRow(r) ==
    /\ r \in inflight
    /\ inflight' = inflight \ {r}
    /\ UNCHANGED <<rows, nextSeq, lock, pc, prev, late, crashes>>

\* Mistake: the error of the INSERT is swallowed.
Answer_AlwaysOk(c) ==
    /\ pc[c] = "sent"
    /\ \A r \in inflight : r.id # c
    /\ Finish(c, "ok")
    /\ UNCHANGED <<dbVars, prev, late, crashes>>

\* The INSERT's answer reaches the caller.
Answer(c) ==
    /\ pc[c] = "sent"
    /\ \A r \in inflight : r.id # c
    /\ Finish(c, IF \E r \in rows : r.id = c THEN "ok" ELSE "err")
    /\ UNCHANGED <<dbVars, prev, late, crashes>>

\* The connection breaks before the answer: execute() returns an error
\* whatever became of the row, and drops the lock.  The statement goes on.
LoseConnection(c) ==
    /\ pc[c] = "sent"
    /\ Finish(c, "err")
    /\ UNCHANGED <<dbVars, prev, late, crashes>>

\* A process ends: its calls are gone and so is its append_lock; what it sent
\* to the server is there.
Die(i) ==
    LET active == {c \in Call : Host[c] = i /\ pc[c] \notin Final \cup {"idle"}}
    IN  /\ pc' = [c \in Call |-> IF c \in active THEN "dead" ELSE pc[c]]
        /\ lock' = [lock EXCEPT ![i] = Free]
        /\ UNCHANGED <<dbVars, prev, late>>

\* It dies of itself and is started again.
Crash(i) ==
    /\ crashes < MaxCrashes
    /\ crashes' = crashes + 1
    /\ Die(i)

CallStep(c) ==
    \/ Acquire(c) \/ ReadLatest(c) \/ CheckTip(c) \/ RejectFork(c)
    \/ SubmitInsert(c) \/ Answer(c)

Server == \E r \in inflight : CommitRow(r) \/ AbortRow(r)

Next ==
    \/ \E c \in Call : BeginRecord(c) \/ BeginAppend(c)
    \/ \E c \in Call : CallStep(c) \/ QueryFails(c) \/ LoseConnection(c)
    \/ Server
    \/ \E i \in Instance : Crash(i)

Spec == Init /\ [][Next]_vars

(***************************************************************************)
(* The runtime polls a ready task again and again (weak fairness of a      *)
(* call's steps), hands the tokio Mutex to its waiters in FIFO order       *)
(* (strong fairness of Acquire), and the server decides every INSERT.      *)
(* Nothing makes a caller call, a connection break or a process crash.     *)
(***************************************************************************)
Fairness ==
    /\ \A c \in Call : WF_vars(CallStep(c)) /\ SF_vars(Acquire(c))
    /\ WF_vars(Server)

FairSpec == Spec /\ Fairness

-----------------------------------------------------------------------------
(***************************************************************************)
(* Every committed row names the row just below it in chain_seq order, and *)
(* the first one names nothing: this is what verify_chain() walks.  The    *)
(* append_lock alone cannot promise more than "until a statement commits   *)
(* whose caller is gone": such a row was built on a tip that the calls     *)
(* after it may have moved.                                                *)
(***************************************************************************)
LinkedInOrder ==
    late \/ \A r \in rows : IsLatest(Below(rows, r), r.prev)

(***************************************************************************)
(* No fork: two different rows never name the same predecessor             *)
(* ("chain forks are rejected", SECURITY_MODEL.md:73).                     *)
(***************************************************************************)
NoFork == \A r, s \in rows : r.prev = s.prev => r = s

(***************************************************************************)
(* record() answering Ok means the event is in the chain for good: Ok      *)
(* calls have their row, with the prev_hash they built it on, whatever     *)
(* other statements commit late and whichever processes crash.             *)
(***************************************************************************)
OkIsDurable ==
    \A c \in Call : pc[c] = "ok" =>
        \E r \in rows : r.id = c /\ r.prev = prev[c]

(***************************************************************************)
(* The table only grows, one event at a time: no step of any process       *)
(* rewrites or removes an event (no crash, retry or rejection does).       *)
(***************************************************************************)
AppendOnly == [][\A r \in rows : r \in rows']_rows

(***************************************************************************)
(* At most one call of an instance is between the re-read of the tip and   *)
(* the end of its INSERT, even across crashes: until a statement commits   *)
(* late, the tip it read is still the tip.                                 *)
(***************************************************************************)
TipStillValid ==
    \A c \in Call :
        pc[c] = "insert" \/ (pc[c] = "sent" /\ \E r \in inflight : r.id = c) =>
            late \/ IsLatest(rows, prev[c])

(***************************************************************************)
(* A call that waits for the lock or holds it ends, whatever the others    *)
(* do: no caller can leave the append_lock taken.                          *)
(***************************************************************************)
CallsFinish == \A c \in Call : pc[c] # "idle" ~> pc[c] \in Final

-----------------------------------------------------------------------------
\* verify_chain() on S: the rows whose prev_hash is not the hash of the row
\* just below.  The first row has none below and its prev_hash is not read.
\* Mistake: a row passes when any lower row has the hash it names.
BrokenLinks_AnyLower(S) ==
    {r \in S : Below(S, r) # {} /\ \A s \in Below(S, r) : s.id # r.prev}

BrokenLinks(S) ==
    {r \in S : Below(S, r) # {} /\ ~IsLatest(Below(S, r), r.prev)}

(***************************************************************************)
(* The auditor sees every fork: whatever several processes, crashes and    *)
(* late commits did to the table, verify_chain() reports no broken link    *)
(* only when no two rows name the same predecessor.                        *)
(***************************************************************************)
ForksAreReported == BrokenLinks(rows) = {} => NoFork

-----------------------------------------------------------------------------
\* The chain that the committed rows represent.  It is intact until a
\* statement commits whose caller was gone.
Chain == INSTANCE HashChain WITH
    Event  <- Call,
    links  <- {[id |-> r.id, prev |-> r.prev] : r \in rows},
    tip    <- CHOOSE h \in Hash : IsLatest(rows, h),
    intact <- ~late

(***************************************************************************)
(* The locker implements the abstract chain: a committing INSERT extends   *)
(* it at its tip and every other step leaves it alone.  The INSERT of a    *)
(* caller that is gone is the stray event of the abstract chain, and only  *)
(* it is; even then events are added one at a time, to events that exist.  *)
(***************************************************************************)
ImplementsHashChain == Chain!ChainSpec

=============================================================================
