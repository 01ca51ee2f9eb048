----------------------------- MODULE Deployment -----------------------------
(***************************************************************************)
(* Daemons on one database, from their start to their end: main.rs and the *)
(* commands of cli.rs that an operator runs around it (doctor, migrate,    *)
(* target add).  A daemon is an instance of EvidenceLocker, whose calls it *)
(* makes while its tasks run.                                              *)
(*                                                                         *)
(* run_daemon() checks its configuration, connects, migrates the database, *)
(* spawns the tasks that produce and consume envelopes, and only then      *)
(* binds its address.  Nothing but the address keeps two daemons apart, so *)
(* a second one is at work on the evidence chain until its bind fails.     *)
(*                                                                         *)
(* Operators marked "Mistake:" are plausible wrong versions of the         *)
(* definition below them.                                                  *)
(***************************************************************************)
EXTENDS EvidenceLocker

CONSTANTS
    Nobody,   \* nobody listens on the address
    MaxEdits  \* bound on the crashes and the changes of the environment together

ASSUME NobodyAssumption == Nobody \notin Instance
ASSUME EditsAssumption  == MaxEdits \in Nat

VARIABLES
    environment, \* what a daemon would find when it starts
    schema,      \* the parts of the schema that exist
    stage,       \* how far each daemon has come
    port,        \* who listens on the address
    doctor,      \* did doctor find nothing, in the environment as it is?
    assured,     \* the daemons started since it did
    overlapped,  \* were two daemons ever at work together?
    edits        \* the changes of the environment so far

startVars == <<environment, schema, stage, port, doctor, assured, overlapped, edits>>
lockerVars == vars
deployVars == <<lockerVars, startVars>>

\* What may be wrong for every start until somebody changes it: the ingest
\* token is not set, the upstream URL is refused, there is no database, the
\* folder ./migrations is missing or is not the one that was applied, the event
\* buffer has size 0.  (A configuration that cannot be read ends every command
\* at once.)
Environment == {"fit", "noToken", "badUpstream", "noDatabase", "noMigrations", "noBuffer"}

\* The two SQLx migrations, and the table and the column that the locker
\* creates for itself.
Migrations == {"memory", "operations"}
LockerParts == {"chain", "chain_seq"}
Schema     == Migrations \cup LockerParts

\* The stages of a start, with what each of them finds wrong.  (A channel of
\* size 0 panics.)
Finds    == [load    |-> {"noToken", "badUpstream"},
             connect |-> {"noDatabase"},
             migrate |-> {"noMigrations"},
             locker  |-> {},
             spawn   |-> {"noBuffer"}]
Starting == DOMAIN Finds
Working  == {"working", "serving"}

DeploymentTypeOK ==
    /\ TypeOK
    /\ environment \in Environment
    /\ schema \subseteq Schema
    /\ stage \in [Instance -> {"off"} \cup Starting \cup Working]
    /\ port \in Instance \cup {Nobody}
    /\ doctor \in BOOLEAN
    /\ assured \subseteq Instance
    /\ overlapped \in BOOLEAN
    /\ edits \in 0..MaxEdits

\* An empty database, or one from before the second migration.
DeploymentInit ==
    /\ Init
    /\ environment \in Environment
    /\ schema \in {{}, Schema \ {"operations"}}
    /\ stage = [i \in Instance |-> "off"]
    /\ port = Nobody
    /\ doctor = FALSE
    /\ assured = {}
    /\ overlapped = FALSE
    /\ edits = 0

-----------------------------------------------------------------------------
(* A daemon starts. *)

Move(i, from, to) ==
    /\ stage[i] = from
    /\ stage' = [stage EXCEPT ![i] = to]

\* main() returns an error, or the process dies: every task goes with it.
Stop(i) ==
    /\ stage' = [stage EXCEPT ![i] = "off"]
    /\ port' = IF port = i THEN Nobody ELSE port
    /\ assured' = assured \ {i}
    /\ Die(i)

Exit(i, from) ==
    /\ stage[i] = from
    /\ Stop(i)
    /\ UNCHANGED <<crashes, environment, schema, doctor, overlapped, edits>>

Start(i) ==
    /\ Move(i, "off", "load")
    /\ assured' = IF doctor THEN assured \cup {i} ELSE assured
    /\ UNCHANGED <<lockerVars, environment, schema, port, doctor, overlapped, edits>>

Pass(i, from, to) ==
    /\ environment \notin Finds[from]
    /\ Move(i, from, to)

\* The start ends for something that the next one will find as well.
Refused(i) ==
    /\ stage[i] \in Starting /\ environment \in Finds[stage[i]]
    /\ Exit(i, stage[i])

\* It ends for something of the moment: Sandbox::new(), the two seconds of the
\* pool, a statement of the migrator, and any of the six statements of the
\* locker, which run at every start whatever the schema has.
Fails(i) == stage[i] \in Starting \ {"spawn"} /\ Exit(i, stage[i])

\* The configuration, the ingest token, the upstream URL and the sandbox.
Load(i) ==
    /\ Pass(i, "load", "connect")
    /\ UNCHANGED <<lockerVars, environment, schema, port, doctor, assured, overlapped, edits>>

\* MemoryManager::new().
Connect(i) ==
    /\ Pass(i, "connect", "migrate")
    /\ UNCHANGED <<lockerVars, environment, schema, port, doctor, assured, overlapped, edits>>

\* The first of the missing parts is created; parts come in this order.
Create(part) ==
    /\ part \notin schema
    /\ part = "operations" => "memory" \in schema
    /\ part = "chain_seq" => "chain" \in schema
    /\ schema' = schema \cup {part}

\* init_schema() of the memory: the pending migrations, one after another.
ApplyMigration(i) ==
    /\ stage[i] = "migrate" /\ environment \notin Finds.migrate
    /\ \E part \in Migrations : Create(part)
    /\ UNCHANGED <<lockerVars, environment, stage, port, doctor, assured, overlapped, edits>>

Migrated(i) ==
    /\ Migrations \subseteq schema
    /\ Pass(i, "migrate", "locker")
    /\ UNCHANGED <<lockerVars, environment, schema, port, doctor, assured, overlapped, edits>>

\* init_schema() of the Evidence Locker.  (Nothing depends on its indexes.)
ApplyLocker(i) ==
    /\ stage[i] = "locker"
    /\ \E part \in LockerParts : Create(part)
    /\ UNCHANGED <<lockerVars, environment, stage, port, doctor, assured, overlapped, edits>>

\* Mistake: the daemon goes on without its Evidence Locker.
LockerReady_Anyway(i) ==
    /\ Pass(i, "locker", "spawn")
    /\ UNCHANGED <<lockerVars, environment, schema, port, doctor, assured, overlapped, edits>>

LockerReady(i) ==
    /\ LockerParts \subseteq schema
    /\ Pass(i, "locker", "spawn")
    /\ UNCHANGED <<lockerVars, environment, schema, port, doctor, assured, overlapped, edits>>

\* The heartbeat, the jobs, the REPL and the agent loop are spawned.
Spawn(i) ==
    /\ Pass(i, "spawn", "working")
    /\ overlapped' = (overlapped \/ \E j \in Instance : stage[j] \in Working)
    /\ UNCHANGED <<lockerVars, environment, schema, port, doctor, assured, edits>>

\* The HTTP server binds its address, or ends the select! and the process.
Bind(i) ==
    IF port # Nobody THEN Exit(i, "working")
    ELSE /\ Move(i, "working", "serving")
         /\ port' = i
         /\ UNCHANGED <<lockerVars, environment, schema, doctor, assured, overlapped, edits>>

\* The agent loop or the server ends by itself, or the process crashes.
CrashDaemon(i) ==
    /\ stage[i] # "off"
    /\ crashes < MaxCrashes /\ crashes + edits < MaxEdits
    /\ crashes' = crashes + 1
    /\ Stop(i)
    /\ UNCHANGED <<environment, schema, doctor, overlapped, edits>>

-----------------------------------------------------------------------------
(* The operator. *)

\* migrate and target add, stopped by an error or not, create parts in the
\* same order, from the same folder; target add leaves the locker's alone.
ToolCreates(parts) ==
    /\ environment \notin {"noDatabase", "noMigrations"}
    /\ \E part \in parts : Create(part)
    /\ UNCHANGED <<lockerVars, environment, stage, port, doctor, assured, overlapped, edits>>

Migrate   == ToolCreates(Migrations \cup (IF Migrations \subseteq schema THEN LockerParts ELSE {}))
TargetAdd == ToolCreates(Migrations)

\* Mistake: the ledger of the migrations is taken for all of them.
Healthy_NoTargets ==
    /\ environment \notin {"noToken", "noDatabase"}
    /\ "memory" \in schema
    /\ LockerParts \subseteq schema /\ BrokenLinks(rows) = {}

\* What doctor looks at: the configuration, the token, the connection, the
\* pgvector extension and the ledger (the first migration), verify_chain()
\* and list_targets() (the second migration).  The daemon's API only for a
\* warning, and Unlooked not at all.
Unlooked == {"badUpstream", "noMigrations", "noBuffer"}

Healthy ==
    /\ environment \notin {"noToken", "noDatabase"}
    /\ "memory" \in schema
    /\ LockerParts \subseteq schema /\ BrokenLinks(rows) = {}
    /\ "operations" \in schema

Doctor ==
    /\ ~doctor /\ Healthy
    /\ doctor' = TRUE
    /\ UNCHANGED <<lockerVars, environment, schema, stage, port, assured, overlapped, edits>>

\* Somebody edits the configuration or replaces ./migrations, or the database
\* goes or comes back.  Not while a daemon starts: it has read its configuration
\* at once, and what goes away under it is a failure of the moment.
Edit ==
    /\ crashes + edits < MaxEdits
    /\ \A i \in Instance : stage[i] \notin Starting
    /\ edits' = edits + 1
    /\ environment' \in Environment \ {environment}
    /\ doctor' = FALSE /\ assured' = {}
    /\ UNCHANGED <<lockerVars, schema, stage, port, overlapped>>

-----------------------------------------------------------------------------
\* The tasks of a daemon call record(), and nothing else, once spawned.
Begins(i) == stage[i] \in Working

Work ==
    /\ \/ \E c \in Call : Begins(Host[c]) /\ BeginRecord(c)
       \/ \E c \in Call : CallStep(c) \/ QueryFails(c) \/ LoseConnection(c)
       \/ Server
    /\ UNCHANGED startVars

StartUp(i) ==
    \/ Load(i) \/ Connect(i)
    \/ ApplyMigration(i) \/ Migrated(i) \/ ApplyLocker(i) \/ LockerReady(i)
    \/ Spawn(i) \/ Bind(i)
    \/ Refused(i) \/ Fails(i)

DeploymentNext ==
    \/ \E i \in Instance : Start(i) \/ StartUp(i) \/ CrashDaemon(i)
    \/ Migrate \/ TargetAdd \/ Doctor \/ Edit
    \/ Work

DeploymentSpec == DeploymentInit /\ [][DeploymentNext]_deployVars

-----------------------------------------------------------------------------
(***************************************************************************)
(* A fork takes two daemons at work at the same time, or a statement that  *)
(* commits after its caller is gone; no sequence of crashes, failed starts *)
(* and restarts of daemons one after another makes one.                    *)
(***************************************************************************)
ForkNeedsTwoWriters == overlapped \/ late \/ NoFork

(***************************************************************************)
(* "Startup fails closed when PostgreSQL, pgvector migrations, or the      *)
(* Evidence Locker schema are unavailable" (SPEC.md:193): no daemon asks   *)
(* for the chain before the migrations and the locker's schema are         *)
(* complete, however often starts and tools failed half-way.               *)
(***************************************************************************)
ReadyBeforeWork ==
    (\E c \in Call : pc[c] # "idle") => schema = Schema

(***************************************************************************)
(* UPGRADING.md:19-21 migrates, asks doctor and restarts.  After doctor    *)
(* found nothing, and while nobody changes the environment, a start finds  *)
(* no schema left to create, and what refuses it is nothing that doctor    *)
(* looks at.  It may still be refused for the upstream URL, ./migrations   *)
(* or the size of the event buffer, which doctor does not look at, and end *)
(* for a statement that fails, the sandbox, a taken port or a crash.       *)
(***************************************************************************)
DoctorIsHonest ==
    [][\A i \in assured :
          /\ ~ApplyMigration(i) /\ ~ApplyLocker(i)
          /\ Refused(i) => environment \in Unlooked]_deployVars

-----------------------------------------------------------------------------
\* The chain of all the daemons of a database: intact until two of them are at
\* work together or a statement commits late.
SharedChain == INSTANCE HashChain WITH
    Event  <- Call,
    links  <- {[id |-> r.id, prev |-> r.prev] : r \in rows},
    tip    <- CHOOSE h \in Hash : IsLatest(rows, h),
    intact <- ~late /\ ~overlapped

(***************************************************************************)
(* Daemons that start, migrate, crash and replace each other on a database *)
(* extend one chain at its tip, up to the step at which two of them are at *)
(* work or a statement commits whose caller is gone.                       *)
(***************************************************************************)
ImplementsSharedChain == SharedChain!ChainSpec

=============================================================================
