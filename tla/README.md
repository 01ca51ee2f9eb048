# DemonClaw: formal models and proofs

This directory holds TLA+ models of the DemonClaw daemon, the TLC runs that
check them and TLAPS proofs about them. Paths such as `src/evidence.rs:182`
are relative to the root of the repository. `PROJECT.json` lists, by machine
readable name, the components, the runs, the source lines behind every
definition, the hazards and the theorems.

## 1. The system

DemonClaw is one tokio process that takes *envelopes* (short texts) from
several sources, decides what each one is, acts on it, and writes what
happened into a hash-linked table in PostgreSQL. CLI processes share the
database and post envelopes over HTTP.

```
  REPL ----------\
  POST /ingest ---+--> bounded mpsc channel --> AgentLoop --> SignalGate (intent)
  heartbeat -----/        (event_buffer)            |
  jobs ---------/                                   +-- query:   Memory
                                                    +-- command: active defense --> runner, ssh
  SSE clients <-- broadcast <-- POST /ingest        |                 |--> findings table
                                                    +-- payload: GhostMCP, DarkPrompt,
                                                    |            Scanner, Sandbox
                                                    +--> Evidence Locker (every transition)
  CLI --> findings table, target registry, Evidence Locker, POST /ingest
```

### Inventory

| component | state | operations | what makes it correct |
|---|---|---|---|
| Startup (`main.rs`) | the channel, the tasks, the address | the steps of `run_daemon()`, `select!` | nothing appends before database, schema and configuration are good; what doctor approved is refused for nothing that doctor looks at; two daemons at once are noticed |
| Agent loop (`loop/mod.rs`) | the envelope at work, the payload permits | receive, classify, the three pipelines, `record_job_state` | evidence in lifecycle order and true; gates before effects; nothing twice; never stuck |
| SignalGate (`signalgate/mod.rs`) | configuration | `classify_intent` | what the command handler knows is routed to it; upstream hosts stay on the allowlist |
| Evidence Locker (`evidence.rs`) | table `evidence_chain`, `append_lock` | `append`, `record`, `get_latest_hash`, `verify_chain` | linear chain, append only, Ok is durable, forks are found |
| Operations store (`operations.rs`) | tables of findings and targets | `reconcile_findings`, `set_finding_status`, targets | status follows what passes saw and the operator said; evidence behind each finding |
| Active-defense commands (`active_defense/commands.rs`) | the command at work | seven commands | gates before any contact with or change of a target; changes on record |
| Detectors, probes, verify | none | look at a host | a failing probe is not mistaken for a fact |
| Remediation (`remediation.rs`) | environment | plan, allowlist, window, apply | only approved actions, at approved times |
| Monitor (`monitor.rs`) | baseline events | capture, diff | the right baseline, a faithful difference |
| Runner (`runner.rs`) | SSH allowlist | run a program | only allowlisted destinations |
| Security policy (`security.rs`, `config.rs`) | policy | engagement, target, port, level checks | refuses what the operator excluded and nothing else |
| GhostMCP (`ghostmcp/mod.rs`) | `approved_actions` | authorize, inject, leak check | an error is a denial |
| Channels (`channels/mod.rs`) | rate limiter, broadcast | ingest, SSE, REPL, pages | quota, truthful answers, ordered stream |
| Scheduler (`scheduler/mod.rs`) | tickers, `last_fired_minute` | heartbeat, interval, cron | each minute once, no tick lost |
| DarkPrompt, Scanner, Sandbox | the engine's epoch; fuel, deadline and manifest of the payload | load, scan, limits, host calls, entry point | the bytes scanned are the bytes run; the timeout holds and is not cut short; exactly what the manifest covers is granted |
| Memory, embeddings | table of memories, the migrations | `new`, `init_schema`, store, retrieve, compact, optimize | the schema is complete before it is used |
| CLI (`cli.rs`) | the target registry, in the database | targets, findings, scan, defend and remediate, migrate, doctor | what the daemon acts on is what the name stood for; "submitted" means in the channel |

### What is hard to test

* Steps of concurrent callers between two SQL statements (the tip of the
  chain, a reconcile pass against the operator's triage).
* A crash or a lost connection between two awaits: queue in memory, evidence
  in the database.
* Bounded buffers: the envelope channel blocks HTTP handlers, the REPL and
  every job at once; the broadcast channel overtakes slow readers; the window
  of the rate limiter has edges.
* Errors half way: the payload pipeline has seven early exits, a command has
  dozens of `?`.
* Time: tickers that deliver missed ticks in a burst, a wall clock that is
  set back; an epoch thread whose ticks are in no phase with a payload.
* Starts that die between two migrations, and a second daemon that is at work
  until its address turns out to be taken.
* A name resolved by one process and acted on by another.

`PROJECT.json` lists 40 such hazards at their lines, with the properties
that would notice them, or the reason why none does.

## 2. Modules

Each module names its source in its head comment, and each action carries a
comment that says which call it is. Operators introduced by the word
`Mistake:` are not part of a model: each is a plausible wrong version of the
definition below it (a dropped guard, a missing reset, a swapped order), and
each property of each passing run has at least one that violates it.

| module | models | state and code |
|---|---|---|
| `HashChain` | what the locker promises | `links`, `tip`; `intact`: does the promise of one chain still hold? `Extend` while it does; `Stray` and `Release` end it, for good |
| `EvidenceLocker` | `evidence.rs` | `rows`, `inflight`, `nextSeq`: the table, running INSERTs, the sequence of `chain_seq`; `lock`: one `append_lock` per process; `pc`, `prev`: each call of `record()` or `append()`; `late`: has a statement committed whose caller was gone? |
| `JobLifecycle` | SPEC.md section 3, as `types.rs` and the loop have it | `status`, `intent` per envelope |
| `AgentLoop` | `loop/mod.rs`, the channel, `classify_locally` | `place`, `queue`: the channel and its blocked senders; `cur`, `step`: the await the loop stands at; `trail`: the lifecycle events in the database; `permits`: the payload semaphore |
| `FindingStore` | `operations.rs`, and the commands that reconcile | `present`: what is true on the hosts; `rows`: the table; `reports`: findings events; `todo`, `scopes`: how far a pass has got |
| `ActiveDefense` | `commands.rs` with its gates | `config`: policy and environment; `cmd`, `at`: the command and its step; `events`, `touched`, `fixed`: what it recorded and did; `inWindow`, `opened`: the maintenance window, and as the command found it |
| `Ingest` | `channels/mod.rs` | `start`, `counter`: the limiter; `at`: each request; `accepted`, `taken`: the channel; `published`, `cursor`, `seen`: the event stream |
| `Scheduler` | `scheduler/mod.rs`, the tasks | `now`, `offset`: ticker clock and wall clock; `next`: deadlines; `last`: `last_fired_minute`; `sending`, `backlog`; `phase`: the cron job parses before it runs |
| `CronField` | `scheduler/mod.rs`, the parser | `parts`, `result`: the list read so far; part of `Scheduler` |
| `Sandbox` | `darkprompt`, `scanner`, `sandbox` | `epoch`, `phase`: the epoch thread; `at`, `stage`: the payload; `fuel`, `deadline`, `elapsed`: its limits; `granted`, `denied`: what it asked for |
| `Deployment` | `main.rs`, `doctor`, `migrate`, `target add`; extends `EvidenceLocker` | `environment`: what is wrong for every start until somebody changes it, `Finds`: which stage finds it; `stage`: how far each daemon has come; `schema`: the parts that exist; `port`; `doctor`, `assured`: what doctor found and who relies on it |
| `CommandLine` | the submitting commands of `cli.rs`, the target registry, `parse_target()`; extends `Ingest` | `registry`: what the name stands for; `command`, `content`: the command and the text it posts; `had`: what the name stood for meanwhile |
| `Baselines` | `monitor.rs`, `defend:baseline` and `defend:drift` | `log`: the baseline events; `base`, `current`: what drift found and saw; `report`: what it recorded |
| `MC*` | instances for TLC | definitions of constants only |
| `*_proofs` | theorems of the module they extend | |

How they fit together: `AgentLoop` is the centre. What a command does inside
its one `Command` step is `ActiveDefense`; what a command does to the table
of findings is `FindingStore`, and what it reads and writes of baselines is
`Baselines`; what `Record` does is `EvidenceLocker`;
what happens between `PreparePayload` and `RunPayload` is `Sandbox`; `Ingest`
and `Scheduler` are the senders in front of the channel. Two modules are
compositions: a daemon of `Deployment` is an instance of `EvidenceLocker` that
may call `record()` while its tasks run, and a command of `CommandLine` is a
client of `Ingest`, whose `Next` is conjoined with what the command is doing
(`Posts`). Each other model abstracts the others to what it can observe of them: the loop sees a command
end in an outcome and a record succeed or fail; a sender sees room in the
channel. `Ingest` and `Scheduler` assume of the loop that it takes envelopes
in the end (`Ingest`) or at any time (`Scheduler`), which is what
`SentIsSettled` establishes for `AgentLoop`.

### Abstractions

* An event is its hash (SHA-256 is injective); payload data of an event is
  left out except for the list of findings.
* What an envelope says is its routing class (`Content`); LLM answers are any
  intent.
* A finding is an `Issue`: host, kind and title; its severity and counters
  influence no statement.
* In the loop, scanner and sandbox are what they answer (`ScanAnswers`,
  `SandboxAnswers`); `ran` counts payloads that got an instance in the sandbox.
  In `Sandbox` a guest is any program: it computes, calls what it imports with
  any argument, returns or traps; wasmtime's fuel and epoch checks are external
  and stop guest code, never a host call.
* A tick of the epoch thread comes a second after it last woke up and up to
  `Late` units later; `Pass` moves time by one unit.
* Addresses have `Width` bits, 32 in the code; the shift by the width that
  `Mask` avoids is `ShiftedMax`, which wraps as a release build does.
* The text of an envelope is a sequence of words, each with its prefix. A
  destination is one word unless whoever registered it put a space into it.
* One name of the target registry is modelled; changes of it matter only while
  a command looks it up, so `Register` asks for such a command.
* A host is a set of conditions that change by themselves; a detector reports
  any subset of what it could see when probes may fail.
* In `ActiveDefense` targets are `local`, in scope or out of scope; the
  matching of domains and networks of the engagement is not modelled (that of
  payload manifests is, in `Sandbox`).
* A run of probes, each recorded by itself, is one look and one record.

## 3. Runs

`tlc -workers 2 -config <name>.cfg <module>`

| run | bounds | shows |
|---|---|---|
| `EvidenceLocker_safety` | 3 calls, 1 process, 2 crashes, lost connections with and without a late commit | linear chain until a late commit, Ok durable in any case, the lock always comes back, refinement of `HashChain` |
| `Deployment_daemons` | 2 daemons with 2 calls and 1, late commits, 6 environments, 1 crash or change of the environment, any statement failing, an empty or half-migrated database | every fork is reported by `verify_chain()` and takes two daemons at work or a late commit; until then all daemons together extend one chain (`HashChain`); nobody appends before the schema is complete; what doctor approved finds nothing left to create and is refused only for what doctor does not look at |
| `AgentLoop_safety` | 2 envelopes, 1 place, 1 permit, 1 crash; payload, defense and free text | order and truth of the evidence, gates, announced effects, refinement of `JobLifecycle`, everything sent is settled |
| `AgentLoop_routing` | 1 envelope, all contents | **violation**: a `defend:` command completes undispatched |
| `FindingStore_safety` | 1 host, an issue of each class, 2 findings events, 3 verdicts, failing probes | evidence behind each row, exact passes, triage, no wrong resolution |
| `FindingStore_scope` | the same, `scan:vuln` and `verify`, no failing probe | **violation**: a present finding is resolved |
| `ActiveDefense_safety` | 1 command of 7 kinds, 3 targets, every environment, 1 crash | remediation authority, record of changes, scope |
| `ActiveDefense_level` | 1 command, level `intrusive` requested | **violation**: refused for its level |
| `CommandLine_submits` | 1 command with or without `--apply`, 2 other clients of which 1 has no token, a local target, a destination with a space that carries `--apply`, and a name that is not registered, 1 change of the registry; quota 1, window 2, clock to 2, channel 1, buffer 1, 1 subscriber | quota, justified refusals, truthful answers, stream order, every request answered; what the daemon makes of the text is what the name stood for, with the flag that was given or that the destination carries |
| `Sandbox_limits` | payloads of 6 kinds in any order, 4 manifests, 2 units to a second, ticks up to 1 late, timeout 2 s, fuel 2, addresses of 2 bits | the timeout holds, is not cut short, capabilities are exact, payloads end |
| `Scheduler_clock` | heartbeat configured with 0, job of 2 s and a cron job: words 0..5, field 1..4, lists of 2 parts, followed if they match two minutes; 3 s per minute, 15 s, clock set back once | the parser means what cron means; once a minute, no minute missed, no tick lost |
| `Baselines_drift` | 2 hosts, 3 signatures, 4 baseline events, the last 2 looked at, any probe failing | a report compares with the newest baseline of its target and its differences are real |

Why the bounds suffice. Two calls and a third one that comes in late are what
a fork needs (two writers on one predecessor, and the tip between them);
three calls also give a waiter, a holder and a finished call at once. In
`Deployment_daemons` the two calls of the first daemon are symmetric, and one
crash or one failed start between them gives it a second life beside the other
daemon. Two envelopes on one place give a blocked sender behind a busy loop; a
crash falls between any two awaits, and after it the second envelope can still
be sent. Two events let a later pass see a row an earlier one wrote, with or
without an event in between. Three requests with a quota of one fill a window,
overflow it and reach the next one, and the channel of one place blocks the
command behind another client. Two ticks of a timeout give a payload that
starts between two epochs, has used one and meets the late second, in its start
section or in its entry point; `MaxEpoch` lets a second payload begin in the
epoch the first one ended in, and every prefix of a two-bit address is a whole,
a half or a single address. In five minutes of three seconds a cron job is
blocked within, at the edge of and across a matching minute. With four
baseline events of which two are looked at, those of one host push out the
other's.

The bounds are the constants `MaxCrashes`, `MaxReports`, `MaxCommands`,
`MaxTime`, `MaxSteps`, `MaxParts`, `Schedules`, `MaxEvents`, `MaxEdits`,
`MaxChanges`, `MaxEpoch` and `MaxOverdue`. Each stands in the guard of the
actions it bounds. After `MaxOverdue` units in one host call past the deadline
time stands still in the model; the call may then still return, or never.

`CHECK_DEADLOCK FALSE` is set where the system may really stop: when every
call, envelope or request of the finite instance has been used and the clock
has reached its bound, or (`Sandbox_limits`) when the epoch has passed its own.
`FindingStore` and `ActiveDefense` never stop (the hosts keep changing) and are
checked for deadlock.

### Disagreements the runs exhibit

* **Routing of `defend:`** (`AgentLoop_routing`). `classify_locally()` does
  not know the prefix; without an LLM key the commands of ACTIVE_DEFENSE.md:116
  and CONFIG.md:138 end as completed queries.
* **Scope of verify** (`FindingStore_scope`). `verify` reconciles intrusion
  findings under the scope `vulnerability`; the next `scan:vuln` resolves them
  while they are present, against docs/DEMO.md:69.
* **Tool level** (`ActiveDefense_level`). `ToolLevel::parse("intrusive")` is
  `Passive`, against CONFIG.md:49. A consequence for everything below: at
  this commit the policy of a running daemon is never intrusive, so no
  remediation can be applied at all. `ActiveDefense_safety` therefore sets
  `PolicyFromEnv = FALSE` and takes the policy as the library type allows it,
  so that the gates behind the level are exercised and not vacuously safe.

### What the models reach and no property forbids

* **Forks.** SECURITY_MODEL.md:73 and SPEC.md:184 describe one linear chain. It
  is linear for one daemon until an INSERT commits whose caller is gone, because
  its connection broke after the statement was sent. With two daemons on one
  database, of which the second works until its bind fails, or after such a late
  commit, two events may name one predecessor: `prev_hash` has no unique index.
  `ForkNeedsTwoWriters` says that nothing else makes a fork and
  `ForksAreReported` that `verify_chain()` finds each. The refinements of
  `HashChain` are stated with this condition (`intact`): the table extends one
  chain up to the very step that ends it.
* **Host calls.** CONFIG.md:83 calls `DEMONCLAW_SANDBOX_TIMEOUT_SECS` the maximum
  execution time. Epochs stop guest code only: a program started
  by `exec_command`, or a WASI call that waits, goes on as long as it likes.
  `StoppedInTime` counts that time apart (`overdue`), and `PayloadsEnd` makes an
  exception for it.
* **A payload with neither `run` nor `_start`** ends with `Ok` and is recorded
  as completed (`sandbox/mod.rs:185`).
* **Destinations with a space.** `target add` accepts one, the text of the
  envelope is split at white space, and only the first word arrives as the
  target (`cli.rs:272`, `commands.rs:35`). Worse, the daemon looks for `--apply`
  among all words of the text, those of the destination included: a destination
  registered as `web --apply` makes each `defend drift` on it a request to apply,
  where the usage at `cli.rs:99` makes the flag the operator's.
  `SubmissionsAreTrue` states exactly what arrives of such a destination, this
  case included, and that a passive command becomes an applying one in no other.
* **The maintenance window** is read once (`commands.rs:423`), before the approval,
  the plan and the upgrade. `Clock` may close it between `Window` and `Fix`, and the
  upgrade then starts outside it, against SECURITY_MODEL.md:60 and 65.
  `FixIsAuthorised` has the window as drift found it. Like the gates above it, this
  shows only under a policy that a daemon cannot have until the level is settled.
* **What doctor does not look at**: the upstream URL, the folder `./migrations`
  and its checksums (`memory/mod.rs:54`), the size of the event buffer, whose 0
  panics (`main.rs:101`). `DoctorIsHonest` names them (`Unlooked`). A start may
  also end for a failure of the moment (`Fails`): the sandbox, the pool, any
  statement of the migrator or of the locker, which run at every start.
* **A heartbeat of 0 seconds** panics in tokio's `interval()`; its task ends and
  the daemon goes on without it. `Ready` has it and no property speaks of it.
* **A hidden condition.** What a failing probe does not show counts as gone, in
  the code and in `ResolvesWhatIsGone`.

## 4. Fairness

* `EvidenceLocker`: weak fairness of a call's own steps (a ready task is
  polled) and of the server (an INSERT commits or fails); strong fairness of
  `Acquire`, because a tokio `Mutex` is handed to waiters in FIFO order. No
  fairness for beginning a call, a failing query, a lost connection or a
  crash.
* `AgentLoop`: weak fairness of the loop as a whole, which assumes that the
  LLM, the database and the targets answer or fail. The code sets no timeout
  on them (`signalgate/mod.rs:247`, `runner.rs`), so this is a condition on the
  environment and not a fact about the code. Strong fairness of `Enqueue`,
  because tokio's channel serves blocked senders in order.
* `Ingest`: weak fairness of handlers and of `Take`, which `SentIsSettled`
  justifies; strong fairness of `Send`.
* `CommandLine`: the fairness of `Ingest`, stated for the composition
  (`CommandFairness`); nobody has to begin or end a command.
* `Sandbox`: weak fairness of time (`Pass`), of the epoch thread, and of
  `Limits`, the checks that wasmtime compiles into guest code. None of the
  guest: it may compute for ever, and a host call may never return.
* `ActiveDefense`, `Scheduler`, `FindingStore`, `Baselines` and `Deployment` state
  safety only. In `Scheduler` time
  advances only when no task could run, so the missed ticks it shows are due
  to the full channel and never to a runtime that starves.

## 5. Proofs

`tlapm <module>_proofs.tla`. All of them hold for arbitrary finite or infinite
sets of calls, daemons, envelopes, issues, hosts, commands, requests,
subscribers and payloads and any bounds.

* **`Deployment_proofs`, the locker**. The theorems about `EvidenceLocker` stand in
  the same module as those about `Deployment`, which extends it. The chain is linear only as long as nobody else
  appends between the re-read of the tip and the commit. `LockerInv` says why:
  a call in its critical section holds its lock (`HolderInv`), sequence
  numbers are fresh (`SeqInv`, `IdInv`), an INSERT in flight belongs to the
  holder and extends the present tip (`InflightInv`), and so does the event of
  a call about to insert (`CheckedInv`). All of it holds until a statement commits
  late, which the history variable `late` remembers. `ChainIsLinear`,
  `ForkFreedom`, `NoStaleTip` and `LockerImplementsChain` assume one process
  (`OneInstance`) and nothing else; `Deployment_daemons` reaches forks with two.
  `TypeCorrect`, `OkMeansDurable`, `RowsOnlyGrow`, `LockIsHandedBack` and
  `AuditorSeesForks` assume nothing: a row that is there stays, whoever crashes
  or commits late.
  `LockFollowsCall` is `HolderInv` in both directions: the lock is with a call
  exactly while the call is in its critical section, so no way out of it, an
  error, a lost connection or a crash, leaves the lock taken. The audit rests
  on `AuditInv`: identifiers
  and sequence numbers are unique, and every event names an event that is
  below it, or nothing; of two events with one predecessor the higher one then
  does not name the event just below itself.
* **`AgentLoop_proofs`**. `LoopInv` adds to the properties that the queue holds
  each envelope once and only queued ones (`QueueInv`), that exactly the
  envelope at work is taken (`CurInv`), that an envelope not yet taken has no
  history (`FreshInv`), and what has been recorded and passed at each step
  (`WorkInv`). From it: `LifecycleOrder`, `GatedExecution`, `NoDoubleWork`,
  `EffectsHaveEvidence`. For `TrueEvidence` that is not enough: `EndInv` adds
  that an outcome stands in the trail only once the pipeline has reached one,
  that it is that one, and at which step a payload has run. `LoopImplementsLifecycle`
  reads the status of an envelope off its place, the step and its outcome, not
  off its trail, of which `LifecycleOrder` and `TrueEvidence` speak; a step of the
  loop moves one envelope by one edge of the lifecycle, or none
  (`PipelineRefines`, `LoopRefines`), and a crash leaves every status alone.
  `LoopGetsOn` and `SlotsAreGivenBack` are what `SentIsSettled` rests on besides
  fairness: each step of the loop brings the envelope nearer to its end, and
  when the loop asks for a permit one is free.
* **`FindingStore_proofs`**. `TableInv` gives types, stamps and evidence.
  `ExactInv` relates the rows to the pass: what has been upserted so far is
  not resolved (`ProgressInv`) and what the last pass left open it saw
  (`LastInv`). `WatchInv` follows what was absent while the command ran, from
  which `ResolvedMeansAbsent` follows: a look is older than the statement that
  uses it, and the invariant carries the one to the other.
* **`ActiveDefense_proofs`**. `DefenseInv` ties the step to the path of its
  command (`PathInv`), to the gate that was passed (`GateInv`), to what was
  asked for and granted (`AskedInv`), to the events written (`RecordInv`) and
  to the change (`FixInv`). From it: `RemediationAuthority`
  (with the window as drift found it), `ChangesAreRecorded`, `DenialsAreFinal`, `ScopeIsKept`.
* **`Sandbox_proofs`**. The deadline is counted in ticks and the promise in
  units of time. `Clocks` relates the two through the number of ticks left:
  time used is at most that of the ticks used, and at least that of all but the
  first of them, which may have come at once. Guest steps leave it alone, a
  tick moves both sides by one period, and `TimeoutHolds` and `TimeoutNotEarly`
  follow, for any second, lateness, timeout and fuel. `CapabilitiesAreExact` is
  about arithmetic: powers add up (`PowerAdds`), each quotient by a power of two
  is twice the next one and a bit (`Halve`), the bits of the mask are those above
  the host part (`MaskBits`), and two addresses agree in these when they are in
  one aligned block (`SameBlock`, `CidrIsBlock`); all for any width, so also
  for the 32 bits of the code, and with the prefix 0 as a case of its own.
* **`Deployment_proofs`, the daemons**. `StartInv` says what a daemon has behind it at each
  stage and what doctor has seen is still so; `WorkIsReady` and
  `DoctorTellsTheTruth` follow: after doctor found nothing `StartInv` leaves a daemon
  no part to create and no stage that refuses it for what doctor looked at. `DaemonsForksAreSeen` lifts the audit of the
  locker to it. For `ForkTakesTwo`, `WriterInv` follows the one daemon at work
  as long as two never overlapped and no statement committed late: its lock, its INSERT in flight and
  its tip are then those of `LockerInv`, although processes come and go, which
  `ChainIsLinear` does not cover. `DaemonsImplementChain` has no assumption at
  all: as long as the chain is intact the commit is that of the one daemon's
  holder (`Extend`), and after that a fresh event that names a stored one
  (`Stray`).
* **`CommandLine_proofs`**. `CommandsOnlyPost` shows that a step of the commands
  is a step of `Ingest` or changes nothing in it, so the rest is about `Ingest`
  alone. The quota is known exactly (`CountInv`): those admitted since the
  window began are as many as the counter says, up to the maximum, and all were
  checked before the window ends (`CheckedInv`). A refusal happens when that
  number is the maximum, and what grounded it stays (`RecentGrows`).
  `FateInv` relates each request to its one envelope, `ReceiverInv` and
  `NothingMissed` a subscriber's position to what it was given. For
  `SubmittedIsTrue`, `CliInv` keeps that a command has posted the text of a
  target its name stood for and is answered for no other, and `ReadBack` that
  the daemon reads the first word of that target back out of it, with the flag
  exactly when it was given or is a later word of the target (`FlagForm`). A target is
  assumed to be a sequence of words (`TargetAssumption`).
* **`Scheduler_proofs`**. The parser of a cron field is a recursive function;
  `TurnsUnique` shows that `Rest`, what a loop that starts at a value collects,
  is the only function that takes its turns, and `ValuesAreMeant` that it is what the
  field means, for every width of the word: a step that would wrap around ends
  the loop. `SchedulerInv` then follows the jobs: a minute that may still fire
  has fired once less than the clock allows (`FiredInv`), the cron ticker is at
  most one tick ahead, and if it is, this minute has been looked at
  (`LookedInv`), and the deadline of an interval task is one period per
  envelope from the start (`PeriodInv`), for any period, 0 included, which makes
  no envelope.
* **`Baselines_proofs`**. `Max` of the baselines among the last `Limit` is the
  newest of all (`FoundIsNewest`), for any `Limit`. `BaselinesInv` carries three
  things from one command to a later one: while a command compares, its
  baseline stays the newest (`BaseInv`); what a detector that has run did not
  report was away or hidden since the command began to look (`LookInv`); and
  what the newest baseline of a host lacks was so since that baseline
  (`LogInv`). The report is their difference.

Each module first proves that the initial states satisfy the invariant, then
one lemma per action or per conjunct, then the invariant, then the theorems.

Where a proof needs induction over numbers (`Least` and what rests on it), it
takes the smallest counterexample: a nonempty set of naturals has a least
element because `<` is well-founded, and the induction theorems of the library,
which take an operator, are not needed. The recursive functions `Values` and
`Power` are shown to exist in the same way before anything is said of them.

Every invariant, action property and refinement that a passing run checks is also
proved. Only model-checked are the liveness properties (`CallsFinish`,
`SentIsSettled`, `RequestsAreAnswered`, `PayloadsEnd`), which are
out of the prover's reach, and the three violations. TLC has also checked each
inductive invariant on the bounds of its run.

## 6. Not modelled

Embeddings, TLS setup, the vector queries, the optimizer and the compaction of
the memory keep no state the rest depends on. The parsing of program output,
templates, the dashboard and the CLI's listings, `init`, and the payload crates
are data or pure I/O. Of a reconcile pass no statement commits after its client
is gone (`FindingStore.Interrupt`), unlike the INSERT of the locker. The clock
of the host is set back but never forward (`SetClockBack`). In `Sandbox` a rule
has no port, so a target without a scheme that has one is never meant, and
`Meant` restates the list of programs; what it adds is the reading of networks.
PostgreSQL, tokio, wasmtime, WASI and the LLM are
external and appear as what the code can observe of them. GhostMCP's credential
injection and leak detection have no caller. The components and the reasons
are in `PROJECT.json`.

## 7. Plan

Done, in this order: the Evidence Locker and its abstract chain; the loop and
its lifecycle; the findings; the commands and their gates; ingest; the
scheduler with its cron fields; baselines and drift; the sandbox; the start of
daemons and their composition with the locker; the command line and its
composition with ingest; proofs of every safety property and refinement.

Next, most important first:

1. Theorems about what no run states yet: which conditions on the environment
   the liveness properties need, as invariants of what blocks whom. Done for the
   `append_lock` and the loop; open for the handler of the commands and for
   `Ingest`.
2. `SecurityPolicy`: `validate_target`, domains and ports as pure operators
   against reference definitions; `GhostMcp`: approvals that outlive their
   command.
3. `Baselines` composed with `FindingStore`. A reviewed baseline that is pushed
   out of the last 100 events is silently replaced by the next drift;
   `Baselines_drift` reaches this, and a statement of it waits for the project
   to settle what is meant.
4. A composition of `AgentLoop` with `Ingest` and `Scheduler` as its senders,
   replacing the assumption each makes about the other.
5. The maintenance window at the time of the change, once the level can be
   configured.
