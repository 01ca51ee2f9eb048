----------------------------- MODULE Scheduler ------------------------------
(***************************************************************************)
(* The heartbeat and the scheduled jobs (src/scheduler/mod.rs).  Each is a *)
(* task that waits for its ticker, decides what to send and blocks in      *)
(* send().await while the envelope channel is full.  A tokio ticker whose  *)
(* ticks are not taken keeps its deadlines and gives the missed ones at    *)
(* once later (MissedTickBehavior::Burst).  One task has a cron            *)
(* expression, which it parses (CronField.tla) before it makes its ticker; *)
(* one field stands for the five of an expression.                         *)
(*                                                                         *)
(* Time is counted in seconds since the start, by the clock of the         *)
(* tickers; the time of day differs from it by an offset that changes when *)
(* the clock of the host is set.  Ready tasks run before the next second   *)
(* begins: the runtime is not starved, only the channel may be full.       *)
(***************************************************************************)
EXTENDS CronField, FiniteSets

CONSTANTS
    Job,          \* the tasks: the heartbeat, interval jobs and the cron job
    cron,         \* the one with a cron expression
    Period,       \* the ticker period of each task, 1 for the cron job; an
                  \* interval job gets at least 1, the heartbeat what is configured
    Schedules,    \* bound: the schedules whose job is followed
    MinuteLength, \* seconds per minute
    Capacity,     \* bound of the envelope channel
    MaxTime,      \* bound on the clock
    MaxSteps      \* bound on how often the clock of the host is set back

ASSUME JobAssumption  == cron \in Job /\ Period \in [Job -> Nat] /\ Period[cron] = 1
ASSUME TimeAssumption == MinuteLength \in Nat \ {0} /\ MaxTime \in Nat /\ MaxSteps \in Nat
ASSUME RoomAssumption == Capacity \in Nat \ {0}
ASSUME ScheduleAssumption == Schedules \subseteq SUBSET (Low..High)

None == -1  \* no minute yet

VARIABLES
    phase,   \* of the cron job: "parse", then "runs" or "refused"
    now,     \* seconds since the start
    offset,  \* time of day minus now
    next,    \* the deadline of each ticker
    sending, \* the tasks blocked in send()
    last,    \* last_fired_minute of the cron job
    fired,   \* how often the cron job fired, per minute of the day
    sent,    \* how many envelopes of each task entered the channel
    blocked, \* the minutes in which the cron job was blocked for some time
    backlog, \* the envelopes in the channel
    steps    \* how often the clock was set back

cronVars == <<phase, parts, result>>
vars     == <<cronVars, now, offset, next, sending, last, fired, sent, blocked, backlog, steps>>

Minute == 0..(MaxTime \div MinuteLength)
Today  == (now + offset) \div MinuteLength

TypeOK ==
    /\ phase \in {"parse", "runs", "refused"}
    /\ parts \in Seq(Part) /\ Len(parts) <= MaxParts
    /\ result \in [ok : BOOLEAN, values : SUBSET (Low..High)]
    /\ now \in 0..MaxTime
    /\ offset \in -MaxTime..0 /\ now + offset >= 0
    /\ next \in [Job -> Nat]
    /\ sending \subseteq Job
    /\ last \in Minute \cup {None}
    /\ fired \in [Minute -> Nat]
    /\ sent \in [Job -> Nat]
    /\ blocked \subseteq Minute
    /\ backlog \in 0..Capacity
    /\ steps \in 0..MaxSteps

\* The first tick of a ticker completes at once.
Init ==
    /\ phase = "parse" /\ ParseInit
    /\ now = 0 /\ offset = 0
    /\ next = [j \in Job |-> 0]
    /\ sending = {}
    /\ last = None
    /\ fired = [m \in Minute |-> 0]
    /\ sent = [j \in Job |-> 0]
    /\ blocked = {}
    /\ backlog = 0 /\ steps = 0

-----------------------------------------------------------------------------
\* The task of the cron job reads the next part of its expression.
Parse ==
    /\ phase = "parse"
    /\ \E p \in Part : ReadPart(p)
    /\ UNCHANGED <<phase, now, offset, next, sending, last, fired, sent, blocked, backlog, steps>>

\* The whole expression has parsed, and the task makes its ticker.
StartCron ==
    /\ phase = "parse" /\ parts # <<>> /\ result.ok
    /\ result.values \in Schedules
    /\ phase' = "runs"
    /\ parts' = <<>>
    /\ next' = [next EXCEPT ![cron] = now]
    /\ UNCHANGED <<result, now, offset, sending, last, fired, sent, blocked, backlog, steps>>

\* An invalid expression ends the task; the daemon goes on without the job.
RefuseCron ==
    /\ phase = "parse" /\ ~result.ok
    /\ phase' = "refused"
    /\ parts' = <<>>
    /\ UNCHANGED <<result, now, offset, next, sending, last, fired, sent, blocked, backlog, steps>>

\* The ticker of j has a tick for it, and it waits for one.  No ticker has
\* period 0: interval() panics, and the task is over before its first tick.
Ready(j) ==
    /\ Period[j] > 0
    /\ j \notin sending /\ next[j] <= now
    /\ j = cron => phase = "runs"

\* Mistake: a late ticker starts a new period (MissedTickBehavior::Delay).
TickInterval_Delay(j) ==
    /\ j # cron /\ Ready(j)
    /\ next' = [next EXCEPT ![j] = now + Period[j]]
    /\ sending' = sending \cup {j}
    /\ UNCHANGED <<cronVars, now, offset, last, fired, sent, blocked, backlog, steps>>

\* The heartbeat or an interval job gets a tick, and sends.
TickInterval(j) ==
    /\ j # cron /\ Ready(j)
    /\ next' = [next EXCEPT ![j] = @ + Period[j]]
    /\ sending' = sending \cup {j}
    /\ UNCHANGED <<cronVars, now, offset, last, fired, sent, blocked, backlog, steps>>

\* Mistake: the minute that fired is not remembered.
TickCron_NoMemory ==
    /\ Ready(cron)
    /\ next' = [next EXCEPT ![cron] = @ + 1]
    /\ IF Today \in result.values
       THEN /\ fired' = [fired EXCEPT ![Today] = @ + 1]
            /\ sending' = sending \cup {cron}
       ELSE UNCHANGED <<fired, sending>>
    /\ UNCHANGED <<cronVars, now, offset, last, sent, blocked, backlog, steps>>

\* Mistake: the minute is remembered without its hour (of three minutes here).
TickCron_NoHour ==
    /\ Ready(cron)
    /\ next' = [next EXCEPT ![cron] = @ + 1]
    /\ IF Today \in result.values /\ (last = None \/ last % 3 # Today % 3)
       THEN /\ last' = Today
            /\ fired' = [fired EXCEPT ![Today] = @ + 1]
            /\ sending' = sending \cup {cron}
       ELSE UNCHANGED <<last, fired, sending>>
    /\ UNCHANGED <<cronVars, now, offset, sent, blocked, backlog, steps>>

\* The cron job gets a tick, whichever it is, and looks at the time of day.
TickCron ==
    /\ Ready(cron)
    /\ next' = [next EXCEPT ![cron] = @ + 1]
    /\ IF Today \in result.values /\ last # Today
       THEN /\ last' = Today
            /\ fired' = [fired EXCEPT ![Today] = @ + 1]
            /\ sending' = sending \cup {cron}
       ELSE UNCHANGED <<last, fired, sending>>
    /\ UNCHANGED <<cronVars, now, offset, sent, blocked, backlog, steps>>

\* Mistake: an unbounded channel.
Enqueue_Unbounded(j) ==
    /\ j \in sending
    /\ sending' = sending \ {j}
    /\ backlog' = backlog + 1
    /\ sent' = [sent EXCEPT ![j] = @ + 1]
    /\ UNCHANGED <<cronVars, now, offset, next, last, fired, blocked, steps>>

\* send() goes on once the channel has room.
Enqueue(j) ==
    /\ j \in sending /\ backlog < Capacity
    /\ sending' = sending \ {j}
    /\ backlog' = backlog + 1
    /\ sent' = [sent EXCEPT ![j] = @ + 1]
    /\ UNCHANGED <<cronVars, now, offset, next, last, fired, blocked, steps>>

\* The agent loop takes an envelope.
Take ==
    /\ backlog > 0
    /\ backlog' = backlog - 1
    /\ UNCHANGED <<cronVars, now, offset, next, sending, last, fired, sent, blocked, steps>>

\* A second passes: nothing that could run now is left to run.
Second ==
    /\ now < MaxTime
    /\ phase # "parse" /\ \A j \in Job : ~Ready(j)
    /\ sending # {} => backlog = Capacity
    /\ now' = now + 1
    /\ UNCHANGED <<cronVars, offset, next, sending, last, fired, sent, backlog, steps>>
    /\ blocked' = IF cron \in sending THEN blocked \cup {Today, Today'} ELSE blocked

\* The clock of the host is set back.
SetClockBack ==
    /\ steps < MaxSteps
    /\ steps' = steps + 1
    /\ \E d \in 1..(now + offset) : offset' = offset - d
    /\ UNCHANGED <<cronVars, now, next, sending, last, fired, sent, blocked, backlog>>

Next ==
    \/ Parse \/ StartCron \/ RefuseCron
    \/ \E j \in Job : TickInterval(j) \/ Enqueue(j)
    \/ TickCron
    \/ Take \/ Second \/ SetClockBack

Spec == Init /\ [][Next]_vars

-----------------------------------------------------------------------------
(***************************************************************************)
(* A cron job fires at most once in a matching minute and never in another *)
(* one, however its ticks bunch up behind a full channel, unless the clock *)
(* of the host is set back; a job whose expression is refused never fires. *)
(***************************************************************************)
OncePerMinute ==
    \A m \in Minute :
        /\ fired[m] > 0 => m \in result.values
        /\ fired[m] <= 1 + steps

(***************************************************************************)
(* A matching minute that has gone by was fired, unless the channel kept   *)
(* the job waiting in it: last_fired_minute skips nothing.                 *)
(***************************************************************************)
NoMinuteMissed ==
    steps = 0 /\ phase = "runs" =>
        \A m \in result.values \ blocked : m < Today => fired[m] = 1

(***************************************************************************)
(* An interval task never sends ahead of time and loses no tick: it has    *)
(* one envelope for every period begun, except for what it is blocked on.  *)
(***************************************************************************)
NoTickLost ==
    \A j \in {i \in Job \ {cron} : Period[i] > 0} :
        LET begun == now \div Period[j] + 1
            made  == sent[j] + (IF j \in sending THEN 1 ELSE 0)
        IN  /\ made <= begun
            /\ (~Ready(j) /\ j \notin sending) => made = begun

=============================================================================
