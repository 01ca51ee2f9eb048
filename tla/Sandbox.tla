------------------------------ MODULE Sandbox ------------------------------
(***************************************************************************)
(* The life of a payload: DarkPrompt reads it (darkprompt/mod.rs), the     *)
(* Payload Scanner inspects it (scanner/mod.rs) and the sandbox runs it    *)
(* (sandbox/mod.rs) under a manifest, a fuel limit and a timeout.          *)
(*                                                                         *)
(* Time passes in units, Second of them to a second.  The epoch thread     *)
(* sleeps a second, adds one to the engine's epoch and sleeps again, for   *)
(* as long as the process lives: a payload starts anywhere between two of  *)
(* its ticks, and a tick may come up to Late units late.  Guest code is    *)
(* stopped by its own fuel and epoch checks, so it cannot go on when they  *)
(* say no; a program run for it by exec_command, or a WASI call, is not    *)
(* stopped by either.                                                      *)
(*                                                                         *)
(* A guest is a nondeterministic program: it computes, makes any call it   *)
(* imports with any text, returns or traps.  Operators marked "Mistake:"   *)
(* are plausible wrong versions of the definition below them.              *)
(***************************************************************************)
EXTENDS Integers

CONSTANTS
    Second,     \* units of time in a second
    Late,       \* how many units late the epoch thread may wake up
    Timeout,    \* DEMONCLAW_SANDBOX_TIMEOUT_SECS
    Fuel,       \* DEMONCLAW_SANDBOX_FUEL_LIMIT
    Payload,    \* what the payload file may hold
    Manifest,   \* the manifests run_payload() may be given
    Width,      \* bits of an address (32 in the code)
    Name,       \* host names that are no address
    Program,    \* programs a command may name
    MaxEpoch,   \* bound: no payload is read once the epoch is past it
    MaxOverdue  \* bound on the time a host call lasts past the deadline

\* The powers of two, up to that of an address.
Power[n \in 0..Width] == IF n = 0 THEN 1 ELSE 2 * Power[n - 1]

Address == 0..(Power[Width] - 1)

\* What a rule of can_http may be, and what a guest may ask for.  "bare" is
\* a target without a scheme: everything up to the first slash is the host,
\* a port included.
Host   == [name : Name] \cup [ip : Address]
Rule   == [host : Host] \cup [net : Address, prefix : 0..Width]
Target == [host : Host, form : {"url", "bare"}, port : BOOLEAN]

\* A command by its first word; meta says that it holds one of | & ; > < ` $
\* or a line break.
Command == [program : Program, meta : BOOLEAN]

Import == {"log", "http", "exec", "wasi", "other"}

ASSUME TimeAssumption   == Second \in Nat \ {0} /\ Late \in Nat /\ Timeout \in Nat
ASSUME FuelAssumption   == Fuel \in Nat
ASSUME WidthAssumption  == Width \in Nat
ASSUME BoundsAssumption == MaxEpoch \in Nat /\ MaxOverdue \in Nat
ASSUME PayloadAssumption ==
    /\ Payload # {}
    /\ Payload \subseteq [valid : BOOLEAN, imports : SUBSET Import, indirect : BOOLEAN,
                          entry : BOOLEAN]
ASSUME ManifestAssumption ==
    /\ Manifest # {}
    /\ Manifest \subseteq [can_http : SUBSET Rule, can_exec : SUBSET Program]

VARIABLES
    epoch,     \* the engine's epoch
    phase,     \* units since the epoch thread last woke up
    at,        \* where the payload stands
    image,     \* the bytes that were read
    manifest,  \* what run_payload() was given
    stage,     \* the code that runs: the start section or the entry point
    fuel,      \* what is left of the fuel
    deadline,  \* the epoch at which guest code stops
    elapsed,   \* units since the limits were set
    overdue,   \* ... of which in a host call after the deadline
    granted,   \* the requests that were granted
    denied,    \* the requests that were denied
    result     \* how the last payload ended

engine  == <<epoch, phase>>
payload == <<image, manifest>>
clock   == <<elapsed, overdue>>
verdict == <<granted, denied>>
vars == <<engine, at, payload, stage, fuel, deadline, clock, verdict, result>>

Running == {"guest", "host"}
Max1(n) == IF n > 1 THEN n ELSE 1

\* The longest the epoch thread stays away.
Period == Second + Late

TypeOK ==
    /\ epoch \in Nat /\ phase \in 0..Period
    /\ at \in {"idle", "scan", "check", "compile"} \cup Running
    /\ image \in Payload /\ manifest \in Manifest
    /\ stage \in {"start", "entry"}
    /\ fuel \in 0..Fuel /\ deadline \in Nat
    /\ elapsed \in Nat /\ overdue \in 0..MaxOverdue
    /\ granted \subseteq Target \cup Command
    /\ denied \subseteq Target \cup Command
    /\ result \in {"none", "ok", "refused", "trap", "fuel", "timeout"}

Init ==
    /\ epoch = 0 /\ phase = 0
    /\ at = "idle"
    /\ image = CHOOSE p \in Payload : TRUE
    /\ manifest = CHOOSE m \in Manifest : TRUE
    /\ stage = "start"
    /\ fuel = 0 /\ deadline = 0
    /\ elapsed = 0 /\ overdue = 0
    /\ granted = {} /\ denied = {}
    /\ result = "none"

-----------------------------------------------------------------------------
(* What a manifest allows. *)

\* host_str() leaves a port out, the text before the first slash keeps it.
ExtractHost(t) == IF t.form = "bare" /\ t.port THEN [withPort |-> t.host] ELSE t.host

\* u32::MAX << count: a release build takes the count modulo the width.
ShiftedMax(count) == ((Power[Width] - 1) * Power[count % Width]) % Power[Width]

\* Mistake: a prefix of 0 is shifted like any other.
Mask_NoZeroCase(prefix) == ShiftedMax(Width - prefix)

Mask(prefix) == IF prefix = 0 THEN 0 ELSE ShiftedMax(Width - prefix)

Bit(n, i) == (n \div Power[i]) % 2

\* (ip & mask) == (network & mask)
InCidr(ip, network, prefix) ==
    \A i \in 0..(Width - 1) : Bit(Mask(prefix), i) = 1 => Bit(ip, i) = Bit(network, i)

HostMatches(host, rule) ==
    \/ rule \in [host : {host}]
    \/ rule \notin [host : Host] /\ \E ip \in Address :
           host = [ip |-> ip] /\ InCidr(ip, rule.net, rule.prefix)

HttpAllowed(m, t) == \E rule \in m.can_http : HostMatches(ExtractHost(t), rule)

ExecAllowed(m, c) == c.program \in m.can_exec /\ ~c.meta

-----------------------------------------------------------------------------
(* Before the guest runs. *)

Wait == UNCHANGED <<engine, clock>>
Keep == UNCHANGED <<payload, stage, fuel, deadline, verdict>>

End(how) == at' = "idle" /\ result' = how

\* prepare_payload(): the name is a plain word and the file is read, once.
PreparePayload(p, m) ==
    /\ at = "idle" /\ epoch <= MaxEpoch
    /\ at' = "scan"
    /\ image' = p /\ manifest' = m
    /\ stage' = "start"
    /\ fuel' = 0 /\ deadline' = 0 /\ elapsed' = 0 /\ overdue' = 0
    /\ granted' = {} /\ denied' = {}
    /\ result' = "none"
    /\ UNCHANGED engine

\* scan(): nothing but allow-listed imports, no indirect calls.
Clean(p) == p.valid /\ "other" \notin p.imports /\ ~p.indirect

Scan ==
    /\ at = "scan"
    /\ IF Clean(image) THEN at' = "check" /\ UNCHANGED result ELSE End("refused")
    /\ Wait /\ Keep

\* validate_manifest_requests(): what an import asks for must have an entry.
Requested(m, p) ==
    \/ "http" \in p.imports /\ m.can_http = {}
    \/ "exec" \in p.imports /\ m.can_exec = {}
    \/ "other" \in p.imports

CheckManifest ==
    /\ at = "check"
    /\ IF ~image.valid \/ Requested(manifest, image) THEN End("refused")
       ELSE at' = "compile" /\ UNCHANGED result
    /\ Wait /\ Keep

\* Mistake: the deadline is a time since the engine started.
SetLimits_Absolute ==
    /\ at = "compile" /\ at' = "guest"
    /\ fuel' = Fuel
    /\ deadline' = Max1(Timeout)
    /\ Wait
    /\ UNCHANGED <<payload, stage, verdict, result>>

\* The module is compiled and the store gets its fuel and its deadline.
\* Instantiating it runs its start section, if it has one.
SetLimits ==
    /\ at = "compile" /\ at' = "guest"
    /\ fuel' = Fuel
    /\ deadline' = epoch + Max1(Timeout)
    /\ Wait
    /\ UNCHANGED <<payload, stage, verdict, result>>

\* Module::new, the linker or the instantiation fails.
LinkFails ==
    /\ at = "compile" /\ End("trap")
    /\ Wait /\ Keep

-----------------------------------------------------------------------------
(* The guest. *)

MayRun == at = "guest" /\ fuel > 0 /\ epoch < deadline

\* Every instruction costs fuel.
Burn == fuel' = fuel - 1 /\ UNCHANGED <<payload, deadline>> /\ Wait

Compute ==
    /\ MayRun
    /\ Burn
    /\ UNCHANGED <<at, stage, verdict, result>>

\* Mistake: the entry point is given a deadline of its own.
Enter_NewDeadline ==
    /\ at = "guest" /\ stage = "start"
    /\ stage' = "entry"
    /\ deadline' = epoch + Max1(Timeout)
    /\ IF image.entry THEN UNCHANGED <<at, result>> ELSE End("ok")
    /\ Wait
    /\ UNCHANGED <<payload, fuel, verdict>>

\* The start section is over: run() is called, or else _start().  A payload
\* that exports neither is done, with Ok and without having run.
Enter ==
    /\ at = "guest" /\ stage = "start"
    /\ stage' = "entry"
    /\ IF image.entry THEN UNCHANGED <<at, result>> ELSE End("ok")
    /\ Wait
    /\ UNCHANGED <<payload, fuel, deadline, verdict>>

Return ==
    /\ MayRun /\ stage = "entry"
    /\ End("ok")
    /\ Burn
    /\ UNCHANGED <<stage, verdict>>

\* unreachable, proc_exit and the like.
Trap ==
    /\ MayRun
    /\ End("trap")
    /\ Burn
    /\ UNCHANGED <<stage, verdict>>

\* log(), or a call whose text cannot be read: nothing happens but an answer.
CallLog ==
    /\ MayRun /\ image.imports \cap {"log", "http", "exec"} # {}
    /\ Burn
    /\ UNCHANGED <<at, stage, verdict, result>>

\* http_request() only says whether it would be allowed.
CallHttp(t) ==
    /\ MayRun /\ "http" \in image.imports
    /\ IF HttpAllowed(manifest, t)
       THEN granted' = granted \cup {t} /\ UNCHANGED denied
       ELSE denied' = denied \cup {t} /\ UNCHANGED granted
    /\ Burn
    /\ UNCHANGED <<at, stage, result>>

\* exec_command() runs the program and waits for its end.
CallExec(c) ==
    /\ MayRun /\ "exec" \in image.imports
    /\ IF ExecAllowed(manifest, c)
       THEN at' = "host" /\ granted' = granted \cup {c} /\ UNCHANGED denied
       ELSE denied' = denied \cup {c} /\ UNCHANGED <<at, granted>>
    /\ Burn
    /\ UNCHANGED <<stage, result>>

\* A WASI call may block (a read of the inherited stdin, poll_oneoff).
CallWasi ==
    /\ MayRun /\ "wasi" \in image.imports
    /\ at' = "host"
    /\ Burn
    /\ UNCHANGED <<stage, verdict, result>>

HostReturns ==
    /\ at = "host" /\ at' = "guest"
    /\ UNCHANGED result
    /\ Wait /\ Keep

OutOfFuel ==
    /\ at = "guest" /\ fuel = 0
    /\ End("fuel")
    /\ Wait /\ Keep

\* Mistake: only the entry point is interrupted.
Interrupt_EntryOnly ==
    /\ at = "guest" /\ stage = "entry" /\ epoch >= deadline
    /\ End("timeout")
    /\ Wait /\ Keep

Interrupt ==
    /\ at = "guest" /\ epoch >= deadline
    /\ End("timeout")
    /\ Wait /\ Keep

-----------------------------------------------------------------------------
(* Time. *)

\* The thread wakes up at least a second after it went to sleep.
TickEpoch ==
    /\ phase >= Second
    /\ phase' = 0 /\ epoch' = epoch + 1
    /\ UNCHANGED <<at, payload, stage, fuel, deadline, clock, verdict, result>>

\* A unit passes: not while the thread must wake up, nor while guest code
\* stands at a check that stops it.
Pass ==
    /\ phase < Period
    /\ at = "guest" => fuel > 0 /\ epoch < deadline
    /\ at \notin Running => epoch <= MaxEpoch
    /\ at = "host" /\ epoch >= deadline => overdue < MaxOverdue
    /\ phase' = phase + 1
    /\ IF at \in Running THEN elapsed' = elapsed + 1 ELSE UNCHANGED elapsed
    /\ IF at = "host" /\ epoch >= deadline THEN overdue' = overdue + 1
       ELSE UNCHANGED overdue
    /\ UNCHANGED <<epoch, at, result>> /\ Keep

Guest ==
    \/ Compute \/ Enter \/ Return \/ Trap
    \/ CallLog \/ CallWasi
    \/ \E t \in Target : CallHttp(t)
    \/ \E c \in Command : CallExec(c)

Limits == OutOfFuel \/ Interrupt

Next ==
    \/ \E p \in Payload, m \in Manifest : PreparePayload(p, m)
    \/ Scan \/ CheckManifest \/ SetLimits \/ LinkFails
    \/ Guest \/ HostReturns \/ Limits
    \/ TickEpoch \/ Pass

Spec == Init /\ [][Next]_vars

(***************************************************************************)
(* Time passes, the epoch thread wakes up, and the checks wasmtime put     *)
(* into the guest's code stop it.  Nothing makes a guest finish, nor a     *)
(* program it started.                                                     *)
(***************************************************************************)
FairSpec == Spec /\ WF_vars(Pass) /\ WF_vars(TickEpoch) /\ WF_vars(Limits)

-----------------------------------------------------------------------------
(***************************************************************************)
(* The timeout holds for whatever the guest does, its start section and    *)
(* all its calls together, up to the lateness of the epoch thread; what    *)
(* exceeds it was spent inside one of its host calls, which nothing        *)
(* interrupts.                                                             *)
(***************************************************************************)
StoppedInTime == elapsed - overdue <= Max1(Timeout) * Period

(***************************************************************************)
(* No payload is timed out early, whatever ran before it: all but the      *)
(* first, possibly partial, second of its timeout have passed.             *)
(***************************************************************************)
NotCutShort == result = "timeout" => elapsed >= (Max1(Timeout) - 1) * Second

\* What a rule is meant to cover: a network is an aligned block of addresses.
Covers(rule, host) ==
    \/ rule = [host |-> host]
    \/ /\ rule \notin [host : Host] /\ host \in [ip : Address]
       /\ LET block == Power[Width - rule.prefix]
          IN  host.ip \div block = rule.net \div block

\* A target without a scheme is taken as it stands, a port included, and rules
\* have no port, so the two never agree (extract_host).
Meant(request) ==
    IF request \in Command
    THEN request.program \in manifest.can_exec /\ ~request.meta
    ELSE /\ request.form = "url" \/ ~request.port
         /\ \E rule \in manifest.can_http : Covers(rule, request.host)

(***************************************************************************)
(* A guest is granted exactly what its manifest covers, the boundaries of  *)
(* networks and the network of all addresses included.                     *)
(***************************************************************************)
CapabilitiesHold ==
    /\ \A request \in granted : Meant(request)
    /\ \A request \in denied : ~Meant(request)

(***************************************************************************)
(* A payload that was given its limits ends, whatever its code does, or    *)
(* sits in a host call for ever.                                           *)
(***************************************************************************)
PayloadsEnd == at \in Running ~> (at = "idle" \/ [](at = "host"))

=============================================================================
