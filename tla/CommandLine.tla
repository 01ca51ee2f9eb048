----------------------------- MODULE CommandLine ----------------------------
(***************************************************************************)
(* The operator's commands on a registered target (cli.rs, and the target  *)
(* registry of operations.rs): scan, defend and remediate look the name    *)
(* up, put the target into the text of an envelope, post it to the daemon  *)
(* of Ingest.tla and print what it answered; the daemon reads the target   *)
(* back from the text.  Other operators change the registry meanwhile.     *)
(*                                                                         *)
(* Some requests of Ingest are the posts of such commands, the others come *)
(* from other clients.  Text is a sequence of words, each with its prefix; *)
(* a destination is one word unless whoever registered it put a space in.  *)
(*                                                                         *)
(* Operators marked "Mistake:" are plausible wrong versions of the         *)
(* definition below them.                                                  *)
(***************************************************************************)
EXTENDS Ingest

CONSTANTS
    Cli,        \* the requests that are posts of a command
    Target,     \* the targets that may be registered
    NoTarget,   \* the name is not registered
    MaxChanges  \* bound on the changes of the registry

\* A destination is a sequence of words; Local has none.
Local == <<>>

ASSUME CliAssumption     == Cli \subseteq Request
ASSUME TargetAssumption  == Local \in Target /\ NoTarget \notin Target /\ Target \subseteq Seq(STRING)
ASSUME ChangesAssumption == MaxChanges \in Nat

VARIABLES
    registry, \* the target of the one name the commands are about
    command,  \* where each command stands
    given,    \* the commands given with --apply
    content,  \* the text it posts
    had,      \* what the name has stood for since the command began
    changes   \* the changes of the registry so far

cliVars     == <<registry, command, given, content, had, changes>>
commandVars == <<vars, cliVars>>

CliInit ==
    /\ Init
    /\ registry \in Target \cup {NoTarget}
    /\ command = [r \in Cli |-> "new"]
    /\ given = {}
    /\ content = [r \in Cli |-> <<>>]
    /\ had = [r \in Cli |-> {}]
    /\ changes = 0

-----------------------------------------------------------------------------
(* The text. *)

Word(w) == <<"", w>>
Ssh(w)  == <<"ssh:", w>>

\* Mistake: the name is sent and not what it stands for.
TargetToken_Name(t) == <<Word("name")>>

\* target_token(): local, or ssh: in front of the destination as it is.
TargetToken(t) ==
    IF t = Local THEN <<Word("local")>>
    ELSE <<Ssh(Head(t))>> \o [n \in DOMAIN Tail(t) |-> Word(t[n + 1])]

\* Mistake: every command asks for the change.
Content_AlwaysApplies(t, apply) ==
    <<Word("defend:drift"), Word("--target")>> \o TargetToken(t) \o <<Word("--apply")>>

\* submit_for_target(): the text has no quotes around the target.
Content(t, apply) ==
    <<Word("defend:drift"), Word("--target")>> \o TargetToken(t)
        \o (IF apply THEN <<Word("--apply")>> ELSE <<>>)

\* The texts of all commands.
Text == {Content(t, TRUE) : t \in Target} \cup {Content(t, FALSE) : t \in Target}

CliTypeOK ==
    /\ registry \in Target \cup {NoTarget}
    /\ command \in [Cli -> {"new", "resolve", "post", "submitted", "error"}]
    /\ given \subseteq Cli
    /\ content \in [Cli -> {<<>>} \cup Text]
    /\ had \in [Cli -> SUBSET (Target \cup {NoTarget})]
    /\ changes \in 0..MaxChanges

\* parse_target(): the first --target with a word that is understood; this
\* host when there is none.
Understood(text, n) ==
    /\ n + 1 \in DOMAIN text
    /\ text[n] = Word("--target")
    /\ text[n + 1] = Word("local") \/ text[n + 1][1] = "ssh:"

ParseTarget(text) ==
    LET at_n == {n \in DOMAIN text : Understood(text, n)} IN
    IF at_n = {} THEN Local
    ELSE LET word == text[1 + CHOOSE n \in at_n : \A k \in at_n : n <= k]
         IN  IF word = Word("local") THEN Local ELSE <<word[2]>>

HasFlag(text, flag) == \E n \in DOMAIN text : text[n] = Word(flag)

-----------------------------------------------------------------------------
(* A command. *)

Step(r, a, b) ==
    /\ command[r] = a
    /\ command' = [command EXCEPT ![r] = b]

\* The operator enters it, with the flag or without.
BeginCommand(r) ==
    /\ Step(r, "new", "resolve")
    /\ given' \in {given, given \cup {r}}
    /\ had' = [had EXCEPT ![r] = {registry}]
    /\ UNCHANGED <<vars, registry, content, changes>>

\* resolve_target(): an unknown name, or no database, is an error.
Resolve(r) ==
    /\ \/ registry \in Target /\ Step(r, "resolve", "post")
          /\ content' = [content EXCEPT ![r] = Content(registry, r \in given)]
       \/ Step(r, "resolve", "error") /\ UNCHANGED content
    /\ UNCHANGED <<vars, registry, given, had, changes>>

\* The daemon cannot be reached once it has ended.
Unreachable(r) ==
    /\ ~open /\ at[r] = "new"
    /\ Step(r, "post", "error")
    /\ UNCHANGED <<vars, registry, given, content, had, changes>>

\* The operator interrupts the command while it waits for the answer.
Interrupt(r) ==
    /\ at[r] # "new"
    /\ Step(r, "post", "error")
    /\ UNCHANGED <<vars, registry, given, content, had, changes>>

\* The answer is printed: submitted, or what the daemon returned.
ReadAnswer(r) ==
    /\ at[r] \in Answer
    /\ Step(r, "post", IF at[r] = "ok" THEN "submitted" ELSE "error")
    /\ UNCHANGED <<vars, registry, given, content, had, changes>>

-----------------------------------------------------------------------------
(* The registry.  Its changes matter while a command looks the name up. *)

Register(t) ==
    /\ changes < MaxChanges
    /\ \E r \in Cli : command[r] = "resolve"
    /\ changes' = changes + 1
    /\ registry' = t
    /\ had' = [r \in Cli |-> IF command[r] = "resolve" THEN had[r] \cup {t} ELSE had[r]]
    /\ UNCHANGED <<vars, command, given, content>>

\* add_target() replaces what the name stood for, remove_target() deletes it.
AddTarget    == \E t \in Target \ {registry} : Register(t)
RemoveTarget == registry # NoTarget /\ Register(NoTarget)

-----------------------------------------------------------------------------
\* The daemon serves what is posted, and notices a client that went away.
Posts ==
    \A r \in Cli :
        /\ at[r] = "new" /\ at'[r] # "new" => command[r] = "post"
        /\ at[r] # "gone" /\ at'[r] = "gone" => command[r] = "error"

Serve == Next /\ Posts /\ UNCHANGED cliVars

CommandNext ==
    \/ \E r \in Cli : BeginCommand(r) \/ Resolve(r) \/ Unreachable(r) \/ Interrupt(r)
                      \/ ReadAnswer(r)
    \/ AddTarget \/ RemoveTarget
    \/ Serve

\* The fairness of Ingest, for the composition.
CommandFairness ==
    /\ \A r \in Request :
          /\ WF_commandVars(HandlerStep(r) /\ UNCHANGED cliVars)
          /\ SF_commandVars(Send(r) /\ UNCHANGED cliVars)
    /\ WF_commandVars(Take /\ UNCHANGED cliVars)

CommandSpec == CliInit /\ [][CommandNext]_commandVars /\ CommandFairness

-----------------------------------------------------------------------------
\* Words of a destination that the daemon takes for its flag.
Carries(t, flag) == \E n \in 2..Len(t) : t[n] = flag

\* What the daemon makes of the text of r, compared with a target: the first
\* word of the destination arrives, and the flag is the operator's or one of
\* the other words.
ActsOn(r, t) ==
    /\ ParseTarget(content[r]) = IF t = Local THEN Local ELSE <<Head(t)>>
    /\ HasFlag(content[r], "--apply") <=> r \in given \/ Carries(t, "--apply")

(***************************************************************************)
(* A command that prints "submitted" is in the daemon's channel, and what  *)
(* the daemon then acts on is a target its name stood for while the        *)
(* command looked it up, with --apply if and only if it was given.  Of a   *)
(* destination registered with spaces in it only the first word arrives as *)
(* the target, and an --apply among the others counts as given: the usage, *)
(* "demonclaw defend drift <target-name> [--apply]" (cli.rs:99), has no    *)
(* such case, but the registry checks only how a destination begins.       *)
(***************************************************************************)
SubmissionsAreTrue ==
    \A r \in Cli :
        /\ command[r] = "submitted" => Entries(r) # {}
        /\ Entries(r) # {} => \E t \in had[r] \ {NoTarget} : ActsOn(r, t)

=============================================================================
