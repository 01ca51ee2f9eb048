----------------------------- MODULE CronField ------------------------------
(***************************************************************************)
(* CronField::parse() and matches() of src/scheduler/mod.rs, for one field *)
(* of a cron expression whose digits have been read: a list of parts, each *)
(* a value, a range or either with a step (the field "*" matches all and   *)
(* is not parsed).  Values are u32; here a word holds 0..WordMax.  The     *)
(* task of the job that reads the field is in Scheduler.tla.               *)
(***************************************************************************)
EXTENDS Integers, Sequences

CONSTANTS
    WordMax,  \* the largest u32
    Low, High \* the bounds of the field: minutes 0..59, months 1..12, ...

ASSUME WordAssumption == WordMax \in Nat /\ Low \in 0..WordMax /\ High \in Low..WordMax

Word == 0..WordMax

\* "*/step", "a/step", "a-b/step", "a-b" and "a"; a step of 0 is written, too.
Part == [base : {"*"}, step : Word]
        \cup [base : {"value"}, a : Word, step : Word]
        \cup [base : {"range"}, a : Word, b : Word, step : Word]
        \cup [base : {"range"}, a : Word, b : Word]
        \cup [base : {"value"}, a : Word]

HasStep(p) == "step" \in DOMAIN p

\* Where the values of a part begin and end.
First(p) == IF p.base = "*" THEN Low ELSE p.a
Last(p)  == CASE p.base = "*"     -> High
              [] p.base = "range" -> p.b
              [] p.base = "value" -> IF HasStep(p) THEN High ELSE p.a

\* The checks of parse(): the part is refused unless they hold.
Valid(p) ==
    /\ HasStep(p) => p.step > 0
    /\ First(p) >= Low /\ Last(p) <= High /\ First(p) <= Last(p)

\* Mistake: the step is added without a check, and the sum wraps around.
Values_Wraps(p) ==
    LET Walk[n \in 0..(WordMax + 1)] ==
            IF n = 0 THEN First(p)
            ELSE (Walk[n - 1] + (IF HasStep(p) THEN p.step ELSE 1)) % (WordMax + 1)
    IN  {Walk[n] : n \in {k \in 0..WordMax : \A i \in 0..k : Walk[i] <= Last(p)}}

\* The loop of parse(): v goes up by the step until it passes the end or
\* checked_add() finds that the sum is no u32.
Values(p) ==
    LET by == IF HasStep(p) THEN p.step ELSE 1
        Walk[v \in Word] ==
            IF v > Last(p) THEN {}
            ELSE {v} \cup (IF v + by > WordMax THEN {} ELSE Walk[v + by])
    IN  Walk[First(p)]

CONSTANT MaxParts \* bound on the length of the list

ASSUME PartsAssumption == MaxParts \in Nat

VARIABLES
    parts,  \* the parts read so far
    result  \* the field parsed so far: its values, or an error

Parsed(vs) == [ok |-> TRUE, values |-> vs]
Error      == [ok |-> FALSE, values |-> {}]

ParseInit ==
    /\ parts = <<>>
    /\ result = Parsed({})

\* One turn of the loop over the parts; an error leaves it.
ReadPart(p) ==
    /\ result.ok /\ Len(parts) < MaxParts
    /\ parts' = Append(parts, p)
    /\ result' = IF Valid(p) THEN Parsed(result.values \cup Values(p)) ELSE Error

-----------------------------------------------------------------------------
\* What a part of a cron field means: every step-th value from the first on.
Means(p) ==
    {v \in Low..High : /\ First(p) <= v /\ v <= Last(p)
                       /\ HasStep(p) => (v - First(p)) % p.step = 0}

\* A part nobody can mean: of step 0, upside down or out of bounds.
Senseless(p) ==
    \/ HasStep(p) /\ p.step = 0
    \/ First(p) > Last(p) \/ ~(First(p)..Last(p) \subseteq Low..High)

(***************************************************************************)
(* While a field is read: it is an error as soon as one of its parts is    *)
(* senseless, wherever that stands in the list, and else it matches        *)
(* exactly the values its parts mean, whatever their steps and however     *)
(* close these come to the end of the u32.                                 *)
(***************************************************************************)
ParsesToMeaning ==
    parts # <<>> =>
        result = IF \E n \in DOMAIN parts : Senseless(parts[n]) THEN Error
                 ELSE Parsed(UNION {Means(parts[n]) : n \in DOMAIN parts})

=============================================================================
