-------------------------- MODULE Scheduler_proofs --------------------------
(***************************************************************************)
(* Theorems about Scheduler.tla and CronField.tla for words of any width,  *)
(* any bounds of the field, any tasks and periods, any capacity and any    *)
(* length of minutes and of the run.                                       *)
(***************************************************************************)
EXTENDS Scheduler, WellFoundedInduction, TLAPS

-----------------------------------------------------------------------------
(* Arithmetic. *)

\* A nonempty set of naturals has a least element: what stands in for
\* induction below.
LEMMA Least ==
    ASSUME NEW T \in SUBSET Nat, T # {}
    PROVE  \E n \in T : \A m \in T : n <= m
<1>1. \A m, n \in Nat : m < n => <<m, n>> \in OpToRel(<, Nat)
  BY DEF OpToRel
<1>2. \E n \in T : \A m \in T : ~(<<m, n>> \in OpToRel(<, Nat))
  BY NatLessThanWellFounded, WFMin
<1>3. PICK n \in T : \A m \in T : ~(<<m, n>> \in OpToRel(<, Nat))
  BY <1>2
<1>4. \A m \in T : ~(m < n)
  BY <1>1, <1>3, Zenon
<1>5. \A m \in T : n <= m
  BY <1>4
<1>. QED  BY <1>5

\* What quotient and remainder are.
LEMMA Divide ==
    ASSUME NEW n \in Nat, NEW p \in Nat \ {0}
    PROVE  /\ n \div p \in Nat
           /\ \A k \in Nat : k * p <= n <=> k <= n \div p
           /\ n = p * (n \div p) + (n % p)
           /\ n % p \in 0..(p - 1)
           /\ n < p => n % p = n
           /\ (n + 1) \div p \in {n \div p, n \div p + 1}
<1>1. \A k \in Nat : k * p <= n <=> k <= n \div p
  OBVIOUS
<1>2. n \div p \in Int
  OBVIOUS
<1>3. 0 * p <= n
  OBVIOUS
<1>4. n \div p >= 0
  BY <1>1, <1>3
<1>5. n = p * (n \div p) + (n % p)
  OBVIOUS
<1>6. n % p \in 0..(p - 1)
  OBVIOUS
<1>7. n < p => n % p = n
  OBVIOUS
<1>8. (n + 1) \div p \in {n \div p, n \div p + 1}
  OBVIOUS
<1>. QED  BY <1>1, <1>2, <1>4, <1>5, <1>6, <1>7, <1>8

\* A quotient grows with what is divided.
LEMMA DivideMonotone ==
    ASSUME NEW n \in Nat, NEW m \in Nat, NEW p \in Nat \ {0}, n <= m
    PROVE  n \div p <= m \div p
<1>. DEFINE k == n \div p
<1>1. k \in Nat /\ k * p <= n
  BY Divide
<1>2. k * p \in Nat /\ m \div p \in Nat
  BY <1>1, Divide
<1>3. k * p <= m
  BY <1>1, <1>2
<1>. HIDE DEF k
<1>4. k <= m \div p
  BY <1>1, <1>3, Divide
<1>. QED  BY <1>4 DEF k

\* A whole step does not change the remainder.
LEMMA ModShift ==
    ASSUME NEW n \in Nat, NEW p \in Nat \ {0}
    PROVE  (n + p) % p = 0 <=> n % p = 0
<1>. DEFINE q == n \div p
            s == (n + p) \div p
<1>1. q \in Nat /\ s \in Nat /\ n + p \in Nat
  BY Divide
<1>2. n = p * q + (n % p) /\ n % p \in 0..(p - 1)
  BY Divide
<1>3. n + p = p * s + ((n + p) % p) /\ (n + p) % p \in 0..(p - 1)
  BY <1>1, Divide
<1>4. \A k \in Nat : k * p <= n <=> k <= q
  BY Divide
<1>5. \A k \in Nat : k * p <= n + p <=> k <= s
  BY <1>1, Divide
<1>. HIDE DEF q, s
<1>6. s >= 1
  <2>1. 1 * p <= n + p
    OBVIOUS
  <2>. QED  BY <1>5, <2>1
<1>7. s = q + 1
  <2>1. \A k \in Nat : (k + 1) * p = k * p + p /\ k * p \in Nat
    OBVIOUS
  <2>2. \A k \in Nat : k <= q <=> k + 1 <= s
    BY <1>4, <1>5, <2>1
  <2>. QED  BY <1>1, <1>6, <2>2
<1>8. p * s = p * q + p /\ p * q \in Nat
  BY <1>1, <1>7
<1>. QED  BY <1>2, <1>3, <1>8

-----------------------------------------------------------------------------
(* The parser. *)

\* The ends and the step of a part are words.
LEMMA PartType ==
    ASSUME NEW p \in Part
    PROVE  /\ First(p) \in Word /\ Last(p) \in Word
           /\ HasStep(p) => p.step \in Word
<1>. USE WordAssumption DEF First, Last, HasStep, Word
<1>1. CASE p \in [base : {"*"}, step : Word]
  BY <1>1
<1>2. CASE p \in [base : {"value"}, a : Word, step : Word]
  BY <1>2
<1>3. CASE p \in [base : {"range"}, a : Word, b : Word, step : Word]
  BY <1>3
<1>4. CASE p \in [base : {"range"}, a : Word, b : Word]
  BY <1>4
<1>5. CASE p \in [base : {"value"}, a : Word]
  BY <1>5
<1>. QED  BY <1>1, <1>2, <1>3, <1>4, <1>5 DEF Part

\* parse() refuses exactly what is senseless.
LEMMA ValidIsSensible ==
    ASSUME NEW p \in Part
    PROVE  Valid(p) <=> ~Senseless(p)
<1>1. /\ First(p) \in Int /\ Last(p) \in Int /\ Low \in Int /\ High \in Int
      /\ HasStep(p) => p.step \in Nat
  BY PartType, WordAssumption DEF Word
<1>2. First(p) <= Last(p) =>
        (First(p)..Last(p) \subseteq Low..High <=> First(p) >= Low /\ Last(p) <= High)
  BY <1>1
<1>3. HasStep(p) => (p.step > 0 <=> p.step # 0)
  BY <1>1
<1>4. First(p) > Last(p) <=> ~(First(p) <= Last(p))
  BY <1>1
<1>. QED  BY <1>2, <1>3, <1>4 DEF Valid, Senseless

\* The step the loop of parse() adds.
By(p) == IF HasStep(p) THEN p.step ELSE 1

\* What the loop collects when it starts at v.
Rest(p) == [v \in Word |-> {u \in Word : v <= u /\ u <= Last(p) /\ (u - v) % By(p) = 0}]

\* One turn of the loop, given what the later turns collect.
Turn(p, W, v) ==
    IF v > Last(p) THEN {}
    ELSE {v} \cup (IF v + By(p) > WordMax THEN {} ELSE W[v + By(p)])

\* A valid part moves on.
LEMMA StepPositive ==
    ASSUME NEW p \in Part, Valid(p)
    PROVE  By(p) \in Nat \ {0}
BY PartType DEF By, Valid, Word

\* Rest does what a turn of the loop does.
LEMMA RestTurns ==
    ASSUME NEW p \in Part, Valid(p), NEW v \in Word
    PROVE  Rest(p)[v] = Turn(p, Rest(p), v)
<1>. DEFINE s == By(p)
<1>1. s \in Nat \ {0} /\ Last(p) \in Word /\ WordMax \in Nat
  BY PartType, StepPositive, WordAssumption
<1>. HIDE DEF s
<1>2. CASE v > Last(p)
  BY <1>1, <1>2 DEF Rest, Turn, Word
<1>3. CASE v <= Last(p)
  <2>1. v \in Rest(p)[v]
    <3>1. (v - v) % s = 0
      BY <1>1, Divide DEF Word
    <3>. QED  BY <1>1, <1>3, <3>1 DEF Rest, s, Word
  <2>2. ASSUME NEW u \in Word, u # v, v <= u
        PROVE  /\ (u - v) % s = 0 => v + s <= u
               /\ v + s <= u => ((u - v) % s = 0 <=> (u - (v + s)) % s = 0)
    <3>1. u - v \in Nat /\ u - v # 0
      BY <2>2 DEF Word
    <3>2. u - v < s => (u - v) % s = u - v
      BY <1>1, <3>1, Divide
    <3>3. ASSUME v + s <= u
          PROVE  (u - v) % s = 0 <=> (u - (v + s)) % s = 0
      <4>1. u - (v + s) \in Nat /\ (u - (v + s)) + s = u - v
        BY <1>1, <3>3 DEF Word
      <4>. QED  BY <1>1, <4>1, ModShift
    <3>4. (u - v) % s = 0 => v + s <= u
      BY <1>1, <3>1, <3>2 DEF Word
    <3>. QED  BY <3>3, <3>4
  <2>3. CASE v + s > WordMax
    <3>1. \A u \in Rest(p)[v] : u = v
      BY <1>1, <2>2, <2>3 DEF Rest, s, Word
    <3>. QED  BY <1>3, <2>1, <2>3, <3>1, <1>1 DEF Turn, s, Word
  <2>4. CASE v + s <= WordMax
    <3>1. v + s \in Word
      BY <1>1, <2>4 DEF Word
    <3>2. Rest(p)[v + s] = {u \in Word : v + s <= u /\ u <= Last(p) /\ (u - (v + s)) % s = 0}
      BY <3>1 DEF Rest, s
    <3>3. Rest(p)[v] = {u \in Word : v <= u /\ u <= Last(p) /\ (u - v) % s = 0}
      BY DEF Rest, s
    <3>4. \A u \in Word : v + s <= u => v <= u /\ u # v
      BY <1>1 DEF Word
    <3>5. \A u \in Word : u \in Rest(p)[v] <=> u = v \/ u \in Rest(p)[v + s]
      BY <2>1, <2>2, <3>2, <3>3, <3>4
    <3>6. Rest(p)[v] = {v} \cup Rest(p)[v + s]
      BY <3>2, <3>3, <3>5
    <3>7. ~(v > Last(p)) /\ ~(v + s > WordMax)
      BY <1>1, <1>3, <2>4 DEF Word
    <3>. QED  BY <3>6, <3>7 DEF Turn, s
  <2>. QED  BY <1>1, <2>3, <2>4 DEF Word
<1>. QED  BY <1>1, <1>2, <1>3 DEF Word

\* No other function takes the same turns: seen from the end of the word, the
\* first value at which two of them differ has a later one.
LEMMA TurnsUnique ==
    ASSUME NEW p \in Part, Valid(p), NEW W, W = [v \in Word |-> Turn(p, W, v)]
    PROVE  W = Rest(p)
<1>. DEFINE T == {n \in Nat : n <= WordMax /\ W[WordMax - n] # Rest(p)[WordMax - n]}
<1>1. /\ By(p) \in Nat \ {0} /\ WordMax \in Nat
      /\ Word = 0..WordMax
  BY StepPositive, WordAssumption DEF Word
<1>2. ASSUME T # {} PROVE FALSE
  <2>1. PICK n \in T : \A m \in T : n <= m
    BY <1>2, Least
  <2>. DEFINE v == WordMax - n
  <2>2. n \in Nat /\ n <= WordMax /\ v \in Word /\ W[v] # Rest(p)[v]
    <3>1. n \in Nat /\ n <= WordMax /\ W[WordMax - n] # Rest(p)[WordMax - n]
      BY <2>1, Zenon
    <3>. QED  BY <1>1, <3>1
  <2>a. \A m \in T : n <= m
    BY <2>1
  <2>. HIDE DEF T
  <2>3. v + By(p) <= WordMax => W[v + By(p)] = Rest(p)[v + By(p)]
    <3>1. ASSUME v + By(p) <= WordMax
          PROVE  /\ n - By(p) \in Nat /\ n - By(p) <= WordMax /\ n - By(p) < n
                 /\ WordMax - (n - By(p)) = v + By(p)
      BY <1>1, <2>2, <3>1
    <3>2. ASSUME v + By(p) <= WordMax PROVE n - By(p) \notin T
      BY <1>1, <2>2, <2>a, <3>1, <3>2
    <3>. QED  BY <3>1, <3>2 DEF T
  <2>4. W[v] = Turn(p, W, v)
    BY <2>2
  <2>5. Rest(p)[v] = Turn(p, Rest(p), v)
    BY <2>2, RestTurns
  <2>6. v + By(p) > WordMax \/ v + By(p) <= WordMax
    BY <1>1, <2>2
  <2>7. Turn(p, W, v) = Turn(p, Rest(p), v)
    BY <2>3, <2>6 DEF Turn
  <2>. QED  BY <2>2, <2>4, <2>5, <2>7
<1>3. \A v \in Word : W[v] = Rest(p)[v]
  <2>1. \A v \in Word : WordMax - v \in Nat /\ WordMax - v <= WordMax /\ WordMax - (WordMax - v) = v
    BY <1>1
  <2>. QED  BY <1>2, <2>1
<1>4. DOMAIN W = Word /\ DOMAIN Rest(p) = Word
  BY DEF Rest
<1>. QED  BY <1>3, <1>4 DEF Rest

\* A part that passes the checks of parse() gives the values it means.
LEMMA ValuesAreMeant ==
    ASSUME NEW p \in Part, Valid(p)
    PROVE  Values(p) = Means(p)
<1>. DEFINE Walk == CHOOSE W : W = [v \in Word |-> Turn(p, W, v)]
<1>1. Values(p) = Walk[First(p)]
  BY DEF Values, Turn, By
<1>2. Rest(p) = [v \in Word |-> Turn(p, Rest(p), v)]
  BY RestTurns DEF Rest
<1>3. Walk = [v \in Word |-> Turn(p, Walk, v)]
  BY <1>2
<1>. HIDE DEF Walk
<1>4. Walk = Rest(p)
  BY <1>3, TurnsUnique
<1>5. First(p) \in Word
  BY PartType
<1>6. Values(p) = {u \in Word : First(p) <= u /\ u <= Last(p) /\ (u - First(p)) % By(p) = 0}
  BY <1>1, <1>4, <1>5 DEF Rest
<1>7. \A u : u \in Low..High => u \in Word
  BY WordAssumption DEF Word
<1>8. \A u \in Word : First(p) <= u /\ u <= Last(p) => u \in Low..High
  BY PartType, WordAssumption DEF Valid, Word
<1>9. \A u \in Word : First(p) <= u =>
         ((u - First(p)) % By(p) = 0 <=> (HasStep(p) => (u - First(p)) % p.step = 0))
  <2>1. CASE HasStep(p)
    BY <2>1 DEF By
  <2>2. CASE ~HasStep(p)
    BY <1>5, <2>2, Divide DEF By, Word
  <2>. QED  BY <2>1, <2>2
<1>. QED  BY <1>6, <1>7, <1>8, <1>9 DEF Means

-----------------------------------------------------------------------------
(* The inductive invariant. *)

\* How many envelopes an interval task has made.
Made(j) == sent[j] + (IF j \in sending THEN 1 ELSE 0)

\* The time of day is a minute of the run, and is time since the start until
\* the clock of the host is set back.
ClockInv ==
    /\ Today \in Minute
    /\ steps = 0 => offset = 0

\* Before it runs the cron job has read, counted and remembered nothing.
StartInv ==
    /\ phase = "parse" => now = 0 /\ (parts = <<>> => result = Parsed({}))
    /\ phase # "runs" => last = None /\ \A m \in Minute : fired[m] = 0

\* A minute that may still fire has fired once less than the clock allows.
FiredInv ==
    /\ \A m \in Minute : fired[m] > 0 => m \in result.values
    /\ \A m \in Minute : fired[m] <= 1 + steps
    /\ \A m \in Minute : m > Today => fired[m] <= steps
    /\ last # Today => fired[Today] <= steps
    /\ last # None => fired[last] >= 1

\* The ticker of the cron job is at most one tick ahead; when it is, this
\* minute has been looked at.
LookedInv ==
    phase = "runs" =>
        /\ next[cron] <= now + 1
        /\ (steps = 0 /\ next[cron] = now + 1 /\ Today \in result.values) => fired[Today] >= 1

\* The deadline of an interval task is one period per envelope from the start.
PeriodInv ==
    \A j \in Job \ {cron} :
        /\ next[j] = Made(j) * Period[j]
        /\ Made(j) > 0 => (Made(j) - 1) * Period[j] <= now

SchedulerInv ==
    /\ TypeOK
    /\ ParsesToMeaning
    /\ ClockInv
    /\ StartInv
    /\ FiredInv
    /\ LookedInv
    /\ PeriodInv
    /\ NoMinuteMissed

\* The constants of the clock in numbers.
LEMMA MinuteFacts ==
    /\ MinuteLength \in Nat \ {0} /\ MaxTime \in Nat
    /\ MaxTime \div MinuteLength \in Nat
    /\ Minute \subseteq Nat
    /\ \A t \in 0..MaxTime : t \div MinuteLength \in Minute
<1>1. MinuteLength \in Nat \ {0} /\ MaxTime \in Nat
  BY TimeAssumption
<1>2. MaxTime \div MinuteLength \in Nat
  BY <1>1, Divide
<1>3. ASSUME NEW t \in 0..MaxTime PROVE t \div MinuteLength \in Minute
  <2>1. t \in Nat /\ t <= MaxTime
    BY <1>1, <1>3
  <2>2. t \div MinuteLength \in Nat
    BY <1>1, <2>1, Divide
  <2>3. t \div MinuteLength <= MaxTime \div MinuteLength
    BY <1>1, <2>1, DivideMonotone
  <2>. QED  BY <1>2, <2>2, <2>3 DEF Minute
<1>. QED  BY <1>1, <1>2, <1>3 DEF Minute

\* The time of day is a minute.
LEMMA TodayIsAMinute == TypeOK => Today \in Minute
<1>1. TypeOK => now + offset \in 0..MaxTime
  BY MinuteFacts DEF TypeOK
<1>. QED  BY <1>1, MinuteFacts DEF Today

\* The result of a part that is read keeps its type.
LEMMA ReadType ==
    ASSUME TypeOK, NEW p \in Part, ReadPart(p)
    PROVE  /\ parts' \in Seq(Part) /\ Len(parts') <= MaxParts
           /\ result' \in [ok : BOOLEAN, values : SUBSET (Low..High)]
<1>1. parts' \in Seq(Part) /\ Len(parts') <= MaxParts
  BY PartsAssumption DEF TypeOK, ReadPart
<1>2. CASE Valid(p)
  <2>1. Values(p) \subseteq Low..High
    BY <1>2, ValuesAreMeant DEF Means
  <2>. QED  BY <1>1, <1>2, <2>1 DEF TypeOK, ReadPart, Parsed
<1>3. CASE ~Valid(p)
  BY <1>1, <1>3 DEF ReadPart, Error
<1>. QED  BY <1>2, <1>3

\* The invariant holds at the start.
LEMMA SchedulerInit == Init => SchedulerInv
<1>. SUFFICES ASSUME Init PROVE SchedulerInv
  OBVIOUS
<1>. USE DEF Init, ParseInit
<1>0. MaxTime \in Nat /\ MaxSteps \in Nat /\ Capacity \in Nat /\ MaxParts \in Nat
  BY TimeAssumption, RoomAssumption, PartsAssumption
<1>1. TypeOK
  BY <1>0 DEF TypeOK, Parsed
<1>2. ParsesToMeaning /\ StartInv /\ LookedInv /\ NoMinuteMissed
  BY DEF ParsesToMeaning, StartInv, LookedInv, NoMinuteMissed
<1>3. ClockInv
  BY <1>1, TodayIsAMinute DEF ClockInv
<1>4. FiredInv
  BY <1>3 DEF FiredInv, ClockInv
<1>5. PeriodInv
  BY JobAssumption DEF PeriodInv, Made
<1>. QED  BY <1>1, <1>2, <1>3, <1>4, <1>5 DEF SchedulerInv

\* Every step keeps the types.
LEMMA TypeStep ==
    ASSUME SchedulerInv, [Next]_vars
    PROVE  TypeOK'
<1>1. /\ TypeOK /\ Today \in Minute
      /\ MaxTime \in Nat /\ MaxSteps \in Nat /\ Capacity \in Nat \ {0} /\ MaxParts \in Nat
      /\ cron \in Job /\ Period \in [Job -> Nat]
  BY TimeAssumption, RoomAssumption, PartsAssumption, JobAssumption DEF SchedulerInv, ClockInv
<1>. USE <1>1 DEF TypeOK, cronVars
<1>2. CASE Parse
  BY <1>2, ReadType DEF Parse
<1>3. CASE StartCron
  BY <1>3 DEF StartCron
<1>4. CASE RefuseCron
  BY <1>4 DEF RefuseCron
<1>5. ASSUME NEW j \in Job, TickInterval(j) PROVE TypeOK'
  BY <1>5 DEF TickInterval
<1>6. ASSUME NEW j \in Job, Enqueue(j) PROVE TypeOK'
  BY <1>6 DEF Enqueue
<1>7. CASE TickCron
  <2>1. next' \in [Job -> Nat]
    <3>1. next' = [next EXCEPT ![cron] = @ + 1]
      BY <1>7 DEF TickCron
    <3>2. next \in [Job -> Nat] /\ next[cron] \in Nat
      OBVIOUS
    <3>. QED  BY <3>1, <3>2
  <2>2. last' \in Minute \cup {None} /\ fired' \in [Minute -> Nat] /\ sending' \subseteq Job
    <3>1. CASE last' = Today /\ fired' = [fired EXCEPT ![Today] = @ + 1] /\ sending' = sending \cup {cron}
      BY <3>1
    <3>2. CASE UNCHANGED <<last, fired, sending>>
      BY <3>2
    <3>. QED  BY <1>7, <3>1, <3>2 DEF TickCron
  <2>. QED  BY <1>7, <2>1, <2>2 DEF TickCron
<1>8. CASE Take
  BY <1>8 DEF Take
<1>9. CASE Second
  <2>0. now \in Nat /\ now < MaxTime /\ offset \in Int /\ offset <= 0 /\ now + offset >= 0
    BY <1>9 DEF Second
  <2>1. now' = now + 1 /\ offset' = offset /\ now' \in 0..MaxTime /\ now' + offset' >= 0
    BY <1>9, <2>0 DEF Second
  <2>2. now' + offset' \in 0..MaxTime
    BY <2>0, <2>1
  <2>3. Today' \in Minute
    BY <2>2, MinuteFacts DEF Today
  <2>4. blocked' \subseteq Minute
    BY <1>9, <2>3 DEF Second
  <2>. QED  BY <1>9, <2>1, <2>4 DEF Second
<1>10. CASE SetClockBack
  <2>1. PICK d \in 1..(now + offset) : offset' = offset - d
    BY <1>10 DEF SetClockBack
  <2>2. offset' \in -MaxTime..0 /\ now + offset' >= 0
    BY <2>1
  <2>3. steps' \in 0..MaxSteps
    BY <1>10 DEF SetClockBack
  <2>. QED  BY <1>10, <2>2, <2>3 DEF SetClockBack
<1>11. CASE UNCHANGED vars
  BY <1>11 DEF vars
<1>. QED
  BY <1>2, <1>3, <1>4, <1>5, <1>6, <1>7, <1>8, <1>9, <1>10, <1>11 DEF Next

\* What the types say of the counters.
LEMMA Numbers ==
    ASSUME TypeOK
    PROVE  now \in Nat /\ offset \in Int /\ steps \in Nat /\ Minute \subseteq Nat
<1>1. now \in Nat /\ offset \in Int
  BY TimeAssumption DEF TypeOK
<1>2. steps \in Nat
  BY TimeAssumption DEF TypeOK
<1>. QED  BY <1>1, <1>2, MinuteFacts

\* What the parts read so far mean, and one part more.
LEMMA MeaningStep ==
    ASSUME SchedulerInv, [Next]_vars
    PROVE  ParsesToMeaning' /\ (phase' = "parse" /\ parts' = <<>> => result' = Parsed({}))
<1>1. CASE phase = "parse" /\ \E p \in Part : ReadPart(p)
  <2>1. PICK p \in Part : ReadPart(p)
    BY <1>1
  <2>. DEFINE n == Len(parts) + 1
  <2>2. /\ parts \in Seq(Part) /\ n \in Nat
        /\ result \in [ok : BOOLEAN, values : SUBSET (Low..High)] /\ result.ok
    BY <2>1 DEF SchedulerInv, TypeOK, ReadPart
  <2>3. /\ DOMAIN parts' = DOMAIN parts \cup {n} /\ n \notin DOMAIN parts /\ parts'[n] = p
        /\ \A i \in DOMAIN parts : parts'[i] = parts[i]
        /\ parts' # <<>>
    BY <2>1, <2>2 DEF ReadPart
  <2>4. /\ \A i \in DOMAIN parts : ~Senseless(parts[i])
        /\ result = Parsed(UNION {Means(parts[i]) : i \in DOMAIN parts})
    <3>1. CASE parts = <<>>
      <4>1. result = Parsed({})
        BY <1>1, <3>1 DEF SchedulerInv, StartInv
      <4>2. DOMAIN parts = {}
        BY <3>1
      <4>. QED  BY <4>1, <4>2
    <3>2. CASE parts # <<>>
      BY <2>2, <3>2 DEF SchedulerInv, ParsesToMeaning, Error, Parsed
    <3>. QED  BY <3>1, <3>2
  <2>. HIDE DEF n
  <2>5. CASE Valid(p)
    <3>1. \A i \in DOMAIN parts' : ~Senseless(parts'[i])
      BY <2>3, <2>4, <2>5, ValidIsSensible
    <3>2. result' = Parsed(result.values \cup Means(p))
      BY <2>1, <2>5, ValuesAreMeant DEF ReadPart
    <3>3. UNION {Means(parts'[i]) : i \in DOMAIN parts'}
             = (UNION {Means(parts[i]) : i \in DOMAIN parts}) \cup Means(p)
      <4>1. \A x : (\E i \in DOMAIN parts' : x \in Means(parts'[i]))
                      <=> (\E i \in DOMAIN parts : x \in Means(parts[i])) \/ x \in Means(p)
        BY <2>3
      <4>. QED  BY <4>1
    <3>4. result.values = UNION {Means(parts[i]) : i \in DOMAIN parts}
      BY <2>4 DEF Parsed
    <3>5. result' = Parsed(UNION {Means(parts'[i]) : i \in DOMAIN parts'})
      BY <3>2, <3>3, <3>4
    <3>. QED  BY <2>3, <3>1, <3>5 DEF ParsesToMeaning
  <2>6. CASE ~Valid(p)
    <3>1. Senseless(parts'[n]) /\ n \in DOMAIN parts'
      BY <2>3, <2>6, ValidIsSensible
    <3>2. result' = Error
      BY <2>1, <2>6 DEF ReadPart
    <3>. QED  BY <2>3, <3>1, <3>2 DEF ParsesToMeaning
  <2>. QED  BY <2>5, <2>6
<1>2. CASE StartCron \/ RefuseCron
  BY <1>2 DEF StartCron, RefuseCron, ParsesToMeaning
<1>3. CASE UNCHANGED cronVars
  BY <1>3 DEF cronVars, SchedulerInv, StartInv, ParsesToMeaning
<1>. QED
  BY <1>1, <1>2, <1>3 DEF Next, vars, Parse, TickInterval, Enqueue, TickCron, Take, Second,
     SetClockBack

\* A second moves the time of day by a minute at most, setting the clock moves
\* it back, nothing else moves it.
LEMMA TodayStep ==
    ASSUME SchedulerInv, [Next]_vars
    PROVE  /\ Today \in Nat /\ Today' \in Minute /\ Today' \in Nat
           /\ Second => Today' \in {Today, Today + 1}
           /\ ~Second /\ ~SetClockBack => Today' = Today /\ now' = now /\ offset' = offset
<1>1. Today' \in Minute
  <2>0. now' \in 0..MaxTime /\ offset' \in -MaxTime..0 /\ now' + offset' >= 0
    BY TypeStep DEF TypeOK
  <2>a. \A n \in 0..MaxTime : \A o \in -MaxTime..0 : n + o >= 0 => n + o \in 0..MaxTime
    BY TimeAssumption
  <2>1. now' + offset' \in 0..MaxTime
    BY <2>0, <2>a, Zenon
  <2>. QED  BY <2>1, MinuteFacts DEF Today
<1>2. Today \in Nat /\ Today' \in Nat
  BY <1>1, MinuteFacts DEF SchedulerInv, ClockInv
<1>3. ASSUME Second PROVE Today' \in {Today, Today + 1}
  <2>1. now + offset \in Nat /\ now' + offset' = (now + offset) + 1
    BY <1>3 DEF Second, SchedulerInv, TypeOK
  <2>. QED  BY <2>1, MinuteFacts, Divide DEF Today
<1>4. ASSUME ~Second, ~SetClockBack PROVE now' = now /\ offset' = offset
  BY <1>4 DEF Next, vars, Parse, StartCron, RefuseCron, TickInterval, Enqueue, TickCron, Take
<1>. QED  BY <1>1, <1>2, <1>3, <1>4 DEF Today

\* Every step keeps ClockInv.
LEMMA ClockStep ==
    ASSUME SchedulerInv, [Next]_vars
    PROVE  ClockInv'
<1>1. CASE SetClockBack
  BY <1>1, TodayStep DEF SetClockBack, SchedulerInv, TypeOK, ClockInv
<1>2. CASE ~SetClockBack
  <2>1. steps' = steps /\ offset' = offset
    BY <1>2 DEF Next, vars, Parse, StartCron, RefuseCron, TickInterval, Enqueue, TickCron, Take,
       Second
  <2>. QED  BY <2>1, TodayStep DEF SchedulerInv, ClockInv
<1>. QED  BY <1>1, <1>2

\* Every step keeps StartInv.
LEMMA StartStep ==
    ASSUME SchedulerInv, [Next]_vars
    PROVE  StartInv'
<1>1. phase' = "parse" => phase = "parse" /\ now' = now
  BY DEF Next, vars, cronVars, Parse, StartCron, RefuseCron, TickInterval, Enqueue, TickCron,
     Take, Second, SetClockBack
<1>2. phase' # "runs" => phase # "runs" /\ last' = last /\ fired' = fired
  BY DEF Next, vars, cronVars, Parse, StartCron, RefuseCron, TickInterval, Enqueue, TickCron,
     Ready, Take, Second, SetClockBack
<1>. QED  BY <1>1, <1>2, MeaningStep DEF SchedulerInv, StartInv

\* Outside a tick of the cron job nothing fires.
LEMMA OnlyTickFires ==
    ASSUME [Next]_vars, ~TickCron
    PROVE  fired' = fired /\ last' = last
BY DEF Next, vars, Parse, StartCron, RefuseCron, TickInterval, Enqueue, Take, Second, SetClockBack

\* What a tick of the cron job does: it fires, or this minute has no need of it.
LEMMA TickFires ==
    ASSUME SchedulerInv, TickCron
    PROVE  \/ /\ Today \in result.values /\ last # Today /\ last' = Today
              /\ fired'[Today] = fired[Today] + 1
              /\ \A m \in Minute : m # Today => fired'[m] = fired[m]
           \/ /\ Today \in result.values => last = Today
              /\ last' = last /\ fired' = fired
<1>1. Today \in Minute /\ fired \in [Minute -> Nat]
  BY DEF SchedulerInv, ClockInv, TypeOK
<1>. QED  BY <1>1 DEF TickCron

\* A minute is counted when it is remembered, and only then.
LEMMA FiredStep ==
    ASSUME SchedulerInv, [Next]_vars
    PROVE  FiredInv'
<1>1. /\ fired \in [Minute -> Nat] /\ steps \in Nat /\ steps' \in Nat /\ Today \in Minute
      /\ Minute \subseteq Nat /\ last \in Minute \cup {None} /\ None \notin Minute
      /\ last' \in Minute \cup {None}
  <2>1. steps \in 0..MaxSteps /\ steps' \in 0..MaxSteps
    BY TypeStep DEF SchedulerInv, TypeOK
  <2>2. None \notin Minute
    BY MinuteFacts DEF None
  <2>3. steps \in Nat /\ steps' \in Nat
    BY <2>1, TimeAssumption
  <2>. QED  BY <2>2, <2>3, TypeStep, MinuteFacts DEF SchedulerInv, TypeOK, ClockInv
<1>2. /\ \A m \in Minute : fired[m] > 0 => m \in result.values
      /\ \A m \in Minute : fired[m] <= 1 + steps
      /\ \A m \in Minute : m > Today => fired[m] <= steps
      /\ last # Today => fired[Today] <= steps
      /\ last # None => fired[last] >= 1
  BY DEF SchedulerInv, FiredInv
<1>3. CASE TickCron
  <2>1. Today' = Today /\ steps' = steps /\ result' = result
    BY <1>3, TodayStep DEF TickCron, Second, SetClockBack, cronVars, SchedulerInv, TypeOK
  <2>2. CASE fired' = fired /\ last' = last
    BY <1>2, <2>1, <2>2 DEF FiredInv
  <2>3. CASE /\ Today \in result.values /\ last # Today /\ last' = Today
             /\ fired'[Today] = fired[Today] + 1
             /\ \A m \in Minute : m # Today => fired'[m] = fired[m]
    <3>1. fired[Today] <= steps /\ fired[Today] \in Nat
      BY <1>1, <1>2, <2>3
    <3>2. /\ fired'[Today] <= 1 + steps /\ fired'[Today] >= 1
      BY <1>1, <2>3, <3>1
    <3>3. \A m \in Minute : fired'[m] <= 1 + steps
      BY <1>2, <2>3, <3>2
    <3>4. \A m \in Minute : m > Today => fired'[m] <= steps
      BY <1>1, <1>2, <2>3
    <3>5. \A m \in Minute : fired'[m] > 0 => m \in result.values
      BY <1>2, <2>3
    <3>. QED  BY <2>1, <2>3, <3>2, <3>3, <3>4, <3>5 DEF FiredInv
  <2>. QED  BY <1>3, <2>2, <2>3, TickFires
<1>4. CASE Second
  <2>1. /\ fired' = fired /\ last' = last /\ steps' = steps /\ result' = result
    BY <1>4 DEF Second, cronVars
  <2>2. Today' = Today \/ Today' = Today + 1
    BY <1>4, TodayStep
  <2>3. \A m \in Minute : m > Today' => fired[m] <= steps
    BY <1>1, <1>2, <2>2
  <2>4. last # Today' => fired[Today'] <= steps
    <3>1. CASE Today' = Today
      BY <1>2, <3>1
    <3>2. CASE Today' = Today + 1
      <4>1. Today' > Today
        BY <1>1, <3>2
      <4>. QED  BY <1>2, <4>1, TodayStep
    <3>. QED  BY <2>2, <3>1, <3>2
  <2>. QED  BY <1>2, <2>1, <2>3, <2>4 DEF FiredInv
<1>5. CASE SetClockBack
  <2>1. /\ fired' = fired /\ last' = last /\ steps' = steps + 1 /\ result' = result
    BY <1>5 DEF SetClockBack, cronVars
  <2>2. \A m \in Minute : fired'[m] <= steps'
    BY <1>1, <1>2, <2>1
  <2>3. \A m \in Minute : fired'[m] <= 1 + steps'
    BY <1>1, <2>1, <2>2
  <2>. QED  BY <1>2, <2>1, <2>2, <2>3, TodayStep DEF FiredInv
<1>6. CASE Parse \/ StartCron \/ RefuseCron
  <2>1. /\ fired' = fired /\ last' = last /\ steps' = steps /\ phase # "runs"
    BY <1>6 DEF Parse, StartCron, RefuseCron
  <2>2. \A m \in Minute : fired'[m] = 0
    BY <2>1 DEF SchedulerInv, StartInv
  <2>3. last' = None
    BY <2>1 DEF SchedulerInv, StartInv
  <2>. QED  BY <1>1, <2>1, <2>2, <2>3, TodayStep DEF FiredInv
<1>7. ASSUME ~TickCron, ~Second, ~SetClockBack, ~(Parse \/ StartCron \/ RefuseCron)
      PROVE  FiredInv'
  <2>1. /\ fired' = fired /\ last' = last
    BY <1>7, OnlyTickFires
  <2>2. steps' = steps /\ result' = result
    BY <1>7 DEF Next, vars, cronVars, TickInterval, Enqueue, Take
  <2>3. Today' = Today
    BY <1>7, TodayStep
  <2>. QED  BY <1>2, <2>1, <2>2, <2>3 DEF FiredInv
<1>. QED  BY <1>3, <1>4, <1>5, <1>6, <1>7

\* The ticker moves on only past a minute that was looked at.
LEMMA LookedStep ==
    ASSUME SchedulerInv, [Next]_vars
    PROVE  LookedInv'
<1>1. /\ next \in [Job -> Nat] /\ now \in Nat /\ cron \in Job /\ steps \in Nat
      /\ fired \in [Minute -> Nat] /\ Today \in Minute /\ Minute \subseteq Nat
  BY JobAssumption, Numbers DEF SchedulerInv, TypeOK, ClockInv
<1>2. phase = "runs" =>
        /\ next[cron] <= now + 1
        /\ (steps = 0 /\ next[cron] = now + 1 /\ Today \in result.values) => fired[Today] >= 1
  BY DEF SchedulerInv, LookedInv
<1>3. CASE TickCron
  <2>1. /\ Today' = Today /\ now' = now
    BY <1>3, <1>1, TodayStep DEF TickCron, Second, SetClockBack
  <2>2. next'[cron] = next[cron] + 1 /\ next[cron] <= now /\ result' = result
    BY <1>1, <1>3 DEF TickCron, Ready, cronVars
  <2>3. next'[cron] <= now' + 1
    BY <1>1, <2>1, <2>2
  <2>4. Today \in result.values => fired'[Today] >= 1
    <3>1. CASE fired'[Today] = fired[Today] + 1
      BY <1>1, <3>1
    <3>2. CASE (Today \in result.values => last = Today) /\ fired' = fired
      <4>1. Today # None
        BY <1>1 DEF None
      <4>. QED  BY <3>2, <4>1 DEF SchedulerInv, FiredInv
    <3>. QED  BY <1>3, <3>1, <3>2, TickFires
  <2>. QED  BY <2>1, <2>2, <2>3, <2>4 DEF LookedInv
<1>4. CASE Second
  <2>1. now' = now + 1 /\ next' = next /\ phase' = phase
    BY <1>4 DEF Second, cronVars
  <2>2. phase' = "runs" => next'[cron] <= now' /\ next'[cron] # now' + 1
    BY <1>1, <1>2, <2>1
  <2>. QED  BY <1>1, <2>1, <2>2 DEF LookedInv
<1>5. CASE SetClockBack
  <2>1. steps' # 0 /\ now' = now /\ next' = next /\ phase' = phase
    BY <1>1, <1>5 DEF SetClockBack, cronVars
  <2>. QED  BY <1>2, <2>1 DEF LookedInv
<1>6. CASE StartCron
  <2>1. next'[cron] = now /\ now' = now
    BY <1>1, <1>6 DEF StartCron
  <2>. QED  BY <1>1, <2>1 DEF LookedInv
<1>7. CASE Parse \/ RefuseCron
  BY <1>7 DEF Parse, RefuseCron, LookedInv
<1>8. ASSUME ~TickCron, ~Second, ~SetClockBack, ~StartCron, ~Parse, ~RefuseCron PROVE LookedInv'
  <2>1. fired' = fired /\ Today' = Today /\ now' = now
    BY <1>8, OnlyTickFires, TodayStep
  <2>2. steps' = steps /\ result' = result /\ phase' = phase /\ next'[cron] = next[cron]
    BY <1>1, <1>8 DEF Next, vars, cronVars, TickInterval, Enqueue, Take
  <2>. QED  BY <1>2, <2>1, <2>2 DEF LookedInv
<1>. QED  BY <1>3, <1>4, <1>5, <1>6, <1>7, <1>8

\* A deadline and the count of envelopes move on together.
LEMMA PeriodStep ==
    ASSUME SchedulerInv, [Next]_vars
    PROVE  PeriodInv'
<1>1. /\ next \in [Job -> Nat] /\ now \in Nat /\ cron \in Job /\ sent \in [Job -> Nat]
      /\ Period \in [Job -> Nat]
      /\ \A k \in Job \ {cron} : /\ next[k] = Made(k) * Period[k]
                                 /\ Made(k) > 0 => (Made(k) - 1) * Period[k] <= now
  BY JobAssumption, TimeAssumption DEF SchedulerInv, TypeOK, PeriodInv
<1>2. \A k \in Job : Made(k) \in Nat
  BY <1>1 DEF Made
<1>3. now' \in Nat /\ now' >= now
  <2>1. now' = now \/ now' = now + 1
    BY DEF Next, vars, Parse, StartCron, RefuseCron, TickInterval, Enqueue, TickCron, Take, Second,
       SetClockBack
  <2>. QED  BY <1>1, <2>1
<1>4. ASSUME \A k \in Job \ {cron} : next'[k] = next[k] /\ Made(k)' = Made(k)
      PROVE  PeriodInv'
  <2>. SUFFICES ASSUME NEW k \in Job \ {cron}
                PROVE  /\ next'[k] = Made(k)' * Period[k]
                       /\ Made(k)' > 0 => (Made(k)' - 1) * Period[k] <= now'
    BY DEF PeriodInv
  <2>1. next'[k] = Made(k)' * Period[k]
    BY <1>1, <1>4
  <2>2. ASSUME Made(k) > 0 PROVE (Made(k) - 1) * Period[k] <= now'
    <3>1. (Made(k) - 1) * Period[k] <= now
      BY <1>1, <2>2
    <3>2. Made(k) - 1 \in Int /\ Period[k] \in Int
      BY <1>1, <1>2
    <3>3. (Made(k) - 1) * Period[k] \in Int
      BY <3>2
    <3>. QED  BY <1>1, <1>3, <3>1, <3>3
  <2>. QED  BY <1>4, <2>1, <2>2
<1>5. ASSUME NEW j \in Job, TickInterval(j) PROVE PeriodInv'
  <2>1. /\ j \in Job \ {cron} /\ j \notin sending /\ next[j] <= now
        /\ next'[j] = next[j] + Period[j] /\ sent' = sent /\ now' = now
        /\ sending' = sending \cup {j}
        /\ \A k \in Job \ {j} : next'[k] = next[k]
    BY <1>1, <1>5 DEF TickInterval, Ready
  <2>2. Made(j)' = Made(j) + 1
    BY <1>1, <2>1 DEF Made
  <2>3. \A k \in Job : k # j => Made(k)' = Made(k)
    BY <2>1 DEF Made
  <2>4. next'[j] = Made(j)' * Period[j]
    <3>1. next[j] = Made(j) * Period[j] /\ Made(j) \in Nat /\ Period[j] \in Nat
      BY <1>1, <1>2, <2>1
    <3>2. (Made(j) + 1) * Period[j] = Made(j) * Period[j] + Period[j]
      BY <3>1
    <3>. QED  BY <2>1, <2>2, <3>1, <3>2
  <2>5. (Made(j)' - 1) * Period[j] <= now'
    <3>1. Made(j)' - 1 = Made(j)
      BY <1>2, <2>2
    <3>2. next[j] = Made(j) * Period[j]
      BY <1>1, <2>1
    <3>. QED  BY <2>1, <3>1, <3>2
  <2>. QED  BY <1>1, <2>1, <2>3, <2>4, <2>5 DEF PeriodInv
<1>6. ASSUME NEW j \in Job, Enqueue(j) PROVE PeriodInv'
  <2>1. \A k \in Job : Made(k)' = Made(k)
    <3>1. j \in sending /\ sending' = sending \ {j} /\ sent' = [sent EXCEPT ![j] = @ + 1]
      BY <1>6 DEF Enqueue
    <3>2. Made(j)' = Made(j)
      BY <1>1, <3>1 DEF Made
    <3>3. \A k \in Job : k # j => Made(k)' = Made(k)
      BY <1>1, <3>1 DEF Made
    <3>. QED  BY <3>2, <3>3
  <2>. QED  BY <1>4, <1>6, <2>1 DEF Enqueue
<1>7. CASE TickCron
  <2>1. \A k \in Job \ {cron} : next'[k] = next[k] /\ (k \in sending' <=> k \in sending)
    BY <1>1, <1>7 DEF TickCron
  <2>. QED  BY <1>4, <1>7, <2>1 DEF TickCron, Made
<1>8. CASE StartCron
  <2>1. \A k \in Job \ {cron} : next'[k] = next[k]
    BY <1>1, <1>8 DEF StartCron
  <2>. QED  BY <1>4, <1>8, <2>1 DEF StartCron, Made
<1>9. CASE UNCHANGED <<next, sending, sent>>
  BY <1>4, <1>9 DEF Made
<1>. QED
  BY <1>5, <1>6, <1>7, <1>8, <1>9
     DEF Next, vars, Parse, RefuseCron, Take, Second, SetClockBack

\* A minute is gone by only when it has been looked at.
LEMMA MissedStep ==
    ASSUME SchedulerInv, [Next]_vars
    PROVE  NoMinuteMissed'
<1>1. /\ next \in [Job -> Nat] /\ now \in Nat /\ cron \in Job /\ steps \in Nat
      /\ fired \in [Minute -> Nat] /\ Today \in Minute /\ Minute \subseteq Nat
      /\ result.values \subseteq Low..High /\ Low..High \subseteq Nat
      /\ fired' \in [Minute -> Nat] /\ result'.values \subseteq Low..High
  <2>1. Low..High \subseteq Nat
    BY WordAssumption
  <2>2. result.values \subseteq Low..High
    BY DEF SchedulerInv, TypeOK
  <2>3. fired' \in [Minute -> Nat] /\ result'.values \subseteq Low..High
    BY TypeStep DEF TypeOK
  <2>. QED  BY <2>1, <2>2, <2>3, JobAssumption, Numbers DEF SchedulerInv, TypeOK, ClockInv
<1>2. \A n \in Nat : \A t \in Minute : n < t => n \in Minute
  BY MinuteFacts DEF Minute
<1>3. steps = 0 /\ phase = "runs" => \A m \in result.values \ blocked : m < Today => fired[m] = 1
  BY DEF SchedulerInv, NoMinuteMissed
<1>4. steps' = 0 => \A m \in Minute : fired'[m] <= 1
  BY FiredStep DEF FiredInv
<1>5. CASE Second
  <2>1. /\ UNCHANGED <<steps, phase, result, fired, next, sending>>
        /\ ~Ready(cron)
        /\ blocked' = IF cron \in sending THEN blocked \cup {Today, Today'} ELSE blocked
    BY <1>1, <1>5 DEF Second, cronVars
  <2>. SUFFICES ASSUME steps = 0, phase = "runs",
                       NEW m \in result.values \ blocked', m < Today'
                PROVE  fired[m] = 1
    BY <2>1 DEF NoMinuteMissed
  <2>2. m \in Nat /\ m \notin blocked
    BY <1>1, <2>1
  <2>3. Today' = Today \/ Today' = Today + 1
    BY <1>5, TodayStep
  <2>4. m < Today \/ m = Today
    BY <1>1, <2>2, <2>3
  <2>5. CASE m < Today
    BY <1>3, <2>2, <2>5
  <2>6. CASE m = Today
    <3>1. cron \notin sending
      BY <2>1, <2>6
    <3>2. ~(next[cron] <= now)
      BY <2>1, <3>1, JobAssumption DEF Ready
    <3>3. next[cron] <= now + 1
      BY DEF SchedulerInv, LookedInv
    <3>4. next[cron] = now + 1
      BY <1>1, <3>2, <3>3
    <3>5. fired[Today] >= 1
      BY <2>6, <3>4 DEF SchedulerInv, LookedInv
    <3>6. fired[Today] <= 1
      BY <1>1, <1>4, <2>1
    <3>. QED  BY <1>1, <2>6, <3>5, <3>6
  <2>. QED  BY <2>4, <2>5, <2>6
<1>6. CASE TickCron
  <2>1. UNCHANGED <<steps, phase, result, blocked>> /\ Today' = Today
    BY <1>1, <1>6, TodayStep DEF TickCron, cronVars, Second, SetClockBack
  <2>2. \A m \in Minute : m # Today => fired'[m] = fired[m]
    BY <1>6, TickFires
  <2>. SUFFICES ASSUME steps = 0, phase = "runs", NEW m \in result.values \ blocked, m < Today
                PROVE  fired'[m] = 1
    BY <2>1 DEF NoMinuteMissed
  <2>3. m \in Minute /\ m # Today
    BY <1>1, <1>2
  <2>. QED  BY <1>3, <2>2, <2>3
<1>7. CASE Parse \/ RefuseCron
  BY <1>7 DEF Parse, RefuseCron, NoMinuteMissed
\* The job starts at the first second: no minute has gone by.
<1>8. CASE StartCron
  <2>1. /\ now' = 0 /\ offset' = offset /\ steps' = steps
    BY <1>8 DEF StartCron, SchedulerInv, StartInv
  <2>2. steps' = 0 => now' + offset' = 0
    BY <2>1 DEF SchedulerInv, ClockInv
  <2>3. steps' = 0 => Today' = 0
    <3>1. 0 \div MinuteLength = 0
      <4>1. /\ 0 \div MinuteLength \in Nat
            /\ 0 = MinuteLength * (0 \div MinuteLength) + (0 % MinuteLength)
        BY MinuteFacts, Divide
      <4>2. 0 % MinuteLength = 0
        BY MinuteFacts, Divide
      <4>. QED  BY <4>1, <4>2, MinuteFacts
    <3>. QED  BY <2>2, <3>1 DEF Today
  <2>. QED  BY <1>1, <2>3 DEF NoMinuteMissed
<1>9. CASE SetClockBack
  BY <1>1, <1>9 DEF SetClockBack, NoMinuteMissed
<1>10. ASSUME ~TickCron, ~Second, ~SetClockBack, ~StartCron, ~Parse, ~RefuseCron
       PROVE  NoMinuteMissed'
  <2>1. fired' = fired /\ Today' = Today
    BY <1>10, OnlyTickFires, TodayStep
  <2>2. steps' = steps /\ result' = result /\ phase' = phase /\ blocked' = blocked
    BY <1>10 DEF Next, vars, cronVars, TickInterval, Enqueue, Take
  <2>. QED  BY <1>3, <2>1, <2>2 DEF NoMinuteMissed
<1>. QED  BY <1>5, <1>6, <1>7, <1>8, <1>9, <1>10

\* The invariant holds in every reachable state.
LEMMA SchedulerInvariant == Spec => []SchedulerInv
<1>1. SchedulerInv /\ [Next]_vars => SchedulerInv'
  BY TypeStep, MeaningStep, ClockStep, StartStep, FiredStep, LookedStep, PeriodStep, MissedStep
     DEF SchedulerInv
<1>. QED  BY <1>1, SchedulerInit, PTL DEF Spec

-----------------------------------------------------------------------------
(* The theorems. *)

(***************************************************************************)
(* The state of the tasks, their tickers and the channel is well typed:    *)
(* the channel never holds more than its capacity, and a field that has    *)
(* been parsed has no value out of its bounds.                             *)
(***************************************************************************)
THEOREM TypeCorrect == Spec => []TypeOK
<1>1. SchedulerInv => TypeOK
  BY DEF SchedulerInv
<1>. QED  BY <1>1, SchedulerInvariant, PTL

(***************************************************************************)
(* The parser computes what a field means, for every list of parts and any *)
(* width of the word: no step makes it wrap around, repeat or stop short.  *)
(***************************************************************************)
THEOREM FieldsMeanWhatTheySay == Spec => []ParsesToMeaning
<1>1. SchedulerInv => ParsesToMeaning
  BY DEF SchedulerInv
<1>. QED  BY <1>1, SchedulerInvariant, PTL

(***************************************************************************)
(* The cron job fires only in matching minutes and once in each, plus once *)
(* for every time the clock of the host is set back.                       *)
(***************************************************************************)
THEOREM FiresOncePerMinute == Spec => []OncePerMinute
<1>1. SchedulerInv => OncePerMinute
  BY DEF SchedulerInv, FiredInv, OncePerMinute
<1>. QED  BY <1>1, SchedulerInvariant, PTL

(***************************************************************************)
(* No matching minute goes by without firing, unless the channel held the  *)
(* job up in it or the clock was set back.                                 *)
(***************************************************************************)
THEOREM MinutesAreNotMissed == Spec => []NoMinuteMissed
<1>1. SchedulerInv => NoMinuteMissed
  BY DEF SchedulerInv
<1>. QED  BY <1>1, SchedulerInvariant, PTL

(***************************************************************************)
(* An interval task has made one envelope for every period begun, however  *)
(* long it was held up, and never one too early.                           *)
(***************************************************************************)
THEOREM TicksAreNotLost == Spec => []NoTickLost
<1>1. ASSUME SchedulerInv PROVE NoTickLost
  <2>. SUFFICES ASSUME NEW j \in Job \ {cron}, Period[j] > 0
                PROVE  /\ Made(j) <= now \div Period[j] + 1
                       /\ (~Ready(j) /\ j \notin sending) => Made(j) = now \div Period[j] + 1
    BY DEF NoTickLost, Made
  <2>1. /\ now \in Nat /\ Period[j] \in Nat \ {0} /\ Made(j) \in Nat
        /\ next[j] = Made(j) * Period[j]
        /\ Made(j) > 0 => (Made(j) - 1) * Period[j] <= now
    BY <1>1, JobAssumption, TimeAssumption DEF SchedulerInv, TypeOK, PeriodInv, Made
  <2>. DEFINE k == now \div Period[j]
  <2>2. k \in Nat /\ \A i \in Nat : i * Period[j] <= now <=> i <= k
    BY <2>1, Divide
  <2>. HIDE DEF k
  <2>3. Made(j) <= k + 1
    <3>1. CASE Made(j) = 0
      BY <2>2, <3>1
    <3>2. CASE Made(j) > 0
      <4>1. Made(j) - 1 \in Nat
        BY <2>1, <3>2
      <4>2. Made(j) - 1 <= k
        BY <2>1, <2>2, <3>2, <4>1
      <4>. QED  BY <2>1, <2>2, <4>2
    <3>. QED  BY <2>1, <3>1, <3>2
  <2>4. ASSUME ~Ready(j), j \notin sending PROVE Made(j) = k + 1
    <3>1. ~(Made(j) * Period[j] <= now)
      BY <2>1, <2>4 DEF Ready
    <3>2. ~(Made(j) <= k)
      BY <2>1, <2>2, <3>1
    <3>. QED  BY <2>1, <2>2, <2>3, <3>2
  <2>. QED  BY <2>3, <2>4 DEF k
<1>. QED  BY <1>1, SchedulerInvariant, PTL

=============================================================================
