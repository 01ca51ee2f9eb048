--------------------------- MODULE Sandbox_proofs ---------------------------
(***************************************************************************)
(* What Sandbox.tla promises about time, for every second, lateness,       *)
(* timeout and fuel.  The deadline is counted in ticks and the promise in  *)
(* units of time; Clocks relates the two through the number of ticks left, *)
(* which is what every step of the guest keeps and every tick moves by one *)
(* period.  Then what it promises about manifests, for every width of an   *)
(* address: the bits of the mask of a prefix are those above the host      *)
(* part, and two addresses agree in them when they are in one block.       *)
(***************************************************************************)
EXTENDS Sandbox, TLAPS, WellFoundedInduction

\* The timeout in seconds, at least 1, and the ticks the payload has left.
Limit == Max1(Timeout)
Left  == deadline - epoch

\* The time used is at most that of the ticks used, and at least that of
\* all of them but the first, which may have come at once.
Clocks ==
    at \in Running =>
        /\ Left <= Limit
        /\ Left > 0 => elapsed - overdue <= (Limit - Left) * Period + phase
        /\ Left <= 0 => elapsed - overdue <= Limit * Period
        /\ Left < Limit => elapsed >= (Limit - Left - 1) * Second + phase

\* Until its limits are set a payload has used no time and has no result.
Fresh ==
    /\ at # "idle" => result = "none"
    /\ at \in {"scan", "check", "compile"} => elapsed = 0 /\ overdue = 0

IInv == TypeOK /\ Fresh /\ Clocks /\ StoppedInTime /\ NotCutShort

USE TimeAssumption, FuelAssumption, BoundsAssumption

-----------------------------------------------------------------------------
(* One more tick is one more period. *)
LEMMA OneMore == ASSUME NEW n \in Int, NEW k \in Int
                 PROVE  (n + 1) * k = n * k + k
  OBVIOUS

(* A longer count of periods is a longer time. *)
LEMMA Monotone == ASSUME NEW m \in Int, NEW n \in Int, NEW k \in Nat, m <= n
                  PROVE  m * k <= n * k
  OBVIOUS

\* The timeout and the period in numbers.
LEMMA LimitType == Limit \in Nat /\ Limit >= 1 /\ Period \in Nat /\ Period >= Second
  BY DEF Limit, Max1, Period

-----------------------------------------------------------------------------
(* The invariant holds at the start. *)
LEMMA InitInv == Init => IInv
<1> SUFFICES ASSUME Init PROVE IInv
  OBVIOUS
<1>1. image \in Payload /\ manifest \in Manifest
  BY PayloadAssumption, ManifestAssumption DEF Init
<1>2. TypeOK
  BY <1>1, LimitType DEF Init, TypeOK
<1>3. Limit * Period >= 0
  <2>1. 0 * Period <= Limit * Period
    BY LimitType, Monotone
  <2> QED
    BY <2>1, LimitType
<1>4. Fresh /\ Clocks /\ NotCutShort
  BY DEF Init, Fresh, Clocks, Running, NotCutShort
<1>5. StoppedInTime
  BY <1>3 DEF Init, StoppedInTime, Limit
<1> QED
  BY <1>2, <1>4, <1>5 DEF IInv

(* Every step keeps the variables in their types. *)
LEMMA NextType == TypeOK /\ [Next]_vars => TypeOK'
<1> SUFFICES ASSUME TypeOK, [Next]_vars PROVE TypeOK'
  OBVIOUS
<1> USE DEF TypeOK, Running
<1>1. ASSUME NEW p \in Payload, NEW m \in Manifest, PreparePayload(p, m) PROVE TypeOK'
  BY <1>1 DEF PreparePayload, engine
<1>2. CASE Scan \/ CheckManifest \/ LinkFails
  BY <1>2 DEF Scan, CheckManifest, LinkFails, End, Wait, Keep, engine, clock, payload, verdict
<1>3. CASE SetLimits
  BY <1>3, LimitType DEF SetLimits, Limit, Wait, engine, clock, payload, verdict
<1>4. CASE Compute \/ CallLog \/ CallWasi
  BY <1>4 DEF Compute, CallLog, CallWasi, MayRun, Burn, Wait, engine, clock, payload, verdict
<1>5. CASE Enter \/ Return \/ Trap
  BY <1>5 DEF Enter, Return, Trap, End, MayRun, Burn, Wait, engine, clock, payload, verdict
<1>6. ASSUME NEW t \in Target, CallHttp(t) PROVE TypeOK'
  BY <1>6 DEF CallHttp, MayRun, Burn, Wait, engine, clock, payload
<1>7. ASSUME NEW c \in Command, CallExec(c) PROVE TypeOK'
  BY <1>7 DEF CallExec, MayRun, Burn, Wait, engine, clock, payload
<1>8. CASE HostReturns \/ Limits
  BY <1>8 DEF HostReturns, Limits, OutOfFuel, Interrupt, End, Wait, Keep, engine, clock,
     payload, verdict
<1>9. CASE TickEpoch
  BY <1>9, LimitType DEF TickEpoch, clock, payload, verdict
<1>10. CASE Pass
  BY <1>10, LimitType DEF Pass, Keep, payload, verdict
<1>11. CASE UNCHANGED vars
  BY <1>11 DEF vars, engine, clock, payload, verdict
<1> QED
  BY <1>1, <1>2, <1>3, <1>4, <1>5, <1>6, <1>7, <1>8, <1>9, <1>10, <1>11 DEF Next, Guest

-----------------------------------------------------------------------------
(* A step that takes no time, moves no deadline and starts no payload.     *)
LEMMA NoTime ==
  ASSUME IInv,
         UNCHANGED <<epoch, phase, elapsed, overdue, deadline>>,
         at' \in Running => at \in Running,
         at' \in {"scan", "check", "compile"} => at \in {"scan", "check", "compile"},
         at' # "idle" => at # "idle" /\ result' = result,
         result' = "timeout" => result = "timeout" \/ (Left <= 0 /\ at \in Running)
  PROVE  (Fresh /\ Clocks /\ StoppedInTime /\ NotCutShort)'
<1>1. Left' = Left
  BY DEF Left
<1>2. (Fresh /\ Clocks /\ StoppedInTime)'
  BY <1>1 DEF IInv, Fresh, Clocks, StoppedInTime, Limit, Period
<1>3. NotCutShort'
  <2>1. CASE result = "timeout"
    BY <2>1 DEF IInv, NotCutShort
  <2>2. CASE Left <= 0 /\ at \in Running
    <3>2. Left \in Int /\ phase \in Nat /\ elapsed \in Nat
      BY LimitType DEF IInv, TypeOK, Left
    <3>1. elapsed >= (Limit - Left - 1) * Second + phase
      <4>1. Left < Limit
        BY <2>2, <3>2, LimitType
      <4> QED
        BY <2>2, <4>1 DEF IInv, Clocks
    <3>3. (Limit - 1) * Second <= (Limit - Left - 1) * Second
      BY <2>2, <3>2, LimitType, Monotone
    <3>4. elapsed >= (Limit - 1) * Second
      <4> DEFINE A == (Limit - 1) * Second
                 B == (Limit - Left - 1) * Second
      <4>1. A \in Int /\ B \in Int
        BY <3>2, LimitType
      <4>2. A <= B /\ elapsed >= B + phase
        BY <3>1, <3>3
      <4> HIDE DEF A, B
      <4>3. elapsed >= A
        BY <4>1, <4>2, <3>2
      <4> QED
        BY <4>3 DEF A
    <3> QED
      BY <3>4 DEF NotCutShort, Limit
  <2> QED
    BY <2>1, <2>2 DEF NotCutShort
<1> QED
  BY <1>2, <1>3

(* Setting the limits starts the count: all ticks are left, no time is used. *)
LEMMA LimitsStart ==
  ASSUME IInv, SetLimits
  PROVE  (Fresh /\ Clocks /\ StoppedInTime /\ NotCutShort)'
<1>1. Left' = Limit /\ elapsed' = 0 /\ overdue' = 0 /\ phase' = phase /\ result' = "none"
  BY DEF SetLimits, IInv, TypeOK, Fresh, Left, Limit, Max1, Wait, engine, clock
<1>2. 0 * Period <= Limit * Period
  BY LimitType, Monotone
<1>3. Clocks'
  BY <1>1, <1>2, LimitType DEF Clocks, IInv, TypeOK, Limit, Period
<1>4. StoppedInTime'
  BY <1>1, <1>2, LimitType DEF StoppedInTime, Limit, Period
<1> QED
  BY <1>1, <1>3, <1>4 DEF Fresh, NotCutShort, SetLimits

(* A unit of time: at most Period of them fit between two ticks, and those *)
(* that pass after the deadline are overdue.                               *)
LEMMA UnitPasses ==
  ASSUME IInv, Pass
  PROVE  (Fresh /\ Clocks /\ StoppedInTime /\ NotCutShort)'
<1> DEFINE P == (Limit - Left) * Period
           L == Limit * Period
           S == (Limit - Left - 1) * Second
<1>1. /\ Left' = Left /\ at' = at /\ result' = result /\ phase' = phase + 1
      /\ phase + 1 <= Period
  BY LimitType DEF Pass, Keep, Left, IInv, TypeOK
<1>2. /\ Left \in Int /\ phase \in Nat /\ elapsed \in Nat /\ overdue \in Nat
      /\ P \in Int /\ L \in Int /\ S \in Int
  BY LimitType DEF IInv, TypeOK, Left
<1>3. P' = P /\ L' = L /\ S' = S
  BY <1>1 DEF Limit, Period
<1>4. Left > 0 => P + Period <= L
  <2>1. SUFFICES ASSUME Left > 0 PROVE P + Period <= L
    OBVIOUS
  <2>2. (Limit - Left + 1) * Period = P + Period
    BY <1>2, LimitType, OneMore
  <2>3. (Limit - Left + 1) * Period <= L
    BY <2>1, <1>2, LimitType, Monotone
  <2> QED
    BY <2>2, <2>3
<1>5. CASE at \in Running
  <2>1. elapsed' = elapsed + 1
    BY <1>5 DEF Pass
  <2>2. Left > 0 => overdue' = overdue
    BY <1>2 DEF Pass, Left, IInv, TypeOK
  <2>3. Left <= 0 => at = "host" /\ overdue' = overdue + 1
    BY <1>2, <1>5 DEF Pass, Left, IInv, TypeOK, Running
  <2>4. /\ Left <= Limit
        /\ Left > 0 => elapsed - overdue <= P + phase
        /\ Left <= 0 => elapsed - overdue <= L
        /\ Left < Limit => elapsed >= S + phase
    BY <1>5 DEF IInv, Clocks
  <2> HIDE DEF P, L, S
  <2>5. /\ Left > 0 => (elapsed - overdue)' <= P + phase'
        /\ Left <= 0 => (elapsed - overdue)' <= L
        /\ Left < Limit => elapsed' >= S + phase'
        /\ (elapsed - overdue)' <= L
    BY <1>1, <1>2, <1>4, <2>1, <2>2, <2>3, <2>4, LimitType
  <2> USE DEF P, L, S
  <2>6. Clocks'
    BY <1>1, <1>3, <2>4, <2>5 DEF Clocks, Limit
  <2>7. StoppedInTime'
    BY <1>3, <2>5 DEF StoppedInTime, Limit
  <2>8. Fresh' /\ NotCutShort'
    BY <1>1, <1>5 DEF IInv, Fresh, NotCutShort, Running
  <2> QED
    BY <2>6, <2>7, <2>8
<1>6. CASE at \notin Running
  BY <1>1, <1>6 DEF Pass, Running, IInv, Fresh, Clocks, StoppedInTime, NotCutShort, Limit,
     Max1, Period
<1> QED
  BY <1>5, <1>6

(* A tick uses up one of the ticks left, for at least a second and at most *)
(* a period of time.                                                       *)
LEMMA TickPasses ==
  ASSUME IInv, TickEpoch
  PROVE  (Fresh /\ Clocks /\ StoppedInTime /\ NotCutShort)'
<1> DEFINE P == (Limit - Left) * Period
           L == Limit * Period
           S == (Limit - Left - 1) * Second
<1>1. /\ Left' = Left - 1 /\ phase' = 0 /\ phase >= Second /\ phase <= Period
      /\ UNCHANGED <<at, result, elapsed, overdue>>
  BY LimitType DEF TickEpoch, Left, IInv, TypeOK, clock
<1>2. /\ Left \in Int /\ phase \in Nat /\ elapsed \in Nat /\ overdue \in Nat
      /\ P \in Int /\ L \in Int /\ S \in Int
  BY LimitType DEF IInv, TypeOK, Left
<1>3. /\ (Limit - Left + 1) * Period = P + Period
      /\ (Limit - Left - 1 + 1) * Second = S + Second
  BY <1>2, LimitType, OneMore
<1>4. CASE at \in Running
  <2>1. /\ Left <= Limit
        /\ Left > 0 => elapsed - overdue <= P + phase
        /\ Left <= 0 => elapsed - overdue <= L
        /\ Left < Limit => elapsed >= S + phase
    BY <1>4 DEF IInv, Clocks
  <2>2. elapsed - overdue <= L
    BY DEF IInv, StoppedInTime, Limit
  <2>3. Left = Limit => S + Second = 0
    BY <1>2, <1>3, LimitType
  <2> HIDE DEF P, L, S
  <2>4. /\ Left > 0 => elapsed - overdue <= P + Period
        /\ elapsed >= S + Second
    BY <1>1, <1>2, <2>1, <2>3, LimitType
  <2> USE DEF P, L, S
  <2>5. Clocks'
    <3>1. Left' > 0 => (elapsed - overdue)' <= (Limit - Left') * Period + phase'
      <4>1. SUFFICES ASSUME Left' > 0
                     PROVE  elapsed - overdue <= (Limit - Left') * Period
        BY <1>1, <1>2, LimitType
      <4>2. Limit - Left' = Limit - Left + 1
        BY <1>1, <1>2, LimitType
      <4> QED
        BY <1>1, <1>2, <1>3, <2>4, <4>1, <4>2
    <3>2. elapsed' >= (Limit - Left' - 1) * Second + phase'
      <4>1. Limit - Left' - 1 = Limit - Left - 1 + 1
        BY <1>1, <1>2, LimitType
      <4>2. (Limit - Left' - 1) * Second = S + Second
        BY <1>3, <4>1
      <4>3. (Limit - Left' - 1) * Second + phase' = S + Second
        BY <1>1, <1>2, <4>2
      <4> QED
        BY <1>1, <2>4, <4>3
    <3>3. Left' <= Limit
      BY <1>1, <1>2, <2>1, LimitType
    <3> QED
      BY <1>1, <2>2, <3>1, <3>2, <3>3 DEF Clocks, Limit, Period
  <2> QED
    BY <1>1, <2>5 DEF IInv, Fresh, StoppedInTime, NotCutShort
<1>5. CASE at \notin Running
  BY <1>1, <1>5 DEF IInv, Fresh, Clocks, StoppedInTime, NotCutShort
<1> QED
  BY <1>4, <1>5

(* Reading a payload forgets the one before it. *)
LEMMA PayloadRead ==
  ASSUME IInv, NEW p \in Payload, NEW m \in Manifest, PreparePayload(p, m)
  PROVE  (Fresh /\ Clocks /\ StoppedInTime /\ NotCutShort)'
<1>1. 0 * Period <= Limit * Period
  BY LimitType, Monotone
<1>2. StoppedInTime'
  BY <1>1, LimitType DEF PreparePayload, StoppedInTime, Limit
<1> QED
  BY <1>2 DEF PreparePayload, Fresh, Clocks, Running, NotCutShort

-----------------------------------------------------------------------------
(* The invariant is inductive. *)
LEMMA NextInv == IInv /\ [Next]_vars => IInv'
<1> SUFFICES ASSUME IInv, [Next]_vars PROVE IInv'
  OBVIOUS
<1>1. TypeOK'
  BY NextType DEF IInv
<1> DEFINE Timely == Fresh /\ Clocks /\ StoppedInTime /\ NotCutShort
<1> SUFFICES Timely'
  BY <1>1 DEF IInv
<1>2. ASSUME NEW p \in Payload, NEW m \in Manifest, PreparePayload(p, m) PROVE Timely'
  BY <1>2, PayloadRead
<1>3. CASE Scan \/ CheckManifest \/ LinkFails
  <2>1. UNCHANGED <<epoch, phase, elapsed, overdue, deadline>>
    BY <1>3 DEF Scan, CheckManifest, LinkFails, Wait, Keep, engine, clock
  <2> QED
    BY <1>3, <2>1, NoTime DEF Scan, CheckManifest, LinkFails, End, Running
<1>4. CASE SetLimits
  BY <1>4, LimitsStart
<1>5. CASE Compute \/ CallLog \/ CallWasi \/ Return \/ Trap \/ Enter
  <2>1. UNCHANGED <<epoch, phase, elapsed, overdue, deadline>>
    BY <1>5 DEF Compute, CallLog, CallWasi, Return, Trap, Enter, Burn, Wait, engine, clock
  <2> QED
    BY <1>5, <2>1, NoTime DEF Compute, CallLog, CallWasi, Return, Trap, Enter, MayRun, End,
       Running
<1>6. ASSUME NEW t \in Target, CallHttp(t) PROVE Timely'
  <2>1. UNCHANGED <<epoch, phase, elapsed, overdue, deadline>>
    BY <1>6 DEF CallHttp, Burn, Wait, engine, clock
  <2> QED
    BY <1>6, <2>1, NoTime DEF CallHttp, MayRun, Running
<1>7. ASSUME NEW c \in Command, CallExec(c) PROVE Timely'
  <2>1. UNCHANGED <<epoch, phase, elapsed, overdue, deadline>>
    BY <1>7 DEF CallExec, Burn, Wait, engine, clock
  <2> QED
    BY <1>7, <2>1, NoTime DEF CallExec, MayRun, Running
<1>8. CASE HostReturns \/ OutOfFuel
  <2>1. UNCHANGED <<epoch, phase, elapsed, overdue, deadline>>
    BY <1>8 DEF HostReturns, OutOfFuel, Wait, Keep, engine, clock
  <2> QED
    BY <1>8, <2>1, NoTime DEF HostReturns, OutOfFuel, End, Running
<1>9. CASE Interrupt
  <2>1. UNCHANGED <<epoch, phase, elapsed, overdue, deadline>>
    BY <1>9 DEF Interrupt, Wait, Keep, engine, clock
  <2>2. Left <= 0 /\ at \in Running
    BY <1>9 DEF Interrupt, Left, Running, IInv, TypeOK
  <2> QED
    BY <1>9, <2>1, <2>2, NoTime DEF Interrupt, End, Running
<1>10. CASE TickEpoch
  BY <1>10, TickPasses
<1>11. CASE Pass
  BY <1>11, UnitPasses
<1>12. CASE UNCHANGED vars
  <2>1. UNCHANGED <<epoch, phase, elapsed, overdue, deadline, at, result>>
    BY <1>12 DEF vars, engine, clock
  <2> QED
    BY <2>1, NoTime DEF IInv, NotCutShort
<1> QED
  BY <1>2, <1>3, <1>4, <1>5, <1>6, <1>7, <1>8, <1>9, <1>10, <1>11, <1>12
     DEF Next, Guest, Limits

(* IInv holds in every reachable state. *)
LEMMA Invariance == Spec => []IInv
  BY InitInv, NextInv, PTL DEF Spec

(***************************************************************************)
(* Every reachable state is well typed; in particular fuel never falls     *)
(* below zero, whatever a guest computes and calls.                        *)
(***************************************************************************)
THEOREM TypeCorrect == Spec => []TypeOK
<1>1. IInv => TypeOK
  BY DEF IInv
<1> QED
  BY <1>1, Invariance, PTL

(***************************************************************************)
(* The timeout bounds what any payload uses, for any timeout and lateness, *)
(* up to what its host calls spend after the deadline.                     *)
(***************************************************************************)
THEOREM TimeoutHolds == Spec => []StoppedInTime
<1>1. IInv => StoppedInTime
  BY DEF IInv
<1> QED
  BY <1>1, Invariance, PTL

(***************************************************************************)
(* A payload is timed out only after all but the first second of its       *)
(* timeout, whenever it started between two ticks.                         *)
(***************************************************************************)
THEOREM TimeoutNotEarly == Spec => []NotCutShort
<1>1. IInv => NotCutShort
  BY DEF IInv
<1> QED
  BY <1>1, Invariance, PTL

-----------------------------------------------------------------------------
(* Powers and quotients. *)

\* A nonempty set of naturals has a least element: what stands in for
\* induction below.
LEMMA Least ==
    ASSUME NEW T \in SUBSET Nat, T # {}
    PROVE  \E n \in T : \A m \in T : n <= m
<1>1. \A m, n \in Nat : m < n => <<m, n>> \in OpToRel(<, Nat)
  BY DEF OpToRel
<1>2. PICK n \in T : \A m \in T : ~(<<m, n>> \in OpToRel(<, Nat))
  BY NatLessThanWellFounded, WFMin
<1>3. \A m \in T : ~(m < n)
  BY <1>1, <1>2, Zenon
<1>4. \A m \in T : n <= m
  BY <1>3
<1>. QED  BY <1>4

\* The quotient is the greatest number of times p fits into n.
LEMMA Divide ==
    ASSUME NEW n \in Nat, NEW p \in Nat \ {0}
    PROVE  /\ n \div p \in Nat
           /\ n % p \in 0..(p - 1)
           /\ n = p * (n \div p) + (n % p)
OBVIOUS

\* ... and nothing else is quotient and remainder.
LEMMA DivideUnique ==
    ASSUME NEW n \in Nat, NEW p \in Nat \ {0}, NEW q \in Int, NEW r \in 0..(p - 1), n = p * q + r
    PROVE  n \div p = q /\ n % p = r
<1>. DEFINE d == n \div p
            e == n % p
<1>1. d \in Nat /\ e \in 0..(p - 1) /\ n = p * d + e
  BY Divide
<1>. HIDE DEF d, e
<1>2. p * (d - q) = r - e
  BY <1>1
<1>3. d = q
  <2>1. CASE d >= q + 1
    <3>1. p * (d - q) >= p
      BY <1>1, <2>1
    <3>. QED  BY <1>1, <1>2, <3>1
  <2>2. CASE d <= q - 1
    <3>1. p * (d - q) <= 0 - p
      BY <1>1, <2>2
    <3>. QED  BY <1>1, <1>2, <3>1
  <2>. QED  BY <1>1, <2>1, <2>2
<1>. QED  BY <1>1, <1>3 DEF d, e

\* Power is what its definition says: functions that say so for the first
\* exponents exist, as the first exponent for which none does would have a
\* smaller one.
Doubles(g, n) == g = [k \in 0..n |-> IF k = 0 THEN 1 ELSE 2 * g[k - 1]]

\* The first exponent without such a function would have a predecessor with one.
LEMMA DoublesExists ==
    ASSUME NEW n \in Nat
    PROVE  \E g : Doubles(g, n)
<1>. DEFINE T == {m \in Nat : ~ \E g : Doubles(g, m)}
<1>1. ASSUME T # {} PROVE FALSE
  <2>1. PICK m \in T : \A k \in T : m <= k
    BY <1>1, Least
  <2>2. m \in Nat /\ ~ \E g : Doubles(g, m)
    BY <2>1
  <2>3. CASE m = 0
    <3>1. Doubles([k \in 0..0 |-> 1], 0)
      BY DEF Doubles
    <3>. QED  BY <2>2, <2>3, <3>1
  <2>4. CASE m # 0
    <3>1. m - 1 \in Nat /\ m - 1 \notin T
      BY <2>1, <2>2, <2>4
    <3>2. PICK g : Doubles(g, m - 1)
      BY <3>1
    <3>. DEFINE h == [k \in 0..m |-> IF k = 0 THEN 1 ELSE 2 * g[k - 1]]
    <3>3. \A k \in 0..(m - 1) : g[k] = IF k = 0 THEN 1 ELSE 2 * g[k - 1]
      BY <3>2 DEF Doubles
    <3>4. \A k \in 0..(m - 1) : k \in 0..m
      BY <2>2
    <3>5. \A k \in 0..(m - 1) : h[k] = g[k]
      BY <3>3, <3>4, Zenon
    <3>6. \A k \in 0..m : k # 0 => k - 1 \in 0..(m - 1)
      BY <2>2
    <3>7. Doubles(h, m)
      BY <3>5, <3>6, Zenon DEF Doubles
    <3>. QED  BY <2>2, <3>7
  <2>. QED  BY <2>3, <2>4
<1>. QED  BY <1>1

\* So Power does what its definition says.
LEMMA PowerDoubles ==
    /\ Power[0] = 1
    /\ \A n \in 0..Width : n # 0 => Power[n] = 2 * Power[n - 1]
<1>1. Power = CHOOSE g : Doubles(g, Width)
  BY DEF Power, Doubles
<1>2. Doubles(Power, Width)
  BY <1>1, DoublesExists, WidthAssumption, Zenon
<1>3. 0 \in 0..Width
  BY WidthAssumption
<1>4. \A n \in 0..Width : Power[n] = IF n = 0 THEN 1 ELSE 2 * Power[n - 1]
  BY <1>2 DEF Doubles
<1>. QED  BY <1>3, <1>4

\* Powers are positive.
LEMMA PowerType == \A n \in 0..Width : Power[n] \in Nat \ {0}
<1>. DEFINE T == {n \in Nat : n <= Width /\ Power[n] \notin Nat \ {0}}
<1>1. ASSUME T # {} PROVE FALSE
  <2>1. PICK n \in T : \A k \in T : n <= k
    BY <1>1, Least
  <2>2. n \in 0..Width /\ Power[n] \notin Nat \ {0} /\ n \in Nat
    BY <2>1, WidthAssumption
  <2>3. n # 0
    BY <2>2, PowerDoubles
  <2>4. n - 1 \in Nat /\ n - 1 <= Width /\ n - 1 \notin T
    BY <2>1, <2>2, <2>3, WidthAssumption
  <2>5. Power[n - 1] \in Nat \ {0}
    BY <2>4
  <2>6. Power[n] = 2 * Power[n - 1]
    BY <2>2, <2>3, PowerDoubles
  <2>. QED  BY <2>2, <2>5, <2>6
<1>2. \A n \in 0..Width : n \in Nat /\ n <= Width
  BY WidthAssumption
<1>. QED  BY <1>1, <1>2

\* Exponents add up.
LEMMA PowerAdds ==
    ASSUME NEW n \in 0..Width, NEW m \in 0..Width, n + m <= Width
    PROVE  Power[n + m] = Power[n] * Power[m]
<1>. DEFINE T == {k \in Nat : n + k <= Width /\ Power[n + k] # Power[n] * Power[k]}
<1>0. n \in Nat /\ m \in Nat /\ Width \in Nat
  BY WidthAssumption
<1>1. ASSUME T # {} PROVE FALSE
  <2>1. PICK k \in T : \A j \in T : k <= j
    BY <1>1, Least
  <2>2. k \in Nat /\ n + k <= Width /\ Power[n + k] # Power[n] * Power[k]
    BY <2>1
  <2>3. k # 0
    <3>1. Power[n] * 1 = Power[n]
      BY PowerType
    <3>. QED  BY <1>0, <2>2, <3>1, PowerDoubles
  <2>4. /\ k - 1 \in Nat /\ n + (k - 1) <= Width /\ ~(k <= k - 1)
        /\ k \in 0..Width /\ k - 1 \in 0..Width
        /\ n + k \in 0..Width /\ n + k # 0 /\ (n + k) - 1 = n + (k - 1)
    BY <1>0, <2>2, <2>3
  <2>5. Power[n + (k - 1)] = Power[n] * Power[k - 1]
    BY <2>1, <2>4
  <2>6. Power[k] = 2 * Power[k - 1] /\ Power[n + k] = 2 * Power[n + (k - 1)]
    BY <2>3, <2>4, PowerDoubles
  <2>7. \A a, b \in Nat : 2 * (a * b) = a * (2 * b)
    OBVIOUS
  <2>8. Power[n] \in Nat /\ Power[k - 1] \in Nat
    BY <2>4, PowerType
  <2>. QED  BY <2>2, <2>5, <2>6, <2>7, <2>8
<1>. QED  BY <1>0, <1>1

\* A quotient is twice the next one and a bit.
LEMMA Halve ==
    ASSUME NEW n \in Nat, NEW i \in 0..(Width - 1)
    PROVE  /\ n \div Power[i] = 2 * (n \div Power[i + 1]) + Bit(n, i)
           /\ Bit(n, i) = (n \div Power[i]) % 2
<1>. DEFINE p == Power[i]
            h == n \div (2 * p)
            r == n % (2 * p)
<1>1. i \in 0..Width /\ i + 1 \in 0..Width /\ i + 1 # 0 /\ (i + 1) - 1 = i
  BY WidthAssumption
<1>2. p \in Nat \ {0} /\ Power[i + 1] = 2 * p
  BY <1>1, PowerType, PowerDoubles
<1>. HIDE DEF p
<1>3. 2 * p \in Nat \ {0}
  BY <1>2
<1>4. h \in Nat /\ r \in 0..(2 * p - 1) /\ n = (2 * p) * h + r
  BY <1>3, Divide
<1>. HIDE DEF h, r
<1>5. CASE r < p
  <2>1. r \in 0..(p - 1) /\ n = p * (2 * h) + r /\ 2 * h \in Int
    BY <1>2, <1>4, <1>5
  <2>2. n \div p = 2 * h
    BY <1>2, <2>1, DivideUnique
  <2>3. (2 * h) % 2 = 0
    BY <1>4
  <2>. QED  BY <1>2, <1>4, <2>2, <2>3 DEF Bit, p, h
<1>6. CASE ~(r < p)
  <2>1. r - p \in 0..(p - 1) /\ n = p * (2 * h + 1) + (r - p) /\ 2 * h + 1 \in Int
    BY <1>2, <1>4, <1>6
  <2>2. n \div p = 2 * h + 1
    BY <1>2, <2>1, DivideUnique
  <2>3. (2 * h + 1) % 2 = 1
    BY <1>4
  <2>. QED  BY <1>2, <1>4, <2>2, <2>3 DEF Bit, p, h
<1>. QED  BY <1>5, <1>6

-----------------------------------------------------------------------------
(* Networks. *)

\* The mask of a prefix is the bits above the host part.
LEMMA MaskBits ==
    ASSUME NEW prefix \in 1..Width, NEW i \in 0..(Width - 1)
    PROVE  Bit(Mask(prefix), i) = 1 <=> i >= Width - prefix
<1>. DEFINE c == Width - prefix
            all == Power[Width]
            low == Power[c]
            bit == Power[i]
<1>1. /\ Width \in Nat /\ c \in 0..(Width - 1) /\ c \in 0..Width /\ i \in 0..Width /\ c \in Int
      /\ Width \in 0..Width /\ Width - i \in 0..Width /\ Width - i # 0 /\ i + (Width - i) = Width
      /\ c + prefix = Width /\ prefix \in 0..Width /\ (Width - i) - 1 \in 0..Width /\ prefix # 0
  BY WidthAssumption
<1>2. all \in Nat \ {0} /\ low \in Nat \ {0} /\ bit \in Nat \ {0}
  BY <1>1, PowerType
<1>3. low <= all
  <2>1. all = low * Power[prefix] /\ Power[prefix] \in Nat \ {0}
    BY <1>1, PowerAdds, PowerType
  <2>. QED  BY <1>2, <2>1
<1>4. Mask(prefix) = all - low
  <2>1. c % Width = c
    BY <1>1
  <2>2. Mask(prefix) = ((all - 1) * low) % all
    BY <1>1, <2>1 DEF Mask, ShiftedMax
  <2>. HIDE DEF all, low
  <2>3. (all - 1) * low \in Nat /\ (all - 1) * low = all * (low - 1) + (all - low)
    BY <1>2
  <2>4. all - low \in 0..(all - 1) /\ low - 1 \in Int
    BY <1>2, <1>3
  <2>5. ((all - 1) * low) % all = all - low
    BY <1>2, <2>3, <2>4, DivideUnique
  <2>. QED  BY <2>2, <2>5
<1>5. all = bit * Power[Width - i] /\ Power[Width - i] = 2 * Power[(Width - i) - 1]
  BY <1>1, PowerAdds, PowerDoubles
<1>. DEFINE half == Power[(Width - i) - 1]
<1>6. half \in Nat \ {0} /\ all = bit * (2 * half)
  BY <1>1, <1>5, PowerType
<1>7. CASE i >= c
  <2>1. /\ i - c \in 0..Width /\ c + (i - c) = i
    BY <1>1, <1>7
  <2>2. bit = low * Power[i - c] /\ Power[i - c] \in Nat \ {0}
    BY <1>1, <2>1, PowerAdds, PowerType
  <2>3. low <= bit
    BY <1>2, <2>2
  <2>. HIDE DEF all, low, bit, half, c
  <2>4. /\ all - low \in Nat /\ 2 * half - 1 \in Int /\ bit - low \in 0..(bit - 1)
        /\ all - low = bit * (2 * half - 1) + (bit - low)
    <3>1. \A x, y \in Int : x * (y - 1) = x * y - x
      OBVIOUS
    <3>2. bit * (2 * half - 1) = bit * (2 * half) - bit /\ bit * (2 * half) \in Int
      BY <1>2, <1>6, <3>1
    <3>. QED  BY <1>2, <1>3, <1>6, <2>3, <3>2
  <2>5. (all - low) \div bit = 2 * half - 1
    <3>. DEFINE n == all - low
                q == 2 * half - 1
                r == bit - low
    <3>1. n \in Nat /\ q \in Int /\ r \in 0..(bit - 1) /\ n = bit * q + r
      BY <2>4
    <3>. HIDE DEF n, q, r
    <3>2. n \div bit = q
      BY <1>2, <3>1, DivideUnique
    <3>. QED  BY <3>2 DEF n, q
  <2>6. (2 * half - 1) % 2 = 1
    BY <1>6
  <2>. QED  BY <1>4, <1>7, <2>5, <2>6 DEF Bit, bit, c
<1>8. CASE ~(i >= c)
  <2>1. /\ c - i \in 0..Width /\ i + (c - i) = c /\ c - i # 0 /\ (c - i) - 1 \in 0..Width
    BY <1>1, <1>8
  <2>. DEFINE part == Power[(c - i) - 1]
  <2>2. low = bit * (2 * part) /\ part \in Nat
    BY <1>1, <2>1, PowerAdds, PowerDoubles, PowerType
  <2>. HIDE DEF all, low, bit, half, c, part
  <2>3. /\ all - low \in Nat /\ 2 * (half - part) \in Int /\ 0 \in 0..(bit - 1)
        /\ all - low = bit * (2 * (half - part)) + 0
    <3>1. \A x, y, z \in Int : x * (2 * (y - z)) = x * (2 * y) - x * (2 * z)
      OBVIOUS
    <3>2. bit * (2 * (half - part)) = all - low
      BY <1>2, <1>6, <2>2, <3>1
    <3>. QED  BY <1>2, <1>3, <1>6, <2>2, <3>2
  <2>4. (all - low) \div bit = 2 * (half - part)
    <3>. DEFINE n == all - low
                q == 2 * (half - part)
    <3>1. n \in Nat /\ q \in Int /\ 0 \in 0..(bit - 1) /\ n = bit * q + 0
      BY <2>3
    <3>. HIDE DEF n, q
    <3>2. n \div bit = q
      BY <1>2, <3>1, DivideUnique
    <3>. QED  BY <3>2 DEF n, q
  <2>5. (2 * (half - part)) % 2 = 0
    BY <1>6, <2>2
  <2>. QED  BY <1>4, <1>8, <2>4, <2>5 DEF Bit, bit, c
<1>. QED  BY <1>7, <1>8

\* Two addresses have the same bits from c on if they are in the same block.
LEMMA SameBlock ==
    ASSUME NEW a \in Address, NEW b \in Address, NEW c \in 0..Width
    PROVE  (\A i \in c..(Width - 1) : Bit(a, i) = Bit(b, i)) <=> a \div Power[c] = b \div Power[c]
<1>0. /\ Width \in Nat /\ c \in Nat /\ Width \in 0..Width /\ a \in Nat /\ b \in Nat
      /\ Power[Width] \in Nat \ {0}
  <2>1. Width \in Nat /\ Width \in 0..Width /\ c \in Nat
    BY WidthAssumption
  <2>2. Power[Width] \in Nat \ {0}
    BY <2>1, PowerType
  <2>. QED  BY <2>1, <2>2 DEF Address
<1>1. a \div Power[Width] = 0 /\ b \div Power[Width] = 0
  <2>1. \A n \in Address : n \in Nat /\ n \in 0..(Power[Width] - 1) /\ n = Power[Width] * 0 + n
    BY <1>0 DEF Address
  <2>. QED  BY <1>0, <2>1, DivideUnique
<1>2. ASSUME \A i \in c..(Width - 1) : Bit(a, i) = Bit(b, i)
      PROVE  a \div Power[c] = b \div Power[c]
  <2>. DEFINE T == {n \in Nat : n <= Width - c
                              /\ a \div Power[Width - n] # b \div Power[Width - n]}
  <2>1. ASSUME T # {} PROVE FALSE
    <3>1. PICK n \in T : \A k \in T : n <= k
      BY <2>1, Least
    <3>2. n \in Nat /\ n <= Width - c /\ a \div Power[Width - n] # b \div Power[Width - n]
      BY <3>1
    <3>3. n # 0
      BY <1>0, <1>1, <3>2
    <3>. DEFINE i == Width - n
    <3>4. /\ i \in c..(Width - 1) /\ i \in 0..(Width - 1) /\ n - 1 \in Nat /\ n - 1 <= Width - c
          /\ ~(n <= n - 1) /\ Width - (n - 1) = i + 1
      BY <1>0, <3>2, <3>3
    <3>5. a \div Power[i + 1] = b \div Power[i + 1]
      BY <3>1, <3>4
    <3>6. Bit(a, i) = Bit(b, i)
      BY <1>2, <3>4
    <3>7. a \div Power[i] = b \div Power[i]
      BY <1>0, <3>4, <3>5, <3>6, Halve
    <3>. QED  BY <3>2, <3>7
  <2>2. Width - c \in Nat /\ Width - (Width - c) = c
    BY <1>0
  <2>. QED  BY <2>1, <2>2
<1>3. ASSUME a \div Power[c] = b \div Power[c], NEW i \in c..(Width - 1)
      PROVE  Bit(a, i) = Bit(b, i)
  <2>. DEFINE T == {n \in Nat : c + n <= Width /\ a \div Power[c + n] # b \div Power[c + n]}
  <2>1. ASSUME T # {} PROVE FALSE
    <3>1. PICK n \in T : \A k \in T : n <= k
      BY <2>1, Least
    <3>2. n \in Nat /\ c + n <= Width /\ a \div Power[c + n] # b \div Power[c + n]
      BY <3>1
    <3>3. n # 0
      BY <1>0, <1>3, <3>2
    <3>. DEFINE j == c + (n - 1)
    <3>4. j \in 0..(Width - 1) /\ n - 1 \in Nat /\ j <= Width /\ ~(n <= n - 1) /\ j + 1 = c + n
      BY <1>0, <3>2, <3>3
    <3>5. a \div Power[j] = b \div Power[j]
      BY <3>1, <3>4
    <3>6. /\ a \div Power[j] = 2 * (a \div Power[j + 1]) + Bit(a, j)
          /\ b \div Power[j] = 2 * (b \div Power[j + 1]) + Bit(b, j)
          /\ Bit(a, j) = (a \div Power[j]) % 2 /\ Bit(b, j) = (b \div Power[j]) % 2
      BY <1>0, <3>4, Halve
    <3>7. a \div Power[j + 1] \in Int /\ b \div Power[j + 1] \in Int /\ Bit(a, j) \in Int
      <4>1. j + 1 \in 0..Width /\ j \in 0..Width
        BY <1>0, <3>4
      <4>2. Power[j + 1] \in Nat \ {0} /\ Power[j] \in Nat \ {0}
        BY <4>1, PowerType
      <4>3. /\ a \div Power[j + 1] \in Nat /\ b \div Power[j + 1] \in Nat
            /\ a \div Power[j] \in Nat
        BY <1>0, <4>2, Divide
      <4>4. \A x \in Nat : x % 2 \in Int
        OBVIOUS
      <4>. QED  BY <3>6, <4>3, <4>4
    <3>8. 2 * (a \div Power[j + 1]) + Bit(a, j) = 2 * (b \div Power[j + 1]) + Bit(a, j)
      BY <3>5, <3>6
    <3>9. a \div Power[j + 1] = b \div Power[j + 1]
      <4>1. \A x, y, z \in Int : 2 * x + z = 2 * y + z => x = y
        OBVIOUS
      <4>. QED  BY <3>7, <3>8, <4>1, Zenon
    <3>. QED  BY <3>2, <3>4, <3>9
  <2>2. i - c \in Nat /\ c + (i - c) = i /\ i <= Width /\ i \in 0..(Width - 1)
    BY <1>0
  <2>3. a \div Power[i] = b \div Power[i]
    BY <2>1, <2>2
  <2>. QED  BY <1>0, <2>2, <2>3, Halve
<1>. QED  BY <1>2, <1>3

\* (ip & mask) == (network & mask) says that both are in one aligned block,
\* for every width and every prefix, the prefix 0 included.
LEMMA CidrIsBlock ==
    ASSUME NEW ip \in Address, NEW network \in Address, NEW prefix \in 0..Width
    PROVE  InCidr(ip, network, prefix) <=>
              ip \div Power[Width - prefix] = network \div Power[Width - prefix]
<1>1. Width \in Nat /\ Width - prefix \in 0..Width
  BY WidthAssumption
<1>2. (\A i \in (Width - prefix)..(Width - 1) : Bit(ip, i) = Bit(network, i)) <=>
         ip \div Power[Width - prefix] = network \div Power[Width - prefix]
  BY <1>1, SameBlock
<1>3. CASE prefix = 0
  <2>1. \A i \in 0..(Width - 1) : Bit(0, i) # 1
    <3>1. SUFFICES ASSUME NEW i \in 0..(Width - 1) PROVE Bit(0, i) # 1
      OBVIOUS
    <3>2. i \in 0..Width
      BY <1>1
    <3>3. Power[i] \in Nat \ {0} /\ 0 = Power[i] * 0 + 0 /\ 0 \in 0..(Power[i] - 1)
      BY <3>2, PowerType
    <3>4. 0 \div Power[i] = 0
      BY <3>3, DivideUnique
    <3>. QED  BY <3>4 DEF Bit
  <2>2. InCidr(ip, network, prefix)
    BY <1>3, <2>1 DEF InCidr, Mask
  <2>3. \A i : i \notin (Width - prefix)..(Width - 1)
    BY <1>1, <1>3
  <2>. QED  BY <1>2, <2>2, <2>3
<1>4. CASE prefix # 0
  <2>1. prefix \in 1..Width
    BY <1>1, <1>4
  <2>2. \A i \in 0..(Width - 1) : Bit(Mask(prefix), i) = 1 <=> i >= Width - prefix
    BY <2>1, MaskBits
  <2>3. \A i : i \in (Width - prefix)..(Width - 1) <=> i \in 0..(Width - 1) /\ i >= Width - prefix
    BY <1>1, <2>1
  <2>. QED  BY <1>2, <2>2, <2>3 DEF InCidr
<1>. QED  BY <1>3, <1>4

-----------------------------------------------------------------------------
(* Manifests. *)

\* Records with other fields are other records.
LEMMA KindsDiffer ==
    /\ \A h : [withPort |-> h] \notin Host
    /\ \A h, ip : [withPort |-> h] # [ip |-> ip]
    /\ \A t \in Target : t \notin Command
    /\ \A r \in Rule : r \in [host : Host] \/ (r.net \in Address /\ r.prefix \in 0..Width)
<1>1. \A h, x : [withPort |-> h] # [ip |-> x] /\ [withPort |-> h] # [name |-> x]
  <2>1. \A h, x : /\ DOMAIN [withPort |-> h] = {"withPort"}
                  /\ DOMAIN [ip |-> x] = {"ip"} /\ DOMAIN [name |-> x] = {"name"}
    OBVIOUS
  <2>. QED  BY <2>1
<1>2. \A h : [withPort |-> h] \notin Host
  BY <1>1 DEF Host
<1>3. \A t \in Target, c \in Command : t # c
  <2>1. \A t \in Target : "form" \in DOMAIN t
    BY DEF Target
  <2>2. \A c \in Command : "form" \notin DOMAIN c
    BY DEF Command
  <2>. QED  BY <2>1, <2>2
<1>4. \A r \in Rule : r \in [host : Host] \/ (r.net \in Address /\ r.prefix \in 0..Width)
  BY DEF Rule
<1>. QED  BY <1>1, <1>2, <1>3, <1>4

\* A rule matches the hosts it covers.
LEMMA MatchesIsCovers ==
    ASSUME NEW rule \in Rule, NEW host \in Host
    PROVE  HostMatches(host, rule) <=> Covers(rule, host)
<1>1. rule \in [host : {host}] <=> rule = [host |-> host]
  OBVIOUS
<1>2. ASSUME rule \notin [host : Host]
      PROVE  (\E ip \in Address : host = [ip |-> ip] /\ InCidr(ip, rule.net, rule.prefix)) <=>
                /\ host \in [ip : Address]
                /\ host.ip \div Power[Width - rule.prefix] = rule.net \div Power[Width - rule.prefix]
  <2>1. rule.net \in Address /\ rule.prefix \in 0..Width
    BY <1>2, KindsDiffer
  <2>2. host \in [ip : Address] <=> \E ip \in Address : host = [ip |-> ip]
    OBVIOUS
  <2>3. \A ip \in Address : InCidr(ip, rule.net, rule.prefix) <=>
           ip \div Power[Width - rule.prefix] = rule.net \div Power[Width - rule.prefix]
    BY <2>1, CidrIsBlock
  <2>4. \A ip : host = [ip |-> ip] => host.ip = ip
    OBVIOUS
  <2>. QED  BY <2>2, <2>3, <2>4, Zenon
<1>. QED  BY <1>1, <1>2 DEF HostMatches, Covers

\* A rule never matches a host with its port left in.
LEMMA PortNeverMatches ==
    ASSUME NEW rule \in Rule, NEW h
    PROVE  ~HostMatches([withPort |-> h], rule)
<1>1. rule \notin [host : {[withPort |-> h]}]
  <2>1. ASSUME rule \in [host : {[withPort |-> h]}] PROVE FALSE
    <3>1. rule.host = [withPort |-> h] /\ "host" \in DOMAIN rule
      BY <2>1
    <3>2. rule \in [host : Host]
      <4>1. \A r \in [net : Address, prefix : 0..Width] : "host" \notin DOMAIN r
        OBVIOUS
      <4>. QED  BY <3>1, <4>1 DEF Rule
    <3>3. rule.host \in Host
      BY <3>2
    <3>. QED  BY <3>1, <3>3, KindsDiffer
  <2>. QED  BY <2>1
<1>. QED  BY <1>1, KindsDiffer DEF HostMatches

\* A request is allowed when the manifest means it.
LEMMA HttpIsMeant ==
    ASSUME manifest \in Manifest, NEW t \in Target
    PROVE  HttpAllowed(manifest, t) <=> Meant(t)
<1>1. t \notin Command /\ t.host \in Host
  BY KindsDiffer DEF Target
<1>2. manifest.can_http \subseteq Rule
  BY ManifestAssumption
<1>3. t.form = "url" \/ t.form = "bare"
  BY DEF Target
<1>4. CASE t.form = "bare" /\ t.port
  <2>1. ~HttpAllowed(manifest, t)
    BY <1>2, <1>4, PortNeverMatches DEF HttpAllowed, ExtractHost
  <2>2. ~Meant(t)
    BY <1>1, <1>4 DEF Meant
  <2>. QED  BY <2>1, <2>2
<1>5. CASE ~(t.form = "bare" /\ t.port)
  <2>1. HttpAllowed(manifest, t) <=> \E rule \in manifest.can_http : HostMatches(t.host, rule)
    BY <1>5, Zenon DEF HttpAllowed, ExtractHost
  <2>2. Meant(t) <=> \E rule \in manifest.can_http : Covers(rule, t.host)
    BY <1>1, <1>3, <1>5, Zenon DEF Meant
  <2>. QED  BY <1>1, <1>2, <2>1, <2>2, MatchesIsCovers
<1>. QED  BY <1>4, <1>5

\* A command is allowed when the manifest means it.
LEMMA ExecIsMeant ==
    ASSUME NEW c \in Command
    PROVE  ExecAllowed(manifest, c) <=> Meant(c)
BY DEF ExecAllowed, Meant

\* A request is judged by the manifest the payload keeps until it ends.
LEMMA CapabilitiesStep == TypeOK /\ CapabilitiesHold /\ [Next]_vars => CapabilitiesHold'
<1>. SUFFICES ASSUME TypeOK, CapabilitiesHold, [Next]_vars PROVE CapabilitiesHold'
  OBVIOUS
<1>. USE DEF payload, verdict
<1>0. manifest \in Manifest
  BY DEF TypeOK
<1>1. ASSUME UNCHANGED <<manifest, verdict>> PROVE CapabilitiesHold'
  BY <1>1 DEF CapabilitiesHold, Meant
<1>2. ASSUME NEW p \in Payload, NEW m \in Manifest, PreparePayload(p, m) PROVE CapabilitiesHold'
  BY <1>2 DEF PreparePayload, CapabilitiesHold
<1>3. ASSUME NEW t \in Target, CallHttp(t) PROVE CapabilitiesHold'
  <2>1. manifest' = manifest
    BY <1>3 DEF CallHttp, Burn
  <2>2. \/ HttpAllowed(manifest, t) /\ granted' = granted \cup {t} /\ UNCHANGED denied
        \/ ~HttpAllowed(manifest, t) /\ denied' = denied \cup {t} /\ UNCHANGED granted
    BY <1>3 DEF CallHttp
  <2>3. /\ \A request \in granted' : Meant(request)
        /\ \A request \in denied' : ~Meant(request)
    BY <1>0, <2>2, HttpIsMeant DEF CapabilitiesHold
  <2>. QED  BY <2>1, <2>3 DEF CapabilitiesHold, Meant
<1>4. ASSUME NEW c \in Command, CallExec(c) PROVE CapabilitiesHold'
  <2>1. manifest' = manifest
    BY <1>4 DEF CallExec, Burn
  <2>2. \/ ExecAllowed(manifest, c) /\ granted' = granted \cup {c} /\ UNCHANGED denied
        \/ ~ExecAllowed(manifest, c) /\ denied' = denied \cup {c} /\ UNCHANGED granted
    BY <1>4 DEF CallExec
  <2>3. /\ \A request \in granted' : Meant(request)
        /\ \A request \in denied' : ~Meant(request)
    BY <2>2, ExecIsMeant DEF CapabilitiesHold
  <2>. QED  BY <2>1, <2>3 DEF CapabilitiesHold, Meant
<1>5. CASE Scan \/ CheckManifest \/ SetLimits \/ LinkFails
  BY <1>1, <1>5 DEF Scan, CheckManifest, SetLimits, LinkFails, Keep
<1>6. CASE Compute \/ Enter \/ Return \/ Trap \/ CallLog \/ CallWasi
  BY <1>1, <1>6 DEF Compute, Enter, Return, Trap, CallLog, CallWasi, Burn
<1>7. CASE HostReturns \/ Limits \/ TickEpoch \/ Pass
  BY <1>1, <1>7 DEF HostReturns, Limits, OutOfFuel, Interrupt, TickEpoch, Pass, Keep
<1>8. CASE UNCHANGED vars
  BY <1>1, <1>8 DEF vars
<1>. QED
  BY <1>2, <1>3, <1>4, <1>5, <1>6, <1>7, <1>8 DEF Next, Guest

(***************************************************************************)
(* A guest is granted exactly what its manifest covers, for any manifest,  *)
(* any width of an address and any request: HttpIsMeant and ExecIsMeant    *)
(* say so of one request, CidrIsBlock of one address and network.          *)
(***************************************************************************)
THEOREM CapabilitiesAreExact == Spec => []CapabilitiesHold
<1>1. Init => CapabilitiesHold
  BY DEF Init, CapabilitiesHold
<1>2. TypeOK /\ CapabilitiesHold /\ [Next]_vars => CapabilitiesHold'
  BY CapabilitiesStep
<1>. QED  BY <1>1, <1>2, TypeCorrect, PTL DEF Spec

=============================================================================
