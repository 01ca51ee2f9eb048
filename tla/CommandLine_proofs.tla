------------------------- MODULE CommandLine_proofs -------------------------
(***************************************************************************)
(* What the ingest handler promises, for any number of requests and        *)
(* subscribers and any limits, and that the operator's commands leave it   *)
(* true: a step of CommandLine is a step of Ingest or changes nothing in   *)
(* it.                                                                     *)
(*                                                                         *)
(* The quota needs to be known exactly: those admitted since the window    *)
(* began are as many as the counter says, up to the maximum.  A refusal    *)
(* then happens only when that number is the maximum, and all of them came *)
(* within one window before it.                                            *)
(***************************************************************************)
EXTENDS CommandLine, FiniteSetTheorems, SequenceTheorems, TLAPS

USE RequestAssumption, LimiterAssumption, BufferAssumption, TimeAssumption

\* Whoever was checked was checked in the past and before the window ends.
CheckedInv ==
    \A r \in Request : checkedAt[r] <= now /\ checkedAt[r] < start + Window

\* Those admitted in this window are counted up to the maximum.
CountInv ==
    /\ IsFiniteSet(Admitted)
    /\ Cardinality(AdmittedSince(start)) =
          IF counter <= MaxRequests THEN counter ELSE MaxRequests

QuotaInv == TypeOK /\ CheckedInv /\ CountInv /\ RefusedOnlyWhenFull

\* The requests that were admitted within one window before time t.
Recent(t) == {q \in Admitted : t - Window < checkedAt[q] /\ checkedAt[q] <= t}

-----------------------------------------------------------------------------
(* The variables start in their types. *)
LEMMA IngestInitType == Init => TypeOK
  BY DEF Init, TypeOK, Stage, Answer, Refusal

(* No step takes a variable out of its type. *)
LEMMA IngestType == TypeOK /\ [Next]_vars => TypeOK'
<1> SUFFICES ASSUME TypeOK, [Next]_vars PROVE TypeOK'
  OBVIOUS
<1> USE DEF TypeOK, Stage, Answer, Refusal, Goto
<1>1. ASSUME NEW r \in Request, CheckRate(r) PROVE TypeOK'
  <2>1. /\ now' = now /\ UNCHANGED <<channel, stream>>
        /\ checkedAt' = [checkedAt EXCEPT ![r] = now]
    BY <1>1 DEF CheckRate
  <2>2. CASE now - start >= Window
    <3>1. start' = now /\ counter' = 1 /\ at' = [at EXCEPT ![r] = "admitted"]
      BY <1>1, <2>2 DEF CheckRate
    <3> QED
      BY <2>1, <3>1 DEF channel, stream
  <2>3. CASE ~(now - start >= Window)
    <3>1. start' = start /\ counter' = counter + 1
      BY <1>1, <2>3 DEF CheckRate
    <3>2. at' = [at EXCEPT ![r] = "admitted"] \/ at' = [at EXCEPT ![r] = "limited"]
      BY <1>1, <2>3 DEF CheckRate
    <3>3. at' \in [Request -> Stage]
      BY <3>2
    <3>4. counter' \in Nat /\ start' \in 0..now' /\ now' \in 0..MaxTime
      BY <2>1, <3>1
    <3>5. checkedAt' \in [Request -> -1..MaxTime]
      BY <2>1
    <3>6. UNCHANGED <<accepted, taken, open, published, from, cursor, seen, lagged>>
      BY <2>1 DEF channel, stream
    <3> QED
      BY <3>3, <3>4, <3>5, <3>6
  <2> QED
    BY <2>2, <2>3
<1>2. ASSUME NEW r \in Request, HandlerStep(r) PROVE TypeOK'
  <2>1. CASE Validate(r) \/ SendFails(r)
    <3>1. at' \in [Request -> Stage]
      BY <2>1 DEF Validate, SendFails
    <3> QED
      BY <2>1, <3>1 DEF Validate, SendFails, limiter, channel, stream
  <2>2. CASE Publish(r)
    BY <2>2 DEF Publish, limiter, channel
  <2> QED
    BY <1>2, <2>1, <2>2 DEF HandlerStep
<1>3. ASSUME NEW r \in Request, Send(r) PROVE TypeOK'
  BY <1>3 DEF Send, limiter, stream
<1>4. ASSUME NEW r \in Request, HangUp(r) PROVE TypeOK'
  BY <1>4 DEF HangUp, limiter, channel, stream
<1>5. CASE Take
  BY <1>5 DEF Take, limiter, stream
<1>6. CASE CloseLoop
  BY <1>6 DEF CloseLoop, limiter, stream
<1>7. CASE Tick
  BY <1>7 DEF Tick, channel, stream
<1>8. ASSUME NEW s \in Subscriber, Subscribe(s) PROVE TypeOK'
  BY <1>8 DEF Subscribe, limiter, channel
<1>9. ASSUME NEW s \in Subscriber, Receive(s) PROVE TypeOK'
  <2>1. /\ cursor[s] \in Nat /\ Len(published) \in Nat /\ cursor[s] < Len(published)
        /\ seen[s] \in Seq(Nat)
        /\ UNCHANGED <<limiter, at, checkedAt, channel, published, from>>
    BY <1>9 DEF Receive
  <2>2. CASE cursor[s] + EventBuffer < Len(published)
    <3>1. /\ cursor' = [cursor EXCEPT ![s] = Len(published) - EventBuffer]
          /\ lagged' = lagged \cup {s} /\ seen' = seen
      BY <1>9, <2>2 DEF Receive
    <3>2. Len(published) - EventBuffer \in Nat
      BY <2>1, <2>2
    <3> QED
      BY <2>1, <3>1, <3>2 DEF limiter, channel
  <2>3. CASE ~(cursor[s] + EventBuffer < Len(published))
    <3>1. /\ cursor' = [cursor EXCEPT ![s] = @ + 1]
          /\ seen' = [seen EXCEPT ![s] = Append(@, cursor[s] + 1)] /\ lagged' = lagged
      BY <1>9, <2>3 DEF Receive
    <3>2. cursor[s] + 1 \in Nat /\ Append(seen[s], cursor[s] + 1) \in Seq(Nat)
      BY <2>1
    <3> QED
      BY <2>1, <3>1, <3>2 DEF limiter, channel
  <2> QED
    BY <2>2, <2>3
<1>10. CASE UNCHANGED vars
  BY <1>10 DEF vars, limiter, channel, stream
<1> QED
  BY <1>1, <1>2, <1>3, <1>4, <1>5, <1>6, <1>7, <1>8, <1>9, <1>10 DEF Next

-----------------------------------------------------------------------------
\* A step that leaves the limiter and those it admitted and refused alone.
Settled ==
    /\ UNCHANGED <<now, start, counter, checkedAt>>
    /\ Admitted' = Admitted
    /\ \A r \in Request : at'[r] = "limited" <=> at[r] = "limited"

(* Only the limiter's check and the clock matter to the quota. *)
LEMMA OtherSteps ==
    TypeOK /\ [Next]_vars => (\E r \in Request : CheckRate(r)) \/ Tick \/ Settled
<1> SUFFICES ASSUME TypeOK, [Next]_vars PROVE (\E r \in Request : CheckRate(r)) \/ Tick \/ Settled
  OBVIOUS
<1> USE DEF Settled, Admitted, Goto, TypeOK, Stage
<1>1. ASSUME NEW r \in Request, HandlerStep(r) \/ Send(r) \/ HangUp(r) PROVE Settled
  <2>1. CASE Validate(r)
    BY <2>1 DEF Validate, limiter
  <2>2. CASE SendFails(r)
    BY <2>2 DEF SendFails, limiter
  <2>3. CASE Publish(r)
    BY <2>3 DEF Publish, limiter
  <2>4. CASE Send(r)
    BY <2>4 DEF Send, limiter
  <2>5. CASE HangUp(r)
    BY <2>5 DEF HangUp, limiter
  <2> QED
    BY <1>1, <2>1, <2>2, <2>3, <2>4, <2>5 DEF HandlerStep
<1>2. CASE Take \/ CloseLoop
  BY <1>2 DEF Take, CloseLoop, limiter
<1>3. ASSUME NEW s \in Subscriber, Subscribe(s) \/ Receive(s) PROVE Settled
  BY <1>3 DEF Subscribe, Receive, limiter
<1>4. CASE UNCHANGED vars
  BY <1>4 DEF vars, limiter
<1> QED
  BY <1>1, <1>2, <1>3, <1>4 DEF Next

-----------------------------------------------------------------------------
(* At the start nobody was admitted. *)
LEMMA QuotaInit == Init => QuotaInv
<1> SUFFICES ASSUME Init PROVE QuotaInv
  OBVIOUS
<1>1. TypeOK
  BY IngestInitType
<1>2. CheckedInv
  BY DEF Init, CheckedInv
<1>3. Admitted = {} /\ AdmittedSince(start) = {}
  BY DEF Init, Admitted, AdmittedSince
<1>4. CountInv
  BY <1>3, FS_EmptySet DEF Init, CountInv
<1>5. RefusedOnlyWhenFull
  BY DEF Init, RefusedOnlyWhenFull
<1> QED
  BY <1>1, <1>2, <1>4, <1>5 DEF QuotaInv

(* The checks stay in the past and before the end of the window. *)
LEMMA CheckedStep == TypeOK /\ CheckedInv /\ [Next]_vars => CheckedInv'
<1> SUFFICES ASSUME TypeOK, CheckedInv, [Next]_vars PROVE CheckedInv'
  OBVIOUS
<1> USE DEF TypeOK, CheckedInv
<1>1. ASSUME NEW r \in Request, CheckRate(r) PROVE CheckedInv'
  BY <1>1 DEF CheckRate
<1>2. CASE Tick
  BY <1>2 DEF Tick
<1>3. CASE Settled
  BY <1>3 DEF Settled
<1> QED
  BY <1>1, <1>2, <1>3, OtherSteps

(* A check in a window that is over begins another, with this request in it. *)
LEMMA FreshWindow ==
    ASSUME TypeOK, CheckedInv, CountInv, NEW r \in Request, CheckRate(r), now - start >= Window
    PROVE  CountInv' /\ Admitted' = Admitted \cup {r}
<1> USE DEF TypeOK, Goto, CheckRate
<1>1. Admitted' = Admitted \cup {r}
  BY DEF Admitted
<1>2. AdmittedSince(start)' = {r}
  <2>1. ASSUME NEW q \in Request, q # r PROVE checkedAt'[q] < now
    BY <2>1 DEF CheckedInv
  <2>2. checkedAt'[r] = now /\ start' = now
    OBVIOUS
  <2>3. \A q \in Admitted' : checkedAt'[q] >= now => q = r
    BY <2>1 DEF Admitted
  <2> QED
    BY <1>1, <2>2, <2>3 DEF AdmittedSince
<1>3. IsFiniteSet(Admitted')
  BY <1>1, FS_AddElement DEF CountInv
<1>4. Cardinality(AdmittedSince(start)') = 1
  BY <1>2, FS_Singleton
<1> QED
  BY <1>1, <1>3, <1>4 DEF CountInv

(* A check within a window adds this request, or refuses it. *)
LEMMA SameWindow ==
    ASSUME TypeOK, CheckedInv, CountInv, NEW r \in Request, CheckRate(r), ~(now - start >= Window)
    PROVE  /\ CountInv'
           /\ counter < MaxRequests => Admitted' = Admitted \cup {r}
           /\ counter >= MaxRequests => Admitted' = Admitted
<1> USE DEF TypeOK, Goto, CheckRate
<1>1. CASE counter < MaxRequests
  <2>1. Admitted' = Admitted \cup {r}
    BY <1>1 DEF Admitted
  <2>2. AdmittedSince(start)' = AdmittedSince(start) \cup {r}
    BY <2>1 DEF AdmittedSince
  <2>3. r \notin AdmittedSince(start)
    BY DEF AdmittedSince, Admitted
  <2>4. IsFiniteSet(Admitted') /\ IsFiniteSet(AdmittedSince(start))
    BY <2>1, FS_AddElement, FS_Subset DEF CountInv, AdmittedSince
  <2>5. Cardinality(AdmittedSince(start)') = Cardinality(AdmittedSince(start)) + 1
    BY <2>2, <2>3, <2>4, FS_AddElement
  <2> QED
    BY <1>1, <2>1, <2>4, <2>5 DEF CountInv
<1>2. CASE counter >= MaxRequests
  <2>1. Admitted' = Admitted
    BY <1>2 DEF Admitted
  <2>2. AdmittedSince(start)' = AdmittedSince(start)
    BY <2>1 DEF AdmittedSince, Admitted
  <2> QED
    BY <1>2, <2>1, <2>2 DEF CountInv
<1> QED
  BY <1>1, <1>2

(* Who is refused now finds the quota of this window used within the       *)
(* time of one window.                                                     *)
LEMMA RefusedNow ==
    ASSUME TypeOK, CheckedInv, CountInv, NEW r \in Request, CheckRate(r), at'[r] = "limited"
    PROVE  Cardinality(Recent(now)) >= MaxRequests
<1>1. ~(now - start >= Window) /\ counter >= MaxRequests
  BY DEF CheckRate, Goto, TypeOK
<1>2. Cardinality(AdmittedSince(start)) = MaxRequests
  BY <1>1 DEF CountInv, TypeOK
<1>3. AdmittedSince(start) \subseteq Recent(now) /\ Recent(now) \subseteq Admitted
  BY <1>1 DEF AdmittedSince, Recent, CheckedInv, TypeOK, Admitted
<1>4. IsFiniteSet(Recent(now))
  BY <1>3, FS_Subset DEF CountInv
<1>5. Cardinality(AdmittedSince(start)) <= Cardinality(Recent(now))
  BY <1>3, <1>4, FS_Subset
<1>6. Cardinality(Recent(now)) \in Nat
  BY <1>4, FS_CardinalityType
<1> QED
  BY <1>2, <1>5, <1>6

(* What was found before a refusal stays: nobody is checked twice. *)
LEMMA RecentGrows ==
    ASSUME TypeOK, CountInv, CountInv', NEW t \in Int,
           Admitted \subseteq Admitted', \A q \in Admitted : checkedAt'[q] = checkedAt[q],
           Cardinality(Recent(t)) >= MaxRequests
    PROVE  Cardinality(Recent(t)') >= MaxRequests
<1>1. Recent(t) \subseteq Recent(t)' /\ Recent(t)' \subseteq Admitted' /\ Recent(t) \subseteq Admitted
  BY DEF Recent
<1>2. IsFiniteSet(Recent(t)') /\ IsFiniteSet(Recent(t))
  BY <1>1, FS_Subset DEF CountInv
<1>3. Cardinality(Recent(t)) <= Cardinality(Recent(t)')
  BY <1>1, <1>2, FS_Subset
<1>4. Cardinality(Recent(t)) \in Nat /\ Cardinality(Recent(t)') \in Nat
  BY <1>2, FS_CardinalityType
<1> QED
  BY <1>3, <1>4

(* The property, in terms of Recent. *)
LEMMA RefusedForm ==
    RefusedOnlyWhenFull <=>
        \A r \in Request : at[r] = "limited" => Cardinality(Recent(checkedAt[r])) >= MaxRequests
  BY DEF RefusedOnlyWhenFull, Recent

(* Every step keeps the count and the grounds of each refusal. *)
LEMMA QuotaStep == QuotaInv /\ [Next]_vars => QuotaInv'
<1> SUFFICES ASSUME QuotaInv, [Next]_vars PROVE QuotaInv'
  OBVIOUS
<1> USE DEF QuotaInv
<1>1. TypeOK' /\ CheckedInv'
  BY IngestType, CheckedStep
<1>2. ASSUME NEW r \in Request, CheckRate(r) PROVE CountInv' /\ RefusedOnlyWhenFull'
  <2>1. CountInv' /\ Admitted \subseteq Admitted'
    <3>1. CASE now - start >= Window
      BY <1>2, <3>1, FreshWindow
    <3>2. CASE ~(now - start >= Window)
      <4>1. counter < MaxRequests \/ counter >= MaxRequests
        BY DEF TypeOK
      <4> QED
        BY <1>2, <3>2, <4>1, SameWindow
    <3> QED
      BY <3>1, <3>2
  <2>2. r \notin Admitted /\ checkedAt' = [checkedAt EXCEPT ![r] = now]
    BY <1>2 DEF CheckRate, Goto, Admitted
  <2>3. \A q \in Admitted : checkedAt'[q] = checkedAt[q]
    BY <2>2 DEF Admitted, TypeOK
  <2>4. ASSUME NEW q \in Request, at'[q] = "limited"
        PROVE  Cardinality(Recent(checkedAt[q])') >= MaxRequests
    <3>1. CASE q = r
      <4>1. Cardinality(Recent(now)) >= MaxRequests
        BY <1>2, <2>4, <3>1, RefusedNow
      <4>2. checkedAt'[q] = now /\ now \in Int
        BY <2>2, <3>1 DEF TypeOK
      <4>3. ASSUME NEW t \in Int, t = now PROVE Cardinality(Recent(t)') >= MaxRequests
        BY <2>1, <2>3, <4>1, <4>3, RecentGrows
      <4>4. ASSUME NEW t \in Int, t = now PROVE Recent(t)' = Recent(checkedAt[q])'
        BY <4>2, <4>4 DEF Recent
      <4> QED
        BY <4>2, <4>3, <4>4
    <3>2. CASE q # r
      <4>1. at[q] = "limited" /\ checkedAt'[q] = checkedAt[q] /\ checkedAt[q] \in Int
        BY <1>2, <2>2, <2>4, <3>2 DEF CheckRate, Goto, TypeOK
      <4>2. Cardinality(Recent(checkedAt[q])) >= MaxRequests
        BY <4>1, RefusedForm
      <4>3. ASSUME NEW t \in Int, t = checkedAt[q] PROVE Cardinality(Recent(t)') >= MaxRequests
        BY <2>1, <2>3, <4>2, <4>3, RecentGrows
      <4>4. ASSUME NEW t \in Int, t = checkedAt[q] PROVE Recent(t)' = Recent(checkedAt[q])'
        BY <4>1, <4>4 DEF Recent
      <4> QED
        BY <4>1, <4>3, <4>4
    <3> QED
      BY <3>1, <3>2
  <2> QED
    BY <2>1, <2>4 DEF RefusedOnlyWhenFull, Recent
<1>3. CASE Tick
  <2>1. Admitted' = Admitted /\ AdmittedSince(start)' = AdmittedSince(start)
    BY <1>3 DEF Tick, Admitted, AdmittedSince
  <2> QED
    BY <1>1, <1>3, <2>1 DEF CountInv, RefusedOnlyWhenFull, Tick
<1>4. CASE Settled
  <2>1. AdmittedSince(start)' = AdmittedSince(start)
    BY <1>4 DEF Settled, AdmittedSince
  <2> QED
    BY <1>1, <1>4, <2>1 DEF CountInv, RefusedOnlyWhenFull, Settled
<1> QED
  BY <1>1, <1>2, <1>3, <1>4, OtherSteps

(* However many threads ask it, a window admits no more than its quota. *)
LEMMA QuotaHolds == QuotaInv => WindowQuota
<1> SUFFICES ASSUME QuotaInv PROVE WindowQuota
  OBVIOUS
<1> QED
  BY DEF QuotaInv, CountInv, WindowQuota, TypeOK

-----------------------------------------------------------------------------
(* What is in the channel: one envelope of each request whose answer will  *)
(* say so, and none of any other.                                          *)
FateInv ==
    \A r \in Request :
        IF at[r] \in {"publish", "ok"}
        THEN \E n \in DOMAIN accepted : Entries(r) = {n}
        ELSE Entries(r) = {}

(* The channel starts empty, with no request answered. *)
LEMMA FateInit == Init => FateInv
<1> SUFFICES ASSUME Init PROVE FateInv
  OBVIOUS
<1>1. \A r \in Request : Entries(r) = {}
  BY DEF Init, Entries
<1> QED
  BY <1>1 DEF Init, FateInv

(* Who enters the channel is there once, and the others as they were. *)
LEMMA FateSend ==
    ASSUME TypeOK, FateInv, NEW r \in Request, Send(r)
    PROVE  FateInv'
<1>1. /\ accepted \in Seq(Request) /\ accepted' = Append(accepted, r)
      /\ at[r] = "sending" /\ at' = [at EXCEPT ![r] = "publish"] /\ at \in [Request -> Stage]
  BY DEF Send, Goto, TypeOK
<1>2. Entries(r) = {}
  BY <1>1 DEF FateInv
<1>3. Entries(r)' = {Len(accepted) + 1} /\ Len(accepted) + 1 \in DOMAIN accepted'
  BY <1>1, <1>2 DEF Entries
<1>4. ASSUME NEW q \in Request, q # r PROVE Entries(q)' = Entries(q) /\ at'[q] = at[q]
  BY <1>1, <1>4 DEF Entries
<1>5. DOMAIN accepted \subseteq DOMAIN accepted'
  BY <1>1
<1>6. at'[r] = "publish"
  BY <1>1
<1>7. ASSUME NEW q \in Request
      PROVE  IF at'[q] \in {"publish", "ok"}
             THEN \E n \in DOMAIN accepted' : Entries(q)' = {n}
             ELSE Entries(q)' = {}
  <2>1. CASE q = r
    BY <1>3, <1>6, <2>1
  <2>2. CASE q # r
    BY <1>4, <1>5, <2>2 DEF FateInv
  <2> QED
    BY <2>1, <2>2
<1> QED
  BY <1>7 DEF FateInv

(* No other step changes the channel or an answer about it. *)
LEMMA FateStep == TypeOK /\ FateInv /\ [Next]_vars => FateInv'
<1> SUFFICES ASSUME TypeOK, FateInv, [Next]_vars PROVE FateInv'
  OBVIOUS
<1>1. ASSUME accepted' = accepted,
             \A q \in Request : at'[q] \in {"publish", "ok"} <=> at[q] \in {"publish", "ok"}
      PROVE  FateInv'
  BY <1>1 DEF FateInv, Entries
<1> USE DEF Goto, TypeOK, Stage
<1>2. ASSUME NEW r \in Request, CheckRate(r) PROVE FateInv'
  <2>1. at[r] = "new" /\ \/ at' = [at EXCEPT ![r] = "admitted"]
                         \/ at' = [at EXCEPT ![r] = "limited"]
    BY <1>2 DEF CheckRate
  <2>2. accepted' = accepted
    BY <1>2 DEF CheckRate, channel
  <2>3. \A q \in Request : at'[q] \in {"publish", "ok"} <=> at[q] \in {"publish", "ok"}
    BY <2>1
  <2> QED
    BY <1>1, <2>2, <2>3
<1>3. ASSUME NEW r \in Request, Validate(r) PROVE FateInv'
  <2>1. at[r] = "admitted" /\ \/ at' = [at EXCEPT ![r] = "unauthorized"]
                              \/ at' = [at EXCEPT ![r] = "incomplete"]
                              \/ at' = [at EXCEPT ![r] = "sending"]
    BY <1>3 DEF Validate
  <2>2. accepted' = accepted
    BY <1>3 DEF Validate, channel
  <2>3. \A q \in Request : at'[q] \in {"publish", "ok"} <=> at[q] \in {"publish", "ok"}
    BY <2>1
  <2> QED
    BY <1>1, <2>2, <2>3
<1>4. ASSUME NEW r \in Request, SendFails(r) \/ HangUp(r) PROVE FateInv'
  <2>1. accepted' = accepted
    BY <1>4 DEF SendFails, HangUp, channel
  <2>2. \A q \in Request : at'[q] \in {"publish", "ok"} <=> at[q] \in {"publish", "ok"}
    BY <1>4 DEF SendFails, HangUp
  <2> QED
    BY <1>1, <2>1, <2>2
<1>5. ASSUME NEW r \in Request, Publish(r) PROVE FateInv'
  <2>1. accepted' = accepted
    BY <1>5 DEF Publish, channel
  <2>2. \A q \in Request : at'[q] \in {"publish", "ok"} <=> at[q] \in {"publish", "ok"}
    BY <1>5 DEF Publish
  <2> QED
    BY <1>1, <2>1, <2>2
<1>6. ASSUME NEW r \in Request, Send(r) PROVE FateInv'
  BY <1>6, FateSend
<1>7. CASE Take \/ CloseLoop \/ Tick
  BY <1>1, <1>7 DEF Take, CloseLoop, Tick, channel
<1>8. ASSUME NEW s \in Subscriber, Subscribe(s) \/ Receive(s) PROVE FateInv'
  BY <1>1, <1>8 DEF Subscribe, Receive, channel
<1>9. CASE UNCHANGED vars
  BY <1>1, <1>9 DEF vars, channel
<1> QED
  BY <1>2, <1>3, <1>4, <1>5, <1>6, <1>7, <1>8, <1>9 DEF Next, HandlerStep

(* One position in the channel is one envelope. *)
LEMMA FateHolds == FateInv => AnswerTellsFate
<1> SUFFICES ASSUME FateInv, NEW r \in Request
             PROVE  Cardinality(Entries(r)) = IF at[r] \in {"publish", "ok"} THEN 1 ELSE 0
  BY DEF AnswerTellsFate
<1>1. CASE at[r] \in {"publish", "ok"}
  <2>1. PICK n \in DOMAIN accepted : Entries(r) = {n}
    BY <1>1 DEF FateInv
  <2> QED
    BY <1>1, <2>1, FS_Singleton
<1>2. CASE at[r] \notin {"publish", "ok"}
  BY <1>2, FS_EmptySet DEF FateInv
<1> QED
  BY <1>1, <1>2

-----------------------------------------------------------------------------
(* The event stream. *)

\* An event is broadcast before its request is answered.
BroadcastInv == \A n \in DOMAIN published : at[published[n]] = "ok"

\* A receiver is between where its subscriber came in and the newest event,
\* and was given positions up to its own, in order.
ReceiverInv(s) ==
    /\ cursor[s] <= Len(published)
    /\ from[s] = -1 => seen[s] = <<>>
    /\ \A k \in DOMAIN seen[s] : seen[s][k] <= cursor[s]
    /\ \A j, k \in DOMAIN seen[s] : j < k => seen[s][j] < seen[s][k]

\* Who never fell behind was given every position since then.
NothingMissed(s) ==
    s \notin lagged /\ from[s] # -1 =>
        \A n \in (from[s] + 1)..cursor[s] : \E k \in DOMAIN seen[s] : seen[s][k] = n

StreamInv ==
    /\ TypeOK /\ FateInv /\ BroadcastInv
    /\ \A s \in Subscriber : ReceiverInv(s) /\ NothingMissed(s)

(* The invariant gives the property: who was answered 200 is in the channel. *)
LEMMA StreamHolds == StreamInv => StreamInOrder
<1> SUFFICES ASSUME StreamInv PROVE StreamInOrder
  OBVIOUS
<1>1. ASSUME NEW n \in DOMAIN published PROVE Entries(published[n]) # {}
  <2>1. published[n] \in Request /\ at[published[n]] = "ok"
    BY DEF StreamInv, TypeOK, BroadcastInv
  <2> QED
    BY <2>1 DEF StreamInv, FateInv
<1> QED
  BY <1>1 DEF StreamInv, StreamInOrder, ReceiverInv, NothingMissed

(* At the start there is no event and nobody listens. *)
LEMMA StreamInit == Init => StreamInv
<1> SUFFICES ASSUME Init PROVE StreamInv
  OBVIOUS
<1>1. TypeOK /\ FateInv
  BY IngestInitType, FateInit
<1> QED
  BY <1>1 DEF Init, StreamInv, BroadcastInv, ReceiverInv, NothingMissed

(* An answer that was given is final. *)
LEMMA BroadcastStep ==
    TypeOK /\ BroadcastInv /\ [Next]_vars => BroadcastInv'
<1> SUFFICES ASSUME TypeOK, BroadcastInv, [Next]_vars PROVE BroadcastInv'
  OBVIOUS
<1> USE DEF TypeOK, Goto
<1>1. ASSUME published' = published, \A q \in Request : at[q] = "ok" => at'[q] = "ok"
      PROVE  BroadcastInv'
  BY <1>1 DEF BroadcastInv
<1>2. ASSUME NEW r \in Request, at[r] # "ok", NEW b, at' = [at EXCEPT ![r] = b],
             published' = published
      PROVE  BroadcastInv'
  BY <1>1, <1>2
<1>3. ASSUME NEW r \in Request, Publish(r) PROVE BroadcastInv'
  <2>1. /\ published' = Append(published, r) /\ at' = [at EXCEPT ![r] = "ok"]
        /\ published \in Seq(Request)
    BY <1>3 DEF Publish
  <2>2. ASSUME NEW n \in DOMAIN published' PROVE at'[published'[n]] = "ok"
    <3>1. CASE n = Len(published) + 1
      BY <2>1, <3>1
    <3>2. CASE n # Len(published) + 1
      <4>1. n \in DOMAIN published /\ published'[n] = published[n] /\ published[n] \in Request
        BY <2>1, <3>2
      <4> QED
        BY <2>1, <4>1 DEF BroadcastInv
    <3> QED
      BY <3>1, <3>2
  <2> QED
    BY <2>2 DEF BroadcastInv
<1>4. ASSUME NEW r \in Request, CheckRate(r) PROVE BroadcastInv'
  <2>1. \E b : at[r] = "new" /\ at' = [at EXCEPT ![r] = b]
    BY <1>4 DEF CheckRate
  <2>2. published' = published
    BY <1>4 DEF CheckRate, stream
  <2> QED
    BY <1>2, <2>1, <2>2
<1>5. ASSUME NEW r \in Request, Validate(r) \/ SendFails(r) \/ Send(r) \/ HangUp(r)
      PROVE  BroadcastInv'
  <2>1. \E b : at[r] \in {"admitted", "sending"} /\ at' = [at EXCEPT ![r] = b]
    BY <1>5 DEF Validate, SendFails, Send, HangUp
  <2>2. published' = published
    BY <1>5 DEF Validate, SendFails, Send, HangUp, stream
  <2> QED
    BY <1>2, <2>1, <2>2
<1>6. CASE Take \/ CloseLoop \/ Tick
  BY <1>1, <1>6 DEF Take, CloseLoop, Tick, stream
<1>7. ASSUME NEW s \in Subscriber, Subscribe(s) \/ Receive(s) PROVE BroadcastInv'
  BY <1>1, <1>7 DEF Subscribe, Receive
<1>8. CASE UNCHANGED vars
  BY <1>1, <1>8 DEF vars, stream
<1> QED
  BY <1>3, <1>4, <1>5, <1>6, <1>7, <1>8 DEF Next, HandlerStep

(* What a subscriber is given keeps its order and leaves nothing out. *)
LEMMA ReceiveStep ==
    ASSUME TypeOK, NEW s \in Subscriber, ReceiverInv(s), NothingMissed(s), Receive(s)
    PROVE  ReceiverInv(s)' /\ NothingMissed(s)'
<1>1. /\ cursor \in [Subscriber -> Nat] /\ cursor[s] \in Nat /\ Len(published) \in Nat
      /\ cursor[s] < Len(published) /\ published' = published /\ from' = from
      /\ from[s] \in Int /\ from[s] # -1
      /\ seen \in [Subscriber -> Seq(Nat)] /\ seen[s] \in Seq(Nat)
  BY DEF TypeOK, Receive
<1>2. CASE cursor[s] + EventBuffer < Len(published)
  <2>1. cursor'[s] = Len(published) - EventBuffer /\ seen' = seen /\ s \in lagged'
    BY <1>1, <1>2 DEF Receive
  <2>2. cursor[s] < cursor'[s] /\ cursor'[s] <= Len(published)
    BY <1>1, <1>2, <2>1
  <2>3. ASSUME NEW k \in DOMAIN seen[s] PROVE seen[s][k] <= cursor'[s]
    <3>1. seen[s][k] \in Nat /\ seen[s][k] <= cursor[s]
      BY <1>1 DEF ReceiverInv
    <3> QED
      BY <1>1, <2>1, <2>2, <3>1
  <2> QED
    BY <1>1, <2>1, <2>2, <2>3 DEF ReceiverInv, NothingMissed
<1>3. CASE ~(cursor[s] + EventBuffer < Len(published))
  <2> DEFINE c == cursor[s] + 1
  <2>1. cursor'[s] = c /\ seen'[s] = Append(seen[s], c) /\ lagged' = lagged
    BY <1>1, <1>3 DEF Receive
  <2>2. c \in Nat /\ c <= Len(published)
    BY <1>1
  <2>3. /\ DOMAIN seen'[s] = 1..(Len(seen[s]) + 1) /\ DOMAIN seen[s] = 1..Len(seen[s])
        /\ Len(seen[s]) \in Nat /\ seen'[s][Len(seen[s]) + 1] = c
        /\ \A k \in DOMAIN seen[s] : seen'[s][k] = seen[s][k] /\ seen[s][k] \in Nat
    BY <1>1, <2>1
  <2>4. \A k \in DOMAIN seen[s] : seen[s][k] < c
    BY <1>1, <2>3 DEF ReceiverInv
  <2> HIDE DEF c
  <2>5. \A k \in DOMAIN seen'[s] : seen'[s][k] <= c
    BY <2>2, <2>3, <2>4
  <2>6. ASSUME NEW j \in DOMAIN seen'[s], NEW k \in DOMAIN seen'[s], j < k
        PROVE  seen'[s][j] < seen'[s][k]
    <3>1. j \in DOMAIN seen[s]
      BY <2>3, <2>6
    <3>2. CASE k = Len(seen[s]) + 1
      BY <2>3, <2>4, <3>1, <3>2
    <3>3. CASE k # Len(seen[s]) + 1
      <4>1. k \in DOMAIN seen[s]
        BY <2>3, <3>3
      <4>2. seen[s][j] < seen[s][k]
        BY <2>6, <3>1, <4>1 DEF ReceiverInv
      <4> QED
        BY <2>3, <3>1, <4>1, <4>2
    <3> QED
      BY <3>2, <3>3
  <2>7. ReceiverInv(s)'
    BY <1>1, <2>1, <2>2, <2>5, <2>6 DEF ReceiverInv
  <2>8. ASSUME s \notin lagged', NEW n \in (from[s] + 1)..c
        PROVE  \E k \in DOMAIN seen'[s] : seen'[s][k] = n
    <3>1. CASE n = c
      BY <2>3, <3>1
    <3>2. CASE n # c
      <4>1. n \in (from[s] + 1)..cursor[s]
        BY <1>1, <2>2, <3>2 DEF c
      <4>2. PICK k \in DOMAIN seen[s] : seen[s][k] = n
        BY <1>1, <2>1, <2>8, <4>1 DEF NothingMissed
      <4> QED
        BY <2>3, <4>2
    <3> QED
      BY <3>1, <3>2
  <2> QED
    BY <1>1, <2>1, <2>7, <2>8 DEF NothingMissed
<1> QED
  BY <1>2, <1>3

(* No step of anybody else disturbs a subscriber. *)
LEMMA ReceiverStep ==
    ASSUME TypeOK, NEW s \in Subscriber, ReceiverInv(s), NothingMissed(s), [Next]_vars
    PROVE  ReceiverInv(s)' /\ NothingMissed(s)'
<1> USE DEF TypeOK
<1>1. ASSUME from'[s] = from[s], cursor'[s] = cursor[s], seen'[s] = seen[s],
             s \in lagged' <=> s \in lagged, Len(published') >= Len(published)
      PROVE  ReceiverInv(s)' /\ NothingMissed(s)'
  <2>1. cursor[s] <= Len(published') /\ cursor[s] \in Nat
    BY <1>1, IngestType DEF ReceiverInv
  <2> QED
    BY <1>1, <2>1 DEF ReceiverInv, NothingMissed
<1>2. ASSUME UNCHANGED stream PROVE ReceiverInv(s)' /\ NothingMissed(s)'
  BY <1>1, <1>2 DEF stream
<1>3. ASSUME NEW r \in Request, CheckRate(r) PROVE UNCHANGED stream
  BY <1>3 DEF CheckRate
<1>4. ASSUME NEW r \in Request, Validate(r) \/ SendFails(r) \/ Send(r) \/ HangUp(r)
      PROVE  UNCHANGED stream
  BY <1>4 DEF Validate, SendFails, Send, HangUp
<1>5. ASSUME NEW r \in Request, Publish(r) PROVE ReceiverInv(s)' /\ NothingMissed(s)'
  <2>1. UNCHANGED <<from, cursor, seen, lagged>> /\ published' = Append(published, r)
    BY <1>5 DEF Publish
  <2>2. Len(published') >= Len(published)
    BY <2>1
  <2> QED
    BY <1>1, <2>1, <2>2
<1>6. CASE Take \/ CloseLoop \/ Tick
  <2>1. UNCHANGED stream
    BY <1>6 DEF Take, CloseLoop, Tick
  <2> QED
    BY <1>2, <2>1
<1>7. ASSUME NEW t \in Subscriber, Subscribe(t) PROVE ReceiverInv(s)' /\ NothingMissed(s)'
  <2>1. UNCHANGED <<published, seen, lagged>> /\ from[t] = -1
        /\ from' = [from EXCEPT ![t] = Len(published)]
        /\ cursor' = [cursor EXCEPT ![t] = Len(published)]
    BY <1>7 DEF Subscribe
  <2>2. CASE s = t
    <3>1. from'[s] = Len(published) /\ cursor'[s] = Len(published) /\ seen'[s] = <<>>
      BY <2>1, <2>2 DEF ReceiverInv
    <3> QED
      BY <2>1, <3>1 DEF ReceiverInv, NothingMissed
  <2>3. CASE s # t
    BY <1>1, <2>1, <2>3
  <2> QED
    BY <2>2, <2>3
<1>8. ASSUME NEW t \in Subscriber, Receive(t) PROVE ReceiverInv(s)' /\ NothingMissed(s)'
  <2>1. CASE s = t
    BY <1>8, <2>1, ReceiveStep
  <2>2. CASE s # t
    <3>1. /\ from' = from /\ published' = published
          /\ cursor'[s] = cursor[s] /\ seen'[s] = seen[s]
      BY <1>8, <2>2 DEF Receive
    <3>2. s \in lagged' <=> s \in lagged
      BY <1>8, <2>2 DEF Receive
    <3> QED
      BY <1>1, <3>1, <3>2
  <2> QED
    BY <2>1, <2>2
<1>9. CASE UNCHANGED vars
  BY <1>2, <1>9 DEF vars
<1> QED
  BY <1>2, <1>3, <1>4, <1>5, <1>6, <1>7, <1>8, <1>9 DEF Next, HandlerStep

(* The parts of the stream's invariant, together. *)
LEMMA StreamStep == StreamInv /\ [Next]_vars => StreamInv'
<1> SUFFICES ASSUME StreamInv, [Next]_vars PROVE StreamInv'
  OBVIOUS
<1>1. TypeOK' /\ FateInv' /\ BroadcastInv'
  BY IngestType, FateStep, BroadcastStep DEF StreamInv
<1>2. ASSUME NEW s \in Subscriber PROVE ReceiverInv(s)' /\ NothingMissed(s)'
  BY ReceiverStep DEF StreamInv
<1> QED
  BY <1>1, <1>2 DEF StreamInv

-----------------------------------------------------------------------------
(***************************************************************************)
(* The commands change nothing in the daemon: what they and the registry   *)
(* do are stutters of Ingest, and what is served is a step of it.  So all  *)
(* that holds of Ingest holds when its clients are commands.               *)
(***************************************************************************)
THEOREM CommandsOnlyPost == CommandSpec => Spec
<1>1. CliInit => Init
  BY DEF CliInit
<1>2. [CommandNext]_commandVars => [Next]_vars
  <2> SUFFICES ASSUME [CommandNext]_commandVars PROVE [Next]_vars
    OBVIOUS
  <2>1. ASSUME NEW r \in Cli, BeginCommand(r) \/ Resolve(r) \/ Unreachable(r)
                              \/ Interrupt(r) \/ ReadAnswer(r)
        PROVE  UNCHANGED vars
    BY <2>1 DEF BeginCommand, Resolve, Unreachable, Interrupt, ReadAnswer
  <2>2. CASE AddTarget \/ RemoveTarget
    BY <2>2 DEF AddTarget, RemoveTarget, Register
  <2>3. CASE Serve
    BY <2>3 DEF Serve
  <2>4. CASE UNCHANGED commandVars
    BY <2>4 DEF commandVars
  <2> QED
    BY <2>1, <2>2, <2>3, <2>4 DEF CommandNext
<1> QED
  BY <1>1, <1>2, PTL DEF CommandSpec, Spec

(***************************************************************************)
(* A window admits at most max_requests, however many threads ask the      *)
(* limiter, whatever is served beside them.                                *)
(***************************************************************************)
THEOREM QuotaIsKept == CommandSpec => []WindowQuota
<1>1. Spec => []QuotaInv
  BY QuotaInit, QuotaStep, PTL DEF Spec
<1> QED
  BY <1>1, CommandsOnlyPost, QuotaHolds, PTL

(***************************************************************************)
(* A request is refused for its rate only when max_requests others were    *)
(* admitted within a window before it.                                     *)
(***************************************************************************)
THEOREM RefusalsAreDue == CommandSpec => []RefusedOnlyWhenFull
<1>1. Spec => []QuotaInv
  BY QuotaInit, QuotaStep, PTL DEF Spec
<1>2. QuotaInv => RefusedOnlyWhenFull
  BY DEF QuotaInv
<1> QED
  BY <1>1, <1>2, CommandsOnlyPost, PTL

(***************************************************************************)
(* 200 OK means one envelope in the channel; any other answer, and a       *)
(* client that hung up, mean none.                                         *)
(***************************************************************************)
THEOREM AnswersTellTheFate == CommandSpec => []AnswerTellsFate
<1>1. Spec => []StreamInv
  BY StreamInit, StreamStep, PTL DEF Spec
<1>2. StreamInv => FateInv
  BY DEF StreamInv
<1> QED
  BY <1>1, <1>2, CommandsOnlyPost, FateHolds, PTL

(***************************************************************************)
(* The events are about envelopes in the channel and reach a subscriber in *)
(* order, with nothing left out for one that keeps up.                     *)
(***************************************************************************)
THEOREM StreamKeepsOrder == CommandSpec => []StreamInOrder
<1>1. Spec => []StreamInv
  BY StreamInit, StreamStep, PTL DEF Spec
<1> QED
  BY <1>1, CommandsOnlyPost, StreamHolds, PTL

-----------------------------------------------------------------------------
(* The operator's commands. *)

USE CliAssumption, TargetAssumption, ChangesAssumption

\* What a command has found out by the time it posts, and that it is answered
\* only for what it posted.
CliInv ==
    \A r \in Cli :
        /\ command[r] = "resolve" => registry \in had[r]
        /\ command[r] \in {"post", "submitted"} \/ at[r] # "new" =>
              \E t \in Target : t \in had[r] /\ content[r] = Content(t, r \in given)
        /\ at[r] # "new" => command[r] \in {"post", "submitted", "error"}
        /\ command[r] = "submitted" => at[r] = "ok"

\* What a text is made of.
Words == {Word("defend:drift"), Word("--target"), Word("local"), Word("--apply")}
         \cup {Word(w) : w \in STRING} \cup {Ssh(w) : w \in STRING}

\* The words that mean something are told apart, and from what names a host.
LEMMA WordsDiffer ==
    /\ Word("defend:drift") # Word("--target")
    /\ Word("defend:drift") # Word("--apply") /\ Word("--target") # Word("--apply")
    /\ Word("local") # Word("--apply")
    /\ \A w : Word(w) = Word("--apply") <=> w = "--apply"
    /\ \A w \in STRING : /\ Ssh(w) # Word("local") /\ Ssh(w) # Word("--apply")
                        /\ Ssh(w)[1] = "ssh:" /\ Ssh(w)[2] = w
BY DEF Word, Ssh

\* The words of a target: the first tells how it is reached.
LEMMA TokenType ==
    ASSUME NEW t \in Seq(STRING)
    PROVE  /\ TargetToken(t) \in Seq(Words) /\ Len(TargetToken(t)) >= 1
           /\ t = Local => TargetToken(t)[1] = Word("local") /\ Len(TargetToken(t)) = 1
           /\ t # Local => Head(t) \in STRING /\ TargetToken(t)[1] = Ssh(Head(t))
           /\ t # Local => Len(TargetToken(t)) = Len(t)
           /\ \A n \in 2..Len(t) : TargetToken(t)[n] = Word(t[n])
<1>1. CASE t = Local
  <2>1. TargetToken(t) = <<Word("local")>> /\ Word("local") \in Words
    BY <1>1 DEF TargetToken, Words
  <2>2. 2..Len(t) = {}
    BY <1>1 DEF Local
  <2>. QED  BY <1>1, <2>1, <2>2
<1>2. CASE t # Local
  <2>. DEFINE rest == [n \in DOMAIN Tail(t) |-> Word(t[n + 1])]
              word == Ssh(Head(t))
  <2>1. /\ Len(t) \in Nat /\ Len(t) >= 1 /\ Head(t) \in STRING
        /\ DOMAIN Tail(t) = 1..(Len(t) - 1)
    BY <1>2 DEF Local
  <2>2. \A n \in 1..(Len(t) - 1) : t[n + 1] \in STRING
    BY <2>1
  <2>3. \A n \in 1..(Len(t) - 1) : Word(t[n + 1]) \in Words
    BY <2>2 DEF Words
  <2>4. rest \in Seq(Words) /\ Len(rest) = Len(t) - 1
        /\ \A n \in 1..(Len(t) - 1) : rest[n] = Word(t[n + 1])
    <3>1. Len(t) - 1 \in Nat
      BY <2>1
    <3>. HIDE DEF Words
    <3>2. /\ rest \in [1..(Len(t) - 1) -> Words]
          /\ \A n \in 1..(Len(t) - 1) : rest[n] = Word(t[n + 1])
      BY <2>1, <2>3
    <3>. HIDE DEF rest
    <3>. QED  BY <3>1, <3>2
  <2>5. TargetToken(t) = <<word>> \o rest
    BY <1>2 DEF TargetToken
  <2>6. word \in Words
    BY <2>1 DEF Words
  <2>. HIDE DEF rest, word, Words
  <2>7. /\ TargetToken(t) \in Seq(Words) /\ Len(TargetToken(t)) = 1 + Len(rest)
        /\ TargetToken(t)[1] = word
        /\ \A n \in 1..Len(rest) : TargetToken(t)[n + 1] = rest[n]
    BY <2>4, <2>5, <2>6
  <2>8. ASSUME NEW n \in 2..Len(t) PROVE TargetToken(t)[n] = Word(t[n])
    <3>1. n - 1 \in 1..(Len(t) - 1) /\ (n - 1) + 1 = n /\ n - 1 \in 1..Len(rest)
      BY <2>1, <2>4
    <3>. QED  BY <2>4, <2>7, <3>1
  <2>9. Len(TargetToken(t)) = Len(t)
    BY <2>1, <2>4, <2>7
  <2>. QED  BY <1>2, <2>1, <2>4, <2>7, <2>8, <2>9 DEF word
<1>. QED  BY <1>1, <1>2

\* The text a command posts begins with the command, --target and the words
\* of the target, and ends with the flag.
LEMMA ContentForm ==
    ASSUME NEW t \in Target, NEW apply \in BOOLEAN
    PROVE  /\ Content(t, apply) \in Seq(Words)
           /\ Len(Content(t, apply)) = 2 + Len(TargetToken(t)) + (IF apply THEN 1 ELSE 0)
           /\ Content(t, apply)[1] = Word("defend:drift") /\ Content(t, apply)[2] = Word("--target")
           /\ \A n \in 1..Len(TargetToken(t)) : Content(t, apply)[2 + n] = TargetToken(t)[n]
           /\ apply => Content(t, apply)[3 + Len(TargetToken(t))] = Word("--apply")
<1>. DEFINE a     == Word("defend:drift")
            b     == Word("--target")
            c     == Word("--apply")
            token == TargetToken(t)
            front == <<a, b>> \o token
            end   == IF apply THEN <<c>> ELSE <<>>
<1>1. a \in Words /\ b \in Words /\ c \in Words
  BY DEF Words
<1>2. token \in Seq(Words) /\ Len(token) \in Nat /\ Len(token) >= 1
  BY TokenType
<1>3. Content(t, apply) = front \o end
  BY DEF Content
<1>. HIDE DEF a, b, c, token, Words
<1>4. /\ front \in Seq(Words) /\ Len(front) = 2 + Len(token)
      /\ front[1] = a /\ front[2] = b
      /\ \A n \in 1..Len(token) : front[2 + n] = token[n]
  BY <1>1, <1>2
<1>5. /\ end \in Seq(Words)
      /\ apply => Len(end) = 1 /\ end[1] = c
      /\ ~apply => Len(end) = 0
  BY <1>1
<1>. HIDE DEF front, end
<1>6. /\ Content(t, apply) \in Seq(Words) /\ Len(Content(t, apply)) = Len(front) + Len(end)
      /\ \A n \in 1..Len(front) : Content(t, apply)[n] = front[n]
      /\ \A n \in 1..Len(end) : Content(t, apply)[Len(front) + n] = end[n]
  <2>1. /\ front \o end \in Seq(Words) /\ Len(front \o end) = Len(front) + Len(end)
        /\ \A n \in 1..(Len(front) + Len(end)) :
              (front \o end)[n] = IF n <= Len(front) THEN front[n] ELSE end[n - Len(front)]
    BY <1>4, <1>5, ConcatProperties
  <2>2. Len(front) \in Nat /\ Len(end) \in Nat
    BY <1>4, <1>5
  <2>3. \A n \in 1..Len(front) : (front \o end)[n] = front[n]
    BY <2>1, <2>2
  <2>4. \A n \in 1..Len(end) : (front \o end)[Len(front) + n] = end[n]
    BY <2>1, <2>2
  <2>. QED  BY <1>3, <2>1, <2>3, <2>4
<1>7. Content(t, apply)[1] = a /\ Content(t, apply)[2] = b
  BY <1>2, <1>4, <1>6
<1>8. ASSUME NEW n \in 1..Len(token) PROVE Content(t, apply)[2 + n] = token[n]
  <2>1. 2 + n \in 1..Len(front)
    BY <1>2, <1>4
  <2>. QED  BY <1>4, <1>6, <2>1
<1>9. ASSUME apply PROVE Content(t, apply)[3 + Len(token)] = c
  <2>1. 1 \in 1..Len(end) /\ Len(front) + 1 = 3 + Len(token) /\ end[1] = c
    <3>1. Len(end) = 1 /\ end[1] = c
      BY <1>5, <1>9
    <3>2. Len(front) + 1 = 3 + Len(token)
      BY <1>2, <1>4
    <3>. QED  BY <3>1, <3>2
  <2>2. Content(t, apply)[Len(front) + 1] = end[1]
    BY <1>6, <2>1
  <2>. QED  BY <2>1, <2>2
<1>10. Len(Content(t, apply)) = 2 + Len(token) + (IF apply THEN 1 ELSE 0)
  BY <1>2, <1>4, <1>5, <1>6
<1>. QED  BY <1>6, <1>7, <1>8, <1>9, <1>10 DEF a, b, c, token

\* The third word tells how the target is reached, and for which host.
LEMMA ThirdWord ==
    ASSUME NEW t \in Target, NEW apply \in BOOLEAN
    PROVE  \/ t = Local /\ Content(t, apply)[3] = Word("local")
           \/ t # Local /\ Head(t) \in STRING /\ Content(t, apply)[3] = Ssh(Head(t))
<1>1. t \in Seq(STRING) /\ 1 \in 1..Len(TargetToken(t)) /\ 2 + 1 = 3
  BY TokenType
<1>2. Content(t, apply)[3] = TargetToken(t)[1]
  BY <1>1, ContentForm
<1>. QED  BY <1>1, <1>2, TokenType

\* The text has the flag when the operator gave it, or the destination has it.
LEMMA FlagForm ==
    ASSUME NEW t \in Target, NEW apply \in BOOLEAN
    PROVE  HasFlag(Content(t, apply), "--apply") <=> apply \/ Carries(t, "--apply")
<1>. DEFINE text == Content(t, apply)
            size == Len(TargetToken(t))
            flag == Word("--apply")
<1>1. /\ t \in Seq(STRING) /\ Len(t) \in Nat /\ size \in Nat /\ size >= 1
      /\ t = Local => size = 1 /\ Len(t) = 0
      /\ t # Local => size = Len(t)
      /\ \A n \in 2..Len(t) : TargetToken(t)[n] = Word(t[n])
  BY TokenType DEF Local
<1>2. /\ DOMAIN text = 1..Len(text)
      /\ Len(text) = 2 + size + (IF apply THEN 1 ELSE 0)
      /\ text[1] # flag /\ text[2] # flag /\ text[3] # flag
      /\ \A n \in 1..size : text[2 + n] = TargetToken(t)[n]
      /\ apply => text[3 + size] = flag
  <2>1. /\ text \in Seq(Words)
        /\ Len(text) = 2 + size + (IF apply THEN 1 ELSE 0)
        /\ text[1] # flag /\ text[2] # flag
        /\ \A n \in 1..size : text[2 + n] = TargetToken(t)[n]
        /\ apply => text[3 + size] = flag
    BY ContentForm, WordsDiffer
  <2>2. text[3] # flag
    <3>1. text[3] = Word("local") \/ \E w \in STRING : text[3] = Ssh(w)
      BY ThirdWord
    <3>. HIDE DEF text
    <3>. QED  BY <3>1, WordsDiffer
  <2>. HIDE DEF text, size, flag
  <2>. QED  BY <2>1, <2>2
<1>3. HasFlag(text, "--apply") <=> \E n \in 1..Len(text) : text[n] = flag
  BY <1>2 DEF HasFlag
<1>4. Carries(t, "--apply") <=> \E n \in 2..Len(t) : t[n] = "--apply"
  BY DEF Carries
<1>5. \A n \in 2..Len(t) : Word(t[n]) = flag <=> t[n] = "--apply"
  BY WordsDiffer
<1>. HIDE DEF text, size, flag
<1>6. ASSUME NEW n \in 1..Len(text), text[n] = flag
      PROVE  apply \/ Carries(t, "--apply")
  <2>1. CASE n = 3 + size
    BY <1>1, <1>2, <2>1
  <2>2. CASE n # 3 + size
    <3>1. n \in 4..(2 + size)
      BY <1>1, <1>2, <1>6, <2>2
    <3>2. n - 2 \in 2..size /\ n - 2 \in 1..size /\ 2 + (n - 2) = n
      BY <1>1, <3>1
    <3>3. n - 2 \in 2..Len(t)
      BY <1>1, <3>2
    <3>4. Word(t[n - 2]) = flag
      BY <1>1, <1>2, <1>6, <3>2, <3>3
    <3>. QED  BY <1>4, <1>5, <3>3, <3>4
  <2>. QED  BY <2>1, <2>2
<1>7. ASSUME apply PROVE \E n \in 1..Len(text) : text[n] = flag
  <2>1. 3 + size \in 1..Len(text)
    BY <1>1, <1>2, <1>7
  <2>. QED  BY <1>2, <1>7, <2>1
<1>8. ASSUME Carries(t, "--apply") PROVE \E n \in 1..Len(text) : text[n] = flag
  <2>1. PICK n \in 2..Len(t) : t[n] = "--apply"
    BY <1>4, <1>8
  <2>2. n \in 1..size /\ 2 + n \in 1..Len(text)
    BY <1>1, <1>2, <2>1
  <2>3. text[2 + n] = flag
    BY <1>1, <1>2, <1>5, <2>1, <2>2
  <2>. QED  BY <2>2, <2>3
<1>9. HasFlag(text, "--apply") <=> apply \/ Carries(t, "--apply")
  BY <1>3, <1>6, <1>7, <1>8
<1>. QED  BY <1>9 DEF text

\* The daemon reads the first word of the target back.
LEMMA TargetForm ==
    ASSUME NEW t \in Target, NEW apply \in BOOLEAN
    PROVE  ParseTarget(Content(t, apply)) = IF t = Local THEN Local ELSE <<Head(t)>>
<1>. DEFINE text == Content(t, apply)
            at_n == {n \in DOMAIN text : Understood(text, n)}
<1>1. /\ Len(text) \in Nat /\ Len(text) >= 3 /\ DOMAIN text = 1..Len(text)
      /\ text[1] = Word("defend:drift") /\ text[2] = Word("--target")
  <2>1. t \in Seq(STRING)
    OBVIOUS
  <2>2. Len(TargetToken(t)) \in Nat /\ Len(TargetToken(t)) >= 1
    BY <2>1, TokenType
  <2>. QED  BY <2>2, ContentForm
<1>2. \/ t = Local /\ text[3] = Word("local")
      \/ t # Local /\ Head(t) \in STRING /\ text[3] = Ssh(Head(t))
  BY ThirdWord
<1>3. 2 \in at_n /\ \A k \in at_n : k \in Nat /\ 2 <= k
  <2>. HIDE DEF text
  <2>1. 1 \in DOMAIN text /\ 2 \in DOMAIN text /\ 2 + 1 \in DOMAIN text /\ 2 + 1 = 3
    BY <1>1
  <2>2. Understood(text, 2)
    BY <1>1, <1>2, <2>1, WordsDiffer DEF Understood
  <2>3. ~Understood(text, 1)
    BY <1>1, WordsDiffer DEF Understood
  <2>4. \A k \in DOMAIN text : k # 1 => k \in Nat /\ 2 <= k
    BY <1>1
  <2>. QED  BY <2>1, <2>2, <2>3, <2>4
<1>. HIDE DEF at_n
<1>4. (CHOOSE n \in at_n : \A k \in at_n : n <= k) = 2
  <2>1. \A n \in at_n : (\A k \in at_n : n <= k) => n = 2
    BY <1>3
  <2>. QED  BY <1>3, <2>1
<1>5. ParseTarget(text) = IF text[3] = Word("local") THEN Local ELSE <<text[3][2]>>
  <2>. DEFINE first == CHOOSE n \in at_n : \A k \in at_n : n <= k
  <2>1. 1 + first = 3
    <3>1. \A n : n = 2 => 1 + n = 3
      OBVIOUS
    <3>2. first = 2
      BY <1>4
    <3>. HIDE DEF first
    <3>. QED  BY <3>1, <3>2
  <2>2. ParseTarget(text) =
          IF at_n = {} THEN Local
          ELSE LET word == text[1 + CHOOSE n \in at_n : \A k \in at_n : n <= k]
               IN  IF word = Word("local") THEN Local ELSE <<word[2]>>
    BY DEF ParseTarget, at_n
  <2>. HIDE DEF text
  <2>. QED  BY <1>3, <2>1, <2>2
<1>. HIDE DEF text
<1>6. ParseTarget(text) = IF t = Local THEN Local ELSE <<Head(t)>>
  BY <1>2, <1>5, WordsDiffer
<1>. QED  BY <1>6 DEF text

\* What a command has written, the daemon reads back.
LEMMA ReadBack ==
    ASSUME NEW t \in Target, NEW r \in Cli, content[r] = Content(t, r \in given)
    PROVE  ActsOn(r, t)
<1>1. CASE r \in given
  <2>1. content[r] = Content(t, TRUE)
    BY <1>1 DEF Content
  <2>. QED  BY <1>1, <2>1, TargetForm, FlagForm DEF ActsOn
<1>2. CASE r \notin given
  <2>1. content[r] = Content(t, FALSE)
    BY <1>2 DEF Content
  <2>. QED  BY <1>2, <2>1, TargetForm, FlagForm DEF ActsOn
<1>. QED  BY <1>1, <1>2

\* An answered request stays answered.
LEMMA OkStays ==
    ASSUME TypeOK, [Next]_vars, NEW r \in Request, at[r] = "ok"
    PROVE  at'[r] = "ok"
<1>. USE DEF TypeOK, Stage, Answer, Refusal, Goto
<1>1. ASSUME NEW q \in Request, CheckRate(q) PROVE at'[r] = "ok"
  BY <1>1 DEF CheckRate
<1>2. ASSUME NEW q \in Request, HandlerStep(q) \/ Send(q) \/ HangUp(q) PROVE at'[r] = "ok"
  BY <1>2 DEF HandlerStep, Validate, SendFails, Publish, Send, HangUp
<1>3. at' = at => at'[r] = "ok"
  OBVIOUS
<1>. QED
  BY <1>1, <1>2, <1>3 DEF Next, vars, Take, CloseLoop, Tick, Subscribe, Receive

\* A command with the flag and one without it.
LEMMA TextType ==
    ASSUME NEW t \in Target, NEW r \in Cli
    PROVE  Content(t, r \in given) \in Text
<1>1. Content(t, TRUE) \in Text
  BY DEF Text
<1>2. Content(t, FALSE) \in Text
  BY DEF Text
<1>3. CASE r \in given
  <2>1. Content(t, r \in given) = Content(t, TRUE)
    BY <1>3 DEF Content
  <2>. QED  BY <1>1, <2>1
<1>4. CASE r \notin given
  <2>1. Content(t, r \in given) = Content(t, FALSE)
    BY <1>4 DEF Content
  <2>. QED  BY <1>2, <2>1
<1>. QED  BY <1>3, <1>4

\* The commands keep the types of their variables.
LEMMA CliType == CliTypeOK /\ [CommandNext]_commandVars => CliTypeOK'
<1>. SUFFICES ASSUME CliTypeOK, [CommandNext]_commandVars PROVE CliTypeOK'
  OBVIOUS
<1>. USE DEF CliTypeOK, Step
<1>1. ASSUME NEW r \in Cli, BeginCommand(r) PROVE CliTypeOK'
  BY <1>1 DEF BeginCommand
<1>2. ASSUME NEW r \in Cli, Resolve(r) PROVE CliTypeOK'
  <2>1. CASE registry \in Target /\ Step(r, "resolve", "post")
             /\ content' = [content EXCEPT ![r] = Content(registry, r \in given)]
    <3>1. Content(registry, r \in given) \in Text
      BY <2>1, TextType
    <3>. QED  BY <1>2, <2>1, <3>1 DEF Resolve
  <2>2. CASE Step(r, "resolve", "error") /\ UNCHANGED content
    BY <1>2, <2>2 DEF Resolve
  <2>. QED  BY <1>2, <2>1, <2>2 DEF Resolve
<1>3. ASSUME NEW r \in Cli, Unreachable(r) \/ Interrupt(r) \/ ReadAnswer(r) PROVE CliTypeOK'
  BY <1>3 DEF Unreachable, Interrupt, ReadAnswer
<1>4. ASSUME NEW t \in Target \cup {NoTarget}, Register(t) PROVE CliTypeOK'
  <2>1. had' \in [Cli -> SUBSET (Target \cup {NoTarget})]
    BY <1>4 DEF Register
  <2>. QED  BY <1>4, <2>1 DEF Register
<1>5. CASE Serve
  BY <1>5 DEF Serve, cliVars
<1>6. CASE UNCHANGED commandVars
  BY <1>6 DEF commandVars, cliVars
<1>. QED
  BY <1>1, <1>2, <1>3, <1>4, <1>5, <1>6 DEF CommandNext, AddTarget, RemoveTarget

\* Every step keeps what a command has found out and what it is answered for.
LEMMA CliStep ==
    TypeOK /\ CliTypeOK /\ CliInv /\ [CommandNext]_commandVars => CliInv'
<1>. SUFFICES ASSUME TypeOK, CliTypeOK, CliInv, [CommandNext]_commandVars,
                     NEW q \in Cli
              PROVE  /\ command'[q] = "resolve" => registry' \in had'[q]
                     /\ command'[q] \in {"post", "submitted"} \/ at'[q] # "new" =>
                           \E t \in Target : t \in had'[q] /\ content'[q] = Content(t, q \in given')
                     /\ at'[q] # "new" => command'[q] \in {"post", "submitted", "error"}
                     /\ command'[q] = "submitted" => at'[q] = "ok"
  BY DEF CliInv
<1>. DEFINE Goal == /\ command'[q] = "resolve" => registry' \in had'[q]
                    /\ command'[q] \in {"post", "submitted"} \/ at'[q] # "new" =>
                          \E t \in Target : t \in had'[q] /\ content'[q] = Content(t, q \in given')
                    /\ at'[q] # "new" => command'[q] \in {"post", "submitted", "error"}
                    /\ command'[q] = "submitted" => at'[q] = "ok"
<1>0. /\ command[q] = "resolve" => registry \in had[q]
      /\ command[q] \in {"post", "submitted"} \/ at[q] # "new" =>
            \E t \in Target : t \in had[q] /\ content[q] = Content(t, q \in given)
      /\ at[q] # "new" => command[q] \in {"post", "submitted", "error"}
      /\ command[q] = "submitted" => at[q] = "ok"
  BY DEF CliInv
<1>. USE DEF CliTypeOK, Step
<1>1. ASSUME NEW r \in Cli, BeginCommand(r) PROVE Goal
  <2>1. /\ at' = at /\ registry' = registry /\ content' = content
        /\ given' = given \/ given' = given \cup {r}
    BY <1>1 DEF BeginCommand, vars
  <2>2. CASE q = r
    BY <1>0, <1>1, <2>1, <2>2 DEF BeginCommand
  <2>3. CASE q # r
    BY <1>0, <1>1, <2>1, <2>3 DEF BeginCommand
  <2>. QED  BY <2>2, <2>3
<1>2. ASSUME NEW r \in Cli, Resolve(r) PROVE Goal
  <2>1. /\ at' = at /\ registry' = registry /\ had' = had /\ command[r] = "resolve"
        /\ given' = given
    BY <1>2 DEF Resolve, vars
  <2>2. CASE q = r
    <3>1. at'[q] = "new" /\ registry \in had[q]
      BY <1>0, <2>1, <2>2
    <3>2. \/ registry \in Target /\ command'[q] = "post" /\ content'[q] = Content(registry, q \in given)
          \/ command'[q] = "error"
      BY <1>2, <2>2 DEF Resolve
    <3>. QED  BY <2>1, <3>1, <3>2
  <2>3. CASE q # r
    <3>1. command'[q] = command[q] /\ content'[q] = content[q]
      BY <1>2, <2>3 DEF Resolve
    <3>. QED  BY <1>0, <2>1, <3>1
  <2>. QED  BY <2>2, <2>3
<1>3. ASSUME NEW r \in Cli, Unreachable(r) \/ Interrupt(r) \/ ReadAnswer(r) PROVE Goal
  <2>1. UNCHANGED <<at, registry, had, given, content>> /\ command[r] = "post"
    BY <1>3 DEF Unreachable, Interrupt, ReadAnswer, vars
  <2>2. CASE q = r
    <3>1. \/ command'[q] = "error"
          \/ command'[q] = "submitted" /\ at[q] = "ok"
      BY <1>3, <2>2 DEF Unreachable, Interrupt, ReadAnswer
    <3>. QED  BY <1>0, <2>1, <2>2, <3>1
  <2>3. CASE q # r
    <3>1. command'[q] = command[q]
      BY <1>3, <2>3 DEF Unreachable, Interrupt, ReadAnswer
    <3>. QED  BY <1>0, <2>1, <3>1
  <2>. QED  BY <2>2, <2>3
<1>4. ASSUME NEW u, Register(u) PROVE Goal
  <2>1. UNCHANGED <<at, command, given, content>> /\ registry' = u
    BY <1>4 DEF Register, vars
  <2>2. had'[q] = IF command[q] = "resolve" THEN had[q] \cup {u} ELSE had[q]
    BY <1>4 DEF Register
  <2>3. had[q] \subseteq had'[q] /\ (command[q] = "resolve" => u \in had'[q])
    BY <2>2
  <2>. QED  BY <1>0, <2>1, <2>3
<1>5. CASE Serve
  <2>1. UNCHANGED <<registry, command, given, content, had>> /\ [Next]_vars
    BY <1>5 DEF Serve, cliVars
  <2>2. at[q] = "new" /\ at'[q] # "new" => command[q] = "post"
    BY <1>5 DEF Serve, Posts
  <2>3. at[q] = "ok" => at'[q] = "ok"
    BY <2>1, OkStays
  <2>. QED  BY <1>0, <2>1, <2>2, <2>3
<1>6. CASE UNCHANGED commandVars
  BY <1>0, <1>6 DEF commandVars, cliVars, vars
<1>. QED
  BY <1>1, <1>2, <1>3, <1>4, <1>5, <1>6 DEF CommandNext, AddTarget, RemoveTarget

\* The invariants of the handler and of the commands, together.
LEMMA CliInvariant == CommandSpec => [](StreamInv /\ TypeOK /\ CliTypeOK /\ CliInv)
<1>1. Spec => [](StreamInv /\ TypeOK)
  BY StreamInit, StreamStep, IngestInitType, IngestType, PTL DEF Spec
<1>2. CliInit => CliTypeOK /\ CliInv
  BY DEF CliInit, Init, CliTypeOK, CliInv
<1>. QED
  BY <1>1, <1>2, CliType, CliStep, CommandsOnlyPost, PTL DEF CommandSpec

(***************************************************************************)
(* The commands, the registry and what they posted are well typed.         *)
(***************************************************************************)
THEOREM CommandTypeCorrect == CommandSpec => [](TypeOK /\ CliTypeOK)
<1>. QED  BY CliInvariant, PTL

(***************************************************************************)
(* A command that prints "submitted" is in the channel, and the daemon     *)
(* acts on the first word of a destination its name stood for while it was *)
(* looked up, with the flag exactly when the operator gave it or the       *)
(* destination has it among its later words: for any registry and any      *)
(* texts of destinations.                                                  *)
(***************************************************************************)
THEOREM SubmittedIsTrue == CommandSpec => []SubmissionsAreTrue
<1>1. ASSUME StreamInv, TypeOK, CliInv PROVE SubmissionsAreTrue
  <2>. SUFFICES ASSUME NEW r \in Cli
                PROVE  /\ command[r] = "submitted" => Entries(r) # {}
                       /\ Entries(r) # {} => \E t \in had[r] \ {NoTarget} : ActsOn(r, t)
    BY DEF SubmissionsAreTrue
  <2>1. /\ at[r] \in {"publish", "ok"} => Entries(r) # {}
        /\ Entries(r) # {} => at[r] \in {"publish", "ok"}
    BY <1>1 DEF StreamInv, FateInv
  <2>2. /\ command[r] = "submitted" => at[r] = "ok"
        /\ at[r] # "new" => \E t \in Target : t \in had[r] /\ content[r] = Content(t, r \in given)
    BY <1>1 DEF CliInv
  <2>3. ASSUME Entries(r) # {} PROVE \E t \in had[r] \ {NoTarget} : ActsOn(r, t)
    <3>1. PICK t \in Target : t \in had[r] /\ content[r] = Content(t, r \in given)
      BY <2>1, <2>2, <2>3
    <3>2. ActsOn(r, t) /\ t # NoTarget
      BY <3>1, ReadBack
    <3>. QED  BY <3>1, <3>2
  <2>. QED  BY <2>1, <2>2, <2>3
<1>. QED  BY <1>1, CliInvariant, PTL

=============================================================================
