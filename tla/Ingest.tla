------------------------------- MODULE Ingest -------------------------------
(***************************************************************************)
(* POST /ingest (src/channels/mod.rs): ingest_handler() with the           *)
(* fixed-window rate limiter in front of it, the bounded channel behind it *)
(* and the broadcast channel that feeds the SSE subscribers.  Requests are *)
(* handled concurrently by the threads of the runtime.  A client may hang  *)
(* up at any time, which drops the handler where it waits: send().await is *)
(* the only place.                                                         *)
(*                                                                         *)
(* What the agent loop does with an envelope is in AgentLoop.tla; here it  *)
(* takes them.  A request whose body is no JSON or too long is refused by  *)
(* the framework before the handler and is not a request here.             *)
(***************************************************************************)
EXTENDS Integers, Sequences, FiniteSets

CONSTANTS
    Request,     \* the requests that reach the handler
    Authentic,   \* those with the right token, or all when tokens are off
    Complete,    \* those with a "content" field
    Subscriber,  \* the clients of the event stream
    MaxRequests, \* RateLimiter::max_requests
    Window,      \* RateLimiter::window
    Capacity,    \* bound of the envelope channel
    EventBuffer, \* bound of the broadcast channel
    MaxTime      \* bound on the clock

ASSUME RequestAssumption == Authentic \subseteq Request /\ Complete \subseteq Request
ASSUME LimiterAssumption == MaxRequests \in Nat \ {0} /\ Window \in Nat \ {0}
ASSUME BufferAssumption  == Capacity \in Nat \ {0} /\ EventBuffer \in Nat \ {0}
ASSUME TimeAssumption    == MaxTime \in Nat

VARIABLES
    now,        \* the clock of the limiter, which never goes back
    start,      \* RateLimiter::window_start
    counter,    \* RateLimiter::count
    at,         \* where each request is, or how it was answered
    checkedAt,  \* when each request was checked, -1 before
    accepted,   \* the requests whose envelopes entered the channel, in order
    taken,      \* how many of them the agent loop has taken
    open,       \* does the receiving end of the channel exist?
    published,  \* the events that were broadcast, in order
    from,       \* what had been published when each subscriber came, -1 before
    cursor,     \* the position of its receiver
    seen,       \* the positions of the events it was given
    lagged      \* the subscribers that ever fell behind

limiter == <<now, start, counter>>
channel == <<accepted, taken, open>>
stream  == <<published, from, cursor, seen, lagged>>
vars    == <<limiter, at, checkedAt, channel, stream>>

Refusal == {"limited", "unauthorized", "incomplete", "closed"}
Answer  == Refusal \cup {"ok"}
Stage   == {"new", "admitted", "sending", "publish", "gone"} \cup Answer

TypeOK ==
    /\ now \in 0..MaxTime /\ start \in 0..now /\ counter \in Nat
    /\ at \in [Request -> Stage]
    /\ checkedAt \in [Request -> -1..MaxTime]
    /\ accepted \in Seq(Request) /\ taken \in 0..Len(accepted) /\ open \in BOOLEAN
    /\ published \in Seq(Request)
    /\ from \in [Subscriber -> Int] /\ cursor \in [Subscriber -> Nat]
    /\ seen \in [Subscriber -> Seq(Nat)]
    /\ lagged \subseteq Subscriber

Init ==
    /\ now = 0 /\ start = 0 /\ counter = 0
    /\ at = [r \in Request |-> "new"]
    /\ checkedAt = [r \in Request |-> -1]
    /\ accepted = <<>> /\ taken = 0 /\ open = TRUE
    /\ published = <<>>
    /\ from = [s \in Subscriber |-> -1]
    /\ cursor = [s \in Subscriber |-> 0]
    /\ seen = [s \in Subscriber |-> <<>>]
    /\ lagged = {}

-----------------------------------------------------------------------------
(* The handler. *)

Goto(r, a, b) ==
    /\ at[r] = a
    /\ at' = [at EXCEPT ![r] = b]

\* Mistake: a window starts over at its first refusal.
CheckRate_ResetsEarly(r) ==
    /\ checkedAt' = [checkedAt EXCEPT ![r] = now]
    /\ IF now - start >= Window \/ counter >= MaxRequests
       THEN start' = now /\ counter' = 1 /\ Goto(r, "new", "admitted")
       ELSE counter' = counter + 1 /\ Goto(r, "new", "admitted") /\ UNCHANGED start
    /\ UNCHANGED <<now, channel, stream>>

\* Mistake: refused requests push the window on.
CheckRate_Slides(r) ==
    /\ checkedAt' = [checkedAt EXCEPT ![r] = now]
    /\ IF now - start >= Window
       THEN start' = now /\ counter' = 1 /\ Goto(r, "new", "admitted")
       ELSE /\ counter' = counter + 1
            /\ start' = now
            /\ Goto(r, "new", IF counter < MaxRequests THEN "admitted" ELSE "limited")
    /\ UNCHANGED <<now, channel, stream>>

\* A request comes in: RateLimiter::check(), under the lock of window_start.
CheckRate(r) ==
    /\ checkedAt' = [checkedAt EXCEPT ![r] = now]
    /\ IF now - start >= Window
       THEN start' = now /\ counter' = 1 /\ Goto(r, "new", "admitted")
       ELSE /\ counter' = counter + 1
            /\ Goto(r, "new", IF counter < MaxRequests THEN "admitted" ELSE "limited")
            /\ UNCHANGED start
    /\ UNCHANGED <<now, channel, stream>>

\* check_ingest_auth(), then the "content" field.
Validate(r) ==
    /\ Goto(r, "admitted", IF r \notin Authentic THEN "unauthorized"
                           ELSE IF r \notin Complete THEN "incomplete" ELSE "sending")
    /\ UNCHANGED <<limiter, checkedAt, channel, stream>>

\* Mistake: one place of the channel is never used.
Send_OneShort(r) ==
    /\ open /\ Len(accepted) - taken + 1 < Capacity
    /\ Goto(r, "sending", "publish")
    /\ accepted' = Append(accepted, r)
    /\ UNCHANGED <<limiter, checkedAt, taken, open, stream>>

\* send().await goes on once the channel has room.
Send(r) ==
    /\ open /\ Len(accepted) - taken < Capacity
    /\ Goto(r, "sending", "publish")
    /\ accepted' = Append(accepted, r)
    /\ UNCHANGED <<limiter, checkedAt, taken, open, stream>>

\* ... or fails, when the agent loop has ended.
SendFails(r) ==
    /\ ~open
    /\ Goto(r, "sending", "closed")
    /\ UNCHANGED <<limiter, checkedAt, channel, stream>>

\* Mistake: the handler can be dropped between send() and the broadcast.
HangUp_AfterSend(r) ==
    /\ at[r] \in {"sending", "publish"}
    /\ at' = [at EXCEPT ![r] = "gone"]
    /\ UNCHANGED <<limiter, checkedAt, channel, stream>>

\* The client hangs up while send() waits.
HangUp(r) ==
    /\ Goto(r, "sending", "gone")
    /\ UNCHANGED <<limiter, checkedAt, channel, stream>>

\* The event is broadcast and the request answered.
Publish(r) ==
    /\ Goto(r, "publish", "ok")
    /\ published' = Append(published, r)
    /\ UNCHANGED <<limiter, checkedAt, channel, from, cursor, seen, lagged>>

-----------------------------------------------------------------------------
(* The other ends. *)

\* The agent loop takes an envelope.
Take ==
    /\ open /\ taken < Len(accepted)
    /\ taken' = taken + 1
    /\ UNCHANGED <<limiter, at, checkedAt, accepted, open, stream>>

\* The agent loop's task ends; main() is about to end the process.
CloseLoop ==
    /\ open
    /\ open' = FALSE
    /\ UNCHANGED <<limiter, at, checkedAt, accepted, taken, stream>>

\* GET /events/stream: events from now on.
Subscribe(s) ==
    /\ from[s] = -1
    /\ from' = [from EXCEPT ![s] = Len(published)]
    /\ cursor' = [cursor EXCEPT ![s] = Len(published)]
    /\ UNCHANGED <<limiter, at, checkedAt, channel, published, seen, lagged>>

\* Mistake: whoever fell behind goes on with the newest event only.
Receive_Newest(s) ==
    /\ from[s] # -1 /\ cursor[s] < Len(published)
    /\ IF cursor[s] + EventBuffer <= Len(published)
       THEN /\ cursor' = [cursor EXCEPT ![s] = Len(published)]
            /\ UNCHANGED <<seen, lagged>>
       ELSE /\ cursor' = [cursor EXCEPT ![s] = @ + 1]
            /\ seen' = [seen EXCEPT ![s] = Append(@, cursor[s] + 1)]
            /\ UNCHANGED lagged
    /\ UNCHANGED <<limiter, at, checkedAt, channel, published, from>>

\* recv(): the next event, or Lagged, which moves the receiver to the oldest
\* event the broadcast channel still holds.
Receive(s) ==
    /\ from[s] # -1 /\ cursor[s] < Len(published)
    /\ IF cursor[s] + EventBuffer < Len(published)
       THEN /\ cursor' = [cursor EXCEPT ![s] = Len(published) - EventBuffer]
            /\ lagged' = lagged \cup {s}
            /\ UNCHANGED seen
       ELSE /\ cursor' = [cursor EXCEPT ![s] = @ + 1]
            /\ seen' = [seen EXCEPT ![s] = Append(@, cursor[s] + 1)]
            /\ UNCHANGED lagged
    /\ UNCHANGED <<limiter, at, checkedAt, channel, published, from>>

Tick ==
    /\ now < MaxTime
    /\ now' = now + 1
    /\ UNCHANGED <<start, counter, at, checkedAt, channel, stream>>

HandlerStep(r) == Validate(r) \/ SendFails(r) \/ Publish(r)

Next ==
    \/ \E r \in Request : CheckRate(r) \/ HandlerStep(r) \/ Send(r) \/ HangUp(r)
    \/ Take \/ CloseLoop \/ Tick
    \/ \E s \in Subscriber : Subscribe(s) \/ Receive(s)

Spec == Init /\ [][Next]_vars

(***************************************************************************)
(* Handlers are polled when they are ready, the agent loop gets through    *)
(* its envelopes (SentIsSettled of AgentLoop.tla) and the channel serves *)
(* its waiting senders in order.  Nobody has to send a request.            *)
(***************************************************************************)
Fairness ==
    /\ \A r \in Request : WF_vars(HandlerStep(r)) /\ SF_vars(Send(r))
    /\ WF_vars(Take)

FairSpec == Spec /\ Fairness

-----------------------------------------------------------------------------
\* The requests the limiter has let through, and those it let through at t or later.
Admitted == {r \in Request : at[r] \notin {"new", "limited"}}
AdmittedSince(t) == {r \in Admitted : checkedAt[r] >= t}

(***************************************************************************)
(* A window admits at most max_requests, however many threads ask it.      *)
(***************************************************************************)
WindowQuota == Cardinality(AdmittedSince(start)) <= MaxRequests

(***************************************************************************)
(* A request is refused for its rate only when the full quota was used     *)
(* within one window before it.                                            *)
(***************************************************************************)
RefusedOnlyWhenFull ==
    \A r \in Request : at[r] = "limited" =>
        Cardinality({q \in Admitted : checkedAt[r] - Window < checkedAt[q]
                                      /\ checkedAt[q] <= checkedAt[r]}) >= MaxRequests

(***************************************************************************)
(* The answer tells whether the envelope is in the channel: exactly once   *)
(* after 200 OK; never after a refusal, or when the client hung up, so     *)
(* that it can ask again without being served twice.                       *)
(***************************************************************************)
Entries(r) == {n \in DOMAIN accepted : accepted[n] = r}

AnswerTellsFate ==
    \A r \in Request :
        Cardinality(Entries(r)) = IF at[r] \in {"publish", "ok"} THEN 1 ELSE 0

(***************************************************************************)
(* Each event is about an envelope that is in the channel.  A subscriber   *)
(* is given events in order, none twice, and misses one only by falling    *)
(* more than the buffer behind.                                            *)
(***************************************************************************)
StreamInOrder ==
    /\ \A n \in DOMAIN published : Entries(published[n]) # {}
    /\ \A s \in Subscriber :
          /\ \A j, k \in DOMAIN seen[s] : j < k => seen[s][j] < seen[s][k]
          /\ s \notin lagged /\ from[s] # -1 =>
                \A n \in (from[s] + 1)..cursor[s] : \E k \in DOMAIN seen[s] : seen[s][k] = n

(***************************************************************************)
(* Every admitted request is answered in the end, unless the client hangs  *)
(* up: a full channel delays it and no more.                               *)
(***************************************************************************)
RequestsAreAnswered ==
    \A r \in Request : at[r] = "admitted" ~> at[r] \in Answer \cup {"gone"}

=============================================================================
