----------------------------- MODULE HashChain -----------------------------
(***************************************************************************)
(* What the Evidence Locker promises: an append-only chain of events in    *)
(* which every event names the one appended just before it, as long as the *)
(* chain is intact.  There is no database here, no lock and no process:    *)
(* only the links, the tip and the condition.                              *)
(*                                                                         *)
(* What ends the condition is for the implementation to say, once: the     *)
(* promise is kept up to the very step that ends it, never comes back, and *)
(* leaves a chain that still only grows by one fresh event at a time, each *)
(* of which names an event that is there.                                  *)
(***************************************************************************)
CONSTANTS Event,    \* the events that may ever be appended
          NoHash    \* the prev_hash of the first event (None in the code)

VARIABLES links,    \* the appended events, each with the event it names
          tip,      \* the event appended last, NoHash while there is none
          intact    \* has nothing happened that ends the promise?

chainVars == <<links, tip, intact>>

Appended == {l.id : l \in links}

ChainInit ==
    /\ links = {}
    /\ tip = NoHash
    /\ intact = TRUE

Add(e, named) ==
    /\ e \notin Appended
    /\ links' = links \cup {[id |-> e, prev |-> named]}

\* Append a fresh event that names the current tip.
Extend(e) ==
    /\ intact
    /\ Add(e, tip)
    /\ tip' = e
    /\ UNCHANGED intact

\* A fresh event that does not wait for its turn: it names any earlier event,
\* and need not become the tip.
Stray(e) ==
    /\ \E named \in Appended \cup {NoHash} : Add(e, named)
    /\ tip' \in {tip, e}
    /\ intact' = FALSE

\* The implementation can no longer keep the promise.
Release ==
    /\ intact' = FALSE
    /\ UNCHANGED <<links, tip>>

ChainNext == Release \/ \E e \in Event : Extend(e) \/ Stray(e)

ChainSpec == ChainInit /\ [][ChainNext]_chainVars

=============================================================================
