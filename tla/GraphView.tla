------------------------------- MODULE GraphView -------------------------------
(***************************************************************************)
(* What the context's graph cache promises, without transport threads,    *)
(* guard conditions or the Data's release.  The cache is seeded from a    *)
(* snapshot of the tokens alive when the bootstrap query ran; once the    *)
(* subscriber listens, every network change joins a FIFO of pending       *)
(* samples, and the cache applies them one at a time in that order,      *)
(* unless the context is stopped, when a sample is consumed and ignored. *)
(* Stopping ends the listening and discards the pending samples except a  *)
(* prefix (those a thread has already taken).                             *)
(*                                                                         *)
(* GraphContext implements this specification (GraphContext's             *)
(* ImplementsGraphView, proved in GraphContextProofs).                     *)
(***************************************************************************)
EXTENDS Naturals, Sequences

CONSTANT Tokens

VARIABLES
  alive,      \* tokens declared on the network
  snapshot,   \* tokens of the bootstrap answer not yet seeded
  stage,      \* "querying", "constructed", "subscribed", "failed"
  cache,      \* the tokens the graph cache knows
  pending,    \* samples sent to the listener and not yet applied
  listening,  \* the liveliness subscriber is declared
  stopped     \* the context is shut down

vars == <<alive, snapshot, stage, cache, pending, listening, stopped>>

Sample(t) == [kind |-> IF t \in alive THEN "del" ELSE "put", token |-> t]

Init ==
  /\ alive \in SUBSET Tokens
  /\ snapshot = alive
  /\ stage = "querying"
  /\ cache = {}
  /\ pending = <<>>
  /\ listening = FALSE
  /\ stopped = FALSE

\* The bootstrap answer seeds token t.
Seed(t) ==
  /\ stage = "querying"
  /\ t \in snapshot
  /\ snapshot' = snapshot \ {t}
  /\ cache' = cache \cup {t}
  /\ UNCHANGED <<alive, stage, pending, listening, stopped>>

\* The bootstrap answer is exhausted.
Seeded ==
  /\ stage = "querying"
  /\ snapshot = {}
  /\ stage' = "constructed"
  /\ UNCHANGED <<alive, snapshot, cache, pending, listening, stopped>>

\* The subscriber is declared, or its declaration fails.
Listen ==
  /\ stage = "constructed"
  /\ \/ stage' = "subscribed" /\ listening' = TRUE
     \/ stage' = "failed" /\ UNCHANGED listening
  /\ UNCHANGED <<alive, snapshot, cache, pending, stopped>>

\* Token t is declared or undeclared; a listener is sent the change.
Change(t) ==
  /\ alive' = IF t \in alive THEN alive \ {t} ELSE alive \cup {t}
  /\ pending' = IF listening THEN Append(pending, Sample(t)) ELSE pending
  /\ UNCHANGED <<snapshot, stage, cache, listening, stopped>>

\* The oldest pending sample is consumed: applied unless stopped.
Apply ==
  /\ pending # <<>>
  /\ pending' = Tail(pending)
  /\ cache' = IF stopped THEN cache
              ELSE IF Head(pending).kind = "put" THEN cache \cup {Head(pending).token}
              ELSE cache \ {Head(pending).token}
  /\ UNCHANGED <<alive, snapshot, stage, listening, stopped>>

\* The listener is stopped; the pending samples but a prefix are dropped;
\* the shutdown may fail and leave the context not stopped.
Stop ==
  /\ stage \in {"subscribed", "failed"}
  /\ ~stopped
  /\ listening' = FALSE
  /\ \E k \in 0..Len(pending) : pending' = SubSeq(pending, 1, k)
  /\ stopped' \in BOOLEAN
  /\ UNCHANGED <<alive, snapshot, stage, cache>>

Next ==
  \/ \E t \in Tokens : Seed(t) \/ Change(t)
  \/ Seeded
  \/ Listen
  \/ Apply
  \/ Stop

Spec == Init /\ [][Next]_vars

=============================================================================
