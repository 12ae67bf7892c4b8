----------------------------- MODULE ClientLifetime -----------------------------
(***************************************************************************)
(* What the in-flight protocol of a service-client record promises, stated *)
(* without counters, mutexes or callbacks.  Each query issued holds the    *)
(* record in its reply closure until the query finishes; the application  *)
(* issues queries only until it destroys the client; the record is freed  *)
(* by whichever of the destroy and the last finish leaves no query open,  *)
(* and by nothing else.                                                    *)
(*                                                                         *)
(* ClientDataLegacy is shown to implement this specification in            *)
(* ClientDataLegacy and ClientDataLegacyProofs.                            *)
(***************************************************************************)
EXTENDS Naturals

CONSTANT Queries   \* the queries that can be issued

VARIABLES
  open,       \* the queries whose closure still holds the record
  destroyed,  \* the application has destroyed the client
  frees       \* how many times the record has been freed

vars == <<open, destroyed, frees>>

Init ==
  /\ open = {}
  /\ destroyed = FALSE
  /\ frees = 0

\* A live client issues query q.
Issue(q) ==
  /\ ~destroyed
  /\ q \notin open
  /\ open' = open \cup {q}
  /\ UNCHANGED <<destroyed, frees>>

\* Query q finishes; if the client is destroyed and q was the last open
\* query, the record is freed.
Finish(q) ==
  /\ q \in open
  /\ open' = open \ {q}
  /\ frees' = IF destroyed /\ open' = {} THEN frees + 1 ELSE frees
  /\ UNCHANGED destroyed

\* The application destroys the client; with no query open the record is
\* freed at once.
Destroy ==
  /\ ~destroyed
  /\ destroyed' = TRUE
  /\ frees' = IF open = {} THEN frees + 1 ELSE frees
  /\ UNCHANGED open

Next ==
  \/ \E q \in Queries : Issue(q) \/ Finish(q)
  \/ Destroy

Spec == Init /\ [][Next]_vars

=============================================================================
