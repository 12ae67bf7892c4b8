------------------------------ MODULE ReplyBuffer ------------------------------
(***************************************************************************)
(* What a service client's reply store promises its application, stated   *)
(* without threads, callbacks or counters: replies come in one at a time,  *)
(* each at most once; they are kept in arrival order; under KEEP_LAST only *)
(* the newest Depth are kept, the oldest being evicted; the application    *)
(* takes them from the front, and only until the store is closed.          *)
(*                                                                         *)
(* ClientData (with its two-step reply handler, wait set and teardown) is *)
(* shown to implement this specification in ClientData and                *)
(* ClientDataProofs.                                                       *)
(***************************************************************************)
EXTENDS Naturals, Sequences

CONSTANTS
  Replies,   \* the replies that can arrive
  Depth      \* the KEEP_LAST depth

KEEP_LAST == "KEEP_LAST"
KEEP_ALL == "KEEP_ALL"

VARIABLES
  history,   \* the history policy, fixed when the store is made
  queue,     \* the replies held, oldest first
  closed,    \* the store no longer hands replies out
  arrived,   \* every reply put, in the order it arrived
  taken      \* every reply handed out, in the order it was taken

vars == <<history, queue, closed, arrived, taken>>

\* The replies that have already arrived.
Arrived == {arrived[i] : i \in 1..Len(arrived)}

Init ==
  /\ history \in {KEEP_LAST, KEEP_ALL}
  /\ queue = <<>>
  /\ closed = FALSE
  /\ arrived = <<>>
  /\ taken = <<>>

\* A reply that has not arrived before is stored; a full KEEP_LAST store
\* first evicts its oldest reply.
Put(r) ==
  /\ r \notin Arrived
  /\ queue' = Append(IF history = KEEP_LAST /\ Len(queue) >= Depth
                       THEN Tail(queue) ELSE queue, r)
  /\ arrived' = Append(arrived, r)
  /\ UNCHANGED <<history, closed, taken>>

\* The application takes the oldest reply of an open store.
Take ==
  /\ ~closed
  /\ queue # <<>>
  /\ queue' = Tail(queue)
  /\ taken' = Append(taken, Head(queue))
  /\ UNCHANGED <<history, closed, arrived>>

\* The store is closed for good.
Close ==
  /\ closed' = TRUE
  /\ UNCHANGED <<history, queue, arrived, taken>>

Next ==
  \/ \E r \in Replies : Put(r)
  \/ Take
  \/ Close

Spec == Init /\ [][Next]_vars

=============================================================================
