------------------------------ MODULE ClientData ------------------------------
(***************************************************************************)
(* The request/response correlation store of one service client:          *)
(* rmw_zenoh_cpp::ClientData (src/.../detail/rmw_client_data.cpp).          *)
(*                                                                         *)
(* Three kinds of actor share one ClientData, every method of which runs   *)
(* under the object's one recursive mutex_:                                 *)
(*   - the application thread: send_request, take_response, shutdown and  *)
(*     the wait-set calls of rmw_wait;                                     *)
(*   - the transport's worker threads: client_data_handler once per reply  *)
(*     of a query and client_data_drop once when the query is finished;   *)
(*   - the owner of the object (the node's client map, outside src/),      *)
(*     which frees it when it is told that nothing is in flight.          *)
(* client_data_handler takes the mutex twice (is_shutdown(), then          *)
(* add_new_reply()), so it is two steps here.                              *)
(*                                                                         *)
(* Data is abstracted: a reply is the pair <<query, index of the reply    *)
(* within the query>>; payloads, attachments and timestamps are left out   *)
(* because no property depends on their contents.                          *)
(***************************************************************************)
EXTENDS Naturals, Sequences, FiniteSets

CONSTANTS
  MaxRequests,    \* bound on the send_request calls that issue a query
  MaxReplies,     \* bound on the replies the transport delivers per query
  Depth,          \* adapted QoS depth of the client
  InFlightBits,   \* width in bits of num_in_flight_ (a size_t)
  NodeDataFound   \* whether decrement_in_flight_and_conditionally_remove
                  \* finds the node data through rmw_node_->data

ASSUME MaxRequestsAssumption == MaxRequests \in Nat \ {0}
ASSUME MaxRepliesAssumption == MaxReplies \in Nat
ASSUME DepthAssumption == Depth \in Nat \ {0}
ASSUME InFlightBitsAssumption == InFlightBits \in Nat \ {0}
ASSUME NodeDataFoundAssumption == NodeDataFound \in BOOLEAN

Requests == 1..MaxRequests
Replies == [q : Requests, n : 1..MaxReplies]
KEEP_LAST == "KEEP_LAST"
KEEP_ALL == "KEEP_ALL"
SizeModulus == 2 ^ InFlightBits

VARIABLES
  history,           \* adapted_qos_profile.history, fixed by make()
  sequence_number,   \* sequence_number_: the next request's sequence number
  is_shutdown,       \* is_shutdown_
  num_in_flight,     \* num_in_flight_
  reply_queue,       \* reply_queue_ (a deque of replies)
  wait_set_attached, \* wait_set_data_ # nullptr
  triggered,         \* wait_set_data_->triggered, the waiter's flag
  waiter,            \* rmw_wait on this client: "idle" or "blocked"
  destroying,        \* the application has destroyed its rmw_client_t
  freed,             \* the owner has deleted the ClientData
  phase,             \* per query: "unsent", "open" or "dropped"
  delivered,         \* per query: replies the transport has delivered
  handler,           \* per query: "idle" or "checked" (between the two
                     \* critical sections of client_data_handler)
  arrived,           \* history: every reply add_new_reply buffered, in order
  taken              \* history: every reply take_response popped, in order

transport == <<phase, delivered, handler>>
app == <<waiter, destroying, freed>>
vars == <<history, sequence_number, is_shutdown, num_in_flight, reply_queue,
          wait_set_attached, triggered, app, transport, arrived, taken>>

-----------------------------------------------------------------------------
(* Helpers translated from the source.                                     *)

\* Mutant: num_in_flight_ as a signed counter that goes below zero.
DecrementSigned(n) == n - 1

\* Mutant: a decrement that stops at zero instead of wrapping.
DecrementSaturating(n) == IF n = 0 THEN 0 ELSE n - 1

\* --num_in_flight_ on a size_t: wraps below zero.
Decrement(n) == (n + SizeModulus - 1) % SizeModulus

\* ClientData::_shutdown: undeclaring the liveliness token may fail, in
\* which case is_shutdown_ stays FALSE; a second call is a no-op.
_shutdown(undeclare_ok) ==
  is_shutdown' = (is_shutdown \/ undeclare_ok)

\* Mutant: the depth check of add_new_reply off by one (> for >=).
QueueFullOffByOne == history # KEEP_ALL /\ Len(reply_queue) > Depth

\* The queue is full for add_new_reply.
QueueFull == history # KEEP_ALL /\ Len(reply_queue) >= Depth

-----------------------------------------------------------------------------
Init ==
  /\ history \in {KEEP_LAST, KEEP_ALL}
  /\ sequence_number = 1
  /\ is_shutdown = FALSE
  /\ num_in_flight = 0
  /\ reply_queue = <<>>
  /\ wait_set_attached = FALSE
  /\ triggered = FALSE
  /\ waiter = "idle"
  /\ destroying = FALSE
  /\ freed = FALSE
  /\ phase = [q \in Requests |-> "unsent"]
  /\ delivered = [q \in Requests |-> 0]
  /\ handler = [q \in Requests |-> "idle"]
  /\ arrived = <<>>
  /\ taken = <<>>

\* The application may call into the client until it destroys it, and only
\* while the owner still holds the object.
AppMayCall == ~destroying /\ ~freed /\ waiter = "idle"

(***************************************************************************)
(* send_request: if not shut down, takes sequence_number_++ and issues a  *)
(* z_get whose reply closure carries `this`.  Nothing increments           *)
(* num_in_flight_.  The early returns (shutdown, missing context, failed  *)
(* allocation or serialization) change no state; a failed z_get drops the  *)
(* closure, which is a query that ends with no reply.                      *)
(***************************************************************************)
send_request ==
  /\ AppMayCall
  /\ ~is_shutdown
  /\ sequence_number <= MaxRequests
  /\ phase' = [phase EXCEPT ![sequence_number] = "open"]
  /\ sequence_number' = sequence_number + 1
  /\ UNCHANGED <<history, is_shutdown, num_in_flight, reply_queue,
                 wait_set_attached, triggered, app, delivered, handler,
                 arrived, taken>>

(***************************************************************************)
(* client_data_handler, first critical section: is_shutdown() under the   *)
(* mutex; if shut down, or if the reply is an error (z_reply_is_ok false), *)
(* the reply is dropped; otherwise the handler goes on to add_new_reply.   *)
(***************************************************************************)
client_data_handler(q) ==
  /\ ~freed
  /\ phase[q] = "open"
  /\ handler[q] = "idle"
  /\ delivered[q] < MaxReplies
  /\ \/ /\ delivered' = [delivered EXCEPT ![q] = @ + 1]  \* shut down, or
        /\ UNCHANGED handler                            \* an error reply
     \/ /\ ~is_shutdown                                 \* an ok reply
        /\ handler' = [handler EXCEPT ![q] = "checked"]
        /\ UNCHANGED delivered
  /\ UNCHANGED <<history, sequence_number, is_shutdown, num_in_flight,
                 reply_queue, wait_set_attached, triggered, app, phase,
                 arrived, taken>>

\* Mutant: add_new_reply that forgets to trigger the attached wait set.
add_new_reply_no_trigger(q) ==
  LET r == [q |-> q, n |-> delivered[q] + 1]
  IN /\ ~freed
     /\ handler[q] = "checked"
     /\ reply_queue' = Append(IF QueueFull THEN Tail(reply_queue)
                                          ELSE reply_queue, r)
     /\ UNCHANGED triggered
     /\ arrived' = Append(arrived, r)
     /\ delivered' = [delivered EXCEPT ![q] = @ + 1]
     /\ handler' = [handler EXCEPT ![q] = "idle"]
     /\ UNCHANGED <<history, sequence_number, is_shutdown, num_in_flight,
                    wait_set_attached, app, phase, taken>>

(***************************************************************************)
(* add_new_reply, second critical section of the handler: drop the oldest *)
(* reply if the KEEP_LAST queue is at its depth, append, and trigger the   *)
(* attached wait set.                                                      *)
(***************************************************************************)
add_new_reply(q) ==
  LET r == [q |-> q, n |-> delivered[q] + 1]
  IN /\ ~freed
     /\ handler[q] = "checked"
     /\ reply_queue' = Append(IF QueueFull THEN Tail(reply_queue)
                                          ELSE reply_queue, r)
     /\ triggered' = (triggered \/ wait_set_attached)
     /\ arrived' = Append(arrived, r)
     /\ delivered' = [delivered EXCEPT ![q] = @ + 1]
     /\ handler' = [handler EXCEPT ![q] = "idle"]
     /\ UNCHANGED <<history, sequence_number, is_shutdown, num_in_flight,
                    wait_set_attached, app, phase, taken>>

(***************************************************************************)
(* client_data_drop -> decrement_in_flight_and_conditionally_remove: the  *)
(* transport finished the query.  --num_in_flight_; if shut down and the  *)
(* count is now zero, the node data is asked to delete this client, which *)
(* frees it (unless the node data is not found: then it returns).          *)
(***************************************************************************)
client_data_drop(q) ==
  LET n == Decrement(num_in_flight)
  IN /\ ~freed
     /\ phase[q] = "open"
     /\ handler[q] = "idle"
     /\ phase' = [phase EXCEPT ![q] = "dropped"]
     /\ num_in_flight' = n
     /\ freed' = (is_shutdown /\ n = 0 /\ NodeDataFound)
     /\ UNCHANGED <<history, sequence_number, is_shutdown, reply_queue,
                    wait_set_attached, triggered, waiter, destroying,
                    delivered, handler, arrived, taken>>

\* Mutant: take_response that reads the front reply without popping it.
take_response_no_pop ==
  /\ AppMayCall
  /\ ~is_shutdown
  /\ reply_queue # <<>>
  /\ UNCHANGED reply_queue
  /\ taken' = Append(taken, Head(reply_queue))
  /\ UNCHANGED <<history, sequence_number, is_shutdown, num_in_flight,
                 wait_set_attached, triggered, app, transport, arrived>>

\* Mutant: take_response that forgets the is_shutdown_ check.
take_response_after_shutdown ==
  /\ AppMayCall
  /\ reply_queue # <<>>
  /\ reply_queue' = Tail(reply_queue)
  /\ taken' = Append(taken, Head(reply_queue))
  /\ UNCHANGED <<history, sequence_number, is_shutdown, num_in_flight,
                 wait_set_attached, triggered, app, transport, arrived>>

(***************************************************************************)
(* take_response: unless shut down or empty, pop the front reply.  A      *)
(* failed deserialization or a negative attachment field returns an error  *)
(* after the pop, so the reply is consumed in every outcome.               *)
(***************************************************************************)
take_response ==
  /\ AppMayCall
  /\ ~is_shutdown
  /\ reply_queue # <<>>
  /\ reply_queue' = Tail(reply_queue)
  /\ taken' = Append(taken, Head(reply_queue))
  /\ UNCHANGED <<history, sequence_number, is_shutdown, num_in_flight,
                 wait_set_attached, triggered, app, transport, arrived>>

(***************************************************************************)
(* rmw_wait (outside src/) calls queue_has_data_and_attach_condition_if_not *)
(* and blocks if it returned false; it wakes when triggered or on timeout *)
(* and calls detach_condition_and_queue_is_empty, clearing triggered.      *)
(***************************************************************************)
queue_has_data_and_attach_condition_if_not ==
  /\ AppMayCall
  /\ reply_queue = <<>>
  /\ wait_set_attached' = TRUE
  /\ waiter' = "blocked"
  /\ UNCHANGED <<history, sequence_number, is_shutdown, num_in_flight,
                 reply_queue, triggered, destroying, freed, transport,
                 arrived, taken>>

detach_condition_and_queue_is_empty ==
  /\ ~freed
  /\ waiter = "blocked"
  /\ wait_set_attached' = FALSE
  /\ triggered' = FALSE
  /\ waiter' = "idle"
  /\ UNCHANGED <<history, sequence_number, is_shutdown, num_in_flight,
                 reply_queue, destroying, freed, transport, arrived, taken>>

\* ClientData::shutdown, as called when the node or the context shuts down.
shutdown ==
  /\ AppMayCall
  /\ \E ok \in BOOLEAN : _shutdown(ok)
  /\ UNCHANGED <<history, sequence_number, num_in_flight, reply_queue,
                 wait_set_attached, triggered, app, transport, arrived, taken>>

(***************************************************************************)
(* Destroying the client (rmw_destroy_client, outside src/):              *)
(* shutdown_and_query_in_flight(); if it reports nothing in flight the     *)
(* owner erases the client at once, otherwise the last drop will.          *)
(***************************************************************************)
shutdown_and_query_in_flight ==
  /\ AppMayCall
  /\ \E ok \in BOOLEAN : _shutdown(ok)
  /\ destroying' = TRUE
  /\ freed' = ~(num_in_flight > 0)
  /\ UNCHANGED <<history, sequence_number, num_in_flight, reply_queue,
                 wait_set_attached, triggered, waiter, transport, arrived,
                 taken>>

Next ==
  \/ send_request
  \/ \E q \in Requests : client_data_handler(q)
  \/ \E q \in Requests : add_new_reply(q)
  \/ \E q \in Requests : client_data_drop(q)
  \/ take_response
  \/ queue_has_data_and_attach_condition_if_not
  \/ detach_condition_and_queue_is_empty
  \/ shutdown
  \/ shutdown_and_query_in_flight

Spec == Init /\ [][Next]_vars

(***************************************************************************)
(* Fairness of the transport, not of the application: a handler that has *)
(* passed its is_shutdown() check runs on to add_new_reply, and zenoh      *)
(* calls a query's drop closure once the query is over (z_get's closure   *)
(* is always dropped).  Replies, and every application call, may never    *)
(* happen.                                                                 *)
(***************************************************************************)
Fairness ==
  \A q \in Requests : WF_vars(add_new_reply(q)) /\ WF_vars(client_data_drop(q))

FairSpec == Spec /\ Fairness

-----------------------------------------------------------------------------
(* Properties.                                                              *)

TypeOK ==
  /\ history \in {KEEP_LAST, KEEP_ALL}
  /\ sequence_number \in 1..(MaxRequests + 1)
  /\ is_shutdown \in BOOLEAN
  /\ num_in_flight \in 0..(SizeModulus - 1)
  /\ reply_queue \in Seq(Replies)
  /\ wait_set_attached \in BOOLEAN
  /\ triggered \in BOOLEAN
  /\ waiter \in {"idle", "blocked"}
  /\ destroying \in BOOLEAN
  /\ freed \in BOOLEAN
  /\ phase \in [Requests -> {"unsent", "open", "dropped"}]
  /\ delivered \in [Requests -> 0..MaxReplies]
  /\ handler \in [Requests -> {"idle", "checked"}]
  /\ arrived \in Seq(Replies)
  /\ taken \in Seq(Replies)

(***************************************************************************)
(* What num_in_flight_ counts.  send_request never increments it and each *)
(* client_data_drop decrements it as a w-bit size_t, so it plus the       *)
(* number of finished queries is always a multiple of 2^w: it is zero     *)
(* only when that number is, which is why shutdown_and_query_in_flight    *)
(* reports nothing in flight while queries are open (clientdata_teardown) *)
(* and why no later drop finds it back at zero (clientdata_leak).         *)
(***************************************************************************)
InFlightCountsDrops ==
  (num_in_flight + Cardinality({q \in Requests : phase[q] = "dropped"}))
    % SizeModulus = 0

(***************************************************************************)
(* add_new_reply's drop-oldest policy and take_response's pop: the reply  *)
(* queue always holds the newest replies the handlers buffered, in the    *)
(* order they were buffered, and never more than the QoS depth under      *)
(* KEEP_LAST.                                                              *)
(***************************************************************************)
QueueHoldsNewestReplies ==
  /\ Len(reply_queue) <= Len(arrived)
  /\ \A i \in 1..Len(reply_queue) :
       reply_queue[i] = arrived[Len(arrived) - Len(reply_queue) + i]
  /\ history = KEEP_LAST => Len(reply_queue) <= Depth

(***************************************************************************)
(* take_response hands replies out in the order the transport's handlers  *)
(* buffered them, never twice, and under KEEP_ALL loses none: what was    *)
(* taken followed by what is still queued is a subsequence of the arrival *)
(* order, and is all of it when nothing is evicted.                        *)
(***************************************************************************)
ArrivalIndex(r) == CHOOSE i \in 1..Len(arrived) : arrived[i] = r

TakenInArrivalOrder ==
  LET out == taken \o reply_queue
  IN /\ \A i \in 1..Len(out) : \E j \in 1..Len(arrived) : arrived[j] = out[i]
     /\ \A i, j \in 1..Len(out) :
          i < j => ArrivalIndex(out[i]) < ArrivalIndex(out[j])
     /\ history = KEEP_ALL => out = arrived

(***************************************************************************)
(* No lost wake-up between add_new_reply and rmw_wait: a waiter that is   *)
(* blocked on this client while replies are buffered has been triggered.   *)
(***************************************************************************)
NoLostWakeup ==
  (waiter = "blocked" /\ reply_queue # <<>>) => triggered

(***************************************************************************)
(* Teardown safety: the ClientData is freed only when no query holding    *)
(* `this` in its reply closure is still open, since the transport calls   *)
(* client_data_handler and client_data_drop on it until the query ends.    *)
(***************************************************************************)
NoCallbackAfterFree ==
  freed => \A q \in Requests : phase[q] # "open"

(***************************************************************************)
(* ClientData implements the reply store it promises (ReplyBuffer):       *)
(* add_new_reply is a Put of a reply that never arrived before, a         *)
(* take_response a Take from a store that is not shut down, a successful   *)
(* _shutdown the Close, and every other step (the handler's first        *)
(* critical section, the wait-set calls, the drops, the counter) leaves   *)
(* the store as it was.                                                    *)
(***************************************************************************)
RB == INSTANCE ReplyBuffer WITH queue <- reply_queue, closed <- is_shutdown

ImplementsReplyBuffer == RB!Spec

(***************************************************************************)
(* No leak on teardown: once the application has destroyed the client     *)
(* (shutdown_and_query_in_flight), the ClientData is eventually deleted,  *)
(* either at once or by decrement_in_flight_and_conditionally_remove when *)
(* the last query is dropped.                                              *)
(***************************************************************************)
EventuallyFreed == destroying ~> freed

=============================================================================
