--------------------------- MODULE ClientDataLegacy ---------------------------
(***************************************************************************)
(* The older service-client record rmw_zenoh_cpp::rmw_client_data_t        *)
(* (src/.../detail/rmw_data_types.cpp).  Unlike ClientData it guards its   *)
(* state with three mutexes:                                                *)
(*   reply_queue_mutex_  add_new_reply, pop_next_reply;                     *)
(*   condition_mutex_    notify, queue_has_data_and_attach_condition_if_not, *)
(*                       detach_condition_and_queue_is_empty;               *)
(*   in_flight_mutex_    the in-flight count and is_shutdown_.              *)
(* add_new_reply appends under reply_queue_mutex_ and then, still holding  *)
(* it, takes condition_mutex_ in notify(): two steps here.  The wait-set   *)
(* calls read reply_queue_ under condition_mutex_ only, so a read that     *)
(* overlaps an append is a data race whose result is either answer.        *)
(*                                                                         *)
(* The caller (rmw_send_request / rmw_destroy_client, outside src/)        *)
(* increments the in-flight count before each z_get and, on destroy,      *)
(* frees the record itself when shutdown_and_query_in_flight() reports     *)
(* nothing in flight; otherwise the last client_data_drop frees it.        *)
(***************************************************************************)
EXTENDS Naturals, Sequences

CONSTANTS
  MaxRequests,    \* bound on the requests sent
  MaxReplies,     \* bound on the replies the transport delivers per query
  Depth           \* adapted QoS depth of the client

ASSUME LegacyMaxRequestsAssumption == MaxRequests \in Nat \ {0}
ASSUME LegacyMaxRepliesAssumption == MaxReplies \in Nat
ASSUME LegacyDepthAssumption == Depth \in Nat \ {0}

Requests == 1..MaxRequests
Replies == [q : Requests, n : 1..MaxReplies]
KEEP_LAST == "KEEP_LAST"
KEEP_ALL == "KEEP_ALL"

\* Where client_data_handler is in a reply: after is_shutdown(), after the
\* first or the second append of add_new_reply, between the two calls.
HandlerStates == {"idle", "checked", "pushed", "first_added", "repushed"}

VARIABLES
  history,           \* adapted_qos_profile.history
  sequence_number,   \* sequence_number_
  is_shutdown,       \* is_shutdown_
  num_in_flight,     \* num_in_flight_
  reply_queue,       \* reply_queue_
  wait_set_attached, \* wait_set_data_ # nullptr
  triggered,         \* wait_set_data_->triggered
  waiter,            \* rmw_wait on this client: "idle" or "blocked"
  destroying,        \* rmw_destroy_client has run
  frees,             \* how many times the record has been destroyed and freed
  phase,             \* per query: "unsent", "open" or "dropped"
  delivered,         \* per query: replies the transport has delivered
  handler,           \* per query: a member of HandlerStates
  arrived            \* history: every reply appended to reply_queue_

transport == <<phase, delivered, handler>>
vars == <<history, sequence_number, is_shutdown, num_in_flight, reply_queue,
          wait_set_attached, triggered, waiter, destroying, frees, transport,
          arrived>>

-----------------------------------------------------------------------------
\* The queue is full for add_new_reply.
QueueFull == history # KEEP_ALL /\ Len(reply_queue) >= Depth

\* get_next_sequence_number: sequence_number_++ under its own mutex.
get_next_sequence_number == sequence_number' = sequence_number + 1

\* Mutant: the caller forgets increment_in_flight_callbacks.
increment_in_flight_callbacks_missing == num_in_flight' = num_in_flight

\* increment_in_flight_callbacks: num_in_flight_++ under in_flight_mutex_.
increment_in_flight_callbacks == num_in_flight' = num_in_flight + 1

\* The client is alive and its application thread is not inside rmw_wait.
AppMayCall == ~destroying /\ frees = 0 /\ waiter = "idle"

\* A handler is between its append and its notify, holding
\* reply_queue_mutex_ but not condition_mutex_: a concurrent read of
\* reply_queue_ under condition_mutex_ alone races with it.
AppendInProgress == \E q \in Requests : handler[q] \in {"pushed", "repushed"}

Init ==
  /\ history \in {KEEP_LAST, KEEP_ALL}
  /\ sequence_number = 1
  /\ is_shutdown = FALSE
  /\ num_in_flight = 0
  /\ reply_queue = <<>>
  /\ wait_set_attached = FALSE
  /\ triggered = FALSE
  /\ waiter = "idle"
  /\ destroying = FALSE
  /\ frees = 0
  /\ phase = [q \in Requests |-> "unsent"]
  /\ delivered = [q \in Requests |-> 0]
  /\ handler = [q \in Requests |-> "idle"]
  /\ arrived = <<>>

(***************************************************************************)
(* rmw_send_request (outside src/): take the next sequence number, count  *)
(* the query in flight, then z_get with client_data_handler and            *)
(* client_data_drop as the reply closure.                                  *)
(***************************************************************************)
send_request ==
  /\ AppMayCall
  /\ sequence_number <= MaxRequests
  /\ get_next_sequence_number
  /\ increment_in_flight_callbacks
  /\ phase' = [phase EXCEPT ![sequence_number] = "open"]
  /\ UNCHANGED <<history, is_shutdown, reply_queue, wait_set_attached,
                 triggered, waiter, destroying, frees, delivered, handler,
                 arrived>>

(***************************************************************************)
(* client_data_handler: is_shutdown() under in_flight_mutex_; a reply to a *)
(* shut-down client or an error reply is dropped; an ok reply goes on to   *)
(* add_new_reply.                                                          *)
(***************************************************************************)
client_data_handler(q) ==
  /\ phase[q] = "open"
  /\ handler[q] = "idle"
  /\ delivered[q] < MaxReplies
  /\ \/ /\ delivered' = [delivered EXCEPT ![q] = @ + 1]  \* shut down, or
        /\ UNCHANGED handler                            \* an error reply
     \/ /\ ~is_shutdown                                 \* an ok reply
        /\ handler' = [handler EXCEPT ![q] = "checked"]
        /\ UNCHANGED delivered
  /\ UNCHANGED <<history, sequence_number, is_shutdown, num_in_flight,
                 reply_queue, wait_set_attached, triggered, waiter,
                 destroying, frees, phase, arrived>>

(***************************************************************************)
(* add_new_reply, first part, under reply_queue_mutex_: drop the oldest   *)
(* reply at the depth and append.  The handler calls add_new_reply for an *)
(* ok reply at line 168 and again, with the same reply, at line 189.      *)
(***************************************************************************)
AfterAppend == [checked |-> "pushed", first_added |-> "repushed"]

add_new_reply(q) ==
  LET r == [q |-> q, n |-> delivered[q] + 1]
  IN /\ handler[q] \in DOMAIN AfterAppend
     /\ reply_queue' = Append(IF QueueFull THEN Tail(reply_queue)
                                          ELSE reply_queue, r)
     /\ arrived' = Append(arrived, r)
     /\ handler' = [handler EXCEPT ![q] = AfterAppend[@]]
     /\ UNCHANGED <<history, sequence_number, is_shutdown, num_in_flight,
                    wait_set_attached, triggered, waiter, destroying, frees,
                    phase, delivered>>

\* Mutant: notify that does not set the attached wait set's flag.
notify_no_trigger(q) ==
  /\ handler[q] \in {"pushed", "repushed"}
  /\ UNCHANGED triggered
  /\ handler' = [handler EXCEPT ![q] = IF @ = "pushed" THEN "first_added"
                                                      ELSE "idle"]
  /\ delivered' = IF handler[q] = "repushed"
                    THEN [delivered EXCEPT ![q] = @ + 1] ELSE delivered
  /\ UNCHANGED <<history, sequence_number, is_shutdown, num_in_flight,
                 reply_queue, wait_set_attached, waiter, destroying, frees,
                 phase, arrived>>

(***************************************************************************)
(* add_new_reply, second part: notify() under condition_mutex_ triggers   *)
(* the attached wait set.  After the second call the handler returns.     *)
(***************************************************************************)
notify(q) ==
  /\ handler[q] \in {"pushed", "repushed"}
  /\ triggered' = (triggered \/ wait_set_attached)
  /\ handler' = [handler EXCEPT ![q] = IF @ = "pushed" THEN "first_added"
                                                      ELSE "idle"]
  /\ delivered' = IF handler[q] = "repushed"
                    THEN [delivered EXCEPT ![q] = @ + 1] ELSE delivered
  /\ UNCHANGED <<history, sequence_number, is_shutdown, num_in_flight,
                 reply_queue, wait_set_attached, waiter, destroying, frees,
                 phase, arrived>>

\* Mutant: decrement_queries_in_flight_and_is_shutdown testing the count
\* before the decrement (num_in_flight_-- > 0).
client_data_drop_postdecrement(q) ==
  LET queries_in_flight == num_in_flight > 0
  IN /\ phase[q] = "open"
     /\ handler[q] = "idle"
     /\ phase' = [phase EXCEPT ![q] = "dropped"]
     /\ num_in_flight' = num_in_flight - 1
     /\ frees' = IF is_shutdown /\ ~queries_in_flight THEN frees + 1
                                                       ELSE frees
     /\ UNCHANGED <<history, sequence_number, is_shutdown, reply_queue,
                    wait_set_attached, triggered, waiter, destroying,
                    delivered, handler, arrived>>

\* Mutant: client_data_drop that frees on shutdown whatever is in flight.
client_data_drop_ignores_in_flight(q) ==
  /\ phase[q] = "open"
  /\ handler[q] = "idle"
  /\ phase' = [phase EXCEPT ![q] = "dropped"]
  /\ num_in_flight' = num_in_flight - 1
  /\ frees' = IF is_shutdown THEN frees + 1 ELSE frees
  /\ UNCHANGED <<history, sequence_number, is_shutdown, reply_queue,
                 wait_set_attached, triggered, waiter, destroying,
                 delivered, handler, arrived>>

(***************************************************************************)
(* client_data_drop: decrement_queries_in_flight_and_is_shutdown() under  *)
(* in_flight_mutex_ (--num_in_flight_ > 0, and is_shutdown_); if shut down *)
(* and nothing else is in flight, destroy and deallocate the record.       *)
(***************************************************************************)
client_data_drop(q) ==
  LET queries_in_flight == num_in_flight - 1 > 0
  IN /\ phase[q] = "open"
     /\ handler[q] = "idle"
     /\ phase' = [phase EXCEPT ![q] = "dropped"]
     /\ num_in_flight' = num_in_flight - 1
     /\ frees' = IF is_shutdown /\ ~queries_in_flight THEN frees + 1
                                                       ELSE frees
     /\ UNCHANGED <<history, sequence_number, is_shutdown, reply_queue,
                    wait_set_attached, triggered, waiter, destroying,
                    delivered, handler, arrived>>

\* rmw_take_response (outside src/) -> pop_next_reply under
\* reply_queue_mutex_: pop the front reply; an empty queue gives nullptr.
pop_next_reply ==
  /\ AppMayCall
  /\ reply_queue # <<>>
  /\ reply_queue' = Tail(reply_queue)
  /\ UNCHANGED <<history, sequence_number, is_shutdown, num_in_flight,
                 wait_set_attached, triggered, waiter, destroying, frees,
                 transport, arrived>>

(***************************************************************************)
(* rmw_wait: queue_has_data_and_attach_condition_if_not under              *)
(* condition_mutex_.  It sees an empty queue when the queue is empty, and  *)
(* may see one whatever the queue holds while an append races with it.     *)
(***************************************************************************)
queue_has_data_and_attach_condition_if_not ==
  /\ AppMayCall
  /\ reply_queue = <<>> \/ AppendInProgress
  /\ wait_set_attached' = TRUE
  /\ waiter' = "blocked"
  /\ UNCHANGED <<history, sequence_number, is_shutdown, num_in_flight,
                 reply_queue, triggered, destroying, frees, transport,
                 arrived>>

detach_condition_and_queue_is_empty ==
  /\ frees = 0
  /\ waiter = "blocked"
  /\ wait_set_attached' = FALSE
  /\ triggered' = FALSE
  /\ waiter' = "idle"
  /\ UNCHANGED <<history, sequence_number, is_shutdown, num_in_flight,
                 reply_queue, destroying, frees, transport, arrived>>

(***************************************************************************)
(* rmw_destroy_client (outside src/) -> shutdown_and_query_in_flight under *)
(* in_flight_mutex_: set is_shutdown_; if nothing is in flight the caller  *)
(* destroys and frees the record, otherwise the last drop does.           *)
(***************************************************************************)
shutdown_and_query_in_flight ==
  /\ AppMayCall
  /\ is_shutdown' = TRUE
  /\ destroying' = TRUE
  /\ frees' = IF num_in_flight > 0 THEN frees ELSE frees + 1
  /\ UNCHANGED <<history, sequence_number, num_in_flight, reply_queue,
                 wait_set_attached, triggered, waiter, transport, arrived>>

Next ==
  \/ send_request
  \/ \E q \in Requests : client_data_handler(q)
  \/ \E q \in Requests : add_new_reply(q)
  \/ \E q \in Requests : notify(q)
  \/ \E q \in Requests : client_data_drop(q)
  \/ pop_next_reply
  \/ queue_has_data_and_attach_condition_if_not
  \/ detach_condition_and_queue_is_empty
  \/ shutdown_and_query_in_flight

Spec == Init /\ [][Next]_vars

(***************************************************************************)
(* The transport's worker thread finishes a reply callback it has started *)
(* (the append and the notify of add_new_reply follow without waiting on  *)
(* the application), and zenoh calls a query's drop closure once the      *)
(* query ends, at the latest at its timeout.  Nothing obliges a reply to  *)
(* arrive, or the application to call anything.                           *)
(***************************************************************************)
Fairness ==
  \A q \in Requests :
    /\ WF_vars(add_new_reply(q))
    /\ WF_vars(notify(q))
    /\ WF_vars(client_data_drop(q))

FairSpec == Spec /\ Fairness

-----------------------------------------------------------------------------
(* Properties.                                                              *)

TypeOK ==
  /\ history \in {KEEP_LAST, KEEP_ALL}
  /\ sequence_number \in 1..(MaxRequests + 1)
  /\ is_shutdown \in BOOLEAN
  /\ num_in_flight \in 0..MaxRequests
  /\ reply_queue \in Seq(Replies)
  /\ wait_set_attached \in BOOLEAN
  /\ triggered \in BOOLEAN
  /\ waiter \in {"idle", "blocked"}
  /\ destroying \in BOOLEAN
  /\ frees \in Nat
  /\ phase \in [Requests -> {"unsent", "open", "dropped"}]
  /\ delivered \in [Requests -> 0..MaxReplies]
  /\ handler \in [Requests -> HandlerStates]
  /\ arrived \in Seq(Replies)

(***************************************************************************)
(* Teardown safety of the in-flight protocol: the record is freed only    *)
(* once no query that carries it in its closure is open, whether the      *)
(* destroying caller or the last client_data_drop frees it.               *)
(***************************************************************************)
NoCallbackAfterFree ==
  frees > 0 => \A q \in Requests : phase[q] # "open"

(***************************************************************************)
(* No lost wake-up despite the racy read in                                *)
(* queue_has_data_and_attach_condition_if_not: a waiter blocked while     *)
(* replies are queued has been triggered, or an append that will notify   *)
(* it is still in progress.                                                *)
(***************************************************************************)
NoLostWakeup ==
  (waiter = "blocked" /\ reply_queue # <<>>) => triggered \/ AppendInProgress

(***************************************************************************)
(* Each reply the transport delivers is queued once: no reply appears     *)
(* twice in the sequence of appends.  client_data_handler breaks this by  *)
(* calling add_new_reply twice for every ok reply.                         *)
(***************************************************************************)
EachReplyQueuedOnce ==
  \A i, j \in 1..Len(arrived) : i # j => arrived[i] # arrived[j]

(***************************************************************************)
(* Two-phase teardown completes: once rmw_destroy_client has called       *)
(* shutdown_and_query_in_flight, the record is eventually destroyed and   *)
(* deallocated, by the caller or by the last client_data_drop.             *)
(***************************************************************************)
EventuallyFreed ==
  destroying ~> frees > 0

(***************************************************************************)
(* The record's lifetime as ClientLifetime states it: the open queries    *)
(* are those whose reply closure zenoh still holds, the client is         *)
(* destroyed once rmw_destroy_client has run, and every free counts.      *)
(* send_request issues, the last step of a query's closure (its drop)     *)
(* finishes it, and shutdown_and_query_in_flight destroys; the reply      *)
(* callbacks and the application's other calls leave the lifetime alone.  *)
(***************************************************************************)
LT == INSTANCE ClientLifetime
        WITH Queries <- Requests,
             open <- {q \in Requests : phase[q] = "open"},
             destroyed <- destroying

ImplementsClientLifetime == LT!Spec

=============================================================================
