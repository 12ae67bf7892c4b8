----------------------------- MODULE GraphContext -----------------------------
(***************************************************************************)
(* The session context's view of the ROS graph:                            *)
(* rmw_context_impl_s::Data (src/.../detail/rmw_context_impl_s.cpp).        *)
(*                                                                         *)
(* The Data constructor seeds the graph cache from a blocking liveliness   *)
(* query (zc_liveliness_get) over the tokens alive at the time; only then  *)
(* does subscribe() declare the liveliness subscriber whose samples        *)
(* graph_sub_data_handler applies under the context mutex.  shutdown()     *)
(* undeclares the subscriber and closes the session.                        *)
(*                                                                         *)
(* The network is a set of remote liveliness tokens that remote nodes      *)
(* declare and undeclare.  The subscriber's samples reach the handler in   *)
(* the order the changes happened; one sample at a time may be in the     *)
(* hands of a transport thread (taken off the queue, the handler not yet  *)
(* past the mutex).  GraphCache is not under src/: it is the set of        *)
(* tokens it knows, parse_put adds one and parse_del removes one.          *)
(*                                                                         *)
(* ~Data frees the graph guard condition, without the mutex, then calls   *)
(* shutdown(); the Data is then gone.  It runs when the constructor of    *)
(* rmw_context_impl_s throws (subscribe failed) or when rmw_context_fini  *)
(* (outside src/) releases a context it found shut down.                   *)
(***************************************************************************)
EXTENDS Naturals, Sequences

CONSTANTS
  Tokens,        \* liveliness tokens of remote entities
  MaxChanges,    \* bound on the token declarations and undeclarations
  MaxEntityIds,  \* bound on get_next_entity_id calls
  NoSample       \* no sample in the hands of a transport thread

ASSUME MaxChangesAssumption == MaxChanges \in Nat
ASSUME MaxEntityIdsAssumption == MaxEntityIds \in Nat

Samples == [kind : {"put", "del"}, token : Tokens]

\* NoSample is not a sample (a model value in the runs).
ASSUME NoSampleAssumption == NoSample \notin Samples

VARIABLES
  alive,              \* tokens currently declared on the network
  changes,            \* how many declarations/undeclarations happened
  stage,              \* "querying", "constructed", "subscribed", "failed"
  replies,            \* tokens of the bootstrap query not yet received
  cache,              \* the graph cache's known entities
  samples,            \* liveliness samples queued for the subscriber
  inflight,           \* the sample a transport thread is delivering
  subscriber_declared,\* graph_subscriber_ is a live subscriber
  is_shutdown,        \* is_shutdown_
  next_entity_id,     \* next_entity_id_
  changed_since_sub,  \* history: tokens changed while subscribed
  guard,              \* graph_guard_condition_: "live" or "freed"
  lifetime            \* the Data object: "alive", "destroying", "destroyed"

lifecycle == <<guard, lifetime>>
vars == <<alive, changes, stage, replies, cache, samples, inflight,
          subscriber_declared, is_shutdown, next_entity_id, changed_since_sub,
          lifecycle>>

-----------------------------------------------------------------------------
\* GraphCache::parse_put and parse_del on the entity set.
parse_put(t) == cache' = cache \cup {t}
parse_del(t) == cache' = cache \ {t}

(***************************************************************************)
(* Data constructor: zc_liveliness_get answers with the tokens alive when  *)
(* it runs; the reply loop then parse_puts each of them.                   *)
(***************************************************************************)
Init ==
  /\ alive \in SUBSET Tokens
  /\ changes = 0
  /\ stage = "querying"
  /\ replies = alive
  /\ cache = {}
  /\ samples = <<>>
  /\ inflight = NoSample
  /\ subscriber_declared = FALSE
  /\ is_shutdown = FALSE
  /\ next_entity_id = 0
  /\ changed_since_sub = {}
  /\ guard = "live"
  /\ lifetime = "alive"

\* One ok reply of the bootstrap query (z_call on the reply channel).
bootstrap_reply(t) ==
  /\ stage = "querying"
  /\ t \in replies
  /\ parse_put(t)
  /\ replies' = replies \ {t}
  /\ UNCHANGED <<lifecycle, alive, changes, stage, samples, inflight,
                 subscriber_declared, is_shutdown, next_entity_id,
                 changed_since_sub>>

\* Mutant: the reply loop without its !call_success test leaves at the
\* first z_call that finds no reply yet, before the channel is drained.
bootstrap_done_early ==
  /\ stage = "querying"
  /\ stage' = "constructed"
  /\ UNCHANGED <<lifecycle, alive, changes, replies, cache, samples, inflight,
                 subscriber_declared, is_shutdown, next_entity_id,
                 changed_since_sub>>

\* The reply channel closes: the constructor returns.
bootstrap_done ==
  /\ stage = "querying"
  /\ replies = {}
  /\ stage' = "constructed"
  /\ UNCHANGED <<lifecycle, alive, changes, replies, cache, samples, inflight,
                 subscriber_declared, is_shutdown, next_entity_id,
                 changed_since_sub>>

(***************************************************************************)
(* subscribe(), called by the rmw_context_impl_s constructor: declare the *)
(* liveliness subscriber; if that fails the constructor throws and the    *)
(* context is never used.                                                  *)
(***************************************************************************)
subscribe ==
  /\ stage = "constructed"
  /\ \/ /\ stage' = "subscribed"
        /\ subscriber_declared' = TRUE
     \/ /\ stage' = "failed"
        /\ UNCHANGED subscriber_declared
  /\ UNCHANGED <<lifecycle, alive, changes, replies, cache, samples, inflight,
                 is_shutdown, next_entity_id, changed_since_sub>>

(***************************************************************************)
(* A remote node declares or undeclares token t.  A declared subscriber   *)
(* is sent the matching sample.                                            *)
(***************************************************************************)
network_change(t) ==
  /\ changes < MaxChanges
  /\ changes' = changes + 1
  /\ alive' = IF t \in alive THEN alive \ {t} ELSE alive \cup {t}
  /\ IF subscriber_declared
       THEN /\ samples' = Append(samples,
                  [kind |-> IF t \in alive THEN "del" ELSE "put", token |-> t])
            /\ changed_since_sub' = changed_since_sub \cup {t}
       ELSE UNCHANGED <<samples, changed_since_sub>>
  /\ UNCHANGED <<lifecycle, stage, replies, cache, inflight, subscriber_declared,
                 is_shutdown, next_entity_id>>

\* A transport thread takes the next sample and calls the subscriber's
\* closure, graph_sub_data_handler.
deliver ==
  /\ inflight = NoSample
  /\ samples # <<>>
  /\ inflight' = Head(samples)
  /\ samples' = Tail(samples)
  /\ UNCHANGED <<lifecycle, alive, changes, stage, replies, cache, subscriber_declared,
                 is_shutdown, next_entity_id, changed_since_sub>>

\* Mutant: the PUT case of the switch falls through into DELETE.
graph_sub_data_handler_fallthrough ==
  /\ inflight # NoSample
  /\ inflight' = NoSample
  /\ IF is_shutdown THEN UNCHANGED cache ELSE parse_del(inflight.token)
  /\ UNCHANGED <<lifecycle, alive, changes, stage, replies, samples,
                 subscriber_declared, is_shutdown, next_entity_id,
                 changed_since_sub>>

(***************************************************************************)
(* graph_sub_data_handler, under the context mutex: once shut down it     *)
(* returns; otherwise a PUT sample is parse_put, a DELETE parse_del, and  *)
(* the graph guard condition is triggered.                                 *)
(***************************************************************************)
graph_sub_data_handler ==
  /\ inflight # NoSample
  /\ inflight' = NoSample
  /\ IF is_shutdown THEN UNCHANGED cache
     ELSE IF inflight.kind = "put" THEN parse_put(inflight.token)
                                   ELSE parse_del(inflight.token)
  /\ UNCHANGED <<lifecycle, alive, changes, stage, replies, samples,
                 subscriber_declared, is_shutdown, next_entity_id,
                 changed_since_sub>>

\* The body of Data::shutdown past its is_shutdown_ check: undeclare the
\* subscriber (queued samples are discarded; one already taken by a
\* transport thread is not), drop the shared-memory manager, close the
\* session.  If z_close fails it returns an error with is_shutdown_ still
\* FALSE.
CloseSession ==
  /\ subscriber_declared' = FALSE
  /\ samples' = <<>>
  /\ is_shutdown' \in BOOLEAN

(***************************************************************************)
(* Data::shutdown, called through rmw_context_impl_s::shutdown on a live  *)
(* context, under the mutex, unless already shut down.  A call after a    *)
(* failed z_close repeats the close.                                       *)
(***************************************************************************)
shutdown ==
  /\ lifetime = "alive"
  /\ stage = "subscribed"
  /\ ~is_shutdown
  /\ CloseSession
  /\ UNCHANGED <<lifecycle, alive, changes, stage, replies, cache, inflight,
                 next_entity_id, changed_since_sub>>

\* Mutant: rmw_context_fini releasing a context that was never shut down.
ReleaseAllowedUnchecked == stage \in {"subscribed", "failed"}

\* When the last reference to the Data goes: at once when the constructor
\* threw, and through rmw_context_fini (outside src/), which refuses a
\* context that is not shut down.
ReleaseAllowed ==
  \/ stage = "failed"
  \/ stage = "subscribed" /\ is_shutdown

\* ~Data, lines 193-200: destroy and deallocate the guard condition,
\* without taking the mutex.
data_free_guard ==
  /\ lifetime = "alive"
  /\ ReleaseAllowed
  /\ guard' = "freed"
  /\ lifetime' = "destroying"
  /\ UNCHANGED <<alive, changes, stage, replies, cache, samples, inflight,
                 subscriber_declared, is_shutdown, next_entity_id,
                 changed_since_sub>>

\* ~Data, lines 202-204: shutdown() (a no-op if already shut down), then
\* the Data's memory is released.
data_destroy ==
  /\ lifetime = "destroying"
  /\ IF is_shutdown THEN UNCHANGED <<subscriber_declared, samples, is_shutdown>>
                     ELSE CloseSession
  /\ lifetime' = "destroyed"
  /\ UNCHANGED <<guard, alive, changes, stage, replies, cache, inflight,
                 next_entity_id, changed_since_sub>>

\* get_next_entity_id: next_entity_id_++ under the mutex.
get_next_entity_id ==
  /\ lifetime = "alive"
  /\ stage = "subscribed"
  /\ next_entity_id < MaxEntityIds
  /\ next_entity_id' = next_entity_id + 1
  /\ UNCHANGED <<lifecycle, alive, changes, stage, replies, cache, samples, inflight,
                 subscriber_declared, is_shutdown, changed_since_sub>>

Next ==
  \/ \E t \in Tokens : bootstrap_reply(t)
  \/ bootstrap_done
  \/ subscribe
  \/ \E t \in Tokens : network_change(t)
  \/ deliver
  \/ graph_sub_data_handler
  \/ shutdown
  \/ get_next_entity_id
  \/ data_free_guard
  \/ data_destroy

Spec == Init /\ [][Next]_vars

-----------------------------------------------------------------------------
(* Properties.                                                              *)

TypeOK ==
  /\ alive \subseteq Tokens
  /\ changes \in 0..MaxChanges
  /\ stage \in {"querying", "constructed", "subscribed", "failed"}
  /\ replies \subseteq Tokens
  /\ cache \subseteq Tokens
  /\ samples \in Seq(Samples)
  /\ inflight \in Samples \cup {NoSample}
  /\ subscriber_declared \in BOOLEAN
  /\ is_shutdown \in BOOLEAN
  /\ next_entity_id \in 0..MaxEntityIds
  /\ changed_since_sub \subseteq Tokens
  /\ guard \in {"live", "freed"}
  /\ lifetime \in {"alive", "destroying", "destroyed"}

\* The samples not yet applied to the cache, oldest first.
Unapplied == (IF inflight = NoSample THEN <<>> ELSE <<inflight>>) \o samples

\* Whether t is in cache C once the samples U are applied in order: the
\* last sample about t is a put, or there is none and t is in C.
Knows(U, C, t) ==
  \/ /\ \A i \in 1..Len(U) : U[i].token # t
     /\ t \in C
  \/ \E i \in 1..Len(U) :
       /\ U[i] = [kind |-> "put", token |-> t]
       /\ \A j \in (i + 1)..Len(U) : U[j].token # t

WillKnow(t) == Knows(Unapplied, cache, t)

(***************************************************************************)
(* graph_sub_data_handler keeps the cache following the network: while    *)
(* the context is live, every token that changed after the subscriber was *)
(* declared is known to the cache, once the samples in transit are        *)
(* applied, exactly when it is alive.                                      *)
(***************************************************************************)
SubscribedTokensTracked ==
  (subscriber_declared /\ ~is_shutdown) =>
    \A t \in changed_since_sub : WillKnow(t) <=> t \in alive

(***************************************************************************)
(* The cache is an eventually-complete view of the graph: when the        *)
(* context is live and no sample is in transit, the cache holds exactly   *)
(* the tokens alive on the network.                                        *)
(***************************************************************************)
CacheMatchesNetworkWhenQuiet ==
  (stage = "subscribed" /\ ~is_shutdown /\ inflight = NoSample
     /\ samples = <<>>) => cache = alive

(***************************************************************************)
(* ~Data frees the graph guard condition without the mutex, so it must    *)
(* only do so when no graph_sub_data_handler can still reach               *)
(* rmw_trigger_guard_condition: the subscriber is gone, and either the     *)
(* context is shut down (the handler returns early) or no sample is in a  *)
(* transport thread's hands.  A failed z_close leaves the subscriber gone *)
(* but is_shutdown_ FALSE, with a sample possibly still in transit.        *)
(***************************************************************************)
GuardFreedOnlyWhenQuiescent ==
  guard = "freed" =>
    /\ ~subscriber_declared
    /\ is_shutdown \/ inflight = NoSample

(***************************************************************************)
(* graph_sub_data_handler is handed a raw pointer to the Data (its log    *)
(* message still speaks of locking a weak pointer): no sample may be in a *)
(* transport thread's hands once ~Data has released the object.            *)
(***************************************************************************)
NoHandlerAfterDestroy ==
  lifetime = "destroyed" => inflight = NoSample

-----------------------------------------------------------------------------
(***************************************************************************)
(* Refinement.  The samples a transport thread holds and those still      *)
(* queued are together GraphView's pending FIFO; deliver, the guard, the  *)
(* entity ids and the Data's release do not change the view.              *)
(***************************************************************************)
GV == INSTANCE GraphView
        WITH pending <- Unapplied,
             snapshot <- replies,
             listening <- subscriber_declared,
             stopped <- is_shutdown

(***************************************************************************)
(* The context's cache follows GraphView: graph_sub_data_handler applies  *)
(* the samples in the order the network changed, after shutdown consumes *)
(* them without effect, and Data::shutdown drops only the queued samples, *)
(* never reordering or inventing a change.                                 *)
(***************************************************************************)
ImplementsGraphView == GV!Spec

=============================================================================
