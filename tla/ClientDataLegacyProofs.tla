------------------------ MODULE ClientDataLegacyProofs ------------------------
(***************************************************************************)
(* Proofs about the legacy service-client record rmw_client_data_t for    *)
(* every bound and depth: typing, the in-flight protocol that decides who *)
(* frees the record, and the absence of lost wake-ups despite the racy    *)
(* read of the reply queue.                                                *)
(***************************************************************************)
EXTENDS ClientDataLegacy, FiniteSets, FiniteSetTheorems, TLAPS

USE LegacyMaxRequestsAssumption, LegacyMaxRepliesAssumption,
    LegacyDepthAssumption

\* The queries whose reply closure is still registered with zenoh.
InFlight == {q \in Requests : phase[q] = "open"}

(***************************************************************************)
(* The inductive invariant.  TypeOK bounds num_in_flight_ by MaxRequests  *)
(* only because it counts the open queries; that count is kept by the     *)
(* caller's increment before each z_get (a query is opened once, in       *)
(* sequence-number order) and by the decrement in client_data_drop.       *)
(* is_shutdown_ and the destroy are set together, so no query is opened   *)
(* after shutdown, and the record is freed once, with nothing open.       *)
(***************************************************************************)
TypeInv ==
  /\ TypeOK
  /\ \A q \in Requests : handler[q] # "idle" => delivered[q] < MaxReplies

SentBelow == \A q \in Requests : phase[q] = "unsent" <=> q >= sequence_number

CountsOpen == num_in_flight = Cardinality(InFlight)

ShutdownWithDestroy == is_shutdown = destroying

FreedOnceQuiet == frees > 0 => frees = 1 /\ destroying /\ InFlight = {}

LegacyInv ==
  TypeInv /\ SentBelow /\ CountsOpen /\ ShutdownWithDestroy /\ FreedOnceQuiet

\* A set of queries is finite and has at most MaxRequests members.
LEMMA QueriesBounded ==
  ASSUME NEW S \in SUBSET Requests
  PROVE  IsFiniteSet(S) /\ Cardinality(S) \in 0..MaxRequests
<1>1. IsFiniteSet(Requests) /\ Cardinality(Requests) = MaxRequests
  BY FS_Interval DEF Requests
<1>. QED  BY <1>1, FS_Subset, FS_CardinalityType

LEMMA InitLegacyInv == Init => LegacyInv
<1> SUFFICES ASSUME Init PROVE LegacyInv
  OBVIOUS
<1>1. InFlight = {}
  BY DEF Init, InFlight
<1>2. CountsOpen
  BY <1>1, FS_EmptySet DEF Init, CountsOpen
<1>3. TypeInv
  <2>1. /\ history \in {KEEP_LAST, KEEP_ALL}
        /\ sequence_number \in 1..(MaxRequests + 1)
        /\ num_in_flight \in 0..MaxRequests
        /\ frees \in Nat
    BY DEF Init
  <2>2. /\ is_shutdown \in BOOLEAN /\ wait_set_attached \in BOOLEAN
        /\ triggered \in BOOLEAN /\ destroying \in BOOLEAN
        /\ waiter \in {"idle", "blocked"}
    BY DEF Init
  <2>3. reply_queue \in Seq(Replies) /\ arrived \in Seq(Replies)
    BY DEF Init
  <2>4. /\ phase \in [Requests -> {"unsent", "open", "dropped"}]
        /\ delivered \in [Requests -> 0..MaxReplies]
        /\ handler \in [Requests -> HandlerStates]
        /\ \A q \in Requests : handler[q] # "idle" => delivered[q] < MaxReplies
    BY DEF Init, HandlerStates
  <2>. QED  BY <2>1, <2>2, <2>3, <2>4 DEF TypeInv, TypeOK
<1>4. SentBelow
  <2>1. sequence_number = 1 /\ \A q \in Requests : phase[q] = "unsent"
    BY DEF Init
  <2>2. \A q \in Requests : q >= 1
    BY DEF Requests
  <2>. QED  BY <2>1, <2>2 DEF SentBelow
<1>5. ShutdownWithDestroy
  BY DEF Init, ShutdownWithDestroy
<1>6. FreedOnceQuiet
  BY DEF Init, FreedOnceQuiet
<1>. QED  BY <1>2, <1>3, <1>4, <1>5, <1>6 DEF LegacyInv

LEMMA NextLegacyInv == LegacyInv /\ [Next]_vars => LegacyInv'
<1> SUFFICES ASSUME LegacyInv, [Next]_vars PROVE LegacyInv'
  OBVIOUS
<1> USE DEF LegacyInv, TypeInv, TypeOK, transport
<1>0. IsFiniteSet(InFlight) /\ InFlight \in SUBSET Requests
  BY QueriesBounded DEF InFlight
<1>1. CASE send_request
  <2> DEFINE s == sequence_number
  <2>1. s \in Requests /\ phase[s] = "unsent" /\ frees = 0 /\ ~destroying
    BY <1>1 DEF send_request, AppMayCall, SentBelow, Requests
  <2>2. InFlight' = InFlight \cup {s} /\ s \notin InFlight
    BY <1>1, <2>1 DEF send_request, InFlight
  <2>3. CountsOpen'
    BY <1>0, <1>1, <2>2, FS_AddElement
       DEF send_request, increment_in_flight_callbacks, CountsOpen
  <2>4. num_in_flight' \in 0..MaxRequests
    <3>1. InFlight' \in SUBSET Requests
      BY DEF InFlight
    <3>2. Cardinality(InFlight') \in 0..MaxRequests
      BY <3>1, QueriesBounded
    <3>. QED  BY <2>3, <3>2 DEF CountsOpen
  <2>5. SentBelow'
    BY <1>1, <2>1 DEF send_request, get_next_sequence_number, SentBelow
  <2>6. TypeInv'
    BY <1>1, <2>1, <2>4 DEF send_request, get_next_sequence_number, Requests
  <2>7. ShutdownWithDestroy' /\ FreedOnceQuiet'
    BY <1>1, <2>1 DEF send_request, ShutdownWithDestroy, FreedOnceQuiet
  <2>. QED  BY <2>3, <2>5, <2>6, <2>7
<1>2. ASSUME NEW q \in Requests, client_data_handler(q) PROVE LegacyInv'
  <2>1. InFlight' = InFlight /\ UNCHANGED <<num_in_flight, sequence_number,
          is_shutdown, destroying, frees, phase>>
    BY <1>2 DEF client_data_handler, InFlight
  <2>2. ASSUME delivered' = [delivered EXCEPT ![q] = @ + 1], UNCHANGED handler
        PROVE  TypeInv'
    BY <1>2, <2>2 DEF client_data_handler
  <2>3. ASSUME handler' = [handler EXCEPT ![q] = "checked"], UNCHANGED delivered
        PROVE  TypeInv'
    BY <1>2, <2>3 DEF client_data_handler, HandlerStates
  <2>4. TypeInv'
    BY <1>2, <2>2, <2>3 DEF client_data_handler
  <2>. QED  BY <2>1, <2>4
     DEF SentBelow, CountsOpen, ShutdownWithDestroy, FreedOnceQuiet
<1>3. ASSUME NEW q \in Requests, add_new_reply(q) PROVE LegacyInv'
  <2> DEFINE r == [q |-> q, n |-> delivered[q] + 1]
  <2>1. handler[q] \in {"checked", "first_added"}
    BY <1>3 DEF add_new_reply, AfterAppend
  <2>2. r \in Replies
    <3>1. delivered[q] \in 0..MaxReplies /\ delivered[q] < MaxReplies
      BY <2>1
    <3>. QED  BY <3>1 DEF Replies
  <2>3. QueueFull => reply_queue # <<>>
    BY DEF QueueFull
  <2>4. reply_queue' \in Seq(Replies) /\ arrived' \in Seq(Replies)
    BY <1>3, <2>2, <2>3 DEF add_new_reply
  <2>5. handler' \in [Requests -> HandlerStates]
        /\ handler'[q] \in {"pushed", "repushed"}
    BY <1>3, <2>1 DEF add_new_reply, AfterAppend, HandlerStates
  <2>6. InFlight' = InFlight /\ UNCHANGED <<num_in_flight, sequence_number,
          is_shutdown, destroying, frees, phase, delivered>>
    BY <1>3 DEF add_new_reply, InFlight
  <2>7. TypeInv'
    BY <1>3, <2>1, <2>4, <2>5, <2>6 DEF add_new_reply
  <2>. QED  BY <2>6, <2>7
     DEF SentBelow, CountsOpen, ShutdownWithDestroy, FreedOnceQuiet
<1>4. ASSUME NEW q \in Requests, notify(q) PROVE LegacyInv'
  <2>1. InFlight' = InFlight /\ UNCHANGED <<num_in_flight, sequence_number,
          is_shutdown, destroying, frees, phase>>
    BY <1>4 DEF notify, InFlight
  <2>2. handler[q] \in {"pushed", "repushed"}
    BY <1>4 DEF notify
  <2>3. ASSUME handler[q] = "pushed" PROVE TypeInv'
    <3>1. handler' = [handler EXCEPT ![q] = "first_added"]
          /\ delivered' = delivered
      BY <1>4, <2>3 DEF notify
    <3>2. triggered' \in BOOLEAN
      BY <1>4, Zenon DEF notify
    <3>. QED  BY <1>4, <3>1, <3>2 DEF notify, HandlerStates
  <2>4. ASSUME handler[q] = "repushed" PROVE TypeInv'
    <3>1. handler' = [handler EXCEPT ![q] = "idle"]
          /\ delivered' = [delivered EXCEPT ![q] = @ + 1]
      BY <1>4, <2>4 DEF notify
    <3>2. triggered' \in BOOLEAN
      BY <1>4, Zenon DEF notify
    <3>3. delivered[q] < MaxReplies
      BY <2>4
    <3>. QED  BY <1>4, <3>1, <3>2, <3>3 DEF notify, HandlerStates
  <2>5. TypeInv'
    BY <2>2, <2>3, <2>4
  <2>. QED  BY <2>1, <2>5
     DEF SentBelow, CountsOpen, ShutdownWithDestroy, FreedOnceQuiet
<1>5. ASSUME NEW q \in Requests, client_data_drop(q) PROVE LegacyInv'
  <2>1. q \in InFlight /\ InFlight' = InFlight \ {q}
    BY <1>5 DEF client_data_drop, InFlight
  <2>2. Cardinality(InFlight') = num_in_flight - 1
    BY <1>0, <2>1, FS_RemoveElement DEF CountsOpen
  <2>3. num_in_flight' = num_in_flight - 1
    BY <1>5 DEF client_data_drop
  <2>4. CountsOpen' /\ num_in_flight' \in 0..MaxRequests
    <3>1. InFlight' \in SUBSET Requests
      BY DEF InFlight
    <3>2. Cardinality(InFlight') \in 0..MaxRequests
      BY <3>1, QueriesBounded
    <3>. QED  BY <2>2, <2>3, <3>2 DEF CountsOpen
  <2>5. frees = 0
    BY <2>1 DEF FreedOnceQuiet
  <2>6. FreedOnceQuiet'
    <3>1. CASE is_shutdown /\ ~(num_in_flight - 1 > 0)
      <4>1. frees' = 1 /\ destroying' /\ Cardinality(InFlight') = 0
        BY <1>5, <2>2, <2>4, <2>5, <3>1 DEF client_data_drop, ShutdownWithDestroy
      <4>2. InFlight' = {}
        BY <1>0, <2>1, <4>1, FS_RemoveElement, FS_EmptySet
      <4>. QED  BY <4>1, <4>2 DEF FreedOnceQuiet
    <3>2. CASE ~(is_shutdown /\ ~(num_in_flight - 1 > 0))
      BY <1>5, <2>5, <3>2 DEF client_data_drop, FreedOnceQuiet
    <3>. QED  BY <3>1, <3>2
  <2>7. SentBelow' /\ ShutdownWithDestroy'
    BY <1>5 DEF client_data_drop, SentBelow, ShutdownWithDestroy
  <2>8. TypeInv'
    BY <1>5, <2>4, <2>5, <2>6 DEF client_data_drop, FreedOnceQuiet
  <2>. QED  BY <2>4, <2>6, <2>7, <2>8
<1>6. CASE pop_next_reply
  BY <1>6 DEF pop_next_reply, InFlight, SentBelow, CountsOpen,
              ShutdownWithDestroy, FreedOnceQuiet
<1>7. CASE queue_has_data_and_attach_condition_if_not
  BY <1>7 DEF queue_has_data_and_attach_condition_if_not, InFlight,
              SentBelow, CountsOpen, ShutdownWithDestroy, FreedOnceQuiet
<1>8. CASE detach_condition_and_queue_is_empty
  BY <1>8 DEF detach_condition_and_queue_is_empty, InFlight,
              SentBelow, CountsOpen, ShutdownWithDestroy, FreedOnceQuiet
<1>9. CASE shutdown_and_query_in_flight
  <2>1. frees = 0 /\ InFlight' = InFlight /\ UNCHANGED num_in_flight
    BY <1>9 DEF shutdown_and_query_in_flight, AppMayCall, InFlight
  <2>2. is_shutdown' = TRUE /\ destroying' = TRUE
    BY <1>9 DEF shutdown_and_query_in_flight
  <2>3. ShutdownWithDestroy'
    BY <2>2, Zenon DEF ShutdownWithDestroy
  <2>4. FreedOnceQuiet'
    <3>1. CASE num_in_flight > 0
      BY <1>9, <2>1, <3>1 DEF shutdown_and_query_in_flight, FreedOnceQuiet
    <3>2. CASE ~(num_in_flight > 0)
      <4>1. InFlight = {}
        BY <1>0, <3>2, FS_EmptySet DEF CountsOpen
      <4>. QED  BY <1>9, <2>1, <2>2, <3>2, <4>1
                DEF shutdown_and_query_in_flight, FreedOnceQuiet
    <3>. QED  BY <3>1, <3>2
  <2>5. TypeInv'
    <3>1. frees' \in Nat
      BY <1>9, <2>1 DEF shutdown_and_query_in_flight
    <3>2. is_shutdown' \in BOOLEAN /\ destroying' \in BOOLEAN
      BY <2>2
    <3>. QED  BY <1>9, <3>1, <3>2 DEF shutdown_and_query_in_flight
  <2>6. SentBelow' /\ CountsOpen'
    BY <1>9, <2>1 DEF shutdown_and_query_in_flight, SentBelow, CountsOpen
  <2>. QED  BY <2>3, <2>4, <2>5, <2>6
<1>10. CASE UNCHANGED vars
  BY <1>10 DEF vars, InFlight, SentBelow, CountsOpen, ShutdownWithDestroy,
               FreedOnceQuiet
<1>. QED  BY <1>1, <1>2, <1>3, <1>4, <1>5, <1>6, <1>7, <1>8, <1>9, <1>10
          DEF Next

\* Every state of the legacy record is well typed; in particular
\* num_in_flight_ never exceeds the number of queries sent.
THEOREM LegacyTypeCorrect == Spec => []TypeOK
<1>1. Spec => []LegacyInv
  BY InitLegacyInv, NextLegacyInv, PTL DEF Spec
<1>. QED  BY <1>1, PTL DEF LegacyInv, TypeInv

(***************************************************************************)
(* The in-flight protocol of rmw_client_data_t is safe: the record is     *)
(* destroyed and deallocated, by rmw_destroy_client or by the last         *)
(* client_data_drop, only once no query holding it in its closure is      *)
(* open, so zenoh never calls client_data_handler or client_data_drop on  *)
(* freed memory.                                                           *)
(***************************************************************************)
THEOREM NoCallbackAfterFreeTheorem == Spec => []NoCallbackAfterFree
<1>1. LegacyInv => NoCallbackAfterFree
  <2> SUFFICES ASSUME LegacyInv, frees > 0, NEW q \in Requests,
                      phase[q] = "open"
               PROVE  FALSE
    BY DEF NoCallbackAfterFree
  <2>1. q \in InFlight
    BY DEF InFlight
  <2>. QED  BY <2>1 DEF LegacyInv, FreedOnceQuiet
<1>. QED  BY <1>1, InitLegacyInv, NextLegacyInv, PTL DEF Spec

(***************************************************************************)
(* The destroying caller and the drops never both free the record: it is  *)
(* destroyed and deallocated at most once, since whichever frees it sees  *)
(* nothing in flight and nothing can be dropped or destroyed after that.  *)
(***************************************************************************)
THEOREM FreedAtMostOnce == Spec => [](frees <= 1)
<1>1. LegacyInv => frees <= 1
  BY DEF LegacyInv, FreedOnceQuiet, TypeInv, TypeOK
<1>. QED  BY <1>1, InitLegacyInv, NextLegacyInv, PTL DEF Spec

-----------------------------------------------------------------------------
(* No lost wake-up.  As for ClientData, a blocked waiter has its wait set *)
(* attached; the racy read may block the waiter on a non-empty queue only *)
(* while an append is in progress, and that append's notify triggers it.  *)

WakeupInv ==
  /\ waiter = "blocked" => wait_set_attached
  /\ NoLostWakeup

\* A handler step of one query leaves the other handlers where they were.
LEMMA OthersInProgress ==
  ASSUME NEW q \in Requests, NEW h, handler' = [handler EXCEPT ![q] = h],
         handler \in [Requests -> HandlerStates],
         h \notin {"pushed", "repushed"}, handler[q] \notin {"pushed", "repushed"}
  PROVE  AppendInProgress' = AppendInProgress
BY DEF AppendInProgress

LEMMA NextWakeup ==
  ASSUME TypeOK, WakeupInv, [Next]_vars
  PROVE  WakeupInv'
<1> USE DEF WakeupInv, NoLostWakeup, transport
<1>1. CASE send_request
  BY <1>1 DEF send_request, AppendInProgress
<1>2. ASSUME NEW q \in Requests, client_data_handler(q) PROVE WakeupInv'
  <2>1. AppendInProgress' = AppendInProgress
    <3>1. CASE UNCHANGED handler
      BY <3>1 DEF AppendInProgress
    <3>2. CASE handler' = [handler EXCEPT ![q] = "checked"]
      BY <1>2, <3>2, OthersInProgress DEF client_data_handler, TypeOK
    <3>. QED  BY <1>2, <3>1, <3>2 DEF client_data_handler
  <2>. QED  BY <1>2, <2>1 DEF client_data_handler
<1>3. ASSUME NEW q \in Requests, add_new_reply(q) PROVE WakeupInv'
  <2>1. handler'[q] \in {"pushed", "repushed"}
    BY <1>3 DEF add_new_reply, AfterAppend, TypeOK
  <2>2. AppendInProgress'
    BY <2>1 DEF AppendInProgress
  <2>. QED  BY <1>3, <2>2 DEF add_new_reply
<1>4. ASSUME NEW q \in Requests, notify(q) PROVE WakeupInv'
  BY <1>4 DEF notify
<1>5. ASSUME NEW q \in Requests, client_data_drop(q) PROVE WakeupInv'
  BY <1>5 DEF client_data_drop, AppendInProgress
<1>6. CASE pop_next_reply
  BY <1>6 DEF pop_next_reply, AppMayCall
<1>7. CASE queue_has_data_and_attach_condition_if_not
  BY <1>7 DEF queue_has_data_and_attach_condition_if_not, AppendInProgress
<1>8. CASE detach_condition_and_queue_is_empty
  BY <1>8 DEF detach_condition_and_queue_is_empty
<1>9. CASE shutdown_and_query_in_flight
  BY <1>9 DEF shutdown_and_query_in_flight, AppendInProgress
<1>10. CASE UNCHANGED vars
  BY <1>10 DEF vars, AppendInProgress
<1>. QED  BY <1>1, <1>2, <1>3, <1>4, <1>5, <1>6, <1>7, <1>8, <1>9, <1>10
          DEF Next

(***************************************************************************)
(* Despite queue_has_data_and_attach_condition_if_not reading reply_queue_ *)
(* under condition_mutex_ only, a waiter blocked in rmw_wait while replies *)
(* are queued has been triggered, or an append whose notify will trigger  *)
(* it is still in progress.                                                *)
(***************************************************************************)
THEOREM LegacyNoLostWakeup == Spec => []NoLostWakeup
<1>1. Init => WakeupInv
  BY DEF Init, WakeupInv, NoLostWakeup
<1>2. Spec => []TypeOK
  BY LegacyTypeCorrect
<1>3. Spec => []WakeupInv
  BY <1>1, <1>2, NextWakeup, PTL DEF Spec
<1>. QED  BY <1>3, PTL DEF WakeupInv

-----------------------------------------------------------------------------
(* Refinement of ClientLifetime.  Under the mapping, open is InFlight.    *)
(* CountsOpen turns the code's tests on num_in_flight_ into tests on the  *)
(* open queries, ShutdownWithDestroy turns is_shutdown_ into the destroy, *)
(* and SentBelow makes send_request's query one that is not open yet.     *)

\* A set of queries is empty exactly when its cardinality is zero.
LEMMA EmptyIffZero ==
  ASSUME NEW S \in SUBSET Requests
  PROVE  Cardinality(S) = 0 <=> S = {}
BY QueriesBounded, FS_EmptySet

\* Every step of the legacy record, from a state of LegacyInv, is a step
\* of ClientLifetime or leaves its open queries, destroy and frees alone:
\* send_request issues, client_data_drop finishes, rmw_destroy_client's
\* shutdown_and_query_in_flight destroys, and the rest stutter.
LEMMA LifetimeStep ==
  ASSUME LegacyInv, [Next]_vars
  PROVE  [LT!Next]_LT!vars
<1>0. /\ num_in_flight = Cardinality(InFlight)
      /\ is_shutdown = destroying
      /\ InFlight \in SUBSET Requests
      /\ phase \in [Requests -> {"unsent", "open", "dropped"}]
  BY DEF LegacyInv, CountsOpen, ShutdownWithDestroy, TypeInv, TypeOK, InFlight
<1>1. CASE send_request
  <2>1. sequence_number \in Requests /\ phase[sequence_number] = "unsent"
    BY <1>1 DEF send_request, LegacyInv, SentBelow, TypeInv, TypeOK, Requests
  <2>2. /\ InFlight' = InFlight \cup {sequence_number}
        /\ ~destroying /\ UNCHANGED <<destroying, frees>>
    BY <1>0, <1>1, <2>1 DEF send_request, AppMayCall, InFlight
  <2>3. sequence_number \notin InFlight
    BY <2>1 DEF InFlight
  <2>4. LT!Next
    BY <2>1, <2>2, <2>3 DEF LT!Next, LT!Issue, InFlight
  <2>. QED  BY <2>4
<1>2. ASSUME NEW q \in Requests, client_data_drop(q) PROVE LT!Next
  <2>1. q \in InFlight /\ InFlight' = InFlight \ {q}
    BY <1>0, <1>2 DEF client_data_drop, InFlight
  <2>2. num_in_flight - 1 = Cardinality(InFlight')
    BY <1>0, <2>1, QueriesBounded, FS_RemoveElement
  <2>3. (num_in_flight - 1 > 0) <=> InFlight' # {}
    <3>1. InFlight' \in SUBSET Requests
      BY <1>0, <2>1
    <3>2. Cardinality(InFlight') \in Nat
      BY <3>1, QueriesBounded
    <3>. QED  BY <2>2, <3>1, <3>2, EmptyIffZero
  <2>4. /\ frees' = IF destroying /\ InFlight' = {} THEN frees + 1 ELSE frees
        /\ UNCHANGED destroying
    BY <1>0, <1>2, <2>3 DEF client_data_drop
  <2>5. LT!Finish(q)
    BY <2>1, <2>4 DEF LT!Finish, InFlight
  <2>. QED  BY <2>5 DEF LT!Next
<1>3. CASE shutdown_and_query_in_flight
  <2>1. (num_in_flight > 0) <=> InFlight # {}
    BY <1>0, QueriesBounded, EmptyIffZero
  <2>2. /\ ~destroying /\ destroying' = TRUE /\ InFlight' = InFlight
        /\ frees' = IF InFlight = {} THEN frees + 1 ELSE frees
    BY <1>3, <2>1 DEF shutdown_and_query_in_flight, AppMayCall, InFlight, transport
  <2>. QED  BY <2>2 DEF LT!Destroy, LT!Next, InFlight
<1>4. CASE UNCHANGED <<phase, destroying, frees>>
  BY <1>4 DEF LT!vars
<1>. QED
  BY <1>1, <1>2, <1>3, <1>4
  DEF Next, vars, transport, client_data_handler, add_new_reply, notify,
      pop_next_reply, queue_has_data_and_attach_condition_if_not,
      detach_condition_and_queue_is_empty

(***************************************************************************)
(* rmw_client_data_t, with its three mutexes, its in-flight counter and   *)
(* the caller's increment, implements ClientLifetime: queries are issued  *)
(* only before rmw_destroy_client, and the record is freed exactly when   *)
(* the destroy or a client_data_drop leaves no query open, and never      *)
(* otherwise.                                                              *)
(***************************************************************************)
THEOREM LegacyImplementsLifetime == Spec => ImplementsClientLifetime
<1>1. Init => LT!Init
  BY DEF Init, LT!Init
<1>2. Spec => []LegacyInv
  BY InitLegacyInv, NextLegacyInv, PTL DEF Spec
<1>3. LegacyInv /\ [Next]_vars => [LT!Next]_LT!vars
  BY LifetimeStep
<1>. QED  BY <1>1, <1>2, <1>3, PTL DEF Spec, ImplementsClientLifetime, LT!Spec

=============================================================================
