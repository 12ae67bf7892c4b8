--------------------------- MODULE ClientDataProofs ---------------------------
(***************************************************************************)
(* Proofs about ClientData for every value of its constants: typing, the  *)
(* drop-oldest reply queue invariant, the absence of lost wake-ups, the    *)
(* refinement of ReplyBuffer, the arrival order of the replies taken and  *)
(* what the unincremented num_in_flight_ counter counts.                  *)
(***************************************************************************)
EXTENDS ClientData, FiniteSets, FiniteSetTheorems, TLAPS

USE MaxRequestsAssumption, MaxRepliesAssumption, DepthAssumption

-----------------------------------------------------------------------------
(* Arithmetic of the size_t counter.                                       *)

\* 2^InFlightBits is a positive natural: it counts the subsets of 1..InFlightBits.
LEMMA SizeModulusPositive == SizeModulus \in Nat \ {0}
<1>1. IsFiniteSet(1..InFlightBits) /\ Cardinality(1..InFlightBits) = InFlightBits
  BY InFlightBitsAssumption, FS_Interval
<1>2. /\ IsFiniteSet(SUBSET (1..InFlightBits))
      /\ Cardinality(SUBSET (1..InFlightBits)) = 2 ^ InFlightBits
  BY <1>1, FS_SUBSET
<1>3. Cardinality(SUBSET (1..InFlightBits)) \in Nat \ {0}
  <2>1. SUBSET (1..InFlightBits) # {}
    OBVIOUS
  <2>. QED  BY <1>2, <2>1, FS_EmptySet, FS_CardinalityType
<1>. QED  BY <1>2, <1>3 DEF SizeModulus

\* The wrapping decrement of num_in_flight_ stays within a size_t.
LEMMA DecrementType ==
  ASSUME NEW n \in 0..(SizeModulus - 1)
  PROVE  Decrement(n) \in 0..(SizeModulus - 1)
BY SizeModulusPositive DEF Decrement

-----------------------------------------------------------------------------
(* Typing.  TypeOK alone is not inductive: add_new_reply builds the reply *)
(* delivered[q] + 1, which is a reply index only because a handler that   *)
(* passed its is_shutdown() check has a reply still to deliver.            *)

TypeInv ==
  /\ TypeOK
  /\ \A q \in Requests :
       handler[q] = "checked" => delivered[q] < MaxReplies

LEMMA InitTypeInv == Init => TypeInv
<1> SUFFICES ASSUME Init PROVE TypeInv
  OBVIOUS
<1>1. num_in_flight \in 0..(SizeModulus - 1)
  BY SizeModulusPositive DEF Init
<1>2. reply_queue \in Seq(Replies) /\ arrived \in Seq(Replies)
                                  /\ taken \in Seq(Replies)
  BY DEF Init
<1>3. /\ phase \in [Requests -> {"unsent", "open", "dropped"}]
      /\ delivered \in [Requests -> 0..MaxReplies]
      /\ handler \in [Requests -> {"idle", "checked"}]
  BY DEF Init
<1>4. \A q \in Requests : handler[q] = "checked" => delivered[q] < MaxReplies
  BY DEF Init
<1>5. sequence_number \in 1..(MaxRequests + 1)
  BY DEF Init
<1>. QED  BY <1>1, <1>2, <1>3, <1>4, <1>5
          DEF Init, TypeInv, TypeOK, KEEP_LAST, KEEP_ALL

LEMMA NextTypeInv == TypeInv /\ [Next]_vars => TypeInv'
<1> SUFFICES ASSUME TypeInv, [Next]_vars PROVE TypeInv'
  OBVIOUS
<1> USE DEF TypeInv, TypeOK, KEEP_LAST, KEEP_ALL, transport, app
<1>1. CASE send_request
  BY <1>1 DEF send_request, AppMayCall, Requests
<1>2. ASSUME NEW q \in Requests, client_data_handler(q) PROVE TypeInv'
  <2>1. CASE delivered' = [delivered EXCEPT ![q] = @ + 1] /\ UNCHANGED handler
    BY <1>2, <2>1 DEF client_data_handler
  <2>2. CASE handler' = [handler EXCEPT ![q] = "checked"] /\ UNCHANGED delivered
    BY <1>2, <2>2 DEF client_data_handler
  <2>. QED  BY <1>2, <2>1, <2>2 DEF client_data_handler
<1>3. ASSUME NEW q \in Requests, add_new_reply(q) PROVE TypeInv'
  <2> DEFINE r == [q |-> q, n |-> delivered[q] + 1]
  <2>1. r \in Replies
    BY <1>3 DEF add_new_reply, Replies
  <2>2. QueueFull => reply_queue # <<>>
    BY DepthAssumption DEF QueueFull
  <2>3. reply_queue' \in Seq(Replies)
    BY <1>3, <2>1, <2>2 DEF add_new_reply
  <2>. QED  BY <1>3, <2>1, <2>3 DEF add_new_reply
<1>4. ASSUME NEW q \in Requests, client_data_drop(q) PROVE TypeInv'
  BY <1>4, DecrementType DEF client_data_drop
<1>5. CASE take_response
  BY <1>5 DEF take_response
<1>6. CASE queue_has_data_and_attach_condition_if_not
  BY <1>6 DEF queue_has_data_and_attach_condition_if_not
<1>7. CASE detach_condition_and_queue_is_empty
  BY <1>7 DEF detach_condition_and_queue_is_empty
<1>8. CASE shutdown
  BY <1>8 DEF shutdown, _shutdown
<1>9. CASE shutdown_and_query_in_flight
  BY <1>9 DEF shutdown_and_query_in_flight, _shutdown
<1>10. CASE UNCHANGED vars
  BY <1>10 DEF vars, transport, app
<1>. QED  BY <1>1, <1>2, <1>3, <1>4, <1>5, <1>6, <1>7, <1>8, <1>9, <1>10
          DEF Next

\* Every state of ClientData is well typed.
THEOREM TypeCorrect == Spec => []TypeOK
<1>1. Spec => []TypeInv
  BY InitTypeInv, NextTypeInv, PTL DEF Spec
<1>. QED  BY <1>1, PTL DEF TypeInv


-----------------------------------------------------------------------------
(* The reply queue as the newest part of the arrival history.              *)

\* Q is the last Len(Q) elements of A.
NewestOf(Q, A) ==
  /\ Len(Q) <= Len(A)
  /\ \A i \in 1..Len(Q) : Q[i] = A[Len(A) - Len(Q) + i]

\* add_new_reply below the depth: appending to both keeps Q the newest part.
LEMMA AppendKeepsNewest ==
  ASSUME NEW S, NEW Q \in Seq(S), NEW A \in Seq(S), NEW r \in S,
         NewestOf(Q, A)
  PROVE  NewestOf(Append(Q, r), Append(A, r))
BY DEF NewestOf

\* add_new_reply at the depth: dropping the oldest, then appending.
LEMMA EvictAppendKeepsNewest ==
  ASSUME NEW S, NEW Q \in Seq(S), NEW A \in Seq(S), NEW r \in S,
         Q # <<>>, NewestOf(Q, A)
  PROVE  NewestOf(Append(Tail(Q), r), Append(A, r))
<1>1. Len(Append(Tail(Q), r)) = Len(Q) /\ Len(Append(A, r)) = Len(A) + 1
  OBVIOUS
<1>2. ASSUME NEW i \in 1..Len(Q) - 1
      PROVE  Append(Tail(Q), r)[i] = Append(A, r)[Len(A) - Len(Q) + i + 1]
  <2>1. Append(Tail(Q), r)[i] = Q[i + 1]
    OBVIOUS
  <2>2. Q[i + 1] = A[Len(A) - Len(Q) + i + 1]
    BY DEF NewestOf
  <2>3. Len(A) - Len(Q) + i + 1 \in 1..Len(A)
    BY DEF NewestOf
  <2>. QED  BY <2>1, <2>2, <2>3
<1>3. Append(Tail(Q), r)[Len(Q)] = Append(A, r)[Len(A) + 1]
  OBVIOUS
<1>4. \A i \in 1..Len(Q) :
        Append(Tail(Q), r)[i] = Append(A, r)[Len(A) - Len(Q) + i + 1]
  <2>1. Len(Q) \in Nat /\ Len(A) \in Nat
    OBVIOUS
  <2>. TAKE i \in 1..Len(Q)
  <2>2. CASE i < Len(Q)
    <3>1. i \in 1..Len(Q) - 1
      BY <2>1, <2>2
    <3>. QED  BY <3>1, <1>2, Zenon
  <2>3. CASE i = Len(Q)
    <3>1. Len(A) - Len(Q) + i + 1 = Len(A) + 1
      BY <2>1, <2>3
    <3>. QED  BY <3>1, <2>3, <1>3, Zenon
  <2>4. i < Len(Q) \/ i = Len(Q)
    BY <2>1
  <2>. QED  BY <2>2, <2>3, <2>4, Zenon
<1>5. Len(Q) <= Len(A) + 1
  BY DEF NewestOf
<1>6. \A i \in 1..Len(Append(Tail(Q), r)) :
        Append(Tail(Q), r)[i]
          = Append(A, r)[Len(Append(A, r)) - Len(Append(Tail(Q), r)) + i]
  <2>. TAKE i \in 1..Len(Append(Tail(Q), r))
  <2>1. i \in 1..Len(Q)
    BY <1>1
  <2>2. Len(Append(A, r)) - Len(Append(Tail(Q), r)) + i = Len(A) - Len(Q) + i + 1
    BY <1>1, <2>1
  <2>. QED  BY <1>4, <2>1, <2>2, Zenon
<1>. QED  BY <1>1, <1>5, <1>6 DEF NewestOf

\* take_response: popping the front keeps the rest the newest part.
LEMMA PopKeepsNewest ==
  ASSUME NEW S, NEW Q \in Seq(S), NEW A \in Seq(S),
         Q # <<>>, NewestOf(Q, A)
  PROVE  NewestOf(Tail(Q), A)
<1>1. Len(Tail(Q)) = Len(Q) - 1 /\ \A i \in 1..Len(Q) - 1 : Tail(Q)[i] = Q[i + 1]
  OBVIOUS
<1>. QED  BY <1>1 DEF NewestOf

LEMMA InitQueue == Init => QueueHoldsNewestReplies
BY DEF Init, QueueHoldsNewestReplies

LEMMA NextQueue ==
  ASSUME TypeInv, QueueHoldsNewestReplies, [Next]_vars
  PROVE  QueueHoldsNewestReplies'
<1> USE DEF TypeInv, TypeOK
<1>9. QueueHoldsNewestReplies <=>
        NewestOf(reply_queue, arrived)
        /\ (history = KEEP_LAST => Len(reply_queue) <= Depth)
  BY DEF QueueHoldsNewestReplies, NewestOf
<1>1. ASSUME NEW q \in Requests, add_new_reply(q)
      PROVE  QueueHoldsNewestReplies'
  <2> DEFINE r == [q |-> q, n |-> delivered[q] + 1]
  <2>1. r \in Replies
    BY <1>1 DEF add_new_reply, Replies
  <2>2. CASE QueueFull
    <3>1. reply_queue # <<>> /\ history = KEEP_LAST /\ Len(reply_queue) = Depth
      BY <2>2, <1>9 DEF QueueFull, KEEP_LAST, KEEP_ALL
    <3>2. NewestOf(reply_queue', arrived')
      BY <1>1, <2>1, <2>2, <3>1, <1>9, EvictAppendKeepsNewest DEF add_new_reply
    <3>3. Len(reply_queue') = Depth /\ history' = history
      BY <1>1, <2>2, <3>1 DEF add_new_reply
    <3>. QED  BY <3>2, <3>3 DEF QueueHoldsNewestReplies, NewestOf
  <2>3. CASE ~QueueFull
    <3>1. history = KEEP_LAST => Len(reply_queue) < Depth
      BY <2>3 DEF QueueFull, KEEP_LAST, KEEP_ALL
    <3>2. NewestOf(reply_queue', arrived')
      BY <1>1, <2>1, <2>3, <1>9, AppendKeepsNewest DEF add_new_reply
    <3>3. Len(reply_queue') = Len(reply_queue) + 1 /\ history' = history
      BY <1>1, <2>3 DEF add_new_reply
    <3>. QED  BY <3>1, <3>2, <3>3 DEF QueueHoldsNewestReplies, NewestOf
  <2>. QED  BY <2>2, <2>3
<1>2. CASE take_response
  <2>1. NewestOf(reply_queue', arrived')
    BY <1>2, <1>9, PopKeepsNewest DEF take_response
  <2>2. Len(reply_queue') < Len(reply_queue) /\ history' = history
    BY <1>2 DEF take_response
  <2>. QED  BY <1>9, <2>1, <2>2 DEF QueueHoldsNewestReplies, NewestOf
<1>3. CASE UNCHANGED <<history, reply_queue, arrived>>
  BY <1>3 DEF QueueHoldsNewestReplies
<1>. QED
  BY <1>1, <1>2, <1>3
  DEF Next, vars, transport, app, send_request, client_data_handler,
      client_data_drop, queue_has_data_and_attach_condition_if_not,
      detach_condition_and_queue_is_empty, shutdown,
      shutdown_and_query_in_flight

(***************************************************************************)
(* add_new_reply's drop-oldest policy keeps the reply queue the newest,   *)
(* ordered part of what the handlers buffered, within the KEEP_LAST depth. *)
(***************************************************************************)
THEOREM QueueInvariant == Spec => []QueueHoldsNewestReplies
<1>1. Spec => []TypeInv
  BY InitTypeInv, NextTypeInv, PTL DEF Spec
<1>2. TypeInv /\ QueueHoldsNewestReplies /\ [Next]_vars
        => QueueHoldsNewestReplies'
  BY NextQueue
<1>. QED  BY <1>1, <1>2, InitQueue, PTL DEF Spec

-----------------------------------------------------------------------------
(* No lost wake-up.  NoLostWakeup is not inductive by itself: it needs    *)
(* that a blocked waiter has its wait set attached, so that the next      *)
(* add_new_reply triggers it.                                              *)

WakeupInv ==
  /\ waiter = "blocked" => wait_set_attached
  /\ NoLostWakeup

LEMMA NextWakeup == WakeupInv /\ [Next]_vars => WakeupInv'
<1> SUFFICES ASSUME WakeupInv, [Next]_vars PROVE WakeupInv'
  OBVIOUS
<1> USE DEF WakeupInv, NoLostWakeup, app, transport
<1>1. ASSUME NEW q \in Requests, add_new_reply(q) PROVE WakeupInv'
  BY <1>1 DEF add_new_reply
<1>2. CASE take_response
  BY <1>2 DEF take_response, AppMayCall
<1>3. CASE queue_has_data_and_attach_condition_if_not
  BY <1>3 DEF queue_has_data_and_attach_condition_if_not
<1>4. CASE detach_condition_and_queue_is_empty
  BY <1>4 DEF detach_condition_and_queue_is_empty
<1>5. CASE UNCHANGED <<reply_queue, wait_set_attached, triggered, waiter>>
  BY <1>5
<1>. QED
  BY <1>1, <1>2, <1>3, <1>4, <1>5
  DEF Next, vars, transport, app, send_request, client_data_handler,
      client_data_drop, shutdown, shutdown_and_query_in_flight

(***************************************************************************)
(* A waiter blocked in rmw_wait on this client while replies are buffered *)
(* has always been triggered by add_new_reply.                            *)
(***************************************************************************)
THEOREM NoLostWakeupTheorem == Spec => []NoLostWakeup
<1>1. Init => WakeupInv
  BY DEF Init, WakeupInv, NoLostWakeup
<1>2. Spec => []WakeupInv
  BY <1>1, NextWakeup, PTL DEF Spec
<1>. QED  BY <1>2, PTL DEF WakeupInv

-----------------------------------------------------------------------------
(* Refinement of the abstract reply store.  A step of add_new_reply is a  *)
(* Put only if its reply <<q, delivered[q] + 1>> has not arrived before,  *)
(* which holds because every reply that arrived is numbered within the    *)
(* count its query has delivered, and that count only grows.              *)

ArrivedDelivered ==
  \A i \in 1..Len(arrived) : arrived[i].n <= delivered[arrived[i].q]

LEMMA InitArrived == Init => ArrivedDelivered
BY DEF Init, ArrivedDelivered

LEMMA NextArrived ==
  ASSUME TypeInv, ArrivedDelivered, [Next]_vars
  PROVE  ArrivedDelivered'
<1>0. /\ arrived \in Seq(Replies)
      /\ delivered \in [Requests -> 0..MaxReplies]
      /\ \A i \in 1..Len(arrived) :
           /\ arrived[i].q \in Requests /\ arrived[i].n \in Nat
           /\ arrived[i].n <= delivered[arrived[i].q]
  <2>1. arrived \in Seq(Replies) /\ delivered \in [Requests -> 0..MaxReplies]
    BY DEF TypeInv, TypeOK
  <2>2. ASSUME NEW i \in 1..Len(arrived)
        PROVE  arrived[i].q \in Requests /\ arrived[i].n \in 1..MaxReplies
    <3>1. arrived[i] \in Replies
      BY <2>1
    <3>. QED  BY <3>1, Zenon DEF Replies
  <2>. QED  BY <2>1, <2>2 DEF ArrivedDelivered
<1>1. ASSUME NEW q \in Requests, add_new_reply(q) PROVE ArrivedDelivered'
  <2> DEFINE r == [q |-> q, n |-> delivered[q] + 1]
  <2>1. arrived' = Append(arrived, r)
        /\ delivered' = [delivered EXCEPT ![q] = @ + 1]
    BY <1>1 DEF add_new_reply
  <2>2. ASSUME NEW i \in 1..Len(arrived')
        PROVE  arrived'[i].n <= delivered'[arrived'[i].q]
    <3>1. CASE i \in 1..Len(arrived)
      <4>1. arrived'[i] = arrived[i]
        BY <1>0, <2>1, <3>1
      <4>2. delivered'[arrived[i].q] \in Nat
            /\ delivered'[arrived[i].q] >= delivered[arrived[i].q]
        BY <1>0, <2>1, <3>1
      <4>. QED  BY <1>0, <3>1, <4>1, <4>2
    <3>2. CASE i = Len(arrived) + 1
      BY <1>0, <2>1, <3>2
    <3>. QED  BY <1>0, <2>1, <3>1, <3>2
  <2>. QED  BY <2>2 DEF ArrivedDelivered
<1>2. ASSUME NEW q \in Requests, client_data_handler(q) PROVE ArrivedDelivered'
  <2>1. arrived' = arrived
    BY <1>2 DEF client_data_handler
  <2>2. \A x \in Requests : delivered'[x] \in Nat /\ delivered'[x] >= delivered[x]
    <3>1. CASE delivered' = [delivered EXCEPT ![q] = @ + 1]
      BY <1>0, <3>1
    <3>2. CASE UNCHANGED delivered
      BY <1>0, <3>2
    <3>. QED  BY <1>2, <3>1, <3>2 DEF client_data_handler
  <2>3. ASSUME NEW i \in 1..Len(arrived') PROVE arrived'[i].n <= delivered'[arrived'[i].q]
    BY <1>0, <2>1, <2>2
  <2>. QED  BY <2>3 DEF ArrivedDelivered
<1>3. CASE UNCHANGED <<arrived, delivered>>
  BY <1>3 DEF ArrivedDelivered
<1>. QED
  BY <1>1, <1>2, <1>3
  DEF Next, vars, transport, app, send_request, take_response,
      client_data_drop, queue_has_data_and_attach_condition_if_not,
      detach_condition_and_queue_is_empty, shutdown,
      shutdown_and_query_in_flight

\* Every step of ClientData is a step of the reply store or leaves it alone.
LEMMA StepRefines ==
  ASSUME TypeInv, ArrivedDelivered, [Next]_vars
  PROVE  [RB!Next]_RB!vars
<1> USE DEF TypeInv, TypeOK
<1>1. ASSUME NEW q \in Requests, add_new_reply(q) PROVE RB!Next
  <2> DEFINE r == [q |-> q, n |-> delivered[q] + 1]
  <2>1. r \in Replies
    BY <1>1 DEF add_new_reply, Replies
  <2>2. r \notin RB!Arrived
    <3> SUFFICES ASSUME NEW i \in 1..Len(arrived), arrived[i] = r PROVE FALSE
      BY DEF RB!Arrived
    <3>. QED  BY DEF ArrivedDelivered
  <2>3. QueueFull <=> (history = RB!KEEP_LAST /\ Len(reply_queue) >= Depth)
    BY DEF QueueFull, KEEP_LAST, KEEP_ALL, RB!KEEP_LAST
  <2>4. RB!Put(r)
    BY <1>1, <2>2, <2>3 DEF add_new_reply, RB!Put
  <2>. QED  BY <2>1, <2>4 DEF RB!Next
<1>2. CASE take_response
  BY <1>2 DEF take_response, RB!Take, RB!Next
<1>3. ASSUME shutdown \/ shutdown_and_query_in_flight PROVE [RB!Next]_RB!vars
  <2>1. is_shutdown' = (is_shutdown \/ is_shutdown')
        /\ UNCHANGED <<history, reply_queue, arrived, taken>>
    BY <1>3 DEF shutdown, shutdown_and_query_in_flight, _shutdown
  <2>2. CASE is_shutdown'
    BY <2>1, <2>2 DEF RB!Close, RB!Next
  <2>3. CASE ~is_shutdown'
    BY <2>1, <2>3 DEF RB!vars
  <2>. QED  BY <2>2, <2>3
<1>4. CASE UNCHANGED <<history, reply_queue, is_shutdown, arrived, taken>>
  BY <1>4 DEF RB!vars
<1>. QED
  BY <1>1, <1>2, <1>3, <1>4
  DEF Next, vars, transport, app, send_request, client_data_handler,
      client_data_drop, queue_has_data_and_attach_condition_if_not,
      detach_condition_and_queue_is_empty

(***************************************************************************)
(* ClientData, with its two-step reply handler, its wait set, its         *)
(* in-flight counter and its teardown, implements the abstract reply      *)
(* store: every reply is stored once, kept in arrival order within the    *)
(* KEEP_LAST depth, and handed out from the front until shutdown.         *)
(***************************************************************************)
THEOREM Refinement == Spec => ImplementsReplyBuffer
<1>1. Spec => [](TypeInv /\ ArrivedDelivered)
  <2>1. Init => TypeInv /\ ArrivedDelivered
    BY InitTypeInv, InitArrived
  <2>2. TypeInv /\ ArrivedDelivered /\ [Next]_vars
          => (TypeInv /\ ArrivedDelivered)'
    BY NextTypeInv, NextArrived
  <2>. QED  BY <2>1, <2>2, PTL DEF Spec
<1>2. Init => RB!Init
  BY DEF Init, RB!Init, KEEP_LAST, KEEP_ALL, RB!KEEP_LAST, RB!KEEP_ALL
<1>3. TypeInv /\ ArrivedDelivered /\ [Next]_vars => [RB!Next]_RB!vars
  BY StepRefines
<1>. QED  BY <1>1, <1>2, <1>3, PTL DEF Spec, ImplementsReplyBuffer, RB!Spec


-----------------------------------------------------------------------------
(* Replies are handed out in arrival order.  Every reply arrives once     *)
(* (ArrivedDelivered numbers it past every earlier reply of its query),   *)
(* so its arrival index is the one position it has in arrived.  The reply *)
(* queue then keeps, and take_response moves to the taken history, an     *)
(* order-preserving selection of the arrivals: add_new_reply drops only   *)
(* the queue's front and appends the newest.                               *)

\* Index of x in A, where x occurs once in A.
IndexIn(A, x) == CHOOSE i \in 1..Len(A) : A[i] = x

\* Every element of O occurs in A, and in the order of A.
InOrder(O, A) ==
  /\ \A i \in 1..Len(O) : \E j \in 1..Len(A) : A[j] = O[i]
  /\ \A i, j \in 1..Len(O) : i < j => IndexIn(A, O[i]) < IndexIn(A, O[j])

\* No two positions of A hold the same element.
NoRepeats(A) == \A i, j \in 1..Len(A) : A[i] = A[j] => i = j

ArrivedOnce == NoRepeats(arrived)

OrderInv ==
  /\ TypeInv
  /\ QueueHoldsNewestReplies
  /\ ArrivedDelivered
  /\ ArrivedOnce
  /\ TakenInArrivalOrder

\* The index of an element that occurs once is its position.
LEMMA IndexInIs ==
  ASSUME NEW S, NEW A \in Seq(S), NoRepeats(A), NEW i \in 1..Len(A)
  PROVE  IndexIn(A, A[i]) = i
<1>1. \E k \in 1..Len(A) : A[k] = A[i]
  OBVIOUS
<1>2. IndexIn(A, A[i]) \in 1..Len(A) /\ A[IndexIn(A, A[i])] = A[i]
  BY <1>1 DEF IndexIn
<1>. QED  BY <1>2 DEF NoRepeats

\* Appending an element that does not occur yet keeps a sequence repeat-free.
LEMMA NoRepeatsAppend ==
  ASSUME NEW S, NEW A \in Seq(S), NoRepeats(A), NEW r \in S,
         \A k \in 1..Len(A) : A[k] # r
  PROVE  NoRepeats(Append(A, r))
BY DEF NoRepeats

(***************************************************************************)
(* If D selects, in order, elements of O (D[i] = O[g[i]] with g strictly  *)
(* increasing) and O is in the order of A, then D followed by a new       *)
(* element r is in the order of A followed by r.                           *)
(***************************************************************************)
LEMMA SelectAppendInOrder ==
  ASSUME NEW S, NEW A \in Seq(S), NEW O \in Seq(S), NEW D \in Seq(S),
         NEW r \in S, NoRepeats(A), \A k \in 1..Len(A) : A[k] # r,
         InOrder(O, A),
         NEW g \in [1..Len(D) -> 1..Len(O)],
         \A i \in 1..Len(D) : D[i] = O[g[i]],
         \A i, j \in 1..Len(D) : i < j => g[i] < g[j]
  PROVE  InOrder(Append(D, r), Append(A, r))
<1> DEFINE A2 == Append(A, r)
           E == Append(D, r)
           Ix(i) == IndexIn(A, O[g[i]])
<1>1. A2 \in Seq(S) /\ NoRepeats(A2)
  BY NoRepeatsAppend
<1>2. /\ Len(A2) = Len(A) + 1 /\ A2[Len(A) + 1] = r
      /\ \A k \in 1..Len(A) : A2[k] = A[k]
      /\ Len(E) = Len(D) + 1 /\ E[Len(D) + 1] = r
      /\ \A i \in 1..Len(D) : E[i] = D[i]
  OBVIOUS
<1>3. ASSUME NEW i \in 1..Len(D)
      PROVE  /\ Ix(i) \in 1..Len(A) /\ A[Ix(i)] = E[i]
             /\ IndexIn(A2, E[i]) = Ix(i)
  <2>1. \E k \in 1..Len(A) : A[k] = O[g[i]]
    BY DEF InOrder
  <2>2. Ix(i) \in 1..Len(A) /\ A[Ix(i)] = O[g[i]]
    BY <2>1 DEF IndexIn
  <2>3. A2[Ix(i)] = E[i]
    BY <1>2, <2>2
  <2>4. Ix(i) \in 1..Len(A2)
    BY <1>2, <2>2
  <2>5. IndexIn(A2, A2[Ix(i)]) = Ix(i)
    BY <1>1, <2>4, IndexInIs, Zenon
  <2>. QED  BY <1>2, <2>2, <2>3, <2>5
<1>4. IndexIn(A2, E[Len(D) + 1]) = Len(A) + 1
  <2>1. Len(A) + 1 \in 1..Len(A2) /\ A2[Len(A) + 1] = E[Len(D) + 1]
    BY <1>2
  <2>2. IndexIn(A2, A2[Len(A) + 1]) = Len(A) + 1
    BY <1>1, <2>1, IndexInIs, Zenon
  <2>. QED  BY <2>1, <2>2
<1>5. ASSUME NEW i \in 1..Len(E) PROVE \E j \in 1..Len(A2) : A2[j] = E[i]
  <2>1. CASE i \in 1..Len(D)
    <3>1. Ix(i) \in 1..Len(A2) /\ A2[Ix(i)] = E[i]
      BY <2>1, <1>2, <1>3
    <3>. QED  BY <3>1
  <2>2. CASE i = Len(D) + 1
    <3>1. Len(A) + 1 \in 1..Len(A2) /\ A2[Len(A) + 1] = E[i]
      BY <2>2, <1>2
    <3>. QED  BY <3>1
  <2>3. i \in 1..Len(D) \/ i = Len(D) + 1
    BY <1>2
  <2>. QED  BY <2>1, <2>2, <2>3, Zenon
<1>6. ASSUME NEW i \in 1..Len(E), NEW j \in 1..Len(E), i < j
      PROVE  IndexIn(A2, E[i]) < IndexIn(A2, E[j])
  <2>1. i \in 1..Len(D)
    BY <1>2, <1>6
  <2>2. CASE j \in 1..Len(D)
    <3>1. g[i] < g[j] /\ g[i] \in 1..Len(O) /\ g[j] \in 1..Len(O)
      BY <2>1, <2>2, <1>6
    <3>2. Ix(i) < Ix(j)
      BY <3>1 DEF InOrder
    <3>. QED  BY <3>2, <2>1, <2>2, <1>3
  <2>3. CASE j = Len(D) + 1
    BY <2>1, <2>3, <1>3, <1>4
  <2>. QED  BY <2>2, <2>3, <1>2
<1>. QED  BY <1>5, <1>6 DEF InOrder

\* add_new_reply's reply has not arrived before, and every step keeps the
\* taken-then-queued replies an ordered selection of the arrivals.
LEMMA NextOrder ==
  ASSUME OrderInv, [Next]_vars
  PROVE  ArrivedOnce' /\ TakenInArrivalOrder'
<1> DEFINE out == taken \o reply_queue
<1>0. /\ reply_queue \in Seq(Replies) /\ arrived \in Seq(Replies)
      /\ taken \in Seq(Replies) /\ out \in Seq(Replies)
      /\ delivered \in [Requests -> 0..MaxReplies]
      /\ NoRepeats(arrived) /\ InOrder(out, arrived)
      /\ history = KEEP_ALL => out = arrived
  <2>1. /\ reply_queue \in Seq(Replies) /\ arrived \in Seq(Replies)
        /\ taken \in Seq(Replies) /\ delivered \in [Requests -> 0..MaxReplies]
    BY DEF OrderInv, TypeInv, TypeOK
  <2>2. out \in Seq(Replies)
    BY <2>1
  <2>3. NoRepeats(arrived)
    BY DEF OrderInv, ArrivedOnce
  <2>4. InOrder(out, arrived) /\ (history = KEEP_ALL => out = arrived)
    BY DEF OrderInv, TakenInArrivalOrder, InOrder, IndexIn, ArrivalIndex
  <2>. QED  BY <2>1, <2>2, <2>3, <2>4
<1>9. TakenInArrivalOrder' <=>
        /\ InOrder(taken' \o reply_queue', arrived')
        /\ history' = KEEP_ALL => taken' \o reply_queue' = arrived'
  BY DEF TakenInArrivalOrder, InOrder, IndexIn, ArrivalIndex
<1>1. ASSUME NEW q \in Requests, add_new_reply(q)
      PROVE  ArrivedOnce' /\ TakenInArrivalOrder'
  <2> DEFINE r == [q |-> q, n |-> delivered[q] + 1]
  <2>1. /\ r \in Replies
        /\ arrived' = Append(arrived, r) /\ taken' = taken /\ history' = history
        /\ reply_queue' = Append(IF QueueFull THEN Tail(reply_queue)
                                             ELSE reply_queue, r)
    BY <1>1 DEF add_new_reply, OrderInv, TypeInv, TypeOK, Replies
  <2>2. \A k \in 1..Len(arrived) : arrived[k] # r
    BY <1>0 DEF OrderInv, ArrivedDelivered
  <2>3. ArrivedOnce'
    BY <1>0, <2>1, <2>2, NoRepeatsAppend DEF ArrivedOnce
  <2>4. CASE QueueFull
    <3> DEFINE D == taken \o Tail(reply_queue)
               g == [i \in 1..Len(D) |-> IF i <= Len(taken) THEN i ELSE i + 1]
    <3>1. reply_queue # <<>> /\ history # KEEP_ALL
      BY <2>4, DepthAssumption DEF QueueFull
    <3>2. D \in Seq(Replies) /\ taken' \o reply_queue' = Append(D, r)
      BY <1>0, <2>1, <2>4, <3>1
    <3>3. /\ g \in [1..Len(D) -> 1..Len(out)]
          /\ \A i \in 1..Len(D) : D[i] = out[g[i]]
          /\ \A i, j \in 1..Len(D) : i < j => g[i] < g[j]
      BY <1>0, <3>1
    <3>4. InOrder(Append(D, r), Append(arrived, r))
      BY <1>0, <2>1, <2>2, <3>2, <3>3, SelectAppendInOrder
    <3>. QED  BY <1>9, <2>1, <2>3, <3>1, <3>2, <3>4
  <2>5. CASE ~QueueFull
    <3> DEFINE g == [i \in 1..Len(out) |-> i]
    <3>1. taken' \o reply_queue' = Append(out, r)
      BY <1>0, <2>1, <2>5
    <3>2. /\ g \in [1..Len(out) -> 1..Len(out)]
          /\ \A i \in 1..Len(out) : out[i] = out[g[i]]
          /\ \A i, j \in 1..Len(out) : i < j => g[i] < g[j]
      OBVIOUS
    <3>3. InOrder(Append(out, r), Append(arrived, r))
      BY <1>0, <2>1, <2>2, <3>2, SelectAppendInOrder
    <3>4. history' = KEEP_ALL => taken' \o reply_queue' = arrived'
      BY <1>0, <2>1, <3>1
    <3>. QED  BY <1>9, <2>1, <2>3, <3>1, <3>3, <3>4
  <2>. QED  BY <2>4, <2>5
<1>2. CASE take_response
  <2>1. /\ reply_queue # <<>>
        /\ taken' \o reply_queue' = out
        /\ UNCHANGED <<arrived, history>>
    BY <1>0, <1>2 DEF take_response
  <2>. QED  BY <1>0, <1>9, <2>1 DEF ArrivedOnce
<1>3. CASE UNCHANGED <<history, reply_queue, arrived, taken>>
  BY <1>0, <1>3, <1>9 DEF ArrivedOnce
<1>. QED
  BY <1>1, <1>2, <1>3
  DEF Next, vars, transport, app, send_request, client_data_handler,
      client_data_drop, queue_has_data_and_attach_condition_if_not,
      detach_condition_and_queue_is_empty, shutdown,
      shutdown_and_query_in_flight

LEMMA InitOrder == Init => OrderInv
<1> SUFFICES ASSUME Init PROVE OrderInv
  OBVIOUS
<1>1. TypeInv /\ QueueHoldsNewestReplies /\ ArrivedDelivered
  BY InitTypeInv, InitQueue, InitArrived
<1>2. ArrivedOnce /\ TakenInArrivalOrder
  BY DEF Init, ArrivedOnce, NoRepeats, TakenInArrivalOrder
<1>. QED  BY <1>1, <1>2 DEF OrderInv

LEMMA NextOrderInv == OrderInv /\ [Next]_vars => OrderInv'
<1> SUFFICES ASSUME OrderInv, [Next]_vars PROVE OrderInv'
  OBVIOUS
<1>1. TypeInv' /\ ArrivedDelivered'
  BY NextTypeInv, NextArrived DEF OrderInv
<1>2. QueueHoldsNewestReplies'
  BY NextQueue DEF OrderInv
<1>. QED  BY <1>1, <1>2, NextOrder DEF OrderInv

(***************************************************************************)
(* take_response hands replies out in the order add_new_reply buffered    *)
(* them, none twice, and under KEEP_ALL none is lost: the replies taken   *)
(* followed by those still queued are, in order, replies that arrived,    *)
(* and are all of them when nothing can be evicted.                        *)
(***************************************************************************)
THEOREM TakenInArrivalOrderTheorem == Spec => []TakenInArrivalOrder
<1>1. OrderInv => TakenInArrivalOrder
  BY DEF OrderInv
<1>. QED  BY <1>1, InitOrder, NextOrderInv, PTL DEF Spec

-----------------------------------------------------------------------------
(* What num_in_flight_ counts.  The counter is carried as n + c = k * 2^w  *)
(* for some k, c the finished queries, so the steps need only the wrap of *)
(* one decrement; the % form follows at the end.  SentBelow says the      *)
(* query send_request issues is a fresh one, so issuing never un-finishes *)
(* a query.                                                                *)

Dropped == {q \in Requests : phase[q] = "dropped"}

SentBelow == \A q \in Requests : q >= sequence_number => phase[q] = "unsent"

CountInv ==
  /\ TypeInv
  /\ SentBelow
  /\ \E k \in Nat : num_in_flight + Cardinality(Dropped) = k * SizeModulus

\* A multiple of M is 0 modulo M.
LEMMA MultipleMod ==
  ASSUME NEW M \in Nat \ {0}, NEW k \in Nat
  PROVE  (k * M) % M = 0
BY Z3

\* One wrapping decrement and one more finished query keep the sum a
\* multiple of M: from 0 it wraps to M - 1, adding one M.
LEMMA WrapKeepsMultiple ==
  ASSUME NEW M \in Nat \ {0}, NEW n \in 0..(M - 1), NEW c \in Nat, NEW k \in Nat,
         n + c = k * M
  PROVE  \E j \in Nat : ((n + M - 1) % M) + (c + 1) = j * M
<1>1. CASE n = 0
  <2>1. (n + M - 1) % M = M - 1
    BY <1>1
  <2>2. k + 1 \in Nat /\ ((n + M - 1) % M) + (c + 1) = (k + 1) * M
    BY <1>1, <2>1
  <2>. QED  BY <2>2
<1>2. CASE n # 0
  <2>1. (n + M - 1) % M = n - 1
    BY <1>2
  <2>2. ((n + M - 1) % M) + (c + 1) = k * M
    BY <2>1
  <2>. QED  BY <2>2
<1>. QED  BY <1>1, <1>2

\* The finished queries form a finite set of requests.
LEMMA DroppedFinite == IsFiniteSet(Dropped) /\ Cardinality(Dropped) \in Nat
<1>1. IsFiniteSet(Requests)
  BY FS_Interval DEF Requests
<1>2. IsFiniteSet(Dropped)
  BY <1>1, FS_Subset DEF Dropped
<1>. QED  BY <1>2, FS_CardinalityType

LEMMA InitCountInv == Init => CountInv
<1> SUFFICES ASSUME Init PROVE CountInv
  OBVIOUS
<1>1. TypeInv
  BY InitTypeInv
<1>2. Dropped = {}
  BY DEF Init, Dropped
<1>3. 0 \in Nat /\ num_in_flight + Cardinality(Dropped) = 0 * SizeModulus
  BY <1>2, FS_EmptySet, SizeModulusPositive DEF Init
<1>. QED  BY <1>1, <1>3 DEF CountInv, SentBelow, Init

\* send_request opens a fresh query; client_data_drop finishes an open
\* one with one wrapping decrement; no other step touches the count, the
\* phases or the sequence number.
LEMMA NextCountInv == CountInv /\ [Next]_vars => CountInv'
<1> SUFFICES ASSUME CountInv, [Next]_vars PROVE CountInv'
  OBVIOUS
<1>0. /\ TypeInv'
      /\ sequence_number \in 1..(MaxRequests + 1)
      /\ phase \in [Requests -> {"unsent", "open", "dropped"}]
      /\ num_in_flight \in 0..(SizeModulus - 1)
      /\ SizeModulus \in Nat \ {0}
      /\ IsFiniteSet(Dropped) /\ Cardinality(Dropped) \in Nat
  BY NextTypeInv, SizeModulusPositive, DroppedFinite DEF CountInv, TypeInv, TypeOK
<1>1. PICK k \in Nat : num_in_flight + Cardinality(Dropped) = k * SizeModulus
  BY DEF CountInv
<1>2. CASE send_request
  <2>1. sequence_number \in Requests /\ phase[sequence_number] = "unsent"
    BY <1>0, <1>2 DEF send_request, CountInv, SentBelow, Requests
  <2>2. Dropped' = Dropped
    BY <1>0, <1>2, <2>1 DEF send_request, Dropped
  <2>3. SentBelow'
    <3> SUFFICES ASSUME NEW r \in Requests, r >= sequence_number'
                 PROVE  phase'[r] = "unsent"
      BY DEF SentBelow
    <3>1. r # sequence_number /\ r >= sequence_number
      BY <1>0, <1>2 DEF send_request, Requests
    <3>2. phase'[r] = phase[r]
      BY <1>0, <1>2, <3>1 DEF send_request
    <3>. QED  BY <3>1, <3>2 DEF CountInv, SentBelow
  <2>. QED  BY <1>0, <1>1, <1>2, <2>2, <2>3 DEF send_request, CountInv
<1>3. ASSUME NEW q \in Requests, client_data_drop(q) PROVE CountInv'
  <2>1. q \notin Dropped /\ Dropped' = Dropped \cup {q}
    BY <1>0, <1>3 DEF client_data_drop, Dropped
  <2>2. Cardinality(Dropped') = Cardinality(Dropped) + 1
    BY <1>0, <2>1, FS_AddElement
  <2>3. num_in_flight' = (num_in_flight + SizeModulus - 1) % SizeModulus
    BY <1>3 DEF client_data_drop, Decrement
  <2>4. \E j \in Nat : num_in_flight' + Cardinality(Dropped') = j * SizeModulus
    <3>1. \E j \in Nat : ((num_in_flight + SizeModulus - 1) % SizeModulus)
                           + (Cardinality(Dropped) + 1) = j * SizeModulus
      BY <1>0, <1>1, WrapKeepsMultiple
    <3>. QED  BY <3>1, <2>2, <2>3
  <2>5. SentBelow'
    BY <1>0, <1>3 DEF client_data_drop, CountInv, SentBelow
  <2>. QED  BY <1>0, <2>4, <2>5 DEF CountInv
<1>4. CASE UNCHANGED <<phase, num_in_flight, sequence_number>>
  <2>1. Dropped' = Dropped
    BY <1>4 DEF Dropped
  <2>. QED  BY <1>0, <1>1, <1>4, <2>1 DEF CountInv, SentBelow
<1>. QED
  BY <1>2, <1>3, <1>4
  DEF Next, vars, transport, app, client_data_handler, add_new_reply,
      take_response, queue_has_data_and_attach_condition_if_not,
      detach_condition_and_queue_is_empty, shutdown,
      shutdown_and_query_in_flight

(***************************************************************************)
(* For every width w of size_t: num_in_flight_, which send_request never  *)
(* increments and client_data_drop decrements with wrap-around, plus the  *)
(* number of finished queries is a multiple of 2^w.  So while fewer than  *)
(* 2^w queries have finished the counter is zero only when none has:      *)
(* rmw_destroy_client frees a client whose queries are all still open,    *)
(* and after one drop no later drop can bring the count back to zero.     *)
(***************************************************************************)
THEOREM InFlightCountsDropsTheorem == Spec => []InFlightCountsDrops
<1>1. CountInv => InFlightCountsDrops
  <2> SUFFICES ASSUME CountInv PROVE InFlightCountsDrops
    OBVIOUS
  <2>1. PICK k \in Nat : num_in_flight + Cardinality(Dropped) = k * SizeModulus
    BY DEF CountInv
  <2>. QED  BY <2>1, SizeModulusPositive, MultipleMod
            DEF InFlightCountsDrops, Dropped
<1>. QED  BY <1>1, InitCountInv, NextCountInv, PTL DEF Spec

=============================================================================
