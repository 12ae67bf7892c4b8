-------------------------- MODULE GraphContextProofs --------------------------
(***************************************************************************)
(* Proofs about the session context's graph view, for every set of tokens *)
(* and every bound.                                                        *)
(***************************************************************************)
EXTENDS GraphContext, TLAPS

USE MaxChangesAssumption, MaxEntityIdsAssumption

\* The bootstrap snapshot starts typed, and every step keeps it so.
LEMMA InitTypeOK == Init => TypeOK
<1> SUFFICES ASSUME Init PROVE TypeOK
  OBVIOUS
<1>1. alive \subseteq Tokens /\ replies \subseteq Tokens
  BY DEF Init
<1>2. samples \in Seq(Samples) /\ inflight \in Samples \cup {NoSample}
  BY DEF Init
<1>3. changes \in 0..MaxChanges /\ next_entity_id \in 0..MaxEntityIds
  BY DEF Init
<1>4. cache \subseteq Tokens /\ changed_since_sub \subseteq Tokens
  BY DEF Init
<1>5. stage \in {"querying", "constructed", "subscribed", "failed"}
      /\ subscriber_declared \in BOOLEAN /\ is_shutdown \in BOOLEAN
  BY DEF Init
<1>6. guard \in {"live", "freed"} /\ lifetime \in {"alive", "destroying", "destroyed"}
  BY DEF Init
<1>. QED  BY <1>1, <1>2, <1>3, <1>4, <1>5, <1>6, Zenon DEF TypeOK

LEMMA NextTypeOK == TypeOK /\ [Next]_vars => TypeOK'
<1> SUFFICES ASSUME TypeOK, [Next]_vars PROVE TypeOK'
  OBVIOUS
<1> USE DEF TypeOK, parse_put, parse_del, lifecycle
<1>1. ASSUME NEW t \in Tokens, bootstrap_reply(t) PROVE TypeOK'
  BY <1>1 DEF bootstrap_reply
<1>2. CASE bootstrap_done
  BY <1>2 DEF bootstrap_done
<1>3. CASE subscribe
  BY <1>3 DEF subscribe
<1>4. ASSUME NEW t \in Tokens, network_change(t) PROVE TypeOK'
  <2>1. [kind |-> IF t \in alive THEN "del" ELSE "put", token |-> t] \in Samples
    BY DEF Samples
  <2>2. samples' \in Seq(Samples)
    BY <1>4, <2>1 DEF network_change
  <2>3. alive' \subseteq Tokens /\ changed_since_sub' \subseteq Tokens
    BY <1>4 DEF network_change
  <2>4. changes' \in 0..MaxChanges
    BY <1>4 DEF network_change
  <2>. QED  BY <1>4, <2>2, <2>3, <2>4 DEF network_change
<1>5. CASE deliver
  <2>1. Head(samples) \in Samples /\ Tail(samples) \in Seq(Samples)
    BY <1>5 DEF deliver
  <2>. QED  BY <1>5, <2>1 DEF deliver
<1>6. CASE graph_sub_data_handler
  <2>1. inflight.token \in Tokens
    BY <1>6 DEF graph_sub_data_handler, Samples
  <2>2. cache' \subseteq Tokens
    BY <1>6, <2>1 DEF graph_sub_data_handler
  <2>. QED  BY <1>6, <2>2 DEF graph_sub_data_handler
<1>7. CASE shutdown
  <2>1. samples' \in Seq(Samples) /\ is_shutdown' \in BOOLEAN
    BY <1>7 DEF shutdown, CloseSession
  <2>. QED  BY <1>7, <2>1 DEF shutdown, CloseSession
<1>8. CASE get_next_entity_id
  BY <1>8 DEF get_next_entity_id
<1>9. CASE data_free_guard
  BY <1>9 DEF data_free_guard
<1>10. CASE data_destroy
  <2>1. CASE is_shutdown
    BY <1>10, <2>1 DEF data_destroy
  <2>2. CASE ~is_shutdown
    <3>1. CloseSession
      BY <1>10, <2>2 DEF data_destroy
    <3>2. lifetime' = "destroyed" /\ UNCHANGED <<guard, alive, changes, stage,
              replies, cache, inflight, next_entity_id, changed_since_sub>>
      BY <1>10 DEF data_destroy
    <3>3. samples' \in Seq(Samples)
      BY <3>1 DEF CloseSession
    <3>4. is_shutdown' \in BOOLEAN /\ subscriber_declared' \in BOOLEAN
      BY <3>1, Zenon DEF CloseSession
    <3>. QED  BY <3>2, <3>3, <3>4
  <2>. QED  BY <2>1, <2>2
<1>11. CASE UNCHANGED vars
  BY <1>11 DEF vars
<1>. QED  BY <1>1, <1>2, <1>3, <1>4, <1>5, <1>6, <1>7, <1>8, <1>9, <1>10, <1>11
          DEF Next

(***************************************************************************)
(* Every reachable state of the context model is well typed: the cache    *)
(* and the bootstrap replies are sets of tokens, the subscriber's queue   *)
(* and the sample in transit are liveliness samples.                       *)
(***************************************************************************)
THEOREM TypeCorrect == Spec => []TypeOK
BY InitTypeOK, NextTypeOK, PTL DEF Spec

-----------------------------------------------------------------------------
(***************************************************************************)
(* The lifecycle invariant.  Until subscribe() succeeds nothing is queued *)
(* or in transit; a shut-down context has no subscriber and was           *)
(* subscribed or failed; the guard condition is freed only for a failed   *)
(* context or a subscribed one already shut down.  is_shutdown_ is never  *)
(* cleared and the stage never moves back, which makes this inductive.    *)
(* ~Data's second step needs the guard freed by its first.                 *)
(***************************************************************************)
NotSubscribedQuiet ==
  stage \in {"querying", "constructed", "failed"} =>
    /\ ~subscriber_declared
    /\ samples = <<>>
    /\ inflight = NoSample

ShutdownUnsubscribed ==
  is_shutdown => ~subscriber_declared /\ stage \in {"subscribed", "failed"}

FreedAfterRelease ==
  guard = "freed" =>
    /\ stage \in {"subscribed", "failed"}
    /\ stage = "subscribed" => is_shutdown

ReleasedFreedGuard == lifetime # "alive" => guard = "freed"

LifecycleInv ==
  NotSubscribedQuiet /\ ShutdownUnsubscribed /\ FreedAfterRelease
  /\ ReleasedFreedGuard

LEMMA InitLifecycleInv == Init => LifecycleInv
BY DEF Init, LifecycleInv, NotSubscribedQuiet, ShutdownUnsubscribed,
       FreedAfterRelease, ReleasedFreedGuard

LEMMA NextLifecycleInv == LifecycleInv /\ [Next]_vars => LifecycleInv'
<1> SUFFICES ASSUME LifecycleInv, [Next]_vars PROVE LifecycleInv'
  OBVIOUS
<1> USE DEF LifecycleInv, NotSubscribedQuiet, ShutdownUnsubscribed,
            FreedAfterRelease, ReleasedFreedGuard, lifecycle
<1>1. ASSUME NEW t \in Tokens, bootstrap_reply(t) PROVE LifecycleInv'
  BY <1>1 DEF bootstrap_reply, parse_put
<1>2. CASE bootstrap_done
  BY <1>2 DEF bootstrap_done
<1>3. CASE subscribe
  BY <1>3 DEF subscribe
<1>4. ASSUME NEW t \in Tokens, network_change(t) PROVE LifecycleInv'
  BY <1>4 DEF network_change
<1>5. CASE deliver
  BY <1>5 DEF deliver
<1>6. CASE graph_sub_data_handler
  BY <1>6 DEF graph_sub_data_handler, parse_put, parse_del
<1>7. CASE shutdown
  BY <1>7 DEF shutdown, CloseSession
<1>8. CASE get_next_entity_id
  BY <1>8 DEF get_next_entity_id
<1>9. CASE data_free_guard
  BY <1>9 DEF data_free_guard, ReleaseAllowed
<1>10. CASE data_destroy
  <2>1. CASE is_shutdown
    BY <1>10, <2>1 DEF data_destroy
  <2>2. CASE ~is_shutdown
    <3>1. CloseSession /\ UNCHANGED <<guard, stage, inflight>>
          /\ lifetime' = "destroyed"
      BY <1>10, <2>2 DEF data_destroy
    <3>2. guard = "freed" /\ stage = "failed" /\ inflight = NoSample
      BY <1>10, <2>2 DEF data_destroy
    <3>3. subscriber_declared' = FALSE /\ samples' = <<>>
      BY <3>1 DEF CloseSession
    <3>. QED  BY <3>1, <3>2, <3>3, Zenon
  <2>. QED  BY <2>1, <2>2
<1>11. CASE UNCHANGED vars
  BY <1>11 DEF vars
<1>. QED  BY <1>1, <1>2, <1>3, <1>4, <1>5, <1>6, <1>7, <1>8, <1>9, <1>10, <1>11
          DEF Next

(***************************************************************************)
(* ~Data frees the graph guard condition, without the mutex, only when no *)
(* graph_sub_data_handler can reach rmw_trigger_guard_condition any more: *)
(* the subscriber is undeclared and either the context is shut down or no *)
(* sample is in transit.  It rests on rmw_context_fini refusing a context *)
(* that is not shut down.                                                  *)
(***************************************************************************)
THEOREM GuardFreedTheorem == Spec => []GuardFreedOnlyWhenQuiescent
<1>1. LifecycleInv => GuardFreedOnlyWhenQuiescent
  BY DEF LifecycleInv, NotSubscribedQuiet, ShutdownUnsubscribed,
         FreedAfterRelease, GuardFreedOnlyWhenQuiescent
<1>. QED  BY <1>1, InitLifecycleInv, NextLifecycleInv, PTL DEF Spec

-----------------------------------------------------------------------------
(* The cache follows the network.  Knows(U, C, t) says whether t is in    *)
(* cache C once the samples U are applied; three lemmas say how it moves  *)
(* when a sample is queued and when the oldest one is applied.            *)

\* Queueing a sample about another token does not change what is known of t.
LEMMA KnowsAppendOther ==
  ASSUME NEW U \in Seq(Samples), NEW C, NEW t, NEW x \in Samples, x.token # t
  PROVE  Knows(Append(U, x), C, t) <=> Knows(U, C, t)
<1> DEFINE W == Append(U, x)
<1>1. Len(W) = Len(U) + 1 /\ W[Len(U) + 1] = x
      /\ \A i \in 1..Len(U) : W[i] = U[i]
  OBVIOUS
<1>2. (\A i \in 1..Len(W) : W[i].token # t) <=> (\A i \in 1..Len(U) : U[i].token # t)
  BY <1>1
<1>3. (\E i \in 1..Len(W) : /\ W[i] = [kind |-> "put", token |-> t]
                            /\ \A j \in (i + 1)..Len(W) : W[j].token # t)
      <=> (\E i \in 1..Len(U) : /\ U[i] = [kind |-> "put", token |-> t]
                                /\ \A j \in (i + 1)..Len(U) : U[j].token # t)
  BY <1>1
<1>. QED  BY <1>2, <1>3 DEF Knows

\* After queueing a sample about t, t will be known exactly if it is a put.
LEMMA KnowsAppendSame ==
  ASSUME NEW U \in Seq(Samples), NEW C, NEW t, NEW x \in Samples, x.token = t
  PROVE  Knows(Append(U, x), C, t) <=> x.kind = "put"
<1> DEFINE W == Append(U, x)
<1>1. Len(W) = Len(U) + 1 /\ W[Len(U) + 1] = x
      /\ \A i \in 1..Len(U) : W[i] = U[i]
  OBVIOUS
<1>2. x.kind = "put" <=> x = [kind |-> "put", token |-> t]
  BY DEF Samples
<1>3. ASSUME NEW i \in 1..Len(W), \A j \in (i + 1)..Len(W) : W[j].token # t
      PROVE  i = Len(U) + 1
  BY <1>1, <1>3
<1>. QED  BY <1>1, <1>2, <1>3 DEF Knows

\* Applying the oldest queued sample x to cache C, giving C2, does not
\* change whether t will be known once the rest V is applied.
LEMMA KnowsApplyHead ==
  ASSUME NEW V \in Seq(Samples), NEW C, NEW C2, NEW t, NEW x \in Samples,
         (t \in C2) <=> (IF x.token = t THEN x.kind = "put" ELSE t \in C)
  PROVE  Knows(<<x>> \o V, C, t) <=> Knows(V, C2, t)
<1> DEFINE U == <<x>> \o V
           P == [kind |-> "put", token |-> t]
<1>1. /\ Len(U) = Len(V) + 1 /\ U[1] = x
      /\ \A i \in 1..Len(V) : U[i + 1] = V[i]
  OBVIOUS
<1>2. x.kind = "put" /\ x.token = t <=> x = P
  BY DEF Samples
<1>3. CASE \E k \in 1..Len(V) : V[k].token = t
  <2>1. PICK k \in 1..Len(V) : V[k].token = t
    BY <1>3
  <2>2. k + 1 \in 2..Len(U) /\ U[k + 1].token = t
    BY <1>1, <2>1
  <2>3. ~(\A i \in 1..Len(U) : U[i].token # t) /\ ~(\A i \in 1..Len(V) : V[i].token # t)
    <3>1. k + 1 \in 1..Len(U)
      BY <2>2
    <3>. QED  BY <3>1, <2>1, <2>2, Zenon
  <2>4. ASSUME NEW i \in 1..Len(U), U[i] = P, \A j \in (i + 1)..Len(U) : U[j].token # t
        PROVE  /\ i - 1 \in 1..Len(V) /\ V[i - 1] = P
               /\ \A j \in i..Len(V) : V[j].token # t
    <3>1. i # 1
      <4>1. SUFFICES ASSUME i = 1 PROVE FALSE
        OBVIOUS
      <4>2. k + 1 \in (i + 1)..Len(U)
        BY <4>1, <2>2
      <4>. QED  BY <4>2, <2>2, <2>4, Zenon
    <3>2. i - 1 \in 1..Len(V) /\ V[i - 1] = U[i]
      BY <3>1, <1>1
    <3>3. ASSUME NEW j \in i..Len(V) PROVE V[j].token # t
      <4>1. j + 1 \in (i + 1)..Len(U) /\ U[j + 1] = V[j]
        BY <1>1
      <4>. QED  BY <4>1, <2>4
    <3>. QED  BY <3>2, <3>3, <2>4
  <2>5. ASSUME NEW i \in 1..Len(V), V[i] = P, \A j \in (i + 1)..Len(V) : V[j].token # t
        PROVE  /\ i + 1 \in 1..Len(U) /\ U[i + 1] = P
               /\ \A j \in (i + 2)..Len(U) : U[j].token # t
    <3>1. i + 1 \in 1..Len(U) /\ U[i + 1] = V[i]
      BY <1>1
    <3>2. ASSUME NEW j \in (i + 2)..Len(U) PROVE U[j].token # t
      <4>1. j - 1 \in (i + 1)..Len(V) /\ U[j] = V[j - 1]
        BY <1>1
      <4>. QED  BY <4>1, <2>5
    <3>. QED  BY <3>1, <3>2, <2>5
  <2>6. Knows(U, C, t) <=> \E i \in 1..Len(U) : /\ U[i] = P
                                                /\ \A j \in (i + 1)..Len(U) : U[j].token # t
    BY <2>3 DEF Knows
  <2>7. Knows(V, C2, t) <=> \E i \in 1..Len(V) : /\ V[i] = P
                                                 /\ \A j \in (i + 1)..Len(V) : V[j].token # t
    BY <2>3 DEF Knows
  <2>8. ASSUME Knows(U, C, t) PROVE Knows(V, C2, t)
    <3>1. PICK i \in 1..Len(U) : /\ U[i] = P
                                 /\ \A j \in (i + 1)..Len(U) : U[j].token # t
      BY <2>6, <2>8
    <3>2. /\ i - 1 \in 1..Len(V) /\ V[i - 1] = P
          /\ \A j \in i..Len(V) : V[j].token # t
      BY <3>1, <2>4
    <3>3. ((i - 1) + 1)..Len(V) = i..Len(V)
      OBVIOUS
    <3>. QED  BY <3>2, <3>3, <2>7
  <2>9. ASSUME Knows(V, C2, t) PROVE Knows(U, C, t)
    <3>1. PICK i \in 1..Len(V) : /\ V[i] = P
                                 /\ \A j \in (i + 1)..Len(V) : V[j].token # t
      BY <2>7, <2>9
    <3>2. /\ i + 1 \in 1..Len(U) /\ U[i + 1] = P
          /\ \A j \in (i + 1 + 1)..Len(U) : U[j].token # t
      BY <3>1, <2>5
    <3>. QED  BY <3>2, <2>6
  <2>. QED  BY <2>8, <2>9
<1>4. CASE \A k \in 1..Len(V) : V[k].token # t
  <2>1. Knows(V, C2, t) <=> t \in C2
    BY <1>4 DEF Knows
  <2>2. CASE x.token = t
    <3>1. ~(\A i \in 1..Len(U) : U[i].token # t)
      BY <1>1, <2>2
    <3>2. ASSUME NEW i \in 1..Len(U), U[i] = P PROVE i = 1
      <4>1. SUFFICES ASSUME i # 1 PROVE FALSE
        OBVIOUS
      <4>2. i - 1 \in 1..Len(V) /\ U[i] = V[i - 1]
        BY <4>1, <1>1
      <4>. QED  BY <4>2, <3>2, <1>4
    <3>3. Knows(U, C, t) <=> U[1] = P
      <4>1. Knows(U, C, t) <=> \E i \in 1..Len(U) : /\ U[i] = P
                                                    /\ \A j \in (i + 1)..Len(U) : U[j].token # t
        BY <3>1 DEF Knows
      <4>2. \A j \in 2..Len(U) : U[j].token # t
        BY <1>1, <1>4
      <4>. QED  BY <4>1, <4>2, <3>2, <1>1
    <3>. QED  BY <3>3, <2>1, <2>2, <1>1, <1>2
  <2>3. CASE x.token # t
    <3>1. \A i \in 1..Len(U) : U[i].token # t
      BY <1>1, <1>4, <2>3
    <3>2. Knows(U, C, t) <=> t \in C
      BY <3>1 DEF Knows
    <3>. QED  BY <3>2, <2>1, <2>3
  <2>. QED  BY <2>2, <2>3
<1>. QED  BY <1>3, <1>4

(***************************************************************************)
(* The subscription invariant.  Nothing is recorded as changed before     *)
(* subscribe() succeeds; with LifecycleInv (no sample queued or in        *)
(* transit until then) this makes SubscribedTokensTracked inductive: the  *)
(* queue starts empty when the subscriber is declared, so the cache, the  *)
(* bootstrap snapshot, already agrees with the network on every token.    *)
(***************************************************************************)
NoChangesBeforeSubscribe ==
  stage \in {"querying", "constructed"} => changed_since_sub = {}

TrackInv ==
  /\ TypeOK
  /\ LifecycleInv
  /\ NoChangesBeforeSubscribe
  /\ SubscribedTokensTracked

\* The samples yet to be applied form a sequence of samples.
LEMMA UnappliedType == TypeOK => Unapplied \in Seq(Samples)
BY DEF TypeOK, Unapplied

\* What the cache will know of t once every queued sample is applied.
LEMMA WillKnowPrime ==
  ASSUME NEW t PROVE WillKnow(t)' <=> Knows(Unapplied', cache', t)
BY DEF WillKnow

LEMMA InitTrackInv == Init => TrackInv
<1> SUFFICES ASSUME Init PROVE TrackInv
  OBVIOUS
<1>1. TypeOK /\ LifecycleInv
  BY InitTypeOK, InitLifecycleInv
<1>2. NoChangesBeforeSubscribe /\ SubscribedTokensTracked
  BY DEF Init, NoChangesBeforeSubscribe, SubscribedTokensTracked
<1>. QED  BY <1>1, <1>2 DEF TrackInv

\* Every step keeps the subscribed tokens tracked: a queued sample moves
\* what the cache will know of its token to where the network now is, and
\* applying or taking a sample leaves what it will know unchanged.
LEMMA NextTracked ==
  ASSUME TrackInv, [Next]_vars PROVE SubscribedTokensTracked'
<1> USE DEF TrackInv
<1> SUFFICES ASSUME subscriber_declared', ~is_shutdown',
                    NEW t \in changed_since_sub'
             PROVE  WillKnow(t)' <=> t \in alive'
  BY DEF SubscribedTokensTracked
<1>0. /\ Unapplied \in Seq(Samples)
      /\ subscriber_declared /\ ~is_shutdown /\ t \in changed_since_sub
         => (WillKnow(t) <=> t \in alive)
  BY UnappliedType DEF SubscribedTokensTracked
<1>1. ASSUME NEW u \in Tokens, bootstrap_reply(u) PROVE FALSE
  BY <1>1 DEF bootstrap_reply, LifecycleInv, NotSubscribedQuiet
<1>2. CASE bootstrap_done
  BY <1>2 DEF bootstrap_done, LifecycleInv, NotSubscribedQuiet
<1>3. CASE subscribe
  BY <1>3 DEF subscribe, NoChangesBeforeSubscribe
<1>4. ASSUME NEW u \in Tokens, network_change(u) PROVE WillKnow(t)' <=> t \in alive'
  <2> DEFINE x == [kind |-> IF u \in alive THEN "del" ELSE "put", token |-> u]
  <2>1. subscriber_declared /\ ~is_shutdown
    BY <1>4 DEF network_change
  <2>2. /\ x \in Samples
        /\ Unapplied' = Append(Unapplied, x) /\ cache' = cache
        /\ changed_since_sub' = changed_since_sub \cup {u}
        /\ alive' = IF u \in alive THEN alive \ {u} ELSE alive \cup {u}
    BY <1>4, <2>1 DEF network_change, Unapplied, Samples, TypeOK
  <2>3. CASE t = u
    <3>1. Knows(Unapplied', cache', t) <=> x.kind = "put"
      BY <2>2, <2>3, <1>0, KnowsAppendSame
    <3>. QED  BY <3>1, <2>2, <2>3, WillKnowPrime
  <2>4. CASE t # u
    <3>1. Knows(Unapplied', cache', t) <=> Knows(Unapplied, cache, t)
      BY <2>2, <2>4, <1>0, KnowsAppendOther
    <3>. QED  BY <3>1, <2>1, <2>2, <2>4, <1>0, WillKnowPrime DEF WillKnow
  <2>. QED  BY <2>3, <2>4
<1>5. CASE deliver
  <2>1. Head(samples) \in Samples /\ samples = <<Head(samples)>> \o Tail(samples)
    BY <1>5 DEF deliver, TypeOK
  <2>2. Head(samples) # NoSample
    BY <2>1, NoSampleAssumption
  <2>3. Unapplied' = Unapplied
    BY <1>5, <2>1, <2>2 DEF deliver, Unapplied
  <2>. QED  BY <1>5, <2>3, <1>0, WillKnowPrime DEF deliver, WillKnow
<1>6. CASE graph_sub_data_handler
  <2>1. ~is_shutdown
    BY <1>6 DEF graph_sub_data_handler
  <2>2. /\ inflight \in Samples
        /\ Unapplied = <<inflight>> \o samples /\ Unapplied' = samples
        /\ samples \in Seq(Samples)
    BY <1>6 DEF graph_sub_data_handler, Unapplied, TypeOK
  <2>3. (t \in cache') <=> (IF inflight.token = t THEN inflight.kind = "put"
                                                  ELSE t \in cache)
    BY <1>6, <2>1, <2>2 DEF graph_sub_data_handler, parse_put, parse_del, Samples
  <2>4. Knows(Unapplied, cache, t) <=> Knows(Unapplied', cache', t)
    BY <2>2, <2>3, KnowsApplyHead
  <2>. QED  BY <1>6, <2>1, <2>4, <1>0, WillKnowPrime DEF graph_sub_data_handler, WillKnow
<1>7. CASE shutdown
  BY <1>7 DEF shutdown, CloseSession
<1>8. CASE get_next_entity_id
  BY <1>8, <1>0, WillKnowPrime DEF get_next_entity_id, WillKnow, Unapplied
<1>9. CASE data_free_guard
  BY <1>9, <1>0, WillKnowPrime DEF data_free_guard, WillKnow, Unapplied
<1>10. CASE data_destroy
  BY <1>10 DEF data_destroy, CloseSession
<1>11. CASE UNCHANGED vars
  BY <1>11, <1>0, WillKnowPrime DEF vars, WillKnow, Unapplied, lifecycle
<1>. QED  BY <1>1, <1>2, <1>3, <1>4, <1>5, <1>6, <1>7, <1>8, <1>9, <1>10, <1>11
          DEF Next

\* Changes are recorded only while the subscriber is declared, which
\* LifecycleInv rules out before subscribe() succeeds.
LEMMA NextNoChanges ==
  ASSUME TrackInv, [Next]_vars PROVE NoChangesBeforeSubscribe'
<1> USE DEF TrackInv, NoChangesBeforeSubscribe
<1>1. ASSUME NEW u \in Tokens, network_change(u) PROVE NoChangesBeforeSubscribe'
  BY <1>1 DEF network_change, LifecycleInv, NotSubscribedQuiet
<1>2. CASE ~\E u \in Tokens : network_change(u)
  BY <1>2 DEF Next, vars, lifecycle, bootstrap_reply, bootstrap_done, subscribe,
              deliver, graph_sub_data_handler, shutdown, get_next_entity_id,
              data_free_guard, data_destroy
<1>. QED  BY <1>1, <1>2

LEMMA NextTrackInv == TrackInv /\ [Next]_vars => TrackInv'
<1> SUFFICES ASSUME TrackInv, [Next]_vars PROVE TrackInv'
  OBVIOUS
<1>1. TypeOK' /\ LifecycleInv'
  BY NextTypeOK, NextLifecycleInv DEF TrackInv
<1>. QED  BY <1>1, NextNoChanges, NextTracked DEF TrackInv

(***************************************************************************)
(* While the liveliness subscriber is declared and the context is not     *)
(* shut down, every token that changed since subscribe() will be in the   *)
(* graph cache exactly when it is alive on the network once               *)
(* graph_sub_data_handler has applied the samples queued and in transit:  *)
(* the bootstrap snapshot and the subscription leave no change unseen and *)
(* none applied out of order.                                              *)
(***************************************************************************)
THEOREM SubscribedTokensTrackedTheorem == Spec => []SubscribedTokensTracked
<1>1. TrackInv => SubscribedTokensTracked
  BY DEF TrackInv
<1>. QED  BY <1>1, InitTrackInv, NextTrackInv, PTL DEF Spec

-----------------------------------------------------------------------------
(***************************************************************************)
(* Refinement of GraphView.  The pending FIFO is Unapplied: the sample a  *)
(* transport thread holds, then the queue.  TypeOK and LifecycleInv are   *)
(* all the step needs: ~Data's shutdown() is GraphView's Stop only        *)
(* because a released Data has a freed guard, hence a subscribed or a     *)
(* failed stage.                                                           *)
(***************************************************************************)
ViewInv == TypeOK /\ LifecycleInv

\* The samples of a Data whose queue was discarded: at most the one a
\* thread holds, a prefix of what was pending.
LEMMA DiscardQueued ==
  ASSUME TypeOK, samples' = <<>>, inflight' = inflight
  PROVE  \E k \in 0..Len(Unapplied) : Unapplied' = SubSeq(Unapplied, 1, k)
<1>1. CASE inflight = NoSample
  <2>1. Unapplied' = SubSeq(Unapplied, 1, 0) /\ 0 \in 0..Len(Unapplied)
    BY <1>1 DEF Unapplied, TypeOK
  <2>. QED  BY <2>1
<1>2. CASE inflight # NoSample
  <2>1. Unapplied' = SubSeq(Unapplied, 1, 1) /\ 1 \in 0..Len(Unapplied)
    BY <1>2 DEF Unapplied, TypeOK
  <2>. QED  BY <2>1
<1>. QED  BY <1>1, <1>2

\* Every step of the context is a GraphView step or leaves the view alone.
LEMMA ViewStep ==
  ASSUME ViewInv, [Next]_vars
  PROVE  [GV!Next]_GV!vars
<1> USE DEF ViewInv
<1>0. Unapplied \in Seq(Samples)
  BY UnappliedType
<1>1. ASSUME NEW t \in Tokens, bootstrap_reply(t) PROVE GV!Next
  <2>1. GV!Seed(t)
    BY <1>1 DEF bootstrap_reply, parse_put, GV!Seed, Unapplied
  <2>. QED  BY <2>1 DEF GV!Next
<1>2. CASE bootstrap_done
  BY <1>2 DEF bootstrap_done, GV!Seeded, GV!Next, Unapplied
<1>3. CASE subscribe
  BY <1>3 DEF subscribe, GV!Listen, GV!Next, Unapplied
<1>4. ASSUME NEW t \in Tokens, network_change(t) PROVE GV!Next
  <2> DEFINE x == [kind |-> IF t \in alive THEN "del" ELSE "put", token |-> t]
  <2>0. x \in Samples /\ GV!Sample(t) = x
    BY DEF Samples, GV!Sample
  <2>1. Unapplied' = IF subscriber_declared
                       THEN Append(Unapplied, GV!Sample(t)) ELSE Unapplied
    <3>1. CASE subscriber_declared
      <4>1. samples' = Append(samples, x) /\ inflight' = inflight
        BY <1>4, <3>1 DEF network_change
      <4>2. Unapplied' = Append(Unapplied, x)
        BY <4>1, <2>0 DEF Unapplied, TypeOK, Samples
      <4>. QED  BY <4>2, <2>0, <3>1
    <3>2. CASE ~subscriber_declared
      BY <1>4, <3>2 DEF network_change, Unapplied
    <3>. QED  BY <3>1, <3>2
  <2>2. GV!Change(t)
    BY <1>4, <2>1 DEF network_change, GV!Change
  <2>. QED  BY <2>2 DEF GV!Next
<1>5. CASE deliver
  <2>1. Head(samples) \in Samples /\ samples = <<Head(samples)>> \o Tail(samples)
    BY <1>5 DEF deliver, TypeOK
  <2>2. Head(samples) # NoSample
    BY <2>1, NoSampleAssumption
  <2>3. Unapplied' = Unapplied
    BY <1>5, <2>1, <2>2 DEF deliver, Unapplied
  <2>. QED  BY <1>5, <2>3 DEF deliver, GV!vars
<1>6. CASE graph_sub_data_handler
  <2>1. /\ Unapplied # <<>>
        /\ Head(Unapplied) = inflight /\ Tail(Unapplied) = samples
        /\ Unapplied' = samples
    BY <1>6 DEF graph_sub_data_handler, Unapplied, TypeOK
  <2>2. GV!Apply
    BY <1>6, <2>1 DEF graph_sub_data_handler, parse_put, parse_del, GV!Apply
  <2>. QED  BY <2>2 DEF GV!Next
<1>7. CASE shutdown
  <2>1. \E k \in 0..Len(Unapplied) : Unapplied' = SubSeq(Unapplied, 1, k)
    BY <1>7, DiscardQueued DEF shutdown, CloseSession
  <2>2. GV!Stop
    BY <1>7, <2>1 DEF shutdown, CloseSession, GV!Stop
  <2>. QED  BY <2>2 DEF GV!Next
<1>8. CASE get_next_entity_id \/ data_free_guard
  BY <1>8 DEF get_next_entity_id, data_free_guard, GV!vars, Unapplied
<1>9. CASE data_destroy
  <2>1. CASE is_shutdown
    BY <1>9, <2>1 DEF data_destroy, GV!vars, Unapplied
  <2>2. CASE ~is_shutdown
    <3>1. stage \in {"subscribed", "failed"}
      BY <1>9 DEF data_destroy, LifecycleInv, ReleasedFreedGuard,
                  FreedAfterRelease
    <3>2. \E k \in 0..Len(Unapplied) : Unapplied' = SubSeq(Unapplied, 1, k)
      BY <1>9, <2>2, DiscardQueued DEF data_destroy, CloseSession
    <3>3. GV!Stop
      BY <1>9, <2>2, <3>1, <3>2 DEF data_destroy, CloseSession, GV!Stop
    <3>. QED  BY <3>3 DEF GV!Next
  <2>. QED  BY <2>1, <2>2
<1>10. CASE UNCHANGED vars
  BY <1>10 DEF vars, lifecycle, GV!vars, Unapplied
<1>. QED  BY <1>1, <1>2, <1>3, <1>4, <1>5, <1>6, <1>7, <1>8, <1>9, <1>10
          DEF Next

(***************************************************************************)
(* The context implements GraphView: the bootstrap seeds the cache from   *)
(* the tokens alive when the query ran, and afterwards the cache changes  *)
(* only by graph_sub_data_handler applying, in the order the network      *)
(* changed, the samples of a declared subscriber, or consuming them with  *)
(* no effect once shut down; shutdown and ~Data drop only the samples no  *)
(* thread has taken yet.  The bootstrap gap (graph_bootstrap_gap) is a    *)
(* behaviour of GraphView itself: the snapshot is not the network.        *)
(***************************************************************************)
THEOREM ContextImplementsGraphView == Spec => ImplementsGraphView
<1>1. Init => GV!Init
  BY DEF Init, GV!Init, Unapplied
<1>2. Spec => []ViewInv
  <2>1. Init => ViewInv
    BY InitTypeOK, InitLifecycleInv DEF ViewInv
  <2>2. ViewInv /\ [Next]_vars => ViewInv'
    BY NextTypeOK, NextLifecycleInv DEF ViewInv
  <2>. QED  BY <2>1, <2>2, PTL DEF Spec
<1>3. ViewInv /\ [Next]_vars => [GV!Next]_GV!vars
  BY ViewStep
<1>. QED  BY <1>1, <1>2, <1>3, PTL DEF Spec, ImplementsGraphView, GV!Spec

=============================================================================
