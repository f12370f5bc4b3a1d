----------------------- MODULE FlowWorkSource_proofs -----------------------
(***************************************************************************)
(* Proofs about the work source, for any set of items, any lease length,   *)
(* any staleness of the clock and any number of deliveries.                *)
(***************************************************************************)
EXTENDS FlowWorkSource, FiniteSetTheorems, TLAPS

\* The provers tried, in order; steps on several records take longer than their defaults.
USE SMTT(20), Z3T(20), ZenonT(20)

\* A call reads a natural number off the clock.
LEMMA ReadingNat ==
  ASSUME TypeOK, NEW at \in ClockReadings
  PROVE  at \in Nat /\ at <= now
  BY TimeAssumption DEF TypeOK, ClockReadings

\* Settling an item, whatever the outcome, yields an item.
LEMMA ReleasedType ==
  ASSUME NEW it \in Item, NEW status \in Outcome
  PROVE  Released(it, status) \in Item
<1>1. 0 \in 0..MaxToken
  BY BoundAssumption
<1>2. QED
  BY Zenon, <1>1 DEF Released, Item, Status, Outcome

LEMMA TypeInit == Init => TypeOK
<1>1. 0 \in 0..MaxToken /\ 0 \in 0..MaxTime
  BY BoundAssumption, TimeAssumption
<1>2. Absent \in Item
  BY <1>1 DEF Absent, Item, Status
<1>3. QED
  BY <1>1, <1>2 DEF Init, TypeOK, Review, NoReview

LEMMA TypeNext == TypeOK /\ [Next]_vars => TypeOK'
<1> SUFFICES ASSUME TypeOK, [Next]_vars PROVE TypeOK'
  OBVIOUS
<1>1. CASE Tick
  BY <1>1, TimeAssumption DEF Tick, TypeOK
<1>2. ASSUME NEW k \in Key, NEW at \in ClockReadings, Enqueue(k, at)
      PROVE TypeOK'
  <2>1. 0 \in 0..MaxToken
    BY BoundAssumption
  <2>2. [Absent EXCEPT !.status = "pending", !.available = at] \in Item
    BY Zenon, <2>1, ReadingNat DEF Absent, Item, Status
  <2>3. QED
    BY <1>2, <2>2 DEF Enqueue, TypeOK
<1>3. ASSUME NEW k \in Key, NEW at \in ClockReadings, Claim(k, at)
      PROVE TypeOK'
  <2> DEFINE claimed == [item[k] EXCEPT !.status = "claimed",
                                        !.attempt = item[k].attempt + 1,
                                        !.token = minted + 1,
                                        !.expires = at + Ttl]
  <2>1. at + Ttl \in Nat
    BY ReadingNat, TimeAssumption
  <2>2. minted + 1 \in Token /\ minted + 1 \in 0..MaxToken
    BY <1>3, BoundAssumption DEF Claim, TypeOK, Token
  <2>3. item[k] \in Item /\ item[k].attempt + 1 \in Nat
    BY DEF TypeOK, Item
  <2>. claimed \in Item
    BY Zenon, <2>1, <2>2, <2>3 DEF Item, Status
  <2>4. item' = [item EXCEPT ![k] = claimed]
    BY <1>3 DEF Claim, TypeOK
  <2>5. item' \in [Key -> Item]
    BY <2>4 DEF TypeOK
  <2>6. delivery' \in [Token -> Key \cup {NoKey}]
    BY Zenon, <1>3 DEF Claim, TypeOK
  <2>7. QED
    BY <1>3, <2>2, <2>5, <2>6 DEF Claim, TypeOK
<1>4. ASSUME NEW k \in Key, NEW t \in Token, NEW at \in ClockReadings,
             Renew(k, t, at)
      PROVE TypeOK'
  <2>1. at + Ttl \in Nat
    BY ReadingNat, TimeAssumption
  <2>2. [item[k] EXCEPT !.expires = at + Ttl] \in Item
    BY <2>1 DEF TypeOK, Item
  <2>3. item' = [item EXCEPT ![k] = [item[k] EXCEPT !.expires = at + Ttl]]
    BY <1>4 DEF Renew, TypeOK
  <2>4. QED
    BY <1>4, <2>2, <2>3 DEF Renew, TypeOK
<1>5. ASSUME NEW k \in Key, NEW t \in Token, NEW at \in ClockReadings,
             Complete(k, t, at)
      PROVE TypeOK'
  <2>1. Released(item[k], "completed") \in Item
    BY ReleasedType DEF TypeOK, Outcome
  <2>2. settled' \in [Token -> SUBSET Outcome]
    BY <1>5 DEF Complete, Accept, TypeOK, Outcome
  <2>3. QED
    BY <1>5, <2>1, <2>2 DEF Complete, TypeOK
<1>6. ASSUME NEW k \in Key, NEW t \in Token, NEW at \in ClockReadings,
             Block(k, t, at)
      PROVE TypeOK'
  <2>1. Released(item[k], "blocked") \in Item
    BY ReleasedType DEF TypeOK, Outcome
  <2>2. [Released(item[k], "blocked") EXCEPT !.reason = "given"] \in Item
    BY <2>1 DEF Item
  <2>3. settled' \in [Token -> SUBSET Outcome]
    BY <1>6 DEF Block, Accept, TypeOK, Outcome
  <2>4. QED
    BY <1>6, <2>2, <2>3 DEF Block, TypeOK
<1>7. ASSUME NEW k \in Key, NEW t \in Token, NEW at \in ClockReadings,
             NEW delay \in Delay, Retry(k, t, at, delay)
      PROVE TypeOK'
  <2>1. Released(item[k], "pending") \in Item
    BY ReleasedType DEF TypeOK, Outcome
  <2>2. at + delay \in Nat
    BY ReadingNat, TimeAssumption
  <2>3. [Released(item[k], "pending") EXCEPT !.available = at + delay] \in Item
    BY <2>1, <2>2 DEF Item
  <2>4. settled' \in [Token -> SUBSET Outcome]
    BY <1>7 DEF Retry, Accept, TypeOK, Outcome
  <2>5. QED
    BY <1>7, <2>3, <2>4 DEF Retry, TypeOK
<1>8. ASSUME NEW r \in ReviewKey, NEW k \in Key, NEW at \in ClockReadings,
             NEW delay \in Delay, NEW decision \in {"approve_retry", "reject"},
             ReviewItem(r, k, decision, at, delay)
      PROVE TypeOK'
  <2>1. at + delay \in Nat
    BY ReadingNat, TimeAssumption
  <2>2. Reviewed(item[k], decision, at, delay) \in Item
    BY Zenon, <2>1 DEF Reviewed, TypeOK, Item, Status
  <2>3. review' \in [ReviewKey -> Review]
    BY <1>8 DEF ReviewItem, TypeOK, Review
  <2>4. QED
    BY <1>8, <2>2, <2>3 DEF ReviewItem, TypeOK
<1>9. CASE UNCHANGED vars
  BY <1>9 DEF vars, TypeOK
<1>10. QED
  BY <1>1, <1>2, <1>3, <1>4, <1>5, <1>6, <1>7, <1>8, <1>9 DEF Next, Settle

\* Type correctness of the work source: clock arithmetic never leaves the
\* naturals and only minted tokens are ever stored.
THEOREM TypeCorrect == Spec => []TypeOK
  BY TypeInit, TypeNext, PTL DEF Spec

-----------------------------------------------------------------------------
\* Fencing and settlement are inductive together: a late call is refused
\* because the current token is the newest of its item, and it is the newest
\* because an item nobody holds remembers its newest token.
Fenced == DeliveryShape /\ TokensInOrder /\ SettlementConsistent

LEMMA FencedInit == Init => Fenced
<1>1. ASSUME NEW t \in Token PROVE t > 0
  BY BoundAssumption DEF Token
<1>2. QED
  BY <1>1, KeyAssumption DEF Init, Fenced, DeliveryShape, TokensInOrder,
     TokensInOrderFor, SettlementConsistent, Absent, Superseded

LEMMA FencedEnqueue ==
  ASSUME TypeOK, TypeOK', Fenced, NEW k \in Key, NEW at \in ClockReadings,
         Enqueue(k, at)
  PROVE  Fenced'
<1> DEFINE queued == [Absent EXCEPT !.status = "pending", !.available = at]
<1>1. item' = [item EXCEPT ![k] = queued]
  BY DEF Enqueue
<1>2. item'[k] = queued /\ \A j \in Key \ {k} : item'[j] = item[j]
  BY <1>1 DEF TypeOK
<1>3. /\ queued.status = "pending" /\ queued.token = 0 /\ queued.last = 0
      /\ queued.expires = 0 /\ queued.reason = "none"
  BY DEF Absent
<1> HIDE DEF queued
<1>4. DeliveryShape'
  BY <1>2, <1>3 DEF Fenced, DeliveryShape
<1>5. TokensInOrder'
  <2>1. ASSUME NEW j \in Key PROVE TokensInOrderFor(j, item[j])'
    <3>1. CASE j # k
      BY <3>1, <1>2 DEF Enqueue, Fenced, TokensInOrder, TokensInOrderFor,
         Superseded, Approved
    <3>2. CASE j = k
      <4>1. /\ item[k].status = "absent"
            /\ UNCHANGED <<delivery, settled>>
        BY DEF Enqueue
      <4>2. TokensInOrderFor(k, item[k])
        BY DEF Fenced, TokensInOrder
      <4>3. /\ item[k].last = 0
            /\ \A t \in Token : delivery[t] = k => t <= item[k].last
        BY <4>1, <4>2 DEF TokensInOrderFor
      <4>4. /\ item'[k].status = "pending"
            /\ item'[k].token = 0
            /\ item'[k].last = 0
        BY <1>2, <1>3
      <4>5. QED
        BY <3>2, <4>1, <4>3, <4>4 DEF TokensInOrderFor
    <3>3. QED
      BY <3>1, <3>2
  <2>2. QED
    BY <2>1 DEF Enqueue, Fenced, TokensInOrder
<1>6. SettlementConsistent'
  BY <1>2, <1>3, KeyAssumption DEF Enqueue, Fenced, SettlementConsistent,
     TokensInOrder, Approved, TypeOK
<1>7. QED
  BY <1>4, <1>5, <1>6 DEF Fenced

\* A new delivery: its token is larger than every token minted before it.
LEMMA FencedClaim ==
  ASSUME TypeOK, TypeOK', Fenced, NEW k \in Key, NEW at \in ClockReadings,
         Claim(k, at)
  PROVE  Fenced'
<1> DEFINE n == minted + 1
<1> DEFINE claimed == [item[k] EXCEPT !.status = "claimed",
                                      !.attempt = item[k].attempt + 1,
                                      !.token = n,
                                      !.expires = at + Ttl]
<1>1. n \in Token /\ n # 0 /\ delivery[n] = NoKey /\ settled[n] = {}
  BY BoundAssumption DEF Claim, TypeOK, Token, Fenced, TokensInOrder
<1>2. item'[k] = claimed /\ \A j \in Key \ {k} : item'[j] = item[j]
  BY DEF Claim, TypeOK
<1>3. /\ claimed.status = "claimed" /\ claimed.token = n
      /\ claimed.last = item[k].last /\ claimed.expires = at + Ttl
      /\ claimed.attempt = item[k].attempt + 1 /\ claimed.reason = item[k].reason
  BY DEF TypeOK, Item
<1>4. delivery'[n] = k /\ \A t \in Token \ {n} : delivery'[t] = delivery[t]
  BY <1>1 DEF Claim, TypeOK
<1>5. at + Ttl # 0 /\ item[k].attempt + 1 >= 1
  BY ReadingNat, TimeAssumption DEF TypeOK, Item
<1>6. item[k].reason # "given"
  BY DEF Claim, Eligible, Fenced, DeliveryShape
<1>7. UNCHANGED <<settled, review>> /\ minted' = n
  BY DEF Claim
<1> HIDE DEF n, claimed
<1>8. DeliveryShape'
  BY <1>1, <1>2, <1>3, <1>5, <1>6 DEF Fenced, DeliveryShape
<1>9. TokensInOrder'
  <2>1. \A t \in Token : delivery'[t] = NoKey <=> minted' < t
    BY <1>1, <1>4, <1>7, KeyAssumption
       DEF Fenced, TokensInOrder, TypeOK, Token, n
  <2>2. \A t \in Token : delivery'[t] = NoKey => settled'[t] = {}
    BY <1>1, <1>4, <1>7 DEF Fenced, TokensInOrder
  <2>3. ASSUME NEW j \in Key PROVE TokensInOrderFor(j, item[j])'
    <3>1. CASE j # k
      <4>1. \A t \in Token : delivery'[t] = j <=> delivery[t] = j
        BY <3>1, <1>1, <1>4, KeyAssumption
      <4>2. item[j].token \in 0..MaxToken /\ item[j].last \in 0..MaxToken
        BY DEF TypeOK, Item
      <4>3. TokensInOrderFor(j, item[j])
        BY DEF Fenced, TokensInOrder
      <4>4. item'[j] = item[j]
        BY <3>1, <1>2
      <4>5. QED
        BY <4>1, <4>2, <4>3, <4>4, <1>7, BoundAssumption
           DEF TokensInOrderFor, Superseded, Approved, Token
    <3>2. CASE j = k
      <4>1. \A u \in Token : ~(n < u /\ delivery'[u] = delivery'[n])
        <5>1. ASSUME NEW u \in Token, n < u PROVE delivery'[u] # k
          BY <5>1, <1>1, <1>4, KeyAssumption
             DEF Fenced, TokensInOrder, TypeOK, Token, n
        <5>2. QED
          BY <5>1, <1>4
      <4>2. item[k].last # 0 => delivery'[item[k].last] = k
        <5>1. item[k].last \in 0..MaxToken /\ TokensInOrderFor(k, item[k])
          BY DEF TypeOK, Item, Fenced, TokensInOrder
        <5>2. QED
          BY <5>1, <1>1, <1>4, KeyAssumption, BoundAssumption
             DEF TokensInOrderFor, Token
      <4>3. QED
        BY <3>2, <4>1, <4>2, <1>1, <1>2, <1>3, <1>4, <1>7
           DEF TokensInOrderFor, Superseded
    <3>3. QED
      BY <3>1, <3>2
  <2>4. QED
    BY <2>1, <2>2, <2>3 DEF TokensInOrder
<1>10. SettlementConsistent'
  <2>1. ASSUME NEW t \in Token, settled[t] # {}
        PROVE  /\ t # n /\ delivery'[t] = delivery[t]
               /\ delivery[t] \in Key
    BY <2>1, <1>1, <1>4 DEF Fenced, TokensInOrder, TypeOK
  <2>2. item[k].status # "completed"
    BY DEF Claim, Eligible
  <2>3. QED
    BY <2>1, <2>2, <1>2, <1>7 DEF Fenced, SettlementConsistent, Approved
<1>11. QED
  BY <1>8, <1>9, <1>10 DEF Fenced

LEMMA FencedRenew ==
  ASSUME TypeOK, TypeOK', Fenced, NEW k \in Key, NEW t \in Token,
         NEW at \in ClockReadings, Renew(k, t, at)
  PROVE  Fenced'
<1> DEFINE renewed == [item[k] EXCEPT !.expires = at + Ttl]
<1>1. item'[k] = renewed /\ \A j \in Key \ {k} : item'[j] = item[j]
  BY DEF Renew, TypeOK
<1>2. /\ renewed.status = item[k].status /\ renewed.token = item[k].token
      /\ renewed.last = item[k].last /\ renewed.expires = at + Ttl
      /\ renewed.attempt = item[k].attempt /\ renewed.reason = item[k].reason
  BY DEF TypeOK, Item
<1>3. at + Ttl # 0
  BY ReadingNat, TimeAssumption
<1>4. item[k].status = "claimed" /\ UNCHANGED <<review, minted, delivery, settled>>
  BY DEF Renew, ActiveDelivery
<1> HIDE DEF renewed
<1>5. DeliveryShape'
  BY <1>1, <1>2, <1>3, <1>4 DEF Fenced, DeliveryShape
<1>6. \A j \in Key : TokensInOrderFor(j, item[j])'
  BY <1>1, <1>2, <1>4
     DEF Fenced, TokensInOrder, TokensInOrderFor, Superseded, Approved
<1>7. SettlementConsistent'
  BY <1>1, <1>2, <1>4, KeyAssumption
     DEF Fenced, TokensInOrder, SettlementConsistent, Approved, TypeOK
<1>8. QED
  BY <1>4, <1>5, <1>6, <1>7 DEF Fenced, TokensInOrder

\* The holder settles its delivery.  complete, block and retry differ only in
\* the status they leave and in fields no invariant looks at.
LEMMA FencedSettlement ==
  ASSUME TypeOK, Fenced, NEW k \in Key, NEW t \in Token, NEW status \in Outcome,
         item[k].status = "claimed", item[k].token = t,
         NEW it \in Item,
         it.status = status, it.last = t, it.token = 0, it.expires = 0,
         it.reason = (IF status = "blocked" THEN "given" ELSE "none"),
         item' = [item EXCEPT ![k] = it],
         Accept(t, status), UNCHANGED <<review, minted, delivery>>
  PROVE  Fenced'
<1>1. item'[k] = it /\ \A j \in Key \ {k} : item'[j] = item[j]
  BY DEF TypeOK
<1>2. TokensInOrderFor(k, item[k])
  BY DEF Fenced, TokensInOrder
<1>3. t # 0 /\ delivery[t] = k /\ settled[t] = {} /\ ~Superseded(t)
  BY <1>2, BoundAssumption DEF Token, TokensInOrderFor
<1>4. settled'[t] = {status} /\ \A u \in Token \ {t} : settled'[u] = settled[u]
  BY <1>3 DEF Accept, TypeOK
<1>5. DeliveryShape'
  BY <1>1 DEF Fenced, DeliveryShape, Outcome
<1>6. ASSUME NEW j \in Key PROVE TokensInOrderFor(j, item[j])'
  <2>1. CASE j # k
    <3>1. TokensInOrderFor(j, item[j])
      BY DEF Fenced, TokensInOrder
    <3>2. item[j].token \in 0..MaxToken /\ item[j].last \in 0..MaxToken
      BY DEF TypeOK, Item
    <3>3. QED
      BY <2>1, <3>1, <3>2, <1>1, <1>3, <1>4, BoundAssumption
         DEF TokensInOrderFor, Superseded, Approved, Token
  <2>2. CASE j = k
    <3>1. \A u \in Token : delivery[u] = k => u <= t
      BY <1>3, BoundAssumption DEF Superseded, Token
    <3>2. QED
      BY <2>2, <3>1, <1>1, <1>3, <1>4 DEF TokensInOrderFor, Outcome
  <2>3. QED
    BY <2>1, <2>2
<1>7. TokensInOrder'
  BY <1>3, <1>4, <1>6, KeyAssumption DEF Fenced, TokensInOrder
<1>8. SettlementConsistent'
  <2>1. ASSUME NEW u \in Token, u # t, settled[u] # {}
        PROVE  delivery[u] \in Key
    BY <2>1 DEF Fenced, TokensInOrder, TypeOK
  <2>2. QED
    BY <2>1, <1>1, <1>3, <1>4
       DEF Fenced, SettlementConsistent, Approved, Outcome
<1>9. QED
  BY <1>5, <1>7, <1>8 DEF Fenced

\* A settlement that was already carried out is accepted again.
LEMMA FencedReplay ==
  ASSUME TypeOK, Fenced, NEW k \in Key, NEW t \in Token, NEW status \in Outcome,
         Replay(k, t, status), Accept(t, status),
         UNCHANGED <<item, review, minted, delivery>>
  PROVE  Fenced'
<1>1. TokensInOrderFor(k, item[k])
  BY DEF Fenced, TokensInOrder
<1>2. t # 0 /\ item[k].last = t /\ item[k].status = status /\ delivery[t] = k
  BY <1>1, BoundAssumption DEF Replay, TokensInOrderFor, Token
<1>3. /\ settled'[t] = settled[t] \cup {status}
      /\ \A u \in Token \ {t} : settled'[u] = settled[u]
  BY DEF Accept, TypeOK
<1>4. status \in {"completed", "blocked"} => settled'[t] = settled[t]
  BY <1>1, <1>2, <1>3 DEF TokensInOrderFor
<1>5. "completed" \in settled[t] => status = "completed"
  BY <1>2 DEF Fenced, SettlementConsistent
<1>6. status = "pending" /\ "blocked" \in settled[t] => Approved(k)
  BY <1>1, <1>2 DEF TokensInOrderFor
<1>7. ASSUME NEW j \in Key PROVE TokensInOrderFor(j, item[j])'
  <2>1. TokensInOrderFor(j, item[j])
    BY DEF Fenced, TokensInOrder
  <2>2. item[j].token \in 0..MaxToken /\ item[j].last \in 0..MaxToken
    BY DEF TypeOK, Item
  <2>3. item[j].token # t
    <3>1. CASE j = k
      BY <3>1, <1>2 DEF Fenced, DeliveryShape, Outcome
    <3>2. CASE j # k
      BY <3>2, <2>1, <1>2 DEF TokensInOrderFor
    <3>3. QED
      BY <3>1, <3>2
  <2>4. item[j].last = t => j = k
    BY <2>1, <1>2 DEF TokensInOrderFor
  <2>5. QED
    BY <2>1, <2>2, <2>3, <2>4, <1>2, <1>3, <1>4, BoundAssumption
       DEF TokensInOrderFor, Superseded, Approved, Token, Outcome
<1>8. TokensInOrder'
  BY <1>2, <1>3, <1>7, KeyAssumption DEF Fenced, TokensInOrder
<1>9. SettlementConsistent'
  BY <1>2, <1>3, <1>4, <1>5, <1>6
     DEF Fenced, SettlementConsistent, Approved, Outcome
<1>10. QED
  BY <1>8, <1>9 DEF Fenced, DeliveryShape

LEMMA FencedReview ==
  ASSUME TypeOK, Fenced, NEW r \in ReviewKey, NEW k \in Key,
         NEW at \in ClockReadings, NEW delay \in Delay,
         NEW decision \in {"approve_retry", "reject"},
         ReviewItem(r, k, decision, at, delay)
  PROVE  Fenced'
<1> DEFINE it == Reviewed(item[k], decision, at, delay)
<1>1. item'[k] = it /\ \A j \in Key \ {k} : item'[j] = item[j]
  BY DEF ReviewItem, TypeOK
<1>2. /\ it.status = (IF decision = "approve_retry" THEN "pending" ELSE "discarded")
      /\ it.token = item[k].token /\ it.last = item[k].last
      /\ it.expires = item[k].expires /\ it.reason = "none"
  BY DEF Reviewed, TypeOK, Item
<1>3. item[k].status = "blocked" /\ UNCHANGED <<minted, delivery, settled>>
  BY DEF ReviewItem
<1>4. /\ review'[r] = [work |-> k, decision |-> decision]
      /\ review[r] = NoReview
      /\ \A q \in ReviewKey \ {r} : review'[q] = review[q]
  BY DEF ReviewItem, TypeOK
<1>5. ASSUME NEW j \in Key, Approved(j) PROVE Approved(j)'
  <2>1. PICK q \in ReviewKey : review[q] = [work |-> j, decision |-> "approve_retry"]
    BY <1>5 DEF Approved
  <2>2. review[q].decision = "approve_retry"
    BY <2>1
  <2>3. q # r
    BY <2>2, <1>4 DEF NoReview
  <2>4. QED
    BY <2>1, <2>3, <1>4 DEF Approved
<1>6. decision = "approve_retry" => Approved(k)'
  BY <1>4 DEF Approved
<1> HIDE DEF it
<1>7. DeliveryShape'
  BY <1>1, <1>2, <1>3 DEF Fenced, DeliveryShape
<1>8. ASSUME NEW j \in Key PROVE TokensInOrderFor(j, item[j])'
  <2>1. TokensInOrderFor(j, item[j])
    BY DEF Fenced, TokensInOrder
  <2>2. CASE j # k
    BY <2>1, <2>2, <1>1, <1>3, <1>5 DEF TokensInOrderFor, Superseded
  <2>3. CASE j = k
    BY <2>1, <2>3, <1>1, <1>2, <1>3, <1>6 DEF TokensInOrderFor, Superseded
  <2>4. QED
    BY <2>2, <2>3
<1>9. SettlementConsistent'
  <2>1. ASSUME NEW t \in Token, settled[t] # {} PROVE delivery[t] \in Key
    BY <2>1 DEF Fenced, TokensInOrder, TypeOK
  <2>2. QED
    BY <2>1, <1>1, <1>3, <1>5 DEF Fenced, SettlementConsistent
<1>10. QED
  BY <1>3, <1>7, <1>8, <1>9 DEF Fenced, TokensInOrder

LEMMA FencedNext == TypeOK /\ TypeOK' /\ Fenced /\ [Next]_vars => Fenced'
<1> SUFFICES ASSUME TypeOK, TypeOK', Fenced, [Next]_vars PROVE Fenced'
  OBVIOUS
<1>1. ASSUME UNCHANGED <<item, review, minted, delivery, settled>> PROVE Fenced'
  BY <1>1 DEF Fenced, DeliveryShape, TokensInOrder, TokensInOrderFor,
     SettlementConsistent, Superseded, Approved
<1>2. ASSUME NEW k \in Key, NEW t \in Token, NEW at \in ClockReadings,
             Complete(k, t, at)
      PROVE Fenced'
  <2>1. CASE Replay(k, t, "completed") /\ UNCHANGED item
    BY <1>2, <2>1, FencedReplay DEF Complete, Outcome
  <2>2. CASE /\ ActiveDelivery(k, t, at)
             /\ item' = [item EXCEPT ![k] = Released(@, "completed")]
    <3> DEFINE it == Released(item[k], "completed")
    <3>1. it \in Item
      BY ReleasedType DEF TypeOK, Outcome
    <3>2. item[k].reason = "none" /\ item[k].status = "claimed" /\ item[k].token = t
      BY <2>2 DEF ActiveDelivery, Fenced, DeliveryShape, TypeOK, Item
    <3>3. /\ it.status = "completed" /\ it.last = t /\ it.token = 0
          /\ it.expires = 0 /\ it.reason = "none"
      BY <3>2 DEF Released, TypeOK, Item
    <3>4. QED
      BY Zenon, <1>2, <2>2, <3>1, <3>2, <3>3, FencedSettlement DEF Complete, Outcome
  <2>3. QED
    BY <1>2, <2>1, <2>2 DEF Complete
<1>3. ASSUME NEW k \in Key, NEW t \in Token, NEW at \in ClockReadings,
             Block(k, t, at)
      PROVE Fenced'
  <2>1. CASE Replay(k, t, "blocked") /\ UNCHANGED item
    BY <1>3, <2>1, FencedReplay DEF Block, Outcome
  <2>2. CASE /\ ActiveDelivery(k, t, at)
             /\ item' = [item EXCEPT ![k] = [Released(@, "blocked")
                                                EXCEPT !.reason = "given"]]
    <3> DEFINE it == [Released(item[k], "blocked") EXCEPT !.reason = "given"]
    <3>1. Released(item[k], "blocked") \in Item
      BY ReleasedType DEF TypeOK, Outcome
    <3>2. it \in Item
      BY <3>1 DEF Item
    <3>3. item[k].status = "claimed" /\ item[k].token = t
      BY <2>2 DEF ActiveDelivery
    <3>4. /\ it.status = "blocked" /\ it.last = t /\ it.token = 0
          /\ it.expires = 0 /\ it.reason = "given"
      BY <3>3 DEF Released, TypeOK, Item
    <3>5. QED
      BY Zenon, <1>3, <2>2, <3>2, <3>3, <3>4, FencedSettlement DEF Block, Outcome
  <2>3. QED
    BY <1>3, <2>1, <2>2 DEF Block
<1>4. ASSUME NEW k \in Key, NEW t \in Token, NEW at \in ClockReadings,
             NEW delay \in Delay, Retry(k, t, at, delay)
      PROVE Fenced'
  <2>1. CASE Replay(k, t, "pending") /\ UNCHANGED item
    BY <1>4, <2>1, FencedReplay DEF Retry, Outcome
  <2>2. CASE /\ ActiveDelivery(k, t, at)
             /\ item' = [item EXCEPT ![k] = [Released(@, "pending")
                                                EXCEPT !.available = at + delay]]
    <3> DEFINE it == [Released(item[k], "pending") EXCEPT !.available = at + delay]
    <3>1. Released(item[k], "pending") \in Item
      BY ReleasedType DEF TypeOK, Outcome
    <3>2. at + delay \in Nat
      BY ReadingNat, TimeAssumption
    <3>3. it \in Item
      BY <3>1, <3>2 DEF Item
    <3>4. item[k].reason = "none" /\ item[k].status = "claimed" /\ item[k].token = t
      BY <2>2 DEF ActiveDelivery, Fenced, DeliveryShape, TypeOK, Item
    <3>5. /\ it.status = "pending" /\ it.last = t /\ it.token = 0
          /\ it.expires = 0 /\ it.reason = "none"
      BY <3>4 DEF Released, TypeOK, Item
    <3>6. QED
      BY Zenon, <1>4, <2>2, <3>3, <3>4, <3>5, FencedSettlement DEF Retry, Outcome
  <2>3. QED
    BY <1>4, <2>1, <2>2 DEF Retry
<1>5. CASE Tick
  BY <1>1, <1>5 DEF Tick
<1>6. CASE UNCHANGED vars
  BY <1>1, <1>6 DEF vars
<1>7. QED
  BY <1>2, <1>3, <1>4, <1>5, <1>6, FencedEnqueue, FencedClaim, FencedRenew,
     FencedReview DEF Next, Settle

LEMMA Invariance == Spec => [](TypeOK /\ Fenced)
<1>1. Init => TypeOK /\ Fenced
  BY TypeInit, FencedInit
<1>2. TypeOK /\ Fenced /\ [Next]_vars => (TypeOK /\ Fenced)'
  BY TypeNext, FencedNext
<1>3. QED
  BY <1>1, <1>2, PTL DEF Spec

\* Every stored item can be read back: validate_delivery accepts whatever
\* sequence of claims, renewals, settlements and reviews produced it.
THEOREM StoredItemsValid == Spec => []DeliveryShape
<1>1. TypeOK /\ Fenced => DeliveryShape
  BY DEF Fenced
<1>2. QED
  BY <1>1, Invariance, PTL

\* No two settlements of one delivery are accepted, and a completed item stays
\* completed, however calls are repeated, delayed or interleaved.
THEOREM SettledOnce == Spec => []SettlementConsistent
<1>1. TypeOK /\ Fenced => SettlementConsistent
  BY DEF Fenced
<1>2. QED
  BY <1>1, Invariance, PTL

\* The token order that fencing rests on: the holder of an item has the newest
\* token minted for it.
THEOREM TokenOrder == Spec => []TokensInOrder
<1>1. TypeOK /\ Fenced => TokensInOrder
  BY DEF Fenced
<1>2. QED
  BY <1>1, Invariance, PTL

\* The token whose settlement is accepted is the newest of its item.
LEMMA AcceptedIsNewest ==
  ASSUME TypeOK, Fenced, NEW k \in Key, NEW t \in Token, NEW at,
         NEW status \in Outcome,
         Replay(k, t, status) \/ ActiveDelivery(k, t, at)
  PROVE  ~Superseded(t)
<1>1. TokensInOrderFor(k, item[k]) /\ t # 0
  BY BoundAssumption DEF Fenced, TokensInOrder, Token
<1>2. CASE Replay(k, t, status)
  <2>1. delivery[t] = k /\ \A u \in Token : delivery[u] = k => u <= t
    BY <1>1, <1>2 DEF Replay, TokensInOrderFor, Outcome
  <2>2. QED
    BY <2>1, BoundAssumption DEF Superseded, Token
<1>3. CASE ActiveDelivery(k, t, at)
  BY <1>1, <1>3 DEF ActiveDelivery, TokensInOrderFor
<1>4. QED
  BY <1>2, <1>3

\* Fencing, for every number of deliveries: a superseded delivery settles
\* nothing any more.
THEOREM StaleDeliveriesFenced == Spec => SupersededIsFenced
<1> DEFINE Stale(t) == delivery[t] # NoKey /\ Superseded(t)
<1>1. ASSUME TypeOK, Fenced, [Next]_vars, NEW t \in Token, Stale(t)
      PROVE  settled'[t] = settled[t]
  <2>1. ASSUME NEW k \in Key, NEW u \in Token, NEW at \in ClockReadings,
               Complete(k, u, at)
        PROVE  settled'[t] = settled[t]
    <3>1. u # t
      BY <1>1, <2>1, AcceptedIsNewest DEF Complete, Outcome
    <3>2. QED
      BY <2>1, <3>1 DEF Complete, Accept, TypeOK
  <2>2. ASSUME NEW k \in Key, NEW u \in Token, NEW at \in ClockReadings,
               Block(k, u, at)
        PROVE  settled'[t] = settled[t]
    <3>1. u # t
      BY <1>1, <2>2, AcceptedIsNewest DEF Block, Outcome
    <3>2. QED
      BY <2>2, <3>1 DEF Block, Accept, TypeOK
  <2>3. ASSUME NEW k \in Key, NEW u \in Token, NEW at \in ClockReadings,
               NEW delay \in Delay, Retry(k, u, at, delay)
        PROVE  settled'[t] = settled[t]
    <3>1. u # t
      BY <1>1, <2>3, AcceptedIsNewest DEF Retry, Outcome
    <3>2. QED
      BY <2>3, <3>1 DEF Retry, Accept, TypeOK
  <2>4. QED
    BY ZenonT(30), <1>1, <2>1, <2>2, <2>3
       DEF Next, Settle, Tick, Enqueue, Claim, Renew, ReviewItem, vars
<1>2. TypeOK /\ Fenced /\ [Next]_vars =>
         [\A t \in Token : Stale(t) => settled'[t] = settled[t]]_vars
  BY <1>1
<1>3. QED
  BY <1>2, Invariance, PTL DEF Spec, SupersededIsFenced

\* Exclusivity, for every lease length and every lag of the callers' clocks:
\* nobody is deprived of a delivery whose lease still runs.
THEOREM RunningDeliveryExclusive == Spec => DeliveryExclusive
<1> DEFINE Kept(k) == \/ item'[k].token = item[k].token
                      \/ settled'[item[k].token] # {}
<1>1. ASSUME TypeOK, Fenced, [Next]_vars, NEW k \in Key,
             item[k].status = "claimed", now < item[k].expires
      PROVE  Kept(k)
  <2>1. ASSUME NEW j \in Key, NEW at \in ClockReadings, Enqueue(j, at)
        PROVE  Kept(k)
    BY <1>1, <2>1 DEF Enqueue, TypeOK
  <2>2. ASSUME NEW j \in Key, NEW at \in ClockReadings, Claim(j, at)
        PROVE  Kept(k)
    <3>1. at \in Nat /\ at <= now /\ now \in Nat /\ item[k].expires \in Nat
      BY <1>1, ReadingNat, TimeAssumption DEF TypeOK, Item
    <3>2. j # k
      BY <1>1, <2>2, <3>1 DEF Claim, Eligible
    <3>3. QED
      BY <1>1, <2>2, <3>2 DEF Claim, TypeOK
  <2>3. ASSUME NEW j \in Key, NEW t \in Token, NEW at \in ClockReadings,
               Renew(j, t, at)
        PROVE  Kept(k)
    BY <1>1, <2>3 DEF Renew, TypeOK, Item
  <2>4. ASSUME NEW j \in Key, NEW t \in Token, NEW at \in ClockReadings,
               NEW status \in Outcome, NEW it,
               \/ UNCHANGED item
               \/ ActiveDelivery(j, t, at) /\ item' = [item EXCEPT ![j] = it],
               Accept(t, status)
        PROVE  Kept(k)
    <3>1. CASE j = k /\ ~UNCHANGED item
      <4>1. item[k].token = t
        BY <2>4, <3>1 DEF ActiveDelivery
      <4>2. status \in settled'[t]
        BY <1>1, <2>4 DEF Accept, TypeOK
      <4>3. QED
        BY <4>1, <4>2
    <3>2. QED
      BY <1>1, <2>4, <3>1 DEF TypeOK
  <2>5. ASSUME NEW r \in ReviewKey, NEW j \in Key, NEW at \in ClockReadings,
               NEW delay \in Delay, NEW decision \in {"approve_retry", "reject"},
               ReviewItem(r, j, decision, at, delay)
        PROVE  Kept(k)
    BY <1>1, <2>5 DEF ReviewItem, TypeOK
  <2>6. ASSUME NEW j \in Key, NEW t \in Token, NEW at \in ClockReadings,
               \/ Complete(j, t, at) \/ Block(j, t, at)
               \/ \E delay \in Delay : Retry(j, t, at, delay)
        PROVE  Kept(k)
    BY <2>4, <2>6 DEF Complete, Block, Retry, Outcome
  <2>7. QED
    BY <1>1, <2>1, <2>2, <2>3, <2>5, <2>6 DEF Next, Settle, Tick, vars
<1>2. TypeOK /\ Fenced /\ [Next]_vars =>
         [\A k \in Key : item[k].status = "claimed" /\ now < item[k].expires =>
             Kept(k)]_vars
  BY <1>1
<1>3. QED
  BY <1>2, Invariance, PTL DEF Spec, DeliveryExclusive

\* What the queue stores is sound after any sequence of calls: the four invariants
\* above hold together.
THEOREM QueueConsistent == Spec => []QueueInv
  BY TypeCorrect, StoredItemsValid, SettledOnce, TokenOrder, PTL DEF QueueInv

-----------------------------------------------------------------------------
\* Blocks and reviews.  Reviews are recorded one at a time, so those of an item
\* are finite in number whatever set the keys come from.
BalanceOf(k) ==
    /\ IsFiniteSet(ReviewsOf(k))
    /\ Cardinality(BlockingDeliveries(k)) =
          Cardinality(ReviewsOf(k)) + (IF item[k].status = "blocked" THEN 1 ELSE 0)
    /\ \A r \in ReviewsOf(k) : review[r].decision = "reject" => item[k].status = "discarded"

BalanceInv == \A k \in Key : BalanceOf(k)

LEMMA BlockingFinite ==
  ASSUME NEW k
  PROVE  IsFiniteSet(BlockingDeliveries(k)) /\ Cardinality(BlockingDeliveries(k)) \in Nat
<1>1. IsFiniteSet(1..MaxToken)
  BY BoundAssumption, FS_Interval
<1>2. BlockingDeliveries(k) \in SUBSET (1..MaxToken)
  BY DEF BlockingDeliveries, Token
<1>3. IsFiniteSet(BlockingDeliveries(k))
  BY Zenon, <1>1, <1>2, FS_Subset
<1>4. QED
  BY <1>3, FS_CardinalityType

\* The three things a call can do to the balance of an item: nothing, ...
LEMMA BalanceSame ==
  ASSUME NEW k, BalanceOf(k),
         BlockingDeliveries(k)' = BlockingDeliveries(k),
         ReviewsOf(k)' = ReviewsOf(k),
         \A r \in ReviewsOf(k) : review'[r] = review[r],
         item'[k].status = "blocked" <=> item[k].status = "blocked",
         item[k].status = "discarded" => item'[k].status = "discarded"
  PROVE  BalanceOf(k)'
BY DEF BalanceOf

\* ... block the item, ...
LEMMA BalanceBlock ==
  ASSUME NEW k, BalanceOf(k), NEW t,
         t \notin BlockingDeliveries(k),
         BlockingDeliveries(k)' = BlockingDeliveries(k) \cup {t},
         review' = review,
         item[k].status \notin {"blocked", "discarded"},
         item'[k].status = "blocked"
  PROVE  BalanceOf(k)'
<1>1. ReviewsOf(k)' = ReviewsOf(k)
  BY DEF ReviewsOf
<1>2. Cardinality(BlockingDeliveries(k) \cup {t}) = Cardinality(BlockingDeliveries(k)) + 1
  BY Zenon, BlockingFinite, FS_AddElement
<1>3. Cardinality(ReviewsOf(k)) \in Nat
  BY FS_CardinalityType DEF BalanceOf
<1>4. \A r \in ReviewsOf(k) : review[r].decision # "reject"
  BY DEF BalanceOf
<1>5. QED
  BY <1>1, <1>2, <1>3, <1>4 DEF BalanceOf

\* ... or review it.
LEMMA BalanceReview ==
  ASSUME NEW k, BalanceOf(k), NEW r, NEW decision,
         r \notin ReviewsOf(k),
         BlockingDeliveries(k)' = BlockingDeliveries(k),
         ReviewsOf(k)' = ReviewsOf(k) \cup {r},
         \A q \in ReviewsOf(k) : review'[q] = review[q],
         review'[r].decision = decision,
         item[k].status = "blocked",
         item'[k].status # "blocked",
         decision = "reject" => item'[k].status = "discarded"
  PROVE  BalanceOf(k)'
<1>1. /\ IsFiniteSet(ReviewsOf(k) \cup {r})
      /\ Cardinality(ReviewsOf(k) \cup {r}) = Cardinality(ReviewsOf(k)) + 1
  BY FS_AddElement DEF BalanceOf
<1>2. Cardinality(ReviewsOf(k)) \in Nat
  BY FS_CardinalityType DEF BalanceOf
<1>3. \A q \in ReviewsOf(k) : review[q].decision # "reject"
  BY DEF BalanceOf
<1>4. QED
  BY <1>1, <1>2, <1>3 DEF BalanceOf

LEMMA BalanceInit == Init => BalanceInv
<1> SUFFICES ASSUME Init, NEW k \in Key PROVE BalanceOf(k)
  BY DEF BalanceInv
<1>1. BlockingDeliveries(k) = {}
  BY DEF Init, BlockingDeliveries
<1>2. ReviewsOf(k) = {}
  BY KeyAssumption DEF Init, ReviewsOf, NoReview
<1>3. item[k].status = "absent"
  BY DEF Init, Absent
<1>4. QED
  BY <1>1, <1>2, <1>3, FS_EmptySet DEF BalanceOf

LEMMA BalanceNext == TypeOK /\ Fenced /\ BalanceInv /\ [Next]_vars => BalanceInv'
<1> SUFFICES ASSUME TypeOK, Fenced, BalanceInv, [Next]_vars, NEW k \in Key
             PROVE  BalanceOf(k)'
  BY DEF BalanceInv
<1>0. BalanceOf(k)
  BY DEF BalanceInv
<1>t. /\ item \in [Key -> Item] /\ delivery \in [Token -> Key \cup {NoKey}]
      /\ settled \in [Token -> SUBSET Outcome] /\ review \in [ReviewKey -> Review]
  BY DEF TypeOK
\* a call that touches neither what was settled nor what was reviewed
<1>1. ASSUME review' = review, BlockingDeliveries(k)' = BlockingDeliveries(k),
             item'[k].status = "blocked" <=> item[k].status = "blocked",
             item[k].status = "discarded" => item'[k].status = "discarded"
      PROVE  BalanceOf(k)'
  BY <1>0, <1>1, BalanceSame DEF ReviewsOf
<1>2. CASE Tick \/ UNCHANGED vars
  BY <1>1, <1>2 DEF Tick, vars, BlockingDeliveries
<1>3. ASSUME NEW j \in Key, NEW at \in ClockReadings, Enqueue(j, at) PROVE BalanceOf(k)'
  <2>1. BlockingDeliveries(k)' = BlockingDeliveries(k) /\ review' = review
    BY <1>3 DEF Enqueue, BlockingDeliveries
  <2>2. item'[k] = item[k] \/ (item[k].status = "absent" /\ item'[k].status = "pending")
    BY <1>t, <1>3 DEF Enqueue, Absent
  <2>3. QED
    BY <1>1, <2>1, <2>2
<1>4. ASSUME NEW j \in Key, NEW at \in ClockReadings, Claim(j, at) PROVE BalanceOf(k)'
  <2>1. minted + 1 \in Token /\ settled[minted + 1] = {}
    BY <1>4, BoundAssumption DEF Claim, TypeOK, Token, Fenced, TokensInOrder
  <2>2. BlockingDeliveries(k)' = BlockingDeliveries(k)
    BY <1>t, <1>4, <2>1 DEF Claim, BlockingDeliveries
  <2>3. \/ item'[k] = item[k]
        \/ item[k].status \in {"pending", "claimed"} /\ item'[k].status = "claimed"
    BY <1>t, <1>4 DEF Claim, Eligible, Item
  <2>4. review' = review
    BY <1>4 DEF Claim
  <2>5. QED
    BY <1>1, <2>2, <2>3, <2>4
<1>5. ASSUME NEW j \in Key, NEW t \in Token, NEW at \in ClockReadings, Renew(j, t, at)
      PROVE  BalanceOf(k)'
  <2>1. BlockingDeliveries(k)' = BlockingDeliveries(k) /\ review' = review
    BY <1>5 DEF Renew, BlockingDeliveries
  <2>2. item'[k].status = item[k].status
    BY <1>t, <1>5 DEF Renew, Item
  <2>3. QED
    BY <1>1, <2>1, <2>2
\* complete and retry
<1>6. ASSUME NEW j \in Key, NEW t \in Token, NEW at \in ClockReadings, NEW it,
             NEW status \in {"completed", "pending"},
             \/ UNCHANGED item
             \/ ActiveDelivery(j, t, at) /\ item' = [item EXCEPT ![j] = it] /\ it.status = status,
             Accept(t, status), review' = review, delivery' = delivery
      PROVE  BalanceOf(k)'
  <2>1. BlockingDeliveries(k)' = BlockingDeliveries(k)
    BY <1>t, <1>6 DEF Accept, BlockingDeliveries
  <2>2. \/ item'[k] = item[k]
        \/ item[k].status = "claimed" /\ item'[k].status \in {"completed", "pending"}
    BY <1>t, <1>6 DEF ActiveDelivery
  <2>3. QED
    BY <1>1, <1>6, <2>1, <2>2
<1>r. ASSUME NEW it \in Item, NEW status, NEW x, x = Released(it, status)
      PROVE  x.status = status
  BY <1>r DEF Released, Item
<1>7. ASSUME NEW j \in Key, NEW t \in Token, NEW at \in ClockReadings, Complete(j, t, at)
      PROVE  BalanceOf(k)'
  <2>1. PICK it : it = Released(item[j], "completed")
    OBVIOUS
  <2>2. it.status = "completed"
    BY <1>r, <1>t, <2>1
  <2>3. QED
    BY <1>6, <1>7, <2>1, <2>2 DEF Complete
<1>8. ASSUME NEW j \in Key, NEW t \in Token, NEW at \in ClockReadings, NEW delay \in Delay,
             Retry(j, t, at, delay)
      PROVE  BalanceOf(k)'
  <2>1. PICK it : it = [Released(item[j], "pending") EXCEPT !.available = at + delay]
    BY Zenon
  <2>2. it.status = "pending"
    BY <1>t, <2>1 DEF Released, Item
  <2>3. QED
    BY Zenon, <1>6, <1>8, <2>1, <2>2 DEF Retry
<1>9. ASSUME NEW j \in Key, NEW t \in Token, NEW at \in ClockReadings, Block(j, t, at)
      PROVE  BalanceOf(k)'
  <2>0. /\ Accept(t, "blocked") /\ review' = review /\ delivery' = delivery
        /\ TokensInOrderFor(j, item[j]) /\ t # 0
    BY <1>9 DEF Block, Fenced, TokensInOrder, Token
  <2>1. CASE UNCHANGED item /\ Replay(j, t, "blocked")
    <3>1. settled[t] = {"blocked"}
      BY <2>0, <2>1 DEF Replay, TokensInOrderFor
    <3>2. settled' = settled
      BY <1>t, <2>0, <3>1 DEF Accept
    <3>3. BlockingDeliveries(k)' = BlockingDeliveries(k)
      BY <2>0, <3>2 DEF BlockingDeliveries
    <3>4. QED
      BY <1>1, <2>0, <2>1, <3>3
  <2>2. CASE ~UNCHANGED item \/ ~Replay(j, t, "blocked")
    <3>1. PICK it : it = [Released(item[j], "blocked") EXCEPT !.reason = "given"]
      BY Zenon
    <3>2. ActiveDelivery(j, t, at) /\ item' = [item EXCEPT ![j] = it]
      BY <1>9, <2>2, <3>1 DEF Block
    <3>3. it.status = "blocked"
      BY <1>t, <3>1 DEF Released, Item
    <3>4. delivery[t] = j /\ settled[t] = {} /\ item[j].status = "claimed"
      BY <2>0, <3>2 DEF ActiveDelivery, TokensInOrderFor
    <3>5. CASE k # j
      <4>1. BlockingDeliveries(k)' = BlockingDeliveries(k)
        BY <1>t, <2>0, <3>4, <3>5 DEF Accept, BlockingDeliveries
      <4>2. item'[k] = item[k]
        BY <1>t, <3>2, <3>5
      <4>3. QED
        BY <1>1, <2>0, <4>1, <4>2
    <3>6. CASE k = j
      <4>1. t \notin BlockingDeliveries(k)
        BY <3>4 DEF BlockingDeliveries
      <4>2. BlockingDeliveries(k)' = BlockingDeliveries(k) \cup {t}
        BY <1>t, <2>0, <3>4, <3>6 DEF Accept, BlockingDeliveries
      <4>3. item'[k].status = "blocked"
        BY <1>t, <3>2, <3>3, <3>6
      <4>4. QED
        BY <1>0, <2>0, <3>4, <3>6, <4>1, <4>2, <4>3, BalanceBlock
    <3>7. QED
      BY <3>5, <3>6
  <2>3. QED
    BY <2>1, <2>2
<1>10. ASSUME NEW r \in ReviewKey, NEW j \in Key, NEW at \in ClockReadings,
              NEW delay \in Delay, NEW decision \in {"approve_retry", "reject"},
              ReviewItem(r, j, decision, at, delay)
       PROVE  BalanceOf(k)'
  <2>1. PICK it : it = Reviewed(item[j], decision, at, delay)
    OBVIOUS
  <2>2. /\ it.status # "blocked"
        /\ decision = "reject" => it.status = "discarded"
    BY <1>t, <2>1 DEF Reviewed, Item
  <2>3. /\ item[j].status = "blocked" /\ item' = [item EXCEPT ![j] = it]
        /\ review[r] = NoReview
        /\ review' = [review EXCEPT ![r] = [work |-> j, decision |-> decision]]
        /\ delivery' = delivery /\ settled' = settled
    BY <1>10, <2>1 DEF ReviewItem
  <2>4. BlockingDeliveries(k)' = BlockingDeliveries(k)
    BY <2>3 DEF BlockingDeliveries
  <2>5. review[r].work # k
    BY <2>3, KeyAssumption DEF NoReview
  <2>6. /\ r \notin ReviewsOf(k)
        /\ \A q \in ReviewsOf(k) : review'[q] = review[q]
    BY <1>t, <2>3, <2>5 DEF ReviewsOf
  <2>7. review'[r].work = j /\ review'[r].decision = decision
    BY <1>t, <2>3
  <2>8. CASE k # j
    <3>1. ReviewsOf(k)' = ReviewsOf(k)
      BY <1>t, <2>3, <2>5, <2>7, <2>8 DEF ReviewsOf
    <3>2. item'[k] = item[k]
      BY <1>t, <2>3, <2>8
    <3>3. QED
      BY <1>0, <2>4, <2>6, <3>1, <3>2, BalanceSame
  <2>9. CASE k = j
    <3>1. ReviewsOf(k)' = ReviewsOf(k) \cup {r}
      BY <1>t, <2>3, <2>7, <2>9 DEF ReviewsOf
    <3>2. item'[k] = it
      BY <1>t, <2>3, <2>9
    <3>3. QED
      BY <1>0, <2>2, <2>3, <2>4, <2>6, <2>7, <2>9, <3>1, <3>2, BalanceReview
  <2>10. QED
    BY <2>8, <2>9
<1>11. QED
  BY <1>2, <1>3, <1>4, <1>5, <1>7, <1>8, <1>9, <1>10 DEF Next, Settle

\* Reviews and blocks stay in balance for any number of operators, keys and
\* deliveries: FlowWorkSource.review answers each accepted block exactly once, and
\* a rejected item is never handed out again.
THEOREM ReviewsBalanced == Spec => []ReviewBalance
<1>1. Spec => []BalanceInv
  BY BalanceInit, BalanceNext, Invariance, PTL DEF Spec
<1>2. BalanceInv => ReviewBalance
  BY DEF BalanceInv, BalanceOf, ReviewBalance
<1>3. QED
  BY <1>1, <1>2, PTL
=============================================================================
