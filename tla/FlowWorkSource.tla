--------------------------- MODULE FlowWorkSource ---------------------------
(***************************************************************************)
(* The durable queue of Flow work items: flows/work.py.                    *)
(*                                                                         *)
(* Every public method of InMemoryFlowWorkSource runs under one lock and   *)
(* awaits nothing while it holds it, and every method of the PostgreSQL    *)
(* adapter works on one row it has locked, so a method is one action.      *)
(*                                                                         *)
(* Each idempotency key creates at most one item, so an item is named by   *)
(* its key.  A delivery token (a fresh uuid4) is a number: the n-th token  *)
(* the source mints is n, and 0 stands for None.  Callers keep the pair    *)
(* (item, token) that claim returned to them for ever and may present it   *)
(* at any later time, any number of times: workers crash, stall, resume    *)
(* and retry calls whose answer was lost.  A call that raises, and an      *)
(* idempotent replay, leaves the item as it was.                           *)
(*                                                                         *)
(* A method reads the clock before it gets the lock or the row, so the     *)
(* time it uses may lie up to Lag behind the time at which it acts.        *)
(***************************************************************************)
EXTENDS Integers, FiniteSets

CONSTANTS
    Key,         \* idempotency keys of commands, hence work items
    ReviewKey,   \* idempotency keys of operator reviews
    NoKey,       \* "not delivered", "no review"
    Ttl,         \* ttl_seconds of a delivery
    Delay,       \* the set of delay_seconds a retry or a review may ask for
    Lag,         \* how stale the clock reading of a call may be
    LockedSets,  \* rows that SKIP LOCKED may step over ({{}} in memory)
    MaxTime,     \* bound on the clock
    MaxToken     \* bound on the number of deliveries

ASSUME KeyAssumption == NoKey \notin Key
ASSUME TimeAssumption == /\ Ttl \in Nat \ {0}
                         /\ Delay \subseteq Nat
                         /\ Lag \in Nat
                         /\ MaxTime \in Nat
ASSUME BoundAssumption == MaxToken \in Nat

VARIABLES
    item,       \* _items, by idempotency key
    review,     \* _review_idempotency: the decision recorded under each key
    now,        \* the clock
    minted,     \* how many delivery tokens exist
    delivery,   \* the item each token was minted for
    settled     \* history: the settlements accepted for each token

vars == <<item, review, now, minted, delivery, settled>>

Token == 1..MaxToken

Status == {"absent", "pending", "claimed", "completed", "blocked", "discarded"}

Outcome == {"completed", "blocked", "pending"}

\* FlowWorkItem.  owner_id, claimed_at and the token are set and cleared
\* together, so the token stands for the three of them; last_error_type is
\* written and never read.
Item == [status    : Status,
         attempt   : Nat,
         available : Nat,
         token     : 0..MaxToken,
         last      : 0..MaxToken,
         expires   : Nat,
         reason    : {"none", "given"}]

Absent == [status |-> "absent", attempt |-> 0, available |-> 0, token |-> 0,
           last |-> 0, expires |-> 0, reason |-> "none"]

\* FlowWorkReview, by what a later call compares or a property counts.
Review == [work     : Key \cup {NoKey},
           decision : {"none", "approve_retry", "reject"}]

NoReview == [work |-> NoKey, decision |-> "none"]

Init == /\ item = [k \in Key |-> Absent]
        /\ review = [r \in ReviewKey |-> NoReview]
        /\ now = 0
        /\ minted = 0
        /\ delivery = [t \in Token |-> NoKey]
        /\ settled = [t \in Token |-> {}]

-----------------------------------------------------------------------------
Tick == /\ now < MaxTime
        /\ now' = now + 1
        /\ UNCHANGED <<item, review, minted, delivery, settled>>

\* The times a call acting now may have read.
ClockReadings == {at \in 0..now : now <= at + Lag}

\* A second enqueue under the same key returns the stored item, or raises
\* when the intent differs: neither changes anything.
Enqueue(k, at) ==
    /\ item[k].status = "absent"
    /\ item' = [item EXCEPT ![k] = [Absent EXCEPT !.status = "pending",
                                                  !.available = at]]
    /\ UNCHANGED <<review, now, minted, delivery, settled>>

\* Faulty variant: a delivery whose lease has not expired is handed out again.
EligibleIgnoringLease(k, at) ==
    \/ item[k].status = "pending" /\ item[k].available <= at
    \/ item[k].status = "claimed"

Eligible(k, at) ==
    \/ item[k].status = "pending" /\ item[k].available <= at
    \/ item[k].status = "claimed" /\ item[k].expires <= at

\* claim takes the candidate with the least (available_at, created_at, id);
\* the last two are arbitrary, so a tie is broken either way.
Claim(k, at) ==
    /\ minted < MaxToken
    /\ Eligible(k, at)
    /\ \E locked \in LockedSets :
          /\ k \notin locked
          /\ \A j \in Key \ locked :
                Eligible(j, at) => item[k].available <= item[j].available
    /\ minted' = minted + 1
    /\ delivery' = [delivery EXCEPT ![minted + 1] = k]
    /\ item' = [item EXCEPT ![k] = [@ EXCEPT !.status = "claimed",
                                             !.attempt = item[k].attempt + 1,
                                             !.token = minted + 1,
                                             !.expires = at + Ttl]]
    /\ UNCHANGED <<review, now, settled>>

\* Faulty variant: the lease is checked and the token is not.
ActiveDeliveryOfAnyToken(k, t, at) ==
    /\ item[k].status = "claimed"
    /\ at < item[k].expires

\* _require_active_delivery; everything else raises FlowWorkDeliveryLostError.
ActiveDelivery(k, t, at) ==
    /\ item[k].status = "claimed"
    /\ item[k].token = t
    /\ at < item[k].expires

Renew(k, t, at) ==
    /\ ActiveDelivery(k, t, at)
    /\ item' = [item EXCEPT ![k] = [@ EXCEPT !.expires = at + Ttl]]
    /\ UNCHANGED <<review, now, minted, delivery, settled>>

\* Faulty variant: the last token is accepted whatever it did with the item.
ReplayOfAnySettlement(k, t, status) ==
    item[k].last = t

\* The first branch of _require_delivery: the call was already carried out.
Replay(k, t, status) ==
    /\ item[k].status = status
    /\ item[k].last = t

Accept(t, status) ==
    settled' = [settled EXCEPT ![t] = @ \cup {status}]

\* What complete, block and retry have in common.
Released(it, status) ==
    [it EXCEPT !.status = status, !.last = it.token, !.token = 0, !.expires = 0]

Complete(k, t, at) ==
    /\ \/ /\ Replay(k, t, "completed")
          /\ UNCHANGED item
       \/ /\ ~Replay(k, t, "completed")
          /\ ActiveDelivery(k, t, at)
          /\ item' = [item EXCEPT ![k] = Released(@, "completed")]
    /\ Accept(t, "completed")
    /\ UNCHANGED <<review, now, minted, delivery>>

Block(k, t, at) ==
    /\ \/ /\ Replay(k, t, "blocked")
          /\ UNCHANGED item
       \/ /\ ~Replay(k, t, "blocked")
          /\ ActiveDelivery(k, t, at)
          /\ item' = [item EXCEPT ![k] = [Released(@, "blocked")
                                             EXCEPT !.reason = "given"]]
    /\ Accept(t, "blocked")
    /\ UNCHANGED <<review, now, minted, delivery>>

Retry(k, t, at, delay) ==
    /\ \/ /\ Replay(k, t, "pending")
          /\ UNCHANGED item
       \/ /\ ~Replay(k, t, "pending")
          /\ ActiveDelivery(k, t, at)
          /\ item' = [item EXCEPT ![k] = [Released(@, "pending")
                                             EXCEPT !.available = at + delay]]
    /\ Accept(t, "pending")
    /\ UNCHANGED <<review, now, minted, delivery>>

\* _apply_review
Reviewed(it, decision, at, delay) ==
    IF decision = "approve_retry"
    THEN [it EXCEPT !.status = "pending", !.available = at + delay,
                    !.reason = "none"]
    ELSE [it EXCEPT !.status = "discarded", !.reason = "none"]

\* Faulty variant: the item need not be blocked any more.
ReviewAnyState(r, k, decision, at, delay) ==
    /\ review[r] = NoReview
    /\ item[k].status # "absent"
    /\ decision = "reject" => delay = 0
    /\ item' = [item EXCEPT ![k] = Reviewed(@, decision, at, delay)]
    /\ review' = [review EXCEPT ![r] = [work |-> k, decision |-> decision]]
    /\ UNCHANGED <<now, minted, delivery, settled>>

\* A key that was used before returns the recorded review, or raises when the
\* intent differs; an item that is not blocked raises.
ReviewItem(r, k, decision, at, delay) ==
    /\ review[r] = NoReview
    /\ item[k].status = "blocked"
    /\ decision = "reject" => delay = 0
    /\ item' = [item EXCEPT ![k] = Reviewed(@, decision, at, delay)]
    /\ review' = [review EXCEPT ![r] = [work |-> k, decision |-> decision]]
    /\ UNCHANGED <<now, minted, delivery, settled>>

\* A holder presents the pair that claim gave it.
Settle(t, at) ==
    \E k \in Key :
       /\ delivery[t] = k
       /\ \/ Renew(k, t, at)
          \/ Complete(k, t, at)
          \/ Block(k, t, at)
          \/ \E delay \in Delay : Retry(k, t, at, delay)

Next ==
    \/ Tick
    \/ \E at \in ClockReadings :
          \/ \E k \in Key : Enqueue(k, at) \/ Claim(k, at)
          \/ \E t \in Token : Settle(t, at)
          \/ \E r \in ReviewKey, k \in Key, delay \in Delay,
                decision \in {"approve_retry", "reject"} :
                   ReviewItem(r, k, decision, at, delay)

Spec == Init /\ [][Next]_vars

-----------------------------------------------------------------------------
\* Every field keeps its type: no time is negative, no token is unknown.
TypeOK == /\ item \in [Key -> Item]
          /\ review \in [ReviewKey -> Review]
          /\ now \in 0..MaxTime
          /\ minted \in 0..MaxToken
          /\ delivery \in [Token -> Key \cup {NoKey}]
          /\ settled \in [Token -> SUBSET Outcome]

\* FlowWorkItem.validate_delivery.  model_copy does not run the validator, but
\* the PostgreSQL adapter runs it on every read: an item stored in any other
\* shape could never be read, claimed or reviewed again.
DeliveryShape ==
    \A k \in Key :
       /\ item[k].status = "claimed" <=> item[k].token # 0
       /\ item[k].status = "claimed" <=> item[k].expires # 0
       /\ item[k].status = "claimed" => item[k].attempt >= 1
       /\ item[k].status = "blocked" <=> item[k].reason = "given"

Superseded(t) == \E u \in Token : t < u /\ delivery[u] = delivery[t]

\* Fencing: once the item was delivered again, no call of an older delivery is
\* accepted, however late it arrives and whatever happened since.
SupersededIsFenced ==
    [][\A t \in Token :
          delivery[t] # NoKey /\ Superseded(t) => settled'[t] = settled[t]]_vars

\* While its lease runs, a delivery ends only by a settlement of its own token:
\* no claim and no review takes the item from its holder.
DeliveryExclusive ==
    [][\A k \in Key :
          item[k].status = "claimed" /\ now < item[k].expires =>
             \/ item'[k].token = item[k].token
             \/ settled'[item[k].token] # {}]_vars

Approved(k) ==
    \E r \in ReviewKey : review[r] = [work |-> k, decision |-> "approve_retry"]

\* One settlement per delivery, and completion is final: the item a caller was
\* told is complete stays complete, and no other call of that delivery was ever
\* accepted.  The one pair of answers a token can get is block followed by
\* retry, once an operator approved the item: retry then finds it pending.
SettlementConsistent ==
    \A t \in Token :
       /\ "completed" \in settled[t] =>
             settled[t] = {"completed"} /\ item[delivery[t]].status = "completed"
       /\ {"blocked", "pending"} \subseteq settled[t] =>
             Approved(delivery[t])

TokensInOrderFor(k, it) ==
    /\ it.token # 0 => /\ delivery[it.token] = k
                       /\ settled[it.token] = {}
                       /\ ~Superseded(it.token)
    /\ it.last # 0 => delivery[it.last] = k
    /\ it.status = "absent" => it.last = 0
    /\ it.status # "claimed" => \A t \in Token : delivery[t] = k => t <= it.last
    /\ it.status \in {"completed", "blocked"} =>
          it.last # 0 /\ settled[it.last] = {it.status}
    /\ it.status = "pending" /\ it.last # 0 =>
          ("blocked" \in settled[it.last] => Approved(k))

\* The tokens behind fencing.  A token is minted for one item; the current token
\* of an item is its newest and has settled nothing; an item nobody holds
\* remembers its newest token as the last one, with what that token did.
TokensInOrder ==
    /\ \A t \in Token : delivery[t] = NoKey <=> minted < t
    /\ \A t \in Token : delivery[t] = NoKey => settled[t] = {}
    /\ \A k \in Key : TokensInOrderFor(k, item[k])

BlockingDeliveries(k) == {t \in Token : delivery[t] = k /\ "blocked" \in settled[t]}

ReviewsOf(k) == {r \in ReviewKey : review[r].work = k}

\* Each block is answered by exactly one review or is still open, however
\* often and under whatever keys operators ask; a rejected item stays rejected.
ReviewBalance ==
    \A k \in Key :
       /\ Cardinality(BlockingDeliveries(k)) =
             Cardinality(ReviewsOf(k))
                + (IF item[k].status = "blocked" THEN 1 ELSE 0)
       /\ \A r \in ReviewsOf(k) :
             review[r].decision = "reject" => item[k].status = "discarded"

\* What is stored in the queue is sound: every item is one that validate_delivery
\* accepts and PostgreSQL can read back, a delivery is settled once and completion
\* is final, and the token in force is the newest of its item.
QueueInv == TypeOK /\ DeliveryShape /\ SettlementConsistent /\ TokensInOrder
=============================================================================
