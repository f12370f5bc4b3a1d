---------------------- MODULE PostgresWorkSource_proofs ----------------------
(***************************************************************************)
(* Proofs about the PostgreSQL work source: its transactions implement the *)
(* queue of FlowWorkSource, for any number of clients, items, reviews and  *)
(* deliveries and any lease length.                                        *)
(***************************************************************************)
EXTENDS PostgresWorkSource, FiniteSetTheorems, TLAPS

\* The provers tried, in order; steps on several records take longer than their defaults.
USE SMTT(20), Z3T(20), ZenonT(20)

Tx == [pc : {"idle", "insert", "conflict", "select", "scan", "lock", "find", "reread",
             "recheck", "record", "commit"},
       op : {"none", "enqueue", "claim", "renew", "complete", "block", "retry", "review"},
       k : Key \cup {NoKey}, t : 0..MaxToken, r : ReviewKey \cup {NoKey}, at : 0..MaxTime,
       delay : Nat, decision : {"none", "approve_retry", "reject"}, row : WS!Item,
       cand : Seq(Key)]

\* The rows of the table, and the clients that are claiming, are finite in number
\* because they are added one at a time.
Stored == {k \in Key : item[k].status # "absent"}
Claiming == {c \in Client : tx[c].op = "claim"}

TypeInv ==
    /\ WS!TypeOK
    /\ \A t \in 1..minted : delivery[t] \in Key
    /\ rowLock \in [Key -> Client \cup {Free}]
    /\ keyLock \in [ReviewKey -> Client \cup {Free}]
    /\ tx \in [Client -> Tx]
    /\ IsFiniteSet(Stored)
    /\ IsFiniteSet(Claiming)
    /\ minted + Cardinality(Claiming) <= MaxToken

Settling == {"complete", "block", "retry"}

\* A call has the arguments its operation needs, is where the operation can be,
\* and read its clock before.
CallOK(x) ==
    /\ x.at <= now
    /\ x.pc = "insert" => x.op = "enqueue"
    /\ x.pc \in {"select", "scan"} => x.op = "claim"
    /\ x.pc \in {"find", "reread", "recheck", "record"} => x.op = "review"
    /\ x.pc = "lock" => x.op \in {"renew", "review"} \cup Settling
    /\ x.pc = "conflict" => x.op \in {"enqueue", "review"}
    /\ x.pc = "commit" => x.op # "none"
    /\ x.op \in {"enqueue", "renew", "review"} \cup Settling => x.k \in Key
    /\ x.op \in {"renew"} \cup Settling => x.t \in 1..minted /\ delivery[x.t] = x.k
    /\ x.op = "retry" => x.delay \in Delay
    /\ x.op = "review" => /\ x.r \in ReviewKey
                          /\ x.decision \in {"approve_retry", "reject"}
                          /\ x.delay \in Delay
                          /\ x.decision = "reject" => x.delay = 0

\* What a call that has locked its row and computed the new one relies on.
Computed(x) ==
    /\ x.op = "enqueue" =>
          /\ item[x.k].status = "absent"
          /\ x.row = [WS!Absent EXCEPT !.status = "pending", !.available = x.at]
    /\ x.op = "claim" =>
          /\ WS!Eligible(x.k, x.at)
          /\ x.row = [item[x.k] EXCEPT !.status = "claimed", !.attempt = item[x.k].attempt + 1,
                                       !.expires = x.at + Ttl]
    /\ x.op = "renew" =>
          /\ WS!ActiveDelivery(x.k, x.t, x.at)
          /\ x.row = [item[x.k] EXCEPT !.expires = x.at + Ttl]
    /\ x.op \in Settling => Accepted(x) /\ x.row = Settlement(x, item[x.k])
    /\ x.op = "review" =>
          /\ item[x.k].status = "blocked"
          /\ review[x.r] = WS!NoReview
          /\ x.row = WS!Reviewed(item[x.k], x.decision, x.at, x.delay)

TxOK(c) ==
    LET x == tx[c] IN
    /\ CallOK(x)
    /\ x.pc \in {"commit", "recheck", "record"} => x.k \in Key /\ rowLock[x.k] = c
    /\ x.pc = "commit" => Computed(x)
    /\ x.pc = "commit" /\ x.op = "review" => keyLock[x.r] = c
    /\ x.pc = "record" => item[x.k].status = "blocked"
    /\ x.pc = "conflict" => IF x.op = "review" THEN review[x.r] # WS!NoReview
                            ELSE item[x.k].status # "absent"

\* The inductive invariant.
Inv == TypeInv /\ \A c \in Client : TxOK(c)

-----------------------------------------------------------------------------
\* Small facts.

LEMMA AbsentTyped ==
  /\ WS!Absent \in WS!Item
  /\ WS!Absent.status = "absent"
  /\ \A at \in Nat : [WS!Absent EXCEPT !.status = "pending", !.available = at] \in WS!Item
  /\ \A at \in Nat : [WS!Absent EXCEPT !.status = "pending", !.available = at].status = "pending"
<1>1. 0 \in 0..MaxToken
  BY PostgresAssumption
<1>2. QED
  BY Zenon, <1>1 DEF WS!Absent, WS!Item, WS!Status

LEMMA IdleTyped ==
  Idle \in Tx /\ Idle.pc = "idle" /\ Idle.op = "none" /\ Idle.at = 0
<1>1. 0 \in 0..MaxToken /\ 0 \in 0..MaxTime /\ <<>> \in Seq(Key)
  BY PostgresAssumption
<1>2. QED
  BY Zenon, <1>1, AbsentTyped DEF Idle, Tx

\* Updates of the record of a call.
LEMMA CallFields ==
  ASSUME NEW x \in Tx
  PROVE  x = [pc |-> x.pc, op |-> x.op, k |-> x.k, t |-> x.t, r |-> x.r, at |-> x.at,
              delay |-> x.delay, decision |-> x.decision, row |-> x.row, cand |-> x.cand]
BY DEF Tx

LEMMA MovedCall ==
  ASSUME NEW x \in Tx, NEW p,
         NEW y, y = [x EXCEPT !.pc = p]
  PROVE  y = [pc |-> p, op |-> x.op, k |-> x.k, t |-> x.t, r |-> x.r, at |-> x.at,
             delay |-> x.delay, decision |-> x.decision, row |-> x.row, cand |-> x.cand]
<1>1. x = [pc |-> x.pc, op |-> x.op, k |-> x.k, t |-> x.t, r |-> x.r, at |-> x.at,
           delay |-> x.delay, decision |-> x.decision, row |-> x.row, cand |-> x.cand]
  BY CallFields
<1>2. QED
  BY <1>1

LEMMA ComputedCall ==
  ASSUME NEW x \in Tx, NEW p, NEW w,
         NEW y, y = [x EXCEPT !.pc = p, !.row = w]
  PROVE  y = [pc |-> p, op |-> x.op, k |-> x.k, t |-> x.t, r |-> x.r, at |-> x.at,
             delay |-> x.delay, decision |-> x.decision, row |-> w, cand |-> x.cand]
<1>1. x = [pc |-> x.pc, op |-> x.op, k |-> x.k, t |-> x.t, r |-> x.r, at |-> x.at,
           delay |-> x.delay, decision |-> x.decision, row |-> x.row, cand |-> x.cand]
  BY CallFields
<1>2. QED
  BY Zenon, <1>1

LEMMA ChosenCall ==
  ASSUME NEW x \in Tx, NEW p, NEW n, NEW w,
         NEW y, y = [x EXCEPT !.pc = p, !.k = n, !.row = w]
  PROVE  y = [pc |-> p, op |-> x.op, k |-> n, t |-> x.t, r |-> x.r, at |-> x.at,
             delay |-> x.delay, decision |-> x.decision, row |-> w, cand |-> x.cand]
<1>1. x = [pc |-> x.pc, op |-> x.op, k |-> x.k, t |-> x.t, r |-> x.r, at |-> x.at,
           delay |-> x.delay, decision |-> x.decision, row |-> x.row, cand |-> x.cand]
  BY CallFields
<1>2. QED
  BY Zenon, <1>1

LEMMA TimedCall ==
  ASSUME NEW x \in Tx, NEW p, NEW a,
         NEW y, y = [x EXCEPT !.pc = p, !.at = a]
  PROVE  y = [pc |-> p, op |-> x.op, k |-> x.k, t |-> x.t, r |-> x.r, at |-> a,
             delay |-> x.delay, decision |-> x.decision, row |-> x.row, cand |-> x.cand]
<1>1. x = [pc |-> x.pc, op |-> x.op, k |-> x.k, t |-> x.t, r |-> x.r, at |-> x.at,
           delay |-> x.delay, decision |-> x.decision, row |-> x.row, cand |-> x.cand]
  BY CallFields
<1>2. QED
  BY Zenon, <1>1

LEMMA QueriedCall ==
  ASSUME NEW x \in Tx, NEW q, NEW p,
         NEW y, y = [x EXCEPT !.cand = q, !.pc = p]
  PROVE  y = [pc |-> p, op |-> x.op, k |-> x.k, t |-> x.t, r |-> x.r, at |-> x.at,
             delay |-> x.delay, decision |-> x.decision, row |-> x.row, cand |-> q]
<1>1. x = [pc |-> x.pc, op |-> x.op, k |-> x.k, t |-> x.t, r |-> x.r, at |-> x.at,
           delay |-> x.delay, decision |-> x.decision, row |-> x.row, cand |-> x.cand]
  BY CallFields
<1>2. QED
  BY Zenon, <1>1

LEMMA PassedCall ==
  ASSUME NEW x \in Tx, NEW q,
         NEW y, y = [x EXCEPT !.cand = q]
  PROVE  y = [pc |-> x.pc, op |-> x.op, k |-> x.k, t |-> x.t, r |-> x.r, at |-> x.at,
             delay |-> x.delay, decision |-> x.decision, row |-> x.row, cand |-> q]
<1>1. x = [pc |-> x.pc, op |-> x.op, k |-> x.k, t |-> x.t, r |-> x.r, at |-> x.at,
           delay |-> x.delay, decision |-> x.decision, row |-> x.row, cand |-> x.cand]
  BY CallFields
<1>2. QED
  BY <1>1

\* The call of another client is not disturbed by a step that leaves the rows and
\* the review keys it has locked alone.
LEMMA OthersKept ==
  ASSUME Inv, NEW c \in Client,
         tx'[c] = tx[c],
         now' \in Nat, now <= now', minted' \in Nat, minted <= minted',
         \A t \in 1..minted : delivery'[t] = delivery[t],
         \A k \in Key : rowLock[k] = c => rowLock'[k] = c /\ item'[k] = item[k],
         \A r \in ReviewKey : keyLock[r] = c => keyLock'[r] = c /\ review'[r] = review[r],
         \A k \in Key : item[k].status # "absent" => item'[k].status # "absent",
         \A r \in ReviewKey : review[r] # WS!NoReview => review'[r] # WS!NoReview
  PROVE  TxOK(c)'
<1> DEFINE x == tx[c]
<1>0. TxOK(c) /\ x \in Tx /\ now \in Nat /\ minted \in Nat
  BY DEF Inv, TypeInv, WS!TypeOK
<1>1. x.at \in Nat /\ x.t \in Nat
  BY <1>0, PostgresAssumption DEF Tx
<1>2. CallOK(x)'
  BY <1>0, <1>1 DEF TxOK, CallOK
<1>3. x.pc \in {"commit", "recheck", "record"} =>
         x.k \in Key /\ rowLock'[x.k] = c /\ item'[x.k] = item[x.k]
  BY <1>0 DEF TxOK
<1>4. x.pc = "commit" /\ x.op = "review" =>
         x.r \in ReviewKey /\ keyLock'[x.r] = c /\ review'[x.r] = review[x.r]
  BY <1>0 DEF TxOK, CallOK
<1>5. x.pc = "commit" => Computed(x)'
  BY ZenonT(30), <1>0, <1>3, <1>4 DEF TxOK, Computed, Accepted, Settlement, WS!Eligible,
     WS!ActiveDelivery,
     WS!Replay
<1>6. x.pc = "conflict" => IF x.op = "review" THEN review'[x.r] # WS!NoReview
                           ELSE item'[x.k].status # "absent"
  BY <1>0 DEF TxOK, CallOK
<1>7. QED
  BY <1>0, <1>2, <1>3, <1>4, <1>5, <1>6 DEF TxOK

\* A step of one client that commits nothing: it may lock a free row or key.
LEMMA QuietStep ==
  ASSUME Inv, NEW c \in Client, UNCHANGED queue,
         NEW y \in Tx, tx' = [tx EXCEPT ![c] = y],
         y.op = "claim" => tx[c].op = "claim",
         \/ rowLock' = rowLock
         \/ \E k \in Key : rowLock[k] = Free /\ rowLock' = [rowLock EXCEPT ![k] = c],
         \/ keyLock' = keyLock
         \/ \E r \in ReviewKey : keyLock[r] = Free /\ keyLock' = [keyLock EXCEPT ![r] = c],
         TxOK(c)'
  PROVE  Inv'
<1>0. /\ TypeInv /\ WS!TypeOK /\ tx \in [Client -> Tx]
      /\ rowLock \in [Key -> Client \cup {Free}]
      /\ keyLock \in [ReviewKey -> Client \cup {Free}]
      /\ IsFiniteSet(Stored) /\ IsFiniteSet(Claiming) /\ minted \in Nat /\ now \in Nat
  BY DEF Inv, TypeInv, WS!TypeOK
<1>1. UNCHANGED <<item, review, now, minted, delivery, settled>>
  BY DEF queue
<1>2. /\ rowLock' \in [Key -> Client \cup {Free}]
      /\ keyLock' \in [ReviewKey -> Client \cup {Free}]
      /\ tx' \in [Client -> Tx]
  BY <1>0
<1>3. WS!TypeOK' /\ Stored' = Stored
  BY <1>0, <1>1 DEF WS!TypeOK, Stored
<1>4. IsFiniteSet(Claiming') /\ minted' + Cardinality(Claiming') <= MaxToken
  <2>1. Claiming' \in SUBSET Claiming
    BY <1>0 DEF Claiming
  <2>2. IsFiniteSet(Claiming') /\ Cardinality(Claiming') <= Cardinality(Claiming)
    BY <1>0, <2>1, FS_Subset
  <2>3. Cardinality(Claiming') \in Nat /\ Cardinality(Claiming) \in Nat
    BY <1>0, <2>2, FS_CardinalityType
  <2>4. QED
    BY <1>0, <1>1, <2>2, <2>3, PostgresAssumption DEF TypeInv
<1>5. TypeInv'
  BY <1>0, <1>1, <1>2, <1>3, <1>4 DEF TypeInv
<1>6. ASSUME NEW d \in Client, d # c PROVE TxOK(d)'
  <2>1. tx'[d] = tx[d]
    BY <1>0, <1>6
  <2>2. \A k \in Key : rowLock[k] = d => rowLock'[k] = d
    BY <1>0, PostgresAssumption
  <2>3. \A r \in ReviewKey : keyLock[r] = d => keyLock'[r] = d
    BY <1>0, PostgresAssumption
  <2>4. QED
    BY <1>0, <1>1, <2>1, <2>2, <2>3, OthersKept
<1>7. QED
  BY <1>5, <1>6 DEF Inv

\* The locks after a transaction of client c has ended.
LEMMA Unlocked ==
  ASSUME Inv, NEW c \in Client, Unlock(c)
  PROVE  /\ rowLock' \in [Key -> Client \cup {Free}]
         /\ keyLock' \in [ReviewKey -> Client \cup {Free}]
         /\ \A d \in Client \ {c} : \A k \in Key : rowLock[k] = d => rowLock'[k] = d
         /\ \A d \in Client \ {c} : \A r \in ReviewKey : keyLock[r] = d => keyLock'[r] = d
BY DEF Unlock, Inv, TypeInv

LEMMA IdleOK ==
  ASSUME NEW c \in Client, tx'[c] = Idle, now' \in Nat
  PROVE  TxOK(c)'
BY IdleTyped DEF TxOK, CallOK, Settling

\* An answer that changes nothing, an error, or a rollback.
LEMMA ReturnStep ==
  ASSUME Inv, NEW c \in Client, UNCHANGED queue, Return(c)
  PROVE  Inv'
<1>0. /\ TypeInv /\ WS!TypeOK /\ tx \in [Client -> Tx]
      /\ IsFiniteSet(Stored) /\ IsFiniteSet(Claiming) /\ minted \in Nat /\ now \in Nat
  BY DEF Inv, TypeInv, WS!TypeOK
<1>1. UNCHANGED <<item, review, now, minted, delivery, settled>>
  BY DEF queue
<1>2. tx' = [tx EXCEPT ![c] = Idle] /\ Unlock(c)
  BY DEF Return
<1>3. WS!TypeOK' /\ Stored' = Stored
  BY <1>0, <1>1 DEF WS!TypeOK, Stored
<1>4. IsFiniteSet(Claiming') /\ minted' + Cardinality(Claiming') <= MaxToken
  <2>1. Claiming' \in SUBSET Claiming
    BY <1>0, <1>2, IdleTyped DEF Claiming
  <2>2. IsFiniteSet(Claiming') /\ Cardinality(Claiming') <= Cardinality(Claiming)
    BY <1>0, <2>1, FS_Subset
  <2>3. Cardinality(Claiming') \in Nat /\ Cardinality(Claiming) \in Nat
    BY <1>0, <2>2, FS_CardinalityType
  <2>4. QED
    BY <1>0, <1>1, <2>2, <2>3, PostgresAssumption DEF TypeInv
<1>5. TypeInv'
  BY <1>0, <1>1, <1>2, <1>3, <1>4, IdleTyped, Unlocked DEF TypeInv
<1>6. ASSUME NEW d \in Client, d # c PROVE TxOK(d)'
  <2>1. tx'[d] = tx[d]
    BY <1>0, <1>2, <1>6
  <2>2. /\ \A k \in Key : rowLock[k] = d => rowLock'[k] = d
        /\ \A r \in ReviewKey : keyLock[r] = d => keyLock'[r] = d
    BY <1>2, <1>6, Unlocked
  <2>3. QED
    BY <1>0, <1>1, <2>1, <2>2, OthersKept
<1>7. TxOK(c)'
  BY <1>0, <1>1, <1>2, IdleOK
<1>8. QED
  BY <1>5, <1>6, <1>7 DEF Inv

LEMMA TickStep == ASSUME Inv, Tick PROVE Inv'
<1>0. /\ TypeInv /\ WS!TypeOK /\ tx \in [Client -> Tx] /\ minted \in Nat /\ now \in 0..MaxTime
  BY DEF Inv, TypeInv, WS!TypeOK
<1>1. /\ now' = now + 1 /\ now' \in 0..MaxTime /\ now' \in Nat
      /\ UNCHANGED <<item, review, minted, delivery, settled, rowLock, keyLock, tx>>
  BY <1>0, PostgresAssumption DEF Tick, WS!Tick
<1>2. WS!TypeOK' /\ Stored' = Stored /\ Claiming' = Claiming
  BY <1>0, <1>1 DEF WS!TypeOK, Stored, Claiming
<1>3. TypeInv'
  BY <1>0, <1>1, <1>2 DEF TypeInv
<1>4. ASSUME NEW d \in Client PROVE TxOK(d)'
  BY <1>0, <1>1, OthersKept
<1>5. QED
  BY <1>3, <1>4 DEF Inv

\* A client reads its clock and opens a transaction.
LEMMA CallStep ==
  ASSUME Inv, NEW c \in Client, NEW x \in Tx, Call(c, x),
         x.pc \notin {"conflict", "commit", "recheck", "record"},
         CallOK(x),
         x.op = "claim" => minted + Cardinality(Claiming) < MaxToken
  PROVE  Inv'
<1>0. /\ TypeInv /\ WS!TypeOK /\ tx \in [Client -> Tx] /\ now \in 0..MaxTime
      /\ IsFiniteSet(Stored) /\ IsFiniteSet(Claiming) /\ minted \in Nat
      /\ Cardinality(Claiming) \in Nat
  BY FS_CardinalityType DEF Inv, TypeInv, WS!TypeOK
<1>1. UNCHANGED <<item, review, now, minted, delivery, settled, rowLock, keyLock>>
  BY DEF Call, queue
<1>2. PICK y : y = [x EXCEPT !.at = now]
  BY Zenon
<1>3. y = [pc |-> x.pc, op |-> x.op, k |-> x.k, t |-> x.t, r |-> x.r, at |-> now,
           delay |-> x.delay, decision |-> x.decision, row |-> x.row, cand |-> x.cand]
  BY <1>2, CallFields
<1>4. y \in Tx /\ y.pc = x.pc /\ y.op = x.op /\ CallOK(y)
  <2>1. y \in Tx /\ y.pc = x.pc /\ y.op = x.op
    BY <1>0, <1>3 DEF Tx
  <2>2. now <= now
    BY <1>0, PostgresAssumption
  <2>3. CallOK(y)
    BY <1>3, <2>2 DEF CallOK
  <2>4. QED
    BY <2>1, <2>3
<1>5. tx' = [tx EXCEPT ![c] = y] /\ tx[c].op = "none"
  BY <1>2, IdleTyped DEF Call
<1>6. /\ tx' \in [Client -> Tx] /\ tx'[c] = y
      /\ \A d \in Client : d # c => tx'[d] = tx[d]
  BY <1>0, <1>4, <1>5
<1>7. WS!TypeOK' /\ Stored' = Stored
  BY <1>0, <1>1 DEF WS!TypeOK, Stored
<1>8. IsFiniteSet(Claiming') /\ minted' + Cardinality(Claiming') <= MaxToken
  <2>1. CASE x.op = "claim"
    <3>1. Claiming' = Claiming \cup {c}
      BY <1>4, <1>6, <2>1 DEF Claiming
    <3>2. c \notin Claiming
      BY <1>5 DEF Claiming
    <3>3. IsFiniteSet(Claiming') /\ Cardinality(Claiming') = Cardinality(Claiming) + 1
      BY <1>0, <3>1, <3>2, FS_AddElement
    <3>4. QED
      BY <1>0, <1>1, <2>1, <3>3, PostgresAssumption
  <2>2. CASE x.op # "claim"
    <3>1. Claiming' = Claiming
      BY <1>4, <1>5, <1>6, <2>2 DEF Claiming
    <3>2. QED
      BY <1>0, <1>1, <3>1 DEF TypeInv
  <2>3. QED
    BY <2>1, <2>2
<1>9. TypeInv'
  BY <1>0, <1>1, <1>6, <1>7, <1>8 DEF TypeInv
<1>10. ASSUME NEW d \in Client, d # c PROVE TxOK(d)'
  BY <1>0, <1>1, <1>6, <1>10, OthersKept, PostgresAssumption
<1>11. TxOK(c)'
  <2>1. CallOK(y)'
    BY <1>1, <1>4 DEF CallOK
  <2>2. QED
    BY <1>4, <1>6, <2>1 DEF TxOK
<1>12. QED
  BY <1>9, <1>10, <1>11 DEF Inv

-----------------------------------------------------------------------------
\* The steps of a transaction before its commit.

LEMMA InsertItemStep == ASSUME Inv, NEW c \in Client, InsertItem(c) PROVE Inv'
<1> DEFINE x == tx[c]
<1>0. /\ x \in Tx /\ tx \in [Client -> Tx] /\ x.pc = "insert" /\ UNCHANGED queue /\ TxOK(c)
      /\ keyLock' = keyLock
  BY DEF InsertItem, Inv, TypeInv
<1>1. CallOK(x) /\ x.op = "enqueue" /\ x.k \in Key /\ x.at \in Nat
  BY <1>0, PostgresAssumption DEF TxOK, CallOK, Tx
<1>q. UNCHANGED <<item, review, now, minted, delivery>>
  BY <1>0 DEF queue
<1>2. CASE item[x.k].status # "absent"
  <2>1. PICK y : y = [x EXCEPT !.pc = "conflict"]
    BY Zenon
  <2>2. y = [pc |-> "conflict", op |-> x.op, k |-> x.k, t |-> x.t, r |-> x.r, at |-> x.at,
             delay |-> x.delay, decision |-> x.decision, row |-> x.row, cand |-> x.cand]
    BY <1>0, <2>1, MovedCall
  <2>3. y \in Tx
    BY <1>0, <2>2 DEF Tx
  <2>4. tx' = [tx EXCEPT ![c] = y] /\ rowLock' = rowLock
    BY <1>0, <1>2, <2>1 DEF InsertItem
  <2>5. tx'[c] = y
    BY <1>0, <2>4
  <2>6. TxOK(c)'
    <3>1. CallOK(y)'
      BY <1>1, <1>2, <1>q, <2>2, <2>5 DEF CallOK, Settling
    <3>2. QED
      BY <1>1, <1>2, <1>q, <2>2, <2>5, <3>1 DEF TxOK
  <2>7. QED
    BY Zenon, <1>0, <1>1, <2>2, <2>3, <2>4, <2>6, QuietStep
<1>3. CASE item[x.k].status = "absent"
  <2>0. PICK w : w = [WS!Absent EXCEPT !.status = "pending", !.available = x.at]
    OBVIOUS
  <2>1. PICK y : y = [x EXCEPT !.pc = "commit", !.row = w]
    OBVIOUS
  <2>2. y = [pc |-> "commit", op |-> x.op, k |-> x.k, t |-> x.t, r |-> x.r, at |-> x.at,
             delay |-> x.delay, decision |-> x.decision, row |-> w, cand |-> x.cand]
    BY ZenonT(30), <1>0, <2>1, ComputedCall
  <2>3. y \in Tx
    BY ZenonT(30), <1>0, <1>1, <2>0, <2>2, AbsentTyped DEF Tx
  <2>4. /\ tx' = [tx EXCEPT ![c] = y] /\ rowLock[x.k] = Free
        /\ rowLock' = [rowLock EXCEPT ![x.k] = c]
    BY Zenon, <1>0, <1>3, <2>0, <2>1 DEF InsertItem
  <2>5. tx'[c] = y /\ rowLock'[x.k] = c
    BY <1>0, <1>1, <2>4 DEF Inv, TypeInv
  <2>6. CallOK(y)' /\ Computed(y)'
    BY <1>1, <1>3, <1>q, <2>0, <2>2 DEF CallOK, Computed, Settling
  <2>7. TxOK(c)'
    BY <1>1, <2>2, <2>5, <2>6 DEF TxOK
  <2>8. QED
    BY Zenon, <1>0, <1>1, <2>2, <2>3, <2>4, <2>7, QuietStep
<1>4. QED
  BY <1>2, <1>3

\* Only rows that exist are eligible, so the query finds finitely many.
LEMMA CandidatesTyped ==
  ASSUME Inv, NEW at, NEW rows \in Orders({k \in Key : WS!Eligible(k, at)})
  PROVE  rows \in Seq(Key)
<1> DEFINE S == {k \in Key : WS!Eligible(k, at)}
<1>1. S \in SUBSET Stored
  BY DEF Stored, WS!Eligible
<1>2. IsFiniteSet(S)
  BY <1>1, FS_Subset DEF Inv, TypeInv
<1>3. Cardinality(S) \in Nat
  BY <1>2, FS_CardinalityType
<1>4. S \subseteq Key
  OBVIOUS
<1> HIDE DEF S
<1>5. rows \in [1..Cardinality(S) -> S]
  BY DEF Orders, Injection, S
<1>6. QED
  BY <1>3, <1>4, <1>5

LEMMA SnapshotStep == ASSUME Inv, NEW c \in Client, Snapshot(c) PROVE Inv'
<1> DEFINE x == tx[c]
<1>0. /\ x \in Tx /\ tx \in [Client -> Tx] /\ x.pc = "select" /\ UNCHANGED queue /\ TxOK(c)
      /\ keyLock' = keyLock /\ rowLock' = rowLock
  BY DEF Snapshot, Inv, TypeInv
<1>1. CallOK(x) /\ x.op = "claim"
  BY <1>0 DEF TxOK, CallOK
<1>q. UNCHANGED <<item, review, now, minted, delivery>>
  BY <1>0 DEF queue
<1>2. PICK rows \in Orders({k \in Key : WS!Eligible(k, x.at)}) :
         tx' = [tx EXCEPT ![c].cand = rows, ![c].pc = "scan"]
  BY Zenon DEF Snapshot
<1>3. rows \in Seq(Key)
  BY Zenon, CandidatesTyped
<1>4. PICK y : y = [x EXCEPT !.cand = rows, !.pc = "scan"]
  OBVIOUS
<1>5. y = [pc |-> "scan", op |-> x.op, k |-> x.k, t |-> x.t, r |-> x.r, at |-> x.at,
           delay |-> x.delay, decision |-> x.decision, row |-> x.row, cand |-> rows]
  BY ZenonT(30), <1>0, <1>4, QueriedCall
<1>6. y \in Tx
  BY <1>0, <1>3, <1>5 DEF Tx
<1>7. tx' = [tx EXCEPT ![c] = y] /\ tx'[c] = y
  BY ZenonT(30), <1>0, <1>2, <1>4
<1>8. TxOK(c)'
  <2>1. CallOK(y)'
    BY <1>1, <1>q, <1>5, <1>7 DEF CallOK, Settling
  <2>2. QED
    BY <1>1, <1>q, <1>5, <1>7, <2>1 DEF TxOK
<1>9. QED
  BY Zenon, <1>0, <1>1, <1>5, <1>6, <1>7, <1>8, QuietStep

LEMMA LockCandidateStep == ASSUME Inv, NEW c \in Client, LockCandidate(c) PROVE Inv'
<1> DEFINE x == tx[c]
<1>0. /\ x \in Tx /\ tx \in [Client -> Tx] /\ x.pc = "scan" /\ UNCHANGED queue /\ TxOK(c)
      /\ item \in [Key -> WS!Item]
  BY DEF LockCandidate, Inv, TypeInv, WS!TypeOK
<1>1. CallOK(x) /\ x.op = "claim" /\ x.cand \in Seq(Key) /\ x.at \in Nat
  BY <1>0, PostgresAssumption DEF TxOK, CallOK, Tx
<1>q. UNCHANGED <<item, review, now, minted, delivery>>
  BY <1>0 DEF queue
<1>2. CASE x.cand = <<>>
  BY <1>0, <1>2, ReturnStep DEF LockCandidate
<1> DEFINE n == Head(x.cand)
<1>3. CASE x.cand # <<>> /\ rowLock[n] = Free /\ StillEligible(n, x.at)
  <2>0. n \in Key
    BY <1>1, <1>3
  <2> HIDE DEF n
  <2>w. PICK w : w = [item[n] EXCEPT !.status = "claimed", !.attempt = item[n].attempt + 1,
                                     !.expires = x.at + Ttl]
    OBVIOUS
  <2>t. w \in WS!Item
    <3>1. item[n] \in WS!Item
      BY <1>0, <2>0
    <3>2. /\ item[n].attempt + 1 \in Nat /\ x.at + Ttl \in Nat
          /\ item[n] = [status |-> item[n].status, attempt |-> item[n].attempt,
                        available |-> item[n].available, token |-> item[n].token,
                        last |-> item[n].last, expires |-> item[n].expires,
                        reason |-> item[n].reason]
      BY <1>1, <3>1, PostgresAssumption DEF WS!Item
    <3>3. w = [status |-> "claimed", attempt |-> item[n].attempt + 1,
               available |-> item[n].available, token |-> item[n].token,
               last |-> item[n].last, expires |-> x.at + Ttl, reason |-> item[n].reason]
      BY Zenon, <2>w, <3>2
    <3>4. QED
      BY <3>1, <3>2, <3>3 DEF WS!Item, WS!Status
  <2>1. PICK y : y = [x EXCEPT !.pc = "commit", !.k = n, !.row = w]
    OBVIOUS
  <2>2. y = [pc |-> "commit", op |-> x.op, k |-> n, t |-> x.t, r |-> x.r, at |-> x.at,
             delay |-> x.delay, decision |-> x.decision, row |-> w, cand |-> x.cand]
    BY ZenonT(30), <1>0, <2>1, ChosenCall
  <2>3. y \in Tx
    BY <1>0, <2>0, <2>t, <2>2 DEF Tx
  <2>4. /\ tx' = [tx EXCEPT ![c] = y] /\ rowLock[n] = Free /\ keyLock' = keyLock
        /\ rowLock' = [rowLock EXCEPT ![n] = c]
    BY ZenonT(30), <1>0, <1>3, <2>w, <2>1 DEF LockCandidate, n
  <2>5. tx'[c] = y /\ rowLock'[n] = c
    BY <1>0, <2>0, <2>4 DEF Inv, TypeInv
  <2>6. CallOK(y)' /\ Computed(y)'
    BY <1>1, <1>3, <1>q, <2>w, <2>2 DEF CallOK, Computed, Settling, StillEligible, WS!Eligible
  <2>7. TxOK(c)'
    BY <1>1, <2>0, <2>2, <2>5, <2>6 DEF TxOK
  <2>8. QED
    BY ZenonT(30), <1>0, <1>1, <2>0, <2>2, <2>3, <2>4, <2>7, QuietStep
<1>4. CASE x.cand # <<>> /\ ~(rowLock[n] = Free /\ StillEligible(n, x.at))
  <2>1. PICK y : y = [x EXCEPT !.cand = Tail(x.cand)]
    BY Zenon
  <2>2. y = [pc |-> x.pc, op |-> x.op, k |-> x.k, t |-> x.t, r |-> x.r, at |-> x.at,
             delay |-> x.delay, decision |-> x.decision, row |-> x.row, cand |-> Tail(x.cand)]
    BY ZenonT(30), <1>0, <2>1, PassedCall
  <2>3. y \in Tx
    <3>1. Tail(x.cand) \in Seq(Key)
      BY <1>1, <1>4
    <3>2. QED
      BY <1>0, <2>2, <3>1 DEF Tx
  <2>4. tx' = [tx EXCEPT ![c] = y] /\ rowLock' = rowLock /\ keyLock' = keyLock
    BY <1>0, <1>4, <2>1 DEF LockCandidate
  <2>5. tx'[c] = y
    BY <1>0, <2>4
  <2>6. TxOK(c)'
    <3>1. CallOK(y)'
      BY <1>0, <1>1, <1>q, <2>2, <2>5 DEF CallOK, Settling
    <3>2. QED
      BY <1>0, <1>1, <1>q, <2>2, <2>5, <3>1 DEF TxOK
  <2>7. QED
    BY Zenon, <1>0, <1>1, <2>2, <2>3, <2>4, <2>6, QuietStep
<1>5. QED
  BY <1>2, <1>3, <1>4

\* The rows that settlements and reviews write.
LEMMA ItemFields ==
  ASSUME NEW it \in WS!Item
  PROVE  it = [status |-> it.status, attempt |-> it.attempt, available |-> it.available,
               token |-> it.token, last |-> it.last, expires |-> it.expires,
               reason |-> it.reason]
BY DEF WS!Item

LEMMA SettlementTyped ==
  ASSUME NEW it \in WS!Item, NEW x \in Tx, x.op \in Settling, NEW w, w = Settlement(x, it),
         WS!Replay(x.k, x.t, "completed") => it.status = "completed",
         WS!Replay(x.k, x.t, "blocked") => it.status = "blocked",
         WS!Replay(x.k, x.t, "pending") => it.status = "pending"
  PROVE  w \in WS!Item /\ w.status # "absent"
<1>0. /\ 0 \in 0..MaxToken /\ 0 \in Nat /\ x.at + x.delay \in Nat
      /\ it.token \in 0..MaxToken /\ it.attempt \in Nat /\ it.available \in Nat
      /\ it.reason \in {"none", "given"}
  BY PostgresAssumption DEF Tx, WS!Item
<1>1. ASSUME NEW st \in {"completed", "blocked", "pending"}, NEW y, y = WS!Released(it, st)
      PROVE  y = [status |-> st, attempt |-> it.attempt, available |-> it.available,
                  token |-> 0, last |-> it.token, expires |-> 0, reason |-> it.reason]
  <2>1. y = [it EXCEPT !.status = st, !.last = it.token, !.token = 0, !.expires = 0]
    BY <1>1 DEF WS!Released
  <2>2. it = [status |-> it.status, attempt |-> it.attempt, available |-> it.available,
              token |-> it.token, last |-> it.last, expires |-> it.expires,
              reason |-> it.reason]
    BY ItemFields
  <2>3. QED
    BY Zenon, <2>1, <2>2
<1>2. CASE x.op = "complete"
  <2>1. w = it \/ w = WS!Released(it, "completed")
    BY <1>2 DEF Settlement
  <2>2. w = it => it.status = "completed" \/ w = WS!Released(it, "completed")
    BY <1>2 DEF Settlement
  <2>3. QED
    BY <1>0, <1>1, <2>1, <2>2 DEF WS!Item, WS!Status
<1>3. CASE x.op = "block"
  <2>1. PICK y : y = WS!Released(it, "blocked")
    OBVIOUS
  <2>2. (w = it /\ it.status = "blocked") \/ w = [y EXCEPT !.reason = "given"]
    BY <1>3, <2>1 DEF Settlement
  <2>3. w = [y EXCEPT !.reason = "given"] =>
           w = [status |-> "blocked", attempt |-> it.attempt, available |-> it.available,
                token |-> 0, last |-> it.token, expires |-> 0, reason |-> "given"]
    BY <1>1, <2>1
  <2>4. QED
    BY <1>0, <2>2, <2>3 DEF WS!Item, WS!Status
<1>4. CASE x.op = "retry"
  <2>1. PICK y : y = WS!Released(it, "pending")
    OBVIOUS
  <2>2. (w = it /\ it.status = "pending") \/ w = [y EXCEPT !.available = x.at + x.delay]
    BY <1>4, <2>1 DEF Settlement
  <2>3. w = [y EXCEPT !.available = x.at + x.delay] =>
           w = [status |-> "pending", attempt |-> it.attempt, available |-> x.at + x.delay,
                token |-> 0, last |-> it.token, expires |-> 0, reason |-> it.reason]
    BY <1>1, <2>1
  <2>4. QED
    BY <1>0, <2>2, <2>3 DEF WS!Item, WS!Status
<1>5. QED
  BY <1>2, <1>3, <1>4 DEF Settling

LEMMA ReviewedTyped ==
  ASSUME NEW it \in WS!Item, NEW decision, NEW at \in Nat, NEW delay \in Nat,
         NEW w, w = WS!Reviewed(it, decision, at, delay)
  PROVE  w \in WS!Item /\ w.status # "absent"
<1>1. \/ w = [status |-> "pending", attempt |-> it.attempt, available |-> at + delay,
              token |-> it.token, last |-> it.last, expires |-> it.expires, reason |-> "none"]
      \/ w = [status |-> "discarded", attempt |-> it.attempt, available |-> it.available,
              token |-> it.token, last |-> it.last, expires |-> it.expires, reason |-> "none"]
  <2>1. \/ w = [it EXCEPT !.status = "pending", !.available = at + delay, !.reason = "none"]
        \/ w = [it EXCEPT !.status = "discarded", !.reason = "none"]
    BY DEF WS!Reviewed
  <2>2. it = [status |-> it.status, attempt |-> it.attempt, available |-> it.available,
              token |-> it.token, last |-> it.last, expires |-> it.expires,
              reason |-> it.reason]
    BY ItemFields
  <2>3. QED
    BY Zenon, <2>1, <2>2
<1>2. /\ at + delay \in Nat /\ it.attempt \in Nat /\ it.available \in Nat
      /\ it.token \in 0..MaxToken /\ it.last \in 0..MaxToken /\ it.expires \in Nat
  BY DEF WS!Item
<1>3. QED
  BY <1>1, <1>2 DEF WS!Item, WS!Status

LEMMA LockItemStep == ASSUME Inv, NEW c \in Client, LockItem(c) PROVE Inv'
<1> DEFINE x == tx[c]
<1>0. /\ x \in Tx /\ tx \in [Client -> Tx] /\ x.pc = "lock" /\ UNCHANGED queue /\ TxOK(c)
      /\ item \in [Key -> WS!Item] /\ x.op # "review"
  BY DEF LockItem, Inv, TypeInv, WS!TypeOK
<1>q. UNCHANGED <<item, review, now, minted, delivery>>
  BY <1>0 DEF queue
<1>1. /\ CallOK(x) /\ x.op \in {"renew"} \cup Settling /\ x.k \in Key /\ x.at \in Nat
      /\ item[x.k] \in WS!Item
  BY <1>0, PostgresAssumption DEF TxOK, CallOK, Tx, Settling
<1>2. CASE ~Accepted(x)
  BY <1>0, <1>2, ReturnStep DEF LockItem
<1>3. CASE Accepted(x)
  <2>w. PICK w : w = IF x.op = "renew" THEN [item[x.k] EXCEPT !.expires = x.at + Ttl]
                     ELSE Settlement(x, item[x.k])
    BY Zenon
  <2>t. w \in WS!Item
    <3>1. CASE x.op = "renew"
      <4>1. w = [status |-> item[x.k].status, attempt |-> item[x.k].attempt,
                 available |-> item[x.k].available, token |-> item[x.k].token,
                 last |-> item[x.k].last, expires |-> x.at + Ttl, reason |-> item[x.k].reason]
        BY <1>1, <2>w, <3>1, ItemFields
      <4>2. x.at + Ttl \in Nat
        BY <1>1, PostgresAssumption
      <4>3. QED
        BY <1>1, <4>1, <4>2 DEF WS!Item
    <3>2. CASE x.op \in Settling
      <4>1. w = Settlement(x, item[x.k])
        BY <2>w, <3>2 DEF Settling
      <4>2. QED
        BY <1>0, <1>1, <3>2, <4>1, SettlementTyped DEF WS!Replay
    <3>3. QED
      BY <1>1, <3>1, <3>2
  <2>1. PICK y : y = [x EXCEPT !.pc = "commit", !.row = w]
    OBVIOUS
  <2>2. y = [pc |-> "commit", op |-> x.op, k |-> x.k, t |-> x.t, r |-> x.r, at |-> x.at,
             delay |-> x.delay, decision |-> x.decision, row |-> w, cand |-> x.cand]
    BY ZenonT(30), <1>0, <2>1, ComputedCall
  <2>3. y \in Tx
    BY <1>0, <2>t, <2>2 DEF Tx
  <2>4. /\ tx' = [tx EXCEPT ![c] = y] /\ rowLock[x.k] = Free
        /\ rowLock' = [rowLock EXCEPT ![x.k] = c] /\ keyLock' = keyLock
    BY ZenonT(30), <1>0, <1>3, <2>w, <2>1 DEF LockItem, MayLock
  <2>5. tx'[c] = y /\ rowLock'[x.k] = c
    BY <1>0, <1>1, <2>4 DEF Inv, TypeInv
  <2>6. CallOK(y)'
    BY <1>1, <1>q, <2>2 DEF CallOK, Settling
  <2>7. Computed(y)'
    <3>1. CASE x.op = "renew"
      BY <1>3, <1>q, <2>w, <2>2, <3>1 DEF Computed, Accepted, Settling, WS!ActiveDelivery
    <3>2. CASE x.op \in Settling
      <4>1. Accepted(y) /\ Accepted(y)'
        BY Zenon, <1>3, <1>q, <2>2 DEF Accepted, WS!ActiveDelivery, WS!Replay
      <4>2. Settlement(y, item[x.k]) = Settlement(x, item[x.k])
        BY <2>2 DEF Settlement
      <4>3. Settlement(y, item[y.k])' = Settlement(y, item[y.k])
        BY <1>q DEF Settlement, WS!Replay, WS!Released
      <4>4. y.row = Settlement(y, item[y.k])' /\ y.op \in Settling
        BY <2>w, <2>2, <3>2, <4>2, <4>3 DEF Settling
      <4>5. QED
        BY <4>1, <4>4 DEF Computed, Settling
    <3>3. QED
      BY <1>1, <3>1, <3>2
  <2>8. TxOK(c)'
    <3>1. y.pc = "commit" /\ y.op # "review" /\ y.k = x.k /\ x.k \in Key
      BY <1>1, <2>2 DEF Settling
    <3>2. rowLock'[y.k] = c
      BY Zenon, <2>5, <3>1
    <3>3. QED
      BY <2>5, <2>6, <2>7, <3>1, <3>2 DEF TxOK
  <2>9. QED
    BY Zenon, <1>0, <1>1, <2>2, <2>3, <2>4, <2>8, QuietStep
<1>4. QED
  BY <1>2, <1>3

LEMMA FindReviewStep == ASSUME Inv, NEW c \in Client, FindReview(c) PROVE Inv'
<1> DEFINE x == tx[c]
<1>0. /\ x \in Tx /\ tx \in [Client -> Tx] /\ x.pc = "find" /\ UNCHANGED queue /\ TxOK(c)
      /\ item \in [Key -> WS!Item] /\ rowLock' = rowLock /\ keyLock' = keyLock
  BY DEF FindReview, Inv, TypeInv, WS!TypeOK
<1>q. UNCHANGED <<item, review, now, minted, delivery>>
  BY <1>0 DEF queue
<1>1. CallOK(x) /\ x.op = "review"
  BY Zenon, <1>0 DEF TxOK, CallOK
<1>2. PICK p \in {"reread", "lock"} : tx' = [tx EXCEPT ![c].pc = p]
  BY Zenon DEF FindReview
<1>3. PICK y : y = [x EXCEPT !.pc = p]
  BY Zenon
<1>4. y = [pc |-> p, op |-> x.op, k |-> x.k, t |-> x.t, r |-> x.r, at |-> x.at,
           delay |-> x.delay, decision |-> x.decision, row |-> x.row, cand |-> x.cand]
  BY <1>0, <1>3, MovedCall
<1>5. y \in Tx
  BY ZenonT(30), <1>0, <1>4 DEF Tx
<1>6. tx' = [tx EXCEPT ![c] = y] /\ tx'[c] = y
  BY <1>0, <1>2, <1>3
<1>7. TxOK(c)'
  <2>1. CallOK(y)'
    BY <1>1, <1>q, <1>4, <1>6 DEF CallOK, Settling
  <2>2. QED
    BY <1>1, <1>q, <1>4, <1>6, <2>1 DEF TxOK
<1>8. QED
  BY Zenon, <1>0, <1>1, <1>4, <1>5, <1>6, <1>7, QuietStep

LEMMA LockReviewedStep == ASSUME Inv, NEW c \in Client, LockReviewed(c) PROVE Inv'
<1> DEFINE x == tx[c]
<1>0. /\ x \in Tx /\ tx \in [Client -> Tx] /\ x.pc = "lock" /\ UNCHANGED queue /\ TxOK(c)
      /\ item \in [Key -> WS!Item] /\ x.op = "review"
  BY DEF LockReviewed, Inv, TypeInv, WS!TypeOK
<1>q. UNCHANGED <<item, review, now, minted, delivery>>
  BY <1>0 DEF queue
<1>1. CallOK(x) /\ x.k \in Key
  BY Zenon, <1>0 DEF TxOK, CallOK
<1>2. CASE item[x.k].status = "absent"
  BY <1>0, <1>2, ReturnStep DEF LockReviewed
<1>3. CASE item[x.k].status # "absent"
  <2>1. PICK y : y = [x EXCEPT !.pc = "recheck"]
    BY ZenonT(30)
  <2>2. y = [pc |-> "recheck", op |-> x.op, k |-> x.k, t |-> x.t, r |-> x.r, at |-> x.at,
             delay |-> x.delay, decision |-> x.decision, row |-> x.row, cand |-> x.cand]
    BY <1>0, <2>1, MovedCall
  <2>3. y \in Tx
    BY <1>0, <2>2 DEF Tx
  <2>4. /\ tx' = [tx EXCEPT ![c] = y] /\ rowLock[x.k] = Free
        /\ rowLock' = [rowLock EXCEPT ![x.k] = c] /\ keyLock' = keyLock
    BY <1>0, <1>3, <2>1 DEF LockReviewed, MayLock
  <2>5. tx'[c] = y /\ rowLock'[x.k] = c
    BY <1>0, <1>1, <2>4 DEF Inv, TypeInv
  <2>6. TxOK(c)'
    <3>1. CallOK(y)'
      BY <1>0, <1>1, <1>q, <2>2, <2>5 DEF CallOK, Settling
    <3>2. QED
      BY <1>0, <1>1, <1>q, <2>2, <2>5, <3>1 DEF TxOK
  <2>7. QED
    BY Zenon, <1>0, <1>1, <2>2, <2>3, <2>4, <2>6, QuietStep
<1>4. QED
  BY <1>2, <1>3

LEMMA RecheckStep == ASSUME Inv, NEW c \in Client, Recheck(c) PROVE Inv'
<1> DEFINE x == tx[c]
<1>0. /\ x \in Tx /\ tx \in [Client -> Tx] /\ x.pc = "recheck" /\ UNCHANGED queue /\ TxOK(c)
      /\ item \in [Key -> WS!Item]
  BY DEF Recheck, Inv, TypeInv, WS!TypeOK
<1>q. UNCHANGED <<item, review, now, minted, delivery>>
  BY <1>0 DEF queue
<1>1. CallOK(x) /\ x.k \in Key /\ x.op = "review" /\ rowLock[x.k] = c /\ now \in 0..MaxTime
  BY Zenon, <1>0 DEF TxOK, CallOK, Inv, TypeInv, WS!TypeOK
<1>2. CASE review[x.r] # WS!NoReview \/ item[x.k].status # "blocked"
  BY <1>0, <1>2, ReturnStep DEF Recheck
<1>3. CASE ~(review[x.r] # WS!NoReview \/ item[x.k].status # "blocked")
  <2>1. PICK y : y = [x EXCEPT !.pc = "record", !.at = now]
    OBVIOUS
  <2>2. y = [pc |-> "record", op |-> x.op, k |-> x.k, t |-> x.t, r |-> x.r, at |-> now,
             delay |-> x.delay, decision |-> x.decision, row |-> x.row, cand |-> x.cand]
    BY ZenonT(30), <1>0, <2>1, TimedCall
  <2>3. y \in Tx
    BY <1>0, <1>1, <2>2 DEF Tx
  <2>4. /\ tx' = [tx EXCEPT ![c] = y] /\ rowLock' = rowLock /\ keyLock' = keyLock
    BY Zenon, <1>0, <1>3, <2>1 DEF Recheck
  <2>5. tx'[c] = y
    BY <1>0, <2>4
  <2>6. now <= now
    BY <1>1, PostgresAssumption
  <2>7. TxOK(c)'
    <3>1. CallOK(y)'
      BY <1>0, <1>1, <1>3, <1>q, <2>2, <2>4, <2>5, <2>6 DEF CallOK, Settling
    <3>2. QED
      BY ZenonT(30), <1>0, <1>1, <1>3, <1>q, <2>2, <2>4, <2>5, <2>6, <3>1 DEF TxOK
  <2>8. QED
    BY Zenon, <1>0, <1>1, <2>2, <2>3, <2>4, <2>7, QuietStep
<1>4. QED
  BY <1>2, <1>3

LEMMA InsertReviewStep == ASSUME Inv, NEW c \in Client, InsertReview(c) PROVE Inv'
<1> DEFINE x == tx[c]
<1>0. /\ x \in Tx /\ tx \in [Client -> Tx] /\ x.pc = "record" /\ UNCHANGED queue /\ TxOK(c)
      /\ item \in [Key -> WS!Item] /\ rowLock' = rowLock
  BY DEF InsertReview, Inv, TypeInv, WS!TypeOK
<1>q. UNCHANGED <<item, review, now, minted, delivery>>
  BY <1>0 DEF queue
<1>1. /\ CallOK(x) /\ x.k \in Key /\ x.op = "review" /\ rowLock[x.k] = c /\ x.r \in ReviewKey
      /\ item[x.k].status = "blocked" /\ x.at \in Nat /\ x.delay \in Nat
  BY <1>0, PostgresAssumption DEF TxOK, CallOK, Tx
<1>2. CASE review[x.r] # WS!NoReview
  <2>1. PICK y : y = [x EXCEPT !.pc = "conflict"]
    BY Zenon
  <2>2. y = [pc |-> "conflict", op |-> x.op, k |-> x.k, t |-> x.t, r |-> x.r, at |-> x.at,
             delay |-> x.delay, decision |-> x.decision, row |-> x.row, cand |-> x.cand]
    BY ZenonT(30), <1>0, <2>1, MovedCall
  <2>3. y \in Tx
    BY ZenonT(30), <1>0, <2>2 DEF Tx
  <2>4. tx' = [tx EXCEPT ![c] = y] /\ keyLock' = keyLock
    BY <1>0, <1>2, <2>1 DEF InsertReview
  <2>5. tx'[c] = y
    BY <1>0, <2>4
  <2>6. TxOK(c)'
    <3>1. CallOK(y)'
      BY <1>1, <1>2, <1>q, <2>2, <2>5 DEF CallOK, Settling
    <3>2. QED
      BY <1>1, <1>2, <1>q, <2>2, <2>5, <3>1 DEF TxOK
  <2>7. QED
    BY Zenon, <1>0, <1>1, <2>2, <2>3, <2>4, <2>6, QuietStep
<1>3. CASE review[x.r] = WS!NoReview
  <2>w. PICK w : w = WS!Reviewed(item[x.k], x.decision, x.at, x.delay)
    OBVIOUS
  <2>t. w \in WS!Item
    BY <1>0, <1>1, <2>w, ReviewedTyped
  <2>1. PICK y : y = [x EXCEPT !.pc = "commit", !.row = w]
    OBVIOUS
  <2>2. y = [pc |-> "commit", op |-> x.op, k |-> x.k, t |-> x.t, r |-> x.r, at |-> x.at,
             delay |-> x.delay, decision |-> x.decision, row |-> w, cand |-> x.cand]
    BY ZenonT(30), <1>0, <2>1, ComputedCall
  <2>3. y \in Tx
    BY <1>0, <2>t, <2>2 DEF Tx
  <2>4. /\ tx' = [tx EXCEPT ![c] = y] /\ keyLock[x.r] = Free
        /\ keyLock' = [keyLock EXCEPT ![x.r] = c]
    BY ZenonT(30), <1>0, <1>3, <2>w, <2>1 DEF InsertReview
  <2>5. tx'[c] = y /\ keyLock'[x.r] = c
    BY <1>0, <1>1, <2>4 DEF Inv, TypeInv
  <2>6. CallOK(y)'
    BY Zenon, <1>1, <1>q, <2>2 DEF CallOK, Settling
  <2>7. Computed(y)'
    BY <1>1, <1>3, <1>q, <2>w, <2>2 DEF Computed, Settling, WS!Reviewed
  <2>8. TxOK(c)'
    BY <1>0, <1>1, <2>2, <2>5, <2>6, <2>7 DEF TxOK
  <2>9. QED
    BY ZenonT(30), <1>0, <1>1, <2>2, <2>3, <2>4, <2>8, QuietStep
<1>4. QED
  BY <1>2, <1>3

-----------------------------------------------------------------------------
\* The calls that open a transaction.

LEMMA BeginStep == ASSUME Inv, NEW c \in Client, Begin(c) PROVE Inv'
<1>0. /\ now \in 0..MaxTime /\ 0 <= now /\ minted \in 0..MaxToken
      /\ 0 \in 0..MaxToken /\ 0 \in 0..MaxTime /\ 0 \in Nat /\ <<>> \in Seq(Key)
      /\ \A t \in 1..minted : t \in 0..MaxToken /\ delivery[t] \in Key
      /\ \A d \in Delay : d \in Nat
  BY PostgresAssumption DEF Inv, TypeInv, WS!TypeOK
<1>1. ASSUME NEW k \in Key,
             Call(c, [Idle EXCEPT !.pc = "insert", !.op = "enqueue", !.k = k])
      PROVE  Inv'
  <2>1. PICK x : x = [Idle EXCEPT !.pc = "insert", !.op = "enqueue", !.k = k]
    OBVIOUS
  <2>2. x = [pc |-> "insert", op |-> "enqueue", k |-> k, t |-> 0, r |-> NoKey, at |-> 0,
             delay |-> 0, decision |-> "none", row |-> WS!Absent, cand |-> <<>>]
    BY ZenonT(30), <2>1 DEF Idle
  <2>3. x \in Tx
    BY Zenon, <1>0, <1>1, <2>2, AbsentTyped, PostgresAssumption DEF Tx
  <2>4. CallOK(x)
    BY <1>0, <1>1, <2>2 DEF CallOK, Settling
  <2>5. Call(c, x) /\ x.pc \notin {"conflict", "commit", "recheck", "record"}
    BY <1>1, <2>1, <2>2
  <2>6. x.op = "claim" => minted + Cardinality(Claiming) < MaxToken
    BY <1>1, <2>2
  <2>7. QED
    BY <2>3, <2>4, <2>5, <2>6, CallStep
<1>2. ASSUME minted + Cardinality(Claiming) < MaxToken,
             Call(c, [Idle EXCEPT !.pc = "select", !.op = "claim"])
      PROVE  Inv'
  <2>1. PICK x : x = [Idle EXCEPT !.pc = "select", !.op = "claim"]
    OBVIOUS
  <2>2. x = [pc |-> "select", op |-> "claim", k |-> NoKey, t |-> 0, r |-> NoKey, at |-> 0,
             delay |-> 0, decision |-> "none", row |-> WS!Absent, cand |-> <<>>]
    BY ZenonT(30), <2>1 DEF Idle
  <2>3. x \in Tx
    BY Zenon, <1>0, <1>2, <2>2, AbsentTyped, PostgresAssumption DEF Tx
  <2>4. CallOK(x)
    BY <1>0, <1>2, <2>2 DEF CallOK, Settling
  <2>5. Call(c, x) /\ x.pc \notin {"conflict", "commit", "recheck", "record"}
    BY <1>2, <2>1, <2>2
  <2>6. x.op = "claim" => minted + Cardinality(Claiming) < MaxToken
    BY <1>2, <2>2
  <2>7. QED
    BY <2>3, <2>4, <2>5, <2>6, CallStep
<1>3. ASSUME NEW t \in 1..minted, NEW op \in {"renew", "complete", "block"},
             Call(c, [Idle EXCEPT !.pc = "lock", !.op = op, !.t = t, !.k = delivery[t]])
      PROVE  Inv'
  <2>1. PICK x : x = [Idle EXCEPT !.pc = "lock", !.op = op, !.t = t, !.k = delivery[t]]
    OBVIOUS
  <2>2. x = [pc |-> "lock", op |-> op, k |-> delivery[t], t |-> t, r |-> NoKey, at |-> 0,
             delay |-> 0, decision |-> "none", row |-> WS!Absent, cand |-> <<>>]
    BY Zenon, <2>1 DEF Idle
  <2>3. x \in Tx
    BY Zenon, <1>0, <1>3, <2>2, AbsentTyped, PostgresAssumption DEF Tx
  <2>4. CallOK(x)
    BY <1>0, <1>3, <2>2 DEF CallOK, Settling
  <2>5. Call(c, x) /\ x.pc \notin {"conflict", "commit", "recheck", "record"}
    BY <1>3, <2>1, <2>2
  <2>6. x.op = "claim" => minted + Cardinality(Claiming) < MaxToken
    BY <1>3, <2>2
  <2>7. QED
    BY <2>3, <2>4, <2>5, <2>6, CallStep
<1>4. ASSUME NEW t \in 1..minted, NEW d \in Delay,
             Call(c, [Idle EXCEPT !.pc = "lock", !.op = "retry", !.t = t, !.k = delivery[t],
                                  !.delay = d])
      PROVE  Inv'
  <2>1. PICK x : x = [Idle EXCEPT !.pc = "lock", !.op = "retry", !.t = t, !.k = delivery[t],
                                 !.delay = d]
    OBVIOUS
  <2>2. x = [pc |-> "lock", op |-> "retry", k |-> delivery[t], t |-> t, r |-> NoKey, at |-> 0,
             delay |-> d, decision |-> "none", row |-> WS!Absent, cand |-> <<>>]
    BY Zenon, <2>1 DEF Idle
  <2>3. x \in Tx
    BY ZenonT(30), <1>0, <1>4, <2>2, AbsentTyped, PostgresAssumption DEF Tx
  <2>4. CallOK(x)
    BY <1>0, <1>4, <2>2 DEF CallOK, Settling
  <2>5. Call(c, x) /\ x.pc \notin {"conflict", "commit", "recheck", "record"}
    BY <1>4, <2>1, <2>2
  <2>6. x.op = "claim" => minted + Cardinality(Claiming) < MaxToken
    BY <1>4, <2>2
  <2>7. QED
    BY <2>3, <2>4, <2>5, <2>6, CallStep
<1>5. ASSUME NEW k \in Key, NEW r \in ReviewKey, NEW decision \in {"approve_retry", "reject"},
             NEW d \in Delay, decision = "reject" => d = 0,
             Call(c, [Idle EXCEPT !.pc = "find", !.op = "review", !.k = k, !.r = r,
                                  !.decision = decision, !.delay = d])
      PROVE  Inv'
  <2>1. PICK x : x = [Idle EXCEPT !.pc = "find", !.op = "review", !.k = k, !.r = r,
                                 !.decision = decision, !.delay = d]
    OBVIOUS
  <2>2. x = [pc |-> "find", op |-> "review", k |-> k, t |-> 0, r |-> r, at |-> 0,
             delay |-> d, decision |-> decision, row |-> WS!Absent, cand |-> <<>>]
    BY ZenonT(30), <2>1 DEF Idle
  <2>3. x \in Tx
    BY Zenon, <1>0, <1>5, <2>2, AbsentTyped, PostgresAssumption DEF Tx
  <2>4. CallOK(x)
    BY <1>0, <1>5, <2>2 DEF CallOK, Settling
  <2>5. Call(c, x) /\ x.pc \notin {"conflict", "commit", "recheck", "record"}
    BY <1>5, <2>1, <2>2
  <2>6. x.op = "claim" => minted + Cardinality(Claiming) < MaxToken
    BY <1>5, <2>2
  <2>7. QED
    BY <2>3, <2>4, <2>5, <2>6, CallStep
<1>6. QED
  BY ZenonT(30), <1>1, <1>2, <1>3, <1>4, <1>5 DEF Begin, Claiming

-----------------------------------------------------------------------------
\* The commit.

\* The row a transaction is about to write.
LEMMA RowTyped ==
  ASSUME Inv, NEW c \in Client, tx[c].pc = "commit"
  PROVE  tx[c].k \in Key /\ tx[c].row \in WS!Item /\ tx[c].row.status # "absent"
<1> DEFINE x == tx[c]
<1>0. /\ x \in Tx /\ CallOK(x) /\ Computed(x) /\ x.k \in Key /\ item[x.k] \in WS!Item
      /\ x.at \in Nat /\ x.delay \in Nat /\ x.row \in WS!Item
  BY PostgresAssumption DEF Inv, TypeInv, WS!TypeOK, TxOK, Tx
<1>1. CASE x.op = "enqueue"
  BY ZenonT(30), <1>0, <1>1, AbsentTyped DEF Computed
<1>2. CASE x.op = "claim"
  <2>1. x.row = [item[x.k] EXCEPT !.status = "claimed", !.attempt = item[x.k].attempt + 1,
                                  !.expires = x.at + Ttl]
    BY <1>0, <1>2 DEF Computed
  <2>2. x.row.status = "claimed"
    BY <1>0, <2>1 DEF WS!Item
  <2>3. QED
    BY <1>0, <2>2
<1>3. CASE x.op = "renew"
  <2>1. x.row = [item[x.k] EXCEPT !.expires = x.at + Ttl] /\ item[x.k].status = "claimed"
    BY <1>0, <1>3 DEF Computed, WS!ActiveDelivery
  <2>2. x.row.status = "claimed"
    BY <1>0, <2>1 DEF WS!Item
  <2>3. QED
    BY <1>0, <2>2
<1>4. CASE x.op \in Settling
  BY <1>0, <1>4, SettlementTyped DEF Computed, WS!Replay
<1>5. CASE x.op = "review"
  BY <1>0, <1>5, ReviewedTyped DEF Computed
<1>6. QED
  BY <1>0, <1>1, <1>2, <1>3, <1>4, <1>5 DEF CallOK, Tx, Settling

LEMMA CommitStep == ASSUME Inv, NEW c \in Client, Commit(c) PROVE Inv'
<1> DEFINE x == tx[c]
<1>0. /\ x \in Tx /\ CallOK(x) /\ Computed(x) /\ x.k \in Key /\ rowLock[x.k] = c
      /\ x.row \in WS!Item /\ x.row.status # "absent" /\ x.pc = "commit"
      /\ tx \in [Client -> Tx]
      /\ x.op = "review" => keyLock[x.r] = c
  BY RowTyped DEF Commit, Inv, TypeInv, TxOK
<1>1. /\ TypeInv /\ item \in [Key -> WS!Item] /\ review \in [ReviewKey -> WS!Review]
      /\ now \in 0..MaxTime /\ minted \in 0..MaxToken /\ now' = now
      /\ delivery \in [WS!Token -> Key \cup {NoKey}]
      /\ settled \in [WS!Token -> SUBSET WS!Outcome]
      /\ IsFiniteSet(Stored) /\ IsFiniteSet(Claiming) /\ Cardinality(Claiming) \in Nat
      /\ minted + Cardinality(Claiming) <= MaxToken
      /\ \A t \in 1..minted : delivery[t] \in Key
  BY FS_CardinalityType DEF Commit, Inv, TypeInv, WS!TypeOK
<1>2. tx' = [tx EXCEPT ![c] = Idle] /\ Unlock(c)
  BY DEF Commit, Return
<1>3. Claiming' = Claiming \ {c}
  BY <1>1, <1>2, IdleTyped DEF Claiming, TypeInv
<1>4. /\ IsFiniteSet(Claiming') /\ Cardinality(Claiming') \in Nat
      /\ Cardinality(Claiming') =
            IF c \in Claiming THEN Cardinality(Claiming) - 1 ELSE Cardinality(Claiming)
  BY <1>1, <1>3, FS_RemoveElement, FS_CardinalityType
<1>5. x.op = "claim" => c \in Claiming /\ minted + 1 \in 1..MaxToken
  BY <1>1, <1>4, PostgresAssumption DEF Claiming
<1>6. /\ minted' \in 0..MaxToken /\ minted <= minted'
      /\ minted' + Cardinality(Claiming') <= MaxToken
      /\ delivery' \in [WS!Token -> Key \cup {NoKey}]
      /\ \A t \in 1..minted : delivery'[t] = delivery[t]
      /\ \A t \in 1..minted' : delivery'[t] \in Key
  <2>1. CASE x.op = "claim"
    <3>1. minted' = minted + 1 /\ delivery' = [delivery EXCEPT ![minted + 1] = x.k]
      BY <2>1 DEF Commit
    <3>2. \A t \in 1..minted : t \in WS!Token /\ t # minted + 1
      BY <1>1, PostgresAssumption DEF WS!Token
    <3>3. \A t \in 1..minted' : t \in 1..minted \/ t = minted + 1
      BY <1>1, <3>1, PostgresAssumption
    <3>4. minted + 1 \in WS!Token
      BY <1>5, <2>1 DEF WS!Token
    <3>5. /\ minted' \in 0..MaxToken /\ minted <= minted'
          /\ minted' + Cardinality(Claiming') <= MaxToken
      BY <1>1, <1>4, <1>5, <2>1, <3>1, PostgresAssumption
    <3>6. QED
      BY <1>0, <1>1, <3>1, <3>2, <3>3, <3>4, <3>5
  <2>2. CASE x.op # "claim"
    <3>1. minted' = minted /\ delivery' = delivery
      BY <2>2 DEF Commit
    <3>2. QED
      BY <1>1, <1>4, <2>2, <3>1, PostgresAssumption DEF Claiming
  <2>3. QED
    BY Zenon, <2>1, <2>2
<1>7. PICK w \in WS!Item : w.status # "absent" /\ item' = [item EXCEPT ![x.k] = w]
  <2>1. CASE x.op = "claim"
    <3>1. PICK w : w = [x.row EXCEPT !.token = minted + 1]
      BY Zenon
    <3>2. item' = [item EXCEPT ![x.k] = w]
      BY <2>1, <3>1 DEF Commit
    <3>3. w \in WS!Item /\ w.status = x.row.status
      BY <1>0, <1>5, <2>1, <3>1 DEF WS!Item
    <3>4. QED
      BY Zenon, <1>0, <3>2, <3>3
  <2>2. CASE x.op # "claim"
    BY ZenonT(30), <1>0, <2>2 DEF Commit
  <2>3. QED
    BY <2>1, <2>2
<1>8. \/ review' = review
      \/ /\ x.op = "review" /\ x.r \in ReviewKey
         /\ review' = [review EXCEPT ![x.r] = [work |-> x.k, decision |-> x.decision]]
  BY <1>0 DEF Commit, CallOK
<1>9. review' \in [ReviewKey -> WS!Review]
  <2>1. x.decision \in {"none", "approve_retry", "reject"}
    BY <1>0 DEF Tx
  <2>2. [work |-> x.k, decision |-> x.decision] \in WS!Review
    BY <1>0, <2>1 DEF WS!Review
  <2>3. QED
    BY Zenon, <1>1, <1>8, <2>2
<1>10. settled' \in [WS!Token -> SUBSET WS!Outcome]
  <2>1. \/ settled' = settled
        \/ \E o \in WS!Outcome : settled' = [settled EXCEPT ![x.t] = @ \cup {o}]
    BY DEF Commit, WS!Outcome
  <2>2. QED
    BY <1>1, <2>1
<1>11. WS!TypeOK' /\ IsFiniteSet(Stored')
  <2>1. item' \in [Key -> WS!Item]
    BY ZenonT(30), <1>1, <1>7
  <2>2. Stored' = Stored \cup {x.k}
    BY <1>0, <1>1, <1>7 DEF Stored
  <2>3. IsFiniteSet(Stored')
    BY ZenonT(30), <1>1, <2>2, FS_AddElement
  <2>4. QED
    BY <1>1, <1>6, <1>9, <1>10, <2>1, <2>3 DEF WS!TypeOK
<1>12. TypeInv'
  BY <1>1, <1>2, <1>4, <1>6, <1>11, IdleTyped, Unlocked DEF TypeInv
<1>13. ASSUME NEW d \in Client, d # c PROVE TxOK(d)'
  <2>1. tx'[d] = tx[d]
    BY <1>0, <1>2, <1>13
  <2>2. \A k \in Key : rowLock[k] = d => rowLock'[k] = d /\ item'[k] = item[k]
    BY ZenonT(30), <1>0, <1>1, <1>2, <1>7, <1>13, Unlocked
  <2>3. \A r \in ReviewKey : keyLock[r] = d => keyLock'[r] = d /\ review'[r] = review[r]
    BY ZenonT(30), <1>0, <1>1, <1>2, <1>8, <1>13, Unlocked
  <2>4. \A k \in Key : item[k].status # "absent" => item'[k].status # "absent"
    BY ZenonT(30), <1>0, <1>1, <1>7
  <2>5. \A r \in ReviewKey : review[r] # WS!NoReview => review'[r] # WS!NoReview
    BY <1>0, <1>1, <1>8, PostgresAssumption DEF WS!NoReview
  <2>6. now \in Nat /\ now' \in Nat /\ now <= now' /\ minted' \in Nat
    BY <1>1, <1>6, PostgresAssumption
  <2>7. QED
    BY ZenonT(30), <1>6, <2>1, <2>2, <2>3, <2>4, <2>5, <2>6, OthersKept
<1>14. TxOK(c)'
  <2>1. tx'[c] = Idle
    BY <1>0, <1>2
  <2>2. now' \in Nat
    BY <1>1, PostgresAssumption
  <2>3. QED
    BY <2>1, <2>2, IdleOK
<1>15. QED
  BY <1>12, <1>13, <1>14 DEF Inv

-----------------------------------------------------------------------------
LEMMA InvInit == Init => Inv
<1> SUFFICES ASSUME Init PROVE Inv
  OBVIOUS
<1>0. 0 \in 0..MaxTime /\ 0 \in 0..MaxToken /\ 0 \in Nat /\ 0 <= 0
  BY PostgresAssumption
<1>1. WS!TypeOK
  BY ZenonT(30), <1>0, AbsentTyped DEF Init, WS!Init, WS!TypeOK, WS!Review, WS!NoReview
<1>2. Stored = {} /\ Claiming = {}
  BY Zenon, AbsentTyped, IdleTyped DEF Init, WS!Init, Stored, Claiming
<1>3. IsFiniteSet({}) /\ Cardinality({}) = 0
  BY FS_EmptySet
<1>4. minted = 0 /\ now = 0
  BY DEF Init, WS!Init
<1>5. TypeInv
  BY <1>0, <1>1, <1>2, <1>3, <1>4, IdleTyped, PostgresAssumption DEF Init, TypeInv
<1>6. ASSUME NEW c \in Client PROVE TxOK(c)
  BY <1>0, <1>4, IdleTyped DEF Init, TxOK, CallOK, Settling
<1>7. QED
  BY <1>5, <1>6 DEF Inv

LEMMA InvNext == Inv /\ [Next]_vars => Inv'
<1> SUFFICES ASSUME Inv, [Next]_vars PROVE Inv'
  OBVIOUS
<1>1. CASE Tick
  BY <1>1, TickStep
<1>2. ASSUME NEW c \in Client, Begin(c) PROVE Inv'
  BY <1>2, BeginStep
<1>3. ASSUME NEW c \in Client, Step(c) PROVE Inv'
  <2>1. CASE ReadConflicting(c) \/ Reread(c)
    BY <2>1, ReturnStep DEF ReadConflicting, Reread
  <2>2. QED
    BY <1>3, <2>1, InsertItemStep, SnapshotStep, LockCandidateStep, LockItemStep,
       FindReviewStep,
       LockReviewedStep, RecheckStep, InsertReviewStep, CommitStep DEF Step
<1>4. ASSUME NEW c \in Client, Abort(c) PROVE Inv'
  BY ZenonT(30), <1>4, ReturnStep DEF Abort
<1>5. CASE UNCHANGED vars
  <2>1. UNCHANGED <<item, review, now, minted, delivery, settled, rowLock, keyLock, tx>>
    BY <1>5 DEF vars
  <2>2. TypeInv /\ now \in Nat /\ minted \in Nat
    BY PostgresAssumption DEF Inv, TypeInv, WS!TypeOK
  <2>3. Stored' = Stored /\ Claiming' = Claiming /\ WS!TypeOK'
    BY <2>1, <2>2 DEF Stored, Claiming, TypeInv, WS!TypeOK
  <2>4. TypeInv'
    BY <2>1, <2>2, <2>3 DEF TypeInv
  <2>5. ASSUME NEW c \in Client PROVE TxOK(c)'
    BY <2>1, <2>2, OthersKept
  <2>6. QED
    BY <2>4, <2>5 DEF Inv
<1>6. QED
  BY <1>1, <1>2, <1>3, <1>4, <1>5 DEF Next

LEMMA InvHolds == Spec => []Inv
BY InvInit, InvNext, PTL DEF Spec

-----------------------------------------------------------------------------
\* The refinement: a commit is one call of the queue, every other step of a client
\* leaves the queue alone.

LEMMA CommitEnqueue ==
  ASSUME Inv, NEW c \in Client, Commit(c), tx[c].op = "enqueue"
  PROVE  WS!Enqueue(tx[c].k, tx[c].at)
<1> DEFINE x == tx[c]
<1>1. Computed(x)
  BY DEF Commit, Inv, TxOK
<1>2. /\ item' = [item EXCEPT ![x.k] = x.row]
      /\ UNCHANGED <<review, now, minted, delivery, settled>>
  BY DEF Commit
<1>3. QED
  BY Zenon, <1>1, <1>2 DEF Computed, WS!Enqueue

LEMMA CommitClaim ==
  ASSUME Inv, NEW c \in Client, Commit(c), tx[c].op = "claim"
  PROVE  WS!Claim(tx[c].k, tx[c].at)
<1> DEFINE x == tx[c]
           it == item[x.k]
<1>1. /\ WS!Eligible(x.k, x.at) /\ x.k \in Key /\ it \in WS!Item
      /\ x.row = [it EXCEPT !.status = "claimed", !.attempt = it.attempt + 1,
                            !.expires = x.at + Ttl]
  BY ZenonT(30) DEF Commit, Inv, TxOK, TypeInv, WS!TypeOK, Computed
<1>2. minted < MaxToken
  <2>1. c \in Claiming /\ IsFiniteSet(Claiming) /\ minted + Cardinality(Claiming) <= MaxToken
    BY DEF Claiming, Inv, TypeInv
  <2>2. Cardinality(Claiming) \in Nat /\ Cardinality(Claiming) # 0
    BY <2>1, FS_EmptySet, FS_CardinalityType
  <2>3. minted \in Nat
    BY PostgresAssumption DEF Inv, TypeInv, WS!TypeOK
  <2>4. QED
    BY <2>1, <2>2, <2>3, PostgresAssumption
<1>3. \E locked \in SUBSET Key :
         /\ x.k \notin locked
         /\ \A j \in Key \ locked : WS!Eligible(j, x.at) => it.available <= item[j].available
  <2>1. it.available <= it.available
    BY <1>1 DEF WS!Item
  <2>2. WITNESS Key \ {x.k} \in SUBSET Key
  <2>3. QED
    BY <1>1, <2>1
<1>4. /\ item' = [item EXCEPT ![x.k] = [x.row EXCEPT !.token = minted + 1]]
      /\ minted' = minted + 1 /\ delivery' = [delivery EXCEPT ![minted + 1] = x.k]
      /\ UNCHANGED <<review, now, settled>>
  BY DEF Commit
<1>5. [x.row EXCEPT !.token = minted + 1] =
         [it EXCEPT !.status = "claimed", !.attempt = it.attempt + 1, !.token = minted + 1,
                    !.expires = x.at + Ttl]
  <2>1. it = [status |-> it.status, attempt |-> it.attempt, available |-> it.available,
              token |-> it.token, last |-> it.last, expires |-> it.expires,
              reason |-> it.reason]
    BY <1>1, ItemFields
  <2>2. x.row = [status |-> "claimed", attempt |-> it.attempt + 1, available |-> it.available,
                 token |-> it.token, last |-> it.last, expires |-> x.at + Ttl,
                 reason |-> it.reason]
    BY ZenonT(30), <1>1, <2>1
  <2>3. PICK y : y = [x.row EXCEPT !.token = minted + 1]
    BY Zenon
  <2>4. y = [status |-> "claimed", attempt |-> it.attempt + 1, available |-> it.available,
             token |-> minted + 1, last |-> it.last, expires |-> x.at + Ttl,
             reason |-> it.reason]
    BY <2>2, <2>3
  <2>5. PICK z : z = [it EXCEPT !.status = "claimed", !.attempt = it.attempt + 1,
                                !.token = minted + 1, !.expires = x.at + Ttl]
    OBVIOUS
  <2>6. z = [status |-> "claimed", attempt |-> it.attempt + 1, available |-> it.available,
             token |-> minted + 1, last |-> it.last, expires |-> x.at + Ttl,
             reason |-> it.reason]
    BY Zenon, <2>1, <2>5
  <2>7. QED
    BY Zenon, <2>3, <2>4, <2>5, <2>6
<1>6. item' = [item EXCEPT ![x.k] = [@ EXCEPT !.status = "claimed",
                                              !.attempt = item[x.k].attempt + 1,
                                              !.token = minted + 1, !.expires = x.at + Ttl]]
  BY ZenonT(30), <1>4, <1>5
<1>7. QED
  BY Zenon, <1>1, <1>2, <1>3, <1>4, <1>6 DEF WS!Claim

LEMMA CommitSettle ==
  ASSUME Inv, NEW c \in Client, Commit(c), tx[c].op \in {"renew"} \cup Settling
  PROVE  WS!Settle(tx[c].t, tx[c].at)
<1> DEFINE x == tx[c]
           it == item[x.k]
<1>1. /\ Computed(x) /\ CallOK(x) /\ x.k \in Key /\ item \in [Key -> WS!Item]
      /\ delivery[x.t] = x.k
  BY DEF Commit, Inv, TxOK, TypeInv, WS!TypeOK, CallOK
<1>2. /\ item' = [item EXCEPT ![x.k] = x.row]
      /\ UNCHANGED <<review, now, minted, delivery>>
  BY Zenon DEF Commit, Settling
<1>3. CASE x.op = "renew"
  <2>1. settled' = settled
    BY <1>3 DEF Commit
  <2>2. WS!Renew(x.k, x.t, x.at)
    BY ZenonT(30), <1>1, <1>2, <1>3, <2>1 DEF Computed, WS!Renew
  <2>3. QED
    BY <1>1, <2>2 DEF WS!Settle
<1>4. x.row = it => item' = item
  BY <1>1, <1>2
<1>5. CASE x.op = "complete"
  <2>1. WS!Accept(x.t, "completed")
    BY <1>5 DEF Commit, WS!Accept
  <2>2. /\ WS!Replay(x.k, x.t, "completed") \/ WS!ActiveDelivery(x.k, x.t, x.at)
        /\ x.row = IF WS!Replay(x.k, x.t, "completed") THEN it
                   ELSE WS!Released(it, "completed")
    BY <1>1, <1>5 DEF Computed, Settling, Accepted, Settlement
  <2>3. WS!Complete(x.k, x.t, x.at)
    BY Zenon, <1>2, <1>4, <2>1, <2>2 DEF WS!Complete
  <2>4. QED
    BY <1>1, <2>3 DEF WS!Settle
<1>6. CASE x.op = "block"
  <2>1. WS!Accept(x.t, "blocked")
    BY <1>6 DEF Commit, WS!Accept
  <2>2. /\ WS!Replay(x.k, x.t, "blocked") \/ WS!ActiveDelivery(x.k, x.t, x.at)
        /\ x.row = IF WS!Replay(x.k, x.t, "blocked") THEN it
                   ELSE [WS!Released(it, "blocked") EXCEPT !.reason = "given"]
    BY <1>1, <1>6 DEF Computed, Settling, Accepted, Settlement
  <2>3. WS!Block(x.k, x.t, x.at)
    BY Zenon, <1>2, <1>4, <2>1, <2>2 DEF WS!Block
  <2>4. QED
    BY Zenon, <1>1, <2>3 DEF WS!Settle
<1>7. CASE x.op = "retry"
  <2>1. WS!Accept(x.t, "pending") /\ x.delay \in Delay
    BY <1>1, <1>7 DEF Commit, WS!Accept, CallOK
  <2>2. /\ WS!Replay(x.k, x.t, "pending") \/ WS!ActiveDelivery(x.k, x.t, x.at)
        /\ x.row = IF WS!Replay(x.k, x.t, "pending") THEN it
                   ELSE [WS!Released(it, "pending") EXCEPT !.available = x.at + x.delay]
    BY <1>1, <1>7 DEF Computed, Settling, Accepted, Settlement
  <2>3. WS!Retry(x.k, x.t, x.at, x.delay)
    BY Zenon, <1>2, <1>4, <2>1, <2>2 DEF WS!Retry
  <2>4. QED
    BY Zenon, <1>1, <2>1, <2>3 DEF WS!Settle
<1>8. QED
  BY <1>3, <1>5, <1>6, <1>7 DEF Settling

LEMMA CommitReview ==
  ASSUME Inv, NEW c \in Client, Commit(c), tx[c].op = "review"
  PROVE  WS!ReviewItem(tx[c].r, tx[c].k, tx[c].decision, tx[c].at, tx[c].delay)
<1> DEFINE x == tx[c]
<1>1. Computed(x) /\ CallOK(x)
  BY DEF Commit, Inv, TxOK
<1>2. /\ item' = [item EXCEPT ![x.k] = x.row]
      /\ review' = [review EXCEPT ![x.r] = [work |-> x.k, decision |-> x.decision]]
      /\ UNCHANGED <<now, minted, delivery, settled>>
  BY DEF Commit
<1>3. QED
  BY ZenonT(30), <1>1, <1>2 DEF Computed, CallOK, WS!ReviewItem

LEMMA CommitIsCall == ASSUME Inv, NEW c \in Client, Commit(c) PROVE WS!Next
<1> DEFINE x == tx[c]
<1>1. /\ x \in Tx /\ CallOK(x) /\ x.k \in Key /\ x.op # "none"
      /\ now \in 0..MaxTime /\ minted \in 0..MaxToken
  BY DEF Commit, Inv, TypeInv, WS!TypeOK, TxOK, CallOK
<1>2. x.at \in WS!ClockReadings
  BY <1>1, PostgresAssumption DEF WS!ClockReadings, Tx, CallOK
<1>3. CASE x.op = "enqueue"
  BY <1>1, <1>2, <1>3, CommitEnqueue DEF WS!Next
<1>4. CASE x.op = "claim"
  BY <1>1, <1>2, <1>4, CommitClaim DEF WS!Next
<1>5. CASE x.op \in {"renew"} \cup Settling
  <2>1. x.t \in WS!Token
    BY <1>1, <1>5, PostgresAssumption DEF CallOK, WS!Token
  <2>2. QED
    BY <1>2, <1>5, <2>1, CommitSettle DEF WS!Next
<1>6. CASE x.op = "review"
  <2>1. x.r \in ReviewKey /\ x.delay \in Delay /\ x.decision \in {"approve_retry", "reject"}
    BY <1>1, <1>6 DEF CallOK
  <2>2. QED
    BY <1>1, <1>2, <1>6, <2>1, CommitReview DEF WS!Next
<1>7. QED
  BY <1>1, <1>3, <1>4, <1>5, <1>6 DEF Tx, Settling

LEMMA StepRefines == Inv /\ [Next]_vars => [WS!Next]_(WS!vars)
<1> SUFFICES ASSUME Inv, [Next]_vars PROVE WS!Next \/ UNCHANGED WS!vars
  OBVIOUS
<1>1. CASE Tick
  BY <1>1 DEF Tick, WS!Next
<1>2. ASSUME UNCHANGED queue PROVE UNCHANGED WS!vars
  BY <1>2 DEF queue, WS!vars
<1>3. ASSUME NEW c \in Client, Begin(c) PROVE UNCHANGED queue
  BY ZenonT(30), <1>3 DEF Begin, Call
<1>4. ASSUME NEW c \in Client, Step(c) PROVE Commit(c) \/ UNCHANGED queue
  BY ZenonT(30), <1>4 DEF Step, InsertItem, ReadConflicting, Snapshot, LockCandidate, LockItem,
     FindReview,
     Reread, LockReviewed, Recheck, InsertReview
<1>5. ASSUME NEW c \in Client, Abort(c) PROVE UNCHANGED queue
  BY <1>5 DEF Abort
<1>6. CASE UNCHANGED vars
  BY <1>6 DEF vars, WS!vars
<1>7. QED
  BY <1>1, <1>2, <1>3, <1>4, <1>5, <1>6, CommitIsCall DEF Next

\* The PostgreSQL adapter implements the queue: whatever statements of whatever
\* number of clients interleave, and wherever a connection breaks, each commit of
\* enqueue, claim, renew, complete, block, retry and review is one call of
\* FlowWorkSource, decided on the row as it is at the commit.
THEOREM ImplementsQueue == Spec => FollowsWorkSource
<1>1. Init => WS!Init
  BY DEF Init
<1>2. QED
  BY <1>1, InvHolds, StepRefines, PTL DEF Spec, FollowsWorkSource, WS!Spec

\* ON CONFLICT DO NOTHING that inserted nothing is followed by a read that finds
\* the row: scalar_one in enqueue and the assertion in review never fail.
THEOREM ConflictFound == Spec => []ConflictVisible
<1>1. Inv => ConflictVisible
  BY DEF Inv, TxOK, ConflictVisible
<1>2. QED
  BY <1>1, InvHolds, PTL
=============================================================================
