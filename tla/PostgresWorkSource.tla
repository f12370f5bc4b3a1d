------------------------- MODULE PostgresWorkSource -------------------------
(***************************************************************************)
(* The PostgreSQL adapter of the work queue, transaction by transaction:   *)
(* stores/postgres/flow_work_source.py.  A call reads its clock, locks the *)
(* row it works on (or steps over locked rows), computes the new row and   *)
(* commits; a second call may run between any two of these, and the        *)
(* connection may break before the commit.  Every statement sees what is   *)
(* committed when it starts (READ COMMITTED).                              *)
(*                                                                         *)
(* The module implements FlowWorkSource, where a call is one action.       *)
(***************************************************************************)
EXTENDS Integers, Sequences, FiniteSets, Functions

CONSTANTS
    Client,
    Key, ReviewKey, NoKey, Ttl, Delay, MaxTime, MaxToken,   \* as in FlowWorkSource
    Free         \* nobody holds the lock

ASSUME PostgresAssumption == /\ Free \notin Client
                             /\ NoKey \notin Key
                             /\ Ttl \in Nat \ {0}
                             /\ Delay \subseteq Nat
                             /\ MaxTime \in Nat
                             /\ MaxToken \in Nat

VARIABLES
    item, review, now, minted, delivery, settled,   \* committed rows and history, as in FlowWorkSource
    rowLock,     \* who has locked or is inserting a work item
    keyLock,     \* who is inserting a review
    tx           \* the call of each client

queue == <<item, review, now, minted, delivery, settled>>
vars == <<item, review, now, minted, delivery, settled, rowLock, keyLock, tx>>

WS == INSTANCE FlowWorkSource WITH Lag <- MaxTime, LockedSets <- SUBSET Key

Idle == [pc |-> "idle", op |-> "none", k |-> NoKey, t |-> 0, r |-> NoKey, at |-> 0, delay |-> 0,
         decision |-> "none", row |-> WS!Absent, cand |-> <<>>]

Init ==
    /\ WS!Init
    /\ rowLock = [k \in Key |-> Free]
    /\ keyLock = [r \in ReviewKey |-> Free]
    /\ tx = [c \in Client |-> Idle]

Tick ==
    /\ WS!Tick
    /\ UNCHANGED <<rowLock, keyLock, tx>>

\* A transaction ends and gives up its locks.
Unlock(c) ==
    /\ rowLock' = [k \in Key |-> IF rowLock[k] = c THEN Free ELSE rowLock[k]]
    /\ keyLock' = [r \in ReviewKey |-> IF keyLock[r] = c THEN Free ELSE keyLock[r]]

Return(c) == Unlock(c) /\ tx' = [tx EXCEPT ![c] = Idle]

Call(c, call) ==
    /\ tx[c] = Idle
    /\ tx' = [tx EXCEPT ![c] = [call EXCEPT !.at = now]]
    /\ UNCHANGED <<queue, rowLock, keyLock>>

-----------------------------------------------------------------------------
\* enqueue: the insert waits for another insert of the key to end.
InsertItem(c) ==
    /\ tx[c].pc = "insert"
    /\ LET k == tx[c].k IN
       IF item[k].status # "absent"
       THEN tx' = [tx EXCEPT ![c].pc = "conflict"] /\ UNCHANGED rowLock
       ELSE /\ rowLock[k] = Free
            /\ rowLock' = [rowLock EXCEPT ![k] = c]
            /\ tx' = [tx EXCEPT ![c].pc = "commit",
                                ![c].row = [WS!Absent EXCEPT !.status = "pending", !.available = tx[c].at]]
    /\ UNCHANGED <<queue, keyLock>>

\* Faulty variant: the answer is returned with the transaction left open.
ReadConflictingOpen(c) ==
    /\ tx[c].pc = "conflict"
    /\ tx' = [tx EXCEPT ![c] = Idle]
    /\ UNCHANGED <<queue, rowLock, keyLock>>

\* The key is taken: the row that took it is read and returned, or its intent differs.
ReadConflicting(c) ==
    /\ tx[c].pc = "conflict"
    /\ Return(c)
    /\ UNCHANGED queue

-----------------------------------------------------------------------------
\* The sequences that list each element of S once.
Orders(S) == Injection(1 .. Cardinality(S), S)

\* claim: the query collects the eligible rows in their order ...
Snapshot(c) ==
    /\ tx[c].pc = "select"
    /\ \E rows \in Orders({k \in Key : WS!Eligible(k, tx[c].at)}) :
          /\ \A i, j \in DOMAIN rows : i < j => item[rows[i]].available <= item[rows[j]].available
          /\ tx' = [tx EXCEPT ![c].cand = rows, ![c].pc = "scan"]
    /\ UNCHANGED <<queue, rowLock, keyLock>>

\* A row that changed since the query started is tested again.
StillEligible(k, at) == WS!Eligible(k, at)

\* ... and locks the first that nobody has locked and that is still eligible.
LockCandidate(c) ==
    /\ tx[c].pc = "scan"
    /\ IF tx[c].cand = <<>>
       THEN Return(c)
       ELSE LET k == Head(tx[c].cand) IN
            /\ UNCHANGED keyLock
            /\ IF rowLock[k] = Free /\ StillEligible(k, tx[c].at)
               THEN /\ rowLock' = [rowLock EXCEPT ![k] = c]
                    /\ tx' = [tx EXCEPT ![c].pc = "commit", ![c].k = k,
                                        ![c].row = [item[k] EXCEPT !.status = "claimed",
                                                                   !.attempt = item[k].attempt + 1,
                                                                   !.expires = tx[c].at + Ttl]]
               ELSE tx' = [tx EXCEPT ![c].cand = Tail(tx[c].cand)] /\ UNCHANGED rowLock
    /\ UNCHANGED queue

-----------------------------------------------------------------------------
\* The row complete, block and retry write, or the stored one when the call was
\* carried out before.
Settlement(call, row) ==
    LET settledAs == CASE call.op = "complete" -> "completed" [] call.op = "block" -> "blocked" [] OTHER -> "pending"
        released == WS!Released(row, settledAs)
    IN  IF WS!Replay(call.k, call.t, settledAs) THEN row
        ELSE CASE call.op = "complete" -> released
               [] call.op = "block" -> [released EXCEPT !.reason = "given"]
               [] OTHER -> [released EXCEPT !.available = call.at + call.delay]

\* _validate_delivery and _validate_active_delivery
Accepted(call) ==
    \/ call.op = "complete" /\ WS!Replay(call.k, call.t, "completed")
    \/ call.op = "block" /\ WS!Replay(call.k, call.t, "blocked")
    \/ call.op = "retry" /\ WS!Replay(call.k, call.t, "pending")
    \/ WS!ActiveDelivery(call.k, call.t, call.at)

\* Faulty variant: the row is read without FOR UPDATE.
MayLockAlways(c, k) == TRUE

MayLock(c, k) == rowLock[k] = Free

\* renew, complete, block and retry: the row is locked, tested and computed.
LockItem(c) ==
    /\ tx[c].pc = "lock" /\ tx[c].op # "review"
    /\ LET call == tx[c] IN
       /\ MayLock(c, call.k)
       /\ IF Accepted(call)
          THEN /\ rowLock' = [rowLock EXCEPT ![call.k] = c]
               /\ tx' = [tx EXCEPT ![c].pc = "commit",
                                   ![c].row = IF call.op = "renew"
                                              THEN [item[call.k] EXCEPT !.expires = call.at + Ttl]
                                              ELSE Settlement(call, item[call.k])]
               /\ UNCHANGED keyLock
          ELSE Return(c)
    /\ UNCHANGED queue

-----------------------------------------------------------------------------
\* review: a key that was used returns what is recorded, once the item is free.
FindReview(c) ==
    /\ tx[c].pc = "find"
    /\ tx' = [tx EXCEPT ![c].pc = IF review[tx[c].r] # WS!NoReview THEN "reread" ELSE "lock"]
    /\ UNCHANGED <<queue, rowLock, keyLock>>

Reread(c) ==
    /\ tx[c].pc = "reread"
    /\ rowLock[review[tx[c].r].work] = Free
    /\ Return(c)
    /\ UNCHANGED queue

\* The item is locked first; one that does not exist raises.
LockReviewed(c) ==
    /\ tx[c].pc = "lock" /\ tx[c].op = "review"
    /\ LET k == tx[c].k IN
       IF item[k].status = "absent"
       THEN Return(c)
       ELSE /\ MayLock(c, k)
            /\ rowLock' = [rowLock EXCEPT ![k] = c]
            /\ tx' = [tx EXCEPT ![c].pc = "recheck"]
            /\ UNCHANGED keyLock
    /\ UNCHANGED queue

\* The key may have been used, and the item reviewed, while the lock was waited for;
\* the time of the review is read after that.
Recheck(c) ==
    /\ tx[c].pc = "recheck"
    /\ IF review[tx[c].r] # WS!NoReview \/ item[tx[c].k].status # "blocked"
       THEN Return(c)
       ELSE tx' = [tx EXCEPT ![c].pc = "record", ![c].at = now] /\ UNCHANGED <<rowLock, keyLock>>
    /\ UNCHANGED queue

\* The review is inserted unless another call records the same key for another item.
InsertReview(c) ==
    /\ tx[c].pc = "record"
    /\ LET call == tx[c] IN
       IF review[call.r] # WS!NoReview
       THEN tx' = [tx EXCEPT ![c].pc = "conflict"] /\ UNCHANGED keyLock
       ELSE /\ keyLock[call.r] = Free
            /\ keyLock' = [keyLock EXCEPT ![call.r] = c]
            /\ tx' = [tx EXCEPT ![c].pc = "commit",
                                ![c].row = WS!Reviewed(item[call.k], call.decision, call.at, call.delay)]
    /\ UNCHANGED <<queue, rowLock>>

-----------------------------------------------------------------------------
\* The update of the transaction becomes visible with its review.
Commit(c) ==
    /\ tx[c].pc = "commit"
    /\ LET call == tx[c] IN
       /\ item' = [item EXCEPT ![call.k] = IF call.op = "claim" THEN [call.row EXCEPT !.token = minted + 1] ELSE call.row]
       /\ minted' = IF call.op = "claim" THEN minted + 1 ELSE minted
       /\ delivery' = IF call.op = "claim" THEN [delivery EXCEPT ![minted + 1] = call.k] ELSE delivery
       /\ review' = IF call.op = "review"
                    THEN [review EXCEPT ![call.r] = [work |-> call.k, decision |-> call.decision]] ELSE review
       /\ settled' = CASE call.op = "complete" -> [settled EXCEPT ![call.t] = @ \cup {"completed"}]
                       [] call.op = "block" -> [settled EXCEPT ![call.t] = @ \cup {"blocked"}]
                       [] call.op = "retry" -> [settled EXCEPT ![call.t] = @ \cup {"pending"}]
                       [] OTHER -> settled
    /\ Return(c)
    /\ UNCHANGED now

\* The connection breaks: the transaction is rolled back.
Abort(c) ==
    /\ tx[c].pc # "idle"
    /\ Return(c)
    /\ UNCHANGED queue

Step(c) ==
    \/ InsertItem(c) \/ ReadConflicting(c) \/ Snapshot(c) \/ LockCandidate(c) \/ LockItem(c)
    \/ FindReview(c) \/ Reread(c) \/ LockReviewed(c) \/ Recheck(c) \/ InsertReview(c) \/ Commit(c)

Begin(c) ==
    \/ \E k \in Key : Call(c, [Idle EXCEPT !.pc = "insert", !.op = "enqueue", !.k = k])
    \/ /\ minted + Cardinality({d \in Client : tx[d].op = "claim"}) < MaxToken
       /\ Call(c, [Idle EXCEPT !.pc = "select", !.op = "claim"])
    \/ \E t \in 1 .. minted :
          \/ \E op \in {"renew", "complete", "block"} :
                Call(c, [Idle EXCEPT !.pc = "lock", !.op = op, !.t = t, !.k = delivery[t]])
          \/ \E d \in Delay :
                Call(c, [Idle EXCEPT !.pc = "lock", !.op = "retry", !.t = t, !.k = delivery[t], !.delay = d])
    \/ \E k \in Key, r \in ReviewKey, decision \in {"approve_retry", "reject"}, d \in Delay :
          /\ decision = "reject" => d = 0
          /\ Call(c, [Idle EXCEPT !.pc = "find", !.op = "review", !.k = k, !.r = r,
                                  !.decision = decision, !.delay = d])

Next ==
    \/ Tick
    \/ \E c \in Client : Begin(c) \/ Step(c) \/ Abort(c)

Spec == Init /\ [][Next]_vars

-----------------------------------------------------------------------------
\* Every transaction of the adapter, at its commit, is one call of the queue as
\* FlowWorkSource has it, with a clock reading from before its lock: no update is
\* lost, no row is claimed on the strength of an outdated query, and no review is
\* applied twice, in whatever order statements of several clients run.
FollowsWorkSource == WS!Spec

\* A call that is told that its idempotency key is taken finds the row that took
\* it, which enqueue and review rely on (scalar_one, and an assertion).
ConflictVisible ==
    \A c \in Client : tx[c].pc = "conflict" =>
        IF tx[c].op = "review" THEN review[tx[c].r] # WS!NoReview ELSE item[tx[c].k].status # "absent"

\* Transactions do not wait for each other in a circle, nor for one that has
\* returned: while a call is under way, some call can go on.
NoCircularWait ==
    (\E c \in Client : tx[c].pc # "idle") => \E c \in Client : ENABLED Step(c)

\* Transactions that conflict get on: the loser of an insert finds the row it lost
\* to, and no set of transactions waits for itself.
ConflictsResolve == ConflictVisible /\ NoCircularWait
=============================================================================
