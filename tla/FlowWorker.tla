----------------------------- MODULE FlowWorker -----------------------------
(***************************************************************************)
(* Polling workers (flows/worker.py) that execute the work of one Flow:    *)
(* each claims a work item, takes the execution lease of the Flow, lets    *)
(* the recovery policy (flows/recovery.py) decide, runs the application's  *)
(* dispatcher, releases the lease and settles the item, while heartbeats   *)
(* keep both leases and any of it may stop half way.                       *)
(*                                                                         *)
(* FlowWorkSource and FlowRepository model the two stores with tokens and  *)
(* clocks.  Here a lease is who holds it and whether it is fresh (not      *)
(* expired): a worker holds at most one of each kind, so the holder stands *)
(* for the token, and a lease that went stale stays so until it is taken   *)
(* over.  A write to the Flow is one step, as the refinement checked for   *)
(* FlowRepository justifies.                                               *)
(***************************************************************************)
EXTENDS FlowRun, FiniteSets

CONSTANTS
    Worker,
    NoWorker,
    Work,        \* the items enqueued for this Flow
    Kind,        \* the command of each: "execute", "resume" or "cancel"
    Answered,    \* the resume commands that carry an input or a confirmation
    Results,     \* the results Agent invocations return
    MaxFaults    \* bound on crashes, stalls, cancellations, errors, stops, reviews

ASSUME WorkerAssumption == /\ NoWorker \notin Worker
                           /\ Kind \in [Work -> {"execute", "resume", "cancel"}]
                           /\ Results \subseteq ResultStatus
                           /\ MaxFaults \in Nat

VARIABLES
    flow,     \* the stored Flow
    item,     \* the work items
    lease,    \* the execution lease
    pc,       \* what each worker is doing
    job,      \* the item it claimed
    todo,     \* the decision of the recovery policy its dispatcher executes
    view,     \* the Flow as the worker last read or wrote it
    result,   \* how the handler ended
    dropped,  \* items left claimed when a call to the work source raised (for the properties)
    faults    \* how many of these have happened

vars == <<flow, item, lease, pc, job, todo, view, result, dropped, faults>>

\* What a worker knows of the item in its hands.
local == <<job, todo, view, result>>

Free == [owner |-> NoWorker, fresh |-> FALSE]

Init == /\ flow = Created
        /\ \E first \in SUBSET {k \in Work : Kind[k] = "execute"} :
              /\ first # {}
              /\ item = [k \in Work |-> [status |-> IF k \in first THEN "pending" ELSE "absent",
                                         owner |-> NoWorker, fresh |-> FALSE]]
        /\ lease = Free
        /\ pc = [w \in Worker |-> "idle"]
        /\ job = [w \in Worker |-> CHOOSE k \in Work : TRUE]
        /\ todo = [w \in Worker |-> "none"]
        /\ view = [w \in Worker |-> NoFlow]
        /\ result = [w \in Worker |-> "none"]
        /\ dropped = {}
        /\ faults = 0

-----------------------------------------------------------------------------
\* The two stores, as FlowWorkSource and FlowRepository model them.

AtRest(s) == s.status \in Terminal \cup {"waiting"}

\* _require_active_delivery
DeliveryActive(w) == LET it == item[job[w]] IN
    it.status = "claimed" /\ it.owner = w /\ it.fresh

\* _validate_execution_token
LeaseValid(w) == lease.owner = w /\ lease.fresh

Leased == lease.owner # NoWorker /\ lease.fresh

Enqueue(k) ==
    /\ item[k].status = "absent"
    /\ item' = [item EXCEPT ![k].status = "pending"]
    /\ UNCHANGED <<flow, lease, pc, local, faults, dropped>>

Fault == faults < MaxFaults /\ faults' = faults + 1

\* An operator reviews a blocked item.
Review(k, status) ==
    /\ item[k].status = "blocked"
    /\ Fault
    /\ item' = [item EXCEPT ![k].status = status]
    /\ UNCHANGED <<flow, lease, pc, local, dropped>>

Gone(w) == pc[w] \in {"dead", "stopped"}

\* Whether a worker is still at the work its lease, or its delivery, is for.
UsesLease(w) == pc[w] \in {"handling", "dispatching", "unwinding", "releasing"}

UsesDelivery(w, k) ==
    job[w] = k /\ pc[w] \in {"claimed", "handling", "dispatching", "unwinding",
                             "releasing", "settling"}

\* A lease expires when nobody renews it any more, or its holder stalls.
LeaseExpires ==
    /\ Leased
    /\ lease' = [lease EXCEPT !.fresh = FALSE]
    /\ IF UsesLease(lease.owner) THEN Fault ELSE UNCHANGED faults
    /\ UNCHANGED <<flow, item, pc, local, dropped>>

DeliveryExpires(k) ==
    /\ item[k].status = "claimed" /\ item[k].fresh
    /\ item' = [item EXCEPT ![k].fresh = FALSE]
    /\ IF UsesDelivery(item[k].owner, k) THEN Fault ELSE UNCHANGED faults
    /\ UNCHANGED <<flow, lease, pc, local, dropped>>

-----------------------------------------------------------------------------
\* One pass of run_once.

Deliver(w, k) ==
    /\ pc[w] = "idle"
    /\ item[k].status = "pending" \/ (item[k].status = "claimed" /\ ~item[k].fresh)
    /\ item' = [item EXCEPT ![k] = [status |-> "claimed", owner |-> w, fresh |-> TRUE]]

Claim(w, k) ==
    /\ Deliver(w, k)
    /\ job' = [job EXCEPT ![w] = k]
    /\ pc' = [pc EXCEPT ![w] = "claimed"]
    /\ dropped' = dropped \ {k}
    /\ UNCHANGED <<flow, lease, todo, view, result, faults>>

\* claim raises after it has reached the store: nobody works on the item, whose
\* token the worker never sees, until the delivery expires.
ClaimFails(w, k) ==
    /\ Deliver(w, k)
    /\ Fault
    /\ dropped' = dropped \cup {k}
    /\ UNCHANGED <<flow, lease, pc, local>>

\* acquire_execution does not raise.
Acquirable == flow.status \notin Terminal /\ ~Leased

Acquire(w) ==
    /\ pc[w] = "claimed"
    /\ IF ~Acquirable
       THEN /\ pc' = [pc EXCEPT ![w] = "settling"]
            /\ result' = [result EXCEPT ![w] = "error"]
            /\ UNCHANGED lease
       ELSE /\ lease' = [owner |-> w, fresh |-> TRUE]
            /\ pc' = [pc EXCEPT ![w] = "handling"]
            /\ UNCHANGED result
    /\ UNCHANGED <<flow, item, job, todo, view, faults, dropped>>

\* FlowRecoveryPolicy.decide
Decision(k, s) ==
    CASE s.status \in Terminal -> "noop"
      [] Kind[k] = "cancel" /\ s.status \notin Terminal -> "cancel"
      [] Kind[k] = "resume" /\ s.status \notin Terminal ->
            IF s.status = "waiting" /\ k \in Answered THEN "resume" ELSE "review"
      [] Kind[k] = "execute" /\ s.status = "created" -> "start"
      [] Kind[k] = "execute" /\ s.status = "waiting" -> "review"
      [] Kind[k] = "execute" /\ s.status = "running" ->
            IF s.active # 0 THEN "review"
            ELSE IF s.inv = <<>> \/ s.inv[Len(s.inv)] = "completed" THEN "advance"
            ELSE "finalize"

Ends(w, how) == /\ pc' = [pc EXCEPT ![w] = "releasing"]
                /\ result' = [result EXCEPT ![w] = how]

\* DefinitionResolvingFlowWorkHandler up to the dispatcher: the Flow is read
\* without the lease being looked at.  The definition may be missing or changed.
Handle(w) ==
    /\ pc[w] = "handling"
    /\ view' = [view EXCEPT ![w] = flow]
    /\ \/ Ends(w, "blocked") /\ UNCHANGED todo
       \/ Decision(job[w], flow) = "review" /\ Ends(w, "blocked") /\ UNCHANGED todo
       \/ Decision(job[w], flow) = "noop" /\ Ends(w, "ok") /\ UNCHANGED todo
       \/ /\ Decision(job[w], flow) \notin {"review", "noop"}
          /\ todo' = [todo EXCEPT ![w] = Decision(job[w], flow)]
          /\ pc' = [pc EXCEPT ![w] = "dispatching"]
          /\ UNCHANGED result
    /\ UNCHANGED <<flow, item, lease, job, faults, dropped>>

\* What the application's dispatcher writes next, with the methods of
\* FlowLifecycle, to execute a decision: it advances the Flow until it rests.
Writes(action, s) ==
    CASE action = "cancel" -> {Terminated(s, "cancelled")}
      [] action = "finalize" -> {Terminated(s, "failed")}
      [] action = "start" -> {Started(s)}
      [] action = "resume" -> {Resumed(s, s.active)}
      [] action = "advance" ->
            IF s.active # 0 THEN {Settled(s, s.active, r) : r \in Results}
            ELSE IF s.inv # <<>> /\ s.inv[Len(s.inv)] # "completed"
                 THEN {Terminated(s, s.inv[Len(s.inv)])}
            ELSE IF CanBegin(s) THEN {Begun(s)}
            ELSE {Completed(s)}
      [] action = "return" -> {}

\* Faulty variant: the dispatcher's writes are not checked against the lease.
DispatchUnfenced(w) ==
    /\ pc[w] = "dispatching"
    /\ ~AtRest(flow) \/ todo[w] = "resume"
    /\ flow' \in Writes(todo[w], flow)
    /\ view' = [view EXCEPT ![w] = flow']
    /\ todo' = [todo EXCEPT ![w] = IF AtRest(flow') THEN "return" ELSE "advance"]
    /\ UNCHANGED <<item, lease, pc, job, result, faults, dropped>>

Dispatch(w) ==
    /\ pc[w] = "dispatching"
    /\ LeaseValid(w)
    /\ flow' \in Writes(todo[w], flow)
    /\ view' = [view EXCEPT ![w] = flow']
    /\ todo' = [todo EXCEPT ![w] = IF AtRest(flow') THEN "return" ELSE "advance"]
    /\ UNCHANGED <<item, lease, pc, job, result, faults, dropped>>

Return(w) ==
    /\ pc[w] = "dispatching"
    /\ todo[w] = "return"
    /\ Ends(w, "ok")
    /\ UNCHANGED <<flow, item, lease, job, todo, view, faults, dropped>>

\* The handler raises.
Raise(w) ==
    /\ pc[w] \in {"handling", "dispatching"}
    /\ Fault
    /\ Ends(w, "error")
    /\ UNCHANGED <<flow, item, lease, job, todo, view, dropped>>

\* The operation is cancelled: a dispatcher at work is unwound first, and an
\* acquisition or a release in progress may or may not have reached the store.
CancelOperation(w, how) ==
    /\ result' = [result EXCEPT ![w] = how]
    /\ \/ /\ pc[w] = "claimed"
          /\ pc' = [pc EXCEPT ![w] = "settling"]
          /\ lease' \in {lease, IF Acquirable THEN [owner |-> w, fresh |-> TRUE]
                             ELSE lease}
       \/ pc[w] = "handling" /\ pc' = [pc EXCEPT ![w] = "releasing"] /\ UNCHANGED lease
       \/ pc[w] = "dispatching" /\ pc' = [pc EXCEPT ![w] = "unwinding"] /\ UNCHANGED lease
       \/ /\ pc[w] = "releasing"
          /\ pc' = [pc EXCEPT ![w] = "settling"]
          /\ lease' \in {lease, IF lease.owner = w THEN Free ELSE lease}
    /\ UNCHANGED <<flow, item, job, todo, view, dropped>>

\* _heartbeat fails to renew: even a handler that just finished is discarded.
ExecutionHeartbeatFails(w) ==
    /\ pc[w] \in {"handling", "dispatching"}
    /\ ~LeaseValid(w)
    /\ CancelOperation(w, "error")
    /\ UNCHANGED faults

\* _delivery_heartbeat fails to renew; it has ended when the worker is cancelled.
DeliveryHeartbeatFails(w) ==
    /\ ~DeliveryActive(w) /\ result[w] # "cancelled"
    /\ CancelOperation(w, "error")
    /\ UNCHANGED faults

\* acquire_execution, a renewal of either lease or release_execution raises another
\* error than a lost or refused lease.  One of release_execution replaces what the
\* handler raised, but not the cancellation of the worker.
StoreFails(w) ==
    /\ Fault
    /\ CancelOperation(w, IF result[w] = "cancelled" THEN "cancelled" ELSE "error")

\* A cancelled dispatcher may write that the Flow was interrupted, as
\* SequentialFlowStrategy does, if its lease still allows it.
Unwind(w) ==
    /\ pc[w] = "unwinding"
    /\ \/ UNCHANGED flow
       \/ LeaseValid(w) /\ CanTerminate(flow) /\ flow' = Terminated(flow, "interrupted")
    /\ pc' = [pc EXCEPT ![w] = "releasing"]
    /\ UNCHANGED <<item, lease, local, faults, dropped>>

\* The finally clause of execute: losing the lease turns success into an error.
Release(w) ==
    /\ pc[w] = "releasing"
    /\ pc' = [pc EXCEPT ![w] = "settling"]
    /\ IF lease.owner = w
       THEN lease' = Free /\ UNCHANGED result
       ELSE /\ result' = [result EXCEPT ![w] = IF @ = "ok" THEN "error" ELSE @]
            /\ UNCHANGED lease
    /\ UNCHANGED <<flow, item, job, todo, view, faults, dropped>>

\* Faulty variant: blocked work is retried like failed work.
OutcomeRetryingBlocked(how) == IF how = "ok" THEN "completed" ELSE "pending"

\* Faulty variant: an error counts as done.
OutcomeSwallowingErrors(how) == IF how = "blocked" THEN "blocked" ELSE "completed"

Outcome(how) == CASE how = "ok" -> "completed"
                  [] how = "blocked" -> "blocked"
                  [] how \in {"error", "cancelled"} -> "pending"

SettleItem(w) ==
    IF DeliveryActive(w)
    THEN item' = [item EXCEPT ![job[w]] = [status |-> Outcome(result[w]),
                                           owner |-> NoWorker, fresh |-> FALSE]]
    ELSE UNCHANGED item

\* The end of run_once: the loop goes on after an error, not after a cancellation.
EndPass(w) ==
    /\ pc[w] = "settling"
    /\ pc' = [pc EXCEPT ![w] = IF result[w] = "cancelled" THEN "dead" ELSE "idle"]
    /\ result' = [result EXCEPT ![w] = "none"]
    /\ todo' = [todo EXCEPT ![w] = "none"]
    /\ view' = [view EXCEPT ![w] = NoFlow]
    /\ UNCHANGED <<flow, lease, job>>

\* complete, block or retry; a lost delivery is an error the loop survives.
Settle(w) ==
    /\ EndPass(w)
    /\ SettleItem(w)
    /\ UNCHANGED <<faults, dropped>>

\* complete, block or retry raises another error, before or after it has reached
\* the store: the loop survives this as well and nobody settles the item.
SettlementFails(w) ==
    /\ EndPass(w)
    /\ Fault
    /\ \/ SettleItem(w) /\ UNCHANGED dropped
       \/ UNCHANGED item /\ dropped' = IF DeliveryActive(w) THEN dropped \cup {job[w]} ELSE dropped

-----------------------------------------------------------------------------
\* stop(): the loop ends once no item is in hand.
Stop(w) ==
    /\ pc[w] = "idle"
    /\ Fault
    /\ pc' = [pc EXCEPT ![w] = "stopped"]
    /\ UNCHANGED <<flow, item, lease, local, dropped>>

\* The worker's task is cancelled.  While the item is being settled, the call
\* may or may not have reached the store.
TaskCancelled(w) ==
    /\ Fault
    /\ \/ CancelOperation(w, "cancelled")
       \/ /\ pc[w] = "settling"
          /\ pc' = [pc EXCEPT ![w] = "dead"]
          /\ SettleItem(w) \/ UNCHANGED item
          /\ UNCHANGED <<flow, lease, local, dropped>>

Crash(w) ==
    /\ ~Gone(w)
    /\ Fault
    /\ pc' = [pc EXCEPT ![w] = "dead"]
    /\ UNCHANGED <<flow, item, lease, local, dropped>>

\* The steps a live worker takes on its own.
Step(w) ==
    \/ Acquire(w)
    \/ Handle(w)
    \/ Dispatch(w)
    \/ Return(w)
    \/ ExecutionHeartbeatFails(w)
    \/ DeliveryHeartbeatFails(w)
    \/ Unwind(w)
    \/ Release(w)
    \/ Settle(w)

Next ==
    \/ \E k \in Work : Enqueue(k) \/ Review(k, "pending") \/ Review(k, "discarded")
    \/ LeaseExpires
    \/ \E k \in Work : DeliveryExpires(k)
    \/ \E w \in Worker, k \in Work : Claim(w, k) \/ ClaimFails(w, k)
    \/ \E w \in Worker : Step(w) \/ Raise(w) \/ StoreFails(w) \/ SettlementFails(w)
    \/ \E w \in Worker : Stop(w) \/ TaskCancelled(w) \/ Crash(w)

Spec == Init /\ [][Next]_vars

\* A live worker goes on; an unused lease runs out; the oldest available item is
\* claimed first and a retried one goes to the back, so no item is passed over
\* for ever.  Nothing is assumed of operators, and no fault has to happen.
Fairness ==
    /\ \A w \in Worker : WF_vars(Step(w))
    /\ \A k \in Work : SF_vars(\E w \in Worker : Claim(w, k))
    /\ WF_vars(LeaseExpires /\ ~UsesLease(lease.owner))
    /\ \A k \in Work :
          WF_vars(DeliveryExpires(k) /\ ~UsesDelivery(item[k].owner, k))

FairSpec == Spec /\ Fairness

-----------------------------------------------------------------------------
\* Every variable keeps its type: a settlement stores a status of FlowWorkStatus,
\* and whatever the dispatcher writes is a Flow.
TypeOK == /\ flow \in FlowState
          /\ item \in [Work -> [status : {"absent", "pending", "claimed", "completed",
                                          "blocked", "discarded"},
                                owner : Worker \cup {NoWorker}, fresh : BOOLEAN]]
          /\ lease \in [owner : Worker \cup {NoWorker}, fresh : BOOLEAN]
          /\ pc \in [Worker -> {"idle", "claimed", "handling", "dispatching",
                                "unwinding", "releasing", "settling", "stopped", "dead"}]
          /\ job \in [Worker -> Work]
          /\ view \in [Worker -> FlowState]
          /\ dropped \subseteq Work

\* What the recovery policy decided on is still there when the dispatcher acts
\* on it, and so is what the dispatcher wrote last: nobody else writes the Flow
\* while the lease is valid.
DecisionStillCurrent ==
    \A w \in Worker : pc[w] = "dispatching" /\ LeaseValid(w) => flow = view[w]

\* A Flow that has something left to do has an item that will do it or waits for
\* an operator (or an operator discarded it): no crash, lost lease or late
\* settlement completes the last work of a Flow that is not at rest.  Without
\* resume commands, that is: a worker whose delivery has expired can answer
\* again after another one has completed the item (see HandlerOwnsBoth).
NoStrandedFlow ==
    /\ ~AtRest(flow)
    /\ \A k \in Work : Kind[k] = "resume" => item[k].status = "absent"
    => \E k \in Work : item[k].status \in {"pending", "claimed", "blocked", "discarded"}

\* stop() takes effect after the active item was settled: a worker that stopped
\* holds no running delivery, which would keep the item from the other workers,
\* except of an item whose claim or settlement raised an error of the store:
\* run_forever does not look at that item again (README, section 4).
StoppedHoldsNoDelivery ==
    \A w \in Worker, k \in Work :
        /\ pc[w] = "stopped"
        /\ item[k].status = "claimed" /\ item[k].owner = w /\ item[k].fresh
        => k \in dropped

\* Work gets done or blocked, or the Flow ends: no item is claimed and retried
\* for ever while its Flow can still be advanced, whoever crashes on the way.
WorkSettles ==
    \A k \in Work : item[k].status \in {"pending", "claimed"} ~>
        \/ item[k].status \notin {"pending", "claimed"}
        \/ flow.status \in Terminal

\* What docs/FLOWS.md says of a command for a terminal Flow: the decision is
\* NOOP and NOOP completes the work item. The code does not do so (README,
\* section 4).
TerminalWorkCompletes ==
    \A k \in Work :
        (flow.status \in Terminal /\ item[k].status = "pending")
            ~> item[k].status = "completed"

\* What docs/FLOWS.md says of the two leases: a worker holds both while it
\* processes durable work.  Here: when the handler is invoked, the item has not
\* been delivered to, or settled by, another worker.
HandlerOwnsBoth ==
    [][\A w \in Worker : pc[w] # "handling" /\ pc'[w] = "handling" =>
          /\ LeaseValid(w)'
          /\ item[job[w]].status = "claimed"
          /\ item[job[w]].owner = w]_vars

\* FlowExecutionRunner and FlowPollingWorker: while a lease is valid the Flow is the
\* one the handler decided on, and a worker that has stopped holds no delivery but
\* one that a failing call to the work source left behind.
WorkerInv == TypeOK /\ DecisionStillCurrent /\ StoppedHoldsNoDelivery
=============================================================================
