-------------------------- MODULE FlowWorker_proofs --------------------------
(***************************************************************************)
(* Proofs about the polling workers, for any number of workers, of work    *)
(* items of every kind, of invocations and of faults.                      *)
(***************************************************************************)
EXTENDS FlowWorker, TLAPS

\* The provers tried, in order; steps on several records take longer than their defaults.
USE SMTT(20), Z3T(20), ZenonT(20)

\* What a dispatcher may have to do, and how a handler may have ended.
Action == {"none", "cancel", "finalize", "start", "resume", "advance", "return"}
Ending == {"none", "ok", "blocked", "error", "cancelled"}

\* A dispatcher acts on what it has read or written last, for its own command.
Decided(w) ==
    /\ todo[w] # "none"
    /\ LeaseValid(w) => flow = view[w]
    /\ todo[w] = "start" => view[w].status = "created"
    /\ todo[w] = "advance" => ~AtRest(view[w])
    /\ todo[w] = "resume" => Kind[job[w]] = "resume"

LocalOK(w) ==
    /\ pc[w] \in {"releasing", "settling"} => result[w] # "none"
    /\ pc[w] = "unwinding" => result[w] \in {"error", "cancelled"}
    /\ pc[w] = "dispatching" => Decided(w)

\* A running delivery is in the hands of the worker it was made to, unless a call
\* to the work source has failed.
DeliveryHeld ==
    \A w \in Worker, k \in Work :
        item[k].status = "claimed" /\ item[k].owner = w /\ item[k].fresh =>
            pc[w] = "dead" \/ UsesDelivery(w, k) \/ k \in dropped

Item == [status : {"absent", "pending", "claimed", "completed", "blocked", "discarded"},
         owner : Worker \cup {NoWorker}, fresh : BOOLEAN]

TypeInv == /\ TypeOK
           /\ todo \in [Worker -> Action]
           /\ result \in [Worker -> Ending]

LocalInv == \A w \in Worker : LocalOK(w)

NoResume == \A k \in Work : Kind[k] = "resume" => item[k].status = "absent"

\* As long as nobody answers a Flow that waits, a Flow at rest stays so, and
\* whoever says that the work is done has left it at rest.
RestInv ==
    /\ \E k \in Work : item[k].status # "absent"
    /\ \A w \in Worker : pc[w] \in {"claimed", "handling", "dispatching", "unwinding",
                                    "releasing", "settling"} => item[job[w]].status # "absent"
    /\ NoResume =>
          /\ (\E k \in Work : item[k].status = "completed") => AtRest(flow)
          /\ \A w \in Worker :
                /\ pc[w] \in {"releasing", "settling"} /\ result[w] = "ok" => AtRest(flow)
                /\ pc[w] = "dispatching" /\ todo[w] = "return" => AtRest(flow)

Inv == TypeInv /\ LocalInv /\ DeliveryHeld /\ RestInv

-----------------------------------------------------------------------------
\* The dispatcher's writes.

LEMMA StatusSets ==
  /\ Terminal \subseteq RunStatus /\ ErrorStatus \subseteq Terminal
  /\ InvocationStatus \subseteq RunStatus /\ ResultStatus \subseteq InvocationStatus
  /\ ErrorStatus \subseteq InvocationStatus
  /\ {"running", "waiting"} \subseteq InvocationStatus
  /\ {"cancelled", "failed", "interrupted"} \subseteq ErrorStatus
  /\ "completed" \in Terminal
  /\ {"created", "running", "waiting"} \cap Terminal = {}
BY DEF Terminal, ErrorStatus, RunStatus, InvocationStatus, ResultStatus

LEMMA UpdateTyped ==
  ASSUME NEW S, NEW q \in Seq(S), NEW i \in Nat, NEW v \in S
  PROVE  [q EXCEPT ![i] = v] \in Seq(S)
<1>1. q \in [1..Len(q) -> S] /\ Len(q) \in Nat
  OBVIOUS
<1>2. [q EXCEPT ![i] = v] \in [1..Len(q) -> S]
  BY Zenon, <1>1
<1>3. QED
  BY <1>1, <1>2

\* A record with the fields of a Flow.
LEMMA FlowTyped ==
  ASSUME NEW s \in FlowState, NEW st \in RunStatus, NEW q \in Seq(InvocationStatus),
         NEW a \in Nat
  PROVE  /\ s = [status |-> s.status, revision |-> s.revision, inv |-> s.inv,
                 active |-> s.active]
         /\ LET t == [status |-> st, revision |-> s.revision + 1, inv |-> q, active |-> a]
            IN t \in FlowState /\ t.status = st
BY DEF FlowState

LEMMA TerminatedTyped ==
  ASSUME NEW s \in FlowState, NEW st \in InvocationStatus, NEW t, t = Terminated(s, st)
  PROVE  t \in FlowState /\ t.status = st
<1>1. s.inv \in Seq(InvocationStatus) /\ s.revision \in Nat /\ s.active \in Nat
  BY DEF FlowState
<1>2. [s.inv EXCEPT ![s.active] = st] \in Seq(InvocationStatus)
  BY <1>1, UpdateTyped
<1> DEFINE q == IF s.active = 0 THEN s.inv ELSE [s.inv EXCEPT ![s.active] = st]
<1>3. q \in Seq(InvocationStatus) /\ st \in RunStatus
  BY <1>1, <1>2, StatusSets
<1>4. s = [status |-> s.status, revision |-> s.revision, inv |-> s.inv, active |-> s.active]
  BY DEF FlowState
<1>5. t = [status |-> st, revision |-> s.revision + 1, inv |-> q, active |-> 0]
  BY Zenon, <1>4 DEF Terminated
<1> HIDE DEF q
<1>6. QED
  BY <1>3, <1>5, FlowTyped

\* Whatever the dispatcher writes is a Flow; it is at rest when a command to
\* cancel it or an invocation that did not complete ends it.
LEMMA WritesTyped ==
  ASSUME NEW s \in FlowState, NEW a \in Action \ {"none"}, NEW t \in Writes(a, s)
  PROVE  t \in FlowState /\ a # "return" /\ (a \in {"cancel", "finalize"} => AtRest(t))
<1>1. s.inv \in Seq(InvocationStatus) /\ s.revision \in Nat /\ s.active \in Nat
      /\ s.status \in RunStatus
      /\ s = [status |-> s.status, revision |-> s.revision, inv |-> s.inv, active |-> s.active]
  BY DEF FlowState
<1>2. CASE a = "cancel"
  <2>1. t = Terminated(s, "cancelled")
    BY <1>2 DEF Writes
  <2>2. "cancelled" \in InvocationStatus /\ "cancelled" \in Terminal
    BY DEF InvocationStatus, ResultStatus, Terminal, ErrorStatus
  <2>3. t \in FlowState /\ t.status = "cancelled"
    BY <2>1, <2>2, TerminatedTyped
  <2>4. QED
    BY <1>2, <2>2, <2>3 DEF AtRest
<1>3. CASE a = "finalize"
  <2>1. t = Terminated(s, "failed")
    BY <1>3 DEF Writes
  <2>2. "failed" \in InvocationStatus /\ "failed" \in Terminal
    BY DEF InvocationStatus, ResultStatus, Terminal, ErrorStatus
  <2>3. t \in FlowState /\ t.status = "failed"
    BY <2>1, <2>2, TerminatedTyped
  <2>4. QED
    BY <1>3, <2>2, <2>3 DEF AtRest
<1>4. CASE a = "start"
  <2>1. t = Started(s)
    BY <1>4 DEF Writes
  <2>2. t = [status |-> "running", revision |-> s.revision + 1, inv |-> s.inv,
             active |-> s.active]
    BY Zenon, <1>1, <2>1 DEF Started
  <2>3. QED
    BY <1>1, <1>4, <2>2, StatusSets, FlowTyped
<1>5. CASE a = "resume"
  <2>1. t = Resumed(s, s.active)
    BY <1>5 DEF Writes
  <2>2. [s.inv EXCEPT ![s.active] = "running"] \in Seq(InvocationStatus)
    BY <1>1, StatusSets, UpdateTyped
  <2>3. t = [status |-> "running", revision |-> s.revision + 1,
             inv |-> [s.inv EXCEPT ![s.active] = "running"], active |-> s.active]
    BY Zenon, <1>1, <2>1 DEF Resumed
  <2>4. QED
    BY Zenon, <1>1, <1>5, <2>2, <2>3, StatusSets, FlowTyped
<1>6. CASE a = "advance"
  <2>1. CASE s.active # 0
    <3>1. PICK r \in Results : t = Settled(s, s.active, r)
      BY <1>6, <2>1 DEF Writes
    <3>2. r \in InvocationStatus
      BY StatusSets, WorkerAssumption
    <3>3. [s.inv EXCEPT ![s.active] = r] \in Seq(InvocationStatus)
      BY <1>1, <3>2, UpdateTyped
    <3> DEFINE st == IF r = "waiting" THEN "waiting" ELSE "running"
               a1 == IF r = "waiting" THEN s.active ELSE 0
    <3>4. t = [status |-> st, revision |-> s.revision + 1,
               inv |-> [s.inv EXCEPT ![s.active] = r], active |-> a1]
      BY Zenon, <1>1, <3>1 DEF Settled
    <3>5. st \in RunStatus /\ a1 \in Nat
      BY <1>1, StatusSets
    <3> HIDE DEF st, a1
    <3>6. QED
      BY Zenon, <1>6, <3>3, <3>4, <3>5, FlowTyped
  <2>2. CASE s.active = 0 /\ s.inv # <<>> /\ s.inv[Len(s.inv)] # "completed"
    <3>1. t = Terminated(s, s.inv[Len(s.inv)])
      BY <1>6, <2>2 DEF Writes
    <3>2. s.inv[Len(s.inv)] \in InvocationStatus
      BY <1>1, <2>2
    <3>3. QED
      BY <1>6, <3>1, <3>2, TerminatedTyped
  <2>3. CASE s.active = 0 /\ ~(s.inv # <<>> /\ s.inv[Len(s.inv)] # "completed")
    <3>1. t \in {Begun(s), Completed(s)}
      BY <1>6, <2>3 DEF Writes
    <3>2. Append(s.inv, "running") \in Seq(InvocationStatus) /\ Len(s.inv) \in Nat
      BY <1>1, StatusSets
    <3>3. CASE t = Begun(s)
      <4>1. t = [status |-> s.status, revision |-> s.revision + 1,
                 inv |-> Append(s.inv, "running"), active |-> Len(s.inv) + 1]
        BY Zenon, <1>1, <3>3 DEF Begun
      <4>2. Len(s.inv) + 1 \in Nat
        BY <3>2
      <4>3. QED
        BY Zenon, <1>1, <1>6, <3>2, <4>1, <4>2, FlowTyped
    <3>4. CASE t = Completed(s)
      <4>1. t = [status |-> "completed", revision |-> s.revision + 1, inv |-> s.inv,
                 active |-> s.active]
        BY Zenon, <1>1, <3>4 DEF Completed
      <4>2. QED
        BY <1>1, <1>6, <4>1, StatusSets, FlowTyped
    <3>5. QED
      BY <3>1, <3>3, <3>4
  <2>4. QED
    BY <2>1, <2>2, <2>3
<1>7. CASE a = "return"
  BY <1>7 DEF Writes
<1>8. QED
  BY <1>2, <1>3, <1>4, <1>5, <1>6, <1>7 DEF Action

\* FlowRecoveryPolicy.decide: what is dispatched fits what was read.
LEMMA DecisionFits ==
  ASSUME NEW k \in Work, NEW s \in FlowState,
         Decision(k, s) \notin {"review", "noop"}
  PROVE  /\ Decision(k, s) \in Action \ {"none", "return"}
         /\ Decision(k, s) = "start" => s.status = "created"
         /\ Decision(k, s) = "advance" => s.status = "running"
         /\ Decision(k, s) = "resume" => Kind[k] = "resume"
<1>1. s.status \in {"created", "running", "waiting"} \cup Terminal
  BY DEF FlowState, RunStatus
<1>2. s.status \notin Terminal
  BY DEF Decision, Terminal, ErrorStatus
<1>3. Kind[k] \in {"execute", "resume", "cancel"}
  BY WorkerAssumption
<1>4. QED
  BY <1>1, <1>2, <1>3 DEF Decision, Action

-----------------------------------------------------------------------------
\* The inductive invariant.

LEMMA NoFlowTyped == NoFlow \in FlowState /\ Created \in FlowState
<1>1. <<>> \in Seq(InvocationStatus)
  OBVIOUS
<1>2. QED
  BY Zenon, <1>1 DEF NoFlow, Created, FlowState, RunStatus

LEMMA InvInit == Init => Inv
<1> SUFFICES ASSUME Init PROVE Inv
  OBVIOUS
<1>1. PICK first \in SUBSET {k \in Work : Kind[k] = "execute"} :
         /\ first # {}
         /\ item = [k \in Work |-> [status |-> IF k \in first THEN "pending" ELSE "absent",
                                    owner |-> NoWorker, fresh |-> FALSE]]
  BY Zenon DEF Init
<1>2. (CHOOSE k \in Work : TRUE) \in Work
  BY <1>1
<1>4. TypeInv
  BY <1>1, <1>2, NoFlowTyped DEF Init, TypeInv, TypeOK, Free, Action, Ending
<1>5. LocalInv /\ DeliveryHeld
  BY <1>1 DEF Init, LocalInv, LocalOK, DeliveryHeld
<1>6. RestInv
  BY Zenon, <1>1 DEF Init, RestInv
<1>7. QED
  BY <1>4, <1>5, <1>6 DEF Inv

\* FlowRecoveryPolicy.decide: only a Flow that has ended needs nothing.
LEMMA NoopAtRest ==
  ASSUME NEW k \in Work, NEW s \in FlowState, Decision(k, s) = "noop"
  PROVE  AtRest(s)
<1>1. s.status \in {"created", "running", "waiting"} \cup Terminal
  BY DEF FlowState, RunStatus
<1>2. Kind[k] \in {"execute", "resume", "cancel"}
  BY WorkerAssumption
<1>3. ASSUME s.status \notin Terminal PROVE FALSE
  BY <1>1, <1>2, <1>3 DEF Decision
<1>4. QED
  BY <1>3 DEF AtRest

\* A settlement changes only an item that its worker still holds, takes it out
\* of the worker's hands, and completes it only for a handler that ended well.
LEMMA SettleItemKeeps ==
  ASSUME Inv, NEW w \in Worker, pc[w] = "settling", SettleItem(w) \/ UNCHANGED item
  PROVE  /\ item' \in [Work -> Item]
         /\ \A k \in Work : item'[k].status = "absent" <=> item[k].status = "absent"
         /\ \A k \in Work : item'[k].status = "completed" =>
                                item[k].status = "completed" \/ result[w] = "ok"
         /\ \A k \in Work : item'[k].status = "claimed" => item'[k] = item[k]
         /\ SettleItem(w) =>
              \A k \in Work : item'[k].status = "claimed" /\ item'[k].owner = w
                                  /\ item'[k].fresh => k \in dropped
<1>1. /\ item \in [Work -> Item] /\ job[w] \in Work /\ result[w] \in Ending \ {"none"}
      /\ pc \in [Worker -> {"idle", "claimed", "handling", "dispatching", "unwinding",
                            "releasing", "settling", "stopped", "dead"}]
  BY DEF Inv, TypeInv, TypeOK, Item, LocalInv, LocalOK
<1>2. ASSUME NEW k \in Work, item[k].status = "claimed", item[k].owner = w, item[k].fresh
      PROVE  k = job[w] \/ k \in dropped
  BY <1>2 DEF Inv, DeliveryHeld, UsesDelivery
<1>3. CASE UNCHANGED item
  BY <1>1, <1>2, <1>3 DEF SettleItem, DeliveryActive
<1>4. CASE DeliveryActive(w) /\ SettleItem(w)
  <2> DEFINE st == Outcome(result[w])
  <2>1. /\ st \in {"completed", "blocked", "pending"}
        /\ st = "completed" => result[w] = "ok"
    BY <1>1 DEF Outcome, Ending
  <2> HIDE DEF st
  <2>2. item' = [item EXCEPT ![job[w]] = [status |-> st, owner |-> NoWorker, fresh |-> FALSE]]
    BY <1>4 DEF SettleItem, st
  <2>3. [status |-> st, owner |-> NoWorker, fresh |-> FALSE] \in Item
    BY <2>1 DEF Item
  <2>4. item[job[w]].status = "claimed"
    BY <1>4 DEF DeliveryActive
  <2>5. item' \in [Work -> Item]
    BY <1>1, <2>2, <2>3
  <2>6. ASSUME NEW k \in Work, k # job[w] PROVE item'[k] = item[k]
    BY <1>1, <2>2, <2>6
  <2>7. item'[job[w]].status = st
    BY <1>1, <2>2
  <2>8. QED
    BY <1>2, <2>1, <2>4, <2>5, <2>6, <2>7
<1>5. QED
  BY <1>3, <1>4 DEF SettleItem

LEMMA InvNext == Inv /\ [Next]_vars => Inv'
<1> SUFFICES ASSUME Inv, [Next]_vars PROVE Inv'
  OBVIOUS
<1> USE WorkerAssumption DEF local
<1>1. ASSUME NEW k \in Work, Enqueue(k) PROVE Inv'
  <2>1. TypeInv'
    BY <1>1 DEF Inv, TypeInv, TypeOK, Action, Ending, Enqueue
  <2>2. LocalInv'
    BY <1>1 DEF Inv, TypeInv, TypeOK, LocalInv, LocalOK, Decided, LeaseValid, Enqueue
  <2>3. DeliveryHeld'
    BY <1>1 DEF Inv, TypeInv, TypeOK, DeliveryHeld, UsesDelivery, Enqueue
  <2>4. RestInv'
    BY <1>1 DEF Inv, TypeInv, TypeOK, RestInv, NoResume, Enqueue
  <2>5. QED
    BY <2>1, <2>2, <2>3, <2>4 DEF Inv
<1>2. ASSUME NEW k \in Work, NEW st \in {"pending", "discarded"}, Review(k, st) PROVE Inv'
  <2>1. TypeInv'
    BY <1>2 DEF Inv, TypeInv, TypeOK, Action, Ending, Review, Fault
  <2>2. LocalInv'
    BY <1>2 DEF Inv, TypeInv, TypeOK, LocalInv, LocalOK, Decided, LeaseValid, Review, Fault
  <2>3. DeliveryHeld'
    BY <1>2 DEF Inv, TypeInv, TypeOK, DeliveryHeld, UsesDelivery, Review, Fault
  <2>4. RestInv'
    BY <1>2 DEF Inv, TypeInv, TypeOK, RestInv, NoResume, Review, Fault
  <2>5. QED
    BY <2>1, <2>2, <2>3, <2>4 DEF Inv
<1>3. ASSUME LeaseExpires PROVE Inv'
  <2>1. TypeInv'
    BY Zenon, <1>3 DEF Inv, TypeInv, TypeOK, Action, Ending, LeaseExpires, Leased, Fault
  <2>2. LocalInv'
    BY <1>3 DEF Inv, TypeInv, TypeOK, LocalInv, LocalOK, Decided, LeaseValid, LeaseExpires,
       Leased, Fault
  <2>3. DeliveryHeld'
    BY <1>3 DEF Inv, TypeInv, TypeOK, DeliveryHeld, UsesDelivery, LeaseExpires, Leased, Fault
  <2>4. RestInv'
    BY <1>3 DEF Inv, TypeInv, TypeOK, RestInv, NoResume, LeaseExpires, Leased, Fault
  <2>5. QED
    BY <2>1, <2>2, <2>3, <2>4 DEF Inv
<1>4. ASSUME NEW k \in Work, DeliveryExpires(k) PROVE Inv'
  <2>1. TypeInv'
    BY ZenonT(30), <1>4 DEF Inv, TypeInv, TypeOK, Action, Ending, DeliveryExpires, Fault
  <2>2. LocalInv'
    BY <1>4 DEF Inv, TypeInv, TypeOK, LocalInv, LocalOK, Decided, LeaseValid, DeliveryExpires,
       Fault
  <2>3. DeliveryHeld'
    BY <1>4 DEF Inv, TypeInv, TypeOK, DeliveryHeld, UsesDelivery, DeliveryExpires, Fault
  <2>4. RestInv'
    BY <1>4 DEF Inv, TypeInv, TypeOK, RestInv, NoResume, DeliveryExpires, Fault
  <2>5. QED
    BY <2>1, <2>2, <2>3, <2>4 DEF Inv
<1>5. ASSUME NEW w \in Worker, NEW k \in Work, Claim(w, k) PROVE Inv'
  <2>1. TypeInv'
    BY <1>5 DEF Inv, TypeInv, TypeOK, Action, Ending, Claim, Deliver
  <2>2. LocalInv'
    BY <1>5 DEF Inv, TypeInv, TypeOK, LocalInv, LocalOK, Decided, LeaseValid, Claim, Deliver
  <2>3. DeliveryHeld'
    BY <1>5 DEF Inv, TypeInv, TypeOK, DeliveryHeld, UsesDelivery, Claim, Deliver
  <2>4. RestInv'
    BY <1>5 DEF Inv, TypeInv, TypeOK, RestInv, NoResume, Claim, Deliver
  <2>5. QED
    BY <2>1, <2>2, <2>3, <2>4 DEF Inv
<1>c. ASSUME NEW w \in Worker, NEW k \in Work, ClaimFails(w, k) PROVE Inv'
  <2>1. TypeInv'
    BY <1>c DEF Inv, TypeInv, TypeOK, Action, Ending, ClaimFails, Deliver
  <2>2. LocalInv'
    BY <1>c DEF Inv, TypeInv, TypeOK, LocalInv, LocalOK, Decided, LeaseValid, ClaimFails, Deliver
  <2>3. DeliveryHeld'
    BY <1>c DEF Inv, TypeInv, TypeOK, DeliveryHeld, UsesDelivery, ClaimFails, Deliver
  <2>4. RestInv'
    BY <1>c DEF Inv, TypeInv, TypeOK, RestInv, NoResume, ClaimFails, Deliver
  <2>5. QED
    BY <2>1, <2>2, <2>3, <2>4 DEF Inv
<1>6. ASSUME NEW w \in Worker, Acquire(w) PROVE Inv'
  <2>1. TypeInv'
    <3>1. CASE ~Acquirable
      BY Zenon, <1>6, <3>1 DEF Inv, TypeInv, TypeOK, Ending, Acquire
    <3>2. CASE Acquirable
      <4>1. lease' = [owner |-> w, fresh |-> TRUE] /\ pc' = [pc EXCEPT ![w] = "handling"]
        BY <1>6, <3>2 DEF Acquire
      <4>2. lease' \in [owner : Worker \cup {NoWorker}, fresh : BOOLEAN]
        BY <4>1
      <4>3. QED
        BY <1>6, <3>2, <4>1, <4>2 DEF Inv, TypeInv, TypeOK, Acquire
    <3>3. QED
      BY <3>1, <3>2
  <2>2. LocalInv'
    BY <1>6 DEF Inv, TypeInv, TypeOK, LocalInv, LocalOK, Decided, LeaseValid, Acquire,
       Acquirable, Leased
  <2>3. DeliveryHeld'
    BY <1>6 DEF Inv, TypeInv, TypeOK, DeliveryHeld, UsesDelivery, Acquire, Acquirable, Leased
  <2>4. RestInv'
    BY <1>6 DEF Inv, TypeInv, TypeOK, RestInv, NoResume, Acquire, Acquirable, Leased
  <2>5. QED
    BY <2>1, <2>2, <2>3, <2>4 DEF Inv
<1>7. ASSUME NEW w \in Worker, Handle(w) PROVE Inv'
  <2>0. flow \in FlowState /\ job[w] \in Work
    BY <1>7 DEF Inv, TypeInv, TypeOK
  <2>1. TypeInv'
    <3>1. todo' \in [Worker -> Action]
      BY <1>7, <2>0, DecisionFits DEF Inv, TypeInv, Handle
    <3>2. result' \in [Worker -> Ending]
      BY <1>7 DEF Inv, TypeInv, Handle, Ends, Ending
    <3>3. QED
      BY Zenon, <1>7, <3>1, <3>2 DEF Inv, TypeInv, TypeOK, Handle, Ends
  <2>2. LocalInv'
    <3>1. ASSUME NEW v \in Worker, v # w PROVE LocalOK(v)'
      BY <1>7, <3>1 DEF Inv, TypeInv, TypeOK, LocalInv, LocalOK, Decided, LeaseValid, Handle,
         Ends
    <3>2. LocalOK(w)'
      <4>1. CASE pc' = [pc EXCEPT ![w] = "releasing"]
        BY <1>7, <4>1 DEF Inv, TypeInv, TypeOK, LocalOK, Handle, Ends
      <4>2. CASE /\ Decision(job[w], flow) \notin {"review", "noop"}
                 /\ todo' = [todo EXCEPT ![w] = Decision(job[w], flow)]
                 /\ pc' = [pc EXCEPT ![w] = "dispatching"]
        <5>1. /\ todo'[w] = Decision(job[w], flow) /\ pc'[w] = "dispatching"
              /\ view'[w] = flow /\ flow' = flow /\ job'[w] = job[w]
          BY <1>7, <4>2 DEF Inv, TypeInv, TypeOK, Handle
        <5>2. /\ todo'[w] # "none"
              /\ todo'[w] = "start" => flow.status = "created"
              /\ todo'[w] = "advance" => flow.status = "running"
              /\ todo'[w] = "resume" => Kind[job[w]] = "resume"
          BY <2>0, <4>2, <5>1, DecisionFits
        <5>3. "running" \notin Terminal \cup {"waiting"}
          BY StatusSets
        <5>4. QED
          BY <5>1, <5>2, <5>3 DEF LocalOK, Decided, AtRest
      <4>3. QED
        BY <1>7, <4>1, <4>2 DEF Handle, Ends
    <3>3. QED
      BY <3>1, <3>2 DEF LocalInv
  <2>3. DeliveryHeld'
    BY <1>7 DEF Inv, TypeInv, TypeOK, DeliveryHeld, UsesDelivery, Handle, Ends
  <2>4. RestInv'
    <3>1. Decision(job[w], flow) = "noop" => AtRest(flow)
      BY <2>0, NoopAtRest
    <3>2. ASSUME NEW v \in Worker
          PROVE  pc'[v] \in {"releasing", "settling"} /\ result'[v] = "ok" =>
                     \/ pc[v] \in {"releasing", "settling"} /\ result[v] = "ok"
                     \/ AtRest(flow)
      BY <1>7, <3>1 DEF Inv, TypeInv, TypeOK, Handle, Ends
    <3>3. ASSUME NEW v \in Worker
          PROVE  pc'[v] = "dispatching" /\ todo'[v] = "return" =>
                     pc[v] = "dispatching" /\ todo[v] = "return"
      BY <1>7, <2>0, DecisionFits DEF Inv, TypeInv, TypeOK, Handle, Ends
    <3>4. ASSUME NEW v \in Worker
          PROVE  pc'[v] \in {"claimed", "handling", "dispatching", "unwinding", "releasing",
                             "settling"} =>
                   pc[v] \in {"claimed", "handling", "dispatching", "unwinding", "releasing",
                              "settling"}
      BY <1>7 DEF Inv, TypeInv, TypeOK, Handle, Ends
    <3>5. UNCHANGED <<flow, item, job>>
      BY <1>7 DEF Handle
    <3>6. QED
      BY <3>2, <3>3, <3>4, <3>5 DEF Inv, RestInv, NoResume, AtRest
  <2>5. QED
    BY <2>1, <2>2, <2>3, <2>4 DEF Inv
<1>8. ASSUME NEW w \in Worker, Dispatch(w) PROVE Inv'
  <2>0. /\ flow \in FlowState /\ todo[w] \in Action \ {"none"}
        /\ flow' \in Writes(todo[w], flow) /\ flow = view[w]
    BY <1>8 DEF Inv, TypeInv, TypeOK, LocalInv, LocalOK, Decided, Dispatch
  <2>w. /\ flow' \in FlowState /\ todo[w] # "return"
        /\ todo[w] \in {"cancel", "finalize"} => AtRest(flow')
    BY <2>0, WritesTyped
  <2>1. TypeInv'
    BY <1>8, <2>w DEF Inv, TypeInv, TypeOK, Action, Dispatch
  <2>2. LocalInv'
    BY <1>8 DEF Inv, TypeInv, TypeOK, LocalInv, LocalOK, Decided, LeaseValid, Dispatch
  <2>3. DeliveryHeld'
    BY <1>8 DEF Inv, TypeInv, TypeOK, DeliveryHeld, UsesDelivery, Dispatch
  <2>4. RestInv'
    <3>1. UNCHANGED <<item, job, pc, result>>
      BY <1>8 DEF Dispatch
    <3>2. ASSUME NoResume PROVE AtRest(flow) => AtRest(flow')
      <4>1. todo[w] # "resume"
        BY <1>8, <3>2 DEF Inv, TypeInv, TypeOK, LocalInv, LocalOK, Decided, NoResume, RestInv,
           Dispatch
      <4>2. todo[w] \in {"start", "advance"} => ~AtRest(flow)
        BY <1>8, <2>0, StatusSets DEF Inv, LocalInv, LocalOK, Decided, AtRest, Dispatch
      <4>3. QED
        BY <2>0, <2>w, <4>1, <4>2 DEF Action
    <3>3. ASSUME NEW v \in Worker, pc'[v] = "dispatching", todo'[v] = "return"
          PROVE  AtRest(flow') \/ todo[v] = "return"
      BY <1>8, <3>3 DEF Inv, TypeInv, Dispatch
    <3>4. AtRest(flow)' = AtRest(flow') /\ NoResume' = NoResume
      BY <3>1 DEF AtRest, NoResume
    <3>5. QED
      BY <3>1, <3>2, <3>3, <3>4 DEF Inv, RestInv
  <2>5. QED
    BY <2>1, <2>2, <2>3, <2>4 DEF Inv
<1>9. ASSUME NEW w \in Worker, Return(w) PROVE Inv'
  <2>1. TypeInv'
    BY <1>9 DEF Inv, TypeInv, TypeOK, Action, Ending, Return, Ends
  <2>2. LocalInv'
    BY <1>9 DEF Inv, TypeInv, TypeOK, LocalInv, LocalOK, Decided, LeaseValid, Return, Ends
  <2>3. DeliveryHeld'
    BY <1>9 DEF Inv, TypeInv, TypeOK, DeliveryHeld, UsesDelivery, Return, Ends
  <2>4. RestInv'
    BY <1>9 DEF Inv, TypeInv, TypeOK, RestInv, NoResume, Return, Ends
  <2>5. QED
    BY <2>1, <2>2, <2>3, <2>4 DEF Inv
<1>10. ASSUME NEW w \in Worker, NEW how \in {"error", "cancelled"}, CancelOperation(w, how)
       PROVE  Inv'
  <2>1. TypeInv'
    <3>1. [owner |-> w, fresh |-> TRUE] \in [owner : Worker \cup {NoWorker}, fresh : BOOLEAN]
      BY <1>10
    <3>2. Free \in [owner : Worker \cup {NoWorker}, fresh : BOOLEAN]
      BY DEF Free
    <3>3. lease' \in [owner : Worker \cup {NoWorker}, fresh : BOOLEAN]
      BY Zenon, <1>10, <3>1, <3>2 DEF Inv, TypeInv, TypeOK, CancelOperation
    <3>4. pc' \in [Worker -> {"idle", "claimed", "handling", "dispatching", "unwinding",
                              "releasing", "settling", "stopped", "dead"}]
      BY <1>10 DEF Inv, TypeInv, TypeOK, CancelOperation
    <3>5. QED
      BY <1>10, <3>3, <3>4 DEF Inv, TypeInv, TypeOK, Ending, CancelOperation
  <2>2. LocalInv'
    BY <1>10 DEF Inv, TypeInv, TypeOK, LocalInv, LocalOK, Decided, LeaseValid, CancelOperation,
       Acquirable, Leased, Free
  <2>3. DeliveryHeld'
    BY <1>10 DEF Inv, TypeInv, TypeOK, DeliveryHeld, UsesDelivery, CancelOperation, Acquirable,
       Leased, Free
  <2>4. RestInv'
    BY <1>10 DEF Inv, TypeInv, TypeOK, RestInv, NoResume, CancelOperation, Acquirable, Leased,
       Free
  <2>5. QED
    BY <2>1, <2>2, <2>3, <2>4 DEF Inv
<1>11. ASSUME NEW w \in Worker, Unwind(w) PROVE Inv'
  <2>0. flow' = flow \/ (flow' \in FlowState /\ AtRest(flow'))
    <3>1. CASE flow' = Terminated(flow, "interrupted")
      <4>1. flow \in FlowState /\ "interrupted" \in InvocationStatus
        BY StatusSets DEF Inv, TypeInv, TypeOK
      <4>2. flow' \in FlowState /\ flow'.status = "interrupted"
        BY <3>1, <4>1, TerminatedTyped
      <4>3. QED
        BY <4>2, StatusSets DEF AtRest
    <3>2. QED
      BY <1>11, <3>1 DEF Unwind
  <2>1. TypeInv'
    BY <1>11, <2>0 DEF Inv, TypeInv, TypeOK, Unwind
  <2>2. LocalInv'
    BY <1>11 DEF Inv, TypeInv, TypeOK, LocalInv, LocalOK, Decided, LeaseValid, Unwind
  <2>3. DeliveryHeld'
    BY <1>11 DEF Inv, TypeInv, TypeOK, DeliveryHeld, UsesDelivery, Unwind
  <2>4. RestInv'
    <3>1. UNCHANGED <<item, job, todo, result>>
      BY <1>11 DEF Unwind
    <3>2. AtRest(flow) => AtRest(flow')
      BY <2>0
    <3>3. result[w] # "ok"
      BY <1>11 DEF Inv, LocalInv, LocalOK, Unwind
    <3>4. AtRest(flow)' = AtRest(flow') /\ NoResume' = NoResume
      BY <3>1 DEF AtRest, NoResume
    <3>5. pc' = [pc EXCEPT ![w] = "releasing"] /\ pc[w] = "unwinding"
      BY <1>11 DEF Unwind
    <3>6. QED
      BY <1>11, <3>1, <3>2, <3>3, <3>4, <3>5 DEF Inv, TypeInv, TypeOK, RestInv
  <2>5. QED
    BY <2>1, <2>2, <2>3, <2>4 DEF Inv
<1>12. ASSUME NEW w \in Worker, Release(w) PROVE Inv'
  <2>1. TypeInv'
    <3>1. Free \in [owner : Worker \cup {NoWorker}, fresh : BOOLEAN]
      BY DEF Free
    <3>2. /\ result' \in [Worker -> Ending]
          /\ lease' \in [owner : Worker \cup {NoWorker}, fresh : BOOLEAN]
      BY <1>12, <3>1 DEF Inv, TypeInv, TypeOK, Ending, Release
    <3>3. QED
      BY Zenon, <1>12, <3>2 DEF Inv, TypeInv, TypeOK, Release
  <2>2. LocalInv'
    BY <1>12 DEF Inv, TypeInv, TypeOK, LocalInv, LocalOK, Decided, LeaseValid, Release, Free
  <2>3. DeliveryHeld'
    BY <1>12 DEF Inv, TypeInv, TypeOK, DeliveryHeld, UsesDelivery, Release, Free
  <2>4. RestInv'
    BY <1>12 DEF Inv, TypeInv, TypeOK, RestInv, NoResume, Release, Free
  <2>5. QED
    BY <2>1, <2>2, <2>3, <2>4 DEF Inv
<1>13. ASSUME NEW w \in Worker, EndPass(w), SettleItem(w) \/ UNCHANGED item,
              dropped \subseteq dropped', dropped' \subseteq Work,
              \A k \in Work : item'[k].status = "claimed" /\ item'[k].owner = w
                                  /\ item'[k].fresh => k \in dropped'
       PROVE  Inv'
  <2>0. /\ pc[w] = "settling"
        /\ item' \in [Work -> Item]
        /\ \A k \in Work : item'[k].status = "absent" <=> item[k].status = "absent"
        /\ \A k \in Work : item'[k].status = "completed" =>
                               item[k].status = "completed" \/ result[w] = "ok"
        /\ \A k \in Work : item'[k].status = "claimed" => item'[k] = item[k]
    BY <1>13, SettleItemKeeps DEF EndPass
  <2>1. TypeInv'
    BY <1>13, <2>0, NoFlowTyped DEF Inv, TypeInv, TypeOK, Item, Action, Ending, EndPass
  <2>2. LocalInv'
    BY <1>13 DEF Inv, TypeInv, TypeOK, LocalInv, LocalOK, Decided, LeaseValid, EndPass,
       SettleItem, DeliveryActive
  <2>3. DeliveryHeld'
    BY <1>13, <2>0 DEF Inv, TypeInv, TypeOK, DeliveryHeld, UsesDelivery, EndPass
  <2>4. RestInv'
    <3>1. UNCHANGED <<flow, job>>
      BY <1>13 DEF EndPass
    <3>2. AtRest(flow)' = AtRest(flow) /\ NoResume' = NoResume
      BY <2>0, <3>1 DEF AtRest, NoResume
    <3>3. ASSUME NEW v \in Worker
          PROVE  /\ pc'[v] \in {"claimed", "handling", "dispatching", "unwinding", "releasing",
                                "settling"} => pc'[v] = pc[v]
                 /\ pc'[v] \in {"releasing", "settling"} => result'[v] = result[v]
                 /\ pc'[v] = "dispatching" => todo'[v] = todo[v]
      BY <1>13 DEF Inv, TypeInv, TypeOK, EndPass
    <3>4. \A v \in Worker : job[v] \in Work
      BY DEF Inv, TypeInv, TypeOK
    <3>5. QED
      BY <2>0, <3>1, <3>2, <3>3, <3>4 DEF Inv, RestInv
  <2>5. QED
    BY <2>1, <2>2, <2>3, <2>4 DEF Inv
<1>s. ASSUME NEW w \in Worker, Settle(w) PROVE Inv'
  <2>1. pc[w] = "settling" /\ dropped' = dropped /\ dropped \subseteq Work
    BY <1>s DEF Inv, TypeInv, TypeOK, Settle, EndPass
  <2>2. \A k \in Work : item'[k].status = "claimed" /\ item'[k].owner = w
                            /\ item'[k].fresh => k \in dropped'
    BY <1>s, <2>1, SettleItemKeeps DEF Settle
  <2>3. QED
    BY <1>13, <1>s, <2>1, <2>2 DEF Settle
<1>f. ASSUME NEW w \in Worker, SettlementFails(w) PROVE Inv'
  <2>1. pc[w] = "settling" /\ dropped \subseteq Work /\ job[w] \in Work
    BY <1>f DEF Inv, TypeInv, TypeOK, SettlementFails, EndPass
  <2>2. CASE SettleItem(w) /\ dropped' = dropped
    <3>1. \A k \in Work : item'[k].status = "claimed" /\ item'[k].owner = w
                              /\ item'[k].fresh => k \in dropped'
      BY <2>1, <2>2, SettleItemKeeps
    <3>2. QED
      BY <1>13, <1>f, <2>1, <2>2, <3>1 DEF SettlementFails
  <2>3. CASE UNCHANGED item
             /\ dropped' = IF DeliveryActive(w) THEN dropped \cup {job[w]} ELSE dropped
    <3>1. ASSUME NEW k \in Work, item'[k].status = "claimed", item'[k].owner = w, item'[k].fresh
          PROVE  k \in dropped'
      <4>1. k \in dropped \/ k = job[w]
        BY <2>1, <2>3, <3>1 DEF Inv, DeliveryHeld, UsesDelivery
      <4>2. QED
        BY <2>3, <3>1, <4>1 DEF DeliveryActive
    <3>2. dropped \subseteq dropped' /\ dropped' \subseteq Work
      BY <2>1, <2>3
    <3>3. QED
      BY <1>13, <1>f, <2>3, <3>1, <3>2 DEF SettlementFails
  <2>4. QED
    BY <1>f, <2>2, <2>3 DEF SettlementFails
<1>14. ASSUME NEW w \in Worker, Raise(w) PROVE Inv'
  <2>1. TypeInv'
    BY <1>14 DEF Inv, TypeInv, TypeOK, Action, Ending, Raise, Ends, Fault
  <2>2. LocalInv'
    BY <1>14 DEF Inv, TypeInv, TypeOK, LocalInv, LocalOK, Decided, LeaseValid, Raise, Ends,
       Fault
  <2>3. DeliveryHeld'
    BY <1>14 DEF Inv, TypeInv, TypeOK, DeliveryHeld, UsesDelivery, Raise, Ends, Fault
  <2>4. RestInv'
    BY <1>14 DEF Inv, TypeInv, TypeOK, RestInv, NoResume, Raise, Ends, Fault
  <2>5. QED
    BY <2>1, <2>2, <2>3, <2>4 DEF Inv
<1>15. ASSUME NEW w \in Worker, Stop(w) PROVE Inv'
  <2>1. TypeInv'
    BY <1>15 DEF Inv, TypeInv, TypeOK, Action, Ending, Stop, Fault
  <2>2. LocalInv'
    BY <1>15 DEF Inv, TypeInv, TypeOK, LocalInv, LocalOK, Decided, LeaseValid, Stop, Fault
  <2>3. DeliveryHeld'
    BY <1>15 DEF Inv, TypeInv, TypeOK, DeliveryHeld, UsesDelivery, Stop, Fault
  <2>4. RestInv'
    BY <1>15 DEF Inv, TypeInv, TypeOK, RestInv, NoResume, Stop, Fault
  <2>5. QED
    BY <2>1, <2>2, <2>3, <2>4 DEF Inv
<1>16. ASSUME NEW w \in Worker, pc[w] = "settling", pc' = [pc EXCEPT ![w] = "dead"],
              SettleItem(w) \/ UNCHANGED item, UNCHANGED <<flow, lease, local, dropped>>
       PROVE  Inv'
  <2>0. /\ pc[w] = "settling"
        /\ item' \in [Work -> Item]
        /\ \A k \in Work : item'[k].status = "absent" <=> item[k].status = "absent"
        /\ \A k \in Work : item'[k].status = "completed" =>
                               item[k].status = "completed" \/ result[w] = "ok"
        /\ \A k \in Work : item'[k].status = "claimed" => item'[k] = item[k]
    BY <1>16, SettleItemKeeps
  <2>1. TypeInv'
    BY <1>16, <2>0 DEF Inv, TypeInv, TypeOK, Item
  <2>2. LocalInv'
    BY <1>16 DEF Inv, TypeInv, TypeOK, LocalInv, LocalOK, Decided, LeaseValid, SettleItem,
       DeliveryActive
  <2>3. DeliveryHeld'
    BY <1>16, <2>0 DEF Inv, TypeInv, TypeOK, DeliveryHeld, UsesDelivery
  <2>4. RestInv'
    <3>1. UNCHANGED <<flow, job>>
      BY <1>16
    <3>2. AtRest(flow)' = AtRest(flow) /\ NoResume' = NoResume
      BY <2>0, <3>1 DEF AtRest, NoResume
    <3>3. ASSUME NEW v \in Worker
          PROVE  /\ pc'[v] \in {"claimed", "handling", "dispatching", "unwinding", "releasing",
                                "settling"} => pc'[v] = pc[v]
                 /\ pc'[v] \in {"releasing", "settling"} => result'[v] = result[v]
                 /\ pc'[v] = "dispatching" => todo'[v] = todo[v]
      BY <1>16 DEF Inv, TypeInv, TypeOK
    <3>4. \A v \in Worker : job[v] \in Work
      BY DEF Inv, TypeInv, TypeOK
    <3>5. QED
      BY <2>0, <3>1, <3>2, <3>3, <3>4 DEF Inv, RestInv
  <2>5. QED
    BY <2>1, <2>2, <2>3, <2>4 DEF Inv
<1>17. ASSUME NEW w \in Worker, Crash(w) PROVE Inv'
  <2>1. TypeInv'
    BY <1>17 DEF Inv, TypeInv, TypeOK, Action, Ending, Crash, Gone, Fault
  <2>2. LocalInv'
    BY <1>17 DEF Inv, TypeInv, TypeOK, LocalInv, LocalOK, Decided, LeaseValid, Crash, Gone,
       Fault
  <2>3. DeliveryHeld'
    BY <1>17 DEF Inv, TypeInv, TypeOK, DeliveryHeld, UsesDelivery, Crash, Gone, Fault
  <2>4. RestInv'
    BY <1>17 DEF Inv, TypeInv, TypeOK, RestInv, NoResume, Crash, Gone, Fault
  <2>5. QED
    BY <2>1, <2>2, <2>3, <2>4 DEF Inv
<1>18. CASE UNCHANGED vars
  BY <1>18 DEF vars, Inv, TypeInv, TypeOK, LocalInv, LocalOK, Decided, LeaseValid, DeliveryHeld,
     UsesDelivery, RestInv, NoResume
<1>19. QED
  BY <1>1, <1>2, <1>3, <1>4, <1>5, <1>c, <1>6, <1>7, <1>8, <1>9, <1>10, <1>11, <1>12, <1>s,
     <1>f, <1>14, <1>15, <1>16, <1>17, <1>18
     DEF Next, Step, ExecutionHeartbeatFails, DeliveryHeartbeatFails, StoreFails, TaskCancelled

-----------------------------------------------------------------------------
LEMMA InvHolds == Spec => []Inv
<1>1. QED
  BY InvInit, InvNext, PTL DEF Spec

\* FlowExecutionRunner and FlowPollingWorker keep two promises however leases and
\* deliveries expire, heartbeats and other calls to the stores fail, tasks are
\* cancelled and workers crash: with a valid execution lease, the dispatcher acts
\* on the Flow it has read or written last; and a worker that stopped keeps no
\* delivery from the others but one whose claim or settlement raised.
THEOREM WorkersKeepLeases == Spec => []WorkerInv
<1>1. Inv => WorkerInv
  BY DEF Inv, TypeInv, LocalInv, LocalOK, Decided, DeliveryHeld, UsesDelivery, WorkerInv,
     DecisionStillCurrent, StoppedHoldsNoDelivery
<1>2. QED
  BY <1>1, InvHolds, PTL

\* The settlement of FlowPollingWorker strands no Flow: without resume commands,
\* the last item of a Flow is completed only when the Flow has ended or waits.
THEOREM NoFlowStranded == Spec => []NoStrandedFlow
<1>1. Inv => NoStrandedFlow
  BY DEF Inv, TypeInv, TypeOK, RestInv, NoResume, NoStrandedFlow
<1>2. QED
  BY <1>1, InvHolds, PTL
=============================================================================
