------------------------ MODULE PlanExecution_proofs ------------------------
(***************************************************************************)
(* Proofs about PlanExecution, for every set of drafts and every option:   *)
(* the plan stays a graph executed in order (PlanInv), what has settled    *)
(* stays settled (HistoryKept), the events tell the plan (StepsAnnounced)  *)
(* and the plan ends with its Run (PlanSettled).                           *)
(***************************************************************************)
EXTENDS PlanExecution, FiniteSetTheorems, WellFoundedInduction, TLAPS

\* The provers tried, in order; steps on several records take longer than their defaults.
USE SMTT(20), Z3T(20), ZenonT(20)

RunStatus == {"running", "waiting", "completed"} \cup Unsuccessful
After == {"check", "request", "settle", "close", "wait", "end"}
Plan == [steps : Seq(PlanStep), status : PlanStatus]

Phase == {"planning", "executing", "updating", "summarizing"}
ReAct == [step : StepId \cup {"none"}, iteration : Nat]
Label == {"advance", "emit", "model", "tools"} \cup After

TypeInv ==
    /\ status \in RunStatus /\ plan \in Plan /\ phase \in Phase /\ react \in ReAct
    /\ suspended \in BOOLEAN /\ cancel \in BOOLEAN /\ outside \in BOOLEAN
    /\ steps \in 0..MaxSteps /\ interrupts \in 0..MaxInterrupts
    /\ pc \in Label /\ then \in [status : RunStatus, pc : After]
    /\ news \subseteq StepIds(plan.steps)
    /\ told \in [StepId -> StepStatus \cup {"none"}]

\* Where the strategy is, and the status of the Run, once the events are sent.
Here == IF pc = "emit" THEN then.pc ELSE pc
Coming == IF pc = "emit" THEN then.status ELSE status

\* The strategy may come back to its loop.
Live == \/ Here \in {"check", "advance", "request", "model", "tools", "wait"}
        \/ Here \in {"settle", "close"} /\ Coming = "waiting"

Asking == Here \in {"request", "model", "tools"}

\* StepsInOrder, of the steps s.
OneActive(s) == \A i, j \in DOMAIN s : s[i].status \in Active /\ s[j].status \in Active => i = j
InOrder(s) ==
    \A i, j \in DOMAIN s :
       s[i].status \in Active \cup {"completed"} /\ s[j].id \in s[i].deps => s[j].status \in Settled

\* The plan that was supplied is one that ExecutionPlan's methods may leave.
Fit == Consistent(given)

\* A graph, or no plan; its steps are executed in order if they were.
Sound(p) == /\ p \in Plan
            /\ p # NoPlan => ValidGraph(p.steps)
            /\ Fit => OneActive(p.steps) /\ InOrder(p.steps)

LoopInv == /\ Here \in {"advance", "request"} => steps < MaxSteps
           /\ Asking => Supported(plan)
           /\ Asking /\ phase = "executing" => With(plan, "running") # {}
           /\ phase \in {"updating", "summarizing"} => Supported(plan)

ActiveSteps(p) == {i \in DOMAIN p.steps : p.steps[i].status \in Active}

ReActInv == /\ react.iteration <= MaxIterations
            /\ Fit => \A i \in ActiveSteps(plan) : react # NoReact => react.step = plan.steps[i].id
            /\ Live /\ react # NoReact => ActiveSteps(plan) # {}
            /\ phase # "executing" => react = NoReact

\* The inductive invariant.
Inv == /\ TypeInv /\ Sound(plan) /\ LoopInv /\ ReActInv
       /\ phase = "planning" <=> plan = NoPlan

\* The events: until the task is interrupted, each step is told or about to be.
ToldInv == interrupts = 0 =>
    \A i \in DOMAIN plan.steps : \/ told[plan.steps[i].id] = plan.steps[i].status
                                 \/ pc = "emit" /\ plan.steps[i].id \in news

\* No step has failed in this Run, and all have settled or failed before.
Fresh(p) == \A i \in DOMAIN p.steps :
               p.steps[i].status \in {"failed", "cancelled"} => FailedBefore(p.steps[i])
Closed(p) == \A i \in DOMAIN p.steps : p.steps[i].status \in Settled \/ FailedBefore(p.steps[i])

\* The end, when the model calls only the Tools it is offered and the supplied plan is
\* consistent.
EndInv ==
    /\ Here = "tools" => phase = "executing"
    /\ plan.status \in {"completed", "failed", "cancelled"} => NoneActive(plan)
    /\ Live => Fresh(plan)
    /\ Live /\ plan.status = "completed" => Closed(plan)
    /\ phase = "summarizing" /\ Live => plan.status = "completed"
    /\ phase \in {"updating", "summarizing"} => NoneActive(plan)
    /\ "completed" \in {status, Coming} => plan.status = "completed" /\ Closed(plan)
    /\ Here \in {"settle", "close"} => Coming # "running"
    /\ Here = "end" /\ ~outside => NoneActive(plan)
    /\ Live => {status, Coming} \subseteq {"running", "waiting"}

\* A suspended batch is one of the active step.
SuspendedInv == suspended /\ Live => /\ phase = "executing" /\ ActiveSteps(plan) # {}
                                 /\ Here \notin {"model", "tools"}

-----------------------------------------------------------------------------
\* Least elements.

\* A set of naturals has a least element: Min takes one of the set, and the facts
\* about Kept are proved by induction.
Less == {ss \in Nat \X Nat : ss[1] < ss[2]}
LEMMA LessWellFounded == IsWellFoundedOn(Less, Nat)
BY NatLessThanWellFounded DEF OpToRel, Less

LEMMA LeastElement ==
  ASSUME NEW T \in SUBSET Nat, T # {}
  PROVE  \E x \in T : \A y \in T : x <= y
<1>2. PICK x \in T : \A y \in T : ~(<<y, x>> \in Less)
  BY Zenon, LessWellFounded, WFMin
<1>3. \A y \in T : ~(y < x)
  BY Zenon, <1>2 DEF Less
<1>4. QED
  BY <1>3

LEMMA MinIn == ASSUME NEW T \in SUBSET Nat, T # {} PROVE Min(T) \in T
BY Zenon, LeastElement DEF Min

-----------------------------------------------------------------------------
\* Kept: the steps with some statuses.

\* The equation that defines Kept(s, S), up to n.
KeptOn(s, S, n, f) ==
    f = [i \in 0..n |-> IF i = 0 THEN <<>>
                        ELSE IF s[i].status \in S THEN Append(f[i - 1], s[i]) ELSE f[i - 1]]

LEMMA KeptExists == ASSUME NEW s, NEW S, NEW n \in Nat PROVE \E f : KeptOn(s, S, n, f)
<1> DEFINE T == {m \in Nat : ~\E f : KeptOn(s, S, m, f)}
<1> SUFFICES ASSUME n \in T PROVE FALSE
  OBVIOUS
<1>1. PICK m \in T : \A k \in T : m <= k
  <2>1. T \in SUBSET Nat /\ T # {}
    OBVIOUS
  <2> HIDE DEF T
  <2>2. QED
    BY <2>1, LeastElement
<1>2. CASE m = 0
  <2>1. PICK f : f = [i \in 0..0 |-> <<>>]
    BY Zenon
  <2>2. KeptOn(s, S, 0, f)
    BY <2>1 DEF KeptOn
  <2>3. QED
    BY <1>2, <2>2
<1>3. CASE m # 0
  <2>1. m - 1 \in Nat /\ ~(m <= m - 1)
    BY <1>3
  <2>2. PICK f : KeptOn(s, S, m - 1, f)
    BY <1>1, <2>1
  <2>3. PICK x : x = IF s[m].status \in S THEN Append(f[m - 1], s[m]) ELSE f[m - 1]
    BY Zenon
  <2>4. PICK g : g = [i \in 0..m |-> IF i = m THEN x ELSE f[i]]
    BY Zenon
  <2>5. /\ \A i \in 0..m : i # m => i \in 0..(m - 1) /\ (i # 0 => i - 1 \in 0..m /\ i - 1 # m)
        /\ m \in 0..m /\ m - 1 \in 0..m /\ m - 1 # m
    BY <2>1
  <2>6. \A i \in 0..m : g[i] = IF i = 0 THEN <<>>
                        ELSE IF s[i].status \in S THEN Append(g[i - 1], s[i]) ELSE g[i - 1]
    BY Zenon, <1>3, <2>2, <2>3, <2>4, <2>5 DEF KeptOn
  <2>7. KeptOn(s, S, m, g)
    BY Zenon, <2>4, <2>6 DEF KeptOn
  <2>8. QED
    BY <2>7
<1>4. QED
  BY <1>2, <1>3

LEMMA KeptIs == ASSUME NEW s, NEW S, Len(s) \in Nat PROVE KeptOn(s, S, Len(s), Kept(s, S))
<1>0. PICK f : KeptOn(s, S, Len(s), f)
  BY Zenon, KeptExists
<1>1. \E g : g = [i \in 0..Len(s) |-> IF i = 0 THEN <<>>
                  ELSE IF s[i].status \in S THEN Append(g[i - 1], s[i]) ELSE g[i - 1]]
  BY Zenon, <1>0 DEF KeptOn
<1>2. QED
  BY Zenon, <1>1 DEF KeptOn, Kept

\* t has the steps of s[1] .. s[n] with a status in S.
Selected(s, S, n, t) ==
    /\ t \in Seq(PlanStep)
    /\ \A k \in 1..Len(t) : \E i \in 1..n : t[k] = s[i] /\ s[i].status \in S
    /\ \A i \in 1..n : s[i].status \in S => \E k \in 1..Len(t) : t[k] = s[i]

LEMMA SelectedNext ==
  ASSUME NEW s \in Seq(PlanStep), NEW S, NEW n \in 1..Len(s), NEW t, Selected(s, S, n - 1, t),
         NEW u, u = IF s[n].status \in S THEN Append(t, s[n]) ELSE t
  PROVE  Selected(s, S, n, u)
<1>0. /\ n \in Nat /\ n - 1 \in Nat /\ n \in 1..n /\ s[n] \in PlanStep
      /\ \A i \in 1..n : i = n \/ i \in 1..(n - 1)
      /\ \A i \in 1..(n - 1) : i \in 1..n
  OBVIOUS
<1>1. CASE s[n].status \notin S
  BY <1>0, <1>1 DEF Selected
<1>2. CASE s[n].status \in S
  <2>1. /\ u \in Seq(PlanStep) /\ Len(u) = Len(t) + 1 /\ Len(t) \in Nat /\ u[Len(t) + 1] = s[n]
        /\ \A k \in 1..Len(t) : u[k] = t[k]
    BY <1>0, <1>2 DEF Selected
  <2>2. /\ \A k \in 1..Len(u) : k = Len(u) \/ k \in 1..Len(t)
        /\ \A k \in 1..Len(t) : k \in 1..Len(u)
        /\ Len(u) \in 1..Len(u) /\ u[Len(u)] = s[n]
    BY <2>1
  <2>3. ASSUME NEW k \in 1..Len(u) PROVE \E i \in 1..n : u[k] = s[i] /\ s[i].status \in S
    <3>1. CASE k = Len(u)
      BY Zenon, <1>0, <1>2, <2>2, <3>1
    <3>2. CASE k \in 1..Len(t)
      <4>1. PICK i \in 1..(n - 1) : t[k] = s[i] /\ s[i].status \in S
        BY Zenon, <3>2 DEF Selected
      <4>2. QED
        BY Zenon, <1>0, <2>1, <3>2, <4>1
    <3>3. QED
      BY Zenon, <2>2, <3>1, <3>2
  <2>4. ASSUME NEW i \in 1..n, s[i].status \in S PROVE \E k \in 1..Len(u) : u[k] = s[i]
    <3>1. CASE i = n
      BY Zenon, <2>2, <3>1
    <3>2. CASE i \in 1..(n - 1)
      <4>1. PICK k \in 1..Len(t) : t[k] = s[i]
        BY Zenon, <2>4, <3>2 DEF Selected
      <4>2. QED
        BY Zenon, <2>1, <2>2, <4>1
    <3>3. QED
      BY Zenon, <1>0, <3>1, <3>2
  <2>5. QED
    BY Zenon, <2>1, <2>3, <2>4 DEF Selected
<1>3. QED
  BY <1>1, <1>2

LEMMA KeptSelected ==
  ASSUME NEW s \in Seq(PlanStep), NEW S
  PROVE  \A n \in 0..Len(s) : Selected(s, S, n, Kept(s, S)[n])
<1> DEFINE T == {n \in 0..Len(s) : ~Selected(s, S, n, Kept(s, S)[n])}
<1> SUFFICES ASSUME T # {} PROVE FALSE
  OBVIOUS
<1>0. Len(s) \in Nat /\ T \in SUBSET Nat
  OBVIOUS
<1>1. PICK m \in T : \A k \in T : m <= k
  <2> HIDE DEF T
  <2>1. QED
    BY Zenon, <1>0, LeastElement
<1>2. KeptOn(s, S, Len(s), Kept(s, S))
  BY Zenon, <1>0, KeptIs
<1>3. m # 0
  <2>1. Kept(s, S)[0] = <<>>
    BY <1>0, <1>2 DEF KeptOn
  <2>2. Selected(s, S, 0, <<>>)
    BY DEF Selected
  <2>3. QED
    BY <2>1, <2>2
<1>4. m - 1 \in 0..Len(s) /\ ~(m <= m - 1) /\ m \in 1..Len(s) /\ m \in 0..Len(s)
  BY <1>0, <1>3
<1>5. Selected(s, S, m - 1, Kept(s, S)[m - 1])
  BY <1>1, <1>4
<1>6. Kept(s, S)[m] = IF s[m].status \in S THEN Append(Kept(s, S)[m - 1], s[m])
                      ELSE Kept(s, S)[m - 1]
  BY Zenon, <1>2, <1>3, <1>4 DEF KeptOn
<1>7. Selected(s, S, m, Kept(s, S)[m])
  BY Zenon, <1>4, <1>5, <1>6, SelectedNext
<1>8. QED
  BY <1>7

LEMMA StepsInSelected ==
  ASSUME NEW p \in Plan, NEW S PROVE Selected(p.steps, S, Len(p.steps), StepsIn(p, S))
<1>1. p.steps \in Seq(PlanStep) /\ Len(p.steps) \in 0..Len(p.steps)
  BY DEF Plan
<1>2. QED
  BY Zenon, <1>1, KeptSelected DEF StepsIn

-----------------------------------------------------------------------------
\* What the operations do to a plan.

\* q has the steps of p, with other statuses.
Same(p, q) ==
    /\ DOMAIN q.steps = DOMAIN p.steps
    /\ \A i \in DOMAIN p.steps : /\ q.steps[i].id = p.steps[i].id
                                 /\ q.steps[i].deps = p.steps[i].deps
                                 /\ q.steps[i].executor = p.steps[i].executor

LEMMA PlanFields ==
  ASSUME NEW p \in Plan
  PROVE  /\ p.steps \in Seq(PlanStep) /\ p.status \in PlanStatus
         /\ Len(p.steps) \in Nat /\ DOMAIN p.steps = 1..Len(p.steps) /\ DOMAIN p.steps \in SUBSET Nat
         /\ \A i \in DOMAIN p.steps :
               /\ p.steps[i] \in PlanStep /\ p.steps[i].id \in StepId
               /\ p.steps[i].deps \in SUBSET StepId /\ p.steps[i].status \in StepStatus
         /\ StepIds(p.steps) \subseteq StepId
<1>1. /\ p.steps \in Seq(PlanStep) /\ p.status \in PlanStatus
      /\ Len(p.steps) \in Nat /\ DOMAIN p.steps = 1..Len(p.steps) /\ DOMAIN p.steps \in SUBSET Nat
      /\ \A i \in DOMAIN p.steps : p.steps[i] \in PlanStep
  BY DEF Plan
<1>2. \A x \in PlanStep : x.id \in StepId /\ x.deps \in SUBSET StepId /\ x.status \in StepStatus
  BY DEF PlanStep
<1>3. QED
  BY Zenon, <1>1, <1>2 DEF StepIds

LEMMA NoPlanIs ==
  /\ NoPlan \in Plan /\ NoPlan.steps = <<>> /\ NoPlan.status = "created"
  /\ DOMAIN NoPlan.steps = {} /\ StepIds(NoPlan.steps) = {} /\ Supported(NoPlan)
BY DEF NoPlan, Plan, PlanStatus, StepIds, Supported

LEMMA SameGraph ==
  ASSUME NEW p \in Plan, NEW q \in Plan, Same(p, q)
  PROVE  /\ StepIds(q.steps) = StepIds(p.steps)
         /\ Supported(p) => Supported(q)
         /\ ValidGraph(p.steps) => ValidGraph(q.steps)
<1>1. StepIds(q.steps) = StepIds(p.steps)
  BY Zenon DEF Same, StepIds
<1>2. Supported(p) => Supported(q)
  BY Zenon DEF Same, Supported
<1>3. ASSUME ValidGraph(p.steps) PROVE q.steps # <<>>
  <2>1. p.steps # <<>>
    BY <1>3 DEF ValidGraph
  <2>2. Len(p.steps) # 0 /\ Len(q.steps) = Len(p.steps)
    BY <2>1, PlanFields DEF Same
  <2>3. QED
    BY <2>2
<1>4. ASSUME ValidGraph(p.steps) PROVE ValidGraph(q.steps)
  <2>1. \A i, j \in DOMAIN q.steps : q.steps[i].id = q.steps[j].id => i = j
    BY Zenon, <1>4 DEF Same, ValidGraph
  <2>2. \A i \in DOMAIN q.steps : q.steps[i].deps \subseteq StepIds(q.steps)
    BY Zenon, <1>1, <1>4 DEF Same, ValidGraph
  <2>3. ASSUME NEW S \in SUBSET StepIds(q.steps) \ {{}}
        PROVE  \E i \in DOMAIN q.steps : q.steps[i].id \in S /\ q.steps[i].deps \cap S = {}
    <3>1. PICK i \in DOMAIN p.steps : p.steps[i].id \in S /\ p.steps[i].deps \cap S = {}
      BY Zenon, <1>1, <1>4 DEF ValidGraph
    <3>2. QED
      BY Zenon, <3>1 DEF Same
  <2>4. QED
    BY Zenon, <1>3, <1>4, <2>1, <2>2, <2>3 DEF ValidGraph
<1>5. QED
  BY <1>1, <1>2, <1>4

LEMMA SetStepIs ==
  ASSUME NEW p \in Plan, NEW i \in DOMAIN p.steps, NEW st \in StepStatus, NEW ps \in PlanStatus,
         NEW q, q = SetStep(p, i, st, ps)
  PROVE  /\ q \in Plan /\ Same(p, q) /\ q.status = ps /\ q.steps[i].status = st
         /\ \A j \in DOMAIN p.steps : j # i => q.steps[j] = p.steps[j]
<1>1. PICK x : x = [p.steps[i] EXCEPT !.status = st]
  BY Zenon
<1>2. /\ x \in PlanStep /\ x.id = p.steps[i].id /\ x.deps = p.steps[i].deps
      /\ x.executor = p.steps[i].executor /\ x.status = st
  <2>1. p.steps[i] \in PlanStep
    BY PlanFields
  <2>2. QED
    BY <1>1, <2>1 DEF PlanStep
<1>3. PICK s : s = [p.steps EXCEPT ![i] = x]
  BY Zenon
<1>4. q.steps = s /\ q.status = ps /\ q = [steps |-> s, status |-> ps]
  BY <1>1, <1>3 DEF SetStep
<1>5. /\ s \in Seq(PlanStep) /\ DOMAIN s = DOMAIN p.steps /\ s[i] = x
      /\ \A j \in DOMAIN p.steps : j # i => s[j] = p.steps[j]
  BY <1>2, <1>3, PlanFields
<1>6. q \in Plan
  BY <1>4, <1>5 DEF Plan
<1>7. Same(p, q)
  BY Zenon, <1>2, <1>4, <1>5 DEF Same
<1>8. QED
  BY Zenon, <1>2, <1>4, <1>5, <1>6, <1>7

LEMMA EndPlanIs ==
  ASSUME NEW p \in Plan, NEW o \in {"failed", "cancelled"}, NEW q, q = EndPlan(p, o)
  PROVE  /\ q \in Plan /\ Same(p, q) /\ q.status = o
         /\ \A i \in DOMAIN p.steps :
               IF p.steps[i].status \in Active THEN q.steps[i].status = o
               ELSE q.steps[i] = p.steps[i]
<1>1. PICK s : s = [i \in DOMAIN p.steps |->
                      IF p.steps[i].status \in Active
                      THEN [p.steps[i] EXCEPT !.status = o] ELSE p.steps[i]]
  BY Zenon
<1>2. q.steps = s /\ q.status = o /\ q = [steps |-> s, status |-> o]
  BY <1>1 DEF EndPlan
<1>3. o \in StepStatus /\ o \in PlanStatus
  BY DEF StepStatus, PlanStatus
<1>4. ASSUME NEW i \in DOMAIN p.steps
      PROVE  /\ s[i] \in PlanStep /\ s[i].id = p.steps[i].id /\ s[i].deps = p.steps[i].deps
             /\ s[i].executor = p.steps[i].executor
             /\ IF p.steps[i].status \in Active THEN s[i].status = o ELSE s[i] = p.steps[i]
  <2>1. p.steps[i] \in PlanStep
    BY PlanFields
  <2>2. s[i] = IF p.steps[i].status \in Active
               THEN [p.steps[i] EXCEPT !.status = o] ELSE p.steps[i]
    BY <1>1
  <2>3. QED
    BY <1>3, <2>1, <2>2 DEF PlanStep
<1>5. s \in Seq(PlanStep) /\ DOMAIN s = DOMAIN p.steps
  <2>1. DOMAIN s = 1..Len(p.steps) /\ Len(p.steps) \in Nat
    BY <1>1, PlanFields
  <2>2. s \in [1..Len(p.steps) -> PlanStep]
    BY <1>1, <1>4, <2>1, PlanFields
  <2>3. QED
    BY <2>1, <2>2, PlanFields
<1>6. q \in Plan
  BY <1>2, <1>3, <1>5 DEF Plan
<1>7. Same(p, q)
  BY Zenon, <1>2, <1>4, <1>5 DEF Same
<1>8. QED
  BY Zenon, <1>2, <1>4, <1>6, <1>7

LEMMA CompleteStepIs ==
  ASSUME NEW p \in Plan, NEW i \in DOMAIN p.steps, NEW q, q = CompleteStep(p, i)
  PROVE  /\ q \in Plan /\ Same(p, q) /\ q.steps[i].status = "completed"
         /\ \A j \in DOMAIN p.steps : j # i => q.steps[j] = p.steps[j]
         /\ q.status = p.status \/ (q.status = "completed" /\ AllSettled(q.steps))
<1>1. PICK u : u = SetStep(p, i, "completed", p.status)
  BY Zenon
<1>2. /\ u \in Plan /\ Same(p, u) /\ u.status = p.status /\ u.steps[i].status = "completed"
      /\ \A j \in DOMAIN p.steps : j # i => u.steps[j] = p.steps[j]
  <2>1. "completed" \in StepStatus /\ p.status \in PlanStatus
    BY PlanFields DEF StepStatus
  <2>2. QED
    BY <1>1, <2>1, SetStepIs
<1>3. q = IF AllSettled(u.steps) THEN [u EXCEPT !.status = "completed"] ELSE u
  BY Zenon, <1>1 DEF CompleteStep
<1>4. q \in Plan /\ q.steps = u.steps
  BY <1>2, <1>3 DEF Plan, PlanStatus
<1>5. q.status = p.status \/ (q.status = "completed" /\ AllSettled(q.steps))
  <2>1. CASE AllSettled(u.steps)
    <3>1. q.status = "completed"
      BY <1>2, <1>3, <2>1 DEF Plan
    <3>2. QED
      BY <1>4, <2>1, <3>1
  <2>2. CASE ~AllSettled(u.steps)
    BY <1>2, <1>3, <2>2
  <2>3. QED
    BY <2>1, <2>2
<1>6. QED
  BY Zenon, <1>2, <1>4, <1>5 DEF Same

\* The steps of a proposal are pending.
LEMMA PendingIs ==
  ASSUME NEW drafts \in Proposal, NEW f, f = Pending(drafts)
  PROVE  /\ f \in Seq(PlanStep)
         /\ \A i \in DOMAIN f : f[i].status = "pending"
<1>1. PICK n \in 0..MaxFuture : drafts \in [1..n -> Draft]
  BY DEF Proposal
<1>2. n \in Nat /\ DOMAIN f = 1..n
  BY <1>1, PlanAssumption DEF Pending
<1>3. ASSUME NEW i \in 1..n PROVE f[i] \in PlanStep /\ f[i].status = "pending"
  <2>1. drafts[i] \in Draft
    BY <1>1
  <2>2. f[i] = [id |-> drafts[i].id, deps |-> drafts[i].deps,
                executor |-> drafts[i].executor, status |-> "pending"]
    BY <1>1 DEF Pending, Step
  <2>3. drafts[i].id \in StepId /\ drafts[i].deps \in SUBSET StepId
        /\ drafts[i].executor \in {"model", "react", "other"}
    BY <2>1, PlanAssumption
  <2>4. QED
    BY <2>2, <2>3 DEF PlanStep, StepStatus
<1>4. f \in [1..n -> PlanStep]
  <2>1. f = [i \in 1..n |-> f[i]]
    BY <1>2 DEF Pending
  <2>2. QED
    BY Zenon, <1>3, <2>1
<1>5. QED
  BY <1>2, <1>3, <1>4

\* The merged plan has the history of p and pending steps.
LEMMA MergeIs ==
  ASSUME NEW p \in Plan, NEW drafts \in Proposal, NEW f, f = Pending(drafts),
         NEW m, m = Merge(p, f), NEW q, q = [steps |-> m.steps, status |-> m.status]
  PROVE  /\ q \in Plan /\ q.steps = m.steps /\ q.status = m.status
         /\ \A i \in DOMAIN p.steps : p.steps[i].status \in Historical =>
               \E k \in DOMAIN q.steps : q.steps[k] = p.steps[i]
         /\ \A k \in DOMAIN q.steps :
               \/ q.steps[k].status = "pending"
               \/ q.steps[k].status \in Historical /\ \E i \in DOMAIN p.steps : q.steps[k] = p.steps[i]
         /\ m.valid => ValidGraph(q.steps)
         /\ q.status \in {"completed", "running"}
         /\ q.status = "completed" => \A k \in DOMAIN q.steps : q.steps[k].status \in Historical
<1>1. PICK h : h = StepsIn(p, Historical)
  BY Zenon
<1>2. Selected(p.steps, Historical, Len(p.steps), h)
  BY <1>1, StepsInSelected
<1>3. f \in Seq(PlanStep) /\ \A i \in DOMAIN f : f[i].status = "pending"
  BY Zenon, PendingIs
<1>4. /\ q.steps = h \o f /\ q.steps = m.steps /\ q.status = m.status
      /\ q = [steps |-> h \o f, status |-> q.status]
      /\ q.status = IF f = <<>> THEN "completed" ELSE "running"
      /\ m.valid => ValidGraph(q.steps)
  BY <1>1 DEF Merge
<1>5. h \in Seq(PlanStep)
  BY <1>2 DEF Selected
<1>6. /\ h \o f \in Seq(PlanStep) /\ DOMAIN (h \o f) = 1..(Len(h) + Len(f))
      /\ Len(h) \in Nat /\ Len(f) \in Nat /\ DOMAIN f = 1..Len(f)
      /\ \A k \in 1..Len(h) : (h \o f)[k] = h[k]
      /\ \A k \in 1..(Len(h) + Len(f)) : k \notin 1..Len(h) => (h \o f)[k] = f[k - Len(h)]
  BY <1>3, <1>5
<1>7. /\ \A k \in 1..Len(h) : k \in 1..(Len(h) + Len(f))
      /\ \A k \in 1..(Len(h) + Len(f)) : k \notin 1..Len(h) => k - Len(h) \in 1..Len(f)
  BY <1>6
<1>8. q \in Plan /\ q.status \in {"completed", "running"}
  BY <1>4, <1>6 DEF Plan, PlanStatus
<1>9. ASSUME NEW i \in DOMAIN p.steps, p.steps[i].status \in Historical
      PROVE  \E k \in DOMAIN q.steps : q.steps[k] = p.steps[i]
  <2>1. PICK k \in 1..Len(h) : h[k] = p.steps[i]
    BY Zenon, <1>2, <1>9, PlanFields DEF Selected
  <2>2. QED
    BY Zenon, <1>4, <1>6, <1>7, <2>1
<1>10. ASSUME NEW k \in 1..Len(h)
       PROVE  h[k].status \in Historical /\ \E i \in DOMAIN p.steps : h[k] = p.steps[i]
  <2>1. PICK i \in 1..Len(p.steps) : h[k] = p.steps[i] /\ p.steps[i].status \in Historical
    BY Zenon, <1>2 DEF Selected
  <2>2. QED
    BY Zenon, <2>1, PlanFields
<1>11. ASSUME NEW k \in DOMAIN q.steps
       PROVE  \/ q.steps[k].status = "pending" /\ Len(f) # 0
              \/ q.steps[k].status \in Historical /\ \E i \in DOMAIN p.steps : q.steps[k] = p.steps[i]
  <2>1. CASE k \in 1..Len(h)
    BY Zenon, <1>4, <1>6, <1>10, <2>1
  <2>2. CASE k \notin 1..Len(h)
    <3>1. k - Len(h) \in 1..Len(f) /\ q.steps[k] = f[k - Len(h)]
      BY Zenon, <1>4, <1>6, <1>7, <2>2
    <3>2. Len(f) # 0 /\ k - Len(h) \in DOMAIN f
      BY <1>6, <3>1
    <3>3. f[k - Len(h)].status = "pending"
      BY Zenon, <1>3, <3>2
    <3>4. QED
      BY Zenon, <3>1, <3>2, <3>3
  <2>3. QED
    BY <2>1, <2>2
<1>12. q.status = "completed" => Len(f) = 0
  BY <1>4
<1>13. QED
  BY Zenon, <1>4, <1>8, <1>9, <1>11, <1>12

-----------------------------------------------------------------------------
\* What the operations preserve.

Keeps(p, q) == \A i \in DOMAIN p.steps : p.steps[i].status \in Historical
                  => \E j \in DOMAIN q.steps : q.steps[j] = p.steps[i]

LEMMA Statuses ==
  /\ Active \cap Historical = {} /\ Settled \subseteq Historical /\ "completed" \in Settled
  /\ "pending" \notin Active \cup Historical /\ "running" \in Active /\ "waiting" \in Active
  /\ "failed" \notin Active \cup Settled /\ "cancelled" \notin Active \cup Settled
  /\ {"running", "waiting", "completed", "failed", "cancelled", "pending"} \subseteq StepStatus
  /\ {"running", "waiting", "completed", "failed", "cancelled", "created"} \subseteq PlanStatus
BY DEF Active, Settled, Historical, StepStatus, PlanStatus

LEMMA NotNoPlan == ASSUME NEW p, ValidGraph(p.steps) PROVE p # NoPlan
BY Zenon, NoPlanIs DEF ValidGraph

\* What is said of the supplied plan stays true.
LEMMA GivenStays ==
  ASSUME given' = given
  PROVE  /\ Fit' <=> Fit
         /\ Sound(plan)' <=> Sound(plan')
         /\ Fresh(plan)' <=> Fresh(plan')
         /\ Closed(plan)' <=> Closed(plan')
<1>1. Fit' <=> Fit
  BY Zenon DEF Fit
<1>2. Sound(plan)' <=> Sound(plan')
  BY Zenon, <1>1 DEF Sound
<1>3. \A t : FailedBefore(t)' <=> FailedBefore(t)
  BY Zenon DEF FailedBefore
<1>4. QED
  BY Zenon, <1>1, <1>2, <1>3 DEF Fresh, Closed, FailedBefore

\* No step starts before its dependencies are settled and none is unsettled.
LEMMA InOrderKept ==
  ASSUME NEW p \in Plan, NEW q \in Plan, Same(p, q), InOrder(p.steps),
         \A i \in DOMAIN p.steps : q.steps[i].status \in Active \cup {"completed"} =>
            p.steps[i].status \in Active \cup {"completed"} \/ i \in Ready(p),
         \A i \in DOMAIN p.steps : p.steps[i].status \in Settled => q.steps[i].status \in Settled
  PROVE  InOrder(q.steps)
<1> SUFFICES ASSUME NEW i \in DOMAIN q.steps, NEW j \in DOMAIN q.steps,
                    q.steps[i].status \in Active \cup {"completed"},
                    q.steps[j].id \in q.steps[i].deps
             PROVE  q.steps[j].status \in Settled
  BY Zenon DEF InOrder
<1>1. i \in DOMAIN p.steps /\ j \in DOMAIN p.steps /\ p.steps[j].id \in p.steps[i].deps
  BY Zenon DEF Same
<1>2. p.steps[j].status \in Settled
  BY Zenon, <1>1 DEF InOrder, Ready
<1>3. QED
  BY Zenon, <1>1, <1>2

LEMMA StartSound ==
  ASSUME NEW p, Sound(p), p # NoPlan, ActiveSteps(p) = {}, NEW i \in Ready(p),
         NEW q, q = StartStep(p, i)
  PROVE  /\ Sound(q) /\ q # NoPlan /\ Keeps(p, q) /\ Same(p, q) /\ q.status = "running"
         /\ ActiveSteps(q) = {i} /\ i \in With(q, "running")
         /\ \A j \in DOMAIN p.steps : j # i => q.steps[j] = p.steps[j]
<1>1. i \in DOMAIN p.steps /\ p.steps[i].status = "pending"
  BY Zenon DEF Ready, With
<1>2. /\ q \in Plan /\ Same(p, q) /\ q.status = "running" /\ q.steps[i].status = "running"
      /\ \A j \in DOMAIN p.steps : j # i => q.steps[j] = p.steps[j]
  <2>1. p \in Plan /\ "running" \in StepStatus /\ "running" \in PlanStatus
    BY Statuses DEF Sound
  <2>2. q = SetStep(p, i, "running", "running")
    BY Zenon DEF StartStep
  <2>3. QED
    BY <1>1, <2>1, <2>2, SetStepIs
<1>3. ValidGraph(q.steps) /\ q # NoPlan
  BY Zenon, <1>2, SameGraph, NotNoPlan DEF Sound
<1>4. Fit => InOrder(q.steps)
  <2>1. \A j \in DOMAIN p.steps : q.steps[j].status \in Active \cup {"completed"} =>
            p.steps[j].status \in Active \cup {"completed"} \/ j \in Ready(p)
    BY Zenon, <1>2
  <2>2. \A j \in DOMAIN p.steps : p.steps[j].status \in Settled => q.steps[j].status \in Settled
    BY Zenon, <1>1, <1>2, Statuses
  <2>3. QED
    BY Zenon, <1>2, <2>1, <2>2, InOrderKept DEF Sound
<1>a. \A j \in DOMAIN q.steps : q.steps[j].status \in Active <=> j = i
  BY Zenon, <1>1, <1>2, Statuses DEF ActiveSteps, Same
<1>5. ActiveSteps(q) = {i}
  BY Zenon, <1>1, <1>2, <1>a DEF ActiveSteps, Same
<1>6. OneActive(q.steps)
  BY Zenon, <1>a DEF OneActive
<1>7. Keeps(p, q)
  BY Zenon, <1>1, <1>2, Statuses DEF Keeps, Same
<1>8. QED
  BY Zenon, <1>1, <1>2, <1>3, <1>4, <1>5, <1>6, <1>7 DEF Sound, With, Same

\* The active step waits or goes on.
LEMMA MoveSound ==
  ASSUME NEW p, Sound(p), p # NoPlan, NEW i \in ActiveSteps(p), NEW st \in Active,
         NEW q, q = SetStep(p, i, st, st)
  PROVE  /\ Sound(q) /\ q # NoPlan /\ Keeps(p, q) /\ Same(p, q) /\ q.status = st
         /\ ActiveSteps(q) = ActiveSteps(p) /\ i \in With(q, st)
         /\ \A j \in DOMAIN p.steps : j # i => q.steps[j] = p.steps[j]
<1>1. i \in DOMAIN p.steps /\ p.steps[i].status \in Active
  BY Zenon DEF ActiveSteps
<1>2. /\ q \in Plan /\ Same(p, q) /\ q.status = st /\ q.steps[i].status = st
      /\ \A j \in DOMAIN p.steps : j # i => q.steps[j] = p.steps[j]
  <2>1. p \in Plan /\ st \in StepStatus /\ st \in PlanStatus
    BY DEF Sound, Active, StepStatus, PlanStatus
  <2>3. QED
    BY <1>1, <2>1, SetStepIs
<1>3. ValidGraph(q.steps) /\ q # NoPlan
  BY Zenon, <1>2, SameGraph, NotNoPlan DEF Sound
<1>4. Fit => InOrder(q.steps)
  <2>1. \A j \in DOMAIN p.steps : q.steps[j].status \in Active \cup {"completed"} =>
            p.steps[j].status \in Active \cup {"completed"} \/ j \in Ready(p)
    BY Zenon, <1>1, <1>2
  <2>2. \A j \in DOMAIN p.steps : p.steps[j].status \in Settled => q.steps[j].status \in Settled
    BY Zenon, <1>1, <1>2, Statuses
  <2>3. QED
    BY Zenon, <1>2, <2>1, <2>2, InOrderKept DEF Sound
<1>5. ActiveSteps(q) = ActiveSteps(p)
  <2>1. \A j \in DOMAIN q.steps : q.steps[j].status \in Active <=> p.steps[j].status \in Active
    BY Zenon, <1>1, <1>2 DEF Same
  <2>2. QED
    BY Zenon, <1>2, <2>1 DEF ActiveSteps, Same
<1>6. Fit => OneActive(q.steps)
  BY Zenon, <1>2, <1>5 DEF ActiveSteps, OneActive, Sound, Same
<1>7. Keeps(p, q)
  BY Zenon, <1>1, <1>2, Statuses DEF Keeps, Same
<1>8. QED
  BY Zenon, <1>1, <1>2, <1>3, <1>4, <1>5, <1>6, <1>7 DEF Sound, With, Same

LEMMA CompleteSound ==
  ASSUME NEW p, Sound(p), p # NoPlan, NEW i \in ActiveSteps(p), NEW q, q = CompleteStep(p, i)
  PROVE  /\ Sound(q) /\ q # NoPlan /\ Keeps(p, q) /\ Same(p, q)
         /\ ActiveSteps(q) \subseteq ActiveSteps(p) /\ (Fit => ActiveSteps(q) = {})
         /\ q.steps[i].status = "completed"
         /\ \A j \in DOMAIN p.steps : j # i => q.steps[j] = p.steps[j]
         /\ q.status = p.status \/ (q.status = "completed" /\ AllSettled(q.steps))
<1>1. i \in DOMAIN p.steps /\ p.steps[i].status \in Active /\ p \in Plan
  BY Zenon DEF ActiveSteps, Sound
<1>2. /\ q \in Plan /\ Same(p, q) /\ q.steps[i].status = "completed"
      /\ \A j \in DOMAIN p.steps : j # i => q.steps[j] = p.steps[j]
      /\ q.status = p.status \/ (q.status = "completed" /\ AllSettled(q.steps))
  BY <1>1, CompleteStepIs
<1>3. ValidGraph(q.steps) /\ q # NoPlan
  BY Zenon, <1>2, SameGraph, NotNoPlan DEF Sound
<1>4. Fit => InOrder(q.steps)
  <2>1. \A j \in DOMAIN p.steps : q.steps[j].status \in Active \cup {"completed"} =>
            p.steps[j].status \in Active \cup {"completed"} \/ j \in Ready(p)
    BY Zenon, <1>1, <1>2
  <2>2. \A j \in DOMAIN p.steps : p.steps[j].status \in Settled => q.steps[j].status \in Settled
    BY Zenon, <1>1, <1>2, Statuses
  <2>3. QED
    BY Zenon, <1>2, <2>1, <2>2, InOrderKept DEF Sound
<1>a. "completed" \notin Active
  BY DEF Active
<1>5. ActiveSteps(q) \subseteq ActiveSteps(p)
  BY Zenon, <1>2, <1>a DEF ActiveSteps, Same
<1>6. ASSUME Fit PROVE ActiveSteps(q) = {} /\ OneActive(q.steps)
  <2>1. ASSUME NEW j \in DOMAIN p.steps, j # i PROVE p.steps[j].status \notin Active
    BY Zenon, <1>1, <1>6, <2>1 DEF OneActive, Sound
  <2>2. \A j \in DOMAIN q.steps : q.steps[j].status \notin Active
    BY Zenon, <1>2, <1>a, <2>1 DEF Same
  <2>3. QED
    BY Zenon, <2>2 DEF ActiveSteps, OneActive
<1>7. Keeps(p, q)
  BY Zenon, <1>1, <1>2, Statuses DEF Keeps, Same
<1>8. QED
  BY Zenon, <1>1, <1>2, <1>3, <1>4, <1>5, <1>6, <1>7 DEF Sound

LEMMA EndSound ==
  ASSUME NEW p, Sound(p), p # NoPlan, NEW o \in {"failed", "cancelled"},
         NEW q, q = EndPlan(p, o)
  PROVE  /\ Sound(q) /\ q # NoPlan /\ Keeps(p, q) /\ Same(p, q) /\ ActiveSteps(q) = {}
         /\ q.status = o
         /\ \A j \in DOMAIN p.steps : p.steps[j].status \notin Active => q.steps[j] = p.steps[j]
<1>1. p \in Plan
  BY Zenon DEF Sound
<1>2. /\ q \in Plan /\ Same(p, q) /\ q.status = o
      /\ \A i \in DOMAIN p.steps : p.steps[i].status \in Active => q.steps[i].status = o
      /\ \A i \in DOMAIN p.steps : p.steps[i].status \notin Active => q.steps[i] = p.steps[i]
  BY <1>1, EndPlanIs
<1>3. ValidGraph(q.steps) /\ q # NoPlan
  BY Zenon, <1>1, <1>2, SameGraph, NotNoPlan DEF Sound
<1>a. o \notin Active \cup Settled /\ o # "completed"
  BY Statuses
<1>4. Fit => InOrder(q.steps)
  <2>1. \A j \in DOMAIN p.steps : q.steps[j].status \in Active \cup {"completed"} =>
            p.steps[j].status \in Active \cup {"completed"} \/ j \in Ready(p)
    BY Zenon, <1>2, <1>a
  <2>2. \A j \in DOMAIN p.steps : p.steps[j].status \in Settled => q.steps[j].status \in Settled
    BY Zenon, <1>2, Statuses
  <2>3. QED
    BY Zenon, <1>1, <1>2, <2>1, <2>2, InOrderKept DEF Sound
<1>5. \A j \in DOMAIN q.steps : q.steps[j].status \notin Active
  BY Zenon, <1>2, <1>a DEF Same
<1>6. ActiveSteps(q) = {} /\ OneActive(q.steps)
  BY Zenon, <1>5 DEF ActiveSteps, OneActive
<1>7. Keeps(p, q)
  BY Zenon, <1>2, Statuses DEF Keeps, Same
<1>8. QED
  BY Zenon, <1>1, <1>2, <1>3, <1>4, <1>6, <1>7 DEF Sound

\* A review keeps what has settled: the name of a dependency of a completed step
\* is the name of one settled step, before and after.
LEMMA RevisedSound ==
  ASSUME NEW p, Sound(p), p # NoPlan, NEW q \in Plan, ValidGraph(q.steps),
         \A i \in DOMAIN p.steps : p.steps[i].status \in Historical =>
            \E k \in DOMAIN q.steps : q.steps[k] = p.steps[i],
         \A k \in DOMAIN q.steps :
            \/ q.steps[k].status = "pending"
            \/ q.steps[k].status \in Historical /\ \E i \in DOMAIN p.steps : q.steps[k] = p.steps[i]
  PROVE  Sound(q) /\ q # NoPlan /\ Keeps(p, q) /\ ActiveSteps(q) = {}
<1>3. q # NoPlan /\ Keeps(p, q)
  <2>1. q # NoPlan
    BY NotNoPlan
  <2>2. QED
    BY Zenon, <2>1 DEF Keeps
<1>4. \A k \in DOMAIN q.steps : q.steps[k].status \notin Active
  BY Zenon, Statuses
<1>5. ActiveSteps(q) = {} /\ OneActive(q.steps)
  BY Zenon, <1>4 DEF ActiveSteps, OneActive
<1>6. ASSUME Fit, NEW i \in DOMAIN q.steps, NEW j \in DOMAIN q.steps,
             q.steps[i].status \in Active \cup {"completed"}, q.steps[j].id \in q.steps[i].deps
      PROVE  q.steps[j].status \in Settled
  <2>1. q.steps[i].status = "completed" /\ "completed" # "pending"
    BY Zenon, <1>4, <1>6
  <2>2. PICK a \in DOMAIN p.steps : q.steps[i] = p.steps[a]
    BY Zenon, <2>1
  <2>3. q.steps[j].id \in StepIds(p.steps)
    BY Zenon, <1>6, <2>2 DEF Sound, ValidGraph
  <2>4. PICK b \in DOMAIN p.steps : p.steps[b].id = q.steps[j].id
    BY Zenon, <2>3 DEF StepIds
  <2>5. p.steps[b].status \in Settled
    BY Zenon, <1>6, <2>1, <2>2, <2>4 DEF Sound, InOrder
  <2>6. PICK k \in DOMAIN q.steps : q.steps[k] = p.steps[b]
    BY Zenon, <2>5, Statuses
  <2>7. k = j
    BY Zenon, <2>4, <2>6 DEF ValidGraph
  <2>8. QED
    BY Zenon, <2>5, <2>6, <2>7
<1>7. QED
  BY Zenon, <1>3, <1>5, <1>6 DEF Sound, InOrder

LEMMA MergeSound ==
  ASSUME NEW p, Sound(p), p # NoPlan, NEW drafts \in Proposal, NEW f, f = Pending(drafts),
         NEW m, m = Merge(p, f), m.valid, NEW q, q = [steps |-> m.steps, status |-> m.status]
  PROVE  Sound(q) /\ q # NoPlan /\ Keeps(p, q) /\ ActiveSteps(q) = {}
<1>1. p \in Plan
  BY Zenon DEF Sound
<1>2. /\ q \in Plan
      /\ \A i \in DOMAIN p.steps : p.steps[i].status \in Historical =>
            \E k \in DOMAIN q.steps : q.steps[k] = p.steps[i]
      /\ \A k \in DOMAIN q.steps :
            \/ q.steps[k].status = "pending"
            \/ q.steps[k].status \in Historical /\ \E i \in DOMAIN p.steps : q.steps[k] = p.steps[i]
      /\ ValidGraph(q.steps)
  BY <1>1, MergeIs
<1>3. QED
  BY <1>2, RevisedSound

LEMMA PendingSound ==
  ASSUME NEW drafts \in Proposal, NEW q, q = [steps |-> Pending(drafts), status |-> "created"],
         ValidGraph(q.steps)
  PROVE  Sound(q) /\ q # NoPlan /\ ActiveSteps(q) = {}
<1>1. q.steps \in Seq(PlanStep) /\ \A i \in DOMAIN q.steps : q.steps[i].status = "pending"
  BY PendingIs
<1>2. q \in Plan /\ q # NoPlan
  BY <1>1, NotNoPlan DEF Plan, PlanStatus
<1>3. \A i \in DOMAIN q.steps : q.steps[i].status \notin Active \cup {"completed"}
  BY <1>1 DEF Active
<1>4. QED
  BY Zenon, <1>2, <1>3 DEF Sound, OneActive, InOrder, ActiveSteps

-----------------------------------------------------------------------------
\* Writing the plan, failing and settling.

\* q comes from p: the same active steps, or fewer.
Follows(p, q) == /\ Sound(q) /\ Keeps(p, q) /\ Same(p, q)
                 /\ q = NoPlan <=> p = NoPlan
                 /\ Supported(p) => Supported(q)
                 /\ \A i \in ActiveSteps(q) : i \in ActiveSteps(p) /\ q.steps[i].id = p.steps[i].id

LEMMA FollowsItself == ASSUME NEW p, Sound(p) PROVE Follows(p, p)
BY Zenon DEF Follows, Keeps, Same

LEMMA MoveFollows ==
  ASSUME NEW p, Sound(p), p # NoPlan, NEW i \in ActiveSteps(p), NEW st \in Active,
         NEW q, q = SetStep(p, i, st, st)
  PROVE  Follows(p, q) /\ ActiveSteps(q) = ActiveSteps(p) /\ i \in With(q, st)
<1>1. /\ Sound(q) /\ q # NoPlan /\ Keeps(p, q) /\ Same(p, q)
      /\ ActiveSteps(q) = ActiveSteps(p) /\ i \in With(q, st)
  BY MoveSound
<1>2. p \in Plan /\ q \in Plan
  BY Zenon, <1>1 DEF Sound
<1>3. \A j \in ActiveSteps(q) : q.steps[j].id = p.steps[j].id
  BY Zenon, <1>1 DEF Same, ActiveSteps
<1>4. Supported(p) => Supported(q)
  BY <1>1, <1>2, SameGraph
<1>5. QED
  BY Zenon, <1>1, <1>3, <1>4 DEF Follows

LEMMA EndFollows ==
  ASSUME NEW p, Sound(p), p # NoPlan, NEW o \in {"failed", "cancelled"},
         NEW q, q = EndPlan(p, o)
  PROVE  Follows(p, q) /\ ActiveSteps(q) = {}
<1>1. /\ Sound(q) /\ q # NoPlan /\ Keeps(p, q) /\ Same(p, q) /\ ActiveSteps(q) = {}
  BY EndSound
<1>2. p \in Plan /\ q \in Plan
  BY Zenon, <1>1 DEF Sound
<1>3. Supported(p) => Supported(q)
  BY <1>1, <1>2, SameGraph
<1>4. QED
  BY Zenon, <1>1, <1>3 DEF Follows

LEMMA CompleteFollows ==
  ASSUME NEW p, Sound(p), p # NoPlan, NEW i \in ActiveSteps(p), NEW q, q = CompleteStep(p, i)
  PROVE  Follows(p, q)
<1>1. /\ Sound(q) /\ q # NoPlan /\ Keeps(p, q) /\ Same(p, q)
      /\ ActiveSteps(q) \subseteq ActiveSteps(p)
  BY CompleteSound
<1>2. p \in Plan /\ q \in Plan
  BY Zenon, <1>1 DEF Sound
<1>3. Supported(p) => Supported(q)
  BY <1>1, <1>2, SameGraph
<1>4. \A j \in ActiveSteps(q) : q.steps[j].id = p.steps[j].id
  BY Zenon, <1>1 DEF Same, ActiveSteps
<1>5. QED
  BY Zenon, <1>1, <1>3, <1>4 DEF Follows

\* The next place is known when the plan is written or kept.
LEMMA Updated ==
  ASSUME NEW q, NEW b \in BOOLEAN, NEW s \in RunStatus, NEW l \in After,
         UpdatePlan(q, b, Then(s, l))
  PROVE  /\ plan' = q /\ pc' = "emit" /\ pc' \in Label
         /\ then' \in [status : RunStatus, pc : After]
         /\ Here' = l /\ Coming' = s /\ news' \subseteq StepIds(plan'.steps)
<1>1. plan' = q /\ pc' = "emit" /\ then' = [status |-> s, pc |-> l]
  BY DEF UpdatePlan, Then
<1>2. news' \subseteq StepIds(q.steps)
  BY Zenon DEF UpdatePlan, Changed
<1>3. Here' = l /\ Coming' = s /\ pc' \in Label /\ then' \in [status : RunStatus, pc : After]
  BY <1>1 DEF Here, Coming, Label
<1>4. QED
  BY Zenon, <1>1, <1>2, <1>3

LEMMA KeptPlan ==
  ASSUME TypeInv, NEW s \in RunStatus, NEW l \in Label \ {"emit"}, KeepPlan(Then(s, l))
  PROVE  /\ plan' = plan /\ pc' = l /\ pc' \in Label /\ then' = then /\ status' = s
         /\ then' \in [status : RunStatus, pc : After]
         /\ Here' = l /\ Coming' = s /\ news' \subseteq StepIds(plan'.steps)
<1>1. plan' = plan /\ pc' = l /\ then' = then /\ status' = s /\ news' = news
  BY DEF KeepPlan, Then
<1>2. Here' = l /\ Coming' = s
  BY <1>1 DEF Here, Coming
<1>3. QED
  BY Zenon, <1>1, <1>2 DEF TypeInv

LEMMA Places ==
  /\ RunStatus = {"running", "waiting", "completed", "cancelled", "failed", "interrupted", "limit_reached"}
  /\ Label = {"advance", "emit", "model", "tools", "check", "request", "settle", "close", "wait", "end"}
  /\ After \subseteq Label \ {"emit"}
BY DEF RunStatus, Unsuccessful, Label, After

LEMMA FailFollows ==
  ASSUME Inv, FailExecution("failed")
  PROVE  /\ Follows(plan, plan') /\ pc' \in Label /\ then' \in [status : RunStatus, pc : After]
         /\ status' \in RunStatus /\ Here' = "settle" /\ Coming' = "failed"
         /\ news' \subseteq StepIds(plan'.steps)
<1>1. "failed" \in RunStatus /\ "settle" \in After /\ "settle" \in Label \ {"emit"} /\ FALSE \in BOOLEAN
  BY Places DEF After
<1>2. CASE plan # NoPlan /\ plan.status \notin {"failed", "cancelled"}
  <2>1. UpdatePlan(EndPlan(plan, "failed"), FALSE, Then("failed", "settle")) /\ status' = status
    BY Zenon, <1>2 DEF FailExecution
  <2>2. PICK q : q = EndPlan(plan, "failed")
    BY Zenon
  <2>3. Follows(plan, q)
    BY <1>2, <2>2, EndFollows DEF Inv
  <2>4. /\ plan' = q /\ pc' \in Label /\ then' \in [status : RunStatus, pc : After]
        /\ Here' = "settle" /\ Coming' = "failed" /\ news' \subseteq StepIds(plan'.steps)
    BY Zenon, <1>1, <2>1, <2>2, Updated
  <2>5. QED
    BY Zenon, <2>1, <2>3, <2>4 DEF Inv, TypeInv
<1>3. CASE ~(plan # NoPlan /\ plan.status \notin {"failed", "cancelled"})
  <2>1. KeepPlan(Then("failed", "settle"))
    BY Zenon, <1>3 DEF FailExecution
  <2>2. /\ plan' = plan /\ pc' \in Label /\ then' \in [status : RunStatus, pc : After]
        /\ status' = "failed" /\ Here' = "settle" /\ Coming' = "failed"
        /\ news' \subseteq StepIds(plan'.steps)
    BY Zenon, <1>1, <2>1, KeptPlan DEF Inv
  <2>3. Follows(plan, plan)
    BY Zenon, FollowsItself DEF Inv
  <2>4. QED
    BY Zenon, <1>1, <2>2, <2>3
<1>4. QED
  BY <1>2, <1>3

LEMMA SettleFollows ==
  ASSUME Inv, NEW l \in After, SettlePlan(l)
  PROVE  /\ Follows(plan, plan') /\ pc' \in Label /\ then' \in [status : RunStatus, pc : After]
         /\ status' = status /\ Here' = l /\ Coming' = status
         /\ news' \subseteq StepIds(plan'.steps)
         /\ status \notin Unsuccessful => plan' = plan
<1>1. status \in RunStatus /\ l \in Label \ {"emit"} /\ FALSE \in BOOLEAN
  BY Places DEF After, Inv, TypeInv
<1>2. CASE /\ plan # NoPlan /\ plan.status \notin {"completed", "failed", "cancelled"}
           /\ status \in Unsuccessful
  <2>1. PICK o : o = IF status = "cancelled" THEN "cancelled" ELSE "failed"
    BY Zenon
  <2>2. UpdatePlan(EndPlan(plan, o), FALSE, Then(status, l)) /\ status' = status
    BY Zenon, <1>2, <2>1 DEF SettlePlan
  <2>3. o \in {"failed", "cancelled"}
    BY <2>1
  <2>4. PICK q : q = EndPlan(plan, o)
    BY Zenon
  <2>5. Follows(plan, q)
    BY <1>2, <2>3, <2>4, EndFollows DEF Inv
  <2>6. /\ plan' = q /\ pc' \in Label /\ then' \in [status : RunStatus, pc : After]
        /\ Here' = l /\ Coming' = status /\ news' \subseteq StepIds(plan'.steps)
    BY Zenon, <1>1, <2>2, <2>4, Updated
  <2>7. QED
    BY Zenon, <1>2, <2>2, <2>5, <2>6
<1>3. CASE ~(/\ plan # NoPlan /\ plan.status \notin {"completed", "failed", "cancelled"}
             /\ status \in Unsuccessful)
  <2>1. KeepPlan(Then(status, l))
    BY Zenon, <1>3 DEF SettlePlan
  <2>2. /\ plan' = plan /\ pc' \in Label /\ then' \in [status : RunStatus, pc : After]
        /\ status' = status /\ Here' = l /\ Coming' = status
        /\ news' \subseteq StepIds(plan'.steps)
    BY Zenon, <1>1, <2>1, KeptPlan DEF Inv
  <2>3. Follows(plan, plan)
    BY Zenon, FollowsItself DEF Inv
  <2>4. QED
    BY Zenon, <2>2, <2>3
<1>4. QED
  BY <1>2, <1>3

-----------------------------------------------------------------------------
\* One lemma per action.

\* A step that keeps the phase and the iterations, and no step becomes active.
LEMMA Goes ==
  ASSUME Inv, TypeInv', given' = given, Follows(plan, plan'), phase' = phase, react' = react,
         Here' \in {"advance", "request"} => steps' < MaxSteps,
         Asking' => Supported(plan),
         Asking' /\ phase = "executing" => With(plan', "running") # {},
         Live' => Live /\ (react = NoReact \/ ActiveSteps(plan') = ActiveSteps(plan))
  PROVE  Inv'
<1>1. Sound(plan)' /\ (phase' = "planning" <=> plan' = NoPlan)
  BY Zenon, GivenStays DEF Follows, Inv
<1>2. LoopInv'
  BY Zenon DEF Follows, Inv, LoopInv, Asking
<1>3. ReActInv'
  <2>1. react'.iteration <= MaxIterations
    BY Zenon DEF Inv, ReActInv
  <2>2. Fit' => \A i \in ActiveSteps(plan') : react' # NoReact => react'.step = plan'.steps[i].id
    BY Zenon, GivenStays DEF Follows, Inv, ReActInv
  <2>3. Live' /\ react' # NoReact => ActiveSteps(plan') # {}
    BY Zenon DEF Inv, ReActInv
  <2>4. QED
    BY Zenon, <2>1, <2>2, <2>3 DEF Inv, ReActInv
<1>4. QED
  BY Zenon, <1>1, <1>2, <1>3 DEF Inv

\* The same when the plan is kept, too.
LEMMA Stays ==
  ASSUME Inv, TypeInv', given' = given, plan' = plan, phase' = phase, react' = react,
         Here' \in {"advance", "request"} => steps' < MaxSteps,
         Asking' => Supported(plan),
         Asking' /\ phase = "executing" => With(plan, "running") # {},
         Live' => Live
  PROVE  Inv'
<1>1. Follows(plan, plan')
  BY Zenon, FollowsItself DEF Inv
<1>2. QED
  BY Zenon, <1>1, Goes

LEMMA LoopTopStep == ASSUME Inv, LoopTop, given' = given PROVE Inv'
<1>1. /\ pc = "check" /\ plan' = plan /\ phase' = phase /\ react' = react /\ steps' = steps
      /\ then' = then /\ news' = news
      /\ \/ status' = "cancelled" /\ pc' = "close"
         \/ status' = "limit_reached" /\ pc' = "close"
         \/ steps < MaxSteps /\ pc' = "advance" /\ status' = status
  <2>1. steps \in Nat /\ MaxSteps \in Nat /\ cancel \in BOOLEAN
    BY PlanAssumption DEF Inv, TypeInv
  <2>2. cancel \/ steps >= MaxSteps \/ steps < MaxSteps
    BY <2>1
  <2>3. QED
    BY Zenon, <2>1, <2>2 DEF LoopTop
<1>2. status' \in RunStatus /\ pc' \in Label
  BY <1>1, Places DEF Inv, TypeInv
<1>3. TypeInv'
  BY Zenon, <1>1, <1>2 DEF Inv, TypeInv, LoopTop
<1>4. /\ Here = "check" /\ Here' \in {"close", "advance"} /\ Here' = pc' /\ Coming' = status'
      /\ Coming' # "waiting" \/ Here' = "advance"
  BY <1>1 DEF Here, Coming
<1>5. ~Asking' /\ Live /\ (Here' = "advance" => steps' < MaxSteps)
  BY <1>1, <1>4 DEF Asking, Live
<1>6. Here' # "request"
  BY <1>4
<1>7. QED
  BY Zenon, <1>1, <1>3, <1>5, <1>6, Stays

LEMMA AdvancePhaseStep == ASSUME Inv, AdvancePhase, given' = given PROVE Inv'
<1>1. /\ pc = "advance" /\ phase # "executing" /\ pc' = "request" /\ plan' = plan /\ phase' = phase
      /\ react' = react /\ steps' = steps
  BY Zenon DEF AdvancePhase
<1>2. TypeInv'
  <2>1. "request" \in Label
    BY Places
  <2>2. QED
    BY Zenon, <1>1, <2>1 DEF Inv, TypeInv, AdvancePhase
<1>3. Here = "advance" /\ Here' = "request" /\ Live
  BY <1>1 DEF Here, Live
<1>4. Supported(plan)
  <2>1. phase \in {"planning", "updating", "summarizing"}
    BY <1>1 DEF Inv, TypeInv, Phase
  <2>2. QED
    BY Zenon, <2>1, NoPlanIs DEF Inv, LoopInv
<1>5. steps' < MaxSteps
  BY Zenon, <1>1, <1>3 DEF Inv, LoopInv
<1>6. QED
  BY Zenon, <1>1, <1>2, <1>3, <1>4, <1>5, Stays

LEMMA StatusInIs ==
  ASSUME NEW p \in Plan
  PROVE  /\ \A id \in StepIds(p.steps) : StatusIn(p, id) \in StepStatus
         /\ ValidGraph(p.steps) =>
               \A i \in DOMAIN p.steps : StatusIn(p, p.steps[i].id) = p.steps[i].status
<1>1. ASSUME NEW id \in StepIds(p.steps)
      PROVE  \E k \in DOMAIN p.steps : p.steps[k].id = id /\ StatusIn(p, id) = p.steps[k].status
  <2>1. \E i \in DOMAIN p.steps : p.steps[i].id = id
    BY Zenon DEF StepIds
  <2>2. PICK k : k = CHOOSE i \in DOMAIN p.steps : p.steps[i].id = id
    BY Zenon
  <2>3. k \in DOMAIN p.steps /\ p.steps[k].id = id
    BY Zenon, <2>1, <2>2
  <2>4. QED
    BY Zenon, <2>2, <2>3 DEF StatusIn
<1>2. \A id \in StepIds(p.steps) : StatusIn(p, id) \in StepStatus
  BY Zenon, <1>1, PlanFields
<1>3. ASSUME ValidGraph(p.steps), NEW i \in DOMAIN p.steps
      PROVE  StatusIn(p, p.steps[i].id) = p.steps[i].status
  <2>1. p.steps[i].id \in StepIds(p.steps)
    BY Zenon DEF StepIds
  <2>2. PICK k \in DOMAIN p.steps :
           p.steps[k].id = p.steps[i].id /\ StatusIn(p, p.steps[i].id) = p.steps[k].status
    BY Zenon, <1>1, <2>1
  <2>3. k = i
    BY Zenon, <1>3, <2>2 DEF ValidGraph
  <2>4. QED
    BY Zenon, <2>2, <2>3
<1>4. QED
  BY Zenon, <1>2, <1>3

LEMMA EmitStep == ASSUME Inv, Emit, given' = given PROVE Inv'
<1>1. /\ pc = "emit" /\ plan' = plan /\ phase' = phase /\ react' = react /\ steps' = steps
      /\ then' = then /\ news' = {} /\ status' = then.status /\ pc' = then.pc
  BY Zenon DEF Emit
<1>2. then.status \in RunStatus /\ then.pc \in After /\ then.pc \in Label \ {"emit"}
  BY Places DEF Inv, TypeInv
<1>3. told' \in [StepId -> StepStatus \cup {"none"}]
  <2>1. \A id \in news : StatusIn(plan, id) \in StepStatus
    BY Zenon, StatusInIs DEF Inv, TypeInv
  <2>2. told' = [id \in StepId |-> IF id \in news THEN StatusIn(plan, id) ELSE told[id]]
    BY Zenon DEF Emit, Announced
  <2>3. told \in [StepId -> StepStatus \cup {"none"}]
    BY Zenon DEF Inv, TypeInv
  <2>4. QED
    BY Zenon, <2>1, <2>2, <2>3
<1>4. TypeInv'
  BY Zenon, <1>1, <1>2, <1>3 DEF Inv, TypeInv, Emit
<1>5. Here' = Here /\ Coming' = Coming
  BY <1>1, <1>2 DEF Here, Coming
<1>6. QED
  BY Zenon, <1>1, <1>4, <1>5, Stays DEF Inv, LoopInv, Asking, Live

LEMMA Fails ==
  ASSUME Inv, given' = given, FailExecution("failed"),
         UNCHANGED <<phase, react, suspended, steps, cancel, told, interrupts, outside>>
  PROVE  Inv'
<1>1. /\ Follows(plan, plan') /\ pc' \in Label /\ then' \in [status : RunStatus, pc : After]
      /\ status' \in RunStatus /\ Here' = "settle" /\ Coming' = "failed"
      /\ news' \subseteq StepIds(plan'.steps)
  BY FailFollows
<1>2. TypeInv'
  BY Zenon, <1>1 DEF Follows, Sound, Inv, TypeInv
<1>3. ~Asking' /\ ~Live' /\ Here' \notin {"advance", "request"}
  BY <1>1 DEF Asking, Live
<1>4. QED
  BY Zenon, <1>1, <1>2, <1>3, Goes

LEMMA ResumeBatchStep == ASSUME Inv, ResumeBatch, given' = given PROVE Inv'
<1>1. /\ pc = "request" /\ pc' = "tools" /\ plan' = plan /\ phase' = phase /\ react' = react
      /\ suspended' = FALSE
  BY Zenon DEF ResumeBatch
<1>2. TypeInv'
  <2>1. "tools" \in Label
    BY Places
  <2>2. QED
    BY Zenon, <1>1, <2>1 DEF Inv, TypeInv, ResumeBatch
<1>3. Here = "request" /\ Here' = "tools" /\ Live /\ Asking
  BY <1>1 DEF Here, Live, Asking
<1>4. Here' \notin {"advance", "request"}
  BY <1>3
<1>5. QED
  BY Zenon, <1>1, <1>2, <1>3, <1>4, Stays DEF Inv, LoopInv

LEMMA AnswerFailsStep == ASSUME Inv, AnswerFails, given' = given PROVE Inv'
BY Zenon, Fails DEF AnswerFails

LEMMA MalformedStep == ASSUME Inv, Malformed, given' = given PROVE Inv'
BY Zenon, Fails DEF Malformed

\* The Run stops without a change of the plan.
LEMMA Stopped ==
  ASSUME Inv, given' = given, NEW s \in RunStatus \ {"waiting"}, KeepPlan(Then(s, "settle")),
         UNCHANGED <<phase, react, suspended, steps, cancel, told, interrupts, outside>>
  PROVE  Inv'
<1>1. "settle" \in Label \ {"emit"} /\ s \in RunStatus /\ s # "waiting"
  BY Places
<1>2. /\ plan' = plan /\ pc' \in Label /\ then' \in [status : RunStatus, pc : After]
      /\ status' = s /\ Here' = "settle" /\ Coming' = s /\ news' \subseteq StepIds(plan'.steps)
  BY Zenon, <1>1, KeptPlan DEF Inv
<1>3. TypeInv'
  BY Zenon, <1>1, <1>2 DEF Inv, TypeInv
<1>4. ~Asking' /\ ~Live' /\ Here' \notin {"advance", "request"}
  BY <1>1, <1>2 DEF Asking, Live
<1>5. QED
  BY Zenon, <1>2, <1>3, <1>4, Stays

LEMMA CancelledMeanwhileStep == ASSUME Inv, CancelledMeanwhile, given' = given PROVE Inv'
<1>1. "cancelled" \in RunStatus \ {"waiting"}
  BY Places
<1>2. QED
  BY Zenon, <1>1, Stopped DEF CancelledMeanwhile

LEMMA SummaryStep == ASSUME Inv, Summary, given' = given PROVE Inv'
<1>1. "completed" \in RunStatus \ {"waiting"}
  BY Places
<1>2. QED
  BY Zenon, <1>1, Stopped DEF Summary

LEMMA CallToolsStep == ASSUME Inv, CallTools, given' = given PROVE Inv'
<1>1. pc = "model" /\ pc' = "tools" /\ plan' = plan /\ phase' = phase /\ react' = react
  BY Zenon DEF CallTools
<1>2. TypeInv'
  <2>1. "tools" \in Label
    BY Places
  <2>2. QED
    BY Zenon, <1>1, <2>1 DEF Inv, TypeInv, CallTools
<1>3. Here = "model" /\ Here' = "tools" /\ Live /\ Asking
  BY <1>1 DEF Here, Live, Asking
<1>4. Here' \notin {"advance", "request"}
  BY <1>3
<1>5. QED
  BY Zenon, <1>1, <1>2, <1>3, <1>4, Stays DEF Inv, LoopInv

LEMMA ToolsDoneStep == ASSUME Inv, ToolsDone, given' = given PROVE Inv'
<1>1. CASE KeepPlan(Then("running", "check"))
  <2>1. "running" \in RunStatus /\ "check" \in Label \ {"emit"}
    BY Places
  <2>2. /\ plan' = plan /\ pc' \in Label /\ then' \in [status : RunStatus, pc : After]
        /\ status' = "running" /\ Here' = "check" /\ news' \subseteq StepIds(plan'.steps)
    BY Zenon, <1>1, <2>1, KeptPlan DEF Inv
  <2>3. TypeInv'
    BY Zenon, <2>1, <2>2 DEF Inv, TypeInv, ToolsDone
  <2>4. ~Asking' /\ Here' \notin {"advance", "request"}
    BY <2>2 DEF Asking
  <2>5. Live
    BY DEF ToolsDone, Live, Here
  <2>6. QED
    BY Zenon, <2>2, <2>3, <2>4, <2>5, Stays DEF ToolsDone
<1>2. CASE KeepPlan(Then("limit_reached", "settle"))
  <2>1. "limit_reached" \in RunStatus \ {"waiting"}
    BY Places
  <2>2. QED
    BY Zenon, <1>2, <2>1, Stopped DEF ToolsDone
<1>3. QED
  BY Zenon, <1>1, <1>2 DEF ToolsDone

LEMMA SettleStep == ASSUME Inv, Settle, given' = given PROVE Inv'
<1>0. "close" \in After
  BY DEF After
<1>1. /\ Follows(plan, plan') /\ pc' \in Label /\ then' \in [status : RunStatus, pc : After]
      /\ status' = status /\ Here' = "close" /\ Coming' = status
      /\ news' \subseteq StepIds(plan'.steps) /\ (status \notin Unsuccessful => plan' = plan)
  BY Zenon, <1>0, SettleFollows DEF Settle
<1>2. TypeInv'
  BY Zenon, <1>1 DEF Follows, Sound, Inv, TypeInv, Settle
<1>3. ~Asking' /\ Here' \notin {"advance", "request"}
  BY <1>1 DEF Asking
<1>4. Live' => Live /\ plan' = plan
  BY <1>1 DEF Live, Here, Coming, Settle, Unsuccessful
<1>5. QED
  BY Zenon, <1>1, <1>2, <1>3, <1>4, Goes DEF Settle

LEMMA CloseStep == ASSUME Inv, Close, given' = given PROVE Inv'
<1>0. PICK l : l = IF status = "waiting" THEN "wait" ELSE "end"
  BY Zenon
<1>a. l \in After /\ l \in {"wait", "end"} /\ (l = "wait" => status = "waiting")
  BY <1>0 DEF After
<1>1. /\ Follows(plan, plan') /\ pc' \in Label /\ then' \in [status : RunStatus, pc : After]
      /\ status' = status /\ Here' = l /\ Coming' = status
      /\ news' \subseteq StepIds(plan'.steps) /\ (status \notin Unsuccessful => plan' = plan)
  BY Zenon, <1>0, <1>a, SettleFollows DEF Close
<1>2. TypeInv'
  BY Zenon, <1>1 DEF Follows, Sound, Inv, TypeInv, Close
<1>3. ~Asking' /\ Here' \notin {"advance", "request"}
  BY <1>1, <1>a DEF Asking
<1>4. Live' => Live /\ plan' = plan
  BY <1>1, <1>a DEF Live, Here, Coming, Close, Unsuccessful
<1>5. QED
  BY Zenon, <1>1, <1>2, <1>3, <1>4, Goes DEF Close

LEMMA InterruptStep == ASSUME Inv, Interrupt, given' = given PROVE Inv'
<1>1. /\ pc' = "close" /\ plan' = plan /\ phase' = phase /\ react' = react /\ steps' = steps
      /\ news' = {} /\ then' = then /\ interrupts' = interrupts + 1 /\ interrupts < MaxInterrupts
      /\ status' = IF status \in {"running", "waiting"} THEN InterruptedStatus ELSE status
  BY Zenon DEF Interrupt
<1>2. status' \in RunStatus /\ status' # "waiting" /\ pc' \in Label
  BY <1>1, Places DEF InterruptedStatus, Inv, TypeInv
<1>3. interrupts' \in 0..MaxInterrupts
  BY <1>1, PlanAssumption DEF Inv, TypeInv
<1>4. TypeInv'
  BY Zenon, <1>1, <1>2, <1>3 DEF Inv, TypeInv, Interrupt
<1>5. ~Asking' /\ ~Live' /\ Here' \notin {"advance", "request"}
  BY <1>1, <1>2 DEF Asking, Live, Here, Coming
<1>6. QED
  BY Zenon, <1>1, <1>4, <1>5, Stays

LEMMA InterruptLateStep == ASSUME Inv, InterruptLate, given' = given PROVE Inv'
<1>1. /\ pc' = "end" /\ plan' = plan /\ phase' = phase /\ react' = react /\ steps' = steps
      /\ news' = {} /\ then' = then /\ interrupts' = interrupts + 1 /\ interrupts < MaxInterrupts
      /\ status' \in {InterruptedStatus, status} /\ outside' = TRUE
  BY Zenon DEF InterruptLate
<1>2. status' \in RunStatus /\ pc' \in Label
  BY <1>1, Places DEF InterruptedStatus, Inv, TypeInv
<1>3. interrupts' \in 0..MaxInterrupts
  BY <1>1, PlanAssumption DEF Inv, TypeInv
<1>4. TypeInv'
  BY Zenon, <1>1, <1>2, <1>3 DEF Inv, TypeInv, InterruptLate
<1>5. ~Asking' /\ ~Live' /\ Here' \notin {"advance", "request"}
  BY <1>1 DEF Asking, Live, Here, Coming
<1>6. QED
  BY Zenon, <1>1, <1>4, <1>5, Stays

LEMMA RequestCancelStep == ASSUME Inv, RequestCancel, given' = given PROVE Inv'
<1>1. /\ plan' = plan /\ phase' = phase /\ react' = react /\ steps' = steps
      /\ news' = news /\ then' = then /\ cancel' = TRUE
      /\ \/ pc = "wait" /\ status' = "cancelled" /\ pc' = "end" /\ outside' = TRUE
         \/ status' = status /\ pc' = pc /\ outside' = outside
  BY Zenon DEF RequestCancel
<1>2. status' \in RunStatus /\ pc' \in Label
  BY <1>1, Places DEF Inv, TypeInv
<1>3. TypeInv'
  BY Zenon, <1>1, <1>2 DEF Inv, TypeInv, RequestCancel
<1>4. CASE pc = "wait" /\ status' = "cancelled" /\ pc' = "end" /\ outside' = TRUE
  <2>1. ~Asking' /\ ~Live' /\ Here' \notin {"advance", "request"}
    BY <1>4 DEF Asking, Live, Here, Coming
  <2>2. QED
    BY Zenon, <1>1, <1>3, <2>1, Stays
<1>5. CASE status' = status /\ pc' = pc /\ outside' = outside
  <2>1. Here' = Here /\ Coming' = Coming
    BY Zenon, <1>1, <1>5 DEF Here, Coming
  <2>2. QED
    BY Zenon, <1>1, <1>3, <2>1, Stays DEF Inv, LoopInv, Asking, Live
<1>6. QED
  BY <1>1, <1>4, <1>5

LEMMA ResumeInputStep == ASSUME Inv, Resume, given' = given PROVE Inv'
<1>1. /\ pc = "wait" /\ pc' = "check" /\ status' = "running" /\ plan' = plan /\ phase' = phase
      /\ react' = react
  BY Zenon DEF Resume
<1>2. status' \in RunStatus /\ pc' \in Label
  BY <1>1, Places
<1>3. TypeInv'
  BY Zenon, <1>1, <1>2 DEF Inv, TypeInv, Resume
<1>4. ~Asking' /\ Live /\ Here' \notin {"advance", "request"}
  BY <1>1 DEF Asking, Live, Here
<1>5. QED
  BY Zenon, <1>1, <1>3, <1>4, Stays

\* A turn is over: no iterations, and a phase with a plan.
LEMMA Turns ==
  ASSUME Inv, TypeInv', given' = given, Sound(plan'), plan' # NoPlan, phase' # "planning", react' = NoReact,
         phase' \in {"updating", "summarizing"} => Supported(plan'),
         Here' \in {"check", "settle"}
  PROVE  Inv'
<1>1. ~Asking' /\ Here' \notin {"advance", "request"}
  BY DEF Asking
<1>2. LoopInv'
  BY Zenon, <1>1 DEF LoopInv
<1>3. NoReact.iteration = 0 /\ 0 <= MaxIterations
  BY PlanAssumption DEF NoReact
<1>4. ReActInv'
  BY Zenon, <1>3 DEF ReActInv
<1>5. Sound(plan)'
  BY Zenon, GivenStays
<1>6. QED
  BY Zenon, <1>2, <1>4, <1>5 DEF Inv

LEMMA FinishedIs ==
  /\ FinishedPhase \in {"summarizing", "executing"}
  /\ Finished \in {Then("running", "check"), Then("completed", "settle")}
BY PlanAssumption DEF FinishedPhase, Finished

LEMMA TurnEnds ==
  ASSUME NEW next \in {Then("running", "check"), Then("completed", "settle")}
  PROVE  \E s \in RunStatus : \E l \in {"check", "settle"} : next = Then(s, l)
BY Places

LEMMA NoActive ==
  ASSUME NEW p, With(p, "waiting") = {}, With(p, "running") = {} PROVE ActiveSteps(p) = {}
BY Zenon DEF With, ActiveSteps, Active

LEMMA WithIn ==
  ASSUME NEW p \in Plan, NEW st \in Active, With(p, st) # {}
  PROVE  Min(With(p, st)) \in ActiveSteps(p)
<1>1. With(p, st) \in SUBSET Nat
  BY Zenon, PlanFields DEF With
<1>2. Min(With(p, st)) \in With(p, st)
  BY Zenon, <1>1, MinIn
<1>3. QED
  BY Zenon, <1>2 DEF With, ActiveSteps

LEMMA AdvanceStepStep == ASSUME Inv, AdvanceStep, given' = given PROVE Inv'
<1> DEFINE go == Then("running", "request")
<1>0. /\ pc = "advance" /\ phase = "executing" /\ plan # NoPlan /\ plan \in Plan /\ Sound(plan)
      /\ UNCHANGED <<suspended, steps, cancel, told, interrupts, outside>>
  BY Zenon DEF AdvanceStep, Inv, TypeInv
<1>a. /\ Here = "advance" /\ Live /\ steps' < MaxSteps /\ status \in RunStatus
  <2>1. Here = "advance"
    BY <1>0 DEF Here
  <2>2. QED
    BY Zenon, <1>0, <2>1 DEF Live, Inv, LoopInv, TypeInv
<1>b. /\ {"running", "failed"} \subseteq RunStatus /\ "request" \in After
      /\ {"request", "close"} \subseteq Label \ {"emit"} /\ FALSE \in BOOLEAN
  BY Places DEF After
<1>1. CASE ~Supported(plan)
  <2>1. KeepPlan(Then("failed", "close")) /\ UNCHANGED <<phase, react>>
    BY Zenon, <1>1 DEF AdvanceStep
  <2>2. /\ plan' = plan /\ pc' \in Label /\ then' \in [status : RunStatus, pc : After]
        /\ status' = "failed" /\ Here' = "close" /\ Coming' = "failed"
        /\ news' \subseteq StepIds(plan'.steps)
    BY Zenon, <1>b, <2>1, KeptPlan DEF Inv
  <2>3. TypeInv'
    BY Zenon, <1>0, <1>b, <2>1, <2>2 DEF Inv, TypeInv
  <2>4. ~Asking' /\ ~Live' /\ Here' \notin {"advance", "request"}
    BY <2>2 DEF Asking, Live
  <2>5. QED
    BY Zenon, <2>1, <2>2, <2>3, <2>4, Stays
<1>2. CASE Supported(plan) /\ With(plan, "waiting") # {}
  <2>1. PICK i : i = Min(With(plan, "waiting"))
    BY Zenon
  <2>2. UpdatePlan(ResumeStep(plan, i), FALSE, go) /\ UNCHANGED <<status, phase, react>>
    BY Zenon, <1>2, <2>1 DEF AdvanceStep
  <2>3. i \in ActiveSteps(plan) /\ "running" \in Active
    BY <1>0, <1>2, <2>1, WithIn, Statuses
  <2>4. PICK q : q = SetStep(plan, i, "running", "running")
    BY Zenon
  <2>5. Follows(plan, q) /\ ActiveSteps(q) = ActiveSteps(plan) /\ i \in With(q, "running")
    BY <1>0, <2>3, <2>4, MoveFollows
  <2>6. /\ plan' = q /\ pc' \in Label /\ then' \in [status : RunStatus, pc : After]
        /\ Here' = "request" /\ news' \subseteq StepIds(plan'.steps)
    BY Zenon, <1>b, <2>2, <2>4, Updated DEF ResumeStep
  <2>7. TypeInv'
    BY Zenon, <1>0, <2>2, <2>5, <2>6 DEF Follows, Sound, Inv, TypeInv
  <2>8. QED
    BY Zenon, <1>2, <1>a, <2>2, <2>5, <2>6, <2>7, Goes
<1>3. CASE Supported(plan) /\ With(plan, "waiting") = {} /\ With(plan, "running") # {}
  <2>1. KeepPlan(go) /\ UNCHANGED <<phase, react>>
    BY Zenon, <1>3 DEF AdvanceStep
  <2>2. /\ plan' = plan /\ pc' \in Label /\ then' \in [status : RunStatus, pc : After]
        /\ status' = "running" /\ Here' = "request" /\ news' \subseteq StepIds(plan'.steps)
    BY Zenon, <1>b, <2>1, KeptPlan DEF Inv
  <2>3. TypeInv'
    BY Zenon, <1>0, <1>b, <2>1, <2>2 DEF Inv, TypeInv
  <2>4. QED
    BY Zenon, <1>3, <1>a, <2>1, <2>2, <2>3, Stays
<1>4. CASE /\ Supported(plan) /\ With(plan, "waiting") \cup With(plan, "running") = {}
           /\ Ready(plan) # {}
  <2>1. PICK i : i = Min(Ready(plan))
    BY Zenon
  <2>2. UpdatePlan(StartStep(plan, i), FALSE, go) /\ UNCHANGED <<status, phase, react>>
    BY Zenon, <1>4, <2>1 DEF AdvanceStep
  <2>3. i \in Ready(plan)
    <3>1. Ready(plan) \in SUBSET Nat
      BY Zenon, <1>0, PlanFields DEF Ready, With
    <3>2. QED
      BY Zenon, <1>4, <2>1, <3>1, MinIn
  <2>4. ActiveSteps(plan) = {} /\ react = NoReact
    <3>1. With(plan, "waiting") = {} /\ With(plan, "running") = {}
      BY Zenon, <1>4
    <3>2. ActiveSteps(plan) = {}
      BY Zenon, <3>1, NoActive
    <3>3. QED
      BY Zenon, <1>a, <3>2 DEF Inv, ReActInv
  <2>5. PICK q : q = StartStep(plan, i)
    BY Zenon
  <2>6. Sound(q) /\ q # NoPlan /\ Same(plan, q) /\ ActiveSteps(q) = {i} /\ i \in With(q, "running")
    BY <1>0, <2>3, <2>4, <2>5, StartSound
  <2>7. /\ plan' = q /\ pc' \in Label /\ then' \in [status : RunStatus, pc : After]
        /\ Here' = "request" /\ news' \subseteq StepIds(plan'.steps)
    BY Zenon, <1>b, <2>2, <2>5, Updated
  <2>8. TypeInv'
    BY Zenon, <1>0, <2>2, <2>6, <2>7 DEF Sound, Inv, TypeInv
  <2>9. Supported(q)
    BY <1>0, <1>4, <2>6, SameGraph DEF Sound
  <2>10. LoopInv'
    BY Zenon, <1>a, <2>6, <2>7, <2>9 DEF LoopInv
  <2>11. ReActInv'
    BY Zenon, <1>0, <2>2, <2>4, <2>6, <2>7 DEF Inv, ReActInv
  <2>12. Sound(plan)'
    BY Zenon, <2>6, <2>7, GivenStays
  <2>13. QED
    BY Zenon, <1>0, <2>2, <2>6, <2>7, <2>8, <2>10, <2>11, <2>12 DEF Inv
<1>5. CASE /\ Supported(plan) /\ With(plan, "waiting") = {} /\ With(plan, "running") = {}
           /\ Ready(plan) = {}
  <2>1. IF plan.status = "completed"
        THEN KeepPlan(Finished) /\ phase' = FinishedPhase /\ UNCHANGED react
        ELSE FailExecution("failed") /\ UNCHANGED <<phase, react>>
    BY Zenon, <1>5 DEF AdvanceStep
  <2>2. CASE plan.status = "completed"
    <3>1. PICK s \in RunStatus : \E l \in {"check", "settle"} : Finished = Then(s, l)
      BY Zenon, FinishedIs, TurnEnds
    <3>a. PICK l \in {"check", "settle"} : Finished = Then(s, l)
      BY Zenon, <3>1
    <3>2. KeepPlan(Then(s, l)) /\ phase' = FinishedPhase /\ react' = react
      BY Zenon, <2>1, <2>2, <3>a
    <3>3. l \in Label \ {"emit"}
      BY Places
    <3>4. /\ plan' = plan /\ pc' \in Label /\ then' \in [status : RunStatus, pc : After]
          /\ status' = s /\ Here' = l /\ news' \subseteq StepIds(plan'.steps)
      BY Zenon, <3>2, <3>3, KeptPlan DEF Inv
    <3>5. phase' \in Phase /\ phase' # "planning"
      BY <3>2, FinishedIs DEF Phase
    <3>6. TypeInv'
      BY Zenon, <1>0, <3>2, <3>4, <3>5 DEF Inv, TypeInv
    <3>7. react = NoReact
      BY Zenon, <1>5, <1>a, NoActive DEF Inv, ReActInv
    <3>8. QED
      BY Zenon, <1>0, <1>5, <3>2, <3>4, <3>5, <3>6, <3>7, Turns
  <2>3. CASE plan.status # "completed"
    BY Zenon, <1>0, <2>1, <2>3, Fails
  <2>4. QED
    BY <2>2, <2>3
<1>6. QED
  BY Zenon, <1>1, <1>2, <1>3, <1>4, <1>5

LEMMA RequestModelStep == ASSUME Inv, RequestModel, given' = given PROVE Inv'
<1>0. /\ pc = "request" /\ UNCHANGED <<phase, suspended, cancel, told, interrupts, outside>>
      /\ plan \in Plan /\ Sound(plan) /\ status \in RunStatus /\ react \in ReAct
  BY Zenon DEF RequestModel, Inv, TypeInv
<1>1. CASE IterationsUsedUp
  BY Zenon, <1>0, <1>1, Fails DEF RequestModel
<1>2. CASE ~IterationsUsedUp
  <2>1. /\ KeepPlan(Then(status, "model")) /\ steps' = steps + 1 /\ react' = Iterated
    BY Zenon, <1>2 DEF RequestModel
  <2>2. "model" \in Label \ {"emit"} /\ Here = "request" /\ Live /\ Asking
    BY <1>0, Places DEF Here, Live, Asking
  <2>3. /\ plan' = plan /\ pc' \in Label /\ then' \in [status : RunStatus, pc : After]
        /\ status' = status /\ Here' = "model" /\ news' \subseteq StepIds(plan'.steps)
    BY Zenon, <1>0, <2>1, <2>2, KeptPlan DEF Inv
  <2>4. steps < MaxSteps /\ Supported(plan)
        /\ (phase = "executing" => With(plan, "running") # {})
    BY Zenon, <2>2 DEF Inv, LoopInv
  <2>5. steps' \in 0..MaxSteps
    BY <2>1, <2>4, PlanAssumption DEF Inv, TypeInv
  <2>6. Here' \notin {"advance", "request"}
    BY <2>3
  <2>7. CASE ReActStep = {}
    <3>1. react' = react
      BY Zenon, <2>1, <2>7 DEF Iterated
    <3>2. TypeInv'
      BY Zenon, <1>0, <2>3, <2>5, <3>1 DEF Inv, TypeInv
    <3>3. QED
      BY Zenon, <1>0, <2>2, <2>3, <2>4, <2>6, <3>1, <3>2, Stays
  <2>8. CASE ReActStep # {}
    <3>1. PICK m : m = Min(ReActStep)
      BY Zenon
    <3>2. m \in ActiveSteps(plan) /\ m \in DOMAIN plan.steps /\ phase = "executing"
      <4>1. ReActStep \in SUBSET Nat
        BY Zenon, <1>0, PlanFields DEF ReActStep, With
      <4>2. m \in ReActStep
        BY Zenon, <2>8, <3>1, <4>1, MinIn
      <4>3. QED
        BY Zenon, <4>2, Statuses DEF ReActStep, With, ActiveSteps
    <3>3. PICK id : id = plan.steps[m].id
      BY Zenon
    <3>4. id \in StepId
      BY <1>0, <3>2, <3>3, PlanFields
    <3>5. react' = [step |-> id, iteration |-> IF react.step = id THEN react.iteration + 1 ELSE 1]
      BY Zenon, <2>1, <2>8, <3>1, <3>3 DEF Iterated
    <3>6. react' \in ReAct /\ react'.step = id /\ react'.iteration <= MaxIterations
      <4>1. react.iteration \in Nat /\ MaxIterations \in Nat /\ ~(react.iteration >= MaxIterations)
        BY <1>0, <1>2, <2>8, PlanAssumption DEF ReAct, IterationsUsedUp
      <4>2. PICK n : n = IF react.step = id THEN react.iteration + 1 ELSE 1
        BY Zenon
      <4>3. n \in Nat /\ n <= MaxIterations
        BY <4>1, <4>2
      <4>4. react' = [step |-> id, iteration |-> n]
        BY Zenon, <3>5, <4>2
      <4>5. QED
        BY <3>4, <4>3, <4>4 DEF ReAct
    <3>7. TypeInv'
      BY Zenon, <1>0, <2>3, <2>5, <3>6 DEF Inv, TypeInv
    <3>8. LoopInv'
      BY Zenon, <1>0, <2>3, <2>4, <2>6 DEF Inv, LoopInv
    <3>9. ReActInv'
      <4>1. Fit => \A i \in ActiveSteps(plan) : i = m
        BY Zenon, <1>0, <3>2 DEF Sound, OneActive, ActiveSteps
      <4>2. Fit' => \A i \in ActiveSteps(plan) : plan.steps[i].id = id
        BY Zenon, <3>3, <4>1, GivenStays
      <4>3. QED
        BY Zenon, <1>0, <2>3, <3>2, <3>6, <4>2 DEF ReActInv
    <3>10. Sound(plan)'
      BY Zenon, <1>0, <2>3, GivenStays
    <3>11. QED
      BY Zenon, <1>0, <2>3, <3>7, <3>8, <3>9, <3>10 DEF Inv
  <2>9. QED
    BY <2>7, <2>8
<1>3. QED
  BY <1>1, <1>2

LEMMA GeneratePlanStep == ASSUME Inv, NEW drafts \in Proposal, GeneratePlan(drafts), given' = given PROVE Inv'
<1>0. /\ phase = "planning" /\ plan = NoPlan /\ status \in RunStatus
      /\ UNCHANGED <<react, suspended, steps, cancel, told, interrupts, outside>>
  BY Zenon DEF GeneratePlan, Inv, TypeInv
<1>1. PICK q : q = [steps |-> Pending(drafts), status |-> "created"]
  BY Zenon
<1>2. CASE ValidGraph(q.steps) /\ Supported(q)
  <2>1. /\ UpdatePlan(q, TRUE, Then("running", "check")) /\ phase' = "executing"
        /\ status' = status
    BY Zenon, <1>1, <1>2 DEF GeneratePlan
  <2>2. Sound(q) /\ q # NoPlan
    BY <1>1, <1>2, PendingSound
  <2>3. "running" \in RunStatus /\ "check" \in After /\ TRUE \in BOOLEAN /\ "executing" \in Phase
    BY Places DEF After, Phase
  <2>4. /\ plan' = q /\ pc' \in Label /\ then' \in [status : RunStatus, pc : After]
        /\ Here' = "check" /\ news' \subseteq StepIds(plan'.steps)
    BY Zenon, <2>1, <2>3, Updated
  <2>5. TypeInv'
    BY Zenon, <1>0, <2>1, <2>2, <2>3, <2>4 DEF Sound, Inv, TypeInv
  <2>6. react = NoReact
    BY Zenon, <1>0 DEF Inv, ReActInv
  <2>7. phase' # "planning" /\ Here' \in {"check", "settle"}
    BY <2>1, <2>4
  <2>8. QED
    BY Zenon, <1>0, <1>2, <2>2, <2>4, <2>5, <2>6, <2>7, Turns
<1>3. CASE ~(ValidGraph(q.steps) /\ Supported(q))
  <2>1. FailExecution("failed") /\ UNCHANGED phase
    BY Zenon, <1>1, <1>3 DEF GeneratePlan
  <2>2. QED
    BY Zenon, <1>0, <2>1, Fails
<1>4. QED
  BY <1>2, <1>3

LEMMA StepResultStep == ASSUME Inv, StepResult, given' = given PROVE Inv'
<1>0. /\ pc = "model" /\ phase = "executing" /\ plan # NoPlan /\ Sound(plan) /\ plan \in Plan
      /\ react' = NoReact
      /\ UNCHANGED <<status, suspended, steps, cancel, told, interrupts, outside>>
  BY Zenon DEF StepResult, Inv, TypeInv
<1>1. Asking
  BY <1>0 DEF Asking, Here
<1>2. Supported(plan) /\ With(plan, "running") # {}
  BY Zenon, <1>0, <1>1 DEF Inv, LoopInv
<1>3. PICK i : i = Min(With(plan, "running"))
  BY Zenon
<1>4. i \in ActiveSteps(plan)
  BY <1>0, <1>2, <1>3, WithIn, Statuses
<1>5. PICK q : q = CompleteStep(plan, i)
  BY Zenon
<1>6. Follows(plan, q)
  BY <1>0, <1>4, <1>5, CompleteFollows
<1>7. PICK b : b = (~ReplanAfterStep /\ q.status = "completed")
  BY Zenon
<1>8. /\ UpdatePlan(q, FALSE, IF b THEN Finished ELSE Then("running", "check"))
      /\ phase' = IF ReplanAfterStep THEN "updating" ELSE IF b THEN FinishedPhase ELSE "executing"
  BY Zenon, <1>3, <1>5, <1>7 DEF StepResult
<1>9. phase' \in Phase /\ phase' # "planning"
  BY <1>8, FinishedIs DEF Phase
<1>10. PICK next : next = IF b THEN Finished ELSE Then("running", "check")
  BY Zenon
<1>a. next \in {Then("running", "check"), Then("completed", "settle")}
  BY Zenon, <1>10, FinishedIs
<1>11. PICK s \in RunStatus : \E l \in {"check", "settle"} : next = Then(s, l)
  BY Zenon, <1>a, TurnEnds
<1>b. PICK l \in {"check", "settle"} : next = Then(s, l)
  BY Zenon, <1>11
<1>12. l \in After /\ FALSE \in BOOLEAN
  BY DEF After
<1>13. /\ plan' = q /\ pc' \in Label /\ then' \in [status : RunStatus, pc : After]
       /\ Here' = l /\ news' \subseteq StepIds(plan'.steps)
  BY Zenon, <1>8, <1>10, <1>b, <1>12, Updated
<1>14. NoReact \in ReAct
  BY DEF NoReact, ReAct
<1>15. TypeInv'
  BY Zenon, <1>0, <1>6, <1>9, <1>13, <1>14 DEF Follows, Sound, Inv, TypeInv
<1>16. QED
  BY Zenon, <1>0, <1>2, <1>6, <1>9, <1>13, <1>15, Turns DEF Follows

LEMMA ReviewStep == ASSUME Inv, NEW drafts \in Proposal, Review(drafts), given' = given PROVE Inv'
<1>0. /\ phase = "updating" /\ plan # NoPlan /\ Sound(plan) /\ Supported(plan) /\ react = NoReact
      /\ UNCHANGED <<react, suspended, steps, cancel, told, interrupts, outside>>
      /\ status \in RunStatus
  <2>1. phase = "updating" /\ "updating" # "executing" /\ "updating" # "planning"
    BY Zenon DEF Review
  <2>2. QED
    BY Zenon, <2>1 DEF Review, Inv, TypeInv, LoopInv, ReActInv
<1>1. PICK f : f = Pending(drafts)
  BY Zenon
<1>2. PICK m : m = Merge(plan, f)
  BY Zenon
<1>3. PICK q : q = [steps |-> m.steps, status |-> m.status]
  BY Zenon
\* Where the review of p leads.
<1> DEFINE next(p) == IF p.status = "completed" THEN Finished ELSE Then("running", "check")
<1> DEFINE following(p) == IF p.status = "completed" THEN FinishedPhase ELSE "executing"
<1>4. ASSUME NEW p
      PROVE  /\ following(p) \in Phase /\ following(p) # "planning"
             /\ \E s \in RunStatus : \E l \in {"check", "settle"} : next(p) = Then(s, l)
  <2>1. following(p) \in Phase /\ following(p) # "planning"
    BY FinishedIs DEF Phase
  <2>2. next(p) \in {Then("running", "check"), Then("completed", "settle")}
    BY Zenon, FinishedIs
  <2>3. QED
    BY Zenon, <2>1, <2>2, TurnEnds
<1>5. CASE f = StepsIn(plan, {"pending"})
  <2>1. KeepPlan(next(plan)) /\ phase' = following(plan)
    BY Zenon, <1>1, <1>5 DEF Review
  <2>2. PICK s \in RunStatus : \E l \in {"check", "settle"} : next(plan) = Then(s, l)
    BY Zenon, <1>4
  <2>3. PICK l \in {"check", "settle"} : next(plan) = Then(s, l)
    BY Zenon, <2>2
  <2>4. l \in Label \ {"emit"}
    BY Places
  <2>5. /\ plan' = plan /\ pc' \in Label /\ then' \in [status : RunStatus, pc : After]
        /\ status' = s /\ Here' = l /\ news' \subseteq StepIds(plan'.steps)
    BY Zenon, <2>1, <2>3, <2>4, KeptPlan DEF Inv
  <2>6. TypeInv'
    BY Zenon, <1>0, <1>4, <2>1, <2>5 DEF Inv, TypeInv
  <2>7. QED
    BY Zenon, <1>0, <1>4, <2>1, <2>5, <2>6, Turns
<1>6. CASE f # StepsIn(plan, {"pending"}) /\ m.valid /\ Supported(q)
  <2>1. UpdatePlan(q, TRUE, next(q)) /\ phase' = following(q) /\ status' = status
    BY Zenon, <1>1, <1>2, <1>3, <1>6 DEF Review
  <2>2. PICK s \in RunStatus : \E l \in {"check", "settle"} : next(q) = Then(s, l)
    BY Zenon, <1>4
  <2>3. PICK l \in {"check", "settle"} : next(q) = Then(s, l)
    BY Zenon, <2>2
  <2>4. l \in After /\ TRUE \in BOOLEAN
    BY DEF After
  <2>5. /\ plan' = q /\ pc' \in Label /\ then' \in [status : RunStatus, pc : After]
        /\ Here' = l /\ news' \subseteq StepIds(plan'.steps)
    BY Zenon, <2>1, <2>3, <2>4, Updated
  <2>6. Sound(q) /\ q # NoPlan
    BY <1>0, <1>1, <1>2, <1>3, <1>6, MergeSound
  <2>7. TypeInv'
    BY Zenon, <1>0, <1>4, <2>1, <2>5, <2>6 DEF Sound, Inv, TypeInv
  <2>8. QED
    BY Zenon, <1>0, <1>4, <1>6, <2>1, <2>5, <2>6, <2>7, Turns
<1>7. CASE f # StepsIn(plan, {"pending"}) /\ ~(m.valid /\ Supported(q))
  <2>1. FailExecution("failed") /\ UNCHANGED phase
    BY Zenon, <1>1, <1>2, <1>3, <1>7 DEF Review
  <2>2. QED
    BY Zenon, <1>0, <2>1, Fails
<1>8. QED
  BY Zenon, <1>5, <1>6, <1>7

LEMMA ToolsWaitStep == ASSUME Inv, ToolsWait, given' = given PROVE Inv'
<1>0. /\ pc = "tools" /\ suspended' = TRUE /\ Sound(plan) /\ plan \in Plan
      /\ UNCHANGED <<phase, react, steps, cancel, told, interrupts, outside>>
  BY Zenon DEF ToolsWait, Inv, TypeInv
<1>1. /\ Here = "tools" /\ Live /\ Asking /\ "waiting" \in RunStatus /\ "settle" \in After
      /\ {"close", "settle"} \subseteq Label \ {"emit"} /\ FALSE \in BOOLEAN
  BY <1>0, Places DEF Here, Live, Asking, After
\* The plan is kept.
<1>2. ASSUME NEW l \in {"close", "settle"}, KeepPlan(Then("waiting", l)) PROVE Inv'
  <2>1. /\ plan' = plan /\ pc' \in Label /\ then' \in [status : RunStatus, pc : After]
        /\ status' = "waiting" /\ Here' = l /\ news' \subseteq StepIds(plan'.steps)
    BY Zenon, <1>1, <1>2, KeptPlan DEF Inv
  <2>2. TypeInv'
    BY Zenon, <1>0, <1>1, <2>1 DEF Inv, TypeInv
  <2>3. ~Asking' /\ Here' \notin {"advance", "request"}
    BY <2>1 DEF Asking
  <2>4. QED
    BY Zenon, <1>0, <1>1, <2>1, <2>2, <2>3, Stays
\* It is written.
<1>3. ASSUME NEW q, Follows(plan, q), UpdatePlan(q, FALSE, Then("waiting", "settle")),
             status' = "waiting", react = NoReact \/ ActiveSteps(q) = ActiveSteps(plan)
      PROVE  Inv'
  <2>1. /\ plan' = q /\ pc' \in Label /\ then' \in [status : RunStatus, pc : After]
        /\ Here' = "settle" /\ news' \subseteq StepIds(plan'.steps)
    BY Zenon, <1>1, <1>3, Updated
  <2>2. TypeInv'
    BY Zenon, <1>0, <1>1, <1>3, <2>1 DEF Follows, Sound, Inv, TypeInv
  <2>3. ~Asking' /\ Here' \notin {"advance", "request"}
    BY <2>1 DEF Asking
  <2>4. QED
    BY Zenon, <1>0, <1>1, <1>3, <2>1, <2>2, <2>3, Goes
<1>4. CASE plan = NoPlan
  BY Zenon, <1>2, <1>4 DEF ToolsWait
<1>5. CASE plan # NoPlan /\ With(plan, "running") # {}
  <2>1. PICK i : i = Min(With(plan, "running"))
    BY Zenon
  <2>2. /\ UpdatePlan(WaitStep(plan, i), FALSE, Then("waiting", "settle")) /\ status' = "waiting"
    BY Zenon, <1>5, <2>1 DEF ToolsWait
  <2>3. i \in ActiveSteps(plan) /\ "waiting" \in Active
    BY <1>0, <1>5, <2>1, WithIn, Statuses
  <2>4. PICK q : q = SetStep(plan, i, "waiting", "waiting")
    BY Zenon
  <2>5. Follows(plan, q) /\ ActiveSteps(q) = ActiveSteps(plan)
    BY <1>0, <1>5, <2>3, <2>4, MoveFollows
  <2>6. QED
    BY Zenon, <1>3, <2>2, <2>4, <2>5 DEF WaitStep
<1>6. CASE plan # NoPlan /\ With(plan, "running") = {} /\ plan.status # "failed"
  <2>1. /\ UpdatePlan(EndPlan(plan, "failed"), FALSE, Then("waiting", "settle"))
        /\ status' = "waiting"
    BY Zenon, <1>6 DEF ToolsWait
  <2>2. PICK q : q = EndPlan(plan, "failed")
    BY Zenon
  <2>3. Follows(plan, q)
    BY <1>0, <1>6, <2>2, EndFollows
  <2>4. react = NoReact
    BY Zenon, <1>1, <1>6 DEF Inv, LoopInv, ReActInv
  <2>5. QED
    BY Zenon, <1>3, <2>1, <2>2, <2>3, <2>4
<1>7. CASE plan # NoPlan /\ With(plan, "running") = {} /\ plan.status = "failed"
  <2>1. KeepPlan(Then("waiting", "settle"))
    BY Zenon, <1>7 DEF ToolsWait
  <2>2. QED
    BY Zenon, <1>2, <2>1
<1>8. QED
  BY Zenon, <1>4, <1>5, <1>6, <1>7

-----------------------------------------------------------------------------
\* Every behaviour.

\* At most one step of a consistent plan is active.
LEMMA OneActiveIs == ASSUME NEW p \in Plan, Ordered(p) PROVE OneActive(p.steps) /\ InOrder(p.steps)
<1>1. InOrder(p.steps)
  BY Zenon DEF Ordered, InOrder
<1>2. SUFFICES ASSUME NEW i \in ActiveSteps(p), NEW j \in ActiveSteps(p), i # j PROVE FALSE
  BY Zenon, <1>1 DEF OneActive, ActiveSteps
<1>3. IsFiniteSet(ActiveSteps(p)) /\ Cardinality(ActiveSteps(p)) <= 1
  <2>1. IsFiniteSet(DOMAIN p.steps)
    <3>1. DOMAIN p.steps = 1..Len(p.steps) /\ Len(p.steps) \in Nat
      BY Zenon, PlanFields
    <3>2. Len(p.steps) \in Int /\ 1 \in Int
      BY <3>1
    <3>3. QED
      BY Zenon, <3>1, <3>2, FS_Interval
  <2>2. ActiveSteps(p) \subseteq DOMAIN p.steps
    BY Zenon DEF ActiveSteps
  <2>3. IsFiniteSet(ActiveSteps(p))
    BY <2>1, <2>2, FS_Subset
  <2>4. QED
    BY Zenon, <2>3 DEF Ordered, ActiveSteps
<1>4. Cardinality({i, j}) = 2
  <2>1. Cardinality({i}) = 1 /\ IsFiniteSet({i})
    BY Zenon, FS_Singleton
  <2>2. Cardinality({i} \cup {j}) = Cardinality({i}) + 1
    BY Zenon, <1>2, <2>1, FS_AddElement
  <2>3. {i} \cup {j} = {i, j}
    OBVIOUS
  <2>4. QED
    BY <2>1, <2>2, <2>3
<1>5. {i, j} \subseteq ActiveSteps(p)
  BY Zenon, <1>2
<1>6. Cardinality({i, j}) <= Cardinality(ActiveSteps(p))
  BY <1>3, <1>5, FS_Subset
<1>7. Cardinality(ActiveSteps(p)) \in Nat
  BY <1>3, FS_CardinalityType
<1>8. QED
  BY <1>3, <1>4, <1>6, <1>7

\* The plan a Run starts with.
LEMMA InitPlan ==
  ASSUME Init
  PROVE  /\ Sound(plan) /\ phase \in {"planning", "executing"} /\ plan = given
         /\ phase = "planning" <=> plan = NoPlan
<1>1. /\ plan = given /\ phase = IF plan = NoPlan THEN "planning" ELSE "executing"
      /\ plan \in Supplied \/ plan = NoPlan
  BY Zenon DEF Init
<1>2. plan \in Plan /\ (plan # NoPlan => ValidGraph(plan.steps))
  BY <1>1, PlanAssumption, NoPlanIs DEF Plan
<1>3. Fit => OneActive(plan.steps) /\ InOrder(plan.steps)
  BY Zenon, <1>1, <1>2, OneActiveIs DEF Fit, Consistent
<1>4. phase \in {"planning", "executing"} /\ (phase = "planning" <=> plan = NoPlan)
  BY <1>1
<1>5. QED
  BY Zenon, <1>1, <1>2, <1>3, <1>4 DEF Sound

LEMMA InitInv == ASSUME Init PROVE Inv
<1>1. /\ Sound(plan) /\ plan \in Plan /\ phase \in {"planning", "executing"}
      /\ phase = "planning" <=> plan = NoPlan
  BY Zenon, InitPlan DEF Sound
<1>2. /\ status = "running" /\ cancel = FALSE /\ pc = "check" /\ react = NoReact
      /\ suspended = FALSE /\ steps = 0 /\ news = {} /\ then = Then("running", "check")
      /\ told = Announced([id \in StepId |-> "none"], plan, StepIds(plan.steps))
      /\ interrupts = 0 /\ outside = FALSE
  BY Zenon DEF Init
<1>3. told \in [StepId -> StepStatus \cup {"none"}]
  <2>1. \A id \in StepIds(plan.steps) : StatusIn(plan, id) \in StepStatus
    BY Zenon, <1>1, StatusInIs
  <2>2. told = [id \in StepId |-> IF id \in StepIds(plan.steps) THEN StatusIn(plan, id)
                                  ELSE [i \in StepId |-> "none"][id]]
    BY Zenon, <1>2 DEF Announced
  <2>3. QED
    BY Zenon, <2>1, <2>2
<1>4. Here = "check" /\ ~Asking
  BY <1>2 DEF Here, Asking
<1>5. TypeInv
  <2>1. /\ status \in RunStatus /\ phase \in Phase /\ react \in ReAct /\ pc \in Label
        /\ then \in [status : RunStatus, pc : After]
    BY <1>1, <1>2, Places DEF Phase, ReAct, NoReact, Then, After
  <2>2. steps \in 0..MaxSteps /\ interrupts \in 0..MaxInterrupts
    BY <1>2, PlanAssumption
  <2>3. QED
    BY Zenon, <1>1, <1>2, <1>3, <2>1, <2>2 DEF TypeInv
<1>6. LoopInv
  BY <1>1, <1>4 DEF LoopInv
<1>7. ReActInv
  BY <1>2, PlanAssumption DEF ReActInv, NoReact
<1>8. QED
  BY Zenon, <1>1, <1>5, <1>6, <1>7 DEF Inv

LEMMA StutterInv == ASSUME Inv, UNCHANGED vars PROVE Inv'
<1>1. TypeInv' /\ Here' = Here /\ Coming' = Coming
  BY Zenon DEF vars, Inv, TypeInv, Here, Coming
<1>2. plan' = plan /\ phase' = phase /\ react' = react /\ steps' = steps
      /\ given' = given
  BY Zenon DEF vars
<1>3. QED
  BY Zenon, <1>1, <1>2, Stays DEF Inv, LoopInv, Asking, Live

LEMMA NextInv == ASSUME Inv, [Next]_vars PROVE Inv'
BY Zenon, StutterInv, LoopTopStep, AdvancePhaseStep, AdvanceStepStep, EmitStep,
   RequestModelStep,
   ResumeBatchStep, AnswerFailsStep, CancelledMeanwhileStep, CallToolsStep, MalformedStep,
   StepResultStep, SummaryStep, GeneratePlanStep, ReviewStep, ToolsDoneStep, ToolsWaitStep,
   SettleStep, CloseStep, InterruptStep, InterruptLateStep, RequestCancelStep, ResumeInputStep
   DEF Next, Advance

\* In every behaviour of PlanningStrategy the plan is sound, the phases and the place in
\* the loop of AgentRuntime fit it, and the state of ReAct belongs to the active step.
THEOREM Inductive == Spec => []Inv
<1>1. Init => Inv
  BY InitInv
<1>2. Inv /\ [Next]_vars => Inv'
  BY NextInv
<1>3. QED
  BY <1>1, <1>2, PTL DEF Spec

LEMMA ImpliesPlanInv == ASSUME Inv PROVE PlanInv
<1>1. plan \in Plan /\ Sound(plan)
  BY Zenon DEF Inv, TypeInv
<1>2. TypeOK
  <2>1. plan.steps \in Seq(PlanStep) /\ plan.status \in PlanStatus /\ StepIds(plan.steps) \subseteq StepId
    BY Zenon, <1>1, PlanFields
  <2>2. react.iteration \in Nat /\ news \subseteq StepId
    BY <2>1 DEF Inv, TypeInv, ReAct
  <2>3. QED
    BY <2>1, <2>2, Places DEF Inv, TypeInv, TypeOK, RunStatus, Phase
<1>3. WellFormed
  <2>1. pc = "model" => Asking
    BY DEF Asking, Here
  <2>2. QED
    BY Zenon, <1>1, <2>1 DEF Inv, LoopInv, Sound, WellFormed
<1>4. StepsInOrder
  <2>1. SUFFICES ASSUME Fit PROVE Ordered(plan)
    BY Zenon DEF StepsInOrder, Fit
  <2>2. Cardinality(ActiveSteps(plan)) <= 1
    <3>1. CASE ActiveSteps(plan) = {}
      BY <3>1, FS_EmptySet
    <3>2. CASE ActiveSteps(plan) # {}
      <4>1. PICK x : x \in ActiveSteps(plan)
        BY Zenon, <3>2
      <4>2. ActiveSteps(plan) = {x}
        BY Zenon, <1>1, <2>1, <4>1 DEF ActiveSteps, Sound, OneActive
      <4>3. QED
        BY <4>2, FS_Singleton
    <3>3. QED
      BY <3>1, <3>2
  <2>3. InOrder(plan.steps)
    BY Zenon, <1>1, <2>1 DEF Sound
  <2>4. QED
    BY Zenon, <2>2, <2>3 DEF Ordered, InOrder, ActiveSteps
<1>5. OwnIterations
  <2>1. \A i \in ReActStep : i \in ActiveSteps(plan)
    BY Zenon, Statuses DEF ReActStep, With, ActiveSteps
  <2>2. QED
    BY Zenon, <2>1 DEF Inv, ReActInv, OwnIterations, Fit
<1>6. QED
  BY Zenon, <1>2, <1>3, <1>4, <1>5 DEF PlanInv

\* What models/plan.py and PlanningStrategy keep true of a plan, whatever the model
\* proposes in its reviews and whenever the Run fails, waits, is cancelled or is
\* interrupted: the plan stays a graph without cycles, its steps run one at a time
\* after their dependencies, a ReAct step counts its own iterations up to the limit,
\* and no request exceeds max_steps.
THEOREM PlanStaysInOrder == Spec => []PlanInv
<1>1. Inv => PlanInv
  BY ImpliesPlanInv
<1>2. QED
  BY <1>1, Inductive, PTL

-----------------------------------------------------------------------------
\* What a step writes, and what it announces.

\* The plan is kept, or written with the statuses that changed, or with all of them.
Written ==
    /\ UNCHANGED <<told, interrupts>>
    /\ \/ plan' = plan /\ news' = news /\ (pc = "emit" => pc' = "emit")
       \/ /\ pc # "emit" /\ pc' = "emit" /\ Sound(plan') /\ Keeps(plan, plan')
          /\ Same(plan, plan') /\ news' = Changed(plan, plan')
       \/ /\ pc' = "emit" /\ Sound(plan') /\ Keeps(plan, plan') /\ news' = StepIds(plan'.steps)

LEMMA KeepWrites ==
  ASSUME pc # "emit", NEW next, KeepPlan(next), UNCHANGED <<told, interrupts>> PROVE Written
BY Zenon DEF KeepPlan, Written

LEMMA UpdateWrites ==
  ASSUME pc # "emit", NEW q, NEW next, UpdatePlan(q, FALSE, next),
         UNCHANGED <<told, interrupts>>,
         Sound(q), Keeps(plan, q), Same(plan, q)
  PROVE  Written
BY Zenon DEF UpdatePlan, Written

LEMMA ReviseWrites ==
  ASSUME NEW q, NEW next, UpdatePlan(q, TRUE, next), UNCHANGED <<told, interrupts>>,
         Sound(q), Keeps(plan, q)
  PROVE  Written
BY Zenon DEF UpdatePlan, Written

LEMMA FailWrites ==
  ASSUME Inv, pc # "emit", FailExecution("failed"), UNCHANGED <<told, interrupts>> PROVE Written
<1>1. CASE plan # NoPlan /\ plan.status \notin {"failed", "cancelled"}
  <2>1. PICK q : q = EndPlan(plan, "failed")
    BY Zenon
  <2>2. UpdatePlan(q, FALSE, Then("failed", "settle"))
    BY Zenon, <1>1, <2>1 DEF FailExecution
  <2>3. Follows(plan, q)
    BY <1>1, <2>1, EndFollows DEF Inv
  <2>4. QED
    BY Zenon, <2>2, <2>3, UpdateWrites DEF Follows
<1>2. CASE ~(plan # NoPlan /\ plan.status \notin {"failed", "cancelled"})
  BY Zenon, <1>2, KeepWrites DEF FailExecution
<1>3. QED
  BY Zenon, <1>1, <1>2

LEMMA SettleWrites ==
  ASSUME Inv, pc # "emit", NEW l, SettlePlan(l), UNCHANGED <<told, interrupts>> PROVE Written
<1> DEFINE C == /\ plan # NoPlan /\ plan.status \notin {"completed", "failed", "cancelled"}
                /\ status \in Unsuccessful
<1>1. CASE C
  <2>1. PICK o : o = IF status = "cancelled" THEN "cancelled" ELSE "failed"
    BY Zenon
  <2>2. o \in {"failed", "cancelled"}
    BY <2>1
  <2>3. PICK q : q = EndPlan(plan, o)
    BY Zenon
  <2>4. UpdatePlan(q, FALSE, Then(status, l))
    BY Zenon, <1>1, <2>1, <2>3 DEF SettlePlan
  <2>5. Follows(plan, q)
    BY <1>1, <2>2, <2>3, EndFollows DEF Inv
  <2>6. QED
    BY Zenon, <2>4, <2>5, UpdateWrites DEF Follows
<1>2. CASE ~C
  BY Zenon, <1>2, KeepWrites DEF SettlePlan
<1>3. QED
  BY Zenon, <1>1, <1>2

LEMMA AdvanceWrites == ASSUME Inv, AdvanceStep PROVE Written
<1>1. /\ pc # "emit" /\ UNCHANGED <<told, interrupts>> /\ Sound(plan) /\ plan \in Plan /\ plan # NoPlan
  <2>1. pc = "advance" /\ "advance" # "emit" /\ phase = "executing" /\ "executing" # "planning"
    BY Zenon DEF AdvanceStep
  <2>2. QED
    BY Zenon, <2>1 DEF AdvanceStep, Inv, TypeInv
<1>2. CASE Supported(plan) /\ With(plan, "waiting") # {}
  <2>1. PICK i : i = Min(With(plan, "waiting"))
    BY Zenon
  <2>2. i \in ActiveSteps(plan) /\ "running" \in Active
    BY <1>1, <1>2, <2>1, WithIn, Statuses
  <2>3. PICK q : q = SetStep(plan, i, "running", "running")
    BY Zenon
  <2>4. Follows(plan, q)
    BY <1>1, <2>2, <2>3, MoveFollows
  <2>5. UpdatePlan(q, FALSE, Then("running", "request"))
    BY Zenon, <1>2, <2>1, <2>3 DEF AdvanceStep, ResumeStep
  <2>6. QED
    BY Zenon, <1>1, <2>4, <2>5, UpdateWrites DEF Follows
<1>3. CASE /\ Supported(plan) /\ With(plan, "waiting") \cup With(plan, "running") = {}
           /\ Ready(plan) # {}
  <2>1. PICK i : i = Min(Ready(plan))
    BY Zenon
  <2>2. i \in Ready(plan)
    <3>1. Ready(plan) \in SUBSET Nat
      BY Zenon, <1>1, PlanFields DEF Ready, With
    <3>2. QED
      BY <1>3, <2>1, <3>1, MinIn
  <2>3. PICK q : q = StartStep(plan, i)
    BY Zenon
  <2>4. ActiveSteps(plan) = {}
    BY Zenon, <1>3, NoActive
  <2>5. Sound(q) /\ Keeps(plan, q) /\ Same(plan, q)
    BY <1>1, <2>2, <2>3, <2>4, StartSound
  <2>6. With(plan, "waiting") = {} /\ UpdatePlan(q, FALSE, Then("running", "request"))
    BY Zenon, <1>3, <2>1, <2>3 DEF AdvanceStep
  <2>7. QED
    BY Zenon, <1>1, <2>5, <2>6, UpdateWrites
<1>4. CASE ~Supported(plan)
  <2>1. KeepPlan(Then("failed", "close"))
    BY Zenon, <1>4 DEF AdvanceStep
  <2>2. QED
    BY Zenon, <1>1, <2>1, KeepWrites
<1>5. CASE Supported(plan) /\ With(plan, "waiting") = {} /\ With(plan, "running") # {}
  <2>1. KeepPlan(Then("running", "request"))
    BY Zenon, <1>5 DEF AdvanceStep
  <2>2. QED
    BY Zenon, <1>1, <2>1, KeepWrites
<1>6. CASE Supported(plan) /\ With(plan, "waiting") \cup With(plan, "running") = {} /\ Ready(plan) = {}
  <2>1. KeepPlan(Finished) \/ FailExecution("failed")
    BY Zenon, <1>6 DEF AdvanceStep
  <2>2. QED
    BY Zenon, <1>1, <2>1, KeepWrites, FailWrites
<1>7. QED
  BY Zenon, <1>2, <1>3, <1>4, <1>5, <1>6

LEMMA AnswerWrites ==
  ASSUME Inv, StepResult \/ \E drafts \in Proposal : GeneratePlan(drafts) \/ Review(drafts)
  PROVE  Written
<1>1. pc # "emit" /\ UNCHANGED <<told, interrupts>> /\ Sound(plan) /\ plan \in Plan
  <2>1. "model" # "emit"
    OBVIOUS
  <2>2. QED
    BY Zenon, <2>1 DEF StepResult, GeneratePlan, Review, Inv, TypeInv
<1>2. CASE StepResult
  <2>1. PICK i : i = Min(With(plan, "running"))
    BY Zenon
  <2>2. i \in ActiveSteps(plan) /\ plan # NoPlan
    <3>1. pc = "model" /\ phase = "executing"
      BY Zenon, <1>2 DEF StepResult
    <3>2. Asking /\ phase # "planning"
      BY <3>1 DEF Asking, Here
    <3>3. With(plan, "running") # {} /\ plan # NoPlan
      BY Zenon, <3>1, <3>2 DEF Inv, LoopInv
    <3>4. QED
      BY <1>1, <2>1, <3>3, WithIn, Statuses
  <2>3. PICK q : q = CompleteStep(plan, i)
    BY Zenon
  <2>4. Follows(plan, q)
    BY <1>1, <2>2, <2>3, CompleteFollows
  <2>5. \E next : UpdatePlan(q, FALSE, next)
    BY Zenon, <1>2, <2>1, <2>3 DEF StepResult
  <2>6. QED
    BY Zenon, <1>1, <2>4, <2>5, UpdateWrites DEF Follows
<1>3. ASSUME NEW drafts \in Proposal, GeneratePlan(drafts) PROVE Written
  <2>1. PICK q : q = [steps |-> Pending(drafts), status |-> "created"]
    BY Zenon
  <2>2. CASE ValidGraph(q.steps) /\ Supported(q)
    <3>1. UpdatePlan(q, TRUE, Then("running", "check"))
      BY Zenon, <1>3, <2>1, <2>2 DEF GeneratePlan
    <3>2. Sound(q)
      BY <2>1, <2>2, PendingSound
    <3>3. plan = NoPlan
      BY Zenon, <1>3 DEF GeneratePlan, Inv
    <3>4. Keeps(plan, q)
      BY Zenon, <3>3, NoPlanIs DEF Keeps
    <3>5. QED
      BY Zenon, <1>1, <3>1, <3>2, <3>4, ReviseWrites
  <2>3. CASE ~(ValidGraph(q.steps) /\ Supported(q))
    <3>1. FailExecution("failed")
      BY Zenon, <1>3, <2>1, <2>3 DEF GeneratePlan
    <3>2. QED
      BY Zenon, <1>1, <3>1, FailWrites
  <2>4. QED
    BY Zenon, <2>2, <2>3
<1>4. ASSUME NEW drafts \in Proposal, Review(drafts) PROVE Written
  <2>1. PICK f : f = Pending(drafts)
    BY Zenon
  <2>2. PICK m : m = Merge(plan, f)
    BY Zenon
  <2>3. PICK q : q = [steps |-> m.steps, status |-> m.status]
    BY Zenon
  <2>4. plan # NoPlan
    <3>1. phase = "updating" /\ "updating" # "planning"
      BY Zenon, <1>4 DEF Review
    <3>2. QED
      BY Zenon, <3>1 DEF Inv
  <2>5. CASE f = StepsIn(plan, {"pending"})
    <3>1. \E next : KeepPlan(next)
      BY Zenon, <1>4, <2>1, <2>5 DEF Review
    <3>2. QED
      BY Zenon, <1>1, <3>1, KeepWrites
  <2>6. CASE f # StepsIn(plan, {"pending"}) /\ m.valid /\ Supported(q)
    <3>1. \E next : UpdatePlan(q, TRUE, next)
      BY Zenon, <1>4, <2>1, <2>2, <2>3, <2>6 DEF Review
    <3>2. Sound(q) /\ Keeps(plan, q)
      BY <1>1, <2>1, <2>2, <2>3, <2>4, <2>6, MergeSound
    <3>3. QED
      BY Zenon, <1>1, <3>1, <3>2, ReviseWrites
  <2>7. CASE f # StepsIn(plan, {"pending"}) /\ ~(m.valid /\ Supported(q))
    <3>1. FailExecution("failed")
      BY Zenon, <1>4, <2>1, <2>2, <2>3, <2>7 DEF Review
    <3>2. QED
      BY Zenon, <1>1, <3>1, FailWrites
  <2>8. QED
    BY Zenon, <2>5, <2>6, <2>7
<1>5. QED
  BY Zenon, <1>2, <1>3, <1>4

LEMMA WaitWrites == ASSUME Inv, ToolsWait PROVE Written
<1>1. pc # "emit" /\ UNCHANGED <<told, interrupts>> /\ Sound(plan) /\ plan \in Plan
  <2>1. "tools" # "emit"
    OBVIOUS
  <2>2. QED
    BY Zenon, <2>1 DEF ToolsWait, Inv, TypeInv
<1>2. CASE plan # NoPlan /\ With(plan, "running") # {}
  <2>1. PICK i : i = Min(With(plan, "running"))
    BY Zenon
  <2>2. i \in ActiveSteps(plan) /\ "waiting" \in Active
    BY <1>1, <1>2, <2>1, WithIn, Statuses
  <2>3. PICK q : q = SetStep(plan, i, "waiting", "waiting")
    BY Zenon
  <2>4. Follows(plan, q)
    BY <1>1, <1>2, <2>2, <2>3, MoveFollows
  <2>5. UpdatePlan(q, FALSE, Then("waiting", "settle"))
    BY Zenon, <1>2, <2>1, <2>3 DEF ToolsWait, WaitStep
  <2>6. QED
    BY Zenon, <1>1, <2>4, <2>5, UpdateWrites DEF Follows
<1>3. CASE plan # NoPlan /\ With(plan, "running") = {} /\ plan.status # "failed"
  <2>1. PICK q : q = EndPlan(plan, "failed")
    BY Zenon
  <2>2. Follows(plan, q)
    BY <1>1, <1>3, <2>1, EndFollows
  <2>3. UpdatePlan(q, FALSE, Then("waiting", "settle"))
    BY Zenon, <1>3, <2>1 DEF ToolsWait
  <2>4. QED
    BY Zenon, <1>1, <2>2, <2>3, UpdateWrites DEF Follows
<1>4. CASE plan = NoPlan \/ (plan # NoPlan /\ With(plan, "running") = {} /\ plan.status = "failed")
  <2>1. \E next : KeepPlan(next)
    BY Zenon, <1>4 DEF ToolsWait
  <2>2. QED
    BY Zenon, <1>1, <2>1, KeepWrites
<1>5. QED
  BY Zenon, <1>2, <1>3, <1>4

\* Every step but the events and the interruptions.
LEMMA NextWrites ==
  ASSUME Inv, [Next]_vars PROVE Written \/ Emit \/ Interrupt \/ InterruptLate
<1>1. {"check", "advance", "request", "model", "tools", "settle", "close", "wait", "end"}
        \cap {"emit"} = {}
  OBVIOUS
<1>2. ASSUME LoopTop \/ AdvancePhase \/ ResumeBatch \/ CallTools PROVE Written
  BY Zenon, <1>1, <1>2 DEF LoopTop, AdvancePhase, ResumeBatch, CallTools, Written
<1>3. ASSUME RequestCancel \/ Resume \/ UNCHANGED vars PROVE Written
  <2>1. "wait" # "emit"
    OBVIOUS
  <2>2. QED
    BY Zenon, <1>3, <2>1 DEF RequestCancel, Resume, vars, Written
<1>4. ASSUME AnswerFails \/ Malformed PROVE Written
  <2>1. pc # "emit"
    BY <1>4 DEF AnswerFails, Malformed
  <2>2. FailExecution("failed") /\ UNCHANGED <<told, interrupts>>
    BY Zenon, <1>4 DEF AnswerFails, Malformed
  <2>3. QED
    BY Zenon, <2>1, <2>2, FailWrites
<1>5. ASSUME CancelledMeanwhile \/ Summary \/ ToolsDone PROVE Written
  <2>1. pc # "emit"
    BY <1>5 DEF CancelledMeanwhile, Summary, ToolsDone
  <2>2. (\E next : KeepPlan(next)) /\ UNCHANGED <<told, interrupts>>
    BY Zenon, <1>5 DEF CancelledMeanwhile, Summary, ToolsDone
  <2>3. QED
    BY Zenon, <2>1, <2>2, KeepWrites
<1>6. ASSUME RequestModel PROVE Written
  <2>1. pc # "emit"
    BY <1>6 DEF RequestModel
  <2>2. (FailExecution("failed") \/ \E next : KeepPlan(next)) /\ UNCHANGED <<told, interrupts>>
    BY Zenon, <1>6 DEF RequestModel
  <2>3. QED
    BY Zenon, <2>1, <2>2, KeepWrites, FailWrites
<1>7. ASSUME Settle \/ Close PROVE Written
  <2>1. pc # "emit"
    BY <1>7 DEF Settle, Close
  <2>2. (\E l : SettlePlan(l)) /\ UNCHANGED <<told, interrupts>>
    BY Zenon, <1>7 DEF Settle, Close
  <2>3. QED
    BY Zenon, <2>1, <2>2, SettleWrites
<1>8. QED
  BY Zenon, <1>2, <1>3, <1>4, <1>5, <1>6, <1>7, AdvanceWrites, AnswerWrites, WaitWrites
     DEF Next, Advance

\* _merge_replanned_steps, cancel, fail and the updates of single steps never touch
\* a step that has completed, failed, been cancelled or skipped: it stays in the plan
\* as it is, so no review makes a step run twice.
THEOREM HistoryStays == Spec => HistoryKept
<1>1. ASSUME Inv, [Next]_vars PROVE Keeps(plan, plan')
  <2>1. plan' = plan \/ Keeps(plan, plan')
    BY Zenon, <1>1, NextWrites DEF Written, Emit, Interrupt, InterruptLate
  <2>2. QED
    BY Zenon, <2>1 DEF Keeps
<1>2. Inv /\ [Next]_vars =>
         [ \A i \in DOMAIN plan.steps : plan.steps[i].status \in Historical
             => \E j \in DOMAIN plan'.steps : plan'.steps[j] = plan.steps[i] ]_vars
  BY Zenon, <1>1 DEF Keeps
<1>3. QED
  BY <1>2, Inductive, PTL DEF Spec, HistoryKept

-----------------------------------------------------------------------------
\* The events.

LEMMA InitTold == ASSUME Init PROVE ToldInv
<1>1. Sound(plan) /\ plan \in Plan
  BY Zenon, InitPlan DEF Sound
<1>2. ASSUME NEW i \in DOMAIN plan.steps PROVE told[plan.steps[i].id] = plan.steps[i].status
  <2>1. ValidGraph(plan.steps)
    BY Zenon, <1>1, <1>2, NoPlanIs DEF Sound
  <2>2. StatusIn(plan, plan.steps[i].id) = plan.steps[i].status
    BY Zenon, <1>1, <2>1, StatusInIs
  <2>3. plan.steps[i].id \in StepIds(plan.steps) /\ plan.steps[i].id \in StepId
    BY Zenon, <1>1, PlanFields DEF StepIds
  <2>4. told = Announced([id \in StepId |-> "none"], plan, StepIds(plan.steps))
    BY Zenon DEF Init
  <2>5. QED
    BY Zenon, <2>2, <2>3, <2>4 DEF Announced
<1>3. QED
  BY Zenon, <1>2 DEF ToldInv

LEMMA EmitTells == ASSUME Inv, ToldInv, Emit PROVE ToldInv'
<1>1. /\ plan' = plan /\ interrupts' = interrupts /\ Sound(plan) /\ plan \in Plan
      /\ told' = [id \in StepId |-> IF id \in news THEN StatusIn(plan, id) ELSE told[id]]
  BY Zenon DEF Emit, Announced, Inv, TypeInv
<1>2. ASSUME interrupts = 0, NEW i \in DOMAIN plan.steps
      PROVE  told'[plan.steps[i].id] = plan.steps[i].status
  <2>1. ValidGraph(plan.steps) /\ plan.steps[i].id \in StepId
    BY Zenon, <1>1, <1>2, NoPlanIs, PlanFields DEF Sound
  <2>2. StatusIn(plan, plan.steps[i].id) = plan.steps[i].status
    BY Zenon, <1>1, <2>1, StatusInIs
  <2>3. plan.steps[i].id \in news \/ told[plan.steps[i].id] = plan.steps[i].status
    BY Zenon, <1>2 DEF ToldInv
  <2>4. QED
    BY Zenon, <1>1, <2>1, <2>2, <2>3
<1>3. QED
  BY Zenon, <1>1, <1>2 DEF ToldInv

LEMMA WritesTold == ASSUME Inv, ToldInv, Written PROVE ToldInv'
<1>1. told' = told /\ interrupts' = interrupts /\ Sound(plan) /\ plan \in Plan
  BY Zenon DEF Written, Inv, TypeInv
<1>2. CASE plan' = plan /\ news' = news /\ (pc = "emit" => pc' = "emit")
  BY Zenon, <1>1, <1>2 DEF ToldInv
<1>3. CASE /\ pc # "emit" /\ pc' = "emit" /\ Sound(plan') /\ Same(plan, plan')
           /\ news' = Changed(plan, plan')
  <2>1. ASSUME interrupts = 0, NEW i \in DOMAIN plan'.steps
        PROVE  plan'.steps[i].id \in news' \/ told[plan'.steps[i].id] = plan'.steps[i].status
    <3>1. plan' \in Plan /\ i \in DOMAIN plan.steps /\ plan'.steps[i].id = plan.steps[i].id
      BY Zenon, <1>3, <2>1 DEF Same, Sound
    <3>2. ValidGraph(plan.steps) /\ ValidGraph(plan'.steps)
      <4>1. plan # NoPlan /\ plan' # NoPlan
        BY Zenon, <2>1, <3>1, NoPlanIs
      <4>2. QED
        BY Zenon, <1>1, <1>3, <4>1 DEF Sound
    <3>3. /\ StatusIn(plan, plan.steps[i].id) = plan.steps[i].status
          /\ StatusIn(plan', plan'.steps[i].id) = plan'.steps[i].status
      BY Zenon, <1>1, <2>1, <3>1, <3>2, StatusInIs
    <3>4. plan.steps[i].id \in StepIds(plan.steps) /\ plan'.steps[i].id \in StepIds(plan'.steps)
      BY Zenon, <2>1, <3>1 DEF StepIds
    <3>5. told[plan.steps[i].id] = plan.steps[i].status
      BY Zenon, <1>3, <2>1, <3>1 DEF ToldInv
    <3>6. QED
      BY Zenon, <1>3, <3>1, <3>3, <3>4, <3>5 DEF Changed
  <2>2. QED
    BY Zenon, <1>1, <1>3, <2>1 DEF ToldInv
<1>4. CASE pc' = "emit" /\ news' = StepIds(plan'.steps)
  BY Zenon, <1>4 DEF ToldInv, StepIds
<1>5. QED
  BY Zenon, <1>2, <1>3, <1>4 DEF Written

LEMMA NextTold == ASSUME Inv, ToldInv, [Next]_vars PROVE ToldInv'
<1>1. ASSUME Interrupt \/ InterruptLate PROVE ToldInv'
  <2>1. interrupts' = interrupts + 1 /\ interrupts \in 0..MaxInterrupts
    BY Zenon, <1>1 DEF Interrupt, InterruptLate, Inv, TypeInv
  <2>2. interrupts' # 0
    BY <2>1, PlanAssumption
  <2>3. QED
    BY Zenon, <2>2 DEF ToldInv
<1>2. QED
  BY Zenon, <1>1, NextWrites, EmitTells, WritesTold

\* update_execution_plan announces what it saved before it returns: until the task is
\* interrupted, at each turn and wherever the Run rests or ends, the last event about
\* each step of the plan names the status the step has, through every review.
THEOREM EventsShowThePlan == Spec => [](interrupts = 0 => StepsAnnounced)
<1>1. Init => ToldInv
  BY InitTold
<1>2. Inv /\ ToldInv /\ [Next]_vars => ToldInv'
  BY NextTold
<1>3. ToldInv => (interrupts = 0 => StepsAnnounced)
  BY DEF ToldInv, StepsAnnounced
<1>4. QED
  BY <1>1, <1>2, <1>3, Inductive, PTL DEF Spec

-----------------------------------------------------------------------------
\* The end.

LEMMA ClosedIs == ASSUME NEW p, Closed(p) PROVE Fresh(p) /\ NoneActive(p)
<1>1. /\ Settled \cap Active = {} /\ Settled \cap {"failed", "cancelled"} = {}
      /\ {"failed", "cancelled"} \cap Active = {}
  BY DEF Settled, Active
<1>2. QED
  BY Zenon, <1>1 DEF Closed, Fresh, NoneActive, FailedBefore

\* The plan is kept in its phase.
LEMMA EndStays ==
  ASSUME EndInv, given' = given, plan' = plan, phase' = phase,
         Here' = "tools" => phase = "executing",
         Live' => Live /\ {status', Coming'} \subseteq {"running", "waiting"},
         "completed" \in {status', Coming'} => "completed" \in {status, Coming},
         Here' \in {"settle", "close"} => Coming' # "running",
         Here' = "end" /\ ~outside' => NoneActive(plan)
  PROVE  EndInv'
BY Zenon, GivenStays DEF EndInv

\* The plan has ended, and the Run ends unsuccessfully.
LEMMA EndEnds ==
  ASSUME EndInv, given' = given, plan' = EndPlan(plan, "failed") \/ plan' = EndPlan(plan, "cancelled"),
         Sound(plan), plan # NoPlan, phase' = phase, ~Live', Here' # "tools",
         {status', Coming'} \subseteq Unsuccessful \cup {"running", "waiting"},
         Here' \in {"settle", "close"} => Coming' # "running"
  PROVE  EndInv'
<1>1. PICK o \in {"failed", "cancelled"} : plan' = EndPlan(plan, o)
  BY Zenon
<1>2. ActiveSteps(plan') = {}
  BY <1>1, EndFollows
<1>3. NoneActive(plan')
  BY Zenon, <1>2 DEF ActiveSteps, NoneActive
<1>4. "completed" \notin {status', Coming'}
  BY DEF Unsuccessful
<1>5. QED
  BY Zenon, <1>3, <1>4 DEF EndInv

LEMMA RunningIsLive ==
  ASSUME EndInv, Live
  PROVE  /\ {status, Coming} \subseteq {"running", "waiting"}
         /\ "completed" \notin {status, Coming}
         /\ Fresh(plan) /\ (plan.status = "completed" => Closed(plan))
         /\ plan.status \in {"completed", "failed", "cancelled"} => NoneActive(plan)
<1>1. {status, Coming} \subseteq {"running", "waiting"}
  BY Zenon DEF EndInv
<1>2. "completed" \notin {status, Coming}
  BY <1>1
<1>3. QED
  BY Zenon, <1>1, <1>2 DEF EndInv

\* The plan comes out with other statuses or steps, and the Run goes on.
LEMMA EndGoes ==
  ASSUME EndInv, given' = given, Here' \in {"check", "request"} \/ (Here' = "settle" /\ Coming' = "waiting"),
         status' \in {"running", "waiting"}, Coming' \in {"running", "waiting"},
         Fresh(plan'), plan'.status \in {"failed", "cancelled"} => NoneActive(plan'),
         plan'.status = "completed" => Closed(plan'),
         phase' = "summarizing" => plan'.status = "completed",
         phase' \in {"updating", "summarizing"} => NoneActive(plan')
  PROVE  EndInv'
<1>1. /\ Here' # "tools" /\ Here' # "end" /\ "completed" \notin {status', Coming'}
      /\ Here' \in {"settle", "close"} => Coming' # "running"
  OBVIOUS
<1>2. Closed(plan') => NoneActive(plan')
  BY Zenon, ClosedIs
<1>3. plan'.status \in {"completed", "failed", "cancelled"} => NoneActive(plan')
  BY Zenon, <1>2
<1>4. {status', Coming'} \subseteq {"running", "waiting"}
  BY Zenon
<1>5. QED
  BY Zenon, <1>1, <1>3, <1>4, GivenStays DEF EndInv

\* The Run has completed its plan.
LEMMA EndCompletes ==
  ASSUME EndInv, given' = given, Here' = "settle", Coming' = "completed", plan'.status = "completed",
         Closed(plan')
  PROVE  EndInv'
<1>1. ~Live' /\ Here' # "tools" /\ Here' # "end" /\ Coming' # "running"
  BY DEF Live
<1>2. NoneActive(plan')
  BY Zenon, ClosedIs
<1>3. QED
  BY Zenon, <1>1, <1>2, GivenStays DEF EndInv

LEMMA EndFails ==
  ASSUME Inv, EndInv, given' = given, Live, FailExecution("failed"), phase' = phase PROVE EndInv'
<1>1. /\ "failed" \in RunStatus /\ "settle" \in After /\ "settle" \in Label \ {"emit"}
      /\ FALSE \in BOOLEAN /\ Sound(plan) /\ "failed" \in Unsuccessful
  BY Places DEF After, Inv, Unsuccessful
<1>2. /\ {status, Coming} \subseteq {"running", "waiting"}
  BY Zenon, RunningIsLive
<1>3. ASSUME Here' = "settle", Coming' = "failed"
      PROVE  ~Live' /\ Here' # "tools" /\ Here' # "end" /\ Coming' # "running"
  BY <1>3 DEF Live
<1>4. CASE plan # NoPlan /\ plan.status \notin {"failed", "cancelled"}
  <2>1. UpdatePlan(EndPlan(plan, "failed"), FALSE, Then("failed", "settle")) /\ status' = status
    BY Zenon, <1>4 DEF FailExecution
  <2>2. plan' = EndPlan(plan, "failed") /\ Here' = "settle" /\ Coming' = "failed"
    BY Zenon, <1>1, <2>1, Updated
  <2>3. {status', Coming'} \subseteq Unsuccessful \cup {"running", "waiting"}
    BY <1>1, <1>2, <2>1, <2>2
  <2>4. QED
    BY Zenon, <1>1, <1>3, <1>4, <2>2, <2>3, EndEnds
<1>5. CASE ~(plan # NoPlan /\ plan.status \notin {"failed", "cancelled"})
  <2>1. KeepPlan(Then("failed", "settle"))
    BY Zenon, <1>5 DEF FailExecution
  <2>2. plan' = plan /\ Here' = "settle" /\ Coming' = "failed" /\ status' = "failed"
    BY Zenon, <1>1, <2>1, KeptPlan DEF Inv
  <2>3. "completed" \notin {status', Coming'}
    BY <2>2
  <2>4. QED
    BY Zenon, <1>3, <2>2, <2>3, EndStays
<1>6. QED
  BY Zenon, <1>4, <1>5

\* The Run stops and the plan is kept, to be settled.
LEMMA EndStops ==
  ASSUME Inv, EndInv, given' = given, Live, NEW s \in Unsuccessful, NEW l \in {"settle", "close"},
         KeepPlan(Then(s, l)), phase' = phase
  PROVE  EndInv'
<1>1. s \in RunStatus /\ l \in Label \ {"emit"} /\ s \notin {"completed", "running", "waiting"}
  BY Places DEF Unsuccessful
<1>2. plan' = plan /\ Here' = l /\ Coming' = s /\ status' = s
  BY Zenon, <1>1, KeptPlan DEF Inv
<1>3. ~Live' /\ Here' # "tools" /\ Here' # "end" /\ Coming' # "running"
      /\ "completed" \notin {status', Coming'}
  BY <1>1, <1>2 DEF Live
<1>4. QED
  BY Zenon, <1>2, <1>3, EndStays

\* The Run goes on in its phase.
LEMMA EndRuns ==
  ASSUME EndInv, given' = given, plan' = plan, phase' = phase, Live, Here' # "tools" \/ phase = "executing",
         Here' \in {"check", "advance", "request", "model", "tools"},
         status' \in {status, "running"}, Coming' \in {status', "running"}
  PROVE  EndInv'
<1>1. /\ Here' # "end" /\ Here' \notin {"settle", "close"}
      /\ {status', Coming'} \subseteq {"running", "waiting"} /\ "completed" \notin {status', Coming'}
  BY RunningIsLive
<1>2. QED
  BY Zenon, <1>1, EndStays

LEMMA EndSettles ==
  ASSUME Inv, EndInv, given' = given, NEW l \in {"close", "wait", "end"}, SettlePlan(l), phase' = phase,
         Here \in {"settle", "close"}, pc # "emit",
         l = "wait" <=> pc = "close" /\ status = "waiting",
         l = "close" <=> pc = "settle"
  PROVE  EndInv'
<1>1. /\ l \in After /\ l \in Label \ {"emit"} /\ FALSE \in BOOLEAN /\ Sound(plan) /\ status \in RunStatus
      /\ "completed" \notin Unsuccessful /\ "waiting" \notin Unsuccessful
      /\ RunStatus = Unsuccessful \cup {"running", "waiting", "completed"}
      /\ Coming = status /\ Here = pc /\ status # "running"
  BY Places DEF After, Inv, TypeInv, Unsuccessful, Coming, Here, EndInv
<1>2. ASSUME Here' = l, Coming' = status, status' = status
      PROVE  /\ Here' # "tools" /\ Coming' # "running"
             /\ "completed" \in {status', Coming'} => status = "completed"
             /\ Live' => Live /\ status = "waiting"
  BY <1>1, <1>2 DEF Live
<1> DEFINE C == /\ plan # NoPlan /\ plan.status \notin {"completed", "failed", "cancelled"}
                /\ status \in Unsuccessful
<1>3. CASE C
  <2>1. PICK o : o = IF status = "cancelled" THEN "cancelled" ELSE "failed"
    BY Zenon
  <2>2. o \in {"failed", "cancelled"}
    BY <2>1
  <2>3. UpdatePlan(EndPlan(plan, o), FALSE, Then(status, l)) /\ status' = status
    BY Zenon, <1>3, <2>1 DEF SettlePlan
  <2>4. plan' = EndPlan(plan, o) /\ Here' = l /\ Coming' = status
    BY Zenon, <1>1, <2>3, Updated
  <2>5. {status', Coming'} \subseteq Unsuccessful \cup {"running", "waiting"} /\ ~Live'
    BY Zenon, <1>1, <1>2, <1>3, <2>3, <2>4
  <2>6. QED
    BY Zenon, <1>1, <1>2, <1>3, <2>2, <2>3, <2>4, <2>5, EndEnds
<1>4. CASE ~C
  <2>1. KeepPlan(Then(status, l))
    BY Zenon, <1>4 DEF SettlePlan
  <2>2. plan' = plan /\ Here' = l /\ Coming' = status /\ status' = status
    BY Zenon, <1>1, <2>1, KeptPlan DEF Inv
  <2>3. ASSUME l = "end" PROVE NoneActive(plan)
    <3>1. pc # "settle"
      BY <2>3
    <3>2. status # "waiting"
      BY <1>1, <2>3, <3>1
    <3>3. CASE plan = NoPlan
      BY Zenon, <3>3, NoPlanIs DEF NoneActive
    <3>4. CASE plan.status \in {"completed", "failed", "cancelled"}
      BY Zenon, <3>4 DEF EndInv
    <3>5. CASE status = "completed"
      BY Zenon, <3>5 DEF EndInv
    <3>6. QED
      BY Zenon, <1>1, <1>4, <3>2, <3>3, <3>4, <3>5
  <2>4. Live' => {status', Coming'} \subseteq {"running", "waiting"}
    BY <1>2, <2>2
  <2>5. QED
    BY Zenon, <1>1, <1>2, <2>2, <2>3, <2>4, EndStays
<1>5. QED
  BY Zenon, <1>3, <1>4

\* _finish_plan
LEMMA EndFinishes ==
  ASSUME Inv, EndInv, given' = given, Live, plan'.status = "completed", Closed(plan'),
         phase' = FinishedPhase,
         \/ KeepPlan(Finished)
         \/ \E q : \E b \in BOOLEAN : UpdatePlan(q, b, Finished) /\ status' = status
  PROVE  EndInv'
<1>1. /\ {"running", "completed"} \subseteq RunStatus /\ {"check", "settle"} \subseteq After
      /\ {"check", "settle"} \subseteq Label \ {"emit"}
  BY Places DEF After
<1>2. status \in {"running", "waiting"}
  BY Zenon, RunningIsLive
<1>3. plan'.status \notin {"failed", "cancelled"}
  OBVIOUS
<1>4. Fresh(plan') /\ NoneActive(plan')
  BY Zenon, ClosedIs
<1>5. CASE Finished = Then("running", "check")
  <2>1. Here' = "check" /\ Coming' = "running" /\ status' \in {status, "running"}
    BY Zenon, <1>1, <1>5, KeptPlan, Updated DEF Inv
  <2>2. status' \in {"running", "waiting"} /\ "running" \in {"running", "waiting"}
    BY <1>2, <2>1
  <2>3. QED
    BY Zenon, <1>3, <1>4, <2>1, <2>2, EndGoes
<1>6. CASE Finished = Then("completed", "settle")
  <2>1. Here' = "settle" /\ Coming' = "completed"
    BY Zenon, <1>1, <1>6, KeptPlan, Updated DEF Inv
  <2>2. QED
    BY Zenon, <2>1, EndCompletes
<1>7. QED
  BY Zenon, <1>5, <1>6, FinishedIs

LEMMA AdvanceEnd == ASSUME Inv, EndInv, given' = given, AdvanceStep PROVE EndInv'
<1>1. /\ pc = "advance" /\ phase = "executing" /\ Sound(plan) /\ plan \in Plan /\ plan # NoPlan
  <2>1. pc = "advance" /\ phase = "executing" /\ "executing" # "planning"
    BY Zenon DEF AdvanceStep
  <2>2. QED
    BY Zenon, <2>1 DEF Inv, TypeInv
<1>2. /\ Live /\ "failed" \in Unsuccessful /\ "request" \in After /\ "running" \in RunStatus
      /\ FALSE \in BOOLEAN /\ "request" \in Label \ {"emit"}
      /\ phase \notin {"summarizing", "updating"}
  BY <1>1, Places DEF Live, Here, After, Unsuccessful
<1>3. /\ status \in {"running", "waiting"} /\ Fresh(plan)
      /\ plan.status = "completed" => Closed(plan)
  BY Zenon, <1>2, RunningIsLive
\* A step is started or resumed.
<1>4. ASSUME NEW i \in DOMAIN plan.steps, NEW q, Same(plan, q), q.status = "running",
             q.steps[i].status = "running",
             \A j \in DOMAIN plan.steps : j # i => q.steps[j] = plan.steps[j],
             UpdatePlan(q, FALSE, Then("running", "request")), status' = status, phase' = phase
      PROVE  EndInv'
  <2>1. plan' = q /\ Here' = "request" /\ Coming' = "running"
    BY Zenon, <1>2, <1>4, Updated
  <2>2. Fresh(q)
    <3>1. "running" \notin {"failed", "cancelled"}
      OBVIOUS
    <3>2. QED
      BY Zenon, <1>3, <1>4, <3>1 DEF Fresh, Same
  <2>3. /\ q.status \notin {"failed", "cancelled"} /\ q.status # "completed"
        /\ "running" \in {"running", "waiting"} /\ "request" \in {"check", "request"}
    BY <1>4
  <2>4. QED
    BY Zenon, <1>2, <1>3, <1>4, <2>1, <2>2, <2>3, EndGoes
<1>5. CASE Supported(plan) /\ With(plan, "waiting") # {}
  <2>1. PICK i : i = Min(With(plan, "waiting"))
    BY Zenon
  <2>2. i \in ActiveSteps(plan) /\ "running" \in Active
    BY <1>1, <1>5, <2>1, WithIn, Statuses
  <2>3. PICK q : q = SetStep(plan, i, "running", "running")
    BY Zenon
  <2>4. /\ Same(plan, q) /\ q.status = "running" /\ i \in With(q, "running")
        /\ \A j \in DOMAIN plan.steps : j # i => q.steps[j] = plan.steps[j]
    BY <1>1, <2>2, <2>3, MoveSound
  <2>5. /\ UpdatePlan(q, FALSE, Then("running", "request")) /\ status' = status /\ phase' = phase
    BY Zenon, <1>5, <2>1, <2>3 DEF AdvanceStep, ResumeStep
  <2>6. i \in DOMAIN plan.steps /\ q.steps[i].status = "running"
    BY Zenon, <2>2, <2>4 DEF ActiveSteps, With
  <2>7. QED
    BY Zenon, <1>4, <2>4, <2>5, <2>6
<1>6. CASE /\ Supported(plan) /\ With(plan, "waiting") \cup With(plan, "running") = {}
           /\ Ready(plan) # {}
  <2>1. PICK i : i = Min(Ready(plan))
    BY Zenon
  <2>2. i \in Ready(plan)
    <3>1. Ready(plan) \in SUBSET Nat
      BY Zenon, <1>1, PlanFields DEF Ready, With
    <3>2. QED
      BY <1>6, <2>1, <3>1, MinIn
  <2>3. PICK q : q = StartStep(plan, i)
    BY Zenon
  <2>4. ActiveSteps(plan) = {} /\ With(plan, "waiting") = {}
    BY Zenon, <1>6, NoActive
  <2>5. /\ Same(plan, q) /\ q.status = "running" /\ i \in With(q, "running")
        /\ \A j \in DOMAIN plan.steps : j # i => q.steps[j] = plan.steps[j]
    BY <1>1, <2>2, <2>3, <2>4, StartSound
  <2>6. UpdatePlan(q, FALSE, Then("running", "request")) /\ status' = status /\ phase' = phase
    BY Zenon, <1>6, <2>1, <2>3, <2>4 DEF AdvanceStep
  <2>7. i \in DOMAIN plan.steps /\ q.steps[i].status = "running"
    BY Zenon, <2>2, <2>5 DEF Ready, With
  <2>8. QED
    BY Zenon, <1>4, <2>5, <2>6, <2>7
<1>7. CASE ~Supported(plan)
  <2>1. KeepPlan(Then("failed", "close")) /\ phase' = phase /\ "close" \in {"settle", "close"}
    BY Zenon, <1>7 DEF AdvanceStep
  <2>2. QED
    BY Zenon, <1>2, <2>1, EndStops
<1>8. CASE Supported(plan) /\ With(plan, "waiting") = {} /\ With(plan, "running") # {}
  <2>1. KeepPlan(Then("running", "request")) /\ phase' = phase
    BY Zenon, <1>8 DEF AdvanceStep
  <2>2. plan' = plan /\ Here' = "request" /\ status' = "running" /\ Coming' = "running"
    BY Zenon, <1>2, <2>1, KeptPlan DEF Inv
  <2>3. Here' # "tools" /\ Here' \in {"check", "advance", "request", "model", "tools"}
    BY <2>2
  <2>4. QED
    BY Zenon, <1>2, <2>1, <2>2, <2>3, EndRuns
<1>9. CASE Supported(plan) /\ With(plan, "waiting") \cup With(plan, "running") = {} /\ Ready(plan) = {}
  <2>1. CASE plan.status = "completed"
    <3>1. KeepPlan(Finished) /\ phase' = FinishedPhase
      BY Zenon, <1>9, <2>1 DEF AdvanceStep
    <3>2. plan' = plan
      BY Zenon, <3>1 DEF KeepPlan
    <3>3. QED
      BY Zenon, <1>2, <1>3, <2>1, <3>1, <3>2, EndFinishes
  <2>2. CASE plan.status # "completed"
    <3>1. FailExecution("failed") /\ phase' = phase
      BY Zenon, <1>9, <2>2 DEF AdvanceStep
    <3>2. QED
      BY Zenon, <1>2, <3>1, EndFails
  <2>3. QED
    BY Zenon, <2>1, <2>2
<1>10. QED
  BY Zenon, <1>5, <1>6, <1>7, <1>8, <1>9

LEMMA Answering ==
  ASSUME EndInv, pc = "model"
  PROVE  /\ Live /\ Here = "model" /\ Asking /\ status \in {"running", "waiting"} /\ Fresh(plan)
         /\ plan.status = "completed" => Closed(plan)
         /\ plan.status \in {"completed", "failed", "cancelled"} => NoneActive(plan)
         /\ "running" \in RunStatus /\ "check" \in After /\ "check" \in Label \ {"emit"}
         /\ "running" \in {"running", "waiting"} /\ "check" \in {"check", "request"}
<1>1. Live /\ Here = "model" /\ Asking
  BY DEF Live, Here, Asking
<1>2. QED
  BY <1>1, RunningIsLive, Places DEF After

LEMMA StepResultEnd == ASSUME Inv, EndInv, Fit, given' = given, StepResult PROVE EndInv'
<1>1. pc = "model" /\ phase = "executing" /\ Sound(plan) /\ plan \in Plan /\ status' = status
  BY Zenon DEF StepResult, Inv, TypeInv
<1>2. Live /\ Asking /\ Fresh(plan) /\ status \in {"running", "waiting"}
      /\ (plan.status \in {"completed", "failed", "cancelled"} => NoneActive(plan))
      /\ "running" \in RunStatus /\ "check" \in After
      /\ "running" \in {"running", "waiting"} /\ "check" \in {"check", "request"}
  BY Zenon, <1>1, Answering
<1>3. PICK i : i = Min(With(plan, "running"))
  BY Zenon
<1>4. i \in ActiveSteps(plan) /\ plan # NoPlan /\ i \in DOMAIN plan.steps
  <2>1. phase # "planning"
    BY <1>1
  <2>2. With(plan, "running") # {} /\ plan # NoPlan
    BY Zenon, <1>1, <1>2, <2>1 DEF Inv, LoopInv
  <2>3. i \in ActiveSteps(plan)
    BY <1>1, <1>3, <2>2, WithIn, Statuses
  <2>4. QED
    BY Zenon, <2>2, <2>3 DEF ActiveSteps
<1>5. PICK q : q = CompleteStep(plan, i)
  BY Zenon
<1>6. /\ q \in Plan /\ Same(plan, q) /\ ActiveSteps(q) = {} /\ q.steps[i].status = "completed"
      /\ \A j \in DOMAIN plan.steps : j # i => q.steps[j] = plan.steps[j]
      /\ q.status = plan.status \/ (q.status = "completed" /\ AllSettled(q.steps))
  <2>1. Sound(q) => q \in Plan
    BY Zenon DEF Sound
  <2>2. QED
    BY <1>1, <1>4, <1>5, <2>1, CompleteSound
<1>7. plan.status \notin {"completed", "failed", "cancelled"} /\ NoneActive(q)
  BY Zenon, <1>2, <1>4, <1>6 DEF ActiveSteps, NoneActive
<1>8. q.status = "completed" => Closed(q)
  BY Zenon, <1>6, <1>7 DEF AllSettled, Closed
<1>9. Fresh(q)
  <2>1. "completed" \notin {"failed", "cancelled"}
    OBVIOUS
  <2>2. QED
    BY Zenon, <1>2, <1>6, <2>1 DEF Fresh, Same
<1> DEFINE last == ~ReplanAfterStep /\ q.status = "completed"
<1>10. /\ UpdatePlan(q, FALSE, IF last THEN Finished ELSE Then("running", "check"))
       /\ phase' = IF ReplanAfterStep THEN "updating" ELSE IF last THEN FinishedPhase ELSE "executing"
  BY Zenon, <1>3, <1>5 DEF StepResult
<1>11. plan' = q
  BY Zenon, <1>10 DEF UpdatePlan
<1>12. FALSE \in BOOLEAN
  OBVIOUS
<1>13. CASE last
  <2>1. UpdatePlan(q, FALSE, Finished) /\ phase' = FinishedPhase
    BY Zenon, <1>10, <1>13
  <2>2. plan'.status = "completed" /\ Closed(plan')
    BY Zenon, <1>8, <1>11, <1>13
  <2>3. \E r : \E b \in BOOLEAN : UpdatePlan(r, b, Finished) /\ status' = status
    BY Zenon, <1>1, <1>12, <2>1
  <2>4. QED
    BY Zenon, <1>2, <2>1, <2>2, <2>3, EndFinishes
<1>14. CASE ~last
  <2>1. UpdatePlan(q, FALSE, Then("running", "check")) /\ phase' \in {"updating", "executing"}
    BY Zenon, <1>10, <1>14
  <2>2. Here' = "check" /\ Coming' = "running"
    BY Zenon, <1>2, <1>12, <2>1, Updated
  <2>3. phase' # "summarizing"
    BY <2>1
  <2>4. QED
    BY Zenon, <1>1, <1>2, <1>7, <1>8, <1>9, <1>11, <2>2, <2>3, EndGoes
<1>15. QED
  BY Zenon, <1>13, <1>14

LEMMA GeneratePlanEnd ==
  ASSUME Inv, EndInv, given' = given, NEW drafts \in Proposal, GeneratePlan(drafts) PROVE EndInv'
<1>1. pc = "model" /\ TRUE \in BOOLEAN
  BY Zenon DEF GeneratePlan
<1>2. Live /\ status \in {"running", "waiting"} /\ "running" \in RunStatus /\ "check" \in After
      /\ "running" \in {"running", "waiting"} /\ "check" \in {"check", "request"}
  BY Zenon, <1>1, Answering
<1>3. PICK q : q = [steps |-> Pending(drafts), status |-> "created"]
  BY Zenon
<1>4. CASE ValidGraph(q.steps) /\ Supported(q)
  <2>1. /\ UpdatePlan(q, TRUE, Then("running", "check")) /\ phase' = "executing" /\ status' = status
    BY Zenon, <1>3, <1>4 DEF GeneratePlan
  <2>2. plan' = q /\ Here' = "check" /\ Coming' = "running"
    BY Zenon, <1>1, <1>2, <2>1, Updated
  <2>3. q.status = "created" /\ \A i \in DOMAIN q.steps : q.steps[i].status = "pending"
    BY <1>3, PendingIs
  <2>4. /\ Fresh(q) /\ q.status \notin {"failed", "cancelled"}
        /\ q.status # "completed" /\ phase' \notin {"updating", "summarizing"} /\ phase' # "summarizing"
    BY <2>1, <2>3 DEF Fresh
  <2>5. QED
    BY Zenon, <1>2, <2>1, <2>2, <2>4, EndGoes
<1>5. CASE ~(ValidGraph(q.steps) /\ Supported(q))
  <2>1. FailExecution("failed") /\ phase' = phase
    BY Zenon, <1>3, <1>5 DEF GeneratePlan
  <2>2. QED
    BY Zenon, <1>2, <2>1, EndFails
<1>6. QED
  BY Zenon, <1>4, <1>5

LEMMA ReviewEnd ==
  ASSUME Inv, EndInv, given' = given, NEW drafts \in Proposal, Review(drafts) PROVE EndInv'
<1>1. /\ pc = "model" /\ phase = "updating" /\ Sound(plan) /\ plan \in Plan /\ plan # NoPlan
  <2>1. pc = "model" /\ phase = "updating" /\ "updating" # "planning"
    BY Zenon DEF Review
  <2>2. QED
    BY Zenon, <2>1 DEF Inv, TypeInv
<1>2. /\ Live /\ Fresh(plan) /\ status \in {"running", "waiting"}
      /\ plan.status = "completed" => Closed(plan)
      /\ plan.status \in {"failed", "cancelled"} => NoneActive(plan)
      /\ "running" \in RunStatus /\ "check" \in After /\ "check" \in Label \ {"emit"}
      /\ "running" \in {"running", "waiting"} /\ "check" \in {"check", "request"}
  BY Zenon, <1>1, Answering
<1>3. PICK f : f = Pending(drafts)
  BY Zenon
<1>4. PICK m : m = Merge(plan, f)
  BY Zenon
<1>5. PICK q : q = [steps |-> m.steps, status |-> m.status]
  BY Zenon
<1>6. TRUE \in BOOLEAN /\ "executing" \notin {"updating", "summarizing"}
      /\ "executing" # "summarizing" /\ "executing" # "updating"
  OBVIOUS
<1>7. CASE f = StepsIn(plan, {"pending"})
  <2>1. CASE plan.status = "completed"
    <3>1. KeepPlan(Finished) /\ phase' = FinishedPhase
      BY Zenon, <1>3, <1>7, <2>1 DEF Review
    <3>2. plan' = plan
      BY Zenon, <3>1 DEF KeepPlan
    <3>3. QED
      BY Zenon, <1>2, <2>1, <3>1, <3>2, EndFinishes
  <2>2. CASE plan.status # "completed"
    <3>1. KeepPlan(Then("running", "check")) /\ phase' = "executing"
      BY Zenon, <1>3, <1>7, <2>2 DEF Review
    <3>2. plan' = plan /\ Here' = "check" /\ Coming' = "running" /\ status' = "running"
      BY Zenon, <1>2, <3>1, KeptPlan DEF Inv
    <3>3. QED
      BY Zenon, <1>2, <1>6, <2>2, <3>1, <3>2, EndGoes
  <2>3. QED
    BY Zenon, <2>1, <2>2
<1>8. CASE f # StepsIn(plan, {"pending"}) /\ m.valid /\ Supported(q)
  <2>1. /\ \A k \in DOMAIN q.steps :
              \/ q.steps[k].status = "pending"
              \/ q.steps[k].status \in Historical /\ \E i \in DOMAIN plan.steps : q.steps[k] = plan.steps[i]
        /\ q.status \in {"completed", "running"}
        /\ q.status = "completed" => \A k \in DOMAIN q.steps : q.steps[k].status \in Historical
    BY <1>1, <1>3, <1>4, <1>5, MergeIs
  <2>2. Fresh(q)
    <3>1. "pending" \notin {"failed", "cancelled"}
      OBVIOUS
    <3>2. QED
      BY Zenon, <1>2, <2>1, <3>1 DEF Fresh
  <2>3. q.status = "completed" => Closed(q)
    <3>1. \A st \in Historical : st \notin {"failed", "cancelled"} => st \in Settled
      BY DEF Historical, Settled
    <3>2. QED
      BY Zenon, <2>1, <2>2, <3>1 DEF Fresh, Closed
  <2>4. CASE q.status = "completed"
    <3>1. UpdatePlan(q, TRUE, Finished) /\ phase' = FinishedPhase /\ status' = status
      BY Zenon, <1>3, <1>4, <1>5, <1>8, <2>4 DEF Review
    <3>2. plan' = q
      BY Zenon, <3>1 DEF UpdatePlan
    <3>3. \E r : \E b \in BOOLEAN : UpdatePlan(r, b, Finished) /\ status' = status
      BY Zenon, <1>6, <3>1
    <3>4. QED
      BY Zenon, <1>2, <2>3, <2>4, <3>1, <3>2, <3>3, EndFinishes
  <2>5. CASE q.status # "completed"
    <3>1. UpdatePlan(q, TRUE, Then("running", "check")) /\ phase' = "executing" /\ status' = status
      BY Zenon, <1>3, <1>4, <1>5, <1>8, <2>5 DEF Review
    <3>2. plan' = q /\ Here' = "check" /\ Coming' = "running"
      BY Zenon, <1>2, <1>6, <3>1, Updated
    <3>3. q.status \notin {"failed", "cancelled"}
      BY <2>1
    <3>4. QED
      BY Zenon, <1>2, <1>6, <2>2, <2>5, <3>1, <3>2, <3>3, EndGoes
  <2>6. QED
    BY Zenon, <2>4, <2>5
<1>9. CASE f # StepsIn(plan, {"pending"}) /\ ~(m.valid /\ Supported(q))
  <2>1. FailExecution("failed") /\ phase' = phase
    BY Zenon, <1>3, <1>4, <1>5, <1>9 DEF Review
  <2>2. QED
    BY Zenon, <1>2, <2>1, EndFails
<1>10. QED
  BY Zenon, <1>7, <1>8, <1>9

LEMMA ToolsWaitEnd == ASSUME Inv, EndInv, given' = given, ToolsWait PROVE EndInv'
<1>1. /\ pc = "tools" /\ Sound(plan) /\ plan \in Plan /\ phase' = phase
  BY Zenon DEF ToolsWait, Inv, TypeInv
<1>2. /\ Live /\ Asking /\ Here = "tools" /\ "waiting" \in RunStatus /\ "settle" \in After
      /\ FALSE \in BOOLEAN /\ "waiting" \in {"running", "waiting"} /\ "waiting" # "completed"
      /\ "waiting" \notin {"failed", "cancelled"}
  BY <1>1, Places DEF Live, Here, Asking, After
<1>3. phase = "executing" /\ phase # "planning" /\ phase \notin {"updating", "summarizing"}
      /\ phase # "summarizing"
  <2>1. phase = "executing"
    BY Zenon, <1>2 DEF EndInv
  <2>2. QED
    BY <2>1
<1>4. With(plan, "running") # {} /\ plan # NoPlan /\ Fresh(plan)
  BY Zenon, <1>2, <1>3, RunningIsLive DEF Inv, LoopInv
<1>5. PICK i : i = Min(With(plan, "running"))
  BY Zenon
<1>6. i \in ActiveSteps(plan) /\ "waiting" \in Active
  BY <1>1, <1>4, <1>5, WithIn, Statuses
<1>7. PICK q : q = SetStep(plan, i, "waiting", "waiting")
  BY Zenon
<1>8. /\ Same(plan, q) /\ q.status = "waiting" /\ i \in With(q, "waiting")
      /\ \A j \in DOMAIN plan.steps : j # i => q.steps[j] = plan.steps[j]
  BY <1>1, <1>4, <1>6, <1>7, MoveSound
<1>9. UpdatePlan(q, FALSE, Then("waiting", "settle")) /\ status' = "waiting"
  BY Zenon, <1>4, <1>5, <1>7 DEF ToolsWait, WaitStep
<1>10. plan' = q /\ Here' = "settle" /\ Coming' = "waiting"
  BY Zenon, <1>2, <1>9, Updated
<1>11. Fresh(q)
  <2>1. "waiting" \notin {"failed", "cancelled"}
    OBVIOUS
  <2>2. QED
    BY Zenon, <1>4, <1>8, <2>1 DEF Fresh, Same, With
<1>12. QED
  BY Zenon, <1>1, <1>2, <1>3, <1>8, <1>9, <1>10, <1>11, EndGoes

LEMMA InitEnd == ASSUME Init, Fit PROVE EndInv
<1>1. /\ status = "running" /\ pc = "check" /\ phase \in {"planning", "executing"}
      /\ plan \in Plan /\ plan = given
  BY Zenon, InitPlan DEF Init, Sound
<1>2. /\ Here = "check" /\ Coming = "running" /\ status # "completed" /\ Coming # "completed"
      /\ phase \notin {"updating", "summarizing"} /\ phase # "summarizing"
      /\ {status, Coming} \subseteq {"running", "waiting"}
  BY <1>1 DEF Here, Coming
<1>3. Fresh(plan)
  BY Zenon, <1>1 DEF Fresh, FailedBefore
<1>4. plan.status \in {"completed", "failed", "cancelled"} => NoneActive(plan)
  BY Zenon, <1>1 DEF Fit, Consistent
<1>5. ASSUME plan.status = "completed" PROVE Closed(plan)
  <2>1. NoneActive(plan) /\ With(plan, "pending") = {}
    BY Zenon, <1>1, <1>4, <1>5 DEF Fit, Consistent
  <2>2. ASSUME NEW i \in DOMAIN plan.steps
        PROVE  plan.steps[i].status \in Settled \cup {"failed", "cancelled"}
    <3>1. plan.steps[i].status \in StepStatus
      BY Zenon, <1>1, PlanFields
    <3>2. plan.steps[i].status \notin Active /\ plan.steps[i].status # "pending"
      BY Zenon, <2>1 DEF NoneActive, With
    <3>3. QED
      BY <3>1, <3>2 DEF StepStatus, Active, Settled
  <2>3. QED
    BY Zenon, <1>3, <2>2 DEF Fresh, Closed
<1>6. Here # "tools" /\ Here # "end" /\ Here \notin {"settle", "close"}
  BY <1>2
<1>7. QED
  BY Zenon, <1>2, <1>3, <1>4, <1>5, <1>6 DEF EndInv

LEMMA LoopEnd ==
  ASSUME Inv, EndInv, given' = given, SuspendedInv, LoopTop \/ AdvancePhase \/ ResumeBatch \/ Resume
  PROVE  EndInv'
<1>1. CASE LoopTop
  <2>1. /\ pc = "check" /\ plan' = plan /\ phase' = phase
        /\ \/ status' \in {"cancelled", "limit_reached"} /\ pc' = "close"
           \/ status' = status /\ pc' = "advance"
    BY <1>1 DEF LoopTop
  <2>2. Live
    BY <2>1 DEF Live, Here
  <2>3. CASE status' \in {"cancelled", "limit_reached"} /\ pc' = "close"
    <3>1. /\ ~Live' /\ Here' # "tools" /\ Here' # "end" /\ Coming' # "running"
          /\ "completed" \notin {status', Coming'}
      BY <2>3 DEF Live, Here, Coming
    <3>2. QED
      BY Zenon, <2>1, <3>1, EndStays
  <2>4. CASE status' = status /\ pc' = "advance"
    <3>1. /\ Here' # "tools" /\ Here' \in {"check", "advance", "request", "model", "tools"}
          /\ Coming' = status'
      BY <2>4 DEF Here, Coming
    <3>2. QED
      BY Zenon, <2>1, <2>2, <2>4, <3>1, EndRuns
  <2>5. QED
    BY Zenon, <2>1, <2>3, <2>4
<1>2. CASE AdvancePhase
  <2>1. pc = "advance" /\ plan' = plan /\ phase' = phase /\ status' = status /\ pc' = "request"
    BY Zenon, <1>2 DEF AdvancePhase
  <2>2. /\ Live /\ Here' # "tools" /\ Here' \in {"check", "advance", "request", "model", "tools"}
        /\ Coming' = status'
    BY <2>1 DEF Live, Here, Coming
  <2>3. QED
    BY Zenon, <2>1, <2>2, EndRuns
<1>3. CASE ResumeBatch
  <2>1. /\ pc = "request" /\ plan' = plan /\ phase' = phase /\ status' = status /\ pc' = "tools"
        /\ suspended
    BY Zenon, <1>3 DEF ResumeBatch
  <2>2. Live /\ Here' \in {"check", "advance", "request", "model", "tools"} /\ Coming' = status'
    BY <2>1 DEF Live, Here, Coming
  <2>3. phase = "executing"
    BY Zenon, <2>1, <2>2 DEF SuspendedInv
  <2>4. QED
    BY Zenon, <2>1, <2>2, <2>3, EndRuns
<1>4. CASE Resume
  <2>1. pc = "wait" /\ plan' = plan /\ phase' = phase /\ status' = "running" /\ pc' = "check"
    BY Zenon, <1>4 DEF Resume
  <2>2. /\ Live /\ Here' # "tools" /\ Here' \in {"check", "advance", "request", "model", "tools"}
        /\ Coming' = status'
    BY <2>1 DEF Live, Here, Coming
  <2>3. QED
    BY Zenon, <2>1, <2>2, EndRuns
<1>5. QED
  BY Zenon, <1>1, <1>2, <1>3, <1>4

LEMMA ModelEnd ==
  ASSUME Inv, EndInv, given' = given, ~Unasked,
         RequestModel \/ AnswerFails \/ CancelledMeanwhile \/ CallTools \/ Malformed \/ Summary \/ ToolsDone
  PROVE  EndInv'
<1>1. pc \in {"request", "model", "tools"} /\ status \in RunStatus
  BY DEF RequestModel, AnswerFails, CancelledMeanwhile, CallTools, Malformed, Summary,
     ToolsDone,
         Inv, TypeInv
<1>2. /\ Live /\ {"cancelled", "limit_reached"} \subseteq Unsuccessful
      /\ {"running", "completed"} \subseteq RunStatus
      /\ {"check", "model", "settle"} \subseteq Label \ {"emit"} /\ "settle" \in {"settle", "close"}
  BY <1>1, Places DEF Live, Here, Unsuccessful
<1>3. CASE AnswerFails \/ Malformed
  <2>1. FailExecution("failed") /\ phase' = phase
    BY Zenon, <1>3 DEF AnswerFails, Malformed
  <2>2. QED
    BY Zenon, <1>2, <2>1, EndFails
<1>4. CASE CancelledMeanwhile
  <2>1. KeepPlan(Then("cancelled", "settle")) /\ phase' = phase /\ "cancelled" \in Unsuccessful
    BY Zenon, <1>2, <1>4 DEF CancelledMeanwhile
  <2>2. QED
    BY Zenon, <1>2, <2>1, EndStops
<1>5. CASE CallTools
  <2>1. plan' = plan /\ phase' = phase /\ status' = status /\ pc' = "tools" /\ phase = "executing"
    BY Zenon, <1>5 DEF CallTools
  <2>2. Here' \in {"check", "advance", "request", "model", "tools"} /\ Coming' = status'
    BY <2>1 DEF Here, Coming
  <2>3. QED
    BY Zenon, <1>2, <2>1, <2>2, EndRuns
<1>6. CASE Summary
  <2>1. KeepPlan(Then("completed", "settle")) /\ phase = "summarizing"
    BY Zenon, <1>6 DEF Summary
  <2>2. plan' = plan /\ Here' = "settle" /\ Coming' = "completed"
    BY Zenon, <1>2, <2>1, KeptPlan DEF Inv
  <2>3. plan.status = "completed" /\ Closed(plan')
    BY Zenon, <1>2, <2>1, <2>2 DEF EndInv
  <2>4. QED
    BY Zenon, <2>2, <2>3, EndCompletes
<1>7. ASSUME NEW s \in {status, "running"}, NEW l \in {"check", "model"}, KeepPlan(Then(s, l)),
             phase' = phase
      PROVE  EndInv'
  <2>1. s \in RunStatus /\ l \in Label \ {"emit"}
    BY <1>1, <1>2, Places
  <2>2. plan' = plan /\ Here' = l /\ Coming' = s /\ status' = s
    BY Zenon, <1>7, <2>1, KeptPlan DEF Inv
  <2>3. Here' # "tools" /\ Here' \in {"check", "advance", "request", "model", "tools"}
    BY <2>2
  <2>4. QED
    BY Zenon, <1>2, <1>7, <2>2, <2>3, EndRuns
<1>8. CASE RequestModel
  BY Zenon, <1>2, <1>7, <1>8, EndFails DEF RequestModel
<1>9. CASE ToolsDone
  <2>1. KeepPlan(Then("running", "check")) \/ KeepPlan(Then("limit_reached", "settle"))
    BY Zenon, <1>9 DEF ToolsDone
  <2>2. phase' = phase /\ "limit_reached" \in Unsuccessful
    BY Zenon, <1>2, <1>9 DEF ToolsDone
  <2>3. QED
    BY Zenon, <1>2, <1>7, <2>1, <2>2, EndStops
<1>10. QED
  BY Zenon, <1>3, <1>4, <1>5, <1>6, <1>8, <1>9

LEMMA SettleEnd == ASSUME Inv, EndInv, given' = given, Settle \/ Close PROVE EndInv'
<1>1. CASE Settle
  <2>1. SettlePlan("close") /\ phase' = phase /\ pc = "settle"
    BY Zenon, <1>1 DEF Settle
  <2>2. pc # "emit" /\ pc # "close" /\ Here \in {"settle", "close"} /\ "close" # "wait"
        /\ "close" \in {"close", "wait", "end"}
    BY <2>1 DEF Here
  <2>3. QED
    BY Zenon, <2>1, <2>2, EndSettles
<1>2. CASE Close
  <2>1. PICK l : l = IF status = "waiting" THEN "wait" ELSE "end"
    BY Zenon
  <2>2. SettlePlan(l) /\ phase' = phase /\ pc = "close"
    BY Zenon, <1>2, <2>1 DEF Close
  <2>3. /\ pc # "emit" /\ pc # "settle" /\ Here \in {"settle", "close"} /\ l # "close"
        /\ l \in {"close", "wait", "end"} /\ (l = "wait" <=> status = "waiting")
    BY <2>1, <2>2 DEF Here
  <2>4. QED
    BY Zenon, <2>2, <2>3, EndSettles
<1>3. QED
  BY Zenon, <1>1, <1>2

LEMMA OutsideEnd ==
  ASSUME Inv, EndInv, given' = given, Interrupt \/ InterruptLate \/ RequestCancel \/ Emit \/ UNCHANGED vars
  PROVE  EndInv'
<1>1. InterruptedStatus \notin {"completed", "running", "waiting"}
  BY DEF InterruptedStatus
<1>2. CASE Interrupt
  <2>1. /\ plan' = plan /\ phase' = phase /\ pc' = "close"
        /\ status' = IF status \in {"running", "waiting"} THEN InterruptedStatus ELSE status
    BY Zenon, <1>2 DEF Interrupt
  <2>2. status' \notin {"running", "waiting"} /\ (status' = "completed" => status = "completed")
    BY <1>1, <2>1
  <2>3. /\ ~Live' /\ Here' # "tools" /\ Here' # "end" /\ Coming' # "running"
        /\ "completed" \in {status', Coming'} => "completed" \in {status, Coming}
    BY <2>1, <2>2 DEF Live, Here, Coming
  <2>4. QED
    BY Zenon, <2>1, <2>3, EndStays
<1>3. CASE InterruptLate
  <2>1. /\ plan' = plan /\ phase' = phase /\ pc' = "end" /\ outside' = TRUE
        /\ status' \in {InterruptedStatus, status}
    BY Zenon, <1>3 DEF InterruptLate
  <2>2. /\ ~Live' /\ Here' # "tools" /\ Here' \notin {"settle", "close"}
        /\ "completed" \in {status', Coming'} => "completed" \in {status, Coming}
    BY <1>1, <2>1 DEF Live, Here, Coming
  <2>3. QED
    BY Zenon, <2>1, <2>2, EndStays
<1>4. CASE RequestCancel
  <2>1. /\ plan' = plan /\ phase' = phase /\ then' = then
        /\ \/ status' = "cancelled" /\ pc' = "end" /\ outside' = TRUE
           \/ status' = status /\ pc' = pc /\ outside' = outside
    BY Zenon, <1>4 DEF RequestCancel
  <2>2. CASE status' = "cancelled" /\ pc' = "end" /\ outside' = TRUE
    <3>1. /\ ~Live' /\ Here' # "tools" /\ Here' \notin {"settle", "close"}
          /\ "completed" \notin {status', Coming'}
      BY <2>2 DEF Live, Here, Coming
    <3>2. QED
      BY Zenon, <2>1, <2>2, <3>1, EndStays
  <2>3. CASE status' = status /\ pc' = pc /\ outside' = outside
    <3>1. Here' = Here /\ Coming' = Coming
      BY Zenon, <2>1, <2>3 DEF Here, Coming
    <3>2. QED
      BY Zenon, <2>1, <2>3, <3>1, GivenStays DEF EndInv, Live
  <2>4. QED
    BY Zenon, <2>1, <2>2, <2>3
<1>5. CASE Emit
  <2>1. /\ plan' = plan /\ phase' = phase /\ outside' = outside /\ pc = "emit"
        /\ status' = then.status /\ pc' = then.pc
    BY Zenon, <1>5 DEF Emit
  <2>2. then.pc # "emit"
    BY Places DEF Inv, TypeInv
  <2>3. Here' = Here /\ Coming' = Coming /\ status' = Coming
    BY <2>1, <2>2 DEF Here, Coming
  <2>4. {status', Coming'} \subseteq {status, Coming}
    BY <2>3
  <2>5. Live' = Live
    BY Zenon, <2>3 DEF Live
  <2>6. QED
    BY Zenon, <2>1, <2>3, <2>4, <2>5, GivenStays DEF EndInv
<1>6. CASE UNCHANGED vars
  <2>1. Here' = Here /\ Coming' = Coming
    BY Zenon, <1>6 DEF vars, Here, Coming
  <2>2. QED
    BY Zenon, <1>6, <2>1, GivenStays DEF vars, EndInv, Live
<1>7. QED
  BY Zenon, <1>2, <1>3, <1>4, <1>5, <1>6

LEMMA NextSuspended == ASSUME Inv, EndInv, SuspendedInv, [Next]_vars PROVE SuspendedInv'
<1>1. ASSUME suspended' = FALSE PROVE SuspendedInv'
  BY <1>1 DEF SuspendedInv
<1>2. ASSUME ~Live' PROVE SuspendedInv'
  BY Zenon, <1>2 DEF SuspendedInv
<1>3. ASSUME suspended' = suspended, phase' = phase, plan' = plan, Live' => Live,
             Here' \notin {"model", "tools"} \/ Here' = Here
      PROVE  SuspendedInv'
  BY Zenon, <1>3 DEF SuspendedInv
<1>4. suspended \in BOOLEAN
  BY Zenon DEF Inv, TypeInv
\* The answers of the model and of the Tools.
<1>5. ASSUME pc \in {"model", "tools"}, suspended' = suspended PROVE SuspendedInv'
  <2>1. Live /\ Here \in {"model", "tools"}
    BY <1>5 DEF Live, Here
  <2>2. suspended = FALSE
    BY Zenon, <1>4, <2>1 DEF SuspendedInv
  <2>3. QED
    BY Zenon, <1>1, <1>5, <2>2
<1>6. ASSUME \/ AnswerFails \/ CancelledMeanwhile \/ CallTools \/ Malformed \/ StepResult \/ Summary
             \/ ToolsDone \/ \E drafts \in Proposal : GeneratePlan(drafts) \/ Review(drafts)
      PROVE  SuspendedInv'
  <2>1. pc = "model" \/ pc = "tools" \/ pc \in {"model", "tools"}
    BY Zenon, <1>6 DEF AnswerFails, CancelledMeanwhile, CallTools, Malformed, StepResult,
       Summary,
         ToolsDone, GeneratePlan, Review
  <2>2. suspended' = suspended
    BY Zenon, <1>6 DEF AnswerFails, CancelledMeanwhile, CallTools, Malformed, StepResult,
       Summary,
         ToolsDone, GeneratePlan, Review
  <2>3. QED
    BY <1>5, <2>1, <2>2
<1>7. ASSUME RequestModel \/ ResumeBatch PROVE SuspendedInv'
  <2>1. suspended' = FALSE
    BY Zenon, <1>4, <1>7 DEF RequestModel, ResumeBatch
  <2>2. QED
    BY Zenon, <1>1, <2>1
<1>8. ASSUME LoopTop \/ AdvancePhase \/ Resume PROVE SuspendedInv'
  <2>1. suspended' = suspended /\ phase' = phase /\ plan' = plan
    BY Zenon, <1>8 DEF LoopTop, AdvancePhase, Resume
  <2>2. Live /\ Here' \notin {"model", "tools"}
    BY <1>8 DEF LoopTop, AdvancePhase, Resume, Live, Here
  <2>3. QED
    BY Zenon, <1>3, <2>1, <2>2
<1>9. ASSUME Emit \/ RequestCancel \/ UNCHANGED vars PROVE SuspendedInv'
  <2>1. suspended' = suspended /\ phase' = phase /\ plan' = plan
    BY Zenon, <1>9 DEF Emit, RequestCancel, vars
  <2>2. Live' => Live /\ Here' = Here
    <3>1. CASE Emit
      <4>1. then.pc # "emit" /\ pc = "emit" /\ status' = then.status /\ pc' = then.pc
        BY <3>1, Places DEF Emit, Inv, TypeInv
      <4>2. Here' = Here /\ Coming' = Coming
        BY <4>1 DEF Here, Coming
      <4>3. QED
        BY Zenon, <4>2 DEF Live
    <3>2. CASE RequestCancel
      <4>1. CASE pc = "wait"
        <5>1. pc' = "end"
          BY Zenon, <3>2, <4>1 DEF RequestCancel
        <5>2. QED
          BY <5>1 DEF Live, Here
      <4>2. CASE pc # "wait"
        <5>1. pc' = pc /\ status' = status /\ then' = then
          BY Zenon, <3>2, <4>2 DEF RequestCancel
        <5>2. QED
          BY Zenon, <5>1 DEF Live, Here, Coming
      <4>3. QED
        BY Zenon, <4>1, <4>2
    <3>3. CASE UNCHANGED vars
      BY Zenon, <3>3 DEF vars, Live, Here, Coming
    <3>4. QED
      BY Zenon, <1>9, <3>1, <3>2, <3>3
  <2>3. QED
    BY Zenon, <1>2, <1>3, <2>1, <2>2
<1>10. ASSUME Interrupt \/ InterruptLate PROVE SuspendedInv'
  <2>1. CASE Interrupt
    <3>1. /\ pc' = "close"
          /\ status' = IF status \in {"running", "waiting"} THEN InterruptedStatus ELSE status
      BY Zenon, <2>1 DEF Interrupt
    <3>2. ~Live'
      BY <3>1 DEF Live, Here, Coming, InterruptedStatus
    <3>3. QED
      BY Zenon, <1>2, <3>2
  <2>2. CASE InterruptLate
    <3>1. pc' = "end"
      BY Zenon, <2>2 DEF InterruptLate
    <3>2. ~Live'
      BY <3>1 DEF Live, Here
    <3>3. QED
      BY Zenon, <1>2, <3>2
  <2>3. QED
    BY Zenon, <1>10, <2>1, <2>2
<1>11. ASSUME Settle \/ Close PROVE SuspendedInv'
  <2>1. PICK l : l = IF pc = "settle" THEN "close" ELSE IF status = "waiting" THEN "wait" ELSE "end"
    BY Zenon
  <2>2. l \in After /\ l \in {"close", "wait", "end"} /\ pc \in {"settle", "close"}
    BY <1>11, <2>1 DEF After, Settle, Close
  <2>3. SettlePlan(l) /\ suspended' = suspended /\ phase' = phase
    <3>1. "settle" # "close"
      OBVIOUS
    <3>2. QED
      BY Zenon, <1>11, <2>1, <3>1 DEF Settle, Close
  <2>4. /\ status' = status /\ Here' = l /\ Coming' = status
        /\ status \notin Unsuccessful => plan' = plan
    BY Zenon, <2>2, <2>3, SettleFollows
  <2>5. Live' => status = "waiting" /\ Live
    BY <2>1, <2>2, <2>4 DEF Live, Here, Coming
  <2>6. Here' \notin {"model", "tools"} /\ "waiting" \notin Unsuccessful
    BY <2>2, <2>4 DEF Unsuccessful
  <2>7. QED
    BY Zenon, <1>2, <1>3, <2>3, <2>4, <2>5, <2>6
<1>12. ASSUME ToolsWait PROVE SuspendedInv'
  <2>1. /\ pc = "tools" /\ Sound(plan) /\ plan \in Plan /\ phase' = phase
    BY Zenon, <1>12 DEF ToolsWait, Inv, TypeInv
  <2>2. Asking /\ Here = "tools" /\ "settle" \in After /\ "waiting" \in RunStatus /\ FALSE \in BOOLEAN
    BY <2>1, Places DEF Here, Asking, After
  <2>3. phase = "executing" /\ phase # "planning"
    <3>1. phase = "executing"
      BY Zenon, <2>2 DEF EndInv
    <3>2. QED
      BY <3>1
  <2>4. With(plan, "running") # {} /\ plan # NoPlan
    BY Zenon, <2>2, <2>3 DEF Inv, LoopInv
  <2>5. PICK i : i = Min(With(plan, "running"))
    BY Zenon
  <2>6. i \in ActiveSteps(plan) /\ "waiting" \in Active
    BY <2>1, <2>4, <2>5, WithIn, Statuses
  <2>7. PICK q : q = SetStep(plan, i, "waiting", "waiting")
    BY Zenon
  <2>8. ActiveSteps(q) = ActiveSteps(plan)
    BY <2>1, <2>4, <2>6, <2>7, MoveSound
  <2>9. UpdatePlan(q, FALSE, Then("waiting", "settle"))
    BY Zenon, <1>12, <2>4, <2>5, <2>7 DEF ToolsWait, WaitStep
  <2>10. plan' = q /\ Here' = "settle"
    BY Zenon, <2>2, <2>9, Updated
  <2>11. Here' \notin {"model", "tools"}
    BY <2>10
  <2>12. QED
    BY Zenon, <2>1, <2>3, <2>6, <2>8, <2>10, <2>11 DEF SuspendedInv
<1>13. ASSUME AdvanceStep PROVE SuspendedInv'
  <2>1. /\ pc = "advance" /\ Sound(plan) /\ plan \in Plan /\ suspended' = suspended
    BY Zenon, <1>13 DEF AdvanceStep, Inv, TypeInv
  <2>2. Live /\ {"request", "close"} \subseteq Label \ {"emit"} /\ "request" \in After
        /\ {"running", "failed"} \subseteq RunStatus /\ FALSE \in BOOLEAN
    BY <2>1, Places DEF Live, Here, After
  <2>3. CASE ActiveSteps(plan) = {}
    <3>1. suspended' = FALSE
      BY Zenon, <1>4, <2>1, <2>2, <2>3 DEF SuspendedInv
    <3>2. QED
      BY Zenon, <1>1, <3>1
  <2>4. CASE Supported(plan) /\ With(plan, "waiting") # {}
    <3>1. PICK i : i = Min(With(plan, "waiting"))
      BY Zenon
    <3>2. i \in ActiveSteps(plan) /\ "running" \in Active
      BY <2>1, <2>4, <3>1, WithIn, Statuses
    <3>3. PICK q : q = SetStep(plan, i, "running", "running")
      BY Zenon
    <3>4. plan # NoPlan
      BY Zenon, <3>2, NoPlanIs DEF ActiveSteps
    <3>5. ActiveSteps(q) = ActiveSteps(plan)
      BY <2>1, <3>2, <3>3, <3>4, MoveSound
    <3>6. UpdatePlan(q, FALSE, Then("running", "request")) /\ phase' = phase /\ phase = "executing"
      BY Zenon, <1>13, <2>4, <3>1, <3>3 DEF AdvanceStep, ResumeStep
    <3>7. plan' = q /\ Here' = "request"
      BY Zenon, <2>2, <3>6, Updated
    <3>8. Here' \notin {"model", "tools"}
      BY <3>7
    <3>9. QED
      BY Zenon, <3>2, <3>5, <3>6, <3>7, <3>8 DEF SuspendedInv
  <2>5. CASE ~Supported(plan) \/ (With(plan, "waiting") = {} /\ With(plan, "running") # {})
    <3>1. PICK s \in {"running", "failed"} : \E l \in {"request", "close"} : KeepPlan(Then(s, l))
      BY Zenon, <1>13, <2>5 DEF AdvanceStep
    <3>2. PICK l \in {"request", "close"} : KeepPlan(Then(s, l))
      BY Zenon, <3>1
    <3>3. s \in RunStatus /\ l \in Label \ {"emit"}
      BY <2>2
    <3>4. plan' = plan /\ Here' = l
      BY Zenon, <3>2, <3>3, KeptPlan DEF Inv
    <3>5. phase' = phase
      BY Zenon, <1>13, <2>5 DEF AdvanceStep
    <3>6. Here' \notin {"model", "tools"}
      BY <3>4
    <3>7. QED
      BY Zenon, <1>3, <2>1, <2>2, <3>4, <3>5, <3>6
  <2>6. QED
    BY Zenon, <2>3, <2>4, <2>5, NoActive
<1>14. QED
  BY Zenon, <1>6, <1>7, <1>8, <1>9, <1>10, <1>11, <1>12, <1>13 DEF Next, Advance

LEMMA GivenKept == ASSUME [Next]_vars PROVE given' = given
BY Zenon DEF Next, Advance, vars

LEMMA NextEnd == ASSUME Inv, EndInv, SuspendedInv, Fit, ~Unasked, [Next]_vars PROVE EndInv'
BY Zenon, AdvanceEnd, StepResultEnd, GeneratePlanEnd, ReviewEnd, ToolsWaitEnd, LoopEnd,
   ModelEnd,
   SettleEnd, OutsideEnd, GivenKept DEF Next, Advance

\* PlanExecutor.settle: when the model calls only the Tools it is offered, the supplied
\* plan, if any, is consistent - with any history of completed, skipped, failed and
\* cancelled steps - and the runtime itself ends the Run - completed, failed, cancelled or
\* interrupted - no step of the plan is left active, and a Run that completed has completed
\* its plan, in which only those steps have failed that were supplied so.
THEOREM PlanEndsWithRun == ~Unasked => (Spec => []PlanSettled)
<1> SUFFICES ASSUME ~Unasked PROVE Spec => []PlanSettled
  OBVIOUS
<1> DEFINE E == Fit => EndInv /\ SuspendedInv
<1>1. Init => E
  <2>1. Init => suspended = FALSE
    BY Zenon DEF Init
  <2>2. QED
    BY <2>1, InitEnd DEF SuspendedInv
<1>2. Inv /\ E /\ [Next]_vars => E'
  BY Zenon, NextEnd, NextSuspended, GivenKept, GivenStays
<1>3. E => PlanSettled
  <2>1. pc = "end" => Here = "end"
    BY DEF Here
  <2>2. QED
    BY Zenon, <2>1 DEF EndInv, Closed, PlanSettled, Fit
<1> HIDE DEF E
<1>4. QED
  BY <1>1, <1>2, <1>3, Inductive, PTL DEF Spec
=============================================================================
