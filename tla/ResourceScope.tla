---------------------------- MODULE ResourceScope ----------------------------
(***************************************************************************)
(* The resources of one Run (resources/manager.py) inside the execution    *)
(* segments of the runtime: eager acquisition at the start, lazy           *)
(* acquisition by Tools, release in reverse order before the Run rests.    *)
(* A factory, a release or the event store may fail, a Tool may time out   *)
(* and the task may be cancelled at every await.                           *)
(***************************************************************************)
EXTENDS Naturals, Sequences, SequencesExt

CONSTANTS
    Specs,            \* the registered resources, in their order
    Eager,            \* those acquired at the start
    FaultsInClose,    \* TRUE: also the release may be cancelled or meet a failing store
    MaxFaults,        \* bound on failures, timeouts and cancellations
    MaxSegments       \* bound on execution segments

Resource == ToSet(Specs)

ResourceAssumption ==
    /\ IsInjective(Specs) /\ Eager \subseteq Resource
    /\ FaultsInClose \in BOOLEAN /\ MaxFaults \in Nat /\ MaxSegments \in Nat

VARIABLES
    state,       \* of the scope
    order,       \* acquired resources, oldest first
    live,        \* resources that were entered and not exited
    entered,     \* how often each was entered in this segment
    failures,    \* failures reported in the Run
    events,      \* events of this segment
    pc,
    start,       \* eager resources still to be acquired; the segment is starting until then
    want,        \* resource that get was called for
    rest,        \* resources close has still to release
    outcome,     \* how the segment ends
    faults, segments

vars == <<state, order, live, entered, failures, events, pc, start, want, rest, outcome, faults, segments>>

None == "none"
NoneEntered == [r \in Resource |-> 0]

Init ==
    /\ state = "created" /\ order = <<>> /\ live = {} /\ entered = NoneEntered
    /\ failures = <<>> /\ events = <<>> /\ pc = "start" /\ start = <<>>
    /\ want = None /\ rest = <<>> /\ outcome = "running"
    /\ faults = 0 /\ segments = 1

Fault == faults < MaxFaults /\ faults' = faults + 1

\* ResourceManager.start
Start ==
    /\ pc = "start" /\ state = "created"
    /\ state' = "active"
    /\ start' = SelectSeq(Specs, LAMBDA r : r \in Eager)
    /\ pc' = "execute"
    /\ UNCHANGED <<order, live, entered, failures, events, want, rest, outcome, faults, segments>>

-----------------------------------------------------------------------------
Missing(r) == r \notin ToSet(order)

\* get, by start for the next eager resource, else by a Tool for any; what is
\* acquired already is only returned.
Get(r) ==
    /\ pc = "execute" /\ state = "active"
    /\ start # <<>> => r = Head(start)
    /\ Missing(r)
    /\ want' = r /\ pc' = "enter"
    /\ UNCHANGED <<state, order, live, entered, failures, events, start, rest, outcome, faults, segments>>

\* __aenter__ returns; the resource is recorded before the next await.
Enter ==
    /\ pc = "enter"
    /\ order' = Append(order, want) /\ live' = live \cup {want}
    /\ entered' = [entered EXCEPT ![want] = @ + 1]
    /\ pc' = "acquired"
    /\ UNCHANGED <<state, failures, events, start, want, rest, outcome, faults, segments>>

EnterFails ==
    /\ pc = "enter" /\ Fault
    /\ failures' = Append(failures, <<"acquire", want>>)
    /\ pc' = "refused"
    /\ UNCHANGED <<state, order, live, entered, events, start, want, rest, outcome, segments>>

EmitAcquired ==
    /\ pc = "acquired"
    /\ events' = Append(events, <<"acquired", want>>)
    /\ want' = None /\ pc' = "execute"
    /\ start' = IF start # <<>> THEN Tail(start) ELSE start
    /\ UNCHANGED <<state, order, live, entered, failures, rest, outcome, faults, segments>>

\* Faulty variant: start is called outside the try block.
RaisedOutside ==
    /\ want' = None /\ start' = <<>>
    /\ IF start # <<>> THEN outcome' = "failed" /\ pc' = "settle" ELSE pc' = "execute" /\ UNCHANGED outcome

\* What get raises fails the Run while it starts and only the call of a Tool later.
Raised ==
    /\ want' = None /\ start' = <<>>
    /\ IF start # <<>> THEN outcome' = "failed" /\ pc' = "close" ELSE pc' = "execute" /\ UNCHANGED outcome

EmitRefused ==
    /\ pc = "refused"
    /\ events' = Append(events, <<"failed", want>>)
    /\ Raised
    /\ UNCHANGED <<state, order, live, entered, failures, rest, faults, segments>>

StoreFails ==
    /\ pc \in {"acquired", "refused"} /\ Fault
    /\ Raised
    /\ UNCHANGED <<state, order, live, entered, failures, events, rest, segments>>

\* The timeout of the Tool that called get.
ToolTimesOut ==
    /\ pc \in {"enter", "acquired", "refused"} /\ start = <<>> /\ Fault
    /\ Raised
    /\ UNCHANGED <<state, order, live, entered, failures, events, rest, segments>>

\* The task of the Run is cancelled.
Cancelled ==
    /\ pc \in {"execute", "enter", "acquired", "refused"} /\ Fault
    /\ want' = None /\ start' = <<>>
    /\ outcome' = "interrupted" /\ pc' = "close"
    /\ UNCHANGED <<state, order, live, entered, failures, events, rest, segments>>

\* The strategy ends the segment.
Stop(result) ==
    /\ pc = "execute" /\ start = <<>>
    /\ outcome' = result /\ pc' = "close"
    /\ UNCHANGED <<state, order, live, entered, failures, events, start, want, rest, faults, segments>>

-----------------------------------------------------------------------------
ToRelease == Reverse(order)

\* close
Close ==
    /\ pc = "close"
    /\ state' = "closed" /\ rest' = ToRelease /\ pc' = "release"
    /\ UNCHANGED <<order, live, entered, failures, events, start, want, outcome, faults, segments>>

Exit ==
    /\ pc = "release" /\ rest # <<>>
    /\ live' = live \ {Head(rest)} /\ pc' = "released"
    /\ UNCHANGED <<state, order, entered, failures, events, start, want, rest, outcome, faults, segments>>

ExitFails ==
    /\ pc = "release" /\ rest # <<>> /\ Fault
    /\ live' = live \ {Head(rest)}
    /\ failures' = Append(failures, <<"release", Head(rest)>>)
    /\ pc' = "unreleased"
    /\ UNCHANGED <<state, order, entered, events, start, want, rest, outcome, segments>>

EmitReleased ==
    /\ pc \in {"released", "unreleased"}
    /\ events' = Append(events, <<IF pc = "released" THEN "released" ELSE "failed", Head(rest)>>)
    /\ rest' = Tail(rest) /\ pc' = "release"
    /\ UNCHANGED <<state, order, live, entered, failures, start, want, outcome, faults, segments>>

\* A cancellation in __aexit__ or in an emit, or an emit that raises, leaves close.
CloseRaises ==
    /\ FaultsInClose /\ pc \in {"released", "unreleased"} /\ Fault
    /\ pc' = "raised"
    /\ UNCHANGED <<state, order, live, entered, failures, events, start, want, rest, outcome, segments>>

Closed ==
    /\ pc = "release" /\ rest = <<>>
    /\ order' = <<>> /\ pc' = "settle"
    /\ UNCHANGED <<state, live, entered, failures, events, start, want, rest, outcome, faults, segments>>

\* The Run is finalized and its last event is sent.
Finalize ==
    /\ pc = "settle"
    /\ events' = Append(events, <<"run", outcome>>) /\ pc' = "ended"
    /\ UNCHANGED <<state, order, live, entered, failures, start, want, rest, outcome, faults, segments>>

\* A waiting Run is resumed with a new scope; reported failures stay.
Resume ==
    /\ pc = "ended" /\ outcome = "waiting" /\ segments < MaxSegments
    /\ segments' = segments + 1
    /\ state' = "created" /\ order' = <<>> /\ entered' = NoneEntered /\ events' = <<>>
    /\ pc' = "start" /\ outcome' = "running"
    /\ UNCHANGED <<live, failures, start, want, rest, faults>>

Next ==
    \/ Start \/ \E r \in Resource : Get(r)
    \/ Enter \/ EnterFails \/ EmitAcquired \/ EmitRefused
    \/ StoreFails \/ ToolTimesOut \/ Cancelled
    \/ \E result \in {"waiting", "completed", "failed"} : Stop(result)
    \/ Close \/ Exit \/ ExitFails \/ EmitReleased \/ CloseRaises \/ Closed
    \/ Finalize \/ Resume

Spec == Init /\ [][Next]_vars

-----------------------------------------------------------------------------
\* Each resource is entered at most once in an execution segment, whatever
\* failed or timed out before (ResourceManager.get).
OncePerSegment == \A r \in Resource : entered[r] <= 1

\* No resource outlives its segment: when the Run rests or an exception has left
\* the runtime, everything that was entered was exited, also after a partial
\* acquisition, a timeout or a cancellation (ResourceManager.close).
AllReleased == pc \in {"settle", "ended", "raised"} => live = {}

\* A resource is exited only when everything acquired after it has been exited.
ReverseOrder ==
    [][\A i, j \in DOMAIN order :
          i < j /\ order[i] \in live \ live' => order[j] \notin live']_vars

\* When the last event of a segment is sent, the end of every resource has been
\* told exactly once, after its acquisition, and the failed releases are among
\* the failures of the Run.
LifecycleTold ==
    pc = "ended" =>
        /\ Last(events)[1] = "run"
        /\ \A r \in Resource : entered[r] = 1 =>
              \E i \in DOMAIN events :
                  /\ events[i] = <<"released", r>> \/ (events[i] = <<"failed", r>> /\ <<"release", r>> \in ToSet(failures))
                  /\ \A j \in DOMAIN events : events[j] \in {<<"released", r>>, <<"acquired", r>>} => j <= i

=============================================================================
