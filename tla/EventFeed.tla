----------------------------- MODULE EventFeed -----------------------------
(***************************************************************************)
(* What RunHandle.stream promises: a stream replays the events after its   *)
(* cursor, each once and in order, follows new ones, and ends with the     *)
(* event at which the Run stops, or at once if its cursor is past the end. *)
(***************************************************************************)
EXTENDS Naturals, Sequences

CONSTANTS Subscriber, Cursor    \* Cursor: the values of after_sequence

VARIABLES
    log,    \* the events of the Run, by kind
    read,   \* the last event each stream has delivered, at first its cursor
    feed    \* "new", "open" or "closed"

Permanent == {"terminal"}

Boundary == Permanent \cup {"waiting"}

Finished == \E i \in DOMAIN log : log[i] \in Permanent

Init == /\ log = <<>>
        /\ read = [s \in Subscriber |-> 0]
        /\ feed = [s \in Subscriber |-> "new"]

Emit == /\ \E kind \in Boundary \cup {"step"} : log' = Append(log, kind)
        /\ UNCHANGED <<read, feed>>

Open(s) == /\ feed[s] = "new"
           /\ \E after \in Cursor : read' = [read EXCEPT ![s] = after]
           /\ feed' = [feed EXCEPT ![s] = "open"]
           /\ UNCHANGED log

Deliver(s) ==
    LET next == read[s] + 1 IN
    /\ feed[s] = "open" /\ next <= Len(log)
    /\ read' = [read EXCEPT ![s] = next]
    /\ feed' = [feed EXCEPT ![s] = IF log[next] \in Boundary THEN "closed" ELSE "open"]
    /\ UNCHANGED log

Close(s) ==
    /\ feed[s] = "open"
    /\ \E i \in DOMAIN log : log[i] \in Permanent /\ i <= read[s]
    /\ feed' = [feed EXCEPT ![s] = "closed"]
    /\ UNCHANGED <<log, read>>

Next == Emit \/ \E s \in Subscriber : Open(s) \/ Deliver(s) \/ Close(s)

vars == <<log, read, feed>>

Spec == Init /\ [][Next]_vars
=============================================================================
