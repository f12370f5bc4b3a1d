---------------------------- MODULE EventStream ----------------------------
(***************************************************************************)
(* emit and subscribe of the three event stores: stores/in_memory.py wakes *)
(* its streams with a condition, stores/postgres/store.py polls, and       *)
(* stores/redis/store.py polls PostgreSQL and is woken by notifications    *)
(* that may be lost.  One Run, written by the call that executes it and by *)
(* others, and the streams that follow it.                                 *)
(***************************************************************************)
EXTENDS Naturals, Sequences, FiniteSets, SequencesExt

CONSTANTS
    Store,        \* "memory", "postgres" or "redis"
    Writer,       \* the calls that emit events
    Main,         \* the one of them that ends the Run
    Subscriber,   \* the streams
    Cursor,       \* values of after_sequence
    MaxEvents     \* bound on the events before the terminal one

ASSUME StreamAssumption == /\ Store \in {"memory", "postgres", "redis"}
                           /\ Main \in Writer
                           /\ Cursor \subseteq Nat /\ MaxEvents \in Nat

VARIABLES
    status,     \* of the stored Run, "active" or "ended"
    log,        \* the stored events, by kind
    row,        \* the writer that has locked the row of the Run, or nobody
    writer,     \* of each writer: where it is, what it emits, the maximum it read
    emitted,    \* number of emits begun
    pc,         \* where each stream is
    next,       \* next_sequence of each stream
    batch,      \* the sequence numbers it has listed and not yet yielded
    last,       \* did the list contain a permanent boundary
    notified    \* notifications of the channel a stream has not consumed;
                \* -1 while it is not subscribed

streams == <<pc, next, batch, last, notified>>
vars == <<status, log, row, writer, emitted, pc, next, batch, last, notified>>

Nobody == "nobody"

Feed == INSTANCE EventFeed WITH
           read <- [s \in Subscriber |-> next[s] - 1],
           feed <- [s \in Subscriber |->
                      CASE pc[s] = "new" -> "new" [] pc[s] = "closed" -> "closed"
                        [] OTHER -> "open"]

Init == /\ status = "active"
        /\ log = <<>>
        /\ row = Nobody
        /\ writer = [w \in Writer |-> [at |-> "idle", kind |-> "step", maximum |-> 0]]
        /\ emitted = 0
        /\ pc = [s \in Subscriber |-> "new"]
        /\ next = [s \in Subscriber |-> 1]
        /\ batch = [s \in Subscriber |-> <<>>]
        /\ last = [s \in Subscriber |-> FALSE]
        /\ notified = [s \in Subscriber |-> -1]

-----------------------------------------------------------------------------
\* Writers.

\* The terminal snapshot is saved before the terminal event is emitted.
SaveTerminal ==
    /\ status = "active" /\ writer[Main].at = "idle"
    /\ status' = "ended"
    /\ UNCHANGED <<log, row, writer, emitted, streams>>

\* What a writer may emit now.
MayEmit(w, kind) ==
    /\ writer[w].at = "idle"
    /\ CASE kind = "terminal" -> /\ w = Main /\ status = "ended"
                                 /\ \A i \in DOMAIN log : log[i] # "terminal"
         [] kind = "waiting" -> w = Main /\ status = "active" /\ emitted < MaxEvents
         [] OTHER -> (w = Main => status = "active") /\ emitted < MaxEvents

\* InMemoryEventStore.emit, under its lock; notify_all.
EmitMemory(w, kind) ==
    /\ Store = "memory" /\ MayEmit(w, kind)
    /\ log' = Append(log, kind)
    /\ pc' = [s \in Subscriber |-> IF pc[s] = "wait" THEN "list" ELSE pc[s]]
    /\ emitted' = emitted + 1
    /\ UNCHANGED <<status, row, writer, next, batch, last, notified>>

\* Faulty variant: the row of the Run is not locked.
ReadMaximumUnlocked(w, kind) ==
    /\ Store # "memory" /\ MayEmit(w, kind)
    /\ writer' = [writer EXCEPT ![w] = [at |-> "insert", kind |-> kind, maximum |-> Len(log)]]
    /\ emitted' = emitted + 1
    /\ UNCHANGED <<status, log, row, streams>>

\* PostgresStore.emit: SELECT ... FOR UPDATE of the Run, then the maximum.
ReadMaximum(w, kind) ==
    /\ Store # "memory" /\ MayEmit(w, kind)
    /\ row = Nobody
    /\ row' = w
    /\ writer' = [writer EXCEPT ![w] = [at |-> "insert", kind |-> kind, maximum |-> Len(log)]]
    /\ emitted' = emitted + 1
    /\ UNCHANGED <<status, log, streams>>

\* The event gets the number after the maximum; the commit frees the row.
Insert(w) ==
    /\ writer[w].at = "insert"
    /\ LET sequence == writer[w].maximum + 1 IN
       log' = IF sequence > Len(log) THEN Append(log, writer[w].kind)
              ELSE [log EXCEPT ![sequence] = writer[w].kind]
    /\ row' = Nobody
    /\ writer' = [writer EXCEPT ![w].at = IF Store = "redis" THEN "publish" ELSE "idle"]
    /\ UNCHANGED <<status, emitted, streams>>

\* RedisEventStore.emit publishes to those subscribed now; a RedisError is
\* logged and the notification is lost.
Publish(w) ==
    /\ writer[w].at = "publish"
    /\ \/ notified' = [s \in Subscriber |-> IF notified[s] = -1 THEN -1 ELSE 1]
       \/ UNCHANGED notified
    /\ writer' = [writer EXCEPT ![w].at = "idle"]
    /\ UNCHANGED <<status, log, row, emitted, pc, next, batch, last>>

Write(w) == \/ \E kind \in Feed!Boundary \cup {"step"} : EmitMemory(w, kind) \/ ReadMaximum(w, kind)
            \/ Insert(w) \/ Publish(w)

-----------------------------------------------------------------------------
\* Streams.

Goto(s, label) == pc' = [pc EXCEPT ![s] = label]

writers == <<status, log, row, writer, emitted>>

Subscribe(s) ==
    /\ pc[s] = "new"
    /\ \E after \in Cursor : next' = [next EXCEPT ![s] = after + 1]
    /\ Goto(s, "list")
    /\ UNCHANGED <<writers, batch, last, notified>>

\* The listed events from the cursor on.
Unread(s) == [i \in 1..(Len(log) + 1 - next[s]) |-> next[s] - 1 + i]

\* The in-memory stream waits under the lock that emit takes.
List(s) ==
    /\ pc[s] = "list"
    /\ IF Store = "memory" /\ Len(log) < next[s]
       THEN Goto(s, IF Feed!Finished THEN "closed" ELSE "wait") /\ UNCHANGED <<batch, last>>
       ELSE /\ batch' = [batch EXCEPT ![s] = Unread(s)]
            /\ last' = [last EXCEPT ![s] = Feed!Finished]
            /\ Goto(s, "yield")
    /\ UNCHANGED <<writers, next, notified>>

\* Faulty variant: the stream goes on until the list is empty, not to the boundary.
YieldPastBoundary(s) ==
    /\ pc[s] = "yield" /\ batch[s] # <<>>
    /\ next' = [next EXCEPT ![s] = Head(batch[s]) + 1]
    /\ Goto(s, "yield")
    /\ batch' = [batch EXCEPT ![s] = Tail(@)]
    /\ UNCHANGED <<writers, last, notified>>

\* The consumer takes one event; a boundary ends the stream.
Yield(s) ==
    /\ pc[s] = "yield" /\ batch[s] # <<>>
    /\ LET sequence == Head(batch[s]) IN
       /\ next' = [next EXCEPT ![s] = sequence + 1]
       /\ Goto(s, IF log[sequence] \in Feed!Boundary THEN "closed" ELSE "yield")
    /\ batch' = [batch EXCEPT ![s] = Tail(@)]
    /\ UNCHANGED <<writers, last, notified>>

\* After the batch: list again, look at the Run, or wait for a notification.
BatchDone(s) ==
    /\ pc[s] = "yield" /\ batch[s] = <<>>
    /\ Goto(s, CASE Store = "memory" -> "list"
                 [] Store = "postgres" -> "status"
                 [] last[s] -> "closed"
                 [] notified[s] = -1 -> "subscribe"
                 [] OTHER -> "message")
    /\ UNCHANGED <<writers, next, batch, last, notified>>

\* PostgresStore.subscribe: the status may be newer than the list.
CheckStatus(s) ==
    /\ pc[s] = "status"
    /\ Goto(s, IF status = "ended" THEN "closed" ELSE "sleep")
    /\ UNCHANGED <<writers, next, batch, last, notified>>

\* Redis accepts the subscription, and the store is listed again, or is down.
SubscribeChannel(s) ==
    /\ pc[s] = "subscribe"
    /\ \/ notified' = [notified EXCEPT ![s] = 0] /\ Goto(s, "list")
       \/ UNCHANGED notified /\ Goto(s, "sleep")
    /\ UNCHANGED <<writers, next, batch, last>>

\* Faulty variant: get_message has no timeout.
AwaitMessageForever(s) ==
    /\ pc[s] = "message"
    /\ notified[s] = 1
    /\ notified' = [notified EXCEPT ![s] = 0] /\ Goto(s, "list")
    /\ UNCHANGED <<writers, next, batch, last>>

\* A message or the timeout; or a RedisError, which ends the subscription.
AwaitMessage(s) ==
    /\ pc[s] = "message"
    /\ \/ notified' = [notified EXCEPT ![s] = 0] /\ Goto(s, "list")
       \/ notified' = [notified EXCEPT ![s] = -1] /\ Goto(s, "sleep")
    /\ UNCHANGED <<writers, next, batch, last>>

\* poll_interval passes.
Sleep(s) ==
    /\ pc[s] = "sleep"
    /\ Goto(s, "list")
    /\ UNCHANGED <<writers, next, batch, last, notified>>

Follow(s) == \/ List(s) \/ Yield(s) \/ BatchDone(s) \/ CheckStatus(s)
             \/ SubscribeChannel(s) \/ AwaitMessage(s) \/ Sleep(s)

Next == \/ SaveTerminal
        \/ \E w \in Writer : Write(w)
        \/ \E s \in Subscriber : Subscribe(s) \/ Follow(s)

Spec == Init /\ [][Next]_vars

\* A consumer takes what its stream yields, and timers fire.
FairSpec == Spec /\ \A s \in Subscriber : WF_vars(Follow(s))

-----------------------------------------------------------------------------
Number == 1..(MaxEvents + 1)

\* Every variable stays in its domain.
TypeOK == /\ status \in {"active", "ended"}
          /\ log \in Seq(Feed!Boundary \cup {"step"}) /\ Len(log) <= MaxEvents + 1
          /\ row \in Writer \cup {Nobody}
          /\ writer \in [Writer -> [at : {"idle", "insert", "publish"},
                                    kind : Feed!Boundary \cup {"step"}, maximum : 0..MaxEvents]]
          /\ emitted \in 0..(MaxEvents + 1)
          /\ pc \in [Subscriber -> {"new", "list", "wait", "yield", "status", "subscribe",
                                    "message", "sleep", "closed"}]
          /\ next \in [Subscriber -> Nat \ {0}]
          /\ batch \in [Subscriber -> Seq(Number)]
          /\ last \in [Subscriber -> BOOLEAN]
          /\ notified \in [Subscriber -> {-1, 0, 1}]

\* The streams of the store deliver every event after the cursor once and in
\* order, and end only at a boundary or with a cursor past the permanent one.
FollowsFeed == Feed!Spec

\* Concurrent emits never give one number twice: the log only grows, so that a
\* cursor a client keeps stays valid.
LogGrows == [][IsPrefix(log, log')]_vars

\* What is yielded is the event after the last one, whatever was emitted
\* between the list and the yield.
InOrder == [][\A s \in Subscriber : pc[s] = "yield" /\ next'[s] # next[s] =>
                 next'[s] = next[s] + 1 /\ next[s] <= Len(log)]_vars

\* What the docstring of RunHandle.stream says: a stream that has ended has
\* delivered the event at which the Run stopped, or was opened with a cursor
\* past it. A PostgreSQL stream may end before it (README, section 4).
EndsAtBoundary ==
    \A s \in Subscriber : pc[s] = "closed" =>
        \/ next[s] - 1 \in DOMAIN log /\ log[next[s] - 1] \in Feed!Boundary
        \/ \E i \in DOMAIN log : log[i] \in Feed!Permanent /\ i < next[s]

\* Every stored event reaches every open stream, or the stream has ended before
\* it, although notifications are lost.
CaughtUp ==
    \A s \in Subscriber, n \in Number :
        (pc[s] # "new" /\ n <= Len(log)) ~> (pc[s] = "closed" \/ next[s] > n)

\* The stream of a finished Run ends.
StreamsEnd ==
    \A s \in Subscriber : (pc[s] # "new" /\ Feed!Finished) ~> pc[s] = "closed"
=============================================================================
