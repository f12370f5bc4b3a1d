--------------------------- MODULE MCEventStream ---------------------------
(***************************************************************************)
(* EventStream for TLC, over each of the three stores in one run: the      *)
(* store of a behaviour is chosen at its start.  Streams only read, so one  *)
(* of them shows what each of several would see.                           *)
(***************************************************************************)
EXTENDS EventStream

CONSTANTS w1, w2, s1

VARIABLE store

MCMain == w1

Postgres == INSTANCE EventStream WITH Store <- "postgres"
Redis == INSTANCE EventStream WITH Store <- "redis"

MCInit == Init /\ store \in {"memory", "postgres", "redis"}

MCNext == /\ \/ store = "memory" /\ Next
             \/ store = "postgres" /\ Postgres!Next
             \/ store = "redis" /\ Redis!Next
          /\ UNCHANGED store

FollowStore(s) == \/ store = "memory" /\ Follow(s)
                  \/ store = "postgres" /\ Postgres!Follow(s)
                  \/ store = "redis" /\ Redis!Follow(s)

MCFairSpec == /\ MCInit /\ [][MCNext]_<<vars, store>>
              /\ \A s \in Subscriber : WF_vars(FollowStore(s))

-----------------------------------------------------------------------------
\* The streams of InMemoryEventStore and RedisEventStore implement the feed:
\* they deliver every event after the cursor once and in order, and end only at
\* a boundary or with a cursor past the permanent one.
StreamsFollowFeed ==
    /\ Feed!Init
    /\ [][store # "postgres" => Feed!Next \/ UNCHANGED Feed!vars]_vars

\* In each of the stores the log only grows, by one writer at a time, and a stream
\* yields the event after the last one it has yielded.
LogDelivered == []TypeOK /\ LogGrows /\ InOrder

\* Every stored event reaches every open stream although notifications are lost, and
\* the stream of a Run that has ended comes to its end.
StreamsProgress == CaughtUp /\ StreamsEnd
=============================================================================
