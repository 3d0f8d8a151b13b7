---------------------------- MODULE OutboxClients ---------------------------
(***************************************************************************)
(* Several exporters on one outbox: each claims a batch, sends and settles  *)
(* its items in any order, and may die in between.  Producers enqueue ids   *)
(* at any time, ids that were stored before included.                       *)
(***************************************************************************)
EXTENDS DurableOutbox

CONSTANTS MaxEnqueues,      \* bound on the enqueue calls of a run
          MaxCrashes        \* bound on the exporter deaths of a run

ASSUME ClientsAssumption == MaxEnqueues \in Nat /\ MaxCrashes \in Nat

VARIABLES enqueues,         \* enqueue calls so far, also their stamp
          crashes           \* exporter deaths so far

clientVars == <<outboxVars, enqueues, crashes>>

ClientsInit == OutboxInit /\ enqueues = 0 /\ crashes = 0

\* A producer commits up to two items.
Enqueue(S) ==
    /\ enqueues < MaxEnqueues
    /\ enqueues' = enqueues + 1
    /\ Store(S, [i \in S |-> enqueues + 1])
    /\ UNCHANGED crashes

\* An exporter dies, or its drain ends by another exception.
Crash(o) ==
    /\ crashes < MaxCrashes
    /\ hand[o] # {}
    /\ crashes' = crashes + 1
    /\ DropBatch(o)
    /\ UNCHANGED enqueues

\* One step of the exporter's drain loop.
Drain(o) ==
    /\ \/ Claim(o)
       \/ \E i \in Ids : \/ Send(o, i)
                         \/ Acknowledge(o, i)
                         \/ Retry(o, i)
                         \/ LeaseLost(o, i)
    /\ UNCHANGED <<enqueues, crashes>>

ClientsTimers ==
    /\ \E i \in Ids : BackoffElapses(i) \/ LeaseLapses(i)
    /\ UNCHANGED <<enqueues, crashes>>

ClientsNext ==
    \/ \E S \in SUBSET Ids : Cardinality(S) \in 1 .. 2 /\ Enqueue(S)
    \/ \E o \in Owners : Drain(o) \/ Crash(o)
    \/ ClientsTimers

ClientsSpec == ClientsInit /\ [][ClientsNext]_clientVars

Settle(o) ==
    /\ \E i \in Ids : Acknowledge(o, i) \/ Retry(o, i)
    /\ UNCHANGED <<enqueues, crashes>>

\* An exporter keeps polling and working, and backoffs and leases run out.  Its
\* lease (30 s) outlasts a send (5 s), so an exporter that gets a batch again
\* and again settles one of its items before the lease lapses.
ClientsFairness ==
    /\ \A o \in Owners : WF_clientVars(Drain(o)) /\ SF_clientVars(Settle(o))
    /\ WF_clientVars(ClientsTimers)

ClientsFairSpec == ClientsSpec /\ ClientsFairness
-----------------------------------------------------------------------------
\* Types; a row is as old as the enqueue that made it (created_at).
OTypeOK ==
    /\ OutboxTypeOK
    /\ \A i \in Ids : rows[i].created <= enqueues
    /\ crashes <= MaxCrashes

\* A retained item is settled in the end: delivered, or dead-lettered after its
\* last attempt, through failures, lapsed leases and dying exporters.  A row that
\* is gone counts only if the transport took the item: pruning removes no other.
RetainedIsSettled ==
    \A i \in Ids : rows[i].state \in {"pending", "leased"}
                   ~> \/ rows[i].state \in {"delivered", "dead_letter"}
                      \/ rows[i] = NoRow /\ i \in taken
=============================================================================
