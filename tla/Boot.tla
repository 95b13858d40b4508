--------------------------------- MODULE Boot ---------------------------------
(***************************************************************************)
(* The life of the server processes: run (cmd/server/main.go) from the     *)
(* configuration to the listening engine and back, with Migrate (postgres/ *)
(* migrate.go) in between.  Several nodes, possibly of different releases, *)
(* boot against one database; any of them may fail or be killed at any     *)
(* point, and is started again by whoever operates it, or not.             *)
(*                                                                         *)
(* A migration creates objects "IF NOT EXISTS".  PostgreSQL lets a second  *)
(* transaction that creates the same object wait for the first; if that    *)
(* commits, the second fails.                                              *)
(***************************************************************************)
EXTENDS Integers, FiniteSets

CONSTANTS
    Nodes,
    Last,           \* per node, its newest migration; files are sorted 1, 2, ...
    Served          \* bound: nodes that clients come to, that are told to stop, and
                    \* whose dedicated connection breaks; the others may still fail

ASSUME LastAssumption == Last \in [Nodes -> Nat]

VARIABLES
    stage,          \* how far run is
    at,             \* the version Migrate is at
    made,           \* nodes whose open transaction has created the objects
    found,          \* bookkeeping: versions whose objects are older than the server
    built,          \* versions whose objects are in the schema
    recorded,       \* schema_migrations
    lost,           \* bookkeeping: per node, versions another node was first at
    tracker,        \* nodes whose Hub has its SubscriptionTracker
    dedicated,      \* per node, the dedicated Redis connection: "none", "held",
                    \* "broken" (Redis has dropped it), "released" (by the node)
    listening,      \* nodes that accept connections
    signalled,      \* nodes whose root context is cancelled
    socket          \* per node, a client: "none", "routed" (subscribed), "failed"
                    \* (unrouted because Redis has failed) or "deaf" (unrouted for
                    \* any other reason)

schema == <<found, built, recorded, lost>>
wiring == <<tracker, dedicated, listening, signalled, socket>>
vars == <<stage, at, made, schema, wiring>>

Versions == UNION {1 .. Last[n] : n \in Nodes}
Migrating == {"table", "check", "body", "blocked", "insert", "commit"}
Stages == Migrating \cup {"down", "connect", "redis", "subscriber", "tracker", "listen",
                          "up", "drain"}

\* Some databases have the first tables already, created by hand.
Init ==
    /\ stage = [n \in Nodes |-> "down"]
    /\ at = [n \in Nodes |-> 1]
    /\ made = {}
    /\ \E k \in {0} \cup Versions : found = 1 .. k
    /\ built = found
    /\ recorded = {}
    /\ lost = [n \in Nodes |-> {}]
    /\ tracker = {}
    /\ dedicated = [n \in Nodes |-> "none"]
    /\ listening = {}
    /\ signalled = {}
    /\ socket = [n \in Nodes |-> "none"]

Go(n, from, to) == stage[n] = from /\ stage' = [stage EXCEPT ![n] = to]

\* The process ends: open transactions roll back, everything in memory is gone.
Exit(n) ==
    /\ stage' = [stage EXCEPT ![n] = "down"]
    /\ at' = [at EXCEPT ![n] = 1]
    /\ made' = made \ {n}
    /\ tracker' = tracker \ {n}
    /\ dedicated' = [dedicated EXCEPT ![n] = "none"]
    /\ listening' = listening \ {n}
    /\ signalled' = signalled \ {n}
    /\ socket' = [socket EXCEPT ![n] = "none"]

\* Somebody starts the server.
Start(n) == Go(n, "down", "connect") /\ UNCHANGED <<at, made, schema, wiring>>

\* Configuration, tracing, the pool and its ping.
ConnectPostgres(n) == Go(n, "connect", "table") /\ UNCHANGED <<at, made, schema, wiring>>

-----------------------------------------------------------------------------
(* Migrate *)

CreateTable(n) == Go(n, "table", "check") /\ UNCHANGED <<at, made, schema, wiring>>

\* SELECT EXISTS: a recorded version is skipped, for another one a transaction
\* begins; behind the last one Migrate ends.
CheckVersion(n) ==
    /\ \/ at[n] > Last[n] /\ Go(n, "check", "redis") /\ UNCHANGED at
       \/ /\ at[n] \in 1 .. Last[n] \cap recorded
          /\ Go(n, "check", "check")
          /\ at' = [at EXCEPT ![n] = @ + 1]
       \/ at[n] \in 1 .. Last[n] \ recorded /\ Go(n, "check", "body") /\ UNCHANGED at
    /\ UNCHANGED <<made, schema, wiring>>

\* Another transaction is creating the objects of v.
Busy(n, v) == \E m \in made \ {n} : at[m] = v

\* Mutated: the file is executed outside the transaction.
ExecOutside(n) ==
    /\ Go(n, "body", "insert")
    /\ built' = built \cup {at[n]}
    /\ UNCHANGED <<at, made, found, recorded, lost, wiring>>

\* The file: objects that exist are left, objects somebody is creating are waited for.
ExecBody(n) ==
    /\ \/ Go(n, "body", "insert") /\ at[n] \in built /\ UNCHANGED made
       \/ Go(n, "body", "blocked") /\ Busy(n, at[n]) /\ UNCHANGED made
       \/ Go(n, "body", "insert") /\ at[n] \notin built /\ ~Busy(n, at[n]) /\ made' = made \cup {n}
    /\ UNCHANGED <<at, schema, wiring>>

\* Another node was first: fatal, main exits.
Loses(n) ==
    /\ lost' = [lost EXCEPT ![n] = @ \cup {at[n]}]
    /\ Exit(n)
    /\ UNCHANGED <<found, built, recorded>>

\* Mutated: whoever is not first waits until the version is recorded.
AwaitRecord(n) ==
    /\ stage[n] = "blocked"
    /\ at[n] \in recorded
    /\ Loses(n)

\* The transaction waited for has ended: a duplicate object, or the way is free.
Unblocked(n) ==
    /\ stage[n] = "blocked" /\ ~Busy(n, at[n])
    /\ \/ at[n] \in built /\ Loses(n)
       \/ /\ at[n] \notin built
          /\ Go(n, "blocked", "insert")
          /\ made' = made \cup {n}
          /\ UNCHANGED <<at, schema, wiring>>

\* INSERT INTO schema_migrations: the primary key waits for a transaction that
\* has inserted the version, and refuses it once it is there.
InsertVersion(n) ==
    /\ stage[n] = "insert"
    /\ \A m \in Nodes \ {n} : ~(stage[m] = "commit" /\ at[m] = at[n])
    /\ \/ at[n] \in recorded /\ Loses(n)
       \/ /\ at[n] \notin recorded
          /\ Go(n, "insert", "commit")
          /\ UNCHANGED <<at, made, schema, wiring>>

Commits(n) ==
    /\ built' = built \cup {at[n]}
    /\ recorded' = recorded \cup {at[n]}
    /\ UNCHANGED <<found, lost>>

\* Mutated: the loop moves on twice.
CommitTwice(n) ==
    /\ Go(n, "commit", "check")
    /\ Commits(n)
    /\ at' = [at EXCEPT ![n] = @ + 2]
    /\ made' = made \ {n}
    /\ UNCHANGED wiring

Commit(n) ==
    /\ Go(n, "commit", "check")
    /\ Commits(n)
    /\ at' = [at EXCEPT ![n] = @ + 1]
    /\ made' = made \ {n}
    /\ UNCHANGED wiring

\* Mutated: an error is logged and the boot goes on without the migration.
FailureContinues(n) ==
    /\ stage[n] \in Migrating
    /\ stage' = [stage EXCEPT ![n] = "redis"]
    /\ made' = made \ {n}
    /\ UNCHANGED <<at, schema, wiring>>

\* An error of any call, a kill, or a signal up to the last statement of Migrate
\* (the statements take the context it cancels): main exits.  A COMMIT without an
\* answer may have worked.
Fail(n) ==
    /\ stage[n] # "down"
    /\ Exit(n)
    /\ UNCHANGED schema \/ (stage[n] = "commit" /\ Commits(n))

-----------------------------------------------------------------------------
(* Wiring and the end *)

ConnectRedis(n) == Go(n, "redis", "subscriber") /\ UNCHANGED <<at, made, schema, wiring>>

\* Subscriber.Start: the hooks are installed before anybody can subscribe.
StartSubscriber(n) ==
    /\ Go(n, "subscriber", "tracker")
    /\ dedicated' = [dedicated EXCEPT ![n] = "held"]
    /\ UNCHANGED <<at, made, schema, tracker, listening, signalled, socket>>

\* Mutated: the tracker is left out.
SkipTracker(n) == Go(n, "tracker", "listen") /\ UNCHANGED <<at, made, schema, wiring>>

SetTracker(n) ==
    /\ Go(n, "tracker", "listen")
    /\ tracker' = tracker \cup {n}
    /\ UNCHANGED <<at, made, schema, dedicated, listening, signalled, socket>>

\* The routes are on the mux; server.Start listens and starts the reaper.
Listen(n) ==
    /\ Go(n, "listen", "up")
    /\ listening' = listening \cup {n}
    /\ UNCHANGED <<at, made, schema, tracker, dedicated, signalled, socket>>

\* What becomes of a client that registers: without a tracker nobody subscribes;
\* with one the SUBSCRIBE works, or fails and is logged, and the client stays.
Outcomes(n) ==
    CASE n \notin tracker             -> {"deaf"}
      [] dedicated[n] = "held"        -> {"routed", "failed"}
      [] dedicated[n] = "broken"      -> {"failed"}
      [] OTHER                        -> {"deaf"}

\* A client connects.
Accept(n) ==
    /\ n \in Served \cap listening /\ socket[n] = "none"
    /\ \E outcome \in Outcomes(n) : socket' = [socket EXCEPT ![n] = outcome]
    /\ UNCHANGED <<stage, at, made, schema, tracker, dedicated, listening, signalled>>

Leave(n) ==
    /\ socket[n] # "none"
    /\ socket' = [socket EXCEPT ![n] = "none"]
    /\ UNCHANGED <<stage, at, made, schema, tracker, dedicated, listening, signalled>>

\* The client loses its subscription, whatever becomes of its connection.
Unroute(n, how) == socket' = [socket EXCEPT ![n] = IF @ = "routed" THEN how ELSE @]

\* Redis drops the dedicated connection: nobody reads hookErr, nobody dedicates
\* another one, and the subscriptions are gone.
Break(n) ==
    /\ n \in Served /\ dedicated[n] = "held"
    /\ dedicated' = [dedicated EXCEPT ![n] = "broken"]
    /\ Unroute(n, "failed")
    /\ UNCHANGED <<stage, at, made, schema, tracker, listening, signalled>>

-----------------------------------------------------------------------------
(* Signals *)

\* run does not look at the root context between Migrate and its last lines.
Deferred == {"redis", "subscriber", "tracker", "listen", "up"}

\* SIGINT or SIGTERM cancels the root context; an earlier one is a Fail.
Signal(n) ==
    /\ n \in Served \ signalled
    /\ stage[n] \in Deferred \/ (stage[n] = "check" /\ at[n] > Last[n])
    /\ signalled' = signalled \cup {n}
    /\ UNCHANGED <<stage, at, made, schema, tracker, dedicated, listening, socket>>

\* The goroutine of Subscriber.Start sees it at once, also while run still boots
\* or clients are served.
Release(n) ==
    /\ n \in signalled /\ dedicated[n] = "held"
    /\ dedicated' = [dedicated EXCEPT ![n] = "released"]
    /\ Unroute(n, "deaf")
    /\ UNCHANGED <<stage, at, made, schema, tracker, listening, signalled>>

\* Only a node that is up sees it in run.
Drain(n) == n \in signalled /\ Go(n, "up", "drain") /\ UNCHANGED <<at, made, schema, wiring>>

\* server.Stop returns, after ten seconds at the latest; then the deferred closes.
Stop(n) == stage[n] = "drain" /\ Exit(n) /\ UNCHANGED schema

-----------------------------------------------------------------------------
BootStep(n) ==
    \/ ConnectPostgres(n) \/ CreateTable(n) \/ CheckVersion(n)
    \/ ExecBody(n) \/ Unblocked(n) \/ InsertVersion(n) \/ Commit(n)
    \/ ConnectRedis(n) \/ StartSubscriber(n) \/ SetTracker(n) \/ Listen(n)

Next ==
    \E n \in Nodes :
        \/ Start(n) \/ BootStep(n) \/ Fail(n)
        \/ Accept(n) \/ Leave(n) \/ Break(n)
        \/ Signal(n) \/ Release(n) \/ Drain(n) \/ Stop(n)

Spec == Init /\ [][Next]_vars

\* A process that has been started runs, and the database answers; its lock
\* queues let everybody have a turn.  Nobody has to start a process, and nothing
\* has to fail.
FairSpec == Spec /\ \A n \in Nodes : SF_vars(BootStep(n)) /\ WF_vars(Drain(n) \/ Stop(n))

-----------------------------------------------------------------------------
(* Properties *)

\* Every node is at a stage of run and at a version it knows or just behind; a
\* transaction that has created something is open.
TypeOK ==
    /\ stage \in [Nodes -> Stages]
    /\ at \in [Nodes -> Nat] /\ \A n \in Nodes : at[n] \in 1 .. Last[n] + 1
    /\ made \subseteq {n \in Nodes : stage[n] \in {"insert", "commit"}}
    /\ found \cup built \cup recorded \subseteq Versions
    /\ lost \in [Nodes -> SUBSET Versions]
    /\ tracker \cup listening \cup signalled \subseteq Nodes
    /\ dedicated \in [Nodes -> {"none", "held", "broken", "released"}]
    /\ socket \in [Nodes -> {"none", "routed", "failed", "deaf"}]

\* Whichever nodes boot at once and wherever one of them dies, the versions that
\* are recorded are the first ones, in the schema, and nothing else has been put
\* into the schema: a file is executed and recorded together or not at all.  A
\* boot that fails because another node was first has lost against a commit: the
\* next boot skips the version, and nobody is stuck.
SchemaIsRecorded ==
    /\ \E k \in {0} \cup Versions : recorded = 1 .. k
    /\ built = recorded \cup found
    /\ \A n \in Nodes : lost[n] \subseteq recorded

\* A node serves clients only with the complete schema of its release.
ServesMigrated == \A n \in listening : 1 .. Last[n] \subseteq recorded

\* Whatever the order of the boot, the clients, the signal and the failures of
\* Redis: a client that is connected and does not receive what Redis publishes for
\* it is one whose SUBSCRIBE has failed or whose dedicated connection Redis has
\* dropped, or its node has been told to stop.
ClientsAreRouted == \A n \in Nodes : socket[n] = "deaf" => n \in signalled

\* At rest: not started, or serving and not told to stop.
Settled(n) == stage[n] = "down" \/ (stage[n] = "up" /\ n \notin signalled)

\* Every boot ends, with a server that is up or with an exit, also when several
\* nodes wait for each other's transactions; and a node that is told to stop, even
\* in the middle of its boot, ends.
BootEnds == \A n \in Nodes : ~Settled(n) ~> Settled(n)
=============================================================================
