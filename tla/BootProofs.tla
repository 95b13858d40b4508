------------------------------- MODULE BootProofs -------------------------------
(***************************************************************************)
(* What holds of booting and stopping for any number of nodes and any      *)
(* releases.  IInv adds to the invariants of the run which versions a node *)
(* has behind it at each stage of run, what an open transaction may create *)
(* and which parts of the wiring a stage implies.                          *)
(***************************************************************************)
EXTENDS Boot, TLAPS

Past == {"redis", "subscriber", "tracker", "listen", "up", "drain"}

\* The versions a node has passed are recorded; one it is about to commit is
\* not, and nobody else is about to commit it.
PassInv ==
    /\ \A n \in Nodes :
          /\ 1 .. at[n] - 1 \subseteq recorded
          /\ stage[n] \in {"body", "blocked", "insert", "commit"} => at[n] <= Last[n]
          /\ stage[n] = "commit" => at[n] \notin recorded
          /\ stage[n] \in Past => 1 .. Last[n] \subseteq recorded
    /\ \A m, n \in Nodes :
          stage[m] = "commit" /\ stage[n] = "commit" /\ at[m] = at[n] => m = n

\* Nobody creates, or waits for, objects that are older than the server.
MadeInv ==
    \A n \in Nodes : n \in made \/ stage[n] = "blocked" => at[n] \notin found

\* Who listens has a tracker, and a dedicated connection or the reason why not.
WiringInv ==
    \A n \in Nodes :
        /\ stage[n] \in {"tracker", "listen", "up", "drain"} => dedicated[n] # "none"
        /\ stage[n] \in {"listen", "up", "drain"} => n \in tracker
        /\ n \in listening => stage[n] \in {"up", "drain"}
        /\ dedicated[n] = "released" => n \in signalled
        /\ socket[n] = "deaf" => n \in signalled

IInv == TypeOK /\ SchemaIsRecorded /\ PassInv /\ MadeInv /\ WiringInv

\* At first no node is up and nothing is recorded.
LEMMA InitIInv == Init => IInv
<1> SUFFICES ASSUME Init  PROVE IInv
    OBVIOUS
<1>1. PICK k \in {0} \cup Versions : found = 1 .. k
    BY DEF Init
<1>2. 1 .. 0 = {}
    OBVIOUS
<1>3. found \subseteq Versions
    BY <1>1, LastAssumption DEF Versions
<1>4. TypeOK
    BY <1>3, LastAssumption DEF Init, TypeOK, Stages
<1>5. SchemaIsRecorded
    BY <1>2 DEF Init, SchemaIsRecorded
<1>6. PassInv /\ MadeInv /\ WiringInv
    BY DEF Init, PassInv, MadeInv, WiringInv, Past
<1> QED  BY <1>4, <1>5, <1>6 DEF IInv

\* Moving a node to a version it knows, or just behind, keeps its range.
LEMMA AtStaysInRange ==
    ASSUME TypeOK, NEW n \in Nodes, NEW v \in 1 .. Last[n] + 1, at' = [at EXCEPT ![n] = v]
    PROVE  /\ at' \in [Nodes -> Nat]
           /\ \A m \in Nodes : at'[m] \in 1 .. Last[m] + 1
<1>1. v \in Nat
    BY LastAssumption
<1>2. at' \in [Nodes -> Nat]
    BY <1>1 DEF TypeOK
<1>3. ASSUME NEW m \in Nodes  PROVE at'[m] \in 1 .. Last[m] + 1
    <2>1. CASE m = n  BY <2>1 DEF TypeOK
    <2>2. CASE m # n  BY <2>2 DEF TypeOK
    <2> QED  BY <2>1, <2>2
<1> QED  BY <1>2, <1>3

-----------------------------------------------------------------------------
(* The end of a process *)

\* Whatever a process leaves behind when it exits, the schema included, agrees
\* with what the others rely on.
LEMMA ExitKeepsIInv ==
    ASSUME IInv, NEW n \in Nodes, Exit(n), UNCHANGED <<found, built, recorded>>,
           lost' \in [Nodes -> SUBSET recorded]
    PROVE  IInv'
<1> USE LastAssumption DEF IInv, Exit
<1>1. TypeOK'
    <2>1. lost' \in [Nodes -> SUBSET Versions]
        BY DEF TypeOK
    <2>2. stage' \in [Nodes -> Stages] /\ socket' \in [Nodes -> {"none", "routed", "failed", "deaf"}]
        BY DEF TypeOK, Stages
    <2>3. at' \in [Nodes -> Nat] /\ \A m \in Nodes : at'[m] \in 1 .. Last[m] + 1
        <3>1. 1 \in 1 .. Last[n] + 1
            OBVIOUS
        <3> QED  BY <3>1, AtStaysInRange
    <2>4. made' \subseteq {m \in Nodes : stage'[m] \in {"insert", "commit"}}
        BY DEF TypeOK
    <2>5. /\ tracker' \cup listening' \cup signalled' \subseteq Nodes
          /\ dedicated' \in [Nodes -> {"none", "held", "broken", "released"}]
        BY DEF TypeOK
    <2> QED  BY <2>1, <2>2, <2>3, <2>4, <2>5 DEF TypeOK
<1>2. SchemaIsRecorded'
    BY DEF SchemaIsRecorded
<1>3. PassInv' /\ MadeInv' /\ WiringInv'
    BY DEF TypeOK, PassInv, MadeInv, WiringInv, Past
<1> QED  BY <1>1, <1>2, <1>3

\* A commit extends the record by the next version: whoever has come as far as
\* the commit has all versions before it behind it.
LEMMA CommitsExtend ==
    ASSUME IInv, NEW n \in Nodes, stage[n] = "commit", Commits(n)
    PROVE  /\ SchemaIsRecorded'
           /\ recorded' = recorded \cup {at[n]}
           /\ at[n] \in 1 .. Last[n]
           /\ found' \cup built' \cup recorded' \subseteq Versions
           /\ 1 .. at[n] \subseteq recorded'
<1> USE LastAssumption DEF IInv, Commits
<1>1. at[n] \in 1 .. Last[n] /\ at[n] \notin recorded /\ 1 .. at[n] - 1 \subseteq recorded
    BY DEF TypeOK, PassInv
<1>2. at[n] \in Versions
    BY <1>1 DEF Versions
<1>3. PICK k \in {0} \cup Versions : recorded = 1 .. k
    BY DEF SchemaIsRecorded
<1>4. k \in Nat
    BY <1>3 DEF Versions
<1>5. recorded' = 1 .. at[n]
    BY <1>1, <1>3, <1>4
<1>6. built' = recorded' \cup found'
    BY DEF SchemaIsRecorded
<1>7. \A m \in Nodes : lost'[m] \subseteq recorded'
    BY DEF SchemaIsRecorded
<1>8. SchemaIsRecorded'
    BY <1>2, <1>5, <1>6, <1>7 DEF SchemaIsRecorded, Versions
<1> QED  BY <1>1, <1>2, <1>5, <1>8 DEF TypeOK

\* Another node was first: what it has lost against is recorded.
LEMMA LosesKeepsIInv ==
    ASSUME IInv, NEW n \in Nodes, Loses(n), at[n] \in recorded
    PROVE  IInv'
<1>1. lost' \in [Nodes -> SUBSET recorded]
    BY DEF Loses, IInv, TypeOK, SchemaIsRecorded
<1> QED  BY <1>1, ExitKeepsIInv DEF Loses

\* An error, a kill or an early signal, also one that a commit survives.
LEMMA FailKeepsIInv ==
    ASSUME IInv, NEW n \in Nodes, Fail(n)  PROVE IInv'
<1>1. CASE UNCHANGED schema
    <2>1. lost' \in [Nodes -> SUBSET recorded]
        BY <1>1 DEF schema, IInv, TypeOK, SchemaIsRecorded
    <2> QED  BY <1>1, <2>1, ExitKeepsIInv DEF Fail, schema
<1>2. CASE stage[n] = "commit" /\ Commits(n)
    <2> USE <1>2, LastAssumption DEF IInv, Fail, Exit, Commits
    <2>1. SchemaIsRecorded' /\ found' \cup built' \cup recorded' \subseteq Versions
        BY CommitsExtend
    <2>2. TypeOK'
        <3>1. 1 \in 1 .. Last[n] + 1
            OBVIOUS
        <3>2. at' \in [Nodes -> Nat] /\ \A m \in Nodes : at'[m] \in 1 .. Last[m] + 1
            BY <3>1, AtStaysInRange
        <3>3. stage' \in [Nodes -> Stages] /\ socket' \in [Nodes -> {"none", "routed", "failed", "deaf"}]
            BY DEF TypeOK, Stages
        <3>4. made' \subseteq {m \in Nodes : stage'[m] \in {"insert", "commit"}}
            BY DEF TypeOK
        <3>5. /\ tracker' \cup listening' \cup signalled' \subseteq Nodes
              /\ dedicated' \in [Nodes -> {"none", "held", "broken", "released"}]
            BY DEF TypeOK
        <3>6. lost' \in [Nodes -> SUBSET Versions]
            BY DEF TypeOK
        <3> QED  BY <2>1, <3>2, <3>3, <3>4, <3>5, <3>6 DEF TypeOK
    <2>3. PassInv'
        BY DEF TypeOK, PassInv, Past
    <2>4. MadeInv' /\ WiringInv'
        BY DEF TypeOK, MadeInv, WiringInv
    <2> QED  BY <2>1, <2>2, <2>3, <2>4
<1> QED  BY <1>1, <1>2 DEF Fail

\* The deferred closes of run.
LEMMA StopKeepsIInv ==
    ASSUME IInv, NEW n \in Nodes, Stop(n)  PROVE IInv'
<1>1. lost' \in [Nodes -> SUBSET recorded]
    BY DEF Stop, schema, IInv, TypeOK, SchemaIsRecorded
<1> QED  BY <1>1, ExitKeepsIInv DEF Stop, schema

-----------------------------------------------------------------------------
(* The boot *)

\* The steps that touch neither the schema nor a transaction.
LEMMA WiringKeepsIInv ==
    ASSUME IInv, NEW n \in Nodes,
           \/ Start(n) \/ ConnectPostgres(n) \/ CreateTable(n) \/ ConnectRedis(n)
           \/ StartSubscriber(n) \/ SetTracker(n) \/ Listen(n)
           \/ Accept(n) \/ Leave(n) \/ Break(n) \/ Signal(n) \/ Release(n) \/ Drain(n)
    PROVE  IInv'
<1> USE DEF IInv, Go, schema, wiring
<1>1. UNCHANGED <<at, made, found, built, recorded, lost>>
    BY DEF Start, ConnectPostgres, CreateTable, ConnectRedis, StartSubscriber, SetTracker,
           Listen, Accept, Leave, Break, Unroute, Signal, Release, Drain
<1>2. /\ stage' \in [Nodes -> Stages]
      /\ \A m \in Nodes : \/ stage'[m] = stage[m]
                          \/ m = n /\ stage[n] = "down" /\ stage'[n] = "connect"
                          \/ m = n /\ stage[n] \in {"connect", "table"} /\ stage'[n] \in {"table", "check"}
                          \/ m = n /\ stage[n] \in Past /\ stage'[n] \in Past
    BY DEF Start, ConnectPostgres, CreateTable, ConnectRedis, StartSubscriber, SetTracker,
           Listen, Accept, Leave, Break, Unroute, Signal, Release, Drain, TypeOK, Stages, Migrating, Past
<1>3. TypeOK'
    <2>1. made' \subseteq {m \in Nodes : stage'[m] \in {"insert", "commit"}}
        BY <1>1, <1>2 DEF TypeOK, Past
    <2>2. /\ tracker' \cup listening' \cup signalled' \subseteq Nodes
          /\ dedicated' \in [Nodes -> {"none", "held", "broken", "released"}]
        BY DEF Start, ConnectPostgres, CreateTable, ConnectRedis, StartSubscriber, SetTracker,
               Listen, Accept, Leave, Break, Unroute, Signal, Release, Drain, TypeOK
    <2>3. socket' \in [Nodes -> {"none", "routed", "failed", "deaf"}]
        BY DEF Start, ConnectPostgres, CreateTable, ConnectRedis, StartSubscriber, SetTracker,
               Listen, Accept, Leave, Break, Unroute, Signal, Release, Drain, Outcomes, TypeOK
    <2> QED  BY <1>1, <1>2, <2>1, <2>2, <2>3 DEF TypeOK
<1>4. SchemaIsRecorded'
    BY <1>1 DEF SchemaIsRecorded
<1>5. PassInv' /\ MadeInv'
    BY <1>1, <1>2 DEF PassInv, MadeInv, Past
<1>6. WiringInv'
    BY DEF Start, ConnectPostgres, CreateTable, ConnectRedis, StartSubscriber, SetTracker,
           Listen, Accept, Leave, Break, Unroute, Signal, Release, Drain, Outcomes, TypeOK, WiringInv
<1> QED  BY <1>3, <1>4, <1>5, <1>6

\* A version that is skipped is recorded; behind the last one all of them are.
LEMMA CheckVersionKeepsIInv ==
    ASSUME IInv, NEW n \in Nodes, CheckVersion(n)  PROVE IInv'
<1> USE LastAssumption DEF IInv, CheckVersion, Go, schema, wiring
<1>1. TypeOK'
    <2>1. at' = at \/ (at[n] \in 1 .. Last[n] /\ at' = [at EXCEPT ![n] = at[n] + 1])
        OBVIOUS
    <2>2. at' \in [Nodes -> Nat] /\ \A m \in Nodes : at'[m] \in 1 .. Last[m] + 1
        <3>1. CASE at' = at
            BY <3>1 DEF TypeOK
        <3>2. CASE at[n] \in 1 .. Last[n] /\ at' = [at EXCEPT ![n] = at[n] + 1]
            <4>1. at[n] + 1 \in 1 .. Last[n] + 1
                BY <3>2
            <4> QED  BY <3>2, <4>1, AtStaysInRange
        <3> QED  BY <2>1, <3>1, <3>2
    <2>3. stage' \in [Nodes -> Stages] /\ made' \subseteq {m \in Nodes : stage'[m] \in {"insert", "commit"}}
        BY DEF TypeOK, Stages, Migrating
    <2> QED  BY <2>2, <2>3 DEF TypeOK
<1>2. SchemaIsRecorded'
    BY DEF SchemaIsRecorded
<1>3. PassInv'
    BY DEF TypeOK, PassInv, Past
<1>4. MadeInv' /\ WiringInv'
    BY DEF TypeOK, MadeInv, WiringInv
<1> QED  BY <1>1, <1>2, <1>3, <1>4

\* Only objects that are not in the schema are created or waited for.
LEMMA ExecBodyKeepsIInv ==
    ASSUME IInv, NEW n \in Nodes, ExecBody(n)  PROVE IInv'
<1> USE LastAssumption DEF IInv, ExecBody, Go, schema, wiring
<1>1. TypeOK'
    <2>1. stage' \in [Nodes -> Stages] /\ made' \subseteq {m \in Nodes : stage'[m] \in {"insert", "commit"}}
        BY DEF TypeOK, Stages, Migrating
    <2> QED  BY <2>1 DEF TypeOK
<1>2. SchemaIsRecorded'
    BY DEF SchemaIsRecorded
<1>3. PassInv' /\ WiringInv'
    BY DEF TypeOK, PassInv, WiringInv, Past
<1>4. MadeInv'
    BY DEF TypeOK, MadeInv, SchemaIsRecorded, Busy
<1> QED  BY <1>1, <1>2, <1>3, <1>4

\* What was waited for and is there now has been committed, and recorded with it.
LEMMA UnblockedKeepsIInv ==
    ASSUME IInv, NEW n \in Nodes, Unblocked(n)  PROVE IInv'
<1>1. CASE at[n] \in built /\ Loses(n)
    <2>1. at[n] \in recorded
        BY <1>1 DEF Unblocked, IInv, MadeInv, SchemaIsRecorded
    <2> QED  BY <1>1, <2>1, LosesKeepsIInv
<1>2. CASE /\ Go(n, "blocked", "insert")
           /\ made' = made \cup {n}
           /\ UNCHANGED <<at, schema, wiring>>
    <2> USE <1>2 DEF IInv, Go, schema, wiring
    <2>1. TypeOK'
        BY DEF TypeOK, Stages, Migrating
    <2>2. SchemaIsRecorded'
        BY DEF SchemaIsRecorded
    <2>3. PassInv' /\ WiringInv' /\ MadeInv'
        BY DEF TypeOK, PassInv, WiringInv, MadeInv, Past
    <2> QED  BY <2>1, <2>2, <2>3
<1> QED  BY <1>1, <1>2 DEF Unblocked

\* The primary key lets one node at a time come to the commit of a version.
LEMMA InsertVersionKeepsIInv ==
    ASSUME IInv, NEW n \in Nodes, InsertVersion(n)  PROVE IInv'
<1>1. CASE at[n] \in recorded /\ Loses(n)
    BY <1>1, LosesKeepsIInv
<1>2. CASE /\ at[n] \notin recorded
           /\ Go(n, "insert", "commit")
           /\ UNCHANGED <<at, made, schema, wiring>>
    <2> USE <1>2 DEF IInv, Go, schema, wiring
    <2>1. TypeOK'
        BY DEF TypeOK, Stages, Migrating
    <2>2. SchemaIsRecorded'
        BY DEF SchemaIsRecorded
    <2>3. PassInv'
        BY DEF TypeOK, PassInv, InsertVersion, Past
    <2>4. WiringInv' /\ MadeInv'
        BY DEF TypeOK, WiringInv, MadeInv
    <2> QED  BY <2>1, <2>2, <2>3, <2>4
<1> QED  BY <1>1, <1>2 DEF InsertVersion

\* A version is executed and recorded together.
LEMMA CommitKeepsIInv ==
    ASSUME IInv, NEW n \in Nodes, Commit(n)  PROVE IInv'
<1> USE LastAssumption DEF IInv, Commit, Go, wiring
<1>1. /\ stage[n] = "commit" /\ Commits(n)
      /\ stage' = [stage EXCEPT ![n] = "check"]
      /\ at' = [at EXCEPT ![n] = @ + 1]
    OBVIOUS
<1>2. /\ SchemaIsRecorded' /\ recorded' = recorded \cup {at[n]} /\ at[n] \in 1 .. Last[n]
      /\ found' \cup built' \cup recorded' \subseteq Versions
      /\ 1 .. at[n] \subseteq recorded'
    BY <1>1, CommitsExtend
<1>3. TypeOK'
    <2>1. at[n] + 1 \in 1 .. Last[n] + 1
        BY <1>2
    <2>2. at' \in [Nodes -> Nat] /\ \A m \in Nodes : at'[m] \in 1 .. Last[m] + 1
        BY <1>1, <2>1, AtStaysInRange
    <2>3. stage' \in [Nodes -> Stages] /\ made' \subseteq {m \in Nodes : stage'[m] \in {"insert", "commit"}}
        BY <1>1 DEF TypeOK, Stages, Migrating
    <2> QED  BY <1>2, <2>2, <2>3 DEF TypeOK, Commits
<1>4. PassInv'
    <2>1. /\ \A m \in Nodes : m # n => stage'[m] = stage[m] /\ at'[m] = at[m]
          /\ stage'[n] = "check" /\ at'[n] = at[n] + 1 /\ at[n] \in Nat
        BY <1>1 DEF TypeOK
    <2>2. \A m \in Nodes : m # n /\ stage[m] = "commit" => at[m] # at[n]
        BY <1>1 DEF PassInv
    <2> QED  BY <1>2, <2>1, <2>2 DEF PassInv, Past
<1>5. WiringInv' /\ MadeInv'
    BY <1>1 DEF TypeOK, WiringInv, MadeInv, Commits
<1> QED  BY <1>2, <1>3, <1>4, <1>5

-----------------------------------------------------------------------------
\* Every step of every node keeps the invariant.
LEMMA NextKeepsIInv ==
    IInv /\ [Next]_vars => IInv'
<1> SUFFICES ASSUME IInv, [Next]_vars  PROVE IInv'
    OBVIOUS
<1>1. ASSUME NEW n \in Nodes,
             \/ Start(n) \/ BootStep(n) \/ Fail(n)
             \/ Accept(n) \/ Leave(n) \/ Break(n)
             \/ Signal(n) \/ Release(n) \/ Drain(n) \/ Stop(n)
      PROVE  IInv'
    <2>1. CASE BootStep(n)
        BY <2>1, WiringKeepsIInv, CheckVersionKeepsIInv, ExecBodyKeepsIInv,
           UnblockedKeepsIInv, InsertVersionKeepsIInv, CommitKeepsIInv DEF BootStep
    <2>2. CASE Fail(n) \/ Stop(n)
        BY <2>2, FailKeepsIInv, StopKeepsIInv
    <2>3. CASE Start(n) \/ Accept(n) \/ Leave(n) \/ Break(n) \/ Signal(n) \/ Release(n) \/ Drain(n)
        BY <2>3, WiringKeepsIInv
    <2> QED  BY <1>1, <2>1, <2>2, <2>3
<1>2. CASE UNCHANGED vars
    BY <1>2 DEF vars, schema, wiring, IInv, TypeOK, SchemaIsRecorded, PassInv, MadeInv,
                WiringInv, Versions
<1> QED  BY <1>1, <1>2 DEF Next

\* The inductive invariant holds in every reachable state.
THEOREM Invariance ==
    Spec => []IInv
BY InitIInv, NextKeepsIInv, PTL DEF Spec

\* Every node stays within the stages of run and the versions it knows.
THEOREM TypeCorrect ==
    Spec => []TypeOK
BY Invariance, PTL DEF IInv

\* However many nodes of whatever releases boot at once, and wherever they die:
\* the recorded versions are the first ones, schema and record agree, and a boot
\* that fails because another node was first has lost against a commit.
THEOREM SchemaAlwaysRecorded ==
    Spec => []SchemaIsRecorded
BY Invariance, PTL DEF IInv

\* No node ever listens before every migration of its release is recorded.
THEOREM AlwaysServesMigrated ==
    Spec => []ServesMigrated
<1>1. IInv => ServesMigrated
    BY DEF IInv, TypeOK, PassInv, WiringInv, Past, ServesMigrated
<1> QED  BY <1>1, Invariance, PTL

\* Until a node is told to stop, only a failure of Redis leaves a client of it
\* unrouted: neither the order of the boot nor that of the clients does.
THEOREM ClientsAlwaysRouted ==
    Spec => []ClientsAreRouted
<1>1. IInv => ClientsAreRouted
    BY DEF IInv, WiringInv, ClientsAreRouted
<1> QED  BY <1>1, Invariance, PTL
=============================================================================
