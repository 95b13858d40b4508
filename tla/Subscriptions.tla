----------------------------- MODULE Subscriptions -----------------------------
(***************************************************************************)
(* Who is registered in the Hub and what the node is subscribed to: Hub.   *)
(* Register and Unregister (websocket/hub.go) and the reference counting   *)
(* of Subscriber (redis/pubsub.go), one goroutine per connection.  A step  *)
(* is a critical section or an atomic operation; between two steps every   *)
(* other goroutine may run.  nbio runs handleUpgrade and OnClose of one    *)
(* connection one after the other, so a connection unregisters only after  *)
(* Register has returned.  The commands of all goroutines share one        *)
(* dedicated Redis connection and are executed in the order they are sent. *)
(***************************************************************************)
EXTENDS Integers, Sequences, FiniteSets

CONSTANTS
    Users,
    Conns,      \* the connections, each of which comes and goes once
    MaxErrors   \* bound: Redis calls that fail or time out, and the loss of
                \* the dedicated connection

ASSUME ConnsAssumption == IsFiniteSet(Conns)
ASSUME MaxErrorsAssumption == MaxErrors \in Nat

VARIABLES
    user,       \* Connection.UserID
    pc,         \* where the goroutine of a connection is
    registry,   \* the connections in the shards of the Hub
    first,      \* Register's local firstForUser
    connCount,  \* Hub.connCount
    subs,       \* Subscriber.subs, 0 for an absent entry
    dedicated,  \* the dedicated connection works
    queue,      \* commands sent on the dedicated connection
    subscribed, \* the channels Redis routes to this node
    errors,     \* what has counted against MaxErrors
    raced       \* users whose refcount rose from 0 ahead of an UNSUBSCRIBE

link == <<dedicated, queue, subscribed>>
vars == <<user, pc, registry, first, connCount, subs, link, errors, raced>>

Subscribing == {"subIncr", "subSend", "subWait", "subRollback"}
Unsubscribing == {"unsubDecr", "unsubSend", "unsubWait"}

ConnsOf(u) == {c \in Conns : user[c] = u}
Held(u) == registry \cap ConnsOf(u) # {}
At(u, labels) == {c \in ConnsOf(u) : pc[c] \in labels}

Init ==
    /\ user \in [Conns -> Users]
    /\ pc = [c \in Conns |-> "upgraded"]
    /\ registry = {}
    /\ first = [c \in Conns |-> FALSE]
    /\ connCount = 0
    /\ subs = [u \in Users |-> 0]
    /\ dedicated = TRUE
    /\ queue = << >>
    /\ subscribed = {}
    /\ errors = 0
    /\ raced = {}

Goto(c, label) == pc' = [pc EXCEPT ![c] = label]

-----------------------------------------------------------------------------
(* Hub.Register *)

\* Under the lock of the shard.
RegisterInsert(c) ==
    /\ pc[c] = "upgraded"
    /\ first' = [first EXCEPT ![c] = ~Held(user[c])]
    /\ registry' = registry \cup {c}
    /\ Goto(c, "count")
    /\ UNCHANGED <<user, connCount, subs, link, errors, raced>>

\* After the unlock.
CountUp(c) ==
    /\ pc[c] = "count"
    /\ connCount' = connCount + 1
    /\ Goto(c, IF first[c] THEN "subIncr" ELSE "open")
    /\ UNCHANGED <<user, registry, first, subs, link, errors, raced>>

-----------------------------------------------------------------------------
(* Subscriber.Subscribe *)

\* Mutated: the reference is set, not counted.
SubIncrSets(c) ==
    LET u == user[c]
    IN  /\ pc[c] = "subIncr"
        /\ subs' = [subs EXCEPT ![u] = 1]
        /\ Goto(c, IF subs[u] = 0 THEN "subSend" ELSE "open")
        /\ raced' = IF At(u, {"unsubSend"}) # {} THEN raced \cup {u} ELSE raced
        /\ UNCHANGED <<user, registry, first, connCount, link, errors>>

\* Under mu; only the first reference goes on to Redis.
SubIncr(c) ==
    LET u == user[c]
    IN  /\ pc[c] = "subIncr"
        /\ subs' = [subs EXCEPT ![u] = @ + 1]
        /\ Goto(c, IF subs[u] = 0 THEN "subSend" ELSE "open")
        /\ raced' = IF At(u, {"unsubSend"}) # {} THEN raced \cup {u} ELSE raced
        /\ UNCHANGED <<user, registry, first, connCount, link, errors>>

\* dc.Do runs after the unlock.
SubSend(c) ==
    /\ pc[c] = "subSend" /\ dedicated
    /\ queue' = Append(queue, [cmd |-> "SUBSCRIBE", conn |-> c])
    /\ Goto(c, "subWait")
    /\ UNCHANGED <<user, registry, first, connCount, subs, dedicated, subscribed, errors, raced>>

Pending(c) == \E i \in DOMAIN queue : queue[i].conn = c

\* Mutated: the caller waits to see the channel among the subscribed ones.
SubReplyChecks(c) ==
    /\ pc[c] = "subWait"
    /\ user[c] \in subscribed
    /\ Goto(c, "open")
    /\ UNCHANGED <<user, registry, first, connCount, subs, link, errors, raced>>

SubReply(c) ==
    /\ pc[c] = "subWait"
    /\ ~Pending(c)
    /\ Goto(c, "open")
    /\ UNCHANGED <<user, registry, first, connCount, subs, link, errors, raced>>

\* A Redis call fails by itself, or for good once the dedicated connection is lost.
CallFails ==
    /\ \/ errors < MaxErrors /\ errors' = errors + 1
       \/ ~dedicated /\ UNCHANGED errors
    /\ UNCHANGED <<user, registry, first, connCount, subs, link, raced>>

\* The call fails before it is sent, or its context expires while the command
\* is still on its way or after it was executed.
SubError(c) ==
    /\ pc[c] \in {"subSend", "subWait"}
    /\ CallFails
    /\ Goto(c, "subRollback")

\* Under mu again.  Register logs the error and goes on.
SubRollback(c) ==
    /\ pc[c] = "subRollback"
    /\ subs' = [subs EXCEPT ![user[c]] = IF @ > 0 THEN @ - 1 ELSE 0]
    /\ Goto(c, "open")
    /\ UNCHANGED <<user, registry, first, connCount, link, errors, raced>>

-----------------------------------------------------------------------------
(* Hub.Unregister, from OnClose *)

\* Under the lock of the shard.
Unregister(c) ==
    LET rest == registry \ {c}
    IN  /\ pc[c] = "open"
        /\ registry' = rest
        /\ connCount' = connCount - 1
        /\ Goto(c, IF rest \cap ConnsOf(user[c]) = {} THEN "unsubDecr" ELSE "gone")
        /\ UNCHANGED <<user, first, subs, link, errors, raced>>

\* Mutated: a reference is dropped that was never taken.
UnsubDecrUnguarded(c) ==
    LET n == subs[user[c]]
    IN  /\ pc[c] = "unsubDecr"
        /\ subs' = [subs EXCEPT ![user[c]] = n - 1]
        /\ Goto(c, IF n = 1 THEN "unsubSend" ELSE "gone")
        /\ UNCHANGED <<user, registry, first, connCount, link, errors, raced>>

\* Mutated: UNSUBSCRIBE is sent although references are left.
UnsubDecrAlways(c) ==
    LET n == subs[user[c]]
    IN  /\ pc[c] = "unsubDecr"
        /\ subs' = [subs EXCEPT ![user[c]] = IF n > 0 THEN n - 1 ELSE 0]
        /\ Goto(c, IF n > 0 THEN "unsubSend" ELSE "gone")
        /\ UNCHANGED <<user, registry, first, connCount, link, errors, raced>>

\* Mutated: the last reference is looked for before it is dropped.
UnsubDecrNever(c) ==
    LET n == subs[user[c]]
    IN  /\ pc[c] = "unsubDecr"
        /\ subs' = [subs EXCEPT ![user[c]] = IF n > 0 THEN n - 1 ELSE 0]
        /\ Goto(c, IF n = 0 THEN "unsubSend" ELSE "gone")
        /\ UNCHANGED <<user, registry, first, connCount, link, errors, raced>>

\* Subscriber.Unsubscribe, under mu: nothing without a reference; the last
\* reference goes on to Redis.
UnsubDecr(c) ==
    LET n == subs[user[c]]
    IN  /\ pc[c] = "unsubDecr"
        /\ subs' = [subs EXCEPT ![user[c]] = IF n > 0 THEN n - 1 ELSE 0]
        /\ Goto(c, IF n = 1 THEN "unsubSend" ELSE "gone")
        /\ UNCHANGED <<user, registry, first, connCount, link, errors, raced>>

UnsubSend(c) ==
    /\ pc[c] = "unsubSend" /\ dedicated
    /\ queue' = Append(queue, [cmd |-> "UNSUBSCRIBE", conn |-> c])
    /\ Goto(c, "unsubWait")
    /\ UNCHANGED <<user, registry, first, connCount, subs, dedicated, subscribed, errors, raced>>

UnsubReply(c) ==
    /\ pc[c] = "unsubWait"
    /\ ~Pending(c)
    /\ Goto(c, "gone")
    /\ UNCHANGED <<user, registry, first, connCount, subs, link, errors, raced>>

\* The error is logged; the refcount is already cleared.
UnsubError(c) ==
    /\ pc[c] \in {"unsubSend", "unsubWait"}
    /\ CallFails
    /\ Goto(c, "gone")

-----------------------------------------------------------------------------
(* Redis *)

\* Redis executes the next command of the dedicated connection.
Execute ==
    /\ queue # << >>
    /\ LET u == user[Head(queue).conn]
       IN  subscribed' = IF Head(queue).cmd = "SUBSCRIBE" THEN subscribed \cup {u}
                         ELSE subscribed \ {u}
    /\ queue' = Tail(queue)
    /\ UNCHANGED <<user, pc, registry, first, connCount, subs, dedicated, errors, raced>>

\* The dedicated connection breaks and with it every subscription; nobody reads
\* hookErr or dedicates another one.  Calls whose command is not executed fail.
LoseDedicated ==
    /\ dedicated /\ errors < MaxErrors
    /\ dedicated' = FALSE
    /\ errors' = errors + 1
    /\ subscribed' = {}
    /\ queue' = << >>
    /\ pc' = [c \in Conns |-> CASE Pending(c) /\ pc[c] = "subWait" -> "subRollback"
                               [] Pending(c) /\ pc[c] = "unsubWait" -> "gone"
                               [] OTHER -> pc[c]]
    /\ UNCHANGED <<user, registry, first, connCount, subs, raced>>

\* What the goroutine of c does on its own; Unregister waits for the socket.
Proceed(c) ==
    \/ CountUp(c)
    \/ SubIncr(c) \/ SubSend(c) \/ SubReply(c) \/ SubRollback(c)
    \/ UnsubDecr(c) \/ UnsubSend(c) \/ UnsubReply(c)
    \/ ~dedicated /\ (SubError(c) \/ UnsubError(c))

Next ==
    \/ \E c \in Conns : \/ RegisterInsert(c) \/ Unregister(c) \/ Proceed(c)
                        \/ SubError(c) \/ UnsubError(c)
    \/ Execute
    \/ LoseDedicated

Spec == Init /\ [][Next]_vars

\* Goroutines run and Redis executes what it is sent; nobody has to connect or
\* to leave.
Fairness == WF_vars(Execute) /\ \A c \in Conns : WF_vars(Proceed(c))

FairSpec == Spec /\ Fairness

-----------------------------------------------------------------------------
(* Properties *)

Labels == {"upgraded", "count", "open", "gone"} \cup Subscribing \cup Unsubscribing

\* The registry, counters and commands range over what hub.go and pubsub.go
\* declare; the refcount of a user is never negative.
TypeOK ==
    /\ user \in [Conns -> Users]
    /\ pc \in [Conns -> Labels]
    /\ registry \subseteq Conns
    /\ first \in [Conns -> BOOLEAN]
    /\ connCount \in Int
    /\ subs \in [Users -> Nat]
    /\ dedicated \in BOOLEAN
    /\ queue \in Seq([cmd : {"SUBSCRIBE", "UNSUBSCRIBE"}, conn : Conns])
    /\ subscribed \subseteq Users
    /\ errors \in Nat
    /\ raced \subseteq Users

\* connCount, kept outside the shard locks, is the number of registered
\* connections up to those that are between the unlock and the add.
ConnCountExact ==
    connCount = Cardinality(registry) - Cardinality({c \in Conns : pc[c] = "count"})

\* While no Redis call has failed, the refcount of a user is 1 when the user has
\* connections here, corrected by the goroutines that have left the shard lock
\* and not yet taken mu: counts never drift, however the two locks interleave.
RefcountAccounts ==
    errors = 0 =>
        \A u \in Users :
            subs[u] + Cardinality(At(u, {"subIncr"}) \cup {c \in At(u, {"count"}) : first[c]})
                = Cardinality(At(u, {"unsubDecr"})) + IF Held(u) THEN 1 ELSE 0

\* Neither the hub's counter nor the Subscriber's drifts, however their updates
\* and the shard locks interleave.
CountersAccount == ConnCountExact /\ RefcountAccounts

\* No goroutine of u is inside Subscribe or Unsubscribe, or on its way there.
Settled(u) ==
    /\ At(u, {"count"} \cup Subscribing \cup Unsubscribing) = {}
    /\ \A i \in DOMAIN queue : user[queue[i].conn] # u

\* A user who has connections here, none of which is still subscribing, is
\* subscribed, unless a first connection took its reference while the UNSUBSCRIBE
\* of the last one before it was decided and not yet sent: that race is the only
\* way to lose the subscription.
SubscribedUnlessRaced ==
    errors = 0 =>
        \A u \in Users \ raced :
            Held(u) /\ At(u, {"count"} \cup Subscribing) = {} => u \in subscribed

\* A user who has left leaves no reference behind, whatever failed meanwhile, and
\* no subscription either if no call and no connection to Redis has failed.
NothingLeaks ==
    \A u \in Users : Settled(u) /\ ~Held(u) =>
        subs[u] = 0 /\ (errors = 0 => u \notin subscribed)

\* A call of Register or Unregister returns.
CallsReturn ==
    \A c \in Conns :
        pc[c] \notin {"upgraded", "open", "gone"} ~> pc[c] \in {"open", "gone"}

-----------------------------------------------------------------------------
(* What the comments say *)

\* Subscriber is concurrency-safe: once every call has returned, a user with
\* connections here is subscribed.
HeldIsSubscribed ==
    \A u \in Users : Settled(u) /\ Held(u) => u \in subscribed
=============================================================================
