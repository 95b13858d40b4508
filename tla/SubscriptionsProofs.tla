-------------------------- MODULE SubscriptionsProofs --------------------------
(***************************************************************************)
(* What holds of the Hub's registry and the Subscriber's counts for any    *)
(* number of users and connections and however many calls fail.  IInv adds *)
(* to the invariants of the run that at most one goroutine of a user is on *)
(* its way through Subscribe with a first connection, what the refcount is *)
(* at most when calls have failed, and what Redis will have routed once it *)
(* has executed what is in its queue.                                      *)
(***************************************************************************)
EXTENDS Subscriptions, SequenceTheorems, FiniteSetTheorems, TLAPS

\* The goroutines that are about to take or to drop a reference of u.
Ups(u) == At(u, {"subIncr"}) \cup {c \in At(u, {"count"}) : first[c]}
Downs(u) == At(u, {"unsubDecr"})
HeldOnce(u) == IF Held(u) THEN 1 ELSE 0

Counting == {c \in Conns : pc[c] = "count"}
Entering(u) == Ups(u) \cup At(u, {"subSend", "subWait", "subRollback"})

\* A connection is in the registry from the lock of Register to that of Unregister.
RegistryInv == \A c \in Conns : c \in registry <=> pc[c] \in {"count", "open"} \cup Subscribing

\* One first connection of a user at a time.
EnterInv == \A u \in Users : \A c, d \in Entering(u) : c = d

\* No more references than goroutines and connections account for.
RefInv ==
    \A u \in Users : subs[u] + Cardinality(Ups(u)) <= Cardinality(Downs(u)) + HeldOnce(u)

\* Only a failure leads to a rollback or ends the dedicated connection.
ErrorInv == ~dedicated \/ (\E c \in Conns : pc[c] = "subRollback") => errors # 0

\* Who has sent a command waits for its reply.
QueueInv ==
    errors = 0 =>
        \A i \in 1 .. Len(queue) :
            pc[queue[i].conn] = IF queue[i].cmd = "SUBSCRIBE" THEN "subWait" ELSE "unsubWait"

OfUser(i, u) == user[queue[i].conn] = u

\* Redis routes the channel of u once it has executed what is in the queue.
WillRoute(u) ==
    \/ u \in subscribed /\ \A i \in 1 .. Len(queue) : ~OfUser(i, u)
    \/ \E i \in 1 .. Len(queue) : /\ OfUser(i, u) /\ queue[i].cmd = "SUBSCRIBE"
                                  /\ \A j \in i + 1 .. Len(queue) : ~OfUser(j, u)

\* The channel follows the refcount, as soon as the command that the refcount
\* calls for is sent.
RouteInv ==
    errors = 0 =>
        \A u \in Users :
            /\ subs[u] = 0 /\ At(u, {"unsubSend"}) = {} => ~WillRoute(u)
            /\ u \notin raced =>
                  /\ subs[u] > 0 /\ At(u, {"subSend"}) = {} => WillRoute(u)
                  /\ At(u, {"unsubSend"}) # {} => subs[u] = 0

IInv ==
    /\ TypeOK /\ RegistryInv /\ EnterInv /\ CountersAccount /\ RefInv
    /\ ErrorInv /\ QueueInv /\ RouteInv

-----------------------------------------------------------------------------
(* Commands and labels *)

Commands == [cmd : {"SUBSCRIBE", "UNSUBSCRIBE"}, conn : Conns]
Command(w, c) == [cmd |-> w, conn |-> c]

LEMMA CommandFields ==
    /\ \A m \in Commands : m.cmd \in {"SUBSCRIBE", "UNSUBSCRIBE"} /\ m.conn \in Conns
    /\ \A w \in {"SUBSCRIBE", "UNSUBSCRIBE"}, c \in Conns : Command(w, c) \in Commands
    /\ \A w, c : Command(w, c).cmd = w /\ Command(w, c).conn = c
BY DEF Commands, Command

\* What the types say of the state of one connection.
LEMMA Typed ==
    ASSUME TypeOK
    PROVE  /\ user \in [Conns -> Users] /\ pc \in [Conns -> Labels] /\ registry \subseteq Conns
           /\ first \in [Conns -> BOOLEAN] /\ connCount \in Int /\ subs \in [Users -> Nat]
           /\ queue \in Seq(Commands) /\ subscribed \subseteq Users
           /\ errors \in Nat /\ raced \subseteq Users /\ dedicated \in BOOLEAN
BY DEF TypeOK, Commands

\* The goroutine of one connection goes on: what that does to the sets of
\* goroutines at given labels.
LEMMA GotoMoves ==
    ASSUME TypeOK, NEW c \in Conns, NEW l \in Labels, Goto(c, l), user' = user
    PROVE  /\ pc' \in [Conns -> Labels] /\ pc'[c] = l
           /\ \A d \in Conns : d # c => pc'[d] = pc[d]
           /\ \A u, L : At(u, L)' = IF user[c] = u /\ l \in L THEN At(u, L) \cup {c}
                                    ELSE At(u, L) \ {c}
<1>1. pc \in [Conns -> Labels] /\ user \in [Conns -> Users]
    BY Typed
<1>2. /\ pc' \in [Conns -> Labels] /\ pc'[c] = l
      /\ \A d \in Conns : d # c => pc'[d] = pc[d]
    BY <1>1 DEF Goto
<1> QED  BY <1>1, <1>2 DEF At, ConnsOf

\* What Append does to the queue, position by position.
LEMMA AppendAtEnd ==
    ASSUME NEW S, NEW q \in Seq(S), NEW e \in S
    PROVE  /\ Append(q, e) \in Seq(S)
           /\ Len(q) \in Nat /\ Len(Append(q, e)) = Len(q) + 1
           /\ \A i \in 1 .. Len(q) : Append(q, e)[i] = q[i]
           /\ Append(q, e)[Len(q) + 1] = e
OBVIOUS

\* What Tail does to the queue, position by position.
LEMMA TailOfQueue ==
    ASSUME NEW S, NEW q \in Seq(S), q # << >>
    PROVE  /\ Tail(q) \in Seq(S) /\ Head(q) \in S /\ Head(q) = q[1]
           /\ Len(q) \in Nat \ {0} /\ Len(Tail(q)) = Len(q) - 1
           /\ \A i \in 1 .. Len(Tail(q)) : Tail(q)[i] = q[i + 1]
<1>1. /\ Tail(q) \in Seq(S) /\ Head(q) \in S
      /\ Len(Tail(q)) = Len(q) - 1
      /\ \A i \in 1 .. Len(Tail(q)) : Tail(q)[i] = q[i + 1]
    BY HeadTailProperties
<1>2. Len(q) \in Nat \ {0}
    BY EmptySeq
<1>3. Head(q) = q[1]
    OBVIOUS
<1> QED  BY <1>1, <1>2, <1>3

-----------------------------------------------------------------------------
(* Types *)

\* Every step of a goroutine takes it to a label.
LEMMA StepGoes ==
    ASSUME TypeOK, NEW c \in Conns,
           RegisterInsert(c) \/ Unregister(c) \/ Proceed(c) \/ SubError(c) \/ UnsubError(c)
    PROVE  \E l \in Labels : Goto(c, l)
<1>1. Labels = {"upgraded", "count", "open", "gone", "subIncr", "subSend", "subWait",
                "subRollback", "unsubDecr", "unsubSend", "unsubWait"}
    BY DEF Labels, Subscribing, Unsubscribing
<1>2. CASE RegisterInsert(c) \/ CountUp(c) \/ Unregister(c)
    BY <1>1, <1>2 DEF RegisterInsert, CountUp, Unregister
<1>3. CASE SubIncr(c) \/ SubSend(c) \/ SubReply(c) \/ SubRollback(c) \/ SubError(c)
    BY <1>1, <1>3 DEF SubIncr, SubSend, SubReply, SubRollback, SubError
<1>4. CASE UnsubDecr(c) \/ UnsubSend(c) \/ UnsubReply(c) \/ UnsubError(c)
    BY <1>1, <1>4 DEF UnsubDecr, UnsubSend, UnsubReply, UnsubError
<1> QED  BY <1>2, <1>3, <1>4 DEF Proceed

\* Nobody changes its user.
LEMMA UserStays ==
    ASSUME [Next]_vars  PROVE user' = user
BY DEF Next, Proceed, RegisterInsert, CountUp, SubIncr, SubSend, SubReply, SubRollback,
       SubError, CallFails, Unregister, UnsubDecr, UnsubSend, UnsubReply, UnsubError, Execute,
       LoseDedicated, vars

\* The commands on the dedicated connection, and what they do.
LEMMA LinkWriters ==
    ASSUME [Next]_vars
    PROVE  \/ UNCHANGED link \/ Execute \/ LoseDedicated
           \/ \E c \in Conns : SubSend(c) \/ UnsubSend(c)
BY DEF Next, Proceed, RegisterInsert, CountUp, SubIncr, SubReply, SubRollback, SubError,
       CallFails, Unregister, UnsubDecr, UnsubReply, UnsubError, vars

\* Where a reference is taken or dropped.
LEMMA SubsWriters ==
    ASSUME [Next]_vars
    PROVE  subs' = subs \/ \E c \in Conns : SubIncr(c) \/ SubRollback(c) \/ UnsubDecr(c)
BY DEF Next, Proceed, RegisterInsert, CountUp, SubSend, SubReply, SubError, CallFails,
       Unregister, UnsubSend, UnsubReply, UnsubError, Execute, LoseDedicated, vars

LEMMA TypeStep ==
    ASSUME TypeOK, [Next]_vars  PROVE TypeOK'
<1>1. /\ user \in [Conns -> Users] /\ pc \in [Conns -> Labels] /\ registry \subseteq Conns
      /\ first \in [Conns -> BOOLEAN] /\ connCount \in Int /\ subs \in [Users -> Nat]
      /\ queue \in Seq(Commands) /\ subscribed \subseteq Users
      /\ errors \in Nat /\ raced \subseteq Users /\ dedicated \in BOOLEAN
    BY Typed
<1>2. user' \in [Conns -> Users]
    BY <1>1, UserStays
<1>3. pc' \in [Conns -> Labels]
    <2>1. ASSUME NEW c \in Conns,
                 \/ RegisterInsert(c) \/ Unregister(c) \/ Proceed(c)
                 \/ SubError(c) \/ UnsubError(c)
          PROVE  pc' \in [Conns -> Labels]
        BY <1>1, <2>1, StepGoes DEF Goto
    <2>2. CASE LoseDedicated
        <3>1. {"subRollback", "gone"} \subseteq Labels
            BY DEF Labels, Subscribing
        <3> QED  BY <1>1, <2>2, <3>1 DEF LoseDedicated
    <2>3. CASE Execute \/ UNCHANGED vars
        BY <1>1, <2>3 DEF Execute, vars
    <2> QED  BY <2>1, <2>2, <2>3 DEF Next
<1>4. /\ registry' \subseteq Conns /\ first' \in [Conns -> BOOLEAN] /\ connCount' \in Int
    <2>1. ASSUME NEW c \in Conns, RegisterInsert(c) \/ CountUp(c) \/ Unregister(c)
          PROVE  registry' \subseteq Conns /\ first' \in [Conns -> BOOLEAN] /\ connCount' \in Int
        <3>1. CASE RegisterInsert(c)
            BY <1>1, <3>1 DEF RegisterInsert, Held
        <3>2. CASE CountUp(c) \/ Unregister(c)
            BY <1>1, <3>2 DEF CountUp, Unregister
        <3> QED  BY <2>1, <3>1, <3>2
    <2>2. ASSUME NEW c \in Conns,
                 \/ SubIncr(c) \/ SubSend(c) \/ SubReply(c) \/ SubRollback(c) \/ SubError(c)
                 \/ UnsubDecr(c) \/ UnsubSend(c) \/ UnsubReply(c) \/ UnsubError(c)
          PROVE  registry' = registry /\ first' = first /\ connCount' = connCount
        BY <2>2 DEF SubIncr, SubSend, SubReply, SubRollback, SubError, CallFails, UnsubDecr,
            UnsubSend, UnsubReply, UnsubError
    <2>3. CASE Execute \/ LoseDedicated \/ UNCHANGED vars
        BY <1>1, <2>3 DEF Execute, LoseDedicated, vars
    <2> QED  BY <1>1, <2>1, <2>2, <2>3 DEF Next, Proceed
<1>5. subs' \in [Users -> Nat]
    BY <1>1, SubsWriters DEF SubIncr, SubRollback, UnsubDecr
<1>6. /\ dedicated' \in BOOLEAN /\ queue' \in Seq(Commands) /\ subscribed' \subseteq Users
    <2>1. ASSUME NEW c \in Conns, SubSend(c) \/ UnsubSend(c)
          PROVE  queue' \in Seq(Commands) /\ UNCHANGED <<dedicated, subscribed>>
        <3>1. \E w \in {"SUBSCRIBE", "UNSUBSCRIBE"} : queue' = Append(queue, Command(w, c))
            BY <2>1 DEF SubSend, UnsubSend, Command
        <3>2. queue' \in Seq(Commands)
            BY <1>1, <3>1, CommandFields, AppendAtEnd
        <3> QED  BY <2>1, <3>2 DEF SubSend, UnsubSend
    <2>2. ASSUME Execute
          PROVE  queue' \in Seq(Commands) /\ subscribed' \subseteq Users /\ dedicated' = dedicated
        <3>1. queue' \in Seq(Commands) /\ Head(queue) \in Commands
            BY <1>1, <2>2, TailOfQueue DEF Execute
        <3>2. user[Head(queue).conn] \in Users
            BY <1>1, <3>1, CommandFields
        <3> QED  BY <1>1, <2>2, <3>1, <3>2 DEF Execute
    <2>3. ASSUME LoseDedicated
          PROVE  queue' \in Seq(Commands) /\ subscribed' \subseteq Users /\ dedicated' \in BOOLEAN
        BY <2>3, EmptySeq DEF LoseDedicated
    <2> QED  BY <1>1, <2>1, <2>2, <2>3, LinkWriters DEF link
<1>7. errors' \in Nat /\ raced' \subseteq Users
    <2>1. ASSUME NEW c \in Conns,
                 \/ RegisterInsert(c) \/ CountUp(c) \/ Unregister(c) \/ SubSend(c)
                 \/ SubReply(c) \/ SubRollback(c) \/ UnsubDecr(c) \/ UnsubSend(c) \/ UnsubReply(c)
          PROVE  errors' = errors /\ raced' = raced
        BY <2>1 DEF RegisterInsert, CountUp, Unregister, SubSend, SubReply, SubRollback,
            UnsubDecr, UnsubSend, UnsubReply
    <2>2. ASSUME NEW c \in Conns, SubError(c) \/ UnsubError(c)
          PROVE  errors' \in Nat /\ raced' = raced
        BY <1>1, <2>2 DEF SubError, UnsubError, CallFails
    <2>3. ASSUME NEW c \in Conns, SubIncr(c)  PROVE errors' = errors /\ raced' \subseteq Users
        BY <1>1, <2>3 DEF SubIncr
    <2>4. CASE Execute \/ LoseDedicated \/ UNCHANGED vars
        BY <1>1, <2>4 DEF Execute, LoseDedicated, vars
    <2> QED  BY <1>1, <2>1, <2>2, <2>3, <2>4 DEF Next, Proceed
<1> QED  BY <1>2, <1>3, <1>4, <1>5, <1>6, <1>7 DEF TypeOK, Commands

-----------------------------------------------------------------------------
(* Who is registered, who is entering, and what a failure leaves behind *)

LEMMA RegistryStep ==
    ASSUME TypeOK, RegistryInv, [Next]_vars  PROVE RegistryInv'
<1>1. pc \in [Conns -> Labels] /\ registry \subseteq Conns
    BY Typed
<1> USE DEF RegistryInv, Goto, Subscribing
<1>2. ASSUME NEW c \in Conns, RegisterInsert(c) \/ Unregister(c)  PROVE RegistryInv'
    BY <1>1, <1>2 DEF RegisterInsert, Unregister
<1>3. ASSUME NEW c \in Conns, CountUp(c) \/ SubIncr(c) \/ SubRollback(c)  PROVE RegistryInv'
    BY <1>1, <1>3 DEF CountUp, SubIncr, SubRollback
<1>4. ASSUME NEW c \in Conns, SubSend(c) \/ SubReply(c) \/ SubError(c)  PROVE RegistryInv'
    BY <1>1, <1>4 DEF SubSend, SubReply, SubError, CallFails
<1>5. ASSUME NEW c \in Conns, UnsubDecr(c) \/ UnsubSend(c) \/ UnsubReply(c) \/ UnsubError(c)
      PROVE  RegistryInv'
    BY <1>1, <1>5 DEF UnsubDecr, UnsubSend, UnsubReply, UnsubError, CallFails
<1>6. CASE LoseDedicated
    BY <1>1, <1>6 DEF LoseDedicated
<1>7. CASE Execute \/ UNCHANGED vars
    BY <1>7 DEF Execute, vars
<1> QED  BY <1>2, <1>3, <1>4, <1>5, <1>6, <1>7 DEF Next, Proceed

LEMMA ErrorStep ==
    ASSUME TypeOK, ErrorInv, [Next]_vars  PROVE ErrorInv'
<1>1. pc \in [Conns -> Labels] /\ errors \in Nat
    BY Typed
<1> USE DEF ErrorInv, Goto, link
<1>2. ASSUME NEW c \in Conns, RegisterInsert(c) \/ Unregister(c)  PROVE ErrorInv'
    BY <1>1, <1>2 DEF RegisterInsert, Unregister
<1>3. ASSUME NEW c \in Conns, CountUp(c) \/ SubIncr(c) \/ SubRollback(c)  PROVE ErrorInv'
    BY <1>1, <1>3 DEF CountUp, SubIncr, SubRollback
<1>4. ASSUME NEW c \in Conns, SubSend(c) \/ SubReply(c)  PROVE ErrorInv'
    BY <1>1, <1>4 DEF SubSend, SubReply
<1>5. ASSUME NEW c \in Conns, UnsubDecr(c) \/ UnsubSend(c) \/ UnsubReply(c)  PROVE ErrorInv'
    BY <1>1, <1>5 DEF UnsubDecr, UnsubSend, UnsubReply
<1>6. ASSUME NEW c \in Conns, SubError(c) \/ UnsubError(c)  PROVE ErrorInv'
    <2>1. CallFails
        BY <1>6 DEF SubError, UnsubError
    <2>2. errors' # 0
        BY <1>1, <2>1 DEF CallFails
    <2> QED  BY <2>2
<1>7. CASE LoseDedicated
    BY <1>1, <1>7 DEF LoseDedicated
<1>8. CASE Execute \/ UNCHANGED vars
    BY <1>8 DEF Execute, vars
<1> QED  BY <1>2, <1>3, <1>4, <1>5, <1>6, <1>7, <1>8 DEF Next, Proceed

\* Register calls a connection the first only when the registry holds no other of
\* its user, and who enters stays in the registry until Subscribe has returned.
LEMMA EnterStep ==
    ASSUME TypeOK, RegistryInv, EnterInv, [Next]_vars  PROVE EnterInv'
<1>1. /\ pc \in [Conns -> Labels] /\ registry \subseteq Conns /\ user \in [Conns -> Users]
      /\ first \in [Conns -> BOOLEAN] /\ user' = user
    BY Typed, UserStays
<1>2. SUFFICES ASSUME NEW u \in Users, NEW c \in Entering(u)', NEW d \in Entering(u)', c # d
               PROVE  FALSE
    BY DEF EnterInv
<1>3. \A b \in Entering(u) : b \in registry
    BY <1>1 DEF Entering, Ups, At, ConnsOf, RegistryInv, Subscribing
<1>4. \A a, b \in Entering(u) : a = b
    BY DEF EnterInv
<1>5. ASSUME Entering(u)' \subseteq Entering(u)  PROVE FALSE
    BY <1>2, <1>4, <1>5
<1>6. ASSUME NEW b \in Conns, RegisterInsert(b)  PROVE FALSE
    <2>1. Entering(u)' \subseteq Entering(u) \cup {b}
        BY <1>1, <1>6 DEF RegisterInsert, Goto, Entering, Ups, At, ConnsOf
    <2>2. b \in Entering(u)' => user[b] = u /\ ~Held(u)
        BY <1>1, <1>6 DEF RegisterInsert, Goto, Entering, Ups, At, ConnsOf
    <2>3. ~Held(u) => Entering(u) = {}
        BY <1>3 DEF Held, Entering, Ups, At
    <2> QED  BY <1>2, <1>5, <2>1, <2>2, <2>3
<1>7. ASSUME NEW b \in Conns,
             CountUp(b) \/ SubIncr(b) \/ SubSend(b) \/ SubReply(b) \/ SubError(b) \/ SubRollback(b)
      PROVE  Entering(u)' \subseteq Entering(u)
    BY <1>1, <1>7 DEF CountUp, SubIncr, SubSend, SubReply, SubError, SubRollback, CallFails,
        Goto, Entering, Ups, At, ConnsOf
<1>8. ASSUME NEW b \in Conns,
             Unregister(b) \/ UnsubDecr(b) \/ UnsubSend(b) \/ UnsubReply(b) \/ UnsubError(b)
      PROVE  Entering(u)' \subseteq Entering(u)
    BY <1>1, <1>8 DEF Unregister, UnsubDecr, UnsubSend, UnsubReply, UnsubError, CallFails,
        Goto, Entering, Ups, At, ConnsOf
<1>9. ASSUME LoseDedicated  PROVE Entering(u)' \subseteq Entering(u)
    BY <1>1, <1>9 DEF LoseDedicated, Entering, Ups, At, ConnsOf
<1>10. ASSUME Execute \/ UNCHANGED vars  PROVE Entering(u)' \subseteq Entering(u)
    BY <1>10 DEF Execute, vars, Entering, Ups, At, ConnsOf
<1> QED  BY <1>5, <1>6, <1>7, <1>8, <1>9, <1>10 DEF Next, Proceed

-----------------------------------------------------------------------------
(* The counts *)

\* The sets that are counted are finite.
LEMMA FiniteParts ==
    /\ IsFiniteSet(Counting)
    /\ \A u : IsFiniteSet(Ups(u)) /\ IsFiniteSet(Downs(u))
<1>1. \A S : S \subseteq Conns => IsFiniteSet(S)
    BY ConnsAssumption, FS_Subset
<1>2. Counting \subseteq Conns /\ \A u : Ups(u) \subseteq Conns /\ Downs(u) \subseteq Conns
    BY DEF Counting, Ups, Downs, At, ConnsOf
<1> QED  BY <1>1, <1>2

LEMMA ConnCountStep ==
    ASSUME TypeOK, RegistryInv, ConnCountExact, [Next]_vars  PROVE ConnCountExact'
<1>1. /\ pc \in [Conns -> Labels] /\ registry \subseteq Conns /\ connCount \in Int
    BY Typed
<1>2. IsFiniteSet(registry) /\ IsFiniteSet(Counting)
    BY <1>1, ConnsAssumption, FS_Subset, FiniteParts
<1>3. Cardinality(registry) \in Nat /\ Cardinality(Counting) \in Nat
    BY <1>2, FS_CardinalityType
<1>4. connCount = Cardinality(registry) - Cardinality(Counting)
    BY DEF ConnCountExact, Counting
<1>5. SUFFICES connCount' = Cardinality(registry') - Cardinality(Counting')
    BY DEF ConnCountExact, Counting
<1>6. CASE connCount' = connCount /\ registry' = registry /\ Counting' = Counting
    BY <1>4, <1>6
<1>7. ASSUME NEW c \in Conns, RegisterInsert(c)
      PROVE  connCount' = Cardinality(registry') - Cardinality(Counting')
    <2>1. c \notin registry /\ c \notin Counting
        BY <1>1, <1>7 DEF RegisterInsert, RegistryInv, Counting, Subscribing
    <2>2. /\ registry' = registry \cup {c} /\ Counting' = Counting \cup {c}
          /\ connCount' = connCount
        BY <1>1, <1>7 DEF RegisterInsert, Goto, Counting
    <2>3. /\ Cardinality(registry') = Cardinality(registry) + 1
          /\ Cardinality(Counting') = Cardinality(Counting) + 1
        BY <1>2, <2>1, <2>2, FS_AddElement
    <2> QED  BY <1>3, <1>4, <2>2, <2>3
<1>8. ASSUME NEW c \in Conns, CountUp(c)
      PROVE  connCount' = Cardinality(registry') - Cardinality(Counting')
    <2>1. c \in Counting /\ Counting' = Counting \ {c} /\ registry' = registry
        BY <1>1, <1>8 DEF CountUp, Goto, Counting
    <2>2. Cardinality(Counting') = Cardinality(Counting) - 1
        BY <1>2, <2>1, FS_RemoveElement
    <2> QED  BY <1>3, <1>4, <1>8, <2>1, <2>2 DEF CountUp
<1>9. ASSUME NEW c \in Conns, Unregister(c)
      PROVE  connCount' = Cardinality(registry') - Cardinality(Counting')
    <2>1. c \in registry
        BY <1>1, <1>9 DEF Unregister, RegistryInv
    <2>2. registry' = registry \ {c} /\ Counting' = Counting /\ connCount' = connCount - 1
        BY <1>1, <1>9 DEF Unregister, Goto, Counting
    <2>3. Cardinality(registry') = Cardinality(registry) - 1
        BY <1>2, <2>1, <2>2, FS_RemoveElement
    <2> QED  BY <1>3, <1>4, <2>2, <2>3
<1>10. ASSUME NEW c \in Conns,
              SubIncr(c) \/ SubSend(c) \/ SubReply(c) \/ SubError(c) \/ SubRollback(c)
       PROVE  connCount' = connCount /\ registry' = registry /\ Counting' = Counting
    BY <1>1, <1>10 DEF SubIncr, SubSend, SubReply, SubError, SubRollback, CallFails, Goto, Counting
<1>11. ASSUME NEW c \in Conns, UnsubDecr(c) \/ UnsubSend(c) \/ UnsubReply(c) \/ UnsubError(c)
       PROVE  connCount' = connCount /\ registry' = registry /\ Counting' = Counting
    BY <1>1, <1>11 DEF UnsubDecr, UnsubSend, UnsubReply, UnsubError, CallFails, Goto, Counting
<1>12. ASSUME Execute \/ LoseDedicated \/ UNCHANGED vars
       PROVE  connCount' = connCount /\ registry' = registry /\ Counting' = Counting
    BY <1>1, <1>12 DEF Execute, LoseDedicated, vars, Counting
<1> QED  BY <1>6, <1>7, <1>8, <1>9, <1>10, <1>11, <1>12 DEF Next, Proceed

\* What a step does to the account of one user: nothing; a first connection joins
\* it; a reference is taken; the last connection leaves; a reference is dropped;
\* or, after a failure, one is taken back.
Same(u) == /\ subs'[u] = subs[u] /\ Ups(u)' = Ups(u) /\ Downs(u)' = Downs(u)
           /\ Held(u)' = Held(u)
Joins(u) == /\ ~Held(u) /\ Held(u)' /\ subs'[u] = subs[u] /\ Downs(u)' = Downs(u)
            /\ \E c : c \notin Ups(u) /\ Ups(u)' = Ups(u) \cup {c}
Takes(u) == /\ subs'[u] = subs[u] + 1 /\ Downs(u)' = Downs(u) /\ Held(u)' = Held(u)
            /\ \E c \in Ups(u) : Ups(u)' = Ups(u) \ {c}
Leaves(u) == /\ Held(u) /\ ~Held(u)' /\ subs'[u] = subs[u] /\ Ups(u)' = Ups(u)
             /\ \E c : c \notin Downs(u) /\ Downs(u)' = Downs(u) \cup {c}
Drops(u) == /\ subs'[u] = (IF subs[u] > 0 THEN subs[u] - 1 ELSE 0) /\ Ups(u)' = Ups(u)
            /\ Held(u)' = Held(u) /\ \E c \in Downs(u) : Downs(u)' = Downs(u) \ {c}
TakesBack(u) == /\ subs'[u] = (IF subs[u] > 0 THEN subs[u] - 1 ELSE 0) /\ Ups(u)' = Ups(u)
                /\ Downs(u)' = Downs(u) /\ Held(u)' = Held(u) /\ errors' # 0

\* These are all the ways in which a step can touch the account of a user.
LEMMA AccountMoves ==
    ASSUME TypeOK, RegistryInv, ErrorInv, [Next]_vars, NEW u \in Users
    PROVE  \/ Same(u) \/ Joins(u) \/ Takes(u) \/ Leaves(u) \/ Drops(u) \/ TakesBack(u)
<1>1. /\ pc \in [Conns -> Labels] /\ registry \subseteq Conns /\ user \in [Conns -> Users]
      /\ first \in [Conns -> BOOLEAN] /\ subs \in [Users -> Nat] /\ user' = user
    BY Typed, UserStays
<1> USE DEF Ups, Downs, At, ConnsOf, Goto
<1>2. ASSUME NEW c \in Conns, RegisterInsert(c)  PROVE Same(u) \/ Joins(u)
    <2>1. c \notin registry /\ c \notin Ups(u)
        BY <1>1, <1>2 DEF RegisterInsert, RegistryInv, Subscribing
    <2>2. subs'[u] = subs[u] /\ Downs(u)' = Downs(u)
        BY <1>1, <1>2 DEF RegisterInsert
    <2>3. CASE user[c] # u
        <3>1. Ups(u)' = Ups(u) /\ Held(u)' = Held(u)
            BY <1>1, <1>2, <2>3 DEF RegisterInsert, Held
        <3> QED  BY <2>2, <3>1 DEF Same
    <2>4. CASE user[c] = u /\ Held(u)
        <3>1. Ups(u)' = Ups(u)
            BY <1>1, <1>2, <2>1, <2>4 DEF RegisterInsert
        <3>2. Held(u)' = Held(u)
            BY <1>1, <1>2, <2>4 DEF RegisterInsert, Held
        <3> QED  BY <2>2, <3>1, <3>2 DEF Same
    <2>5. CASE user[c] = u /\ ~Held(u)
        <3>1. Ups(u)' = Ups(u) \cup {c}
            BY <1>1, <1>2, <2>5 DEF RegisterInsert
        <3>2. Held(u)'
            BY <1>1, <1>2, <2>5 DEF RegisterInsert, Held
        <3> QED  BY <2>1, <2>2, <2>5, <3>1, <3>2 DEF Joins
    <2> QED  BY <2>3, <2>4, <2>5
<1>3. ASSUME NEW c \in Conns, CountUp(c)  PROVE Same(u)
    <2>1. Ups(u)' = Ups(u) /\ Downs(u)' = Downs(u)
        BY <1>1, <1>3 DEF CountUp
    <2> QED  BY <1>3, <2>1 DEF CountUp, Same, Held
<1>4. ASSUME NEW c \in Conns, SubIncr(c)  PROVE Same(u) \/ Takes(u)
    <2>1. Downs(u)' = Downs(u) /\ Held(u)' = Held(u)
        BY <1>1, <1>4 DEF SubIncr, Held
    <2>2. CASE user[c] = u
        <3>1. c \in Ups(u) /\ Ups(u)' = Ups(u) \ {c} /\ subs'[u] = subs[u] + 1
            BY <1>1, <1>4, <2>2 DEF SubIncr
        <3> QED  BY <2>1, <3>1 DEF Takes
    <2>3. CASE user[c] # u
        <3>1. Ups(u)' = Ups(u) /\ subs'[u] = subs[u]
            BY <1>1, <1>4, <2>3 DEF SubIncr
        <3> QED  BY <2>1, <3>1 DEF Same
    <2> QED  BY <2>2, <2>3
<1>5. ASSUME NEW c \in Conns, SubSend(c) \/ SubReply(c) \/ SubError(c)  PROVE Same(u)
    <2>1. Ups(u)' = Ups(u) /\ Downs(u)' = Downs(u)
        BY <1>1, <1>5 DEF SubSend, SubReply, SubError, CallFails
    <2> QED  BY <1>5, <2>1 DEF SubSend, SubReply, SubError, CallFails, Same, Held
<1>6. ASSUME NEW c \in Conns, SubRollback(c)  PROVE Same(u) \/ TakesBack(u)
    <2>1. Ups(u)' = Ups(u) /\ Downs(u)' = Downs(u)
        BY <1>1, <1>6 DEF SubRollback
    <2>2. Held(u)' = Held(u) /\ errors' # 0
        BY <1>1, <1>6 DEF SubRollback, Held, ErrorInv
    <2>3. subs'[u] = subs[u] \/ subs'[u] = (IF subs[u] > 0 THEN subs[u] - 1 ELSE 0)
        BY <1>1, <1>6 DEF SubRollback
    <2> QED  BY <2>1, <2>2, <2>3 DEF Same, TakesBack
<1>7. ASSUME NEW c \in Conns, Unregister(c)  PROVE Same(u) \/ Leaves(u)
    <2>1. c \in registry /\ c \notin Downs(u) /\ subs'[u] = subs[u] /\ Ups(u)' = Ups(u)
        BY <1>1, <1>7 DEF Unregister, RegistryInv
    <2>2. CASE user[c] # u
        <3>1. Downs(u)' = Downs(u) /\ Held(u)' = Held(u)
            BY <1>1, <1>7, <2>2 DEF Unregister, Held
        <3> QED  BY <2>1, <3>1 DEF Same
    <2>3. CASE user[c] = u /\ (registry \ {c}) \cap ConnsOf(u) = {}
        <3>1. Downs(u)' = Downs(u) \cup {c}
            BY <1>1, <1>7, <2>3 DEF Unregister
        <3>2. Held(u) /\ ~Held(u)'
            BY <1>1, <1>7, <2>1, <2>3 DEF Unregister, Held
        <3> QED  BY <2>1, <3>1, <3>2 DEF Leaves
    <2>4. CASE user[c] = u /\ (registry \ {c}) \cap ConnsOf(u) # {}
        <3>1. Downs(u)' = Downs(u)
            BY <1>1, <1>7, <2>4 DEF Unregister
        <3>2. Held(u) /\ Held(u)'
            BY <1>1, <1>7, <2>4 DEF Unregister, Held
        <3> QED  BY <2>1, <3>1, <3>2 DEF Same
    <2> QED  BY <2>2, <2>3, <2>4
<1>8. ASSUME NEW c \in Conns, UnsubDecr(c)  PROVE Same(u) \/ Drops(u)
    <2>1. Ups(u)' = Ups(u) /\ Held(u)' = Held(u)
        BY <1>1, <1>8 DEF UnsubDecr, Held
    <2>2. CASE user[c] = u
        <3>1. /\ c \in Downs(u) /\ Downs(u)' = Downs(u) \ {c}
              /\ subs'[u] = (IF subs[u] > 0 THEN subs[u] - 1 ELSE 0)
            BY <1>1, <1>8, <2>2 DEF UnsubDecr
        <3> QED  BY <2>1, <3>1 DEF Drops
    <2>3. CASE user[c] # u
        <3>1. Downs(u)' = Downs(u) /\ subs'[u] = subs[u]
            BY <1>1, <1>8, <2>3 DEF UnsubDecr
        <3> QED  BY <2>1, <3>1 DEF Same
    <2> QED  BY <2>2, <2>3
<1>9. ASSUME NEW c \in Conns, UnsubSend(c) \/ UnsubReply(c) \/ UnsubError(c)  PROVE Same(u)
    <2>1. Ups(u)' = Ups(u) /\ Downs(u)' = Downs(u)
        BY <1>1, <1>9 DEF UnsubSend, UnsubReply, UnsubError, CallFails
    <2> QED  BY <1>9, <2>1 DEF UnsubSend, UnsubReply, UnsubError, CallFails, Same, Held
<1>10. ASSUME LoseDedicated  PROVE Same(u)
    <2>1. Ups(u)' = Ups(u) /\ Downs(u)' = Downs(u)
        BY <1>1, <1>10 DEF LoseDedicated
    <2> QED  BY <1>10, <2>1 DEF LoseDedicated, Same, Held
<1>11. ASSUME Execute \/ UNCHANGED vars  PROVE Same(u)
    BY <1>11 DEF Execute, vars, Same, Held
<1> QED
    BY <1>2, <1>3, <1>4, <1>5, <1>6, <1>7, <1>8, <1>9, <1>10, <1>11 DEF Next, Proceed

\* Only a failing call and the loss of the dedicated connection count as errors.
LEMMA NoNewError ==
    ASSUME TypeOK, ErrorInv, [Next]_vars, errors' = 0
    PROVE  /\ errors = 0
           /\ ~LoseDedicated
           /\ \A c \in Conns : ~SubError(c) /\ ~UnsubError(c) /\ ~SubRollback(c)
<1>1. errors \in Nat
    BY Typed
<1>2. ASSUME NEW c \in Conns, SubError(c) \/ UnsubError(c)  PROVE FALSE
    BY <1>1, <1>2 DEF SubError, UnsubError, CallFails, ErrorInv
<1>3. ASSUME LoseDedicated  PROVE FALSE
    BY <1>1, <1>3 DEF LoseDedicated
<1>4. ASSUME NEW c \in Conns,
             RegisterInsert(c) \/ CountUp(c) \/ SubIncr(c) \/ SubSend(c) \/ SubReply(c)
      PROVE  errors = 0
    BY <1>4 DEF RegisterInsert, CountUp, SubIncr, SubSend, SubReply
<1>5. ASSUME NEW c \in Conns,
             SubRollback(c) \/ Unregister(c) \/ UnsubDecr(c) \/ UnsubSend(c) \/ UnsubReply(c)
      PROVE  errors = 0
    BY <1>5 DEF SubRollback, Unregister, UnsubDecr, UnsubSend, UnsubReply
<1>6. ASSUME Execute \/ UNCHANGED vars  PROVE errors = 0
    BY <1>6 DEF Execute, vars
<1>7. errors = 0
    BY <1>2, <1>3, <1>4, <1>5, <1>6 DEF Next, Proceed
<1>8. ASSUME NEW c \in Conns, SubRollback(c)  PROVE FALSE
    BY <1>7, <1>8 DEF SubRollback, ErrorInv
<1> QED  BY <1>2, <1>3, <1>7, <1>8

\* A user whose first connection is entering holds a connection, and there is
\* only one such connection.
LEMMA UpsHeld ==
    ASSUME TypeOK, RegistryInv, EnterInv, NEW u \in Users
    PROVE  /\ \A c \in Entering(u) : Held(u) /\ Entering(u) = {c}
           /\ Cardinality(Ups(u)) \in Nat /\ Cardinality(Downs(u)) \in Nat
           /\ Cardinality(Ups(u)) <= HeldOnce(u) /\ HeldOnce(u) \in {0, 1}
<1>1. ASSUME NEW c \in Entering(u)  PROVE Held(u) /\ Entering(u) = {c}
    <2>1. c \in registry \cap ConnsOf(u)
        BY DEF Entering, Ups, At, RegistryInv, Subscribing, ConnsOf
    <2> QED  BY <2>1 DEF Held, EnterInv
<1>2. Cardinality(Ups(u)) \in Nat /\ Cardinality(Downs(u)) \in Nat
    BY FiniteParts, FS_CardinalityType
<1>3. HeldOnce(u) \in {0, 1}
    BY DEF HeldOnce
<1>4. CASE Ups(u) = {}
    BY <1>1, <1>2, <1>3, <1>4, FS_EmptySet
<1>5. ASSUME NEW c \in Ups(u)  PROVE Cardinality(Ups(u)) <= HeldOnce(u)
    <2>1. Ups(u) = {c} /\ Held(u)
        BY <1>1, <1>5 DEF Entering
    <2>2. Cardinality(Ups(u)) = 1
        BY <2>1, FS_Singleton
    <2> QED  BY <2>1, <2>2 DEF HeldOnce
<1> QED  BY <1>1, <1>2, <1>3, <1>4, <1>5

\* The account of one user balances, with what the failures have taken from it.
Balanced(u) == subs[u] + Cardinality(Ups(u)) = Cardinality(Downs(u)) + HeldOnce(u)
Covered(u) == subs[u] + Cardinality(Ups(u)) <= Cardinality(Downs(u)) + HeldOnce(u)

LEMMA AccountStep ==
    ASSUME TypeOK, RegistryInv, EnterInv, ErrorInv, [Next]_vars, NEW u \in Users, Covered(u)
    PROVE  Covered(u)' /\ (errors' = 0 /\ Balanced(u) => Balanced(u)')
<1> DEFINE s == subs[u]
           ups == Cardinality(Ups(u))
           downs == Cardinality(Downs(u))
           h == HeldOnce(u)
<1>1. /\ s \in Nat /\ ups \in Nat /\ downs \in Nat /\ h \in {0, 1} /\ ups <= h
      /\ IsFiniteSet(Ups(u)) /\ IsFiniteSet(Downs(u))
    BY Typed, UpsHeld, FiniteParts
<1>2. s + ups <= downs + h /\ (Balanced(u) <=> s + ups = downs + h)
    BY DEF Covered, Balanced
<1>3. /\ Covered(u)' <=> s' + ups' <= downs' + h'
      /\ Balanced(u)' <=> s' + ups' = downs' + h'
    BY DEF Covered, Balanced
<1>4. CASE Same(u)
    <2>1. s' = s /\ ups' = ups /\ downs' = downs /\ h' = h
        BY <1>4 DEF Same, HeldOnce
    <2> QED  BY <1>1, <1>2, <1>3, <2>1
<1>5. CASE Joins(u)
    <2>1. s' = s /\ downs' = downs /\ h = 0 /\ h' = 1
        BY <1>5 DEF Joins, HeldOnce
    <2>2. ups' = ups + 1
        BY <1>1, <1>5, FS_AddElement DEF Joins
    <2> HIDE DEF s, ups, downs, h
    <2> QED  BY <1>1, <1>2, <1>3, <2>1, <2>2
<1>6. CASE Takes(u)
    <2>1. s' = s + 1 /\ downs' = downs /\ h' = h
        BY <1>6 DEF Takes, HeldOnce
    <2>2. ups' = ups - 1
        BY <1>1, <1>6, FS_RemoveElement DEF Takes
    <2> HIDE DEF s, ups, downs, h
    <2> QED  BY <1>1, <1>2, <1>3, <2>1, <2>2
<1>7. CASE Leaves(u)
    <2>1. s' = s /\ ups' = ups /\ h = 1 /\ h' = 0
        BY <1>7 DEF Leaves, HeldOnce
    <2>2. downs' = downs + 1
        BY <1>1, <1>7, FS_AddElement DEF Leaves
    <2> HIDE DEF s, ups, downs, h
    <2> QED  BY <1>1, <1>2, <1>3, <2>1, <2>2
<1>8. CASE Drops(u)
    <2>1. s' = (IF s > 0 THEN s - 1 ELSE 0) /\ ups' = ups /\ h' = h
        BY <1>8 DEF Drops, HeldOnce
    <2>2. downs' = downs - 1
        BY <1>1, <1>8, FS_RemoveElement DEF Drops
    <2>3. downs # 0
        BY <1>1, <1>8, FS_EmptySet DEF Drops
    <2> HIDE DEF s, ups, downs, h
    <2> QED  BY <1>1, <1>2, <1>3, <2>1, <2>2, <2>3
<1>9. CASE TakesBack(u)
    <2>1. /\ s' = (IF s > 0 THEN s - 1 ELSE 0) /\ ups' = ups /\ downs' = downs /\ h' = h
          /\ errors' # 0
        BY <1>9 DEF TakesBack, HeldOnce
    <2> HIDE DEF s, ups, downs, h
    <2> QED  BY <1>1, <1>2, <1>3, <2>1
<1> QED  BY <1>4, <1>5, <1>6, <1>7, <1>8, <1>9, AccountMoves

LEMMA RefStep ==
    ASSUME TypeOK, RegistryInv, EnterInv, ErrorInv, RefInv, RefcountAccounts, [Next]_vars
    PROVE  RefInv' /\ RefcountAccounts'
<1>1. /\ RefInv <=> \A u \in Users : Covered(u)
      /\ RefcountAccounts <=> (errors = 0 => \A u \in Users : Balanced(u))
    BY DEF RefInv, RefcountAccounts, Covered, Balanced, Ups, Downs, HeldOnce
<1>2. /\ RefInv' <=> \A u \in Users : Covered(u)'
      /\ RefcountAccounts' <=> (errors' = 0 => \A u \in Users : Balanced(u)')
    BY DEF RefInv, RefcountAccounts, Covered, Balanced, Ups, Downs, HeldOnce
<1> QED  BY <1>1, <1>2, AccountStep, NoNewError

-----------------------------------------------------------------------------
(* The commands and their callers *)

LEMMA QueueStep ==
    ASSUME TypeOK, ErrorInv, QueueInv, [Next]_vars  PROVE QueueInv'
<1>1. SUFFICES ASSUME errors' = 0  PROVE QueueInv'
    BY DEF QueueInv
<1>2. /\ pc \in [Conns -> Labels] /\ queue \in Seq(Commands)
      /\ \A i \in 1 .. Len(queue) : queue[i] \in Commands
    BY Typed
<1> DEFINE Reply(m) == IF m.cmd = "SUBSCRIBE" THEN "subWait" ELSE "unsubWait"
<1>3. \A i \in 1 .. Len(queue) : queue[i].conn \in Conns /\ pc[queue[i].conn] = Reply(queue[i])
    BY <1>1, <1>2, NoNewError, CommandFields DEF QueueInv
<1>4. SUFFICES \A i \in 1 .. Len(queue') : pc'[queue'[i].conn] = Reply(queue'[i])
    BY DEF QueueInv
<1>5. ASSUME NEW c \in Conns, queue' = queue, ~Pending(c),
             \A d \in Conns : d # c => pc'[d] = pc[d]
      PROVE  \A i \in 1 .. Len(queue') : pc'[queue'[i].conn] = Reply(queue'[i])
    <2>1. \A i \in 1 .. Len(queue) : queue[i].conn # c
        BY <1>2, <1>5 DEF Pending
    <2> QED  BY <1>3, <1>5, <2>1
<1>6. ASSUME NEW c \in Conns, pc[c] \notin {"subWait", "unsubWait"}  PROVE ~Pending(c)
    BY <1>2, <1>3, <1>6 DEF Pending
<1>7. ASSUME NEW c \in Conns, \/ RegisterInsert(c) \/ CountUp(c) \/ SubIncr(c) \/ SubReply(c)
                              \/ Unregister(c) \/ UnsubDecr(c) \/ UnsubReply(c)
      PROVE  \A i \in 1 .. Len(queue') : pc'[queue'[i].conn] = Reply(queue'[i])
    <2>1. queue' = queue /\ \A d \in Conns : d # c => pc'[d] = pc[d]
        BY <1>2, <1>7 DEF RegisterInsert, CountUp, SubIncr, SubReply, Unregister, UnsubDecr,
            UnsubReply, Goto, link
    <2>2. ~Pending(c)
        BY <1>6, <1>7 DEF RegisterInsert, CountUp, SubIncr, SubReply, Unregister, UnsubDecr,
            UnsubReply
    <2> QED  BY <1>5, <2>1, <2>2
<1>8. ASSUME NEW c \in Conns, SubSend(c) \/ UnsubSend(c)
      PROVE  \A i \in 1 .. Len(queue') : pc'[queue'[i].conn] = Reply(queue'[i])
    <2>1. ~Pending(c)
        BY <1>6, <1>8 DEF SubSend, UnsubSend
    <2>2. \A i \in 1 .. Len(queue) : queue[i].conn # c
        BY <1>2, <2>1 DEF Pending
    <2>3. \A d \in Conns : d # c => pc'[d] = pc[d]
        BY <1>2, <1>8 DEF SubSend, UnsubSend, Goto
    <2>4. PICK w \in {"SUBSCRIBE", "UNSUBSCRIBE"} :
              queue' = Append(queue, Command(w, c)) /\ pc'[c] = Reply(Command(w, c))
        BY <1>2, <1>8, CommandFields DEF SubSend, UnsubSend, Command, Goto
    <2>5. /\ Len(queue') = Len(queue) + 1 /\ Len(queue) \in Nat
          /\ \A i \in 1 .. Len(queue) : queue'[i] = queue[i]
          /\ queue'[Len(queue) + 1] = Command(w, c)
        BY <1>2, <2>4, CommandFields, AppendAtEnd
    <2>6. Command(w, c).conn = c
        BY CommandFields
    <2>7. \A i \in 1 .. Len(queue) : pc'[queue'[i].conn] = Reply(queue'[i])
        BY <1>3, <2>2, <2>3, <2>5
    <2>8. pc'[queue'[Len(queue) + 1].conn] = Reply(queue'[Len(queue) + 1])
        BY <2>4, <2>5, <2>6
    <2> HIDE DEF Reply
    <2> QED  BY <2>5, <2>7, <2>8
<1>9. ASSUME Execute
      PROVE  \A i \in 1 .. Len(queue') : pc'[queue'[i].conn] = Reply(queue'[i])
    <2>1. queue # << >> /\ queue' = Tail(queue) /\ pc' = pc
        BY <1>9 DEF Execute
    <2>2. /\ Len(queue) \in Nat /\ Len(queue') = Len(queue) - 1
          /\ \A i \in 1 .. Len(queue') : queue'[i] = queue[i + 1]
        BY <1>2, <2>1, TailOfQueue
    <2> HIDE DEF Reply
    <2> QED  BY <1>3, <2>1, <2>2
<1>10. CASE UNCHANGED vars
    BY <1>3, <1>10 DEF vars, link
<1> QED  BY <1>1, <1>7, <1>8, <1>9, <1>10, NoNewError DEF Next, Proceed

-----------------------------------------------------------------------------
(* What Redis will have routed *)

\* A command at the end of the queue decides for its user and for nobody else.
LEMMA SendRoutes ==
    ASSUME TypeOK, NEW c \in Conns, NEW w \in {"SUBSCRIBE", "UNSUBSCRIBE"}, NEW u \in Users,
           queue' = Append(queue, Command(w, c)), subscribed' = subscribed, user' = user
    PROVE  WillRoute(u)' <=> IF user[c] = u THEN w = "SUBSCRIBE" ELSE WillRoute(u)
<1>0. PICK n \in Nat : n = Len(queue)
    BY Typed, EmptySeq
<1>1. /\ Len(queue') = n + 1 /\ n = Len(queue)
      /\ \A i \in 1 .. n : queue'[i] = queue[i]
      /\ queue'[n + 1] = Command(w, c)
    BY <1>0, Typed, CommandFields, AppendAtEnd
<1>2. /\ \A i \in 1 .. n : (OfUser(i, u)' <=> OfUser(i, u)) /\ queue'[i].cmd = queue[i].cmd
      /\ OfUser(n + 1, u)' <=> user[c] = u
      /\ queue'[n + 1].cmd = w
    BY <1>1, CommandFields DEF OfUser
<1>3. WillRoute(u) <=>
          \/ u \in subscribed /\ \A i \in 1 .. n : ~OfUser(i, u)
          \/ \E i \in 1 .. n : /\ OfUser(i, u) /\ queue[i].cmd = "SUBSCRIBE"
                               /\ \A j \in i + 1 .. n : ~OfUser(j, u)
    BY <1>1 DEF WillRoute
<1>4. WillRoute(u)' <=>
          \/ u \in subscribed /\ \A i \in 1 .. n + 1 : ~OfUser(i, u)'
          \/ \E i \in 1 .. n + 1 : /\ OfUser(i, u)' /\ queue'[i].cmd = "SUBSCRIBE"
                                   /\ \A j \in i + 1 .. n + 1 : ~OfUser(j, u)'
    BY <1>1 DEF WillRoute
<1>5. CASE user[c] = u
    BY <1>1, <1>2, <1>4, <1>5
<1>6. CASE user[c] # u
    BY <1>1, <1>2, <1>3, <1>4, <1>6
<1> QED  BY <1>5, <1>6

\* Executing the next command changes nothing about the outcome.
LEMMA ExecuteRoutes ==
    ASSUME TypeOK, NEW u \in Users, Execute  PROVE WillRoute(u)' <=> WillRoute(u)
<1> DEFINE n == Len(queue)
<1>1. /\ n \in Nat \ {0} /\ Len(queue') = n - 1 /\ Head(queue) = queue[1] /\ Head(queue) \in Commands
      /\ \A i \in 1 .. n - 1 : queue'[i] = queue[i + 1]
    BY Typed, TailOfQueue DEF Execute
<1>2. \A i \in 1 .. n - 1 : (OfUser(i, u)' <=> OfUser(i + 1, u)) /\ queue'[i].cmd = queue[i + 1].cmd
    BY <1>1 DEF OfUser, Execute
<1>3. u \in subscribed' <=> IF OfUser(1, u) THEN queue[1].cmd = "SUBSCRIBE" ELSE u \in subscribed
    BY <1>1 DEF OfUser, Execute
<1>4. WillRoute(u) <=>
          \/ u \in subscribed /\ \A i \in 1 .. n : ~OfUser(i, u)
          \/ \E i \in 1 .. n : /\ OfUser(i, u) /\ queue[i].cmd = "SUBSCRIBE"
                               /\ \A j \in i + 1 .. n : ~OfUser(j, u)
    BY DEF WillRoute
<1>5. WillRoute(u)' <=>
          \/ u \in subscribed' /\ \A i \in 1 .. n - 1 : ~OfUser(i, u)'
          \/ \E i \in 1 .. n - 1 : /\ OfUser(i, u)' /\ queue'[i].cmd = "SUBSCRIBE"
                                   /\ \A j \in i + 1 .. n - 1 : ~OfUser(j, u)'
    BY <1>1 DEF WillRoute
<1> HIDE DEF n
<1>6. ASSUME WillRoute(u)  PROVE WillRoute(u)'
    <2>1. CASE u \in subscribed /\ \A i \in 1 .. n : ~OfUser(i, u)
        BY <1>1, <1>2, <1>3, <1>5, <2>1
    <2>2. ASSUME NEW i \in 1 .. n, OfUser(i, u), queue[i].cmd = "SUBSCRIBE",
                 \A j \in i + 1 .. n : ~OfUser(j, u)
          PROVE  WillRoute(u)'
        <3>1. CASE i = 1
            BY <1>1, <1>2, <1>3, <1>5, <2>2, <3>1
        <3>2. CASE i # 1
            <4>1. i - 1 \in 1 .. n - 1 /\ (i - 1) + 1 = i
                BY <1>1, <3>2
            <4>2. \A j \in (i - 1) + 1 .. n - 1 : ~OfUser(j, u)'
                BY <1>1, <1>2, <2>2, <4>1
            <4>3. OfUser(i - 1, u)' /\ queue'[i - 1].cmd = "SUBSCRIBE"
                BY <1>2, <2>2, <4>1
            <4> QED  BY <1>5, <4>1, <4>2, <4>3
        <3> QED  BY <3>1, <3>2
    <2> QED  BY <1>4, <1>6, <2>1, <2>2
<1>7. ASSUME WillRoute(u)'  PROVE WillRoute(u)
    <2>1. CASE u \in subscribed' /\ \A i \in 1 .. n - 1 : ~OfUser(i, u)'
        <3>1. \A i \in 2 .. n : ~OfUser(i, u)
            <4>1. \A i \in 2 .. n : i - 1 \in 1 .. n - 1 /\ (i - 1) + 1 = i
                BY <1>1
            <4> QED  BY <1>2, <2>1, <4>1
        <3>2. CASE OfUser(1, u)
            BY <1>1, <1>3, <1>4, <2>1, <3>1, <3>2
        <3>3. CASE ~OfUser(1, u)
            BY <1>1, <1>3, <1>4, <2>1, <3>1, <3>3
        <3> QED  BY <3>2, <3>3
    <2>2. ASSUME NEW i \in 1 .. n - 1, OfUser(i, u)', queue'[i].cmd = "SUBSCRIBE",
                 \A j \in i + 1 .. n - 1 : ~OfUser(j, u)'
          PROVE  WillRoute(u)
        <3>1. OfUser(i + 1, u) /\ queue[i + 1].cmd = "SUBSCRIBE" /\ i + 1 \in 1 .. n
            BY <1>1, <1>2, <2>2
        <3>2. \A j \in (i + 1) + 1 .. n : ~OfUser(j, u)
            <4>1. \A j \in (i + 1) + 1 .. n : /\ j - 1 \in i + 1 .. n - 1
                                              /\ j - 1 \in 1 .. n - 1 /\ (j - 1) + 1 = j
                BY <1>1
            <4> QED  BY <1>2, <2>2, <4>1
        <3> QED  BY <1>4, <3>1, <3>2
    <2> QED  BY <1>5, <1>7, <2>1, <2>2
<1> QED  BY <1>6, <1>7

\* What RouteInv says of one user.
Routed(u) ==
    /\ subs[u] = 0 /\ At(u, {"unsubSend"}) = {} => ~WillRoute(u)
    /\ u \notin raced =>
          /\ subs[u] > 0 /\ At(u, {"subSend"}) = {} => WillRoute(u)
          /\ At(u, {"unsubSend"}) # {} => subs[u] = 0

\* Who is about to send SUBSCRIBE has taken the reference.
LEMMA SenderCounts ==
    ASSUME TypeOK, RegistryInv, EnterInv, RefcountAccounts, errors = 0,
           NEW u \in Users, At(u, {"subSend"}) # {}
    PROVE  subs[u] > 0
<1>1. PICK c : c \in At(u, {"subSend"})
    OBVIOUS
<1>2. c \in Entering(u)
    BY <1>1 DEF Entering, At
<1>3. Held(u) /\ Entering(u) = {c}
    BY <1>2, UpsHeld
<1>4. c \notin Ups(u)
    BY <1>1 DEF Ups, At
<1>5. Ups(u) = {}
    BY <1>3, <1>4 DEF Entering
<1>6. Cardinality(Ups(u)) = 0 /\ Cardinality(Downs(u)) \in Nat
    BY <1>5, FS_EmptySet, UpsHeld
<1>7. subs[u] + Cardinality(Ups(u)) = Cardinality(Downs(u)) + 1
    BY <1>3 DEF RefcountAccounts, Ups, Downs
<1>8. subs[u] \in Nat
    BY Typed
<1> QED  BY <1>6, <1>7, <1>8

\* A step that leaves the commands, the counts and those about to send alone.
LEMMA RoutedStays ==
    ASSUME NEW u \in Users, Routed(u), subs'[u] = subs[u], raced' = raced,
           WillRoute(u)' <=> WillRoute(u),
           At(u, {"subSend"})' = At(u, {"subSend"}), At(u, {"unsubSend"})' = At(u, {"unsubSend"})
    PROVE  Routed(u)'
BY DEF Routed

LEMMA RouteStep ==
    ASSUME TypeOK, RegistryInv, EnterInv, RefcountAccounts, ErrorInv, RouteInv, [Next]_vars
    PROVE  RouteInv'
<1>1. SUFFICES ASSUME errors' = 0, NEW u \in Users  PROVE Routed(u)'
    BY DEF RouteInv, Routed
<1>2. errors = 0 /\ Routed(u)
    BY <1>1, NoNewError DEF RouteInv, Routed
<1>3. /\ pc \in [Conns -> Labels] /\ user \in [Conns -> Users] /\ user' = user
      /\ subs \in [Users -> Nat]
    BY Typed, UserStays
<1>4. link' = link => (WillRoute(u)' <=> WillRoute(u))
    BY <1>3 DEF WillRoute, OfUser, link
<1>5. ASSUME NEW c \in Conns, \/ RegisterInsert(c) \/ CountUp(c) \/ SubReply(c)
                              \/ Unregister(c) \/ UnsubReply(c)
      PROVE  Routed(u)'
    <2>1. /\ At(u, {"subSend"})' = At(u, {"subSend"})
          /\ At(u, {"unsubSend"})' = At(u, {"unsubSend"})
        BY <1>3, <1>5 DEF RegisterInsert, CountUp, SubReply, Unregister, UnsubReply, Goto, At, ConnsOf
    <2>2. subs' = subs /\ raced' = raced /\ link' = link
        BY <1>5 DEF RegisterInsert, CountUp, SubReply, Unregister, UnsubReply
    <2> QED  BY <1>2, <1>4, <2>1, <2>2, RoutedStays
<1>6. ASSUME NEW c \in Conns, SubIncr(c)  PROVE Routed(u)'
    <2>1. /\ WillRoute(u)' <=> WillRoute(u)
          /\ At(u, {"unsubSend"})' = At(u, {"unsubSend"})
        BY <1>3, <1>4, <1>6 DEF SubIncr, Goto, At, ConnsOf
    <2>2. CASE user[c] # u
        <3>1. At(u, {"subSend"})' = At(u, {"subSend"})
            BY <1>3, <1>6, <2>2 DEF SubIncr, Goto, At, ConnsOf
        <3>2. subs'[u] = subs[u] /\ (u \in raced' <=> u \in raced)
            BY <1>3, <1>6, <2>2 DEF SubIncr
        <3> QED  BY <1>2, <2>1, <3>1, <3>2 DEF Routed
    <2>3. CASE user[c] = u
        <3>1. subs'[u] = subs[u] + 1 /\ subs[u] \in Nat
            BY <1>3, <1>6, <2>3 DEF SubIncr
        <3>2. u \notin raced' => u \notin raced /\ At(u, {"unsubSend"}) = {}
            BY <1>6, <2>3 DEF SubIncr
        <3>3. At(u, {"subSend"})' = {} => subs[u] # 0 /\ At(u, {"subSend"}) = {}
            BY <1>3, <1>6, <2>3 DEF SubIncr, Goto, At, ConnsOf
        <3> QED  BY <1>2, <2>1, <3>1, <3>2, <3>3 DEF Routed
    <2> QED  BY <2>2, <2>3
<1>7. ASSUME NEW c \in Conns, SubSend(c)  PROVE Routed(u)'
    <2>1. /\ queue' = Append(queue, Command("SUBSCRIBE", c)) /\ subscribed' = subscribed
          /\ subs' = subs /\ raced' = raced
        BY <1>7 DEF SubSend, Command
    <2>2. WillRoute(u)' <=> IF user[c] = u THEN TRUE ELSE WillRoute(u)
        BY <1>3, <2>1, SendRoutes
    <2>3. At(u, {"unsubSend"})' = At(u, {"unsubSend"})
        BY <1>3, <1>7 DEF SubSend, Goto, At, ConnsOf
    <2>4. CASE user[c] # u
        <3>1. At(u, {"subSend"})' = At(u, {"subSend"})
            BY <1>3, <1>7, <2>4 DEF SubSend, Goto, At, ConnsOf
        <3> QED  BY <1>2, <2>1, <2>2, <2>3, <2>4, <3>1, RoutedStays
    <2>5. CASE user[c] = u
        <3>1. c \in At(u, {"subSend"})
            BY <1>7, <2>5 DEF SubSend, At, ConnsOf
        <3>2. subs[u] > 0
            BY <1>2, <3>1, SenderCounts
        <3> QED  BY <1>2, <1>3, <2>1, <2>2, <2>3, <2>5, <3>2 DEF Routed
    <2> QED  BY <2>4, <2>5
<1>8. ASSUME NEW c \in Conns, UnsubDecr(c)  PROVE Routed(u)'
    <2>1. /\ WillRoute(u)' <=> WillRoute(u)
          /\ At(u, {"subSend"})' = At(u, {"subSend"})
          /\ raced' = raced
        BY <1>3, <1>4, <1>8 DEF UnsubDecr, Goto, At, ConnsOf
    <2>2. CASE user[c] # u \/ subs[u] = 0
        <3>1. At(u, {"unsubSend"})' = At(u, {"unsubSend"})
            BY <1>3, <1>8, <2>2 DEF UnsubDecr, Goto, At, ConnsOf
        <3>2. subs'[u] = subs[u]
            BY <1>3, <1>8, <2>2 DEF UnsubDecr
        <3> QED  BY <1>2, <2>1, <3>1, <3>2, RoutedStays
    <2>3. CASE user[c] = u /\ subs[u] = 1
        <3>1. At(u, {"unsubSend"})' # {}
            BY <1>3, <1>8, <2>3 DEF UnsubDecr, Goto, At, ConnsOf
        <3>2. subs'[u] = 0
            BY <1>3, <1>8, <2>3 DEF UnsubDecr
        <3> QED  BY <3>1, <3>2 DEF Routed
    <2>4. CASE user[c] = u /\ subs[u] # 0 /\ subs[u] # 1
        <3>1. At(u, {"unsubSend"})' = At(u, {"unsubSend"})
            BY <1>3, <1>8, <2>4 DEF UnsubDecr, Goto, At, ConnsOf
        <3>2. subs'[u] = subs[u] - 1 /\ subs[u] > 1
            BY <1>3, <1>8, <2>4 DEF UnsubDecr
        <3> QED  BY <1>2, <1>3, <2>1, <3>1, <3>2 DEF Routed
    <2> QED  BY <2>2, <2>3, <2>4
<1>9. ASSUME NEW c \in Conns, UnsubSend(c)  PROVE Routed(u)'
    <2>1. /\ queue' = Append(queue, Command("UNSUBSCRIBE", c)) /\ subscribed' = subscribed
          /\ subs' = subs /\ raced' = raced
        BY <1>9 DEF UnsubSend, Command
    <2>2. WillRoute(u)' <=> IF user[c] = u THEN FALSE ELSE WillRoute(u)
        BY <1>3, <2>1, SendRoutes
    <2>3. At(u, {"subSend"})' = At(u, {"subSend"})
        BY <1>3, <1>9 DEF UnsubSend, Goto, At, ConnsOf
    <2>4. CASE user[c] # u
        <3>1. At(u, {"unsubSend"})' = At(u, {"unsubSend"})
            BY <1>3, <1>9, <2>4 DEF UnsubSend, Goto, At, ConnsOf
        <3> QED  BY <1>2, <2>1, <2>2, <2>3, <2>4, <3>1, RoutedStays
    <2>5. CASE user[c] = u
        <3>1. c \in At(u, {"unsubSend"})
            BY <1>9, <2>5 DEF UnsubSend, At, ConnsOf
        <3> QED  BY <1>2, <2>1, <2>2, <2>5, <3>1 DEF Routed
    <2> QED  BY <2>4, <2>5
<1>10. ASSUME Execute  PROVE Routed(u)'
    <2>1. /\ At(u, {"subSend"})' = At(u, {"subSend"})
          /\ At(u, {"unsubSend"})' = At(u, {"unsubSend"})
          /\ subs' = subs /\ raced' = raced
        BY <1>10 DEF Execute, At, ConnsOf
    <2> QED  BY <1>2, <1>10, <2>1, ExecuteRoutes, RoutedStays
<1>11. CASE UNCHANGED vars
    <2>1. /\ At(u, {"subSend"})' = At(u, {"subSend"})
          /\ At(u, {"unsubSend"})' = At(u, {"unsubSend"})
          /\ subs' = subs /\ raced' = raced /\ link' = link
        BY <1>11 DEF vars, At, ConnsOf
    <2> QED  BY <1>2, <1>4, <2>1, RoutedStays
<1> QED
    BY <1>1, <1>5, <1>6, <1>7, <1>8, <1>9, <1>10, <1>11, NoNewError DEF Next, Proceed

-----------------------------------------------------------------------------
(* Theorems *)

LEMMA InitIInv ==
    ASSUME Init  PROVE IInv
<1>1. TypeOK
    <2>1. {"upgraded"} \subseteq Labels
        BY DEF Labels
    <2>2. queue \in Seq([cmd : {"SUBSCRIBE", "UNSUBSCRIBE"}, conn : Conns])
        BY EmptySeq DEF Init
    <2> QED  BY <2>1, <2>2 DEF Init, TypeOK
<1>2. \A c \in Conns : pc[c] = "upgraded"
    BY DEF Init
<1>3. /\ registry = {} /\ Counting = {} /\ connCount = 0 /\ errors = 0 /\ dedicated
      /\ queue = << >> /\ subscribed = {} /\ Len(queue) = 0
      /\ \A u \in Users : /\ subs[u] = 0 /\ Ups(u) = {} /\ Downs(u) = {} /\ ~Held(u)
                          /\ Entering(u) = {} /\ At(u, {"unsubSend"}) = {}
    BY <1>2 DEF Init, Counting, Ups, Downs, Entering, At, ConnsOf, Held
<1>4. RegistryInv /\ EnterInv
    BY <1>2, <1>3 DEF RegistryInv, EnterInv, Subscribing
<1>5. Cardinality({}) = 0
    BY FS_EmptySet
<1>6. ConnCountExact
    <2>1. ConnCountExact <=> connCount = Cardinality(registry) - Cardinality(Counting)
        BY DEF ConnCountExact, Counting
    <2> QED  BY <1>3, <1>5, <2>1
<1>7. RefInv /\ RefcountAccounts
    <2>1. RefcountAccounts <=> (errors = 0 => \A u \in Users : Balanced(u))
        BY DEF RefcountAccounts, Balanced, Ups, Downs, HeldOnce
    <2>2. \A u \in Users : HeldOnce(u) = 0
        BY <1>3 DEF HeldOnce
    <2>3. \A u \in Users :
              subs[u] = 0 /\ Cardinality(Ups(u)) = 0 /\ Cardinality(Downs(u)) = 0
        BY <1>3, <1>5
    <2>4. \A u \in Users : Balanced(u) /\ Covered(u)
        BY <2>2, <2>3 DEF Balanced, Covered
    <2>5. RefInv <=> \A u \in Users : Covered(u)
        BY DEF RefInv, Covered
    <2> QED  BY <2>1, <2>4, <2>5
<1>8. ErrorInv /\ QueueInv
    BY <1>2, <1>3 DEF ErrorInv, QueueInv
<1>9. RouteInv
    BY <1>3 DEF RouteInv, WillRoute
<1> QED  BY <1>1, <1>4, <1>6, <1>7, <1>8, <1>9 DEF IInv, CountersAccount

LEMMA NextIInv ==
    ASSUME IInv, [Next]_vars  PROVE IInv'
<1>1. /\ TypeOK /\ RegistryInv /\ EnterInv /\ ConnCountExact /\ RefcountAccounts /\ RefInv
      /\ ErrorInv /\ QueueInv /\ RouteInv
    BY DEF IInv, CountersAccount
<1>2. TypeOK' /\ RegistryInv' /\ EnterInv' /\ ErrorInv'
    BY <1>1, TypeStep, RegistryStep, EnterStep, ErrorStep
<1>3. ConnCountExact' /\ RefInv' /\ RefcountAccounts'
    BY <1>1, ConnCountStep, RefStep
<1>4. QueueInv' /\ RouteInv'
    BY <1>1, QueueStep, RouteStep
<1> QED  BY <1>2, <1>3, <1>4 DEF IInv, CountersAccount

\* In every state of the system, for any users and connections and any number of
\* failures, the inductive invariant holds.
THEOREM Invariance == Spec => []IInv
<1>1. Init => IInv
    BY InitIInv
<1>2. IInv /\ [Next]_vars => IInv'
    BY NextIInv
<1> QED  BY <1>1, <1>2, PTL DEF Spec

\* The registry, the counters and the commands keep their types; the refcount of
\* a user never goes below zero, whatever calls fail.
THEOREM TypeCorrect == Spec => []TypeOK
<1>1. IInv => TypeOK
    BY DEF IInv
<1> QED  BY <1>1, Invariance, PTL

\* connCount and the refcounts are exact up to the goroutines that are between
\* the shard lock and the atomic add or mu, for any number of connections.
THEOREM CountersNeverDrift == Spec => []CountersAccount
<1>1. IInv => CountersAccount
    BY DEF IInv
<1> QED  BY <1>1, Invariance, PTL

\* Without a failure, losing the race between the last UNSUBSCRIBE of a user and
\* the first SUBSCRIBE after it is the only way a connected user ends up without
\* the subscription.
THEOREM OnlyTheRaceUnsubscribes == Spec => []SubscribedUnlessRaced
<1>1. ASSUME IInv  PROVE SubscribedUnlessRaced
    <2>1. SUFFICES ASSUME errors = 0, NEW u \in Users, u \notin raced, Held(u),
                          At(u, {"count"} \cup Subscribing) = {}
                   PROVE  u \in subscribed
        BY DEF SubscribedUnlessRaced
    <2>2. TypeOK /\ RefcountAccounts /\ QueueInv /\ Routed(u)
        BY <1>1, <2>1 DEF IInv, CountersAccount, RouteInv, Routed
    <2>3. Ups(u) = {} /\ At(u, {"subSend"}) = {}
        BY <2>1 DEF Ups, At, Subscribing
    <2>4. subs[u] > 0
        <3>1. subs[u] + Cardinality(Ups(u)) = Cardinality(Downs(u)) + 1
            BY <2>1, <2>2 DEF RefcountAccounts, Ups, Downs
        <3>2. Cardinality(Ups(u)) = 0
            BY <2>3, FS_EmptySet
        <3>3. Cardinality(Downs(u)) \in Nat
            BY FiniteParts, FS_CardinalityType
        <3>4. subs[u] \in Nat
            BY <2>2, Typed
        <3> QED  BY <3>1, <3>2, <3>3, <3>4
    <2>5. WillRoute(u)
        BY <2>1, <2>2, <2>3, <2>4 DEF Routed
    <2>6. ASSUME NEW i \in 1 .. Len(queue), OfUser(i, u), queue[i].cmd = "SUBSCRIBE"
          PROVE  FALSE
        <3>1. pc[queue[i].conn] = "subWait"
            BY <2>1, <2>2, <2>6 DEF QueueInv
        <3>2. queue[i].conn \in Conns
            <4>1. queue \in Seq(Commands)
                BY <2>2, Typed
            <4>2. queue[i] \in Commands
                BY <4>1
            <4> QED  BY <4>2, CommandFields
        <3>3. queue[i].conn \in At(u, {"count"} \cup Subscribing)
            BY <2>6, <3>1, <3>2 DEF OfUser, At, ConnsOf, Subscribing
        <3> QED  BY <2>1, <3>3
    <2> QED  BY <2>5, <2>6 DEF WillRoute
<1> QED  BY <1>1, Invariance, PTL

\* A user who has left holds no reference, whatever failed meanwhile; and no
\* subscription, if nothing failed.
THEOREM LeavingReleases == Spec => []NothingLeaks
<1>1. ASSUME IInv  PROVE NothingLeaks
    <2>1. SUFFICES ASSUME NEW u \in Users, Settled(u), ~Held(u)
                   PROVE  subs[u] = 0 /\ (errors = 0 => u \notin subscribed)
        BY DEF NothingLeaks
    <2>2. TypeOK /\ RefInv /\ RouteInv
        BY <1>1 DEF IInv
    <2>3. Ups(u) = {} /\ Downs(u) = {} /\ At(u, {"unsubSend"}) = {}
        BY <2>1 DEF Settled, Ups, Downs, At, Subscribing, Unsubscribing
    <2>4. subs[u] = 0
        <3>1. subs[u] + Cardinality(Ups(u)) <= Cardinality(Downs(u)) + 0
            BY <2>1, <2>2 DEF RefInv, HeldOnce
        <3>2. Cardinality(Ups(u)) = 0 /\ Cardinality(Downs(u)) = 0
            BY <2>3, FS_EmptySet
        <3>3. subs[u] \in Nat
            BY <2>2, Typed
        <3> QED  BY <3>1, <3>2, <3>3
    <2>5. ASSUME errors = 0  PROVE u \notin subscribed
        <3>1. ~WillRoute(u)
            BY <2>2, <2>3, <2>4, <2>5 DEF RouteInv
        <3>2. \A i \in 1 .. Len(queue) : ~OfUser(i, u)
            <4>1. queue \in Seq(Commands)
                BY <2>2, Typed
            <4>2. DOMAIN queue = 1 .. Len(queue)
                BY <4>1
            <4> QED  BY <2>1, <4>2 DEF Settled, OfUser
        <3> QED  BY <3>1, <3>2 DEF WillRoute
    <2> QED  BY <2>4, <2>5
<1> QED  BY <1>1, Invariance, PTL
=============================================================================
