------------------------- MODULE NotificationRepoProofs -------------------------
(***************************************************************************)
(* What holds of the notification store for any number of users, calls,    *)
(* connections and any page size.  IInv is inductive: it adds to the       *)
(* invariants the runs check who holds a row lock, which seq a transaction *)
(* has in hand, and that the follower holds exactly the prefix it has read.*)
(***************************************************************************)
EXTENDS NotificationRepo, Sequences, FiniteSetTheorems, TLAPS

Holding == {"allocated", "inserted"}

\* A transaction past its upsert holds the lock of its user's row, nobody else
\* holds one, and the seq it will write is the next one.
LockInv ==
    /\ \A c \in Creates : pc[c] \in Holding =>
          /\ lockedBy[user[c]] = c
          /\ nextSeq[c] = lastSeq[user[c]] + 1
    /\ \A u \in Users, c \in Creates :
          lockedBy[u] = c => user[c] = u /\ pc[c] \in Holding

\* A visible row was written by the call it belongs to, which has ended.
RowInv ==
    /\ IsFiniteSet(notifications)
    /\ \A n \in notifications :
          /\ pc[n.id] \in {"ok", "failed"}
          /\ n.user = user[n.id]
    /\ \A m, n \in notifications :
          (m.id = n.id \/ (m.user = n.user /\ m.seq = n.seq)) => m = n

\* The follower of u holds the visible rows up to its cursor, and only those.
FollowInv ==
    \A u \in Users :
        /\ cursor[u] <= lastSeq[u]
        /\ received[u] = {n \in RowsOf(u) : n.seq <= cursor[u]}

ReadInv == read \subseteq {n.id : n \in notifications}

IInv ==
    /\ TypeOK
    /\ LockInv
    /\ RowInv
    /\ Gapless
    /\ FollowInv
    /\ ReadInv
    /\ CreatedIsDurable
-----------------------------------------------------------------------------
(* The steps of Create that leave the tables alone *)

\* BeginTx disturbs nothing but the program counter of its own call.
LEMMA BeginTxKeepsIInv ==
    ASSUME IInv, NEW c \in Creates, BeginTx(c)  PROVE IInv'
<1> USE DEF IInv, BeginTx, RowsOf
<1>1. TypeOK'  BY DEF TypeOK
<1>2. LockInv'  BY DEF TypeOK, LockInv, Holding
<1>3. RowInv'  BY DEF TypeOK, RowInv
<1>4. Gapless' /\ FollowInv' /\ ReadInv'
    BY DEF Gapless, FollowInv, ReadInv
<1>5. CreatedIsDurable'  BY DEF TypeOK, CreatedIsDurable, Row
<1> QED  BY <1>1, <1>2, <1>3, <1>4, <1>5

\* A call that gets no connection has touched nothing.
LEMMA BeginTxFailsKeepsIInv ==
    ASSUME IInv, NEW c \in Creates, BeginTxFails(c)  PROVE IInv'
<1> USE DEF IInv, BeginTxFails, RowsOf
<1>1. TypeOK'  BY DEF TypeOK
<1>2. LockInv'  BY DEF TypeOK, LockInv, Holding
<1>3. RowInv'  BY DEF TypeOK, RowInv
<1>4. Gapless' /\ FollowInv' /\ ReadInv'
    BY DEF Gapless, FollowInv, ReadInv
<1>5. CreatedIsDurable'  BY DEF TypeOK, CreatedIsDurable, Row
<1> QED  BY <1>1, <1>2, <1>3, <1>4, <1>5

\* The upsert takes a lock nobody holds and the seq after the last visible one.
LEMMA UpsertOffsetKeepsIInv ==
    ASSUME IInv, NEW c \in Creates, UpsertOffset(c)  PROVE IInv'
<1> USE DEF IInv, UpsertOffset, RowsOf
<1>1. TypeOK'  BY DEF TypeOK
<1>2. LockInv'  BY CreatesAssumption DEF TypeOK, LockInv, Holding
<1>3. RowInv'  BY DEF TypeOK, RowInv
<1>4. Gapless' /\ FollowInv' /\ ReadInv'
    BY DEF Gapless, FollowInv, ReadInv
<1>5. CreatedIsDurable'  BY DEF TypeOK, CreatedIsDurable, Row
<1> QED  BY <1>1, <1>2, <1>3, <1>4, <1>5

\* The insert is invisible until the commit.
LEMMA InsertRowKeepsIInv ==
    ASSUME IInv, NEW c \in Creates, InsertRow(c)  PROVE IInv'
<1> USE DEF IInv, InsertRow, RowsOf
<1>1. TypeOK'  BY DEF TypeOK
<1>2. LockInv'  BY DEF TypeOK, LockInv, Holding
<1>3. RowInv'  BY DEF TypeOK, RowInv
<1>4. Gapless' /\ FollowInv' /\ ReadInv'
    BY DEF Gapless, FollowInv, ReadInv
<1>5. CreatedIsDurable'  BY DEF TypeOK, CreatedIsDurable, Row
<1> QED  BY <1>1, <1>2, <1>3, <1>4, <1>5

\* A rollback frees the lock it holds, if any, and no other.
LEMMA RollbackKeepsIInv ==
    ASSUME IInv, NEW c \in Creates, Rollback(c)  PROVE IInv'
<1> USE DEF IInv, Rollback, RowsOf, Unlocked
<1>1. TypeOK'  BY DEF TypeOK
<1>2. LockInv'  BY CreatesAssumption DEF TypeOK, LockInv, Holding
<1>3. RowInv'  BY DEF TypeOK, RowInv
<1>4. Gapless' /\ FollowInv' /\ ReadInv'
    BY DEF Gapless, FollowInv, ReadInv
<1>5. CreatedIsDurable'  BY DEF TypeOK, CreatedIsDurable, Row
<1> QED  BY <1>1, <1>2, <1>3, <1>4, <1>5

-----------------------------------------------------------------------------
(* Commit *)

\* The committed row stands right behind the visible rows of its user.
LEMMA CommitIsNext ==
    ASSUME IInv, NEW c \in Creates, Commit(c)
    PROVE  /\ nextSeq[c] = lastSeq[user[c]] + 1
           /\ lastSeq' = [lastSeq EXCEPT ![user[c]] = lastSeq[user[c]] + 1]
           /\ \A m \in RowsOf(user[c]) : m.seq <= lastSeq[user[c]]
           /\ \A m \in notifications : m.id # c
<1>1. nextSeq[c] = lastSeq[user[c]] + 1  BY DEF IInv, LockInv, Holding, Commit
<1>2. \A m \in RowsOf(user[c]) : m.seq <= lastSeq[user[c]]
    <2>1. user[c] \in Users /\ lastSeq[user[c]] \in Nat  BY DEF IInv, TypeOK
    <2>2. \A m \in RowsOf(user[c]) : m.seq \in 1 .. lastSeq[user[c]]
        BY <2>1 DEF IInv, Gapless
    <2> QED  BY <2>1, <2>2
<1>3. \A m \in notifications : m.id # c  BY DEF IInv, RowInv, Commit
<1> QED  BY <1>1, <1>2, <1>3 DEF Commit

\* A commit appends one row at the next seq of one user.
LEMMA CommitKeepsIInv ==
    ASSUME IInv, NEW c \in Creates, Commit(c)  PROVE IInv'
<1> DEFINE u == user[c]
           row == Row(c, u, nextSeq[c])
<1>0. /\ u \in Users
      /\ lastSeq[u] \in Nat
      /\ nextSeq[c] = lastSeq[u] + 1
      /\ row = [id |-> c, user |-> u, seq |-> lastSeq[u] + 1]
      /\ notifications' = notifications \cup {row}
      /\ row \notin notifications
    <2>1. u \in Users /\ lastSeq[u] \in Nat  BY DEF IInv, TypeOK
    <2>2. nextSeq[c] = lastSeq[u] + 1  BY CommitIsNext
    <2>3. row = [id |-> c, user |-> u, seq |-> lastSeq[u] + 1]  BY <2>2 DEF Row
    <2>4. notifications' = notifications \cup {row}  BY DEF Commit
    <2>5. row \notin notifications  BY <2>3, CommitIsNext
    <2> QED  BY <2>1, <2>2, <2>3, <2>4, <2>5
<1>1. TypeOK'  BY <1>0 DEF IInv, TypeOK, Commit, Unlocked, Row
<1>2. LockInv'
    <2>1. ASSUME NEW d \in Creates, pc'[d] \in Holding
          PROVE  lockedBy'[user'[d]] = d /\ nextSeq'[d] = lastSeq'[user'[d]] + 1
        <3>1. d # c /\ pc[d] \in Holding /\ pc[c] \in Holding
            BY <2>1 DEF IInv, TypeOK, Commit, Holding
        <3>2. user[d] # u  BY <3>1 DEF IInv, LockInv
        <3> QED  BY <3>1, <3>2 DEF IInv, TypeOK, LockInv, Commit, Unlocked
    <2>2. ASSUME NEW v \in Users, NEW d \in Creates, lockedBy'[v] = d
          PROVE  user'[d] = v /\ pc'[d] \in Holding
        <3>1. lockedBy[v] = d /\ d # c
            BY <2>2, CreatesAssumption DEF IInv, TypeOK, Commit, Unlocked
        <3> QED  BY <3>1 DEF IInv, TypeOK, LockInv, Commit
    <2> QED  BY <2>1, <2>2 DEF LockInv
<1>3. RowInv'
    <2>1. IsFiniteSet(notifications')
        BY <1>0, FS_AddElement DEF IInv, RowInv
    <2>2. \A n \in notifications' : pc'[n.id] \in {"ok", "failed"} /\ n.user = user'[n.id]
        BY <1>0, CommitIsNext DEF IInv, TypeOK, RowInv, Commit
    <2>3. ASSUME NEW m \in notifications', NEW n \in notifications',
                 m.id = n.id \/ (m.user = n.user /\ m.seq = n.seq)
          PROVE  m = n
        <3>1. \A k \in notifications : k.id # c /\ ~(k.user = u /\ k.seq = lastSeq[u] + 1)
            <4>1. ASSUME NEW k \in notifications, k.user = u  PROVE k.seq # lastSeq[u] + 1
                <5>1. k.seq \in Nat /\ k.seq <= lastSeq[u]
                    BY <4>1, CommitIsNext DEF IInv, TypeOK, RowsOf
                <5> QED  BY <1>0, <5>1
            <4> QED  BY <4>1, CommitIsNext
        <3> QED  BY <1>0, <2>3, <3>1 DEF IInv, RowInv
    <2> QED  BY <2>1, <2>2, <2>3 DEF RowInv
<1>4. ASSUME NEW v \in Users
      PROVE  RowsOf(v)' = RowsOf(v) \cup (IF v = u THEN {row} ELSE {})
    BY <1>0 DEF RowsOf
<1>5. Gapless'
    <2> SUFFICES ASSUME NEW v \in Users
                 PROVE  {n.seq : n \in RowsOf(v)'} = 1 .. lastSeq'[v]
        BY DEF Gapless
    <2>1. {n.seq : n \in RowsOf(v)} = 1 .. lastSeq[v] /\ lastSeq[v] \in Nat
        BY DEF IInv, Gapless, TypeOK
    <2>2. CASE v = u
        <3>1. {n.seq : n \in RowsOf(v)'} = (1 .. lastSeq[u]) \cup {lastSeq[u] + 1}
            BY <1>0, <1>4, <2>1, <2>2
        <3>2. lastSeq'[v] = lastSeq[u] + 1
            BY <1>0, <2>2, CommitIsNext DEF IInv, TypeOK
        <3> QED  BY <1>0, <3>1, <3>2
    <2>3. CASE v # u
        BY <1>4, <2>1, <2>3, CommitIsNext DEF IInv, TypeOK
    <2> QED  BY <2>2, <2>3
<1>6. FollowInv'
    <2> SUFFICES ASSUME NEW v \in Users
                 PROVE  /\ cursor[v] <= lastSeq'[v]
                        /\ received[v] = {n \in RowsOf(v)' : n.seq <= cursor[v]}
        BY DEF FollowInv, Commit
    <2>1. /\ cursor[v] \in Nat
          /\ lastSeq[v] \in Nat
          /\ cursor[v] <= lastSeq[v]
          /\ received[v] = {n \in RowsOf(v) : n.seq <= cursor[v]}
        BY DEF IInv, TypeOK, FollowInv
    <2>2. lastSeq'[v] = IF v = u THEN lastSeq[v] + 1 ELSE lastSeq[v]
        BY <1>0, CommitIsNext DEF IInv, TypeOK
    <2>3. v = u => ~(row.seq <= cursor[v])  BY <1>0, <2>1
    <2> QED  BY <1>4, <2>1, <2>2, <2>3
<1>7. ReadInv'  BY <1>0 DEF IInv, ReadInv, Commit
<1>8. CreatedIsDurable'
    BY <1>0 DEF IInv, TypeOK, CreatedIsDurable, Commit, Row
<1> QED  BY <1>1, <1>2, <1>3, <1>5, <1>6, <1>7, <1>8 DEF IInv

-----------------------------------------------------------------------------
(* The single-statement operations *)

\* An acknowledgement moves a counter that nothing else depends on.
LEMMA RecordAckKeepsIInv ==
    ASSUME IInv, NEW u \in Users, NEW s \in Int, RecordAck(u, s)  PROVE IInv'
<1> USE DEF IInv, RecordAck
<1>1. TypeOK'  BY DEF TypeOK
<1>2. LockInv' /\ RowInv' /\ Gapless' /\ FollowInv' /\ ReadInv'
    BY DEF LockInv, RowInv, Gapless, FollowInv, ReadInv, RowsOf
<1>3. CreatedIsDurable'  BY DEF CreatedIsDurable, Row
<1> QED  BY <1>1, <1>2, <1>3

\* Marking read touches a visible row.
LEMMA MarkReadKeepsIInv ==
    ASSUME IInv, NEW u \in Users, NEW id \in Creates, MarkRead(u, id)  PROVE IInv'
<1> USE DEF IInv, MarkRead
<1>1. TypeOK'  BY DEF TypeOK
<1>2. ReadInv'  BY DEF ReadInv, RowsOf
<1>3. LockInv' /\ RowInv' /\ Gapless' /\ FollowInv'
    BY DEF LockInv, RowInv, Gapless, FollowInv, RowsOf
<1>4. CreatedIsDurable'  BY DEF CreatedIsDurable, Row
<1> QED  BY <1>1, <1>2, <1>3, <1>4

\* A page of SinceSeq holds no row without the visible rows before it: LIMIT
\* cuts the far end of the page.
LEMMA PageIsPrefix ==
    ASSUME IInv, NEW u \in Users, NEW from \in Nat,
           NEW n \in SinceSeq(u, from), NEW m \in RowsOf(u),
           m.seq > from, m.seq < n.seq
    PROVE  m \in SinceSeq(u, from)
<1> DEFINE behind == {k \in RowsOf(u) : k.seq > from}
           Before(k) == {i \in behind : i.seq < k.seq}
<1>1. n \in behind /\ m \in behind /\ behind \subseteq notifications
    BY DEF SinceSeq, RowsOf
<1>2. Before(m) \subseteq Before(n)
    BY <1>1 DEF IInv, TypeOK
<1>3. IsFiniteSet(Before(n))
    BY <1>1, FS_Subset DEF IInv, RowInv
<1>4. Cardinality(Before(m)) <= Cardinality(Before(n))
    BY <1>2, <1>3, FS_Subset
<1>5. Cardinality(Before(m)) \in Nat /\ Cardinality(Before(n)) \in Nat
    BY <1>2, <1>3, FS_Subset, FS_CardinalityType
<1>6. Cardinality(Before(n)) < PageSize  BY DEF SinceSeq
<1> QED  BY <1>1, <1>4, <1>5, <1>6, SizesAssumption DEF SinceSeq

\* After a page the follower holds the visible rows up to its new cursor.
LEMMA FollowAdvances ==
    ASSUME IInv, NEW u \in Users, Follow(u)
    PROVE  /\ cursor'[u] \in cursor[u] + 1 .. lastSeq[u]
           /\ received'[u] = {n \in RowsOf(u) : n.seq <= cursor'[u]}
           /\ \A v \in Users \ {u} : cursor'[v] = cursor[v] /\ received'[v] = received[v]
<1> DEFINE page == SinceSeq(u, cursor[u])
<1>0. PICK last \in page : /\ \A n \in page : n.seq <= last.seq
                           /\ cursor' = [cursor EXCEPT ![u] = last.seq]
    BY DEF Follow
<1>1. /\ cursor[u] \in Nat
      /\ lastSeq[u] \in Nat
      /\ page \subseteq {n \in RowsOf(u) : n.seq > cursor[u]}
      /\ \A n \in RowsOf(u) : n.seq \in 1 .. lastSeq[u]
    BY DEF IInv, TypeOK, SinceSeq, Gapless
<1>2. cursor'[u] = last.seq  BY <1>0 DEF IInv, TypeOK
<1>3. received'[u] = received[u] \cup page  BY DEF IInv, TypeOK, Follow
<1>4. received[u] = {n \in RowsOf(u) : n.seq <= cursor[u]}  BY DEF IInv, FollowInv
<1>5. \A m \in RowsOf(u) : m.seq > cursor[u] /\ m.seq <= last.seq => m \in page
    <2> SUFFICES ASSUME NEW m \in RowsOf(u), m.seq > cursor[u], m.seq <= last.seq
                 PROVE  m \in page
        OBVIOUS
    <2>1. CASE m.seq < last.seq  BY <1>0, <1>1, <2>1, PageIsPrefix
    <2>2. CASE m.seq = last.seq
        BY <1>0, <1>1, <2>2 DEF IInv, RowInv, RowsOf
    <2> QED  BY <1>0, <1>1, <2>1, <2>2
<1>6. received'[u] = {n \in RowsOf(u) : n.seq <= last.seq}
    BY <1>0, <1>1, <1>3, <1>4, <1>5
<1>7. \A v \in Users \ {u} : cursor'[v] = cursor[v] /\ received'[v] = received[v]
    BY <1>0 DEF IInv, TypeOK, Follow
<1> QED  BY <1>0, <1>1, <1>2, <1>6, <1>7

\* A page moves one cursor within the log and leaves the tables alone.
LEMMA FollowKeepsIInv ==
    ASSUME IInv, NEW u \in Users, Follow(u)  PROVE IInv'
<1>1. \A v \in Users : RowsOf(v)' = RowsOf(v)  BY DEF Follow, RowsOf
<1>2. FollowInv'
    <2> SUFFICES ASSUME NEW v \in Users
                 PROVE  /\ cursor'[v] <= lastSeq[v]
                        /\ received'[v] = {n \in RowsOf(v) : n.seq <= cursor'[v]}
        BY <1>1 DEF FollowInv, Follow
    <2>1. CASE v = u
        BY <2>1, FollowAdvances DEF IInv, TypeOK
    <2>2. CASE v # u
        BY <2>2, FollowAdvances DEF IInv, FollowInv
    <2> QED  BY <2>1, <2>2
<1>3. TypeOK'
    <2>1. cursor' \in [Users -> Nat]
        <3>1. PICK last \in SinceSeq(u, cursor[u]) : cursor' = [cursor EXCEPT ![u] = last.seq]
            BY DEF Follow
        <3>2. last.seq \in Nat  BY DEF IInv, TypeOK, SinceSeq, RowsOf
        <3> QED  BY <3>1, <3>2 DEF IInv, TypeOK
    <2>2. received' \in [Users -> SUBSET [id : Creates, user : Users, seq : Nat]]
        BY DEF IInv, TypeOK, Follow, SinceSeq, RowsOf
    <2> QED  BY <2>1, <2>2 DEF IInv, TypeOK, Follow
<1>4. LockInv' /\ RowInv' /\ Gapless' /\ ReadInv'
    BY <1>1 DEF IInv, LockInv, RowInv, Gapless, ReadInv, Follow
<1>5. CreatedIsDurable'  BY DEF IInv, CreatedIsDurable, Row, Follow
<1> QED  BY <1>2, <1>3, <1>4, <1>5 DEF IInv
-----------------------------------------------------------------------------
(* The invariant, and what follows from it *)

\* Before the first call the tables are empty.
LEMMA InitIInv ==
    Init => IInv
<1> SUFFICES ASSUME Init  PROVE IInv
    OBVIOUS
<1>1. TypeOK  BY DEF Init, TypeOK
<1>2. LockInv  BY CreatesAssumption DEF Init, LockInv, Holding
<1>3. RowInv  BY FS_EmptySet DEF Init, RowInv
<1>4. \A u \in Users : RowsOf(u) = {}  BY DEF Init, RowsOf
<1>5. Gapless /\ FollowInv  BY <1>4 DEF Init, Gapless, FollowInv
<1>6. ReadInv /\ CreatedIsDurable
    BY DEF Init, ReadInv, CreatedIsDurable
<1> QED  BY <1>1, <1>2, <1>3, <1>5, <1>6 DEF IInv

\* Every step of the store keeps the invariant.
LEMMA NextKeepsIInv ==
    IInv /\ [Next]_vars => IInv'
<1> SUFFICES ASSUME IInv, [Next]_vars  PROVE IInv'
    OBVIOUS
<1>1. ASSUME NEW c \in Creates, BeginTx(c)  PROVE IInv'
    BY <1>1, BeginTxKeepsIInv
<1>2. ASSUME NEW c \in Creates, UpsertOffset(c)  PROVE IInv'
    BY <1>2, UpsertOffsetKeepsIInv
<1>3. ASSUME NEW c \in Creates, InsertRow(c)  PROVE IInv'
    BY <1>3, InsertRowKeepsIInv
<1>4. ASSUME NEW c \in Creates, Commit(c)  PROVE IInv'
    BY <1>4, CommitKeepsIInv
<1>5. ASSUME NEW c \in Creates, Rollback(c)  PROVE IInv'
    BY <1>5, RollbackKeepsIInv
<1>6. ASSUME NEW u \in Users, NEW s \in Claims, RecordAck(u, s)  PROVE IInv'
    BY <1>6, RecordAckKeepsIInv, ClaimsAssumption
<1>7. ASSUME NEW u \in Users, NEW n \in notifications, MarkRead(u, n.id)  PROVE IInv'
    <2>1. n.id \in Creates  BY DEF IInv, TypeOK
    <2> QED  BY <1>7, <2>1, MarkReadKeepsIInv
<1>8. ASSUME NEW u \in Users, Follow(u)  PROVE IInv'
    BY <1>8, FollowKeepsIInv
<1>9. ASSUME NEW c \in Creates, BeginTxFails(c)  PROVE IInv'
    BY <1>9, BeginTxFailsKeepsIInv
<1>10. CASE UNCHANGED vars
    <2>1. \A v \in Users : RowsOf(v)' = RowsOf(v)  BY <1>10 DEF vars, RowsOf
    <2> QED
        BY <1>10, <2>1 DEF vars, IInv, TypeOK, LockInv, RowInv, Gapless, FollowInv,
           ReadInv, CreatedIsDurable, Row
<1> QED
    BY <1>1, <1>2, <1>3, <1>4, <1>5, <1>6, <1>7, <1>8, <1>9, <1>10 DEF Next, CreateStep

\* The inductive invariant holds in every reachable state.
THEOREM Invariance ==
    Spec => []IInv
BY InitIInv, NextKeepsIInv, PTL DEF Spec

\* The counters, rows and cursors of the store keep their types.
THEOREM TypeCorrect ==
    Spec => []TypeOK
BY Invariance, PTL DEF IInv

\* However transactions overlap and fail, the visible seqs of a user are
\* 1 .. last_seq, for any number of users and calls.
THEOREM LogIsGapless ==
    Spec => []Gapless
BY Invariance, PTL DEF IInv

\* A call that returned nil has its row, for ever, at the seq it published.
THEOREM CreateIsDurable ==
    Spec => []CreatedIsDurable
BY Invariance, PTL DEF IInv

\* A caller that pages through SinceSeq is handed every row up to its cursor.
THEOREM FollowerSkipsNothing ==
    Spec => []NothingSkipped
<1>1. IInv => NothingSkipped  BY DEF IInv, FollowInv, NothingSkipped
<1> QED  BY <1>1, Invariance, PTL

\* Two calls that may both succeed never have the same seq in hand.
THEOREM SeqsAreNotShared ==
    Spec => []NoSharedSeq
<1>1. IInv => NoSharedSeq
    <2> SUFFICES ASSUME IInv, NEW c \in Creates, NEW d \in Creates, c # d,
                        user[c] = user[d],
                        pc[c] \in Holding \cup {"ok"}, pc[d] \in Holding \cup {"ok"}
                 PROVE  nextSeq[c] # nextSeq[d]
        BY DEF NoSharedSeq, Holding
    <2>1. ASSUME NEW e \in Creates, pc[e] = "ok"
          PROVE  /\ Row(e, user[e], nextSeq[e]) \in notifications
                 /\ nextSeq[e] \in 1 .. lastSeq[user[e]]
        <3>1. Row(e, user[e], nextSeq[e]) \in RowsOf(user[e])
            BY <2>1 DEF IInv, CreatedIsDurable, RowsOf, Row
        <3> QED  BY <3>1 DEF IInv, TypeOK, Gapless, RowsOf, Row
    <2>2. CASE pc[c] \in Holding /\ pc[d] \in Holding
        BY <2>2 DEF IInv, LockInv
    <2>3. CASE pc[c] = "ok" /\ pc[d] \in Holding
        BY <2>1, <2>3 DEF IInv, TypeOK, LockInv
    <2>4. CASE pc[c] \in Holding /\ pc[d] = "ok"
        BY <2>1, <2>4 DEF IInv, TypeOK, LockInv
    <2>5. CASE pc[c] = "ok" /\ pc[d] = "ok"
        BY <2>1, <2>5 DEF IInv, RowInv, Row
    <2> QED  BY <2>2, <2>3, <2>4, <2>5
<1> QED  BY <1>1, Invariance, PTL

\* Rows of a user appear in the order of their seqs and are never taken back,
\* and an acknowledged position never moves backwards.
THEOREM StoreIsAppendOnly ==
    Spec => AppendOnly
<1> DEFINE Grows == /\ notifications \subseteq notifications'
                    /\ \A n \in notifications' \ notifications :
                          \A m \in RowsOf(n.user) : m.seq < n.seq
                    /\ \A u \in Users : acked[u] <= acked'[u]
<1>1. IInv /\ [Next]_vars => [Grows]_vars
    <2> SUFFICES ASSUME IInv, Next  PROVE Grows
        BY DEF vars
    <2>1. ASSUME NEW c \in Creates, Commit(c)  PROVE Grows
        <3>1. notifications' = notifications \cup {Row(c, user[c], nextSeq[c])}
              /\ UNCHANGED acked
            BY <2>1 DEF Commit
        <3>2. \A m \in RowsOf(user[c]) : m.seq < nextSeq[c]
            BY <2>1, CommitIsNext DEF IInv, TypeOK, RowsOf
        <3> QED  BY <3>1, <3>2 DEF Row, IInv, TypeOK
    <2>2. ASSUME NEW u \in Users, NEW s \in Claims, RecordAck(u, s)  PROVE Grows
        BY <2>2, ClaimsAssumption DEF IInv, TypeOK, RecordAck
    <2>3. CASE UNCHANGED <<notifications, acked>>
        BY <2>3 DEF IInv, TypeOK
    <2> QED
        BY <2>1, <2>2, <2>3 DEF Next, CreateStep, BeginTx, BeginTxFails, UpsertOffset, InsertRow,
           Rollback, MarkRead, Follow
<1> QED  BY <1>1, Invariance, PTL DEF Spec, AppendOnly

-----------------------------------------------------------------------------
(* Refinement: the store implements NotificationLog *)

\* Position s of the log is the one visible row of u with seq s.
LEMMA RowAtIsRow ==
    ASSUME IInv, NEW u \in Users, NEW s \in 1 .. lastSeq[u]
    PROVE  /\ RowAt(u, s) \in RowsOf(u)
           /\ RowAt(u, s).seq = s
           /\ \A n \in RowsOf(u) : n.seq = s => n = RowAt(u, s)
<1>1. PICK n \in RowsOf(u) : n.seq = s  BY DEF IInv, Gapless
<1>2. RowAt(u, s) \in notifications /\ RowAt(u, s).user = u /\ RowAt(u, s).seq = s
    BY <1>1 DEF RowAt, RowsOf
<1> QED  BY <1>2 DEF IInv, RowInv, RowsOf

\* The entries of the log are the ids of the visible rows.
LEMMA LogHoldsTheRows ==
    ASSUME IInv, NEW u \in Users
    PROVE  /\ logView[u] = [s \in 1 .. lastSeq[u] |-> RowAt(u, s).id]
           /\ logView[u] \in Seq(Creates)
           /\ Len(logView[u]) = lastSeq[u]
           /\ Log!Entries(u) = {n.id : n \in RowsOf(u)}
           /\ \A k \in 0 .. lastSeq[u] :
                 {logView[u][s] : s \in 1 .. k} = {n.id : n \in {m \in RowsOf(u) : m.seq <= k}}
<1>1. logView[u] = [s \in 1 .. lastSeq[u] |-> RowAt(u, s).id]  BY DEF logView
<1>2. lastSeq[u] \in Nat /\ \A n \in RowsOf(u) : n.seq \in 1 .. lastSeq[u]
    BY DEF IInv, TypeOK, Gapless
<1>3. \A s \in 1 .. lastSeq[u] : RowAt(u, s).id \in Creates
    BY RowAtIsRow DEF IInv, TypeOK, RowsOf
<1>4. logView[u] \in Seq(Creates) /\ Len(logView[u]) = lastSeq[u]
    BY <1>1, <1>2, <1>3
<1>5. ASSUME NEW k \in 0 .. lastSeq[u]
      PROVE  {logView[u][s] : s \in 1 .. k} = {n.id : n \in {m \in RowsOf(u) : m.seq <= k}}
    <2>1. \A s \in 1 .. k : /\ s \in 1 .. lastSeq[u]
                           /\ logView[u][s] = RowAt(u, s).id
                           /\ RowAt(u, s) \in RowsOf(u)
                           /\ RowAt(u, s).seq <= k
        BY <1>1, <1>2, RowAtIsRow
    <2>2. \A n \in RowsOf(u) : n.seq <= k => n.seq \in 1 .. k /\ logView[u][n.seq] = n.id
        BY <1>1, <1>2, RowAtIsRow
    <2> QED  BY <2>1, <2>2
<1>6. Log!Entries(u) = {logView[u][s] : s \in 1 .. lastSeq[u]}
    BY <1>4 DEF Log!Entries
<1>7. {m \in RowsOf(u) : m.seq <= lastSeq[u]} = RowsOf(u)  BY <1>2
<1>8. lastSeq[u] \in 0 .. lastSeq[u]  BY <1>2
<1>9. {logView[u][s] : s \in 1 .. lastSeq[u]} = {n.id : n \in RowsOf(u)}
    BY <1>5, <1>7, <1>8
<1>10. Log!Entries(u) = {n.id : n \in RowsOf(u)}  BY <1>6, <1>9
<1>11. \A k \in 0 .. lastSeq[u] :
           {logView[u][s] : s \in 1 .. k} = {n.id : n \in {m \in RowsOf(u) : m.seq <= k}}
    BY <1>5
<1> QED  BY <1>1, <1>4, <1>10, <1>11

\* A commit appends at the end of one log.
LEMMA CommitImplementsAppend ==
    ASSUME IInv, IInv', NEW c \in Creates, NEW u \in Users, u = user[c], Commit(c)
    PROVE  Log!AppendEntry(u, c)
<1>0. u \in Users /\ lastSeq[u] \in Nat  BY DEF IInv, TypeOK
<1>1. \A v \in Users : c \notin Log!Entries(v)
    <2> SUFFICES ASSUME NEW v \in Users  PROVE c \notin {n.id : n \in RowsOf(v)}
        BY LogHoldsTheRows
    <2>1. \A n \in notifications : n.id # c  BY CommitIsNext
    <2> QED  BY <2>1 DEF RowsOf
<1>2. ASSUME NEW v \in Users, v # u  PROVE logView'[v] = logView[v]
    <2>1. lastSeq'[v] = lastSeq[v]  BY <1>2, CommitIsNext DEF IInv, TypeOK
    <2>2. \A s \in 1 .. lastSeq[v] : RowAt(v, s)' = RowAt(v, s)
        <3> SUFFICES ASSUME NEW s \in 1 .. lastSeq[v]  PROVE RowAt(v, s)' = RowAt(v, s)
            OBVIOUS
        <3>1. RowAt(v, s)' = CHOOSE n \in notifications' : n.user = v /\ n.seq = s
            BY DEF RowAt
        <3>2. \A n : (n \in notifications' /\ n.user = v /\ n.seq = s)
                        <=> (n \in notifications /\ n.user = v /\ n.seq = s)
            BY <1>2 DEF Commit, Row
        <3>3. (CHOOSE n \in notifications' : n.user = v /\ n.seq = s)
                = (CHOOSE n \in notifications : n.user = v /\ n.seq = s)
            BY <3>2
        <3> QED  BY <3>1, <3>3 DEF RowAt
    <2>3. logView'[v] = [s \in 1 .. lastSeq'[v] |-> RowAt(v, s)'.id]  BY DEF logView
    <2>4. logView[v] = [s \in 1 .. lastSeq[v] |-> RowAt(v, s).id]  BY DEF logView
    <2> QED  BY <2>1, <2>2, <2>3, <2>4
<1>3. logView'[u] = Append(logView[u], c)
    <2>1. lastSeq'[u] = lastSeq[u] + 1 /\ nextSeq[c] = lastSeq[u] + 1
        BY <1>0, CommitIsNext DEF IInv, TypeOK
    <2>2. \A n \in RowsOf(u)' : \A s \in 1 .. lastSeq'[u] :
              n.seq = s => RowAt(u, s)' = n
        <3> SUFFICES ASSUME NEW n \in RowsOf(u)'  PROVE RowAt(u, n.seq)' = n
            OBVIOUS
        <3>1. /\ n \in notifications' /\ n.user = u
              /\ \A k \in notifications' : k.user = u /\ k.seq = n.seq => k = n
            BY DEF RowsOf, IInv, RowInv
        <3>2. RowAt(u, n.seq)' = CHOOSE k \in notifications' : k.user = u /\ k.seq = n.seq
            BY DEF RowAt
        <3> QED  BY <3>1, <3>2
    <2>3. \A s \in 1 .. lastSeq'[u] : s = lastSeq[u] + 1 => RowAt(u, s)'.id = c
        <3>1. Row(c, u, nextSeq[c]) \in RowsOf(u)'  BY DEF Commit, RowsOf, Row
        <3>2. Row(c, u, nextSeq[c]).seq = lastSeq[u] + 1 /\ Row(c, u, nextSeq[c]).id = c
            BY <2>1 DEF Row
        <3> QED  BY <2>2, <3>1, <3>2
    <2>4. \A s \in 1 .. lastSeq[u] : RowAt(u, s)' = RowAt(u, s)
        <3>1. RowsOf(u) \subseteq RowsOf(u)'  BY DEF Commit, RowsOf
        <3> QED  BY <1>0, <2>1, <2>2, <3>1, RowAtIsRow
    <2>5. logView'[u] = [s \in 1 .. lastSeq[u] + 1 |-> RowAt(u, s)'.id]
        <3>1. logView'[u] = [s \in 1 .. lastSeq'[u] |-> RowAt(u, s)'.id]
            BY <1>0 DEF logView
        <3> QED  BY <2>1, <3>1
    <2>6. logView[u] = [s \in 1 .. lastSeq[u] |-> RowAt(u, s).id] /\ logView[u] \in Seq(Creates)
          /\ Len(logView[u]) = lastSeq[u]
        BY <1>0, LogHoldsTheRows
    <2>7. Append(logView[u], c) = [s \in 1 .. lastSeq[u] + 1 |->
                                      IF s = lastSeq[u] + 1 THEN c ELSE logView[u][s]]
        BY <1>0, <2>6
    <2>8. \A s \in 1 .. lastSeq[u] + 1 :
             RowAt(u, s)'.id = IF s = lastSeq[u] + 1 THEN c ELSE logView[u][s]
        <3> SUFFICES ASSUME NEW s \in 1 .. lastSeq[u] + 1
                     PROVE  RowAt(u, s)'.id = IF s = lastSeq[u] + 1 THEN c ELSE logView[u][s]
            OBVIOUS
        <3>1. CASE s = lastSeq[u] + 1  BY <2>1, <2>3, <3>1
        <3>2. CASE s # lastSeq[u] + 1
            <4>1. s \in 1 .. lastSeq[u]  BY <1>0, <3>2
            <4> QED  BY <2>4, <2>6, <3>2, <4>1
        <3> QED  BY <3>1, <3>2
    <2> QED  BY <2>5, <2>7, <2>8
<1>4. logView' = [logView EXCEPT ![u] = Append(logView[u], c)]
    BY <1>2, <1>3 DEF logView
<1>5. UNCHANGED <<acked, read, cursor, receivedView>>  BY DEF Commit, receivedView
<1> QED  BY <1>1, <1>4, <1>5 DEF Log!AppendEntry

\* A page of SinceSeq brings the follower the whole prefix up to its new cursor.
LEMMA FollowImplementsFollow ==
    ASSUME IInv, NEW u \in Users, Follow(u)
    PROVE  Log!Follow(u, cursor'[u])
<1>1. cursor'[u] \in cursor[u] + 1 .. Len(logView[u])
    BY FollowAdvances, LogHoldsTheRows
<1>2. cursor' = [cursor EXCEPT ![u] = cursor'[u]]
    BY FollowAdvances DEF IInv, TypeOK, Follow
<1>3. receivedView' = [receivedView EXCEPT ![u] = {logView[u][s] : s \in 1 .. cursor'[u]}]
    <2>1. cursor'[u] \in 0 .. lastSeq[u]
        BY FollowAdvances DEF IInv, TypeOK
    <2>2. receivedView'[u] = {logView[u][s] : s \in 1 .. cursor'[u]}
        BY <2>1, FollowAdvances, LogHoldsTheRows DEF receivedView
    <2>3. \A v \in Users \ {u} : receivedView'[v] = receivedView[v]
        BY FollowAdvances DEF receivedView
    <2> QED  BY <2>2, <2>3 DEF receivedView
<1>4. UNCHANGED <<logView, acked, read>>  BY DEF Follow, logView, RowAt
<1> QED  BY <1>1, <1>2, <1>3, <1>4 DEF Log!Follow

\* For any number of users, calls and connections the store is an append-only
\* log whose followers miss nothing.
THEOREM RepoImplementsLog ==
    Spec => ImplementsLog
<1>1. Init => Log!Init
    <2> SUFFICES ASSUME Init  PROVE Log!Init
        OBVIOUS
    <2>1. logView = [u \in Users |-> << >>]  BY DEF Init, logView
    <2>2. receivedView = [u \in Users |-> {}]  BY DEF Init, receivedView
    <2> QED  BY <2>1, <2>2 DEF Init, Log!Init
<1>2. IInv /\ IInv' /\ [Next]_vars => [Log!Next]_(Log!vars)
    <2> SUFFICES ASSUME IInv, IInv', [Next]_vars  PROVE [Log!Next]_(Log!vars)
        OBVIOUS
    <2>1. ASSUME UNCHANGED <<lastSeq, notifications, read, acked, cursor, received>>
          PROVE  UNCHANGED Log!vars
        BY <2>1 DEF Log!vars, logView, RowAt, receivedView
    <2>2. ASSUME NEW c \in Creates, BeginTx(c) \/ BeginTxFails(c) \/ UpsertOffset(c)
                                   \/ InsertRow(c) \/ Rollback(c)
          PROVE  UNCHANGED Log!vars
        BY <2>1, <2>2 DEF BeginTx, BeginTxFails, UpsertOffset, InsertRow, Rollback
    <2>3. ASSUME NEW c \in Creates, Commit(c)  PROVE Log!Next
        <3>1. user[c] \in Users  BY DEF IInv, TypeOK
        <3> QED  BY <2>3, <3>1, CommitImplementsAppend DEF Log!Next
    <2>4. ASSUME NEW u \in Users, NEW s \in Claims, RecordAck(u, s)  PROVE Log!Next
        <3>1. UNCHANGED <<logView, receivedView>>
            BY <2>4 DEF RecordAck, logView, RowAt, receivedView
        <3>2. Log!RecordAck(u, s)
            BY <2>4, <3>1 DEF RecordAck, Log!RecordAck
        <3> QED  BY <3>2 DEF Log!Next
    <2>5. ASSUME NEW u \in Users, NEW n \in notifications, MarkRead(u, n.id)  PROVE Log!Next
        <3>1. n.id \in Creates  BY DEF IInv, TypeOK
        <3>2. UNCHANGED <<logView, receivedView>>
            BY <2>5 DEF MarkRead, logView, RowAt, receivedView
        <3>3. Log!MarkRead(u, n.id)
            BY <2>5, <3>2, LogHoldsTheRows DEF MarkRead, Log!MarkRead
        <3> QED  BY <3>1, <3>3 DEF Log!Next
    <2>6. ASSUME NEW u \in Users, Follow(u)  PROVE Log!Next
        <3>1. cursor'[u] \in 1 .. Len(logView[u])
            <4>1. cursor[u] \in Nat /\ lastSeq[u] \in Nat  BY DEF IInv, TypeOK
            <4>2. cursor'[u] \in cursor[u] + 1 .. lastSeq[u]  BY <2>6, FollowAdvances
            <4>3. Len(logView[u]) = lastSeq[u]  BY LogHoldsTheRows
            <4> QED  BY <4>1, <4>2, <4>3
        <3> QED  BY <2>6, <3>1, FollowImplementsFollow DEF Log!Next
    <2>7. CASE UNCHANGED vars
        BY <2>1, <2>7 DEF vars
    <2> QED
        BY <2>2, <2>3, <2>4, <2>5, <2>6, <2>7 DEF Next, CreateStep
<1> QED  BY <1>1, <1>2, Invariance, PTL DEF Spec, ImplementsLog, Log!Spec

\* Whatever transactions fail or overlap, a resume finds seqs it can count on.
THEOREM SeqsStaySound ==
    Spec => []SeqsAreSound
BY LogIsGapless, SeqsAreNotShared, PTL DEF SeqsAreSound
=============================================================================
