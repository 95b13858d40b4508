---------------------------- MODULE NotificationRepo ----------------------------
(***************************************************************************)
(* The PostgreSQL notification store (adapter/postgres/notifications.go).  *)
(* Create is a transaction of four steps; any number of them run at once   *)
(* and any of them may be cut short by an error, a cancelled context or a  *)
(* crash of the server.  The other operations are single statements and so *)
(* single steps.  The database runs at READ COMMITTED: the row of          *)
(* user_offsets a transaction has written stays locked until it ends, and  *)
(* what it wrote is invisible until it commits.                            *)
(***************************************************************************)
EXTENDS Integers, FiniteSets

CONSTANTS
    Users,
    Creates,    \* the calls of Create; each one brings a notification of its own
    PoolSize,   \* connections in the pool (MaxConns)
    PageSize,   \* LIMIT of a SinceSeq query
    Claims,     \* the arguments of RecordAck: what devices say they have rendered
    NoCreate    \* "the row is not locked"

ASSUME UsersAssumption == IsFiniteSet(Users)
ASSUME CreatesAssumption == IsFiniteSet(Creates) /\ NoCreate \notin Creates
ASSUME SizesAssumption == PoolSize \in Nat \ {0} /\ PageSize \in Nat \ {0}
ASSUME ClaimsAssumption == Claims \subseteq Int

VARIABLES
    \* the tables, as a new transaction sees them
    lastSeq,        \* user_offsets.last_seq, 0 when the user has no row
    notifications,  \* rows [id, user, seq]; UNIQUE (user, seq), PRIMARY KEY id
    read,           \* the ids whose read_at is set
    acked,          \* delivery_offsets.last_acked_seq, 0 when there is no row
    \* the locks
    lockedBy,       \* the transaction that holds the user_offsets row of a user
    \* the calls of Create
    pc,             \* waiting (for a connection) -> begun -> allocated -> inserted
                    \* -> ok, or failed
    user,           \* n.UserID
    nextSeq,        \* the local variable nextSeq
    \* a caller that pages through SinceSeq, one for each user
    cursor,         \* the largest seq it was given
    received        \* the rows it was given

vars == <<lastSeq, notifications, read, acked, lockedBy, pc, user, nextSeq,
          cursor, received>>

Row(id, u, s) == [id |-> id, user |-> u, seq |-> s]
RowsOf(u) == {n \in notifications : n.user = u}

Init ==
    /\ lastSeq = [u \in Users |-> 0]
    /\ notifications = {}
    /\ read = {}
    /\ acked = [u \in Users |-> 0]
    /\ lockedBy = [u \in Users |-> NoCreate]
    /\ pc = [c \in Creates |-> "waiting"]
    /\ user \in [Creates -> Users]
    /\ nextSeq = [c \in Creates |-> 0]
    /\ cursor = [u \in Users |-> 0]
    /\ received = [u \in Users |-> {}]

-----------------------------------------------------------------------------
(* Create *)

\* A transaction owns its connection from BeginTx until it ends.
Open == {c \in Creates : pc[c] \in {"begun", "allocated", "inserted"}}
ConnectionFree == Cardinality(Open) < PoolSize

\* Mutated: the end of a transaction leaves its lock behind.
UnlockedNever(c) == lockedBy

Unlocked(c) == [u \in Users |-> IF lockedBy[u] = c THEN NoCreate ELSE lockedBy[u]]

BeginTx(c) ==
    /\ pc[c] = "waiting"
    /\ ConnectionFree
    /\ pc' = [pc EXCEPT ![c] = "begun"]
    /\ UNCHANGED <<lastSeq, notifications, read, acked, lockedBy, user, nextSeq,
                   cursor, received>>

\* BeginTx returns an error: no connection before the deadline.
BeginTxFails(c) ==
    /\ pc[c] = "waiting"
    /\ pc' = [pc EXCEPT ![c] = "failed"]
    /\ UNCHANGED <<lastSeq, notifications, read, acked, lockedBy, user, nextSeq,
                   cursor, received>>

\* Mutated: the upsert runs outside the transaction and commits by itself.
UpsertAutocommits(c) ==
    /\ pc[c] = "begun"
    /\ lastSeq' = [lastSeq EXCEPT ![user[c]] = @ + 1]
    /\ nextSeq' = [nextSeq EXCEPT ![c] = lastSeq'[user[c]]]
    /\ pc' = [pc EXCEPT ![c] = "allocated"]
    /\ UNCHANGED <<notifications, read, acked, lockedBy, user, cursor, received>>

\* Mutated: a SELECT without FOR UPDATE reads the counter.
UpsertReadsOnly(c) ==
    /\ pc[c] = "begun"
    /\ nextSeq' = [nextSeq EXCEPT ![c] = lastSeq[user[c]] + 1]
    /\ pc' = [pc EXCEPT ![c] = "allocated"]
    /\ UNCHANGED <<lastSeq, notifications, read, acked, lockedBy, user, cursor, received>>

\* Mutated: the counter is taken down.
UpsertCountsDown(c) ==
    /\ pc[c] = "begun"
    /\ lockedBy[user[c]] = NoCreate
    /\ lockedBy' = [lockedBy EXCEPT ![user[c]] = c]
    /\ nextSeq' = [nextSeq EXCEPT ![c] = lastSeq[user[c]] - 1]
    /\ pc' = [pc EXCEPT ![c] = "allocated"]
    /\ UNCHANGED <<lastSeq, notifications, read, acked, user, cursor, received>>

\* The upsert waits for the row lock (or, for a first row, for the fate of the
\* insert that is under way), then reads the committed value and adds one.
UpsertOffset(c) ==
    /\ pc[c] = "begun"
    /\ lockedBy[user[c]] = NoCreate
    /\ lockedBy' = [lockedBy EXCEPT ![user[c]] = c]
    /\ nextSeq' = [nextSeq EXCEPT ![c] = lastSeq[user[c]] + 1]
    /\ pc' = [pc EXCEPT ![c] = "allocated"]
    /\ UNCHANGED <<lastSeq, notifications, read, acked, user, cursor, received>>

\* INSERT INTO notifications: the unique index refuses a (user, seq) that is
\* taken, and waits for a transaction that has inserted it and not ended.
InsertRow(c) ==
    /\ pc[c] = "allocated"
    /\ \A n \in RowsOf(user[c]) : n.seq # nextSeq[c]
    /\ \A d \in Creates :
          pc[d] = "inserted" => <<user[d], nextSeq[d]>> # <<user[c], nextSeq[c]>>
    /\ pc' = [pc EXCEPT ![c] = "inserted"]
    /\ UNCHANGED <<lastSeq, notifications, read, acked, lockedBy, user, nextSeq,
                   cursor, received>>

\* COMMIT makes both writes visible and frees the row.  The answer may be lost
\* on the way back: the caller then sees an error although the row is there.
Commit(c) ==
    /\ pc[c] = "inserted"
    /\ lastSeq' = [lastSeq EXCEPT ![user[c]] = nextSeq[c]]
    /\ notifications' = notifications \cup {Row(c, user[c], nextSeq[c])}
    /\ lockedBy' = Unlocked(c)
    /\ \E outcome \in {"ok", "failed"} : pc' = [pc EXCEPT ![c] = outcome]
    /\ UNCHANGED <<read, acked, user, nextSeq, cursor, received>>

\* Mutated: an error of a statement is not returned.
RollbackReportsOk(c) ==
    /\ c \in Open
    /\ lockedBy' = Unlocked(c)
    /\ pc' = [pc EXCEPT ![c] = "ok"]
    /\ UNCHANGED <<lastSeq, notifications, read, acked, user, nextSeq, cursor,
                   received>>

\* Any error return, and a crash of the process: the deferred Rollback, or the
\* database when the connection drops, undoes the transaction.
Rollback(c) ==
    /\ c \in Open
    /\ lockedBy' = Unlocked(c)
    /\ pc' = [pc EXCEPT ![c] = "failed"]
    /\ UNCHANGED <<lastSeq, notifications, read, acked, user, nextSeq, cursor,
                   received>>

-----------------------------------------------------------------------------
(* The single-statement operations *)

\* Mutated: the ON CONFLICT clause overwrites, without GREATEST.
RecordAckOverwrites(u, upToSeq) ==
    /\ ConnectionFree
    /\ upToSeq > 0
    /\ acked' = [acked EXCEPT ![u] = upToSeq]
    /\ UNCHANGED <<lastSeq, notifications, read, lockedBy, pc, user, nextSeq,
                   cursor, received>>

\* Claims come in any order and more than once.  Nothing compares one with the
\* log: any positive value is recorded.
RecordAck(u, upToSeq) ==
    /\ ConnectionFree
    /\ upToSeq > 0
    /\ acked' = [acked EXCEPT ![u] = IF upToSeq > @ THEN upToSeq ELSE @]
    /\ UNCHANGED <<lastSeq, notifications, read, lockedBy, pc, user, nextSeq,
                   cursor, received>>

\* The conditional UPDATE; with no row left to update the call reports
\* ErrNotFoundOrAlreadyRead and changes nothing.
MarkRead(u, id) ==
    /\ ConnectionFree
    /\ id \in {n.id : n \in RowsOf(u)} \ read
    /\ read' = read \cup {id}
    /\ UNCHANGED <<lastSeq, notifications, acked, lockedBy, pc, user, nextSeq,
                   cursor, received>>

\* WHERE user_id = u AND seq > from ORDER BY seq LIMIT PageSize
SinceSeq(u, from) ==
    LET behind == {n \in RowsOf(u) : n.seq > from}
    IN  {n \in behind : Cardinality({m \in behind : m.seq < n.seq}) < PageSize}

\* The caller asks for what lies behind its cursor and moves the cursor to the
\* last row of the page.
Follow(u) ==
    LET page == SinceSeq(u, cursor[u])
    IN  /\ ConnectionFree
        /\ \E last \in page :
              /\ \A n \in page : n.seq <= last.seq
              /\ cursor' = [cursor EXCEPT ![u] = last.seq]
        /\ received' = [received EXCEPT ![u] = @ \cup page]
        /\ UNCHANGED <<lastSeq, notifications, read, acked, lockedBy, pc, user,
                       nextSeq>>

-----------------------------------------------------------------------------
CreateStep(c) == UpsertOffset(c) \/ InsertRow(c) \/ Commit(c)

Next ==
    \/ \E c \in Creates : BeginTx(c) \/ BeginTxFails(c) \/ CreateStep(c) \/ Rollback(c)
    \/ \E u \in Users :
          \/ \E upToSeq \in Claims : RecordAck(u, upToSeq)
          \/ \E n \in notifications : MarkRead(u, n.id)
          \/ Follow(u)

Spec == Init /\ [][Next]_vars

\* The pool serves its waiters in turn; a transaction that has begun is driven to
\* its end by its goroutine (the row lock is granted in turn).
Fairness == \A c \in Creates : WF_vars(BeginTx(c)) /\ WF_vars(CreateStep(c))

FairSpec == Spec /\ Fairness

-----------------------------------------------------------------------------
(* Properties *)

\* The state of the store is well formed: counters, rows, cursors and the
\* program counters of the calls range over what the schema and the Go types
\* of adapter/postgres/notifications.go allow.
TypeOK ==
    /\ lastSeq \in [Users -> Nat]
    /\ notifications \subseteq [id : Creates, user : Users, seq : Nat]
    /\ read \subseteq Creates
    /\ acked \in [Users -> Nat]
    /\ lockedBy \in [Users -> Creates \cup {NoCreate}]
    /\ pc \in [Creates -> {"waiting", "begun", "allocated", "inserted", "ok", "failed"}]
    /\ user \in [Creates -> Users]
    /\ nextSeq \in [Creates -> Nat]
    /\ cursor \in [Users -> Nat]
    /\ received \in [Users -> SUBSET [id : Creates, user : Users, seq : Nat]]

\* The sequence numbers of a user's visible rows are exactly 1 .. last_seq,
\* whatever transactions fail or overlap: clients read a jump as a loss, and
\* the welcome frame compares last_seq with what the client has.
Gapless ==
    \A u \in Users : {n.seq : n \in RowsOf(u)} = 1 .. lastSeq[u]

\* Two calls for one user that may both still succeed, or have, never hold the
\* same seq (Create's comment: two SendNotification calls cannot issue the same
\* seq): the second of them would be refused although nothing is wrong with it.
NoSharedSeq ==
    \A c, d \in Creates :
        /\ c # d
        /\ user[c] = user[d]
        /\ pc[c] \in {"allocated", "inserted", "ok"}
        /\ pc[d] \in {"allocated", "inserted", "ok"}
        => nextSeq[c] # nextSeq[d]

\* A follower of SinceSeq never skips: every visible row at or below its
\* cursor was handed to it.  A seq that becomes visible after a larger one
\* has been handed out would be lost to resume for ever.
NothingSkipped ==
    \A u \in Users : \A n \in RowsOf(u) : n.seq <= cursor[u] => n \in received[u]

\* What a resume counts on: all the seqs up to last_seq are there, each of one call.
SeqsAreSound == Gapless /\ NoSharedSeq

\* A call of Create that returned nil has its row in the table, and its seq
\* is still the one the call stored in n.Seq (which is what gets published).
CreatedIsDurable ==
    \A c \in Creates : pc[c] = "ok" => Row(c, user[c], nextSeq[c]) \in notifications

\* Rows of one user become visible in the order of their seqs, and nothing
\* that is visible is taken back; neither is an acknowledged position.
AppendOnly ==
    [][/\ notifications \subseteq notifications'
       /\ \A n \in notifications' \ notifications :
             \A m \in RowsOf(n.user) : m.seq < n.seq
       /\ \A u \in Users : acked[u] <= acked'[u]]_vars

\* Every call of Create returns, whether it waits for a connection of the pool or
\* for a row lock: no lock outlives its holder, and who holds a connection never
\* waits for one that waits for a connection.
CreateReturns ==
    \A c \in Creates : pc[c] = "waiting" ~> pc[c] \in {"ok", "failed"}

-----------------------------------------------------------------------------
(* The store implements the log it promises: position s of the log of u is *)
(* the visible row of u with seq s.                                        *)

RowAt(u, s) == CHOOSE n \in notifications : n.user = u /\ n.seq = s

logView == [u \in Users |-> [s \in 1 .. lastSeq[u] |-> RowAt(u, s).id]]
receivedView == [u \in Users |-> {n.id : n \in received[u]}]

Log == INSTANCE NotificationLog
           WITH Ids <- Creates, log <- logView, received <- receivedView

\* Every behaviour of the store is one of the append-only log: a commit is an
\* append at the next position, every other step of a transaction is invisible.
ImplementsLog == Log!Spec
=============================================================================
