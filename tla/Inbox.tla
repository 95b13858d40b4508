--------------------------------- MODULE Inbox ---------------------------------
(***************************************************************************)
(* One browser tab and the REST API: sessions (login, restore, logout),    *)
(* the list of notifications, the unread counter and "mark read".  The     *)
(* tab's script is one thread, its requests overlap: each is served in     *)
(* several statements and answered at any time, also in a session other    *)
(* than the one that sent it, since no request is ever cancelled.          *)
(*                                                                         *)
(* A token is the user it was issued to.  Other tabs of the browser share  *)
(* the stored token; they, and other browsers, mark rows as read.  What    *)
(* the socket delivers and in which order is the subject of Delivery: here *)
(* any committed notification of the session's user may arrive.            *)
(***************************************************************************)
EXTENDS Integers, Sequences, FiniteSets, FiniteSetsExt

CONSTANTS
    Users,
    NoUser,         \* no token, or no session
    PageSize,       \* the limit of the initial list
    MaxRows,        \* bound: notifications that are sent
    MaxReqs         \* bound: requests of the tab that overlap

ASSUME UsersAssumption == IsFiniteSet(Users) /\ NoUser \notin Users
ASSUME SizesAssumption == {PageSize, MaxReqs} \subseteq Nat \ {0} /\ MaxRows \in Nat

VARIABLES
    table,          \* per user, by seq: the row has a read_at
    stored,         \* the token in localStorage
    reqs,           \* the requests of the tab, in MaxReqs slots
    session,        \* state.auth: token and user are set and cleared together
    items,          \* state.notifications.items
    unreadCount,    \* state.notifications.unreadCount
    lastSeenSeq,    \* state.notifications.lastSeenSeq
    \* bookkeeping
    crossed,        \* the store holds what another session asked for or left
    mixed           \* a row was marked between the statements of the list's answer

auth == <<stored, session>>
inbox == <<items, unreadCount, lastSeenSeq>>
notes == <<crossed, mixed>>
vars == <<table, reqs, auth, inbox, notes>>

Slots == 1 .. MaxReqs
Row(u, s, r) == [user |-> u, seq |-> s, read |-> r]
RowsOf(u) == {Row(u, s, table[u][s]) : s \in DOMAIN table[u]}
Unread(rows) == {n \in rows : ~n.read}
Newest(rows) == Max({n.seq : n \in rows} \cup {0})

\* A request carries the token it was sent with; row is the one to mark.
Request(k, u) ==
    [kind |-> k, user |-> u, step |-> "sent", row |-> Row(NoUser, 0, FALSE),
     rows |-> {}, unread |-> 0, mixed |-> FALSE]
Free == Request("free", NoUser)
NoRequests == [i \in Slots |-> Free]
HasRoom(rs) == \E i \in Slots : rs[i] = Free
Put(rs, r) == [rs EXCEPT ![Min({i \in Slots : rs[i] = Free})] = r]
End(i) == [reqs EXCEPT ![i] = Free]

\* A page load reads the stored token and has it validated.
Booting(u) == IF u = NoUser THEN NoRequests ELSE Put(NoRequests, Request("me", u))

Init ==
    /\ table = [u \in Users |-> << >>]
    /\ stored \in Users \cup {NoUser}
    /\ reqs = Booting(stored)
    /\ session = NoUser
    /\ items = {}
    /\ unreadCount = 0
    /\ lastSeenSeq = 0
    /\ crossed = FALSE
    /\ mixed = FALSE

-----------------------------------------------------------------------------
(* The reducers of notificationsSlice *)

SetInitial(r) ==
    /\ items' = r.rows
    /\ unreadCount' = r.unread
    /\ lastSeenSeq' = Newest(r.rows)

\* Mutated: a frame that is not newer than lastSeenSeq is not counted.
ReceiveCountsNewer(n) ==
    /\ \A m \in items : m.seq /= n.seq
    /\ items' = items \cup {n}
    /\ unreadCount' = IF n.seq > lastSeenSeq THEN unreadCount + 1 ELSE unreadCount
    /\ lastSeenSeq' = Max({lastSeenSeq, n.seq})

Receive(n) ==
    /\ \A m \in items : m.seq /= n.seq
    /\ items' = items \cup {n}
    /\ unreadCount' = unreadCount + 1
    /\ lastSeenSeq' = Max({lastSeenSeq, n.seq})

\* Mutated: the counter may fall below zero.
OneLessUnguarded(k) == k - 1

OneLess(k) == IF k > 0 THEN k - 1 ELSE k

MarkRead(s) ==
    LET hit == {n \in Unread(items) : n.user = s.user /\ n.seq = s.seq}
    IN  /\ items' = (items \ hit) \cup {Row(n.user, n.seq, TRUE) : n \in hit}
        /\ unreadCount' = IF hit = {} THEN unreadCount ELSE OneLess(unreadCount)
        /\ UNCHANGED lastSeenSeq

ClearAll ==
    /\ items' = {}
    /\ unreadCount' = 0
    /\ lastSeenSeq' = 0
    /\ crossed' = FALSE
    /\ mixed' = FALSE

-----------------------------------------------------------------------------
(* The tab *)

\* The dashboard asks for the list when it is shown and when the user changes.
Ask(rs, token) == Put(rs, Request("list", token))

\* Whoever logs in or is restored comes to the dashboard; a session that
\* replaces another one may find the tab on the admin page, which asks nothing.
StartSession(u, rs, token) ==
    /\ session' = u
    /\ \/ reqs' = Ask(rs, token)
       \/ session /= NoUser /\ reqs' = rs
    /\ crossed' = (crossed \/ (session \notin {u, NoUser}))
    /\ UNCHANGED <<table, inbox, mixed>>

SubmitLogin(u) ==
    /\ session = NoUser
    /\ HasRoom(reqs)
    /\ reqs' = Put(reqs, Request("login", u))
    /\ UNCHANGED <<table, auth, inbox, notes>>

AnswerLogin(i) ==
    /\ reqs[i].kind = "login"
    /\ stored' = reqs[i].user
    /\ StartSession(reqs[i].user, End(i), stored')

\* The session is that of the token read at boot, whatever is stored by now.
AnswerMe(i) ==
    /\ reqs[i].kind = "me"
    /\ UNCHANGED stored
    /\ StartSession(reqs[i].user, End(i), stored)

\* Mutated: the store of the notifications outlives the session.
LogoutKeepsStore ==
    /\ session /= NoUser
    /\ session' = NoUser
    /\ stored' = NoUser
    /\ UNCHANGED <<table, reqs, inbox, notes>>

Logout ==
    /\ session /= NoUser
    /\ session' = NoUser
    /\ stored' = NoUser
    /\ ClearAll
    /\ UNCHANGED <<table, reqs>>

\* Back from the admin page.
Remount ==
    /\ session /= NoUser
    /\ HasRoom(reqs)
    /\ reqs' = Ask(reqs, stored)
    /\ UNCHANGED <<table, auth, inbox, notes>>

\* A page load: what was under way has no effect on the tab any more.
Reload ==
    /\ reqs' = Booting(stored)
    /\ session' = NoUser
    /\ ClearAll
    /\ UNCHANGED <<table, stored>>

OnNotification ==
    /\ session /= NoUser
    /\ \E s \in DOMAIN table[session] : Receive(Row(session, s, FALSE))
    /\ UNCHANGED <<table, reqs, auth, notes>>

\* "Mark read" is offered for the unread rows, also twice.
Click(n) ==
    /\ session /= NoUser
    /\ n \in Unread(items)
    /\ HasRoom(reqs)
    /\ reqs' = Put(reqs, [Request("mark", stored) EXCEPT !.row = n])
    /\ UNCHANGED <<table, auth, inbox, notes>>

AnswerList(i) ==
    /\ reqs[i].kind = "list" /\ reqs[i].step = "done"
    /\ SetInitial(reqs[i])
    /\ crossed' = (reqs[i].user /= session)
    /\ mixed' = reqs[i].mixed
    /\ reqs' = End(i)
    /\ UNCHANGED <<table, auth>>

AnswerMark(i) ==
    /\ reqs[i].kind = "mark" /\ reqs[i].step = "done"
    /\ MarkRead(reqs[i].row)
    /\ reqs' = End(i)
    /\ UNCHANGED <<table, auth, notes>>

\* A refusal (401, 404, 500) or a lost answer: only the failed validation of a
\* token has an effect, it clears what is stored by now.
Fails(i) ==
    /\ reqs[i] /= Free
    /\ stored' = IF reqs[i].kind = "me" THEN NoUser ELSE stored
    /\ reqs' = End(i)
    /\ UNCHANGED <<table, session, inbox, notes>>

-----------------------------------------------------------------------------
(* The server and the world around the tab *)

\* RequireAuth lets a request through that carries a token.
Arrives(i, kind, step) ==
    /\ reqs[i].kind = kind /\ reqs[i].step = step
    /\ reqs[i].user /= NoUser

\* The newest rows are those with the latest created_at, which is taken before
\* the seq is allocated: any choice of that size.
ServeList(i) ==
    /\ Arrives(i, "list", "sent")
    /\ \E page \in kSubset(Min({PageSize, Len(table[reqs[i].user])}), RowsOf(reqs[i].user)) :
          reqs' = [reqs EXCEPT ![i].rows = page, ![i].step = "listed"]
    /\ UNCHANGED <<table, auth, inbox, notes>>

ServeCount(i) ==
    /\ Arrives(i, "list", "listed")
    /\ LET now == RowsOf(reqs[i].user)
       IN  reqs' = [reqs EXCEPT ![i].unread = Cardinality(Unread(now)), ![i].step = "done",
                                ![i].mixed = ~(Unread(reqs[i].rows) \subseteq now)]
    /\ UNCHANGED <<table, auth, inbox, notes>>

SetRead(n) == table' = [table EXCEPT ![n.user][n.seq] = TRUE]

\* Mutated: no row was affected, and the handler answers 204.
ServeMarkIgnoresRows(i) ==
    /\ Arrives(i, "mark", "sent")
    /\ LET n == reqs[i].row
       IN  IF n.user = reqs[i].user THEN SetRead(n) ELSE UNCHANGED table
    /\ reqs' = [reqs EXCEPT ![i].step = "done"]
    /\ UNCHANGED <<auth, inbox, notes>>

\* The row is the token's and unread; a request that affects no row Fails.
ServeMark(i) ==
    /\ Arrives(i, "mark", "sent")
    /\ LET n == reqs[i].row
       IN  /\ n.user = reqs[i].user
           /\ ~table[n.user][n.seq]
           /\ SetRead(n)
    /\ reqs' = [reqs EXCEPT ![i].step = "done"]
    /\ UNCHANGED <<auth, inbox, notes>>

\* The admin sends.
Persist(u) ==
    /\ Cardinality(UNION {RowsOf(v) : v \in Users}) < MaxRows
    /\ table' = [table EXCEPT ![u] = Append(@, FALSE)]
    /\ UNCHANGED <<reqs, auth, inbox, notes>>

\* Another client of the user marks a row.
OtherMarks(u) ==
    /\ \E n \in Unread(RowsOf(u)) : SetRead(n)
    /\ UNCHANGED <<reqs, auth, inbox, notes>>

\* Another tab of this browser logs in or out.
OtherTabStores(u) ==
    /\ stored' = u
    /\ UNCHANGED <<table, reqs, session, inbox, notes>>

RequestStep(i) ==
    \/ ServeList(i)
    \/ ServeCount(i)
    \/ ServeMark(i)
    \/ AnswerList(i)
    \/ AnswerMark(i)
    \/ AnswerLogin(i)
    \/ AnswerMe(i)
    \/ Fails(i)

Next ==
    \/ \E u \in Users : SubmitLogin(u) \/ Persist(u) \/ OtherMarks(u)
    \/ \E u \in Users \cup {NoUser} : OtherTabStores(u)
    \/ \E n \in items : Click(n)
    \/ \E i \in Slots : RequestStep(i)
    \/ OnNotification
    \/ Remount
    \/ Logout
    \/ Reload

Spec == Init /\ [][Next]_vars

-----------------------------------------------------------------------------
(* Properties *)

AnyRow == [user : Users, seq : 1 .. MaxRows, read : BOOLEAN]

\* The shape of the state.  In particular the counter that markRead lowers
\* never falls below zero, although it can be smaller than what is listed.
TypeOK ==
    /\ table \in [Users -> UNION {[1 .. k -> BOOLEAN] : k \in 0 .. MaxRows}]
    /\ {stored, session} \subseteq Users \cup {NoUser}
    /\ items \subseteq AnyRow
    /\ unreadCount \in Nat
    /\ lastSeenSeq \in 0 .. MaxRows
    /\ \A i \in Slots : /\ reqs[i].kind \in {"free", "me", "login", "list", "mark"}
                        /\ reqs[i].step \in {"sent", "listed", "done"}
                        /\ reqs[i].rows \subseteq AnyRow
    /\ {crossed, mixed} \subseteq BOOLEAN

\* What the tab shows as read is read in the table: the click waits for the
\* answer, and an answer that touched no row of the token's user is a refusal,
\* also when the token has changed since the list was loaded.
ReadIsStored == \A n \in items : n.read => table[n.user][n.seq]

\* The badge never shows less than the unread rows on the screen, whatever
\* lists, live frames and marks overlap; the one exception is a list whose rows
\* and count were read before and after another client marked one of them.
CountCoversList == ~mixed => Cardinality(Unread(items)) <= unreadCount

\* The store holds what belongs to the user of the session, and no cursor
\* beyond that user's log goes into a resume.  It fails in two ways only: the
\* answer of a list asked with the token of another user arrives, or a session
\* starts in the middle of another one.
StoreIsOwn ==
    ~crossed => /\ \A n \in items : n.user = session
                /\ session = NoUser => unreadCount = 0 /\ lastSeenSeq = 0
                /\ session /= NoUser => lastSeenSeq <= Len(table[session])
=============================================================================
