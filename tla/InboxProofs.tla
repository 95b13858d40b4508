------------------------------ MODULE InboxProofs ------------------------------
(***************************************************************************)
(* What holds of one tab's inbox for any number of users, rows and         *)
(* overlapping requests.  IInv adds to the invariants of the run what is   *)
(* known of a request on its way: whose rows its answer brings, that they  *)
(* are in the table, and that its count covers them.                       *)
(***************************************************************************)
EXTENDS Inbox, WellFoundedInduction, FiniteSetTheorems, TLAPS

Someone == Users \cup {NoUser}
Nothing == Row(NoUser, 0, FALSE)

ReqRec == [kind : {"free", "me", "login", "list", "mark"}, user : Someone,
           step : {"sent", "listed", "done"}, row : AnyRow \cup {Nothing},
           rows : SUBSET AnyRow, unread : Nat, mixed : BOOLEAN]

\* A row that somebody was shown is in the table t, and is read there if it was
\* read when it was loaded.
Known(t, n) == n.seq \in 1 .. Len(t[n.user]) /\ (n.read => t[n.user][n.seq])

\* Sessions, served lists and served marks have a user.
HasUser(r) == r.kind \in {"me", "login"} \/ r.step # "sent" => r.user \in Users

\* A list holds rows of its user, and its count covers them.
ListOK(t, r) ==
    /\ IsFiniteSet(r.rows)
    /\ \A n \in r.rows : n.user = r.user /\ Known(t, n)
    /\ r.step = "done" /\ r.kind = "list" /\ ~r.mixed => Cardinality(Unread(r.rows)) <= r.unread

\* A mark is for a row that exists, and once it is served the row is read.
MarkOK(t, r) ==
    r.kind = "mark" =>
        /\ r.row \in AnyRow /\ Known(t, r.row)
        /\ r.step = "done" => t[r.row.user][r.row.seq]

ReqOK(t, r) == r \in ReqRec /\ HasUser(r) /\ ListOK(t, r) /\ MarkOK(t, r)

AllOK(t, rs) == rs \in [Slots -> ReqRec] /\ \A i \in Slots : ReqOK(t, rs[i])
ReqInv == AllOK(table, reqs)

ItemsInv == IsFiniteSet(items) /\ \A n \in items : Known(table, n)

IInv == TypeOK /\ ReqInv /\ ItemsInv /\ CountCoversList /\ StoreIsOwn

-----------------------------------------------------------------------------
(* Sets of numbers, and the records *)

LEMMA Sizes ==
    /\ MaxReqs \in Nat /\ MaxReqs > 0 /\ MaxRows \in Nat /\ NoUser \notin Users
    /\ IsFiniteSet(Users)
BY SizesAssumption, UsersAssumption

\* A set of naturals has a least element, and Min is it.
LEMMA MinIsLeast ==
    ASSUME NEW S, S \subseteq Nat, S # {}
    PROVE  Min(S) \in S /\ \A x \in S : Min(S) <= x
<1>1. PICK x \in S : \A y \in S : ~ (<<y, x>> \in OpToRel(<, Nat))
    BY NatLessThanWellFounded, WFMin
<1>2. ASSUME NEW y \in S  PROVE x <= y
    <2>1. <<y, x>> \notin {ss \in Nat \X Nat : ss[1] < ss[2]}
        BY <1>1 DEF OpToRel
    <2> QED  BY <2>1
<1> QED  BY <1>2 DEF Min

\* A bounded set of naturals has a greatest element, and Max is it.
LEMMA MaxIsGreatest ==
    ASSUME NEW k \in Nat, NEW S, S \subseteq 0 .. k, S # {}
    PROVE  Max(S) \in S /\ \A x \in S : x <= Max(S)
<1> DEFINE T == {k - x : x \in S}
<1>1. T \subseteq Nat /\ T # {}
    <2>1. \A x \in S : k - x \in Nat
        OBVIOUS
    <2>2. PICK x \in S : TRUE
        OBVIOUS
    <2>3. k - x \in T
        OBVIOUS
    <2> QED  BY <2>1, <2>3
<1>2. PICK y \in T : \A z \in T : ~ (<<z, y>> \in OpToRel(<, Nat))
    BY <1>1, NatLessThanWellFounded, WFMin
<1>3. ASSUME NEW z \in T  PROVE y <= z
    <2>1. <<z, y>> \notin {ss \in Nat \X Nat : ss[1] < ss[2]}
        BY <1>2 DEF OpToRel
    <2> QED  BY <1>1, <2>1
<1>4. PICK x \in S : y = k - x
    OBVIOUS
<1>5. ASSUME NEW z \in S  PROVE x >= z
    <2>1. y <= k - z
        BY <1>3
    <2> QED  BY <1>4, <2>1
<1> QED  BY <1>5 DEF Max

\* What Append does to a sequence, position by position.
LEMMA AppendAtEnd ==
    ASSUME NEW S, NEW q \in Seq(S), NEW e \in S
    PROVE  /\ Append(q, e) \in Seq(S) /\ Len(q) \in Nat /\ Len(Append(q, e)) = Len(q) + 1
           /\ Append(q, e) \in [1 .. Len(q) + 1 -> S]
           /\ \A i \in 1 .. Len(q) : Append(q, e)[i] = q[i]
<1>1. /\ Append(q, e) \in Seq(S) /\ Len(q) \in Nat /\ Len(Append(q, e)) = Len(q) + 1
      /\ \A i \in 1 .. Len(q) : Append(q, e)[i] = q[i]
    OBVIOUS
<1>2. \A w \in Seq(S) : w \in [1 .. Len(w) -> S]
    OBVIOUS
<1>3. Append(q, e) \in [1 .. Len(Append(q, e)) -> S]
    BY <1>1, <1>2
<1> QED  BY <1>1, <1>3

\* The fields of rows.
LEMMA RowFields ==
    /\ \A n \in AnyRow : /\ n.user \in Users /\ n.seq \in 1 .. MaxRows /\ n.seq \in Nat
                         /\ n.read \in BOOLEAN
    /\ \A u, s, r : Row(u, s, r).user = u /\ Row(u, s, r).seq = s /\ Row(u, s, r).read = r
    /\ \A u \in Users, s \in 1 .. MaxRows, r \in BOOLEAN : Row(u, s, r) \in AnyRow
BY Sizes DEF AnyRow, Row

\* The fields of requests.
LEMMA ReqFields ==
    /\ \A r \in ReqRec :
          /\ r.kind \in {"free", "me", "login", "list", "mark"} /\ r.user \in Someone
          /\ r.step \in {"sent", "listed", "done"} /\ r.row \in AnyRow \cup {Nothing}
          /\ r.rows \subseteq AnyRow /\ r.unread \in Nat /\ r.mixed \in BOOLEAN
    /\ \A k, u : /\ Request(k, u).kind = k /\ Request(k, u).user = u
                 /\ Request(k, u).step = "sent" /\ Request(k, u).rows = {}
                 /\ Request(k, u).mixed = FALSE
    /\ \A k \in {"free", "me", "login", "list", "mark"}, u \in Someone : Request(k, u) \in ReqRec
BY DEF ReqRec, Request, Nothing

\* A request that was just sent brings nothing.
LEMMA SentIsOK ==
    ASSUME NEW t, NEW u \in Someone
    PROVE  /\ ReqOK(t, Request("free", u)) /\ ReqOK(t, Request("list", u))
           /\ u \in Users => ReqOK(t, Request("me", u)) /\ ReqOK(t, Request("login", u))
<1>1. \A k \in {"free", "me", "login", "list"} :
          /\ Request(k, u) \in ReqRec /\ Request(k, u).kind = k /\ Request(k, u).user = u
          /\ Request(k, u).step = "sent" /\ Request(k, u).rows = {}
    BY ReqFields
<1>2. \A k \in {"free", "me", "login", "list"} :
          ListOK(t, Request(k, u)) /\ MarkOK(t, Request(k, u))
    BY <1>1, FS_EmptySet DEF ListOK, MarkOK
<1> QED  BY <1>1, <1>2 DEF ReqOK, HasUser

\* What the types say of the state.
LEMMA Typed ==
    ASSUME TypeOK
    PROVE  /\ stored \in Someone /\ session \in Someone /\ items \subseteq AnyRow
           /\ unreadCount \in Nat /\ lastSeenSeq \in 0 .. MaxRows
           /\ crossed \in BOOLEAN /\ mixed \in BOOLEAN
           /\ table \in [Users -> Seq(BOOLEAN)]
           /\ \A u \in Users : /\ table[u] \in Seq(BOOLEAN) /\ Len(table[u]) \in 0 .. MaxRows
                               /\ Len(table[u]) \in Nat /\ DOMAIN table[u] = 1 .. Len(table[u])
<1>1. ASSUME NEW u \in Users
      PROVE  /\ table[u] \in Seq(BOOLEAN) /\ Len(table[u]) \in 0 .. MaxRows
             /\ Len(table[u]) \in Nat /\ DOMAIN table[u] = 1 .. Len(table[u])
    <2>1. PICK k \in 0 .. MaxRows : table[u] \in [1 .. k -> BOOLEAN]
        BY DEF TypeOK
    <2>2. k \in Nat
        BY Sizes
    <2>3. table[u] \in Seq(BOOLEAN) /\ Len(table[u]) = k
        BY <2>1, <2>2
    <2> QED  BY <2>1, <2>2, <2>3
<1>2. table \in [Users -> Seq(BOOLEAN)]
    BY <1>1 DEF TypeOK
<1>3. /\ stored \in Someone /\ session \in Someone /\ items \subseteq AnyRow
      /\ unreadCount \in Nat /\ lastSeenSeq \in 0 .. MaxRows
      /\ crossed \in BOOLEAN /\ mixed \in BOOLEAN
    BY DEF TypeOK, Someone
<1> QED  BY <1>1, <1>2, <1>3

\* The rows of a user: one for every seq, known as they are.
LEMMA RowsOfUser ==
    ASSUME TypeOK, NEW u \in Users
    PROVE  /\ RowsOf(u) \subseteq AnyRow /\ IsFiniteSet(RowsOf(u))
           /\ Cardinality(RowsOf(u)) = Len(table[u])
           /\ \A n \in RowsOf(u) : n.user = u /\ Known(table, n)
<1>1. /\ Len(table[u]) \in 0 .. MaxRows /\ Len(table[u]) \in Nat
      /\ DOMAIN table[u] = 1 .. Len(table[u])
      /\ \A s \in 1 .. Len(table[u]) : table[u][s] \in BOOLEAN
    BY Typed
<1>2. RowsOf(u) = {Row(u, s, table[u][s]) : s \in 1 .. Len(table[u])}
    BY <1>1 DEF RowsOf
<1>3. \A s \in 1 .. Len(table[u]) : Row(u, s, table[u][s]) \in AnyRow
    BY <1>1, RowFields, Sizes
<1>4. \A n \in RowsOf(u) : n.user = u /\ Known(table, n)
    BY <1>1, <1>2, RowFields DEF Known
<1> DEFINE f == [s \in 1 .. Len(table[u]) |-> Row(u, s, table[u][s])]
<1>5. f \in Bijection(1 .. Len(table[u]), RowsOf(u))
    <2>1. f \in [1 .. Len(table[u]) -> RowsOf(u)]
        BY <1>2
    <2>2. \A a, b \in 1 .. Len(table[u]) : f[a] = f[b] => a = b
        BY RowFields
    <2>3. \A n \in RowsOf(u) : \E s \in 1 .. Len(table[u]) : f[s] = n
        BY <1>2
    <2> QED  BY <2>1, <2>2, <2>3 DEF Bijection, Injection, Surjection, IsInjective
<1>6. IsFiniteSet(1 .. Len(table[u])) /\ Cardinality(1 .. Len(table[u])) = Len(table[u])
    BY <1>1, FS_Interval
<1>7. IsFiniteSet(RowsOf(u)) /\ Cardinality(RowsOf(u)) = Len(table[u])
    BY <1>5, <1>6, FS_Bijection DEF ExistsBijection
<1> QED  BY <1>2, <1>3, <1>4, <1>7

-----------------------------------------------------------------------------
(* The table *)

Tables == [Users -> UNION {[1 .. k -> BOOLEAN] : k \in 0 .. MaxRows}]

\* Rows are added and marked, never removed or unmarked.
Grows(t, v) ==
    \A u \in Users :
        /\ Len(t[u]) \in Nat /\ Len(v[u]) \in Nat /\ Len(t[u]) <= Len(v[u])
        /\ \A s \in 1 .. Len(t[u]) : t[u][s] => v[u][s]

\* What is known of a row or a request stays true when the table grows.
LEMMA GrowKeeps ==
    ASSUME NEW t, NEW v, Grows(t, v)
    PROVE  /\ \A n \in AnyRow : Known(t, n) => Known(v, n)
           /\ \A r : ReqOK(t, r) => ReqOK(v, r)
<1>1. ASSUME NEW n \in AnyRow, Known(t, n)  PROVE Known(v, n)
    <2>1. n.user \in Users /\ n.seq \in Nat
        BY RowFields
    <2> QED  BY <1>1, <2>1 DEF Known, Grows
<1>2. ASSUME NEW r, ReqOK(t, r)  PROVE ReqOK(v, r)
    <2>1. r \in ReqRec /\ r.rows \subseteq AnyRow
        BY <1>2, ReqFields DEF ReqOK
    <2>2. ListOK(v, r)
        BY <1>1, <1>2, <2>1 DEF ReqOK, ListOK
    <2>3. MarkOK(v, r)
        <3>1. CASE r.kind = "mark"
            <4>1. r.row \in AnyRow /\ Known(t, r.row) /\ (r.step = "done" => t[r.row.user][r.row.seq])
                BY <1>2, <3>1 DEF ReqOK, MarkOK
            <4>2. r.row.user \in Users /\ r.row.seq \in 1 .. Len(t[r.row.user])
                BY <4>1, RowFields DEF Known
            <4>3. r.step = "done" => v[r.row.user][r.row.seq]
                BY <4>1, <4>2 DEF Grows
            <4> QED  BY <1>1, <4>1, <4>3 DEF MarkOK
        <3>2. CASE r.kind # "mark"
            BY <3>2 DEF MarkOK
        <3> QED  BY <3>1, <3>2
    <2> QED  BY <1>2, <2>2, <2>3 DEF ReqOK
<1> QED  BY <1>1, <1>2

LEMMA MarkGrows ==
    ASSUME TypeOK, NEW n \in AnyRow, Known(table, n), SetRead(n)
    PROVE  table' \in Tables /\ Grows(table, table') /\ table'[n.user][n.seq] = TRUE
<1>1. n.user \in Users /\ n.seq \in 1 .. Len(table[n.user])
    BY RowFields DEF Known
<1>2. \A u \in Users : /\ table[u] \in Seq(BOOLEAN) /\ Len(table[u]) \in 0 .. MaxRows
                       /\ Len(table[u]) \in Nat /\ DOMAIN table[u] = 1 .. Len(table[u])
    BY Typed
<1>3. table \in Tables
    BY DEF TypeOK, Tables
<1>4. table' = [table EXCEPT ![n.user] = [table[n.user] EXCEPT ![n.seq] = TRUE]]
    BY DEF SetRead
<1> DEFINE w == [table[n.user] EXCEPT ![n.seq] = TRUE]
           k == Len(table[n.user])
<1>5. w \in [1 .. k -> BOOLEAN] /\ w \in Seq(BOOLEAN) /\ Len(w) = k
    <2>1. table[n.user] \in [1 .. k -> BOOLEAN]
        BY <1>1, <1>2
    <2>2. w \in [1 .. k -> BOOLEAN]
        BY <1>1, <2>1
    <2>3. k \in Nat
        BY <1>1, <1>2
    <2> HIDE DEF w, k
    <2> QED  BY <2>2, <2>3
<1>6. w[n.seq] = TRUE /\ \A s \in 1 .. k : table[n.user][s] => w[s]
    BY <1>1, <1>2
<1> HIDE DEF w
<1>7. table'[n.user] = w /\ \A u \in Users : u # n.user => table'[u] = table[u]
    BY <1>1, <1>3, <1>4 DEF Tables, w
<1>8. table' \in Tables
    <2>1. w \in UNION {[1 .. j -> BOOLEAN] : j \in 0 .. MaxRows}
        BY <1>1, <1>2, <1>5
    <2> QED  BY <1>3, <1>4, <2>1 DEF Tables, w
<1>9. Grows(table, table')
    BY <1>1, <1>2, <1>5, <1>6, <1>7 DEF Grows
<1> QED  BY <1>6, <1>7, <1>8, <1>9

\* The bound of Persist keeps every table within it.
LEMMA PersistGrows ==
    ASSUME TypeOK, NEW u \in Users, Persist(u)
    PROVE  table' \in Tables /\ Grows(table, table')
<1>1. \A v \in Users : /\ table[v] \in Seq(BOOLEAN) /\ Len(table[v]) \in 0 .. MaxRows
                       /\ Len(table[v]) \in Nat /\ DOMAIN table[v] = 1 .. Len(table[v])
    BY Typed
<1> DEFINE rows == {RowsOf(v) : v \in Users}
           k == Len(table[u])
<1>2. k < MaxRows
    <2>1. IsFiniteSet(rows)
        <3> DEFINE f == [v \in Users |-> RowsOf(v)]
        <3>1. f \in Surjection(Users, rows)
            BY DEF Surjection
        <3> QED  BY <3>1, Sizes, FS_Surjection
    <2>2. \A T \in rows : IsFiniteSet(T)
        BY RowsOfUser
    <2>3. IsFiniteSet(UNION rows) /\ RowsOf(u) \in SUBSET UNION rows
        BY <2>1, <2>2, FS_UNION
    <2>4. Cardinality(RowsOf(u)) <= Cardinality(UNION rows) /\ Cardinality(UNION rows) \in Nat
        BY <2>3, FS_Subset, FS_CardinalityType
    <2>5. Cardinality(UNION rows) < MaxRows
        BY DEF Persist
    <2>6. Cardinality(RowsOf(u)) = k /\ k \in Nat
        BY <1>1, RowsOfUser
    <2> QED  BY <2>4, <2>5, <2>6, Sizes
<1> DEFINE w == Append(table[u], FALSE)
<1>3. table' = [table EXCEPT ![u] = w]
    BY DEF Persist
<1>4. /\ w \in [1 .. k + 1 -> BOOLEAN] /\ Len(w) = k + 1 /\ k \in Nat /\ k + 1 \in 0 .. MaxRows
      /\ \A s \in 1 .. k : table[u][s] => w[s]
    <2>1. table[u] \in Seq(BOOLEAN) /\ FALSE \in BOOLEAN
        BY <1>1
    <2>2. /\ w \in [1 .. k + 1 -> BOOLEAN] /\ Len(w) = k + 1 /\ k \in Nat
          /\ \A s \in 1 .. k : w[s] = table[u][s]
        BY <2>1, AppendAtEnd
    <2> HIDE DEF w, k
    <2>3. k + 1 \in 0 .. MaxRows
        BY <1>2, <2>2, Sizes
    <2> QED  BY <2>2, <2>3
<1> HIDE DEF w, k
<1>5. table \in Tables
    BY DEF TypeOK, Tables
<1>6. table' \in Tables
    <2>1. w \in UNION {[1 .. j -> BOOLEAN] : j \in 0 .. MaxRows}
        BY <1>4
    <2> QED  BY <1>3, <1>5, <2>1 DEF Tables
<1>7. table'[u] = w /\ \A v \in Users : v # u => table'[v] = table[v]
    BY <1>3, <1>5 DEF Tables
<1>8. Grows(table, table')
    BY <1>1, <1>4, <1>7 DEF Grows, k
<1> QED  BY <1>6, <1>8

\* Who writes the table.
LEMMA TableWriters ==
    ASSUME [Next]_vars
    PROVE  \/ table' = table \/ (\E i \in Slots : ServeMark(i))
           \/ \E u \in Users : Persist(u) \/ OtherMarks(u)
BY DEF Next, RequestStep, SubmitLogin, OtherTabStores, Click, ServeList, ServeCount, AnswerList,
       AnswerMark, AnswerLogin, AnswerMe, StartSession, Fails, OnNotification, Remount, Logout,
       Reload, vars

LEMMA TableStep ==
    ASSUME TypeOK, ReqInv, [Next]_vars  PROVE table' \in Tables /\ Grows(table, table')
<1>1. \A u \in Users : Len(table[u]) \in Nat
    BY Typed
<1>2. CASE table' = table
    BY <1>1, <1>2 DEF TypeOK, Tables, Grows
<1>3. ASSUME NEW i \in Slots, ServeMark(i)  PROVE table' \in Tables /\ Grows(table, table')
    <2>1. reqs[i].row \in AnyRow /\ Known(table, reqs[i].row) /\ SetRead(reqs[i].row)
        BY <1>3 DEF ServeMark, Arrives, ReqInv, AllOK, ReqOK, MarkOK
    <2> QED  BY <2>1, MarkGrows
<1>4. ASSUME NEW u \in Users, OtherMarks(u)  PROVE table' \in Tables /\ Grows(table, table')
    <2>1. PICK n \in Unread(RowsOf(u)) : SetRead(n)
        BY <1>4 DEF OtherMarks
    <2>2. n \in AnyRow /\ Known(table, n)
        BY RowsOfUser DEF Unread
    <2> QED  BY <2>1, <2>2, MarkGrows
<1> QED  BY <1>2, <1>3, <1>4, PersistGrows, TableWriters

-----------------------------------------------------------------------------
(* The requests *)

\* A request goes into a free slot.
LEMMA PutOK ==
    ASSUME NEW t, NEW rs, AllOK(t, rs), HasRoom(rs), NEW r, ReqOK(t, r)
    PROVE  AllOK(t, Put(rs, r))
<1> DEFINE S == {i \in Slots : rs[i] = Free}
<1>1. S \subseteq Nat /\ S # {} /\ S \subseteq Slots
    BY Sizes DEF Slots, HasRoom
<1>2. Min(S) \in Slots
    BY <1>1, MinIsLeast
<1>3. Put(rs, r) = [rs EXCEPT ![Min(S)] = r]
    BY DEF Put
<1>4. r \in ReqRec
    BY DEF ReqOK
<1> HIDE DEF S
<1> QED  BY <1>2, <1>3, <1>4 DEF AllOK

\* An answered request leaves a free slot.
LEMMA EndOK ==
    ASSUME NEW t, AllOK(t, reqs), NEW i \in Slots
    PROVE  AllOK(t, End(i)) /\ HasRoom(End(i))
<1>1. Free \in ReqRec /\ ReqOK(t, Free)
    BY SentIsOK DEF Free, ReqOK, Someone
<1> QED  BY <1>1 DEF AllOK, End, HasRoom

\* A page load starts with no request, or with one.
LEMMA BootOK ==
    ASSUME NEW t, NEW u \in Someone  PROVE AllOK(t, Booting(u))
<1>1. Free \in ReqRec /\ ReqOK(t, Free)
    BY SentIsOK DEF Free, ReqOK, Someone
<1>2. AllOK(t, NoRequests)
    BY <1>1 DEF AllOK, NoRequests
<1>3. HasRoom(NoRequests)
    <2>1. 1 \in Slots
        BY Sizes DEF Slots
    <2> QED  BY <2>1 DEF HasRoom, NoRequests
<1>4. CASE u = NoUser
    BY <1>2, <1>4 DEF Booting
<1>5. CASE u \in Users
    <2>1. ReqOK(t, Request("me", u)) /\ u # NoUser
        BY <1>5, SentIsOK, Sizes
    <2> QED  BY <1>2, <1>3, <2>1, PutOK DEF Booting
<1> QED  BY <1>4, <1>5 DEF Someone

\* The list is asked for with whatever token is stored.
LEMMA AskOK ==
    ASSUME NEW t, NEW rs, AllOK(t, rs), HasRoom(rs), NEW u \in Someone
    PROVE  AllOK(t, Ask(rs, u))
BY SentIsOK, PutOK DEF Ask

\* A request that was changed while it was served.
LEMMA ServedOK ==
    ASSUME NEW t, AllOK(t, reqs), NEW i \in Slots, NEW r, ReqOK(t, r)
    PROVE  AllOK(t, [reqs EXCEPT ![i] = r])
<1>1. r \in ReqRec
    BY DEF ReqOK
<1> QED  BY <1>1 DEF AllOK

LEMMA ServeListOK ==
    ASSUME TypeOK, ReqInv, NEW i \in Slots, ServeList(i)  PROVE AllOK(table, reqs')
<1> DEFINE r == reqs[i]
<1>1. /\ ReqOK(table, r) /\ r.kind = "list" /\ r.step = "sent" /\ r.user \in Users
      /\ reqs \in [Slots -> ReqRec] /\ r \in ReqRec
    <2>1. ReqOK(table, r) /\ reqs \in [Slots -> ReqRec]
        BY DEF ReqInv, AllOK
    <2>2. r \in ReqRec /\ r.user \in Someone
        BY <2>1, ReqFields DEF ReqOK
    <2> QED  BY <2>1, <2>2 DEF ServeList, Arrives, Someone
<1>2. PICK page \in SUBSET RowsOf(r.user) :
          reqs' = [reqs EXCEPT ![i].rows = page, ![i].step = "listed"]
    BY DEF ServeList, kSubset
<1> DEFINE s == [r EXCEPT !.rows = page, !.step = "listed"]
<1>3. reqs' = [reqs EXCEPT ![i] = s]
    BY <1>1, <1>2
<1>4. /\ page \subseteq AnyRow /\ IsFiniteSet(page)
      /\ \A n \in page : n.user = r.user /\ Known(table, n)
    BY <1>1, <1>2, RowsOfUser, FS_Subset
<1>5. /\ s \in ReqRec /\ s.kind = "list" /\ s.user = r.user /\ s.step = "listed" /\ s.rows = page
    <2> HIDE DEF r
    <2> QED  BY <1>1, <1>4 DEF ReqRec
<1> HIDE DEF s
<1>6. ReqOK(table, s)
    BY <1>1, <1>4, <1>5 DEF ReqOK, HasUser, ListOK, MarkOK
<1> QED  BY <1>3, <1>6, ServedOK DEF ReqInv

LEMMA ServeCountOK ==
    ASSUME TypeOK, ReqInv, NEW i \in Slots, ServeCount(i)  PROVE AllOK(table, reqs')
<1> DEFINE r == reqs[i]
<1>1. /\ ReqOK(table, r) /\ r.kind = "list" /\ r.step = "listed" /\ r.user \in Users
      /\ reqs \in [Slots -> ReqRec] /\ r \in ReqRec
    <2>1. ReqOK(table, r) /\ reqs \in [Slots -> ReqRec]
        BY DEF ReqInv, AllOK
    <2>2. r \in ReqRec /\ r.user \in Someone
        BY <2>1, ReqFields DEF ReqOK
    <2> QED  BY <2>1, <2>2 DEF ServeCount, Arrives, Someone
<1> DEFINE now == Unread(RowsOf(r.user))
           late == ~(Unread(r.rows) \subseteq RowsOf(r.user))
           s == [r EXCEPT !.unread = Cardinality(now), !.step = "done", !.mixed = late]
<1>2. reqs' = [reqs EXCEPT ![i] = s]
    BY <1>1 DEF ServeCount
<1>3. IsFiniteSet(now) /\ Cardinality(now) \in Nat
    <2>1. IsFiniteSet(RowsOf(r.user)) /\ now \in SUBSET RowsOf(r.user)
        BY <1>1, RowsOfUser DEF Unread
    <2> QED  BY <2>1, FS_Subset, FS_CardinalityType
<1>4. ~late => Cardinality(Unread(r.rows)) <= Cardinality(now)
    <2>1. ~late => Unread(r.rows) \in SUBSET now
        BY DEF Unread
    <2> QED  BY <1>3, <2>1, FS_Subset
<1>5. late \in BOOLEAN
    OBVIOUS
<1> HIDE DEF now, late
<1>6. /\ s \in ReqRec /\ s.kind = "list" /\ s.user = r.user /\ s.step = "done"
      /\ s.rows = r.rows /\ s.unread = Cardinality(now) /\ s.mixed = late
    <2> HIDE DEF r
    <2> QED  BY <1>1, <1>3, <1>5 DEF ReqRec
<1> HIDE DEF s
<1>7. ReqOK(table, s)
    BY <1>1, <1>4, <1>6 DEF ReqOK, HasUser, ListOK, MarkOK
<1> QED  BY <1>2, <1>7, ServedOK DEF ReqInv

LEMMA ServeMarkOK ==
    ASSUME TypeOK, ReqInv, AllOK(table', reqs), NEW i \in Slots, ServeMark(i)
    PROVE  AllOK(table', reqs')
<1> DEFINE r == reqs[i]
<1>1. /\ ReqOK(table, r) /\ ReqOK(table', r) /\ r.kind = "mark" /\ r.user \in Users
      /\ reqs \in [Slots -> ReqRec] /\ r \in ReqRec
    <2>1. ReqOK(table, r) /\ ReqOK(table', r) /\ reqs \in [Slots -> ReqRec]
        BY DEF ReqInv, AllOK
    <2>2. r \in ReqRec /\ r.user \in Someone
        BY <2>1, ReqFields DEF ReqOK
    <2> QED  BY <2>1, <2>2 DEF ServeMark, Arrives, Someone
<1>2. r.row \in AnyRow /\ Known(table, r.row)
    BY <1>1 DEF ReqOK, MarkOK
<1>3. table'[r.row.user][r.row.seq] = TRUE
    <2>1. SetRead(r.row)
        BY DEF ServeMark
    <2> QED  BY <1>2, <2>1, MarkGrows
<1> DEFINE s == [r EXCEPT !.step = "done"]
<1>4. reqs' = [reqs EXCEPT ![i] = s]
    BY <1>1 DEF ServeMark
<1>5. /\ s \in ReqRec /\ s.kind = "mark" /\ s.user = r.user /\ s.step = "done"
      /\ s.rows = r.rows /\ s.row = r.row
    <2> HIDE DEF r
    <2> QED  BY <1>1 DEF ReqRec
<1> HIDE DEF s
<1>6. ReqOK(table', s)
    BY <1>1, <1>3, <1>5 DEF ReqOK, HasUser, ListOK, MarkOK
<1> QED  BY <1>4, <1>6, ServedOK

\* Who sends, serves or ends a request.
LEMMA ReqStep ==
    ASSUME TypeOK, ReqInv, ItemsInv, [Next]_vars  PROVE ReqInv'
<1>1. Grows(table, table')
    BY TableStep
<1>2. AllOK(table, reqs) /\ AllOK(table', reqs)
    BY <1>1, GrowKeeps DEF ReqInv, AllOK
<1>3. stored \in Someone
    BY Typed
<1>4. SUFFICES AllOK(table', reqs')
    BY DEF ReqInv
<1>5. ASSUME NEW u \in Users, SubmitLogin(u)  PROVE AllOK(table', reqs')
    <2>1. ReqOK(table', Request("login", u))
        BY SentIsOK DEF Someone
    <2> QED  BY <1>2, <1>5, <2>1, PutOK DEF SubmitLogin
<1>6. ASSUME NEW i \in Slots, AnswerLogin(i) \/ AnswerMe(i)  PROVE AllOK(table', reqs')
    <2>1. stored' \in Someone
        <3>1. CASE AnswerLogin(i)
            <4>1. reqs[i] \in ReqRec /\ stored' = reqs[i].user
                BY <1>2, <3>1 DEF AnswerLogin, AllOK
            <4> QED  BY <4>1, ReqFields
        <3>2. CASE AnswerMe(i)
            BY <1>3, <3>2 DEF AnswerMe
        <3> QED  BY <1>6, <3>1, <3>2
    <2>2. reqs' = Ask(End(i), stored') \/ reqs' = End(i)
        BY <1>6 DEF AnswerLogin, AnswerMe, StartSession
    <2> QED  BY <1>2, <2>1, <2>2, EndOK, AskOK
<1>7. ASSUME Remount  PROVE AllOK(table', reqs')
    BY <1>2, <1>3, <1>7, AskOK DEF Remount
<1>8. ASSUME Reload  PROVE AllOK(table', reqs')
    BY <1>3, <1>8, BootOK DEF Reload
<1>9. ASSUME NEW n \in items, Click(n)  PROVE AllOK(table', reqs')
    <2> DEFINE r == [Request("mark", stored) EXCEPT !.row = n]
    <2>1. n \in AnyRow /\ Known(table', n)
        BY <1>1, Typed, GrowKeeps DEF ItemsInv
    <2>2. /\ Request("mark", stored) \in ReqRec /\ Request("mark", stored).step = "sent"
          /\ Request("mark", stored).kind = "mark" /\ Request("mark", stored).rows = {}
        BY <1>3, ReqFields
    <2>3. /\ r \in ReqRec /\ r.kind = "mark" /\ r.step = "sent" /\ r.rows = {} /\ r.row = n
        BY <2>1, <2>2 DEF ReqRec
    <2> HIDE DEF r
    <2>4. ReqOK(table', r)
        BY <2>1, <2>3, FS_EmptySet DEF ReqOK, HasUser, ListOK, MarkOK
    <2>5. reqs' = Put(reqs, r) /\ HasRoom(reqs)
        BY <1>9 DEF Click, r
    <2> QED  BY <1>2, <2>4, <2>5, PutOK
<1>10. ASSUME NEW i \in Slots, AnswerList(i) \/ AnswerMark(i) \/ Fails(i)
       PROVE  AllOK(table', reqs')
    BY <1>2, <1>10, EndOK DEF AnswerList, AnswerMark, Fails
<1>11. ASSUME NEW i \in Slots, ServeList(i) \/ ServeCount(i)  PROVE AllOK(table', reqs')
    <2>1. table' = table
        BY <1>11 DEF ServeList, ServeCount
    <2> QED  BY <1>11, <2>1, ServeListOK, ServeCountOK
<1>12. ASSUME NEW i \in Slots, ServeMark(i)  PROVE AllOK(table', reqs')
    BY <1>2, <1>12, ServeMarkOK
<1>13. ASSUME \/ OnNotification \/ Logout \/ UNCHANGED vars
              \/ \E u \in Users : Persist(u) \/ OtherMarks(u)
              \/ \E u \in Users \cup {NoUser} : OtherTabStores(u)
       PROVE  reqs' = reqs
    BY <1>13 DEF OnNotification, Logout, vars, Persist, OtherMarks, OtherTabStores
<1> QED
    BY <1>2, <1>5, <1>6, <1>7, <1>8, <1>9, <1>10, <1>11, <1>12, <1>13 DEF Next, RequestStep

-----------------------------------------------------------------------------
(* The store of the tab *)

\* The types and invariants of the store, apart from the table and the requests.
StoreInv ==
    /\ stored \in Someone /\ session \in Someone /\ items \subseteq AnyRow
    /\ unreadCount \in Nat /\ lastSeenSeq \in 0 .. MaxRows
    /\ crossed \in BOOLEAN /\ mixed \in BOOLEAN
    /\ ItemsInv /\ CountCoversList /\ StoreIsOwn

\* What a step that leaves the store alone has to leave alone.
Untouched ==
    /\ UNCHANGED <<inbox, notes, session>>
    /\ stored' \in Someone

LEMMA UnreadIsFinite ==
    ASSUME NEW T, IsFiniteSet(T)
    PROVE  IsFiniteSet(Unread(T)) /\ Cardinality(Unread(T)) \in Nat
<1>1. Unread(T) \in SUBSET T
    BY DEF Unread
<1> QED  BY <1>1, FS_Subset, FS_CardinalityType

\* The newest seq of some rows is that of one of them, or zero.
LEMMA NewestIsBound ==
    ASSUME NEW k \in Nat, NEW T, \A n \in T : n.seq \in 1 .. k
    PROVE  Newest(T) \in 0 .. k
<1> DEFINE S == {n.seq : n \in T} \cup {0}
<1>1. S \subseteq 0 .. k /\ S # {}
    OBVIOUS
<1>2. Max(S) \in S
    <2> HIDE DEF S
    <2> QED  BY <1>1, MaxIsGreatest
<1> QED  BY <1>1, <1>2 DEF Newest

LEMMA ListAnswered ==
    ASSUME TypeOK, ReqInv, StoreInv, NEW i \in Slots, AnswerList(i)  PROVE StoreInv'
<1> DEFINE r == reqs[i]
<1>1. /\ ReqOK(table, r) /\ r.kind = "list" /\ r.step = "done" /\ r \in ReqRec
      /\ items' = r.rows /\ unreadCount' = r.unread /\ lastSeenSeq' = Newest(r.rows)
      /\ crossed' = (r.user # session) /\ mixed' = r.mixed
      /\ table' = table /\ stored' = stored /\ session' = session
    BY DEF AnswerList, SetInitial, ReqInv, AllOK, ReqOK, auth
<1> HIDE DEF r
<1>2. r.user \in Users /\ r.rows \subseteq AnyRow /\ r.unread \in Nat /\ r.mixed \in BOOLEAN
    BY <1>1, ReqFields DEF ReqOK, HasUser
<1>3. /\ IsFiniteSet(r.rows) /\ \A n \in r.rows : n.user = r.user /\ Known(table, n)
      /\ ~r.mixed => Cardinality(Unread(r.rows)) <= r.unread
    BY <1>1 DEF ReqOK, ListOK
<1>4. Len(table[r.user]) \in Nat /\ Len(table[r.user]) \in 0 .. MaxRows
    BY <1>2, Typed
<1>5. Newest(r.rows) \in 0 .. Len(table[r.user])
    <2>1. \A n \in r.rows : n.seq \in 1 .. Len(table[r.user])
        BY <1>3 DEF Known
    <2> QED  BY <1>4, <2>1, NewestIsBound
<1>6. Newest(r.rows) \in 0 .. MaxRows /\ Newest(r.rows) <= Len(table[r.user])
    BY <1>4, <1>5, Sizes
<1>7. ItemsInv'
    BY <1>1, <1>3 DEF ItemsInv, Known
<1>8. CountCoversList'
    BY <1>1, <1>3 DEF CountCoversList, Unread
<1>9. StoreIsOwn'
    <2>1. ~crossed' => session' = r.user /\ session' # NoUser
        BY <1>1, <1>2, Sizes
    <2> QED  BY <1>1, <1>3, <1>6, <2>1 DEF StoreIsOwn
<1> QED  BY <1>1, <1>2, <1>6, <1>7, <1>8, <1>9 DEF StoreInv

\* One more unread row on the list, one more on the badge.
LEMMA NotificationReceived ==
    ASSUME TypeOK, StoreInv, OnNotification  PROVE StoreInv'
<1>1. PICK s \in DOMAIN table[session] : Receive(Row(session, s, FALSE))
    BY DEF OnNotification
<1> DEFINE n == Row(session, s, FALSE)
<1>2. /\ session \in Users /\ Len(table[session]) \in 0 .. MaxRows /\ Len(table[session]) \in Nat
      /\ s \in 1 .. Len(table[session])
    BY <1>1, Typed, Sizes DEF OnNotification, Someone
<1>3. s \in 1 .. MaxRows
    BY <1>2, Sizes
<1>4. /\ n \in AnyRow /\ n.user = session /\ n.seq = s /\ n.read = FALSE
    BY <1>2, <1>3 DEF Row, AnyRow
<1>5. Known(table, n)
    BY <1>2, <1>4 DEF Known
<1> HIDE DEF n
<1>6. /\ \A m \in items : m.seq # s
      /\ items' = items \cup {n} /\ unreadCount' = unreadCount + 1
      /\ lastSeenSeq' = Max({lastSeenSeq, s})
    BY <1>1, <1>4 DEF Receive, n
<1>7. /\ table' = table /\ stored' = stored /\ session' = session
      /\ crossed' = crossed /\ mixed' = mixed
    BY DEF OnNotification, auth, notes
<1>8. Max({lastSeenSeq, s}) \in {lastSeenSeq, s} /\ Max({lastSeenSeq, s}) \in 0 .. MaxRows
    <2>1. {lastSeenSeq, s} \subseteq 0 .. MaxRows
        BY <1>3, Sizes DEF StoreInv
    <2>2. Max({lastSeenSeq, s}) \in {lastSeenSeq, s}
        BY <2>1, Sizes, MaxIsGreatest
    <2> QED  BY <2>1, <2>2
<1>9. ItemsInv'
    <2>1. IsFiniteSet(items')
        BY <1>6, FS_AddElement DEF StoreInv, ItemsInv
    <2>2. \A m \in items' : Known(table, m)
        BY <1>5, <1>6 DEF StoreInv, ItemsInv
    <2> QED  BY <1>7, <2>1, <2>2 DEF ItemsInv, Known
<1>10. CountCoversList'
    <2>1. Unread(items') = Unread(items) \cup {n} /\ n \notin Unread(items)
        BY <1>4, <1>6 DEF Unread
    <2>2. IsFiniteSet(Unread(items)) /\ Cardinality(Unread(items)) \in Nat
        BY UnreadIsFinite DEF StoreInv, ItemsInv
    <2>3. Cardinality(Unread(items')) = Cardinality(Unread(items)) + 1
        BY <2>1, <2>2, FS_AddElement
    <2>4. ~mixed => Cardinality(Unread(items)) <= unreadCount
        BY DEF StoreInv, CountCoversList
    <2>5. unreadCount \in Nat
        BY DEF StoreInv
    <2>6. ~mixed => Cardinality(Unread(items')) <= unreadCount'
        BY <1>6, <2>2, <2>3, <2>4, <2>5
    <2>7. CountCoversList' <=> (~mixed' => Cardinality(Unread(items')) <= unreadCount')
        BY DEF CountCoversList, Unread
    <2> QED  BY <1>7, <2>6, <2>7
<1>11. StoreIsOwn'
    <2>1. session # NoUser
        BY DEF OnNotification
    <2>2. ~crossed => (\A m \in items' : m.user = session) /\ lastSeenSeq' <= Len(table[session])
        BY <1>2, <1>4, <1>6, <1>8, <2>1 DEF StoreInv, StoreIsOwn
    <2> QED  BY <1>7, <2>1, <2>2 DEF StoreIsOwn
<1>12. items' \subseteq AnyRow /\ unreadCount' \in Nat
    BY <1>4, <1>6 DEF StoreInv
<1> QED  BY <1>6, <1>7, <1>8, <1>9, <1>10, <1>11, <1>12 DEF StoreInv

\* A row that turns read lowers both sides, and a second answer neither.
LEMMA MarkAnswered ==
    ASSUME TypeOK, ReqInv, StoreInv, NEW i \in Slots, AnswerMark(i)  PROVE StoreInv'
<1> DEFINE w == reqs[i].row
           hit == {n \in Unread(items) : n.user = w.user /\ n.seq = w.seq}
           marked == {Row(n.user, n.seq, TRUE) : n \in hit}
<1>1. /\ items' = (items \ hit) \cup marked
      /\ unreadCount' = IF hit = {} THEN unreadCount ELSE OneLess(unreadCount)
      /\ lastSeenSeq' = lastSeenSeq /\ table' = table /\ stored' = stored /\ session' = session
      /\ crossed' = crossed /\ mixed' = mixed
    BY DEF AnswerMark, MarkRead, auth, notes
<1>2. w \in AnyRow /\ Known(table, w) /\ table[w.user][w.seq]
    BY DEF AnswerMark, ReqInv, AllOK, ReqOK, MarkOK
<1>3. hit \subseteq items /\ hit \subseteq Unread(items) /\ items \subseteq AnyRow /\ IsFiniteSet(items)
    BY DEF Unread, StoreInv, ItemsInv
<1>4. \A m \in marked : /\ m \in AnyRow /\ m.read = TRUE /\ m.user = w.user /\ m.seq = w.seq
                        /\ Known(table, m)
    <2>1. ASSUME NEW m \in marked
          PROVE  m.user = w.user /\ m.seq = w.seq /\ m.read = TRUE
        BY DEF Row
    <2>2. ASSUME NEW m \in marked  PROVE m \in AnyRow
        <3>1. PICK n \in hit : m = Row(n.user, n.seq, TRUE)
            OBVIOUS
        <3>2. n.user \in Users /\ n.seq \in 1 .. MaxRows
            BY <1>3, RowFields
        <3> HIDE DEF hit, marked
        <3> QED  BY <3>1, <3>2 DEF AnyRow, Row
    <2> HIDE DEF w, hit, marked
    <2> QED  BY <1>2, <2>1, <2>2 DEF Known
<1>5. IsFiniteSet(items')
    <2>1. IsFiniteSet(hit) /\ IsFiniteSet(items \ hit)
        BY <1>3, FS_Subset
    <2>2. IsFiniteSet(marked)
        <3> DEFINE f == [n \in hit |-> Row(n.user, n.seq, TRUE)]
        <3>1. f \in Surjection(hit, marked)
            BY DEF Surjection
        <3> QED  BY <2>1, <3>1, FS_Surjection
    <2> QED  BY <1>1, <2>1, <2>2, FS_Union
<1>6. ItemsInv'
    <2>1. \A n \in items' : Known(table, n)
        BY <1>1, <1>4 DEF StoreInv, ItemsInv
    <2> QED  BY <1>1, <1>5, <2>1 DEF ItemsInv, Known
<1>7. Unread(items') = Unread(items) \ hit
    <2>1. \A n \in marked : n.read
        BY <1>4
    <2> HIDE DEF marked
    <2> QED  BY <1>1, <2>1 DEF Unread
<1>8. CountCoversList'
    <2>1. /\ IsFiniteSet(Unread(items)) /\ Cardinality(Unread(items)) \in Nat
          /\ Cardinality(Unread(items')) \in Nat
        BY <1>3, <1>5, UnreadIsFinite
    <2>2. ~mixed => Cardinality(Unread(items)) <= unreadCount
        BY DEF StoreInv, CountCoversList
    <2>3. unreadCount \in Nat
        BY DEF StoreInv
    <2>4. CASE hit = {}
        <3>1. Unread(items') = Unread(items) /\ unreadCount' = unreadCount
            BY <1>1, <1>7, <2>4
        <3> QED  BY <1>1, <2>2, <3>1 DEF CountCoversList, Unread
    <2>5. CASE hit # {}
        <3>1. PICK n \in hit : TRUE
            BY <2>5
        <3> HIDE DEF hit
        <3>2. n \in Unread(items) /\ Unread(items') \in SUBSET (Unread(items) \ {n})
            BY <1>3, <1>7, <3>1
        <3>3. /\ IsFiniteSet(Unread(items) \ {n})
              /\ Cardinality(Unread(items) \ {n}) = Cardinality(Unread(items)) - 1
            BY <2>1, <3>2, FS_RemoveElement
        <3>4. Cardinality(Unread(items')) <= Cardinality(Unread(items)) - 1
            BY <3>2, <3>3, FS_Subset
        <3>5. unreadCount' = OneLess(unreadCount)
            BY <1>1, <2>5
        <3>6. ~mixed => Cardinality(Unread(items')) <= unreadCount'
            BY <2>1, <2>2, <2>3, <3>4, <3>5 DEF OneLess
        <3>7. CountCoversList' <=> (~mixed' => Cardinality(Unread(items')) <= unreadCount')
            BY DEF CountCoversList, Unread
        <3> QED  BY <1>1, <3>6, <3>7
    <2> QED  BY <2>4, <2>5
<1>9. items' \subseteq AnyRow
    BY <1>1, <1>3, <1>4
<1>10. StoreIsOwn'
    <2>1. ASSUME ~crossed, NEW m \in items'  PROVE m.user = session
        <3>1. \A n \in items : n.user = session
            BY <2>1 DEF StoreInv, StoreIsOwn
        <3>2. CASE m \in items
            BY <3>1, <3>2
        <3>3. CASE m \in marked
            <4>1. PICK n \in hit : m.user = n.user
                BY <3>3 DEF Row
            <4> QED  BY <1>3, <3>1, <4>1
        <3> QED  BY <1>1, <2>1, <3>2, <3>3
    <2>2. ~crossed => (session = NoUser => hit = {})
        <3>1. ASSUME ~crossed, session = NoUser, NEW n \in items  PROVE FALSE
            <4>1. n.user = NoUser /\ n.user \in Users
                BY <1>3, <3>1, RowFields DEF StoreInv, StoreIsOwn
            <4> QED  BY <4>1, Sizes
        <3> QED  BY <1>3, <3>1
    <2>3. ~crossed /\ session = NoUser => unreadCount' = 0 /\ lastSeenSeq' = 0
        BY <1>1, <2>2 DEF StoreInv, StoreIsOwn
    <2>4. ~crossed /\ session # NoUser => lastSeenSeq' <= Len(table[session])
        BY <1>1 DEF StoreInv, StoreIsOwn
    <2> HIDE DEF hit, marked, w
    <2> QED  BY <1>1, <2>1, <2>3, <2>4 DEF StoreIsOwn
<1>11. unreadCount' \in Nat
    BY <1>1 DEF StoreInv, OneLess
<1> QED  BY <1>1, <1>6, <1>8, <1>9, <1>10, <1>11 DEF StoreInv

\* Logout and a page load leave an empty store.
LEMMA Cleared ==
    ASSUME TypeOK, StoreInv, Logout \/ Reload  PROVE StoreInv'
<1>1. /\ items' = {} /\ unreadCount' = 0 /\ lastSeenSeq' = 0 /\ crossed' = FALSE /\ mixed' = FALSE
      /\ session' = NoUser /\ stored' \in Someone
    BY DEF Logout, Reload, ClearAll, StoreInv, Someone
<1>2. IsFiniteSet(items') /\ Unread(items') = {} /\ Cardinality({}) = 0
    BY <1>1, FS_EmptySet DEF Unread
<1>3. ItemsInv'
    BY <1>1, <1>2 DEF ItemsInv
<1>4. CountCoversList'
    BY <1>1, <1>2 DEF CountCoversList, Unread
<1>5. StoreIsOwn'
    BY <1>1 DEF StoreIsOwn
<1>6. 0 \in 0 .. MaxRows /\ NoUser \in Someone
    BY Sizes DEF Someone
<1> QED  BY <1>1, <1>3, <1>4, <1>5, <1>6 DEF StoreInv

\* A session begins: with the store of none or its own, or the store is crossed.
LEMMA SessionStarted ==
    ASSUME TypeOK, ReqInv, StoreInv, NEW i \in Slots, AnswerLogin(i) \/ AnswerMe(i)
    PROVE  StoreInv'
<1> DEFINE u == reqs[i].user
<1>1. u \in Users
    BY DEF ReqInv, AllOK, ReqOK, HasUser, AnswerLogin, AnswerMe
<1>2. /\ session' = u /\ crossed' = (crossed \/ (session \notin {u, NoUser}))
      /\ table' = table /\ items' = items /\ unreadCount' = unreadCount
      /\ lastSeenSeq' = lastSeenSeq /\ mixed' = mixed
    BY DEF AnswerLogin, AnswerMe, StartSession, inbox
<1>3. stored' \in Someone
    BY <1>1 DEF AnswerLogin, AnswerMe, StoreInv, Someone
<1> HIDE DEF u
<1>4. ItemsInv' /\ CountCoversList'
    BY <1>2 DEF StoreInv, ItemsInv, CountCoversList, Unread, Known
<1>5. StoreIsOwn'
    <2>1. u # NoUser /\ Len(table[u]) \in Nat
        BY <1>1, Sizes, Typed
    <2>2. CASE session = u
        BY <1>2, <2>1, <2>2 DEF StoreInv, StoreIsOwn
    <2>3. CASE session = NoUser
        <3>1. ~crossed => lastSeenSeq = 0 /\ \A n \in items : n.user = NoUser
            BY <2>3 DEF StoreInv, StoreIsOwn
        <3>2. ~crossed => items = {}
            <4>1. \A n \in items : n.user \in Users
                BY RowFields DEF StoreInv
            <4> QED  BY <3>1, <4>1, Sizes
        <3>3. ~crossed => lastSeenSeq <= Len(table[u])
            BY <2>1, <3>1
        <3> QED  BY <1>2, <2>1, <3>2, <3>3 DEF StoreIsOwn
    <2>4. CASE session \notin {u, NoUser}
        BY <1>2, <2>4 DEF StoreIsOwn
    <2> QED  BY <2>2, <2>3, <2>4
<1> QED  BY <1>1, <1>2, <1>3, <1>4, <1>5 DEF StoreInv, Someone

\* The store stands still while the table grows.
LEMMA StoreKept ==
    ASSUME TypeOK, StoreInv, Untouched, Grows(table, table')  PROVE StoreInv'
<1>1. /\ items' = items /\ unreadCount' = unreadCount /\ lastSeenSeq' = lastSeenSeq
      /\ crossed' = crossed /\ mixed' = mixed /\ session' = session /\ stored' \in Someone
    BY DEF Untouched, inbox, notes
<1>2. ItemsInv'
    <2>1. \A n \in items : Known(table', n)
        BY GrowKeeps DEF StoreInv, ItemsInv
    <2> QED  BY <1>1, <2>1 DEF StoreInv, ItemsInv, Known
<1>3. CountCoversList'
    BY <1>1 DEF StoreInv, CountCoversList, Unread
<1>4. StoreIsOwn'
    <2>1. ASSUME session # NoUser, lastSeenSeq <= Len(table[session])
          PROVE  lastSeenSeq <= Len(table'[session])
        <3>1. session \in Users /\ lastSeenSeq \in Nat
            BY <2>1, Sizes DEF StoreInv, Someone
        <3> QED  BY <2>1, <3>1 DEF Grows
    <2> QED  BY <1>1, <2>1 DEF StoreInv, StoreIsOwn
<1> QED  BY <1>1, <1>2, <1>3, <1>4 DEF StoreInv

LEMMA StoreStep ==
    ASSUME TypeOK, ReqInv, StoreInv, [Next]_vars  PROVE StoreInv'
<1>1. Grows(table, table')
    BY TableStep
<1>2. stored \in Someone /\ NoUser \in Someone
    BY DEF StoreInv, Someone
<1>3. ASSUME NEW u \in Users, SubmitLogin(u) \/ Persist(u) \/ OtherMarks(u)  PROVE Untouched
    BY <1>2, <1>3 DEF SubmitLogin, Persist, OtherMarks, Untouched, auth
<1>4. ASSUME NEW u \in Users \cup {NoUser}, OtherTabStores(u)  PROVE Untouched
    BY <1>4 DEF OtherTabStores, Untouched, Someone
<1>5. ASSUME NEW n \in items, Click(n)  PROVE Untouched
    BY <1>2, <1>5 DEF Click, Untouched, auth
<1>6. ASSUME NEW i \in Slots, ServeList(i) \/ ServeCount(i) \/ ServeMark(i) \/ Fails(i)
      PROVE  Untouched
    BY <1>2, <1>6 DEF ServeList, ServeCount, ServeMark, Fails, Untouched, auth
<1>7. ASSUME Remount \/ UNCHANGED vars  PROVE Untouched
    BY <1>2, <1>7 DEF Remount, vars, Untouched, auth
<1> QED
    BY <1>1, <1>3, <1>4, <1>5, <1>6, <1>7, StoreKept, ListAnswered, NotificationReceived,
       MarkAnswered, Cleared, SessionStarted DEF Next, RequestStep

-----------------------------------------------------------------------------
(* The theorems *)

\* IInv in the parts its proof is divided into.
Carried == table \in Tables /\ ReqInv /\ StoreInv

LEMMA Parts == IInv <=> Carried
<1>1. ASSUME IInv  PROVE Carried
    <2>1. TypeOK
        BY <1>1 DEF IInv
    <2> QED  BY <1>1, <2>1, Typed DEF IInv, TypeOK, Tables, StoreInv, Carried
<1>2. ASSUME Carried  PROVE IInv
    <2>1. \A i \in Slots : /\ reqs[i].kind \in {"free", "me", "login", "list", "mark"}
                           /\ reqs[i].step \in {"sent", "listed", "done"}
                           /\ reqs[i].rows \subseteq AnyRow
        <3>1. ASSUME NEW i \in Slots  PROVE reqs[i] \in ReqRec
            BY <1>2 DEF Carried, ReqInv, AllOK
        <3> QED  BY <3>1, ReqFields
    <2>2. {stored, session} \subseteq Users \cup {NoUser} /\ {crossed, mixed} \subseteq BOOLEAN
        BY <1>2 DEF Carried, StoreInv, Someone
    <2>3. /\ items \subseteq AnyRow /\ unreadCount \in Nat /\ lastSeenSeq \in 0 .. MaxRows
          /\ ItemsInv /\ CountCoversList /\ StoreIsOwn
        BY <1>2 DEF Carried, StoreInv
    <2>4. TypeOK
        BY <1>2, <2>1, <2>2, <2>3 DEF Carried, TypeOK, Tables
    <2> QED  BY <1>2, <2>3, <2>4 DEF Carried, IInv
<1> QED  BY <1>1, <1>2

LEMMA InitCarried == Init => Carried
<1> SUFFICES ASSUME Init  PROVE Carried
    OBVIOUS
<1>1. table \in Tables
    <2>1. << >> \in [1 .. 0 -> BOOLEAN] /\ 0 \in 0 .. MaxRows
        BY Sizes
    <2> QED  BY <2>1 DEF Init, Tables
<1>2. ReqInv
    BY BootOK DEF Init, ReqInv, Someone
<1>3. IsFiniteSet({}) /\ Cardinality({}) = 0 /\ 0 \in 0 .. MaxRows
    BY FS_EmptySet, Sizes
<1>4. ItemsInv /\ StoreIsOwn
    BY <1>3 DEF Init, ItemsInv, StoreIsOwn
<1>5. CountCoversList
    <2>1. Unread(items) = {} /\ unreadCount = 0
        BY DEF Init, Unread
    <2> QED  BY <1>3, <2>1 DEF CountCoversList
<1> QED  BY <1>1, <1>2, <1>3, <1>4, <1>5 DEF Init, Carried, StoreInv, Someone

LEMMA NextCarried == Carried /\ [Next]_vars => Carried'
<1> SUFFICES ASSUME Carried, [Next]_vars  PROVE Carried'
    OBVIOUS
<1>1. TypeOK /\ ReqInv /\ ItemsInv /\ StoreInv
    BY Parts DEF IInv, Carried
<1>2. table' \in Tables /\ ReqInv' /\ StoreInv'
    BY <1>1, TableStep, ReqStep, StoreStep
<1> QED  BY <1>2 DEF Carried

\* In every reachable state the requests under way bring rows that exist, and
\* counts that cover them; the inductive invariant the rest follows from.
THEOREM Invariance == Spec => []IInv
<1>1. Carried => IInv
    BY Parts
<1> QED  BY <1>1, InitCarried, NextCarried, PTL DEF Spec

\* The state has its shape whatever answers overlap; the badge, which markRead
\* lowers (notificationsSlice.ts), is never negative.
THEOREM TypeCorrect == Spec => []TypeOK
<1>1. IInv => TypeOK
    BY DEF IInv
<1> QED  BY <1>1, Invariance, PTL

\* No row is shown as read that the table holds as unread.
THEOREM ShownReadIsRead == Spec => []ReadIsStored
<1>1. IInv => ReadIsStored
    BY DEF IInv, ItemsInv, Known, ReadIsStored
<1> QED  BY <1>1, Invariance, PTL

\* The badge never shows less than the unread rows of the list, unless another
\* client marked a row between the two statements of the list's answer.
THEOREM BadgeCoversList == Spec => []CountCoversList
<1>1. IInv => CountCoversList
    BY DEF IInv
<1> QED  BY <1>1, Invariance, PTL

\* Rows, badge and resume cursor belong to the user of the session, unless a
\* late answer of another token or a session that replaced another crossed them.
THEOREM NobodyElsesInbox == Spec => []StoreIsOwn
<1>1. IInv => StoreIsOwn
    BY DEF IInv
<1> QED  BY <1>1, Invariance, PTL
=============================================================================
