------------------------- MODULE SendNotificationProofs -------------------------
(***************************************************************************)
(* What holds of Execute for any number of overlapping requests, servers,  *)
(* recipients and failures.  IInv adds to the invariants of the run how    *)
(* far a call is when it has written a row and when Redis has its frame:   *)
(* rows are behind the position of the call or at it, frames behind it.    *)
(* OutInv says the same of the answer, entry by entry.                     *)
(***************************************************************************)
EXTENDS SendNotification, SequenceTheorems, FiniteSetTheorems, WellFoundedInduction, TLAPS

Recipient(s) == call[s].to[call[s].at]

\* A row was written for its user by a call that has come that far.
LogInv ==
    \A u \in Users : \A k \in 1 .. Len(log[u]) :
        LET r == log[u][k]
        IN  /\ r.at \in 1 .. Len(call[r.send].to)
            /\ call[r.send].to[r.at] = u
            /\ r.at <= call[r.send].at
            /\ r.at = call[r.send].at => call[r.send].step \in {"publish", "500", "dead"}

\* A call that is about to publish knows the seq of its row.
SeqInv ==
    \A s \in Sends : call[s].step = "publish" =>
        /\ call[s].seq \in 1 .. Len(log[Recipient(s)])
        /\ log[Recipient(s)][call[s].seq] = RowOf(s, call[s].at)

\* A frame is that of a row the call has left behind.
FrameInv ==
    \A u \in Users : \A k \in 1 .. Len(channel[u]) :
        LET f == channel[u][k]
        IN  /\ f.seq \in 1 .. Len(log[u])
            /\ log[u][f.seq] = f.row
            /\ f.row.at < call[f.row.send].at
            /\ \A l \in 1 .. Len(channel[u]) : channel[u][l].row = f.row => l = k

\* Everybody a call has left behind has a row.
PrefixInv ==
    \A s \in Sends : \A j \in 1 .. Len(call[s].to) :
        j < call[s].at /\ call[s].to[j] # Blank => j \in Written(s)

\* Whoever has a row is told, or it is known who is not.
SilenceInv ==
    \A s \in Sends : \A i \in Written(s) :
        \/ i \in Told(s) \cup call[s].warned
        \/ i = call[s].at /\ call[s].step \in {"publish", "500", "dead"}

\* A call that was not admitted yet has not begun.
PostedInv == \A s \in Sends : call[s].step = "posted" => call[s].at = 0

IInv == TypeOK /\ LogInv /\ SeqInv /\ FrameInv /\ PrefixInv /\ SilenceInv /\ PostedInv

-----------------------------------------------------------------------------
(* Sequences and the loop *)

\* A set of naturals has a least element, and Min is it.
LEMMA MinIsLeast ==
    ASSUME NEW S, S \subseteq Nat, S # {}
    PROVE  Min(S) \in S /\ \A x \in S : Min(S) <= x
<1>1. PICK x \in S : \A y \in S : ~ (<<y, x>> \in OpToRel(<, Nat))
    BY NatLessThanWellFounded, WFMin
<1>2. ASSUME NEW y \in S  PROVE x <= y
    <2>1. <<y, x>> \notin {ss \in Nat \X Nat : ss[1] < ss[2]}
        BY <1>1 DEF OpToRel
    <2> QED  BY <2>1
<1> QED  BY <1>2 DEF Min

\* What Append does to a sequence, position by position.
LEMMA AppendAtEnd ==
    ASSUME NEW S, NEW q \in Seq(S), NEW e \in S
    PROVE  /\ Append(q, e) \in Seq(S)
           /\ Len(q) \in Nat
           /\ Len(Append(q, e)) = Len(q) + 1
           /\ \A i \in 1 .. Len(q) : Append(q, e)[i] = q[i]
           /\ Append(q, e)[Len(q) + 1] = e
OBVIOUS

\* The loop skips blank recipients and nobody else, and stops behind the last.
LEMMA FollowingIsNext ==
    ASSUME NEW to \in Seq(Users \cup {Blank}), NEW i \in 0 .. Len(to)
    PROVE  /\ Following(to, i) \in i + 1 .. Len(to) + 1
           /\ \A j \in i + 1 .. Following(to, i) - 1 : to[j] = Blank
           /\ Following(to, i) <= Len(to) => to[Following(to, i)] \in Users
<1> DEFINE S == {j \in i + 1 .. Len(to) : to[j] # Blank} \cup {Len(to) + 1}
<1>1. Len(to) \in Nat /\ i \in Nat
    OBVIOUS
<1>2. S \subseteq Nat /\ S # {} /\ S \subseteq i + 1 .. Len(to) + 1
    BY <1>1
<1>3. Following(to, i) = Min(S)
    BY DEF Following
<1> HIDE DEF S
<1>4. Following(to, i) \in S /\ \A x \in S : Following(to, i) <= x
    BY <1>2, <1>3, MinIsLeast
<1>5. Following(to, i) \in i + 1 .. Len(to) + 1
    BY <1>2, <1>4
<1>6. ASSUME NEW j \in i + 1 .. Following(to, i) - 1  PROVE to[j] = Blank
    <2>1. j \in i + 1 .. Len(to) /\ j < Following(to, i)
        BY <1>1, <1>5
    <2>2. j \notin S
        BY <1>1, <1>4, <1>5, <2>1
    <2> QED  BY <2>1, <2>2 DEF S
<1>7. ASSUME Following(to, i) <= Len(to)  PROVE to[Following(to, i)] \in Users
    <2>1. Following(to, i) # Len(to) + 1
        BY <1>1, <1>5, <1>7
    <2>2. Following(to, i) \in 1 .. Len(to) /\ to[Following(to, i)] # Blank
        BY <1>1, <1>4, <2>1 DEF S
    <2> QED  BY <2>2
<1> QED  BY <1>5, <1>6, <1>7

\* The activation of one call changes, for another one of the same request.
LEMMA CallMoves ==
    ASSUME TypeOK, NEW s \in Sends, NEW d \in Activations, d.to = call[s].to,
           call' = [call EXCEPT ![s] = d]
    PROVE  /\ call' \in [Sends -> Activations]
           /\ call'[s] = d
           /\ \A r \in Sends : r # s => call'[r] = call[r]
           /\ \A r \in Sends : call'[r].to = call[r].to
BY DEF TypeOK

\* GoTo from position i leads to the next recipient or to the answer.
LEMMA GoToFollowing ==
    ASSUME TypeOK, NEW s \in Sends, NEW i \in 0 .. Len(call[s].to), NEW d,
           d = GoTo(call[s], Following(call[s].to, i))
    PROVE  /\ d \in Activations
           /\ d.to = call[s].to /\ d.warned = call[s].warned /\ d.out = call[s].out
           /\ d.at \in i + 1 .. Len(d.to) + 1
           /\ \A j \in i + 1 .. d.at - 1 : d.to[j] = Blank
           /\ d.step \in {"create", "201"}
           /\ d.step = "create" => d.at \in 1 .. Len(d.to) /\ d.to[d.at] \in Users
<1>1. call[s] \in Activations /\ call[s].to \in Seq(Users \cup {Blank})
    BY UsersAssumption DEF TypeOK, Activations
<1>2. DEFINE n == Following(call[s].to, i)
<1>3. /\ n \in i + 1 .. Len(call[s].to) + 1
      /\ \A j \in i + 1 .. n - 1 : call[s].to[j] = Blank
      /\ n <= Len(call[s].to) => call[s].to[n] \in Users
    BY <1>1, FollowingIsNext
<1>4. d = [call[s] EXCEPT !.at = n, !.step = IF n <= Len(call[s].to) THEN "create" ELSE "201"]
    BY DEF GoTo
<1> HIDE DEF n
<1>5. n \in Nat /\ Len(call[s].to) \in Nat
    BY <1>1, <1>3
<1>6. d \in Activations
    BY <1>1, <1>4, <1>5 DEF Activations, Steps
<1>7. /\ d.to = call[s].to /\ d.warned = call[s].warned /\ d.out = call[s].out
      /\ d.at = n /\ d.step = IF n <= Len(call[s].to) THEN "create" ELSE "201"
    BY <1>1, <1>4 DEF Activations
<1> QED  BY <1>3, <1>5, <1>6, <1>7

\* Where a call goes that answers 201.
LEMMA GoToEnd ==
    ASSUME TypeOK, NEW s \in Sends, NEW i \in 0 .. Len(call[s].to), NEW d,
           d = GoTo(call[s], Following(call[s].to, i)), d.step = "201"
    PROVE  d.at = Len(d.to) + 1
<1>1. call[s] \in Activations /\ call[s].to \in Seq(Users \cup {Blank})
    BY UsersAssumption DEF TypeOK, Activations
<1> DEFINE n == Following(call[s].to, i)
<1>2. n \in i + 1 .. Len(call[s].to) + 1 /\ Len(call[s].to) \in Nat
    BY <1>1, FollowingIsNext
<1>3. d = [call[s] EXCEPT !.at = n, !.step = IF n <= Len(call[s].to) THEN "create" ELSE "201"]
    BY DEF GoTo
<1> HIDE DEF n
<1>4. /\ d.to = call[s].to /\ d.at = n
      /\ d.step = IF n <= Len(call[s].to) THEN "create" ELSE "201"
    BY <1>1, <1>3 DEF Activations
<1> QED  BY <1>2, <1>4

\* A frame carries a seq and a row of some request.
LEMMA FrameType ==
    ASSUME TypeOK, NEW u \in Users, NEW k \in 1 .. Len(channel[u])
    PROVE  /\ channel[u][k].seq \in Nat
           /\ channel[u][k].row \in Rows
           /\ channel[u][k].row.send \in Sends
           /\ channel[u][k].row.at \in Nat
<1>1. channel[u] \in Seq(Frames)
    BY DEF TypeOK
<1>2. channel[u][k] \in Frames
    BY <1>1
<1>3. channel[u][k].row \in Rows /\ channel[u][k].seq \in Nat
    BY <1>2 DEF Frames
<1> QED  BY <1>3 DEF Rows

\* Rows that were written stay written.
LEMMA WrittenGrows ==
    ASSUME \A r \in Sends : call'[r].to = call[r].to,
           \A u \in Users : /\ Len(log[u]) \in Nat /\ Len(log'[u]) \in Nat
                            /\ Len(log[u]) <= Len(log'[u])
                            /\ \A k \in 1 .. Len(log[u]) : log'[u][k] = log[u][k]
    PROVE  \A s \in Sends : Written(s) \subseteq Written(s)'
BY DEF Written, Contains, RowOf

\* Whoever was told stays told.
LEMMA ToldGrows ==
    ASSUME TypeOK,
           \A r \in Sends : call'[r].to = call[r].to /\ Written(r) \subseteq Written(r)',
           \A u \in Users : /\ Len(channel[u]) \in Nat /\ Len(channel'[u]) \in Nat
                            /\ DOMAIN channel'[u] = 1 .. Len(channel'[u])
                            /\ Len(channel[u]) <= Len(channel'[u])
                            /\ \A k \in 1 .. Len(channel[u]) : channel'[u][k] = channel[u][k],
           \A r \in Sends : \A i \in Written(r) : call[r].to[i] \in Users
    PROVE  \A s \in Sends : Told(s) \subseteq Told(s)'
<1> SUFFICES ASSUME NEW s \in Sends, NEW i \in Told(s)  PROVE i \in Told(s)'
    OBVIOUS
<1> DEFINE u == call[s].to[i]
<1>1. i \in Written(s) /\ i \in Written(s)' /\ u \in Users
    BY DEF Told
<1>2. PICK k \in DOMAIN channel[u] : channel[u][k].row = RowOf(s, i)
    BY DEF Told
<1>3. k \in 1 .. Len(channel[u])
    BY <1>1, <1>2 DEF TypeOK
<1>4. call'[s].to[i] = u
    OBVIOUS
<1> HIDE DEF u
<1>5. k \in DOMAIN channel'[u] /\ channel'[u][k].row = RowOf(s, i)
    BY <1>1, <1>2, <1>3
<1> QED  BY <1>1, <1>4, <1>5 DEF Told, RowOf

\* A row belongs to the recipient it was written for.
LEMMA WrittenForRecipient ==
    ASSUME TypeOK, LogInv, NEW s \in Sends, NEW i \in Written(s)
    PROVE  /\ call[s].to[i] \in Users
           /\ i \in 1 .. Len(call[s].to)
           /\ i <= call[s].at
           /\ i = call[s].at => call[s].step \in {"publish", "500", "dead"}
<1>1. PICK u \in Users : \E k \in 1 .. Len(log[u]) : log[u][k] = RowOf(s, i)
    BY DEF Written, Contains
<1>2. PICK k \in 1 .. Len(log[u]) : log[u][k] = RowOf(s, i)
    BY <1>1
<1>3. RowOf(s, i).send = s /\ RowOf(s, i).at = i
    BY DEF RowOf
<1> QED  BY <1>2, <1>3 DEF LogInv

-----------------------------------------------------------------------------
(* Commits *)

\* What a commit does to the logs.
LEMMA CommitsAppend ==
    ASSUME TypeOK, NEW s \in Sends, call[s].step \in Running, Commits(s)
    PROVE  /\ log' \in [Users -> Seq(Rows)]
           /\ RowOf(s, call[s].at) \in Rows
           /\ Recipient(s) \in Users
           /\ \A u \in Users : Len(log[u]) \in Nat
           /\ \A u \in Users : u # Recipient(s) => log'[u] = log[u]
           /\ Len(log'[Recipient(s)]) = Len(log[Recipient(s)]) + 1
           /\ \A k \in 1 .. Len(log[Recipient(s)]) : log'[Recipient(s)][k] = log[Recipient(s)][k]
           /\ log'[Recipient(s)][Len(log[Recipient(s)]) + 1] = RowOf(s, call[s].at)
<1>1. RowOf(s, call[s].at) \in Rows
    BY DEF TypeOK, Activations, RowOf, Rows
<1>2. Recipient(s) \in Users
    BY DEF TypeOK, Recipient
<1>3. log' = [log EXCEPT ![Recipient(s)] = Append(@, RowOf(s, call[s].at))]
    BY DEF Commits, Recipient
<1>4. \A u \in Users : log[u] \in Seq(Rows)
    BY DEF TypeOK
<1>5. log'[Recipient(s)] = Append(log[Recipient(s)], RowOf(s, call[s].at))
    BY <1>2, <1>3 DEF TypeOK
<1>6. /\ log'[Recipient(s)] \in Seq(Rows)
      /\ Len(log'[Recipient(s)]) = Len(log[Recipient(s)]) + 1
      /\ \A k \in 1 .. Len(log[Recipient(s)]) : log'[Recipient(s)][k] = log[Recipient(s)][k]
      /\ log'[Recipient(s)][Len(log[Recipient(s)]) + 1] = RowOf(s, call[s].at)
    BY <1>1, <1>2, <1>4, <1>5, AppendAtEnd
<1>7. log' \in [Users -> Seq(Rows)]
    BY <1>2, <1>3, <1>4, <1>5, <1>6 DEF TypeOK
<1>8. \A u \in Users : Len(log[u]) \in Nat
    BY <1>4
<1>9. \A u \in Users : u # Recipient(s) => log'[u] = log[u]
    BY <1>3 DEF TypeOK
<1> QED  BY <1>1, <1>2, <1>6, <1>7, <1>8, <1>9

\* Create with its row, or its failure with or without one.
LEMMA CommitKeepsIInv ==
    ASSUME IInv, NEW s \in Sends, call[s].step = "create",
           NEW d \in Activations, call' = [call EXCEPT ![s] = d],
           d.to = call[s].to, d.at = call[s].at, d.warned = call[s].warned,
           \/ d.step \in {"publish", "500"} /\ Commits(s)
           \/ d.step = "500" /\ UNCHANGED log,
           d.step = "publish" => d.seq = Len(log[Recipient(s)]) + 1,
           UNCHANGED channel, failures' \in 0 .. MaxFailures
    PROVE  IInv'
<1> DEFINE u == Recipient(s)
           row == RowOf(s, call[s].at)
<1>1. TypeOK /\ LogInv /\ SeqInv /\ FrameInv /\ PrefixInv /\ SilenceInv /\ PostedInv
    BY DEF IInv
<1>2. /\ call' \in [Sends -> Activations] /\ call'[s] = d
      /\ \A r \in Sends : r # s => call'[r] = call[r]
      /\ \A r \in Sends : call'[r].to = call[r].to
    BY <1>1, CallMoves
<1>3. /\ u \in Users
      /\ call[s].at \in 1 .. Len(call[s].to)
      /\ call[s].to[call[s].at] = u
      /\ row.send = s /\ row.at = call[s].at
    BY <1>1 DEF TypeOK, Recipient, Running, RowOf
<1>4. /\ log' \in [Users -> Seq(Rows)]
      /\ \A v \in Users : Len(log[v]) \in Nat /\ Len(log'[v]) \in Nat
      /\ \A v \in Users : v # u => log'[v] = log[v]
      /\ \A k \in 1 .. Len(log[u]) : log'[u][k] = log[u][k]
      /\ \/ Len(log'[u]) = Len(log[u]) + 1 /\ log'[u][Len(log[u]) + 1] = row
         \/ d.step = "500" /\ Len(log'[u]) = Len(log[u])
    <2>1. CASE Commits(s)
        BY <1>1, <1>3, <2>1, CommitsAppend DEF Running
    <2>2. CASE d.step = "500" /\ UNCHANGED log
        BY <1>1, <1>3, <2>2 DEF TypeOK
    <2> QED  BY <2>1, <2>2
<1> HIDE DEF u, row
<1>5. \A v \in Users : Len(log[v]) <= Len(log'[v])
                       /\ \A k \in 1 .. Len(log[v]) : log'[v][k] = log[v][k]
    BY <1>4
<1>6. \A r \in Sends : Written(r) \subseteq Written(r)'
    BY <1>2, <1>4, <1>5, WrittenGrows
<1>7. TypeOK'
    <2>1. d.step \notin Running \/ (d.at \in 1 .. Len(d.to) /\ d.to[d.at] \in Users)
        BY <1>3
    <2>2. \A r \in Sends :
             /\ call'[r].at \in 0 .. Len(call'[r].to) + 1
             /\ call'[r].warned \subseteq 1 .. Len(call'[r].to)
        BY <1>1, <1>2 DEF TypeOK
    <2>3. \A r \in Sends : call'[r].step \in Running =>
             call'[r].at \in 1 .. Len(call'[r].to) /\ call'[r].to[call'[r].at] \in Users
        <3>1. \A r \in Sends : r # s => call'[r] = call[r]
            BY <1>2
        <3>2. call'[s] = d
            BY <1>2
        <3> QED  BY <1>1, <2>1, <3>1, <3>2 DEF TypeOK
    <2>4. channel' \in [Users -> Seq(Frames)]
        BY <1>1 DEF TypeOK
    <2> QED  BY <1>2, <1>4, <2>2, <2>3, <2>4 DEF TypeOK
<1>8. LogInv'
    <2> SUFFICES ASSUME NEW v \in Users, NEW k \in 1 .. Len(log'[v]), NEW r, r = log'[v][k]
                 PROVE  /\ r.at \in 1 .. Len(call'[r.send].to)
                        /\ call'[r.send].to[r.at] = v
                        /\ r.at <= call'[r.send].at
                        /\ r.at = call'[r.send].at => call'[r.send].step \in {"publish", "500", "dead"}
        BY DEF LogInv
    <2>1. CASE k \in 1 .. Len(log[v])
        <3>1. r = log[v][k] /\ r \in Rows
            BY <1>1, <1>5, <2>1 DEF TypeOK
        <3>2. r.send \in Sends
            BY <3>1 DEF Rows
        <3>3. /\ r.at \in 1 .. Len(call[r.send].to)
              /\ call[r.send].to[r.at] = v
              /\ r.at <= call[r.send].at
              /\ r.at = call[r.send].at => call[r.send].step \in {"publish", "500", "dead"}
            <4>1. r = log[v][k] /\ LogInv
                BY <1>1, <3>1
            <4> QED  BY <2>1, <4>1 DEF LogInv
        <3>4. r.send # s => call'[r.send] = call[r.send]
            BY <1>2, <3>2
        <3>5. r.send = s => call'[r.send] = d /\ r.at # call[r.send].at
            BY <1>2, <3>3
        <3> QED  BY <3>3, <3>4, <3>5
    <2>2. CASE k \notin 1 .. Len(log[v])
        <3>1. v = u /\ k = Len(log[u]) + 1 /\ r = row /\ d.step \in {"publish", "500"}
            BY <1>4, <2>2
        <3>2. r.send = s /\ r.at = call[s].at
            BY <1>3, <3>1
        <3>3. call'[r.send] = d
            BY <1>2, <3>2
        <3>4. d.to[r.at] = v /\ r.at \in 1 .. Len(d.to)
            BY <1>3, <3>1, <3>2
        <3>5. r.at = d.at /\ d.at <= d.at
            BY <1>3, <3>2
        <3>6. d.step \in {"publish", "500", "dead"}
            BY <3>1
        <3> QED  BY <3>3, <3>4, <3>5, <3>6
    <2> QED  BY <2>1, <2>2
<1>9. SeqInv'
    <2> SUFFICES ASSUME NEW r \in Sends, call'[r].step = "publish"
                 PROVE  /\ call'[r].seq \in 1 .. Len(log'[Recipient(r)'])
                        /\ log'[Recipient(r)'][call'[r].seq] = RowOf(r, call'[r].at)
        BY DEF SeqInv, RowOf
    <2>1. CASE r = s
        <3>1. Recipient(r)' = u
            BY <1>2, <1>3, <2>1 DEF Recipient
        <3>2. Len(log'[u]) = Len(log[u]) + 1 /\ log'[u][Len(log[u]) + 1] = row
            BY <1>2, <1>4, <2>1
        <3>3. call'[r].seq = Len(log[u]) + 1
            BY <1>2, <2>1 DEF u
        <3> QED  BY <1>2, <1>3, <1>4, <2>1, <3>1, <3>2, <3>3 DEF row
    <2>2. CASE r # s
        <3>1. call'[r] = call[r] /\ Recipient(r)' = Recipient(r)
            BY <1>2, <2>2 DEF Recipient
        <3>2. Recipient(r) \in Users
            BY <1>1, <3>1 DEF TypeOK, Running, Recipient
        <3> QED  BY <1>1, <1>4, <1>5, <3>1, <3>2 DEF SeqInv
    <2> QED  BY <2>1, <2>2
<1>10. \A v \in Users : \A k \in 1 .. Len(channel[v]) : channel[v][k].row.send \in Sends
    BY <1>1, FrameType
<1>11. FrameInv'
    <2>1. \A r \in Sends : call'[r].at = call[r].at
        BY <1>2
    <2> SUFFICES ASSUME NEW v \in Users, NEW k \in 1 .. Len(channel[v]), NEW f, f = channel[v][k]
                 PROVE  /\ f.seq \in 1 .. Len(log'[v])
                        /\ log'[v][f.seq] = f.row
                        /\ f.row.at < call'[f.row.send].at
                        /\ \A l \in 1 .. Len(channel[v]) : channel[v][l].row = f.row => l = k
        BY DEF FrameInv
    <2>2. /\ f.seq \in 1 .. Len(log[v])
          /\ log[v][f.seq] = f.row
          /\ f.row.at < call[f.row.send].at
          /\ \A l \in 1 .. Len(channel[v]) : channel[v][l].row = f.row => l = k
        BY <1>1 DEF FrameInv
    <2>3. f.seq \in 1 .. Len(log'[v]) /\ log'[v][f.seq] = f.row
        BY <1>4, <1>5, <2>2
    <2>4. f.row.send \in Sends
        BY <1>10
    <2> QED  BY <2>1, <2>2, <2>3, <2>4
<1>12. PrefixInv'
    BY <1>1, <1>2, <1>6 DEF PrefixInv
<1>13. \A r \in Sends : Told(r) \subseteq Told(r)'
    <2>1. \A r \in Sends : \A i \in Written(r) : call[r].to[i] \in Users
        BY <1>1, WrittenForRecipient
    <2>2. \A v \in Users : Len(channel[v]) \in Nat /\ DOMAIN channel[v] = 1 .. Len(channel[v])
        BY <1>1 DEF TypeOK
    <2> QED  BY <1>1, <1>2, <1>6, <2>1, <2>2, ToldGrows
<1>14. SilenceInv'
    <2> SUFFICES ASSUME NEW r \in Sends, NEW i \in Written(r)'
                 PROVE  \/ i \in Told(r)' \cup call'[r].warned
                        \/ i = call'[r].at /\ call'[r].step \in {"publish", "500", "dead"}
        BY DEF SilenceInv
    <2>1. CASE i \in Written(r)
        <3>1. r = s => i # call[r].at
            BY <1>1, <2>1, WrittenForRecipient
        <3> QED  BY <1>1, <1>2, <1>13, <2>1, <3>1 DEF SilenceInv
    <2>2. CASE i \notin Written(r)
        <3>1. PICK v \in Users : \E k \in 1 .. Len(log'[v]) : log'[v][k] = RowOf(r, i)
            BY DEF Written, Contains, RowOf
        <3>2. PICK k \in 1 .. Len(log'[v]) : log'[v][k] = RowOf(r, i)
            BY <3>1
        <3>3. i \in 1 .. Len(call[r].to)
            BY <1>2 DEF Written
        <3>4. k \notin 1 .. Len(log[v])
            BY <1>5, <2>2, <3>2, <3>3 DEF Written, Contains
        <3>5. RowOf(r, i) = row /\ d.step \in {"publish", "500"}
            BY <1>4, <3>2, <3>4
        <3>6. r = s /\ i = call[s].at
            BY <3>5 DEF RowOf, row
        <3> QED  BY <1>2, <3>5, <3>6
    <2> QED  BY <2>1, <2>2
<1>15. PostedInv'
    BY <1>1, <1>2 DEF PostedInv
<1> QED  BY <1>7, <1>8, <1>9, <1>11, <1>12, <1>14, <1>15 DEF IInv

-----------------------------------------------------------------------------
(* The loop *)

\* What Redis has after a frame has reached it.
LEMMA SentAppends ==
    ASSUME TypeOK, NEW s \in Sends, call[s].step \in Running, Sent(s)
    PROVE  /\ channel' \in [Users -> Seq(Frames)]
           /\ Recipient(s) \in Users
           /\ \A u \in Users : u # Recipient(s) => channel'[u] = channel[u]
           /\ Len(channel'[Recipient(s)]) = Len(channel[Recipient(s)]) + 1
           /\ \A k \in 1 .. Len(channel[Recipient(s)]) :
                 channel'[Recipient(s)][k] = channel[Recipient(s)][k]
           /\ channel'[Recipient(s)][Len(channel[Recipient(s)]) + 1]
                 = [seq |-> call[s].seq, row |-> RowOf(s, call[s].at)]
<1> DEFINE f == [seq |-> call[s].seq, row |-> RowOf(s, call[s].at)]
<1>1. f \in Frames
    BY DEF TypeOK, Activations, RowOf, Rows, Frames
<1>2. Recipient(s) \in Users
    BY DEF TypeOK, Recipient
<1>3. channel' = [channel EXCEPT ![Recipient(s)] = Append(@, f)]
    BY DEF Sent, Recipient
<1>4. channel \in [Users -> Seq(Frames)]
    BY DEF TypeOK
<1> HIDE DEF f
<1>5. channel'[Recipient(s)] = Append(channel[Recipient(s)], f)
    BY <1>2, <1>3, <1>4
<1>6. /\ channel'[Recipient(s)] \in Seq(Frames)
      /\ Len(channel'[Recipient(s)]) = Len(channel[Recipient(s)]) + 1
      /\ \A k \in 1 .. Len(channel[Recipient(s)]) :
            channel'[Recipient(s)][k] = channel[Recipient(s)][k]
      /\ channel'[Recipient(s)][Len(channel[Recipient(s)]) + 1] = f
    BY <1>1, <1>2, <1>4, <1>5, AppendAtEnd
<1>7. channel' \in [Users -> Seq(Frames)]
    BY <1>2, <1>3, <1>4, <1>5, <1>6
<1>8. \A u \in Users : u # Recipient(s) => channel'[u] = channel[u]
    BY <1>3, <1>4
<1> QED  BY <1>2, <1>6, <1>7, <1>8 DEF f

\* The first recipient is looked for, or a publish is over and the next one is:
\* whoever has been passed is blank, or has a row that is told or accounted for.
LEMMA LoopKeepsIInv ==
    ASSUME IInv, NEW s \in Sends, call[s].step \in {"posted", "publish"},
           call[s].step = "posted" => call[s].at = 0,
           NEW d \in Activations, call' = [call EXCEPT ![s] = d],
           d.to = call[s].to,
           d.at \in call[s].at + 1 .. Len(d.to) + 1,
           \A j \in call[s].at + 1 .. d.at - 1 : d.to[j] = Blank,
           d.step \in {"create", "201"},
           d.step = "create" => d.at \in 1 .. Len(d.to) /\ d.to[d.at] \in Users,
           call[s].warned \subseteq d.warned, d.warned \subseteq 1 .. Len(d.to),
           \/ call[s].step = "publish" /\ Sent(s)
           \/ UNCHANGED channel /\ (call[s].step = "publish" => call[s].at \in d.warned),
           UNCHANGED log, failures' \in 0 .. MaxFailures
    PROVE  IInv'
<1> DEFINE u == Recipient(s)
           row == RowOf(s, call[s].at)
<1>1. TypeOK /\ LogInv /\ SeqInv /\ FrameInv /\ PrefixInv /\ SilenceInv /\ PostedInv
    BY DEF IInv
<1>2. /\ call' \in [Sends -> Activations] /\ call'[s] = d
      /\ \A r \in Sends : r # s => call'[r] = call[r]
      /\ \A r \in Sends : call'[r].to = call[r].to
    BY <1>1, CallMoves
<1>3. call[s].at \in Nat /\ Len(d.to) \in Nat /\ call[s].at < d.at /\ d.at \in Nat
    <2>1. call[s].at \in Nat
        BY <1>1 DEF TypeOK, Activations
    <2>2. d.to \in Seq(Users \cup {Blank})
        BY UsersAssumption DEF Activations
    <2> QED  BY <2>1, <2>2
<1>4. call[s].step = "publish" =>
          /\ u \in Users /\ call[s].at \in 1 .. Len(d.to)
          /\ call[s].seq \in 1 .. Len(log[u]) /\ log[u][call[s].seq] = row
    BY <1>1 DEF TypeOK, SeqInv, Recipient, Running
<1>5. row.send = s /\ row.at = call[s].at
    BY DEF RowOf
<1>6. /\ channel' \in [Users -> Seq(Frames)]
      /\ \A v \in Users : /\ Len(channel[v]) \in Nat /\ Len(channel'[v]) \in Nat
                          /\ DOMAIN channel'[v] = 1 .. Len(channel'[v])
                          /\ Len(channel[v]) <= Len(channel'[v])
                          /\ \A k \in 1 .. Len(channel[v]) : channel'[v][k] = channel[v][k]
      /\ \A v \in Users : \A k \in 1 .. Len(channel'[v]) :
            k \in 1 .. Len(channel[v]) \/
               /\ call[s].step = "publish" /\ v = u /\ k = Len(channel[u]) + 1
               /\ channel'[v][k] = [seq |-> call[s].seq, row |-> row]
      /\ call[s].step = "publish" =>
            \/ call[s].at \in d.warned
            \/ /\ Len(channel'[u]) = Len(channel[u]) + 1
               /\ channel'[u][Len(channel[u]) + 1] = [seq |-> call[s].seq, row |-> row]
    <2>1. channel \in [Users -> Seq(Frames)]
        BY <1>1 DEF TypeOK
    <2>2. CASE call[s].step = "publish" /\ Sent(s)
        <3>1. /\ channel' \in [Users -> Seq(Frames)]
              /\ u \in Users
              /\ \A v \in Users : v # u => channel'[v] = channel[v]
              /\ Len(channel'[u]) = Len(channel[u]) + 1
              /\ \A k \in 1 .. Len(channel[u]) : channel'[u][k] = channel[u][k]
              /\ channel'[u][Len(channel[u]) + 1] = [seq |-> call[s].seq, row |-> row]
            BY <1>1, <2>2, SentAppends DEF Running
        <3>2. \A v \in Users : channel[v] \in Seq(Frames)
                               /\ channel'[v] \in Seq(Frames)
            BY <2>1, <3>1
        <3>3. \A v \in Users : /\ Len(channel[v]) \in Nat /\ Len(channel'[v]) \in Nat
                               /\ DOMAIN channel'[v] = 1 .. Len(channel'[v])
            BY <3>2
        <3> HIDE DEF u, row
        <3>4. \A v \in Users : /\ Len(channel[v]) <= Len(channel'[v])
                               /\ \A k \in 1 .. Len(channel[v]) : channel'[v][k] = channel[v][k]
            <4> SUFFICES ASSUME NEW v \in Users
                         PROVE  /\ Len(channel[v]) <= Len(channel'[v])
                                /\ \A k \in 1 .. Len(channel[v]) : channel'[v][k] = channel[v][k]
                OBVIOUS
            <4>1. CASE v = u
                BY <3>1, <3>3, <4>1
            <4>2. CASE v # u
                BY <3>1, <3>3, <4>2
            <4> QED  BY <4>1, <4>2
        <3>5. ASSUME NEW v \in Users, NEW k \in 1 .. Len(channel'[v]), k \notin 1 .. Len(channel[v])
              PROVE  v = u /\ k = Len(channel[u]) + 1
            BY <3>1, <3>3, <3>5
        <3> QED  BY <2>2, <3>1, <3>3, <3>4, <3>5
    <2>3. CASE UNCHANGED channel /\ (call[s].step = "publish" => call[s].at \in d.warned)
        <3>1. \A v \in Users : Len(channel[v]) \in Nat /\ DOMAIN channel[v] = 1 .. Len(channel[v])
            BY <2>1
        <3>2. channel' = channel
            BY <2>3
        <3> HIDE DEF u, row
        <3> QED  BY <2>1, <2>3, <3>1, <3>2
    <2>4. \/ call[s].step = "publish" /\ Sent(s)
          \/ UNCHANGED channel /\ (call[s].step = "publish" => call[s].at \in d.warned)
        OBVIOUS
    <2> QED  BY <2>2, <2>3, <2>4
<1> HIDE DEF u, row
<1>7. TypeOK'
    <2>1. d.step \notin Running \/ (d.at \in 1 .. Len(d.to) /\ d.to[d.at] \in Users)
        BY DEF Running
    <2>2. d.at \in 0 .. Len(d.to) + 1
        BY <1>3
    <2> QED  BY <1>1, <1>2, <1>6, <2>1, <2>2 DEF TypeOK
<1>8. \A v \in Users : \A k \in 1 .. Len(log[v]) : log[v][k].send \in Sends /\ log[v][k].at \in Nat
    <2> SUFFICES ASSUME NEW v \in Users, NEW k \in 1 .. Len(log[v])
                 PROVE  log[v][k].send \in Sends /\ log[v][k].at \in Nat
        OBVIOUS
    <2>1. log[v] \in Seq(Rows)
        BY <1>1 DEF TypeOK
    <2>2. log[v][k] \in Rows
        BY <2>1
    <2> QED  BY <2>2 DEF Rows
<1>9. LogInv'
    <2> SUFFICES ASSUME NEW v \in Users, NEW k \in 1 .. Len(log[v]), NEW r, r = log[v][k]
                 PROVE  /\ r.at \in 1 .. Len(call'[r.send].to)
                        /\ call'[r.send].to[r.at] = v
                        /\ r.at <= call'[r.send].at
                        /\ r.at = call'[r.send].at => call'[r.send].step \in {"publish", "500", "dead"}
        BY DEF LogInv
    <2>1. r.send \in Sends /\ r.at \in Nat
        BY <1>8
    <2>2. /\ r.at \in 1 .. Len(call[r.send].to)
          /\ call[r.send].to[r.at] = v
          /\ r.at <= call[r.send].at
          /\ r.at = call[r.send].at => call[r.send].step \in {"publish", "500", "dead"}
        BY <1>1 DEF LogInv
    <2>3. CASE r.send = s
        <3>1. call'[r.send] = d /\ d.to = call[r.send].to
            BY <1>2, <2>3
        <3>2. r.at < d.at
            BY <1>3, <2>1, <2>2, <2>3
        <3>3. r.at \in 1 .. Len(d.to) /\ d.to[r.at] = v
            BY <2>2, <3>1
        <3>4. r.at <= d.at /\ r.at # d.at
            BY <1>3, <2>1, <3>2
        <3> QED  BY <3>1, <3>3, <3>4
    <2>4. CASE r.send # s
        BY <1>2, <2>1, <2>2, <2>4
    <2> QED  BY <2>3, <2>4
<1>10. SeqInv'
    <2> SUFFICES ASSUME NEW r \in Sends, call'[r].step = "publish"
                 PROVE  /\ call'[r].seq \in 1 .. Len(log[Recipient(r)'])
                        /\ log[Recipient(r)'][call'[r].seq] = RowOf(r, call'[r].at)
        BY DEF SeqInv, RowOf
    <2>1. r # s
        BY <1>2
    <2>2. call'[r] = call[r] /\ Recipient(r)' = Recipient(r)
        BY <1>2, <2>1 DEF Recipient
    <2> QED  BY <1>1, <2>2 DEF SeqInv
<1>11. FrameInv'
    <2> SUFFICES ASSUME NEW v \in Users, NEW k \in 1 .. Len(channel'[v])
                 PROVE  /\ channel'[v][k].seq \in 1 .. Len(log'[v])
                        /\ log'[v][channel'[v][k].seq] = channel'[v][k].row
                        /\ channel'[v][k].row.at < call'[channel'[v][k].row.send].at
                        /\ \A l \in 1 .. Len(channel'[v]) :
                              channel'[v][l].row = channel'[v][k].row => l = k
        BY DEF FrameInv
    <2> DEFINE f == channel'[v][k]
    <2> HIDE DEF f
    <2>0. log' = log
        OBVIOUS
    <2>1. \A l \in 1 .. Len(channel[v]) :
              /\ channel[v][l].seq \in 1 .. Len(log[v])
              /\ log[v][channel[v][l].seq] = channel[v][l].row
              /\ channel[v][l].row.at < call[channel[v][l].row.send].at
              /\ \A m \in 1 .. Len(channel[v]) : channel[v][m].row = channel[v][l].row => m = l
        BY <1>1 DEF FrameInv
    <2>2. \A l \in 1 .. Len(channel[v]) : /\ channel[v][l].row.send \in Sends
                                          /\ channel[v][l].row.at \in Nat
                                          /\ channel[v][l].row # row
        <3> SUFFICES ASSUME NEW l \in 1 .. Len(channel[v])
                     PROVE  /\ channel[v][l].row.send \in Sends
                            /\ channel[v][l].row.at \in Nat
                            /\ channel[v][l].row # row
            OBVIOUS
        <3>1. channel[v][l].row.send \in Sends /\ channel[v][l].row.at \in Nat
            BY <1>1, FrameType
        <3>2. channel[v][l].row.send = s => channel[v][l].row.at < call[s].at
            BY <2>1
        <3> QED  BY <1>3, <1>5, <3>1, <3>2
    <2>3. CASE k \in 1 .. Len(channel[v])
        <3>1. f = channel[v][k]
            BY <1>6, <2>3 DEF f
        <3>2. f.row.at < call'[f.row.send].at
            <4>1. CASE f.row.send = s
                BY <1>2, <1>3, <2>1, <2>2, <2>3, <3>1, <4>1
            <4>2. CASE f.row.send # s
                BY <1>2, <2>1, <2>2, <2>3, <3>1, <4>2
            <4> QED  BY <4>1, <4>2
        <3>3. ASSUME NEW l \in 1 .. Len(channel'[v]), channel'[v][l].row = f.row  PROVE l = k
            <4>1. CASE l \in 1 .. Len(channel[v])
                BY <1>6, <2>1, <2>3, <3>1, <3>3, <4>1
            <4>2. CASE l \notin 1 .. Len(channel[v])
                <5>1. channel'[v][l] = [seq |-> call[s].seq, row |-> row]
                    BY <1>6, <4>2
                <5> QED  BY <2>2, <2>3, <3>1, <3>3, <5>1
            <4> QED  BY <4>1, <4>2
        <3> QED  BY <2>0, <2>1, <2>3, <3>1, <3>2, <3>3 DEF f
    <2>4. CASE k \notin 1 .. Len(channel[v])
        <3>1. /\ call[s].step = "publish" /\ v = u /\ k = Len(channel[u]) + 1
              /\ f = [seq |-> call[s].seq, row |-> row]
            BY <1>6, <2>4 DEF f
        <3>2. f.seq = call[s].seq /\ f.row = row
            BY <3>1
        <3>3. f.seq \in 1 .. Len(log[v]) /\ log[v][f.seq] = f.row
            BY <1>4, <3>1, <3>2
        <3>4. f.row.at < call'[f.row.send].at
            BY <1>2, <1>3, <1>5, <3>2
        <3>5. ASSUME NEW l \in 1 .. Len(channel'[v]), channel'[v][l].row = f.row  PROVE l = k
            <4>1. CASE l \in 1 .. Len(channel[v])
                BY <1>6, <2>2, <3>2, <3>5, <4>1
            <4>2. CASE l \notin 1 .. Len(channel[v])
                BY <1>6, <3>1, <4>2
            <4> QED  BY <4>1, <4>2
        <3> QED  BY <2>0, <3>3, <3>4, <3>5 DEF f
    <2> QED  BY <2>3, <2>4
<1>12. \A r \in Sends : Written(r)' = Written(r)
    BY <1>2 DEF Written, Contains, RowOf
<1>13. PrefixInv'
    <2> SUFFICES ASSUME NEW r \in Sends, NEW j \in 1 .. Len(call[r].to),
                        j < call'[r].at, call[r].to[j] # Blank
                 PROVE  j \in Written(r)
        BY <1>2, <1>12 DEF PrefixInv
    <2>1. CASE r # s
        BY <1>1, <1>2, <2>1 DEF PrefixInv
    <2>2. CASE r = s /\ j < call[s].at
        BY <1>1, <2>2 DEF PrefixInv
    <2>3. CASE r = s /\ j = call[s].at
        <3>1. call[s].step = "publish"
            BY <2>3
        <3>2. u \in Users /\ \E k \in 1 .. Len(log[u]) : log[u][k] = RowOf(s, j)
            BY <1>4, <2>3, <3>1 DEF row
        <3> QED  BY <2>3, <3>2 DEF Written, Contains
    <2>4. CASE r = s /\ j > call[s].at
        <3>1. j \in call[s].at + 1 .. d.at - 1
            BY <1>2, <1>3, <2>4
        <3> QED  BY <2>4, <3>1
    <2> QED  BY <1>3, <2>1, <2>2, <2>3, <2>4
<1>14. \A r \in Sends : Told(r) \subseteq Told(r)'
    <2>1. \A r \in Sends : \A i \in Written(r) : call[r].to[i] \in Users
        BY <1>1, WrittenForRecipient
    <2>2. \A r \in Sends : call'[r].to = call[r].to /\ Written(r) \subseteq Written(r)'
        BY <1>2, <1>12
    <2> QED  BY <1>1, <1>6, <2>1, <2>2, ToldGrows
<1>15. SilenceInv'
    <2> SUFFICES ASSUME NEW r \in Sends, NEW i \in Written(r)
                 PROVE  \/ i \in Told(r)' \cup call'[r].warned
                        \/ i = call'[r].at /\ call'[r].step \in {"publish", "500", "dead"}
        BY <1>12 DEF SilenceInv
    <2>1. \/ i \in Told(r) \cup call[r].warned
          \/ i = call[r].at /\ call[r].step \in {"publish", "500", "dead"}
        BY <1>1 DEF SilenceInv
    <2>2. CASE r # s
        BY <1>2, <1>14, <2>1, <2>2
    <2>3. CASE r = s /\ i \in Told(r) \cup call[r].warned
        BY <1>2, <1>14, <2>3
    <2>4. CASE r = s /\ i = call[s].at /\ call[s].step = "publish"
        <3>1. CASE call[s].at \in d.warned
            BY <1>2, <2>4, <3>1
        <3>2. CASE /\ Len(channel'[u]) = Len(channel[u]) + 1
                   /\ channel'[u][Len(channel[u]) + 1] = [seq |-> call[s].seq, row |-> row]
            <4>1. call'[s].to[i] = u
                BY <1>2, <2>4 DEF u, Recipient
            <4>2. u \in Users /\ Len(channel[u]) + 1 \in DOMAIN channel'[u]
                BY <1>4, <1>6, <2>4, <3>2
            <4>3. channel'[u][Len(channel[u]) + 1].row = RowOf(s, i)
                BY <2>4, <3>2 DEF row
            <4>4. i \in Written(s)'
                BY <1>12, <2>4
            <4> QED  BY <2>4, <4>1, <4>2, <4>3, <4>4 DEF Told, RowOf
        <3> QED  BY <1>6, <2>4, <3>1, <3>2
    <2> QED  BY <2>1, <2>2, <2>3, <2>4
<1>16. PostedInv'
    BY <1>1, <1>2 DEF PostedInv
<1> QED  BY <1>7, <1>9, <1>10, <1>11, <1>13, <1>15, <1>16 DEF IInv

-----------------------------------------------------------------------------
(* Calls that end where they are *)

\* A refusal and a crash leave the position of every call, and the store.
LEMMA EndKeepsIInv ==
    ASSUME IInv, call' \in [Sends -> Activations],
           \A r \in Sends :
              /\ call'[r].to = call[r].to /\ call'[r].at = call[r].at
              /\ call'[r].seq = call[r].seq /\ call'[r].warned = call[r].warned
              /\ \/ call'[r].step = call[r].step
                 \/ call[r].step = "posted" /\ call'[r].step \in {"400", "401", "403"}
                 \/ call[r].step \in Running /\ call'[r].step = "dead",
           UNCHANGED <<log, channel, failures>>
    PROVE  IInv'
<1>1. TypeOK /\ LogInv /\ SeqInv /\ FrameInv /\ PrefixInv /\ SilenceInv /\ PostedInv
    BY DEF IInv
<1>2. log' = log /\ channel' = channel /\ failures' = failures
    OBVIOUS
<1>3. /\ \A r \in Sends : Written(r)' = Written(r)
      /\ \A v \in Users : \A k \in 1 .. Len(log[v]) : log[v][k].send \in Sends
      /\ \A v \in Users : \A k \in 1 .. Len(channel[v]) : channel[v][k].row.send \in Sends
    <2>1. \A r \in Sends : Written(r)' = Written(r)
        BY <1>2 DEF Written, Contains, RowOf
    <2>2. ASSUME NEW v \in Users, NEW k \in 1 .. Len(log[v])  PROVE log[v][k].send \in Sends
        <3>1. log[v] \in Seq(Rows)
            BY <1>1 DEF TypeOK
        <3>2. log[v][k] \in Rows
            BY <3>1
        <3> QED  BY <3>2 DEF Rows
    <2> QED  BY <1>1, <2>1, <2>2, FrameType
<1>4. TypeOK'
    BY <1>1, <1>2 DEF TypeOK, Running
<1>5. LogInv'
    <2> SUFFICES ASSUME NEW v \in Users, NEW k \in 1 .. Len(log[v]), NEW r, r = log[v][k]
                 PROVE  /\ r.at \in 1 .. Len(call'[r.send].to)
                        /\ call'[r.send].to[r.at] = v
                        /\ r.at <= call'[r.send].at
                        /\ r.at = call'[r.send].at => call'[r.send].step \in {"publish", "500", "dead"}
        BY <1>2 DEF LogInv
    <2>1. r.send \in Sends
        BY <1>3
    <2>2. /\ r.at \in 1 .. Len(call[r.send].to)
          /\ call[r.send].to[r.at] = v
          /\ r.at <= call[r.send].at
          /\ r.at = call[r.send].at => call[r.send].step \in {"publish", "500", "dead"}
        BY <1>1 DEF LogInv
    <2> QED  BY <2>1, <2>2 DEF Running
<1>6. SeqInv'
    BY <1>1, <1>2 DEF SeqInv, Recipient, RowOf
<1>7. FrameInv'
    BY <1>1, <1>2, <1>3 DEF FrameInv
<1>8. PrefixInv'
    BY <1>1, <1>3 DEF PrefixInv
<1>9. SilenceInv'
    <2>1. \A r \in Sends : Told(r)' = Told(r)
        BY <1>2, <1>3 DEF Told, RowOf
    <2> QED  BY <1>1, <1>3, <2>1 DEF SilenceInv, Running
<1>10. PostedInv'
    BY <1>1 DEF PostedInv
<1> QED  BY <1>4, <1>5, <1>6, <1>7, <1>8, <1>9, <1>10 DEF IInv

-----------------------------------------------------------------------------
(* The actions *)

LEMMA InitIInv ==
    ASSUME Init
    PROVE  IInv
<1>1. call \in [Sends -> Activations]
    <2> DEFINE Posted == [node : Nodes, to : Lists, step : {"posted"}, at : {0},
                          seq : {0}, out : {<< >>}, warned : {{}}]
    <2>1. ASSUME NEW c \in Posted  PROVE c \in Activations
        <3>1. << >> \in Seq([user : Users, seq : Nat])
            OBVIOUS
        <3>2. {} \in SUBSET Nat /\ {0} \subseteq Nat /\ {"posted"} \subseteq Steps
            BY DEF Steps
        <3>3. /\ c.node \in Nodes /\ c.to \in Lists /\ c.step = "posted"
              /\ c.at = 0 /\ c.seq = 0 /\ c.out = << >> /\ c.warned = {}
              /\ c = [node |-> c.node, to |-> c.to, step |-> c.step, at |-> c.at,
                      seq |-> c.seq, out |-> c.out, warned |-> c.warned]
            OBVIOUS
        <3> HIDE DEF Posted
        <3> DEFINE O == Seq([user : Users, seq : Nat])
        <3>4. Activations = [node : Nodes, to : Lists, step : Steps, at : Nat, seq : Nat,
                             out : O, warned : SUBSET Nat]
            BY DEF Activations
        <3>5. c.out \in O
            BY <3>1, <3>3
        <3> HIDE DEF O
        <3> QED  BY <3>2, <3>3, <3>4, <3>5
    <2>2. call \in [Sends -> Posted]
        BY DEF Init
    <2> HIDE DEF Posted
    <2> QED  BY <2>1, <2>2
<1>2. /\ \A s \in Sends : call[s].step = "posted" /\ call[s].at = 0 /\ call[s].warned = {}
      /\ \A u \in Users : log[u] = << >> /\ channel[u] = << >>
    BY DEF Init
<1>3. \A s \in Sends : Written(s) = {}
    BY <1>2 DEF Written, Contains
<1>4. TypeOK
    <2>1. \A s \in Sends : call[s].to \in Seq(Users \cup {Blank})
        BY <1>1, UsersAssumption DEF Activations
    <2>2. \A s \in Sends : Len(call[s].to) \in Nat
        BY <2>1
    <2>3. log \in [Users -> Seq(Rows)] /\ channel \in [Users -> Seq(Frames)]
        BY DEF Init
    <2> QED  BY <1>1, <1>2, <2>2, <2>3, FailuresAssumption DEF TypeOK, Init, Running
<1>5. LogInv /\ FrameInv
    BY <1>2 DEF LogInv, FrameInv
<1>6. SeqInv /\ PostedInv
    BY <1>2 DEF SeqInv, PostedInv
<1>7. PrefixInv /\ SilenceInv
    BY <1>2, <1>3 DEF PrefixInv, SilenceInv
<1> QED  BY <1>4, <1>5, <1>6, <1>7 DEF IInv

LEMMA ArriveKeepsIInv ==
    ASSUME IInv, NEW s \in Sends, Arrive(s)
    PROVE  IInv'
<1>1. TypeOK /\ PostedInv /\ call[s].step = "posted" /\ failures \in 0 .. MaxFailures
    BY DEF IInv, Arrive, TypeOK
<1>2. call[s] \in Activations /\ call[s].at = 0 /\ Len(call[s].to) \in Nat
    <2>1. call[s] \in Activations /\ call[s].to \in Seq(Users \cup {Blank})
        BY <1>1, UsersAssumption DEF TypeOK, Activations
    <2> QED  BY <1>1, <2>1 DEF PostedInv
<1>3. CASE \E status \in {"401", "403", "400"} : call' = [call EXCEPT ![s].step = status]
    <2>1. PICK status \in {"401", "403", "400"} : call' = [call EXCEPT ![s].step = status]
        BY <1>3
    <2>2. call' \in [Sends -> Activations]
        BY <1>1, <1>2, <2>1 DEF TypeOK, Activations, Steps
    <2>3. \A r \in Sends : r # s => call'[r] = call[r]
        BY <1>1, <2>1 DEF TypeOK
    <2>4. call'[s] = [call[s] EXCEPT !.step = status]
        BY <1>1, <2>1 DEF TypeOK
    <2>5. /\ call'[s].to = call[s].to /\ call'[s].at = call[s].at
          /\ call'[s].seq = call[s].seq /\ call'[s].warned = call[s].warned
          /\ call'[s].step = status
        BY <1>2, <2>4 DEF Activations
    <2> QED  BY <1>1, <2>2, <2>3, <2>5, EndKeepsIInv DEF Arrive
<1>4. CASE call' = [call EXCEPT ![s] = GoTo(call[s], Following(call[s].to, 0))]
    <2> DEFINE d == GoTo(call[s], Following(call[s].to, 0))
    <2>1. /\ d \in Activations
          /\ d.to = call[s].to /\ d.warned = call[s].warned
          /\ d.at \in 1 .. Len(d.to) + 1
          /\ \A j \in 1 .. d.at - 1 : d.to[j] = Blank
          /\ d.step \in {"create", "201"}
          /\ d.step = "create" => d.at \in 1 .. Len(d.to) /\ d.to[d.at] \in Users
        BY <1>1, <1>2, GoToFollowing
    <2>2. d.warned \subseteq 1 .. Len(d.to)
        BY <1>1, <2>1 DEF TypeOK
    <2>3. UNCHANGED <<log, channel, failures>>
        BY DEF Arrive
    <2> HIDE DEF d
    <2>4. d.at \in call[s].at + 1 .. Len(d.to) + 1 /\ \A j \in call[s].at + 1 .. d.at - 1 : d.to[j] = Blank
        BY <1>2, <2>1
    <2>5. call' = [call EXCEPT ![s] = d]
        BY <1>4 DEF d
    <2> QED  BY <1>1, <1>2, <2>1, <2>2, <2>3, <2>4, <2>5, LoopKeepsIInv
<1> QED  BY <1>3, <1>4 DEF Arrive

LEMMA CreateKeepsIInv ==
    ASSUME IInv, NEW s \in Sends, Create(s) \/ CreateFails(s)
    PROVE  IInv'
<1>1. TypeOK /\ call[s].step = "create" /\ failures \in 0 .. MaxFailures
    BY DEF IInv, Create, CreateFails, TypeOK
<1>2. call[s] \in Activations
    BY <1>1 DEF TypeOK
<1>3. CASE Create(s)
    <2> DEFINE n == Len(log[Recipient(s)]) + 1
               d == [call[s] EXCEPT !.seq = n, !.step = "publish"]
    <2>1. n \in Nat
        BY <1>1 DEF TypeOK, Recipient, Running
    <2>2. call' = [call EXCEPT ![s] = d]
        BY <1>1, <1>3 DEF Create, TypeOK, Recipient
    <2> HIDE DEF n
    <2>3. /\ d \in Activations
          /\ d.to = call[s].to /\ d.at = call[s].at /\ d.warned = call[s].warned
          /\ d.step = "publish" /\ d.seq = n
        BY <1>2, <2>1 DEF Activations, Steps
    <2>4. Commits(s) /\ UNCHANGED channel /\ failures' \in 0 .. MaxFailures
        BY <1>1, <1>3 DEF Create
    <2> HIDE DEF d
    <2> QED  BY <1>1, <2>2, <2>3, <2>4, CommitKeepsIInv DEF n
<1>4. CASE CreateFails(s)
    <2> DEFINE d == [call[s] EXCEPT !.step = "500"]
    <2>1. call' = [call EXCEPT ![s] = d]
        BY <1>1, <1>4 DEF CreateFails, TypeOK
    <2>2. /\ d \in Activations
          /\ d.to = call[s].to /\ d.at = call[s].at /\ d.warned = call[s].warned
          /\ d.step = "500"
        BY <1>2 DEF Activations, Steps
    <2>3. /\ Commits(s) \/ UNCHANGED log
          /\ UNCHANGED channel
          /\ failures' \in 0 .. MaxFailures
        BY <1>1, <1>4, FailuresAssumption DEF CreateFails
    <2> HIDE DEF d
    <2> QED  BY <1>1, <2>1, <2>2, <2>3, CommitKeepsIInv
<1> QED  BY <1>3, <1>4

LEMMA PublishKeepsIInv ==
    ASSUME IInv, NEW s \in Sends, Publish(s) \/ PublishFails(s)
    PROVE  IInv'
<1>1. TypeOK /\ call[s].step = "publish" /\ failures \in 0 .. MaxFailures
    BY DEF IInv, Publish, PublishFails, TypeOK
<1>2. PICK w \in {{}, {call[s].at}} :
          /\ Answered(s, w)
          /\ \/ Sent(s)
             \/ UNCHANGED channel /\ w = {call[s].at}
          /\ failures' \in 0 .. MaxFailures /\ UNCHANGED log
    <2>1. CASE Publish(s)
        BY <1>1, <2>1 DEF Publish
    <2>2. CASE PublishFails(s)
        BY <1>1, <2>2, FailuresAssumption DEF PublishFails
    <2> QED  BY <2>1, <2>2
<1>3. /\ call[s] \in Activations
      /\ call[s].at \in 1 .. Len(call[s].to) /\ Recipient(s) \in Users
      /\ call[s].warned \subseteq 1 .. Len(call[s].to) /\ call[s].seq \in Nat
    BY <1>1 DEF TypeOK, Activations, Running, Recipient
<1>4. Len(call[s].to) \in Nat
    BY <1>3, UsersAssumption DEF Activations
<1> DEFINE g == GoTo(call[s], Following(call[s].to, call[s].at))
           o == Append(g.out, [user |-> Recipient(s), seq |-> call[s].seq])
           d == [g EXCEPT !.out = o, !.warned = @ \cup w]
<1>5. /\ g \in Activations
      /\ g.to = call[s].to /\ g.warned = call[s].warned
      /\ g.at \in call[s].at + 1 .. Len(g.to) + 1
      /\ \A j \in call[s].at + 1 .. g.at - 1 : g.to[j] = Blank
      /\ g.step \in {"create", "201"}
      /\ g.step = "create" => g.at \in 1 .. Len(g.to) /\ g.to[g.at] \in Users
    <2>1. call[s].at \in 0 .. Len(call[s].to)
        BY <1>3, <1>4
    <2>2. g = GoTo(call[s], Following(call[s].to, call[s].at))
        OBVIOUS
    <2> HIDE DEF g
    <2> QED  BY <1>1, <2>1, <2>2, GoToFollowing
<1>6. call' = [call EXCEPT ![s] = d]
    BY <1>2 DEF Answered, Recipient
<1> HIDE DEF g
<1>7. o \in Seq([user : Users, seq : Nat])
    BY <1>3, <1>5 DEF Activations
<1> HIDE DEF o
<1>8. d \in Activations
    BY <1>2, <1>3, <1>4, <1>5, <1>7 DEF Activations
<1>9. /\ d.to = call[s].to /\ d.at = g.at /\ d.step = g.step
      /\ d.warned = call[s].warned \cup w
    BY <1>5 DEF Activations
<1> HIDE DEF d
<1>10. /\ call[s].warned \subseteq d.warned /\ d.warned \subseteq 1 .. Len(d.to)
    BY <1>2, <1>3, <1>9
<1>11. \/ call[s].step = "publish" /\ Sent(s)
       \/ UNCHANGED channel /\ (call[s].step = "publish" => call[s].at \in d.warned)
    BY <1>1, <1>2, <1>9
<1>12. /\ d.to = call[s].to
       /\ d.at \in call[s].at + 1 .. Len(d.to) + 1
       /\ \A j \in call[s].at + 1 .. d.at - 1 : d.to[j] = Blank
       /\ d.step \in {"create", "201"}
       /\ d.step = "create" => d.at \in 1 .. Len(d.to) /\ d.to[d.at] \in Users
    BY <1>5, <1>9
<1>13. call[s].step \in {"posted", "publish"} /\ (call[s].step = "posted" => call[s].at = 0)
    BY <1>1
<1> QED  BY <1>2, <1>6, <1>8, <1>10, <1>11, <1>12, <1>13, LoopKeepsIInv

LEMMA CrashKeepsIInv ==
    ASSUME IInv, NEW n \in Nodes, Crash(n)
    PROVE  IInv'
<1>1. call \in [Sends -> Activations]
    BY DEF IInv, TypeOK
<1>2. \A r \in Sends :
          \/ call'[r] = call[r]
          \/ (call[r].step \in Running /\ call'[r] = [call[r] EXCEPT !.step = "dead"])
    BY DEF Crash
<1>3. ASSUME NEW r \in Sends
      PROVE  /\ call'[r] \in Activations
             /\ call'[r].to = call[r].to /\ call'[r].at = call[r].at
             /\ call'[r].seq = call[r].seq /\ call'[r].warned = call[r].warned
             /\ \/ call'[r].step = call[r].step
                \/ call[r].step \in Running /\ call'[r].step = "dead"
    <2>1. CASE call'[r] = call[r]
        BY <1>1, <2>1
    <2>2. CASE call[r].step \in Running /\ call'[r] = [call[r] EXCEPT !.step = "dead"]
        <3>1. call[r] \in Activations
            BY <1>1
        <3> QED  BY <2>2, <3>1 DEF Activations, Steps
    <2> QED  BY <1>2, <2>1, <2>2
<1>4. call' \in [Sends -> Activations]
    BY <1>3 DEF Crash
<1> QED  BY <1>3, <1>4, EndKeepsIInv DEF Crash

LEMMA NextKeepsIInv ==
    ASSUME IInv, [Next]_vars
    PROVE  IInv'
<1>1. ASSUME NEW s \in Sends, Arrive(s)  PROVE IInv'
    BY <1>1, ArriveKeepsIInv
<1>2. ASSUME NEW s \in Sends, Execute(s)  PROVE IInv'
    BY <1>2, CreateKeepsIInv, PublishKeepsIInv DEF Execute
<1>3. ASSUME NEW n \in Nodes, Crash(n)  PROVE IInv'
    BY <1>3, CrashKeepsIInv
<1>4. CASE UNCHANGED vars
    <2>1. call' = call /\ log' = log /\ channel' = channel /\ failures' = failures
        BY <1>4 DEF vars
    <2>2. call' \in [Sends -> Activations]
        BY <2>1 DEF IInv, TypeOK
    <2> QED  BY <2>1, <2>2, EndKeepsIInv
<1> QED  BY <1>1, <1>2, <1>3, <1>4 DEF Next

-----------------------------------------------------------------------------
(* The answer *)

\* The entry a of an answer names the row in the logs l.
EntryOf(a, u, row, l) == a.user = u /\ a.seq \in DOMAIN l[u] /\ l[u][a.seq] = row

\* What is known of the answer when the call s is the activation c.
AnswerOf(s, c, l) ==
    /\ Len(c.out) = Cardinality(Named(c.to, c.at - 1))
    /\ \A i \in Named(c.to, c.at - 1) :
          EntryOf(c.out[Cardinality(Named(c.to, i))], c.to[i], RowOf(s, i), l)
    /\ c.step = "201" => c.at = Len(c.to) + 1

OutInv == \A s \in Sends : AnswerOf(s, call[s], log)

\* The logs keep their rows.
LogsKept ==
    \A u \in Users : \A k \in DOMAIN log[u] : k \in DOMAIN log'[u] /\ log'[u][k] = log[u][k]

\* The named recipients are finitely many, and each has its number among them.
LEMMA NamedHaveNumbers ==
    ASSUME NEW to, NEW n \in Int
    PROVE  /\ IsFiniteSet(Named(to, n)) /\ Cardinality(Named(to, n)) \in Nat
           /\ \A i \in Named(to, n) : Cardinality(Named(to, i)) \in 1 .. Cardinality(Named(to, n))
<1>1. ASSUME NEW m \in Int  PROVE IsFiniteSet(Named(to, m)) /\ Cardinality(Named(to, m)) \in Nat
    <2>1. IsFiniteSet(1 .. m) /\ Named(to, m) \in SUBSET (1 .. m)
        BY FS_Interval DEF Named
    <2> QED  BY <2>1, FS_Subset, FS_CardinalityType
<1>2. ASSUME NEW i \in Named(to, n)
      PROVE  Cardinality(Named(to, i)) \in 1 .. Cardinality(Named(to, n))
    <2>1. i \in Int /\ Named(to, i) \in SUBSET Named(to, n) /\ {i} \in SUBSET Named(to, i)
        BY DEF Named
    <2>2. /\ Cardinality(Named(to, i)) <= Cardinality(Named(to, n))
          /\ Cardinality({i}) <= Cardinality(Named(to, i))
        BY <1>1, <2>1, FS_Subset
    <2>3. Cardinality({i}) = 1
        BY FS_Singleton
    <2>4. Cardinality(Named(to, i)) \in Nat /\ Cardinality(Named(to, n)) \in Nat
        BY <1>1, <2>1
    <2> QED  BY <2>2, <2>3, <2>4
<1> QED  BY <1>1, <1>2

\* A recipient that is not blank is one more, the blank ones behind it none.
LEMMA NamedSkipBlank ==
    ASSUME NEW to, NEW i \in Nat, NEW n \in Nat, i < n, i >= 1, to[i] # Blank,
           \A j \in i + 1 .. n - 1 : to[j] = Blank
    PROVE  /\ Named(to, n - 1) = Named(to, i - 1) \cup {i} /\ Named(to, n - 1) = Named(to, i)
           /\ Cardinality(Named(to, n - 1)) = Cardinality(Named(to, i - 1)) + 1
<1>1. Named(to, n - 1) = Named(to, i - 1) \cup {i} /\ i \notin Named(to, i - 1)
    BY DEF Named
<1>2. Named(to, n - 1) = Named(to, i)
    BY DEF Named
<1>3. IsFiniteSet(Named(to, i - 1))
    <2>1. i - 1 \in Int
        OBVIOUS
    <2> QED  BY <2>1, NamedHaveNumbers
<1> QED  BY <1>1, <1>2, <1>3, FS_AddElement

\* The types of what a call has to say.
LEMMA AnswerTypes ==
    ASSUME TypeOK, NEW s \in Sends
    PROVE  /\ call[s].to \in Seq(Users \cup {Blank}) /\ Len(call[s].to) \in Nat
           /\ call[s].out \in Seq([user : Users, seq : Nat]) /\ Len(call[s].out) \in Nat
           /\ call[s].at \in Nat /\ call[s].at <= Len(call[s].to) + 1
           /\ \A i \in Named(call[s].to, call[s].at - 1) : call[s].to[i] \in Users
<1>1. call[s] \in Activations
    BY DEF TypeOK
<1>2. /\ call[s].to \in Seq(Users \cup {Blank}) /\ call[s].at \in Nat
      /\ call[s].out \in Seq([user : Users, seq : Nat])
    BY <1>1, UsersAssumption DEF Activations
<1>3. Len(call[s].to) \in Nat /\ Len(call[s].out) \in Nat
    BY <1>2
<1>4. call[s].at <= Len(call[s].to) + 1
    BY <1>2, <1>3 DEF TypeOK
<1>5. ASSUME NEW i \in Named(call[s].to, call[s].at - 1)  PROVE call[s].to[i] \in Users
    <2>1. i \in 1 .. Len(call[s].to) /\ call[s].to[i] # Blank
        BY <1>2, <1>3, <1>4 DEF Named
    <2> QED  BY <1>2, <2>1
<1> QED  BY <1>2, <1>3, <1>4, <1>5

\* Entries that are true stay true.
LEMMA EntryStays ==
    ASSUME LogsKept, NEW u \in Users, NEW a, NEW row, EntryOf(a, u, row, log)
    PROVE  EntryOf(a, u, row, log')
BY DEF EntryOf, LogsKept

\* A call that goes nowhere keeps its answer.
LEMMA AnswerKept ==
    ASSUME TypeOK, LogsKept, NEW s \in Sends, AnswerOf(s, call[s], log),
           NEW d, d.to = call[s].to, d.at = call[s].at, d.out = call[s].out,
           d.step = "201" => call[s].step = "201"
    PROVE  AnswerOf(s, d, log')
<1>1. ASSUME NEW i \in Named(call[s].to, call[s].at - 1)
      PROVE  EntryOf(call[s].out[Cardinality(Named(call[s].to, i))], call[s].to[i], RowOf(s, i), log')
    <2>1. call[s].to[i] \in Users
        BY AnswerTypes
    <2> QED  BY <2>1, EntryStays DEF AnswerOf
<1> QED  BY <1>1 DEF AnswerOf

\* A call that goes on to its first recipient has answered nothing so far.
LEMMA AnswerBegins ==
    ASSUME TypeOK, NEW s \in Sends, AnswerOf(s, call[s], log), call[s].at = 0,
           NEW d, d.to = call[s].to, d.out = call[s].out, d.at \in 1 .. Len(d.to) + 1,
           \A j \in 1 .. d.at - 1 : d.to[j] = Blank,
           d.step = "201" => d.at = Len(d.to) + 1
    PROVE  AnswerOf(s, d, log)
<1>1. Named(d.to, d.at - 1) = {} /\ Named(call[s].to, call[s].at - 1) = {}
    BY DEF Named
<1> QED  BY <1>1 DEF AnswerOf

\* The recipient a call is at joins its answer.
LEMMA AnswerGrows ==
    ASSUME TypeOK, SeqInv, NEW s \in Sends, AnswerOf(s, call[s], log), call[s].step = "publish",
           NEW d, d.to = call[s].to,
           d.out = Append(call[s].out, [user |-> Recipient(s), seq |-> call[s].seq]),
           d.at \in call[s].at + 1 .. Len(d.to) + 1,
           \A j \in call[s].at + 1 .. d.at - 1 : d.to[j] = Blank,
           d.step = "201" => d.at = Len(d.to) + 1
    PROVE  AnswerOf(s, d, log)
<1> DEFINE to == call[s].to
           at == call[s].at
           out == call[s].out
           e == [user |-> Recipient(s), seq |-> call[s].seq]
<1>1. /\ at \in 1 .. Len(to) /\ Len(to) \in Nat /\ at \in Nat /\ at >= 1
      /\ Recipient(s) \in Users /\ to[at] = Recipient(s) /\ to[at] # Blank
      /\ out \in Seq([user : Users, seq : Nat]) /\ call[s].seq \in Nat
    <2>1. /\ to \in Seq(Users \cup {Blank}) /\ Len(to) \in Nat /\ at \in Nat
          /\ out \in Seq([user : Users, seq : Nat])
        BY AnswerTypes
    <2>2. at \in 1 .. Len(to) /\ Recipient(s) \in Users /\ to[at] = Recipient(s)
        BY DEF TypeOK, Running, Recipient
    <2>3. call[s].seq \in Nat
        <3>1. call[s] \in Activations
            BY DEF TypeOK
        <3> QED  BY <3>1 DEF Activations
    <2> HIDE DEF to, at, out
    <2> QED  BY <2>1, <2>2, <2>3, UsersAssumption
<1>2. /\ d.at \in Nat /\ at < d.at /\ d.to = to /\ d.out = Append(out, e)
      /\ \A j \in at + 1 .. d.at - 1 : to[j] = Blank
    BY <1>1
<1>3. EntryOf(e, Recipient(s), RowOf(s, at), log)
    <2>1. log[Recipient(s)] \in Seq(Rows)
        BY <1>1 DEF TypeOK
    <2> QED  BY <2>1 DEF SeqInv, EntryOf
<1>4. e \in [user : Users, seq : Nat]
    BY <1>1
<1>5. /\ Len(out) = Cardinality(Named(to, at - 1))
      /\ \A i \in Named(to, at - 1) :
            EntryOf(out[Cardinality(Named(to, i))], to[i], RowOf(s, i), log)
    BY DEF AnswerOf
<1> HIDE DEF to, at, out, e
<1>6. /\ Named(to, d.at - 1) = Named(to, at - 1) \cup {at} /\ Named(to, d.at - 1) = Named(to, at)
      /\ Cardinality(Named(to, d.at - 1)) = Cardinality(Named(to, at - 1)) + 1
    <2>1. PICK n \in Nat : n = d.at
        BY <1>2
    <2>2. at < n /\ \A j \in at + 1 .. n - 1 : to[j] = Blank
        BY <1>2, <2>1
    <2>3. PICK m \in Nat : m = at /\ m >= 1 /\ to[m] # Blank
        BY <1>1
    <2>4. m < n /\ \A j \in m + 1 .. n - 1 : to[j] = Blank
        BY <2>2, <2>3
    <2>5. /\ Named(to, n - 1) = Named(to, m - 1) \cup {m} /\ Named(to, n - 1) = Named(to, m)
          /\ Cardinality(Named(to, n - 1)) = Cardinality(Named(to, m - 1)) + 1
        BY <2>3, <2>4, NamedSkipBlank
    <2> QED  BY <2>1, <2>3, <2>5
<1>7. /\ Len(out) \in Nat /\ Len(d.out) = Len(out) + 1 /\ d.out[Len(out) + 1] = e
      /\ \A k \in 1 .. Len(out) : d.out[k] = out[k]
    <2>1. PICK S : out \in Seq(S) /\ e \in S
        BY <1>1, <1>4
    <2>2. /\ Len(out) \in Nat /\ Len(Append(out, e)) = Len(out) + 1
          /\ \A k \in 1 .. Len(out) : Append(out, e)[k] = out[k]
          /\ Append(out, e)[Len(out) + 1] = e
        BY <2>1, AppendAtEnd
    <2> QED  BY <1>2, <2>2
<1>8. ASSUME NEW i \in Named(to, d.at - 1)
      PROVE  EntryOf(d.out[Cardinality(Named(to, i))], to[i], RowOf(s, i), log)
    <2>1. CASE i = at
        <3>1. d.out[Cardinality(Named(to, i))] = e
            BY <1>5, <1>6, <1>7, <2>1
        <3> QED  BY <1>1, <1>3, <2>1, <3>1
    <2>2. CASE i \in Named(to, at - 1)
        <3>1. at - 1 \in Int
            BY <1>1
        <3>2. Cardinality(Named(to, i)) \in 1 .. Len(out)
            BY <1>5, <2>2, <3>1, NamedHaveNumbers
        <3>3. d.out[Cardinality(Named(to, i))] = out[Cardinality(Named(to, i))]
            BY <1>7, <3>2
        <3> QED  BY <1>5, <2>2, <3>3
    <2> QED  BY <1>6, <2>1, <2>2
<1>9. Len(d.out) = Cardinality(Named(to, d.at - 1))
    BY <1>5, <1>6, <1>7
<1>10. \A i \in Named(d.to, d.at - 1) :
          EntryOf(d.out[Cardinality(Named(d.to, i))], d.to[i], RowOf(s, i), log)
    BY <1>2, <1>8
<1> QED  BY <1>2, <1>9, <1>10 DEF AnswerOf

\* No step of a call takes a row away.
LEMMA LogsAreKept ==
    ASSUME IInv, [Next]_vars  PROVE LogsKept
<1>1. TypeOK /\ \A u \in Users : DOMAIN log[u] = 1 .. Len(log[u]) /\ Len(log[u]) \in Nat
    BY DEF IInv, TypeOK
<1>2. CASE log' = log
    BY <1>2 DEF LogsKept
<1>3. ASSUME NEW s \in Sends, call[s].step = "create", Commits(s)  PROVE LogsKept
    <2>1. /\ log' \in [Users -> Seq(Rows)] /\ Recipient(s) \in Users
          /\ \A u \in Users : u # Recipient(s) => log'[u] = log[u]
          /\ Len(log'[Recipient(s)]) = Len(log[Recipient(s)]) + 1
          /\ \A k \in 1 .. Len(log[Recipient(s)]) : log'[Recipient(s)][k] = log[Recipient(s)][k]
        BY <1>1, <1>3, CommitsAppend DEF Running
    <2>2. \A u \in Users : DOMAIN log'[u] = 1 .. Len(log'[u])
        BY <2>1
    <2> QED  BY <1>1, <2>1, <2>2 DEF LogsKept
<1>4. \/ log' = log
      \/ \E s \in Sends : call[s].step = "create" /\ Commits(s)
    BY DEF Next, Execute, Arrive, Create, CreateFails, Publish, PublishFails, Crash, vars
<1> QED  BY <1>2, <1>3, <1>4

\* A call that sees no step but its own keeps its answer, and so does one that
\* ends, fails or commits; the loop alone takes an answer further.
LEMMA AnswerStep ==
    ASSUME IInv, OutInv, [Next]_vars, NEW s \in Sends
    PROVE  AnswerOf(s, call'[s], log')
<1>1. TypeOK /\ SeqInv /\ PostedInv /\ LogsKept /\ AnswerOf(s, call[s], log)
    BY LogsAreKept DEF IInv, OutInv
<1>2. call[s] \in Activations /\ call \in [Sends -> Activations] /\ Len(call[s].to) \in Nat
    BY <1>1, AnswerTypes DEF TypeOK
<1>3. CASE call'[s] = call[s]
    BY <1>1, <1>3, AnswerKept
<1>4. ASSUME NEW e \in Steps \ {"201"}, call'[s] = [call[s] EXCEPT !.step = e]
      PROVE  AnswerOf(s, call'[s], log')
    <2>1. /\ call'[s].to = call[s].to /\ call'[s].at = call[s].at
          /\ call'[s].out = call[s].out /\ call'[s].step = e
        BY <1>2, <1>4 DEF Activations
    <2> QED  BY <1>1, <1>4, <2>1, AnswerKept
<1>5. ASSUME NEW n \in Nat, call'[s] = [call[s] EXCEPT !.seq = n, !.step = "publish"]
      PROVE  AnswerOf(s, call'[s], log')
    <2>1. /\ call'[s].to = call[s].to /\ call'[s].at = call[s].at
          /\ call'[s].out = call[s].out /\ call'[s].step = "publish"
        BY <1>2, <1>5 DEF Activations
    <2> QED  BY <1>1, <2>1, AnswerKept
<1>6. CASE Arrive(s) /\ call' = [call EXCEPT ![s] = GoTo(call[s], Following(call[s].to, 0))]
    <2>1. call[s].at = 0 /\ log' = log
        BY <1>1, <1>6 DEF PostedInv, Arrive
    <2>2. call'[s] = GoTo(call[s], Following(call[s].to, 0)) /\ 0 \in 0 .. Len(call[s].to)
        BY <1>2, <1>6
    <2>3. /\ call'[s].to = call[s].to /\ call'[s].out = call[s].out
          /\ call'[s].at \in 1 .. Len(call'[s].to) + 1
          /\ \A j \in 1 .. call'[s].at - 1 : call'[s].to[j] = Blank
        BY <1>1, <2>2, GoToFollowing
    <2>4. call'[s].step = "201" => call'[s].at = Len(call'[s].to) + 1
        BY <1>1, <1>2, <2>2, <2>3, GoToEnd
    <2> QED  BY <1>1, <2>1, <2>3, <2>4, AnswerBegins
<1>7. ASSUME Publish(s) \/ PublishFails(s)  PROVE AnswerOf(s, call'[s], log')
    <2>1. PICK w : Answered(s, w)
        BY <1>7 DEF Publish, PublishFails
    <2>2. log' = log /\ call[s].step = "publish"
        BY <1>7 DEF Publish, PublishFails
    <2> DEFINE g == GoTo(call[s], Following(call[s].to, call[s].at))
               o == Append(g.out, [user |-> Recipient(s), seq |-> call[s].seq])
    <2>3. call'[s] = [g EXCEPT !.out = o, !.warned = @ \cup w]
        BY <1>2, <2>1 DEF Answered, Recipient
    <2>4. call[s].at \in 0 .. Len(call[s].to)
        BY <1>1, <1>2, <2>2 DEF TypeOK, Running
    <2>5. /\ g \in Activations /\ g.to = call[s].to /\ g.out = call[s].out
          /\ g.at \in call[s].at + 1 .. Len(g.to) + 1
          /\ \A j \in call[s].at + 1 .. g.at - 1 : g.to[j] = Blank
          /\ g.step = "201" => g.at = Len(g.to) + 1
        <3>1. g = GoTo(call[s], Following(call[s].to, call[s].at))
            OBVIOUS
        <3> HIDE DEF g
        <3>2. /\ g \in Activations /\ g.to = call[s].to /\ g.out = call[s].out
              /\ g.at \in call[s].at + 1 .. Len(g.to) + 1
              /\ \A j \in call[s].at + 1 .. g.at - 1 : g.to[j] = Blank
            BY <1>1, <2>4, <3>1, GoToFollowing
        <3>3. g.step = "201" => g.at = Len(g.to) + 1
            BY <1>1, <2>4, <3>1, GoToEnd
        <3> QED  BY <3>2, <3>3
    <2> HIDE DEF g
    <2>6. /\ call'[s].to = g.to /\ call'[s].at = g.at /\ call'[s].step = g.step
          /\ call'[s].out = o
        BY <2>3, <2>5 DEF Activations
    <2> QED  BY <1>1, <2>2, <2>5, <2>6, AnswerGrows
<1>8. ASSUME NEW r \in Sends, r # s, Arrive(r) \/ Execute(r)  PROVE call'[s] = call[s]
    BY <1>2, <1>8 DEF Arrive, Execute, Create, CreateFails, Publish, PublishFails, Answered
<1>9. ASSUME Arrive(s)  PROVE AnswerOf(s, call'[s], log')
    <2>1. ASSUME NEW e \in {"401", "403", "400"}, call' = [call EXCEPT ![s].step = e]
          PROVE  AnswerOf(s, call'[s], log')
        BY <1>2, <1>4, <2>1 DEF Steps
    <2> QED  BY <1>6, <1>9, <2>1 DEF Arrive
<1>10. ASSUME Create(s)  PROVE AnswerOf(s, call'[s], log')
    <2>1. Len(log[call[s].to[call[s].at]]) + 1 \in Nat
        BY <1>1, <1>10 DEF Create, TypeOK, Running
    <2> QED  BY <1>2, <1>5, <1>10, <2>1 DEF Create
<1>11. ASSUME CreateFails(s)  PROVE AnswerOf(s, call'[s], log')
    BY <1>2, <1>4, <1>11 DEF CreateFails, Steps
<1>12. ASSUME NEW n \in Nodes, Crash(n)  PROVE AnswerOf(s, call'[s], log')
    BY <1>3, <1>4, <1>12 DEF Crash, Steps
<1>13. CASE UNCHANGED vars
    BY <1>3, <1>13 DEF vars
<1> QED  BY <1>7, <1>8, <1>3, <1>9, <1>10, <1>11, <1>12, <1>13 DEF Next, Execute

\* Nobody is named before a call begins.
LEMMA InitOutInv == Init => OutInv
<1> SUFFICES ASSUME Init, NEW s \in Sends  PROVE AnswerOf(s, call[s], log)
    BY DEF OutInv
<1>1. call[s].at = 0 /\ call[s].out = << >> /\ call[s].step = "posted"
    BY DEF Init
<1>2. Named(call[s].to, call[s].at - 1) = {}
    BY <1>1 DEF Named
<1> QED  BY <1>1, <1>2, FS_EmptySet DEF AnswerOf

LEMMA NextOutInv == IInv /\ OutInv /\ [Next]_vars => OutInv'
BY AnswerStep DEF OutInv

-----------------------------------------------------------------------------
(* What holds of every behaviour *)

\* The inductive invariant holds of every behaviour.
THEOREM Invariance == Spec => []IInv
<1>1. Init => IInv
    BY InitIInv
<1>2. IInv /\ [Next]_vars => IInv'
    BY NextKeepsIInv
<1> QED  BY <1>1, <1>2, PTL DEF Spec

\* Activations, rows and frames are well formed and no row is a blank user's.
THEOREM TypeCorrect == Spec => []TypeOK
<1>1. IInv => TypeOK
    BY DEF IInv
<1> QED  BY <1>1, Invariance, PTL

\* Whatever calls overlap, fail or die, a frame on a channel carries the seq its
\* row has in the store, is never ahead of the commit and is sent once.
THEOREM FramesAlwaysRows == Spec => []FramesAreRows
<1>1. IInv => FramesAreRows
    <2> SUFFICES ASSUME IInv, NEW u \in Users  PROVE
            \A k \in DOMAIN channel[u] :
                /\ channel[u][k].seq \in DOMAIN log[u]
                /\ log[u][channel[u][k].seq] = channel[u][k].row
                /\ \A l \in DOMAIN channel[u] : channel[u][l].row = channel[u][k].row => l = k
        BY DEF FramesAreRows
    <2>1. DOMAIN channel[u] = 1 .. Len(channel[u]) /\ DOMAIN log[u] = 1 .. Len(log[u])
        BY DEF IInv, TypeOK
    <2> QED  BY <2>1 DEF IInv, FrameInv
<1> QED  BY <1>1, Invariance, PTL

\* Every row whose recipient is never told live is accounted for: by a warning
\* in the log, or as the last row of a call without a 201.
THEOREM SilenceAlwaysKnown == Spec => []SilenceIsKnown
<1>1. IInv => SilenceIsKnown
    BY DEF IInv, SilenceInv, SilenceIsKnown, Ended, Running
<1> QED  BY <1>1, Invariance, PTL

\* However a call ends, its rows are those of the first recipients of the list.
THEOREM RowsAlwaysPrefix == Spec => []RowsArePrefix
<1>1. ASSUME IInv  PROVE RowsArePrefix
    <2> SUFFICES ASSUME NEW s \in Sends, NEW i \in Written(s), NEW j \in 1 .. i,
                        call[s].to[j] # Blank
                 PROVE  j \in Written(s)
        BY DEF RowsArePrefix
    <2>1. i \in 1 .. Len(call[s].to) /\ i <= call[s].at
        BY <1>1, WrittenForRecipient DEF IInv
    <2>2. call[s].at \in Nat /\ Len(call[s].to) \in Nat
        BY <1>1, UsersAssumption DEF IInv, TypeOK, Activations
    <2>3. CASE j < i
        BY <1>1, <2>1, <2>2, <2>3 DEF IInv, PrefixInv
    <2> QED  BY <2>1, <2>2, <2>3
<1> QED  BY <1>1, Invariance, PTL

\* The answers of all calls are right, in every behaviour.
THEOREM OutInvariance == Spec => []OutInv
<1> QED  BY InitOutInv, NextOutInv, Invariance, PTL DEF Spec

\* A 201 names every recipient that is not blank, in the order of the request,
\* with the seq of the row written for it (send_notification.go), whatever other
\* calls do; and the rows of a call are those of the first recipients of its list.
THEOREM AnswersAlwaysTrue == Spec => []AnswersAreTrue
<1>1. ASSUME IInv, OutInv  PROVE CreatedIsComplete
    <2> SUFFICES ASSUME NEW s \in Sends, call[s].step = "201"
                 PROVE  LET to == call[s].to
                            out == call[s].out
                        IN  /\ Len(out) = Cardinality(Named(to, Len(to)))
                            /\ \A i \in Named(to, Len(to)) :
                                  IsAnswer(out[Cardinality(Named(to, i))], s, i)
        BY DEF CreatedIsComplete
    <2>1. call[s].at - 1 = Len(call[s].to) /\ AnswerOf(s, call[s], log)
        <3>1. call[s].at \in Nat /\ Len(call[s].to) \in Nat
            BY <1>1, AnswerTypes DEF IInv
        <3> QED  BY <1>1, <3>1 DEF OutInv, AnswerOf
    <2> QED  BY <2>1 DEF AnswerOf, EntryOf, IsAnswer
<1>2. CreatedIsComplete /\ RowsArePrefix => AnswersAreTrue
    BY DEF AnswersAreTrue
<1> QED  BY <1>1, <1>2, Invariance, OutInvariance, RowsAlwaysPrefix, PTL

-----------------------------------------------------------------------------
(* The refinement *)

\* A commit of a call is an append of a notification no log has.
LEMMA CommitIsAppend ==
    ASSUME IInv, NEW s \in Sends, call[s].step = "create", Commits(s)
    PROVE  \E u \in Users : \E id \in [send : Sends, at : UNION {DOMAIN to : to \in Lists}] :
              Log!AppendEntry(u, id)
<1> DEFINE u == Recipient(s)
           row == RowOf(s, call[s].at)
<1>1. /\ u \in Users /\ call[s].to \in Lists
      /\ call[s].at \in 1 .. Len(call[s].to)
      /\ call[s].to \in Seq(Users \cup {Blank})
    BY UsersAssumption DEF IInv, TypeOK, Activations, Recipient, Running
<1>2. row \in [send : Sends, at : UNION {DOMAIN to : to \in Lists}]
    <2>1. call[s].at \in DOMAIN call[s].to
        BY <1>1
    <2>2. call[s].at \in UNION {DOMAIN to : to \in Lists}
        BY <1>1, <2>1
    <2> QED  BY <2>2 DEF RowOf
<1>3. \A v \in Users : row \notin Log!Entries(v)
    <2> SUFFICES ASSUME NEW v \in Users, NEW k \in 1 .. Len(log[v]), log[v][k] = row
                 PROVE  FALSE
        BY DEF Log!Entries
    <2>1. row.send = s /\ row.at = call[s].at
        BY DEF RowOf
    <2> HIDE DEF row
    <2> QED  BY <2>1 DEF IInv, LogInv
<1>4. log' = [log EXCEPT ![u] = Append(@, row)]
    BY DEF Commits, Recipient
<1> HIDE DEF u, row
<1>5. Log!AppendEntry(u, row)
    BY <1>3, <1>4 DEF Log!AppendEntry
<1> QED  BY <1>1, <1>2, <1>5

\* Whatever calls overlap, fail or die, the store behind them sees appends of
\* notifications that no log has, and nothing else.
THEOREM AlwaysUsesLog == Spec => UsesLog
<1>1. Init => Log!Init
    BY DEF Init, Log!Init
<1>2. ASSUME IInv, [Next]_vars  PROVE [Log!Next]_(Log!vars)
    <2>1. ASSUME UNCHANGED log  PROVE UNCHANGED Log!vars
        BY <2>1 DEF Log!vars
    <2>2. ASSUME NEW s \in Sends, call[s].step = "create", Commits(s)  PROVE Log!Next
        BY <1>2, <2>2, CommitIsAppend DEF Log!Next
    <2>3. ASSUME NEW s \in Sends, Arrive(s) \/ Publish(s) \/ PublishFails(s)  PROVE UNCHANGED log
        BY <2>3 DEF Arrive, Publish, PublishFails
    <2>4. ASSUME NEW s \in Sends, Create(s) \/ CreateFails(s)
          PROVE  call[s].step = "create" /\ (Commits(s) \/ UNCHANGED log)
        BY <2>4 DEF Create, CreateFails
    <2>5. ASSUME NEW n \in Nodes, Crash(n)  PROVE UNCHANGED log
        BY <2>5 DEF Crash
    <2>6. ASSUME UNCHANGED vars  PROVE UNCHANGED log
        BY <2>6 DEF vars
    <2> QED  BY <1>2, <2>1, <2>2, <2>3, <2>4, <2>5, <2>6 DEF Next, Execute
<1> QED  BY <1>1, <1>2, Invariance, PTL DEF Spec, UsesLog, Log!Spec
=============================================================================
