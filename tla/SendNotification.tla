--------------------------- MODULE SendNotification ---------------------------
(***************************************************************************)
(* POST /v1/admin/notifications: SendNotification.Execute persists and     *)
(* publishes recipient by recipient, in calls that overlap on several      *)
(* nodes.  The store is the log of NotificationLog (NotificationRepo       *)
(* implements it), a channel is what Redis has taken for a user.  A call   *)
(* that fails or dies keeps what it has sent; an administrator who tries   *)
(* again makes another call.                                               *)
(***************************************************************************)
EXTENDS Integers, Sequences, FiniteSets, SequencesExt, FiniteSetsExt

CONSTANTS
    Users,
    Blank,          \* a recipient that is empty once trimmed
    Lists,          \* the user_ids of a request
    Sends,          \* the requests, each of which is made once
    Nodes,          \* the servers that may receive a request
    MaxFailures     \* bound: calls of the store and of Redis that fail

ASSUME UsersAssumption == Blank \notin Users /\ Lists \subseteq Seq(Users \cup {Blank})
ASSUME FailuresAssumption == MaxFailures \in Nat

VARIABLES
    call,           \* the activation of Execute for each request
    log,            \* per user, the committed rows; the position is the seq
    channel,        \* per user, the frames Redis has taken, in order
    failures

vars == <<call, log, channel, failures>>

Steps == {"posted", "create", "publish", "201", "400", "401", "403", "500", "dead"}
Running == {"create", "publish"}

\* The next recipient behind position i that is not blank; continue skips the rest.
Following(to, i) == Min({j \in i + 1 .. Len(to) : to[j] # Blank} \cup {Len(to) + 1})

\* The row a call writes for its recipient at position i.
RowOf(s, i) == [send |-> s, at |-> i]

Init ==
    /\ call \in [Sends -> [node : Nodes, to : Lists, step : {"posted"}, at : {0},
                           seq : {0}, out : {<< >>}, warned : {{}}]]
    /\ log = [u \in Users |-> << >>]
    /\ channel = [u \in Users |-> << >>]
    /\ failures = 0

-----------------------------------------------------------------------------
\* Mutated: the end of the list is off by one.
GoToBeyond(c, i) == [c EXCEPT !.at = i, !.step = IF i <= Len(c.to) + 1 THEN "create" ELSE "201"]

\* The call goes on to the recipient at position i, or has served them all.
GoTo(c, i) == [c EXCEPT !.at = i, !.step = IF i <= Len(c.to) THEN "create" ELSE "201"]

\* RequireAuth, RequireAdmin and the checks of Execute may refuse; a list of
\* blanks is not refused and has nothing to do.
Arrive(s) ==
    LET c == call[s]
    IN  /\ c.step = "posted"
        /\ \/ \E status \in {"401", "403", "400"} : call' = [call EXCEPT ![s].step = status]
           \/ c.to # << >> /\ call' = [call EXCEPT ![s] = GoTo(c, Following(c.to, 0))]
        /\ UNCHANGED <<log, channel, failures>>

Commits(s) ==
    LET u == call[s].to[call[s].at]
    IN  log' = [log EXCEPT ![u] = Append(@, RowOf(s, call[s].at))]

\* repo.Create succeeds and hands out the next seq of the recipient.
Create(s) ==
    LET c == call[s]
    IN  /\ c.step = "create"
        /\ Commits(s)
        /\ call' = [call EXCEPT ![s].seq = Len(log[c.to[c.at]]) + 1, ![s].step = "publish"]
        /\ UNCHANGED <<channel, failures>>

\* Mutated: a Create without an answer is repeated.
CreateRetries(s) ==
    /\ call[s].step = "create"
    /\ failures < MaxFailures
    /\ failures' = failures + 1
    /\ Commits(s) \/ UNCHANGED log
    /\ UNCHANGED <<call, channel>>

\* An error of repo.Create ends the call; when the answer of the COMMIT was lost
\* the row is there all the same.
CreateFails(s) ==
    /\ call[s].step = "create"
    /\ failures < MaxFailures
    /\ failures' = failures + 1
    /\ Commits(s) \/ UNCHANGED log
    /\ call' = [call EXCEPT ![s].step = "500"]
    /\ UNCHANGED channel

\* The frame of the row reaches Redis.
Sent(s) ==
    LET c == call[s]
    IN  channel' = [channel EXCEPT ![c.to[c.at]] =
                        Append(@, [seq |-> c.seq, row |-> RowOf(s, c.at)])]

\* The recipient is added to the answer and the loop goes on.
Answered(s, warned) ==
    LET c == call[s]
        next == GoTo(c, Following(c.to, c.at))
    IN  call' = [call EXCEPT ![s] =
                    [next EXCEPT !.out = Append(@, [user |-> c.to[c.at], seq |-> c.seq]),
                                 !.warned = @ \cup warned]]

\* Mutated: the publish is left to somebody else.
PublishDrops(s) ==
    /\ call[s].step = "publish"
    /\ Answered(s, {})
    /\ UNCHANGED <<log, channel, failures>>

Publish(s) ==
    /\ call[s].step = "publish"
    /\ Sent(s)
    /\ Answered(s, {})
    /\ UNCHANGED <<log, failures>>

\* Mutated: the recipient is left out of the answer.
PublishFailsSkips(s) ==
    /\ call[s].step = "publish"
    /\ failures < MaxFailures
    /\ failures' = failures + 1
    /\ call' = [call EXCEPT ![s] = GoTo(call[s], Following(call[s].to, call[s].at))]
    /\ UNCHANGED <<log, channel>>

\* Mutated: a publish without an answer is repeated.
PublishRetries(s) ==
    /\ call[s].step = "publish"
    /\ failures < MaxFailures
    /\ failures' = failures + 1
    /\ Sent(s) \/ UNCHANGED channel
    /\ UNCHANGED <<call, log>>

\* A failed publish is logged and not repeated; Redis may have taken the frame.
PublishFails(s) ==
    /\ call[s].step = "publish"
    /\ failures < MaxFailures
    /\ failures' = failures + 1
    /\ Sent(s) \/ UNCHANGED channel
    /\ Answered(s, {call[s].at})
    /\ UNCHANGED log

\* A server stops: its calls end where they are, and nobody resumes them.
Crash(n) ==
    /\ \E s \in Sends : call[s].node = n /\ call[s].step \in Running
    /\ call' = [s \in Sends |-> IF call[s].node = n /\ call[s].step \in Running
                                THEN [call[s] EXCEPT !.step = "dead"] ELSE call[s]]
    /\ UNCHANGED <<log, channel, failures>>

-----------------------------------------------------------------------------
Execute(s) == Create(s) \/ CreateFails(s) \/ Publish(s) \/ PublishFails(s)

Next ==
    \/ \E s \in Sends : Arrive(s) \/ Execute(s)
    \/ \E n \in Nodes : Crash(n)

Spec == Init /\ [][Next]_vars

-----------------------------------------------------------------------------
(* Properties *)

Ended(s) == call[s].step \notin Running \cup {"posted"}

\* The rows a request has left in the store.
Written(s) == {i \in 1 .. Len(call[s].to) :
                  \E u \in Users : Contains(log[u], RowOf(s, i))}

\* The rows whose frame Redis has taken.
Told(s) == {i \in Written(s) :
               \E k \in DOMAIN channel[call[s].to[i]] :
                   channel[call[s].to[i]][k].row = RowOf(s, i)}

Rows == [send : Sends, at : Nat]
Frames == [seq : Nat, row : Rows]
Activations == [node : Nodes, to : Lists, step : Steps, at : Nat, seq : Nat,
                out : Seq([user : Users, seq : Nat]), warned : SUBSET Nat]

\* Rows, frames and activations are well formed; a call that runs is at a
\* recipient, and a blank one is never written to.
TypeOK ==
    /\ call \in [Sends -> Activations]
    /\ \A s \in Sends :
          /\ call[s].at \in 0 .. Len(call[s].to) + 1
          /\ call[s].warned \subseteq 1 .. Len(call[s].to)
          /\ call[s].step \in Running =>
                call[s].at \in 1 .. Len(call[s].to) /\ call[s].to[call[s].at] \in Users
    /\ log \in [Users -> Seq(Rows)]
    /\ channel \in [Users -> Seq(Frames)]
    /\ failures \in 0 .. MaxFailures

\* The positions up to i of recipients that are not blank.
Named(to, i) == {j \in 1 .. i : to[j] # Blank}

\* The entry a of an answer is true of the recipient at position i.
IsAnswer(a, s, i) ==
    LET u == call[s].to[i]
    IN  a.user = u /\ a.seq \in DOMAIN log[u] /\ log[u][a.seq] = RowOf(s, i)

\* A 201 answer is complete: it names every recipient that is not blank, in the
\* order of the request, each with the seq of the row that was written for that
\* place in the list, whatever other calls write to the same users meanwhile.
CreatedIsComplete ==
    \A s \in Sends : call[s].step = "201" =>
        LET to == call[s].to
            out == call[s].out
        IN  /\ Len(out) = Cardinality(Named(to, Len(to)))
            /\ \A i \in Named(to, Len(to)) : IsAnswer(out[Cardinality(Named(to, i))], s, i)

\* However a call ends, its rows are those of the first recipients of the list
\* and nobody behind a failure has one: the list can be taken up where it ended.
RowsArePrefix ==
    \A s \in Sends :
        \A i \in Written(s) : \A j \in 1 .. i : call[s].to[j] # Blank => j \in Written(s)

\* What an administrator who has an answer, or none, knows of the store is true.
AnswersAreTrue == CreatedIsComplete /\ RowsArePrefix

\* A frame carries the seq its row has in the store, is never ahead of the
\* commit and is sent once: a live frame and the replay of the same row agree.
FramesAreRows ==
    \A u \in Users : \A k \in DOMAIN channel[u] :
        /\ channel[u][k].seq \in DOMAIN log[u]
        /\ log[u][channel[u][k].seq] = channel[u][k].row
        /\ \A l \in DOMAIN channel[u] : channel[u][l].row = channel[u][k].row => l = k

\* A row whose recipient is never told live is a failed publish that was logged,
\* or the last row of a call that was not answered with 201.
SilenceIsKnown ==
    \A s \in Sends : Ended(s) =>
        \A i \in Written(s) \ Told(s) :
            \/ i \in call[s].warned
            \/ call[s].step \in {"500", "dead"} /\ i = call[s].at

-----------------------------------------------------------------------------
(* The store behind Execute is the one NotificationLog promises: every commit  *)
(* is an append of a notification that no log holds yet.                       *)

Log == INSTANCE NotificationLog
    WITH Ids <- [send : Sends, at : UNION {DOMAIN to : to \in Lists}], Claims <- {},
         acked <- [u \in Users |-> 0], read <- {}, cursor <- [u \in Users |-> 0],
         received <- [u \in Users |-> {}]

\* Every commit of a call is an append to the log of its recipient of a
\* notification no log has, and nothing else changes the store.
UsesLog == Log!Spec
=============================================================================
