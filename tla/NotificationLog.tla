---------------------------- MODULE NotificationLog ----------------------------
(***************************************************************************)
(* What the notification store promises to the rest of the hub, and        *)
(* nothing about how PostgreSQL does it: every user owns an append-only    *)
(* log whose positions are the sequence numbers 1, 2, 3, ...; a follower   *)
(* that keeps asking for what lies behind its cursor receives the log in   *)
(* order and skips nothing; the acknowledged position only moves forward.  *)
(* It is what devices have said, and nobody compares it with the log.      *)
(***************************************************************************)
EXTENDS Integers, Sequences

CONSTANTS
    Users,      \* the users that own a log
    Ids,        \* the identities of the notifications
    Claims      \* what devices may say they have rendered

VARIABLES
    log,        \* log[u]      : the notifications of u; the position is the seq
    acked,      \* acked[u]    : highest seq the devices of u have claimed
    read,       \* the notifications that have a read_at
    cursor,     \* cursor[u]   : how far the follower of u has read
    received    \* received[u] : what the follower of u was given

vars == <<log, acked, read, cursor, received>>

Entries(u) == {log[u][s] : s \in 1 .. Len(log[u])}

Init ==
    /\ log = [u \in Users |-> << >>]
    /\ acked = [u \in Users |-> 0]
    /\ read = {}
    /\ cursor = [u \in Users |-> 0]
    /\ received = [u \in Users |-> {}]

\* A notification becomes visible at the next free position of one log.
AppendEntry(u, id) ==
    /\ \A v \in Users : id \notin Entries(v)
    /\ log' = [log EXCEPT ![u] = Append(@, id)]
    /\ UNCHANGED <<acked, read, cursor, received>>

\* A device says how far it has rendered: the record moves forward or stays.
RecordAck(u, s) ==
    /\ acked' = [acked EXCEPT ![u] = IF s > @ THEN s ELSE @]
    /\ UNCHANGED <<log, read, cursor, received>>

\* A notification of u is marked read, once.
MarkRead(u, id) ==
    /\ id \in Entries(u) \ read
    /\ read' = read \cup {id}
    /\ UNCHANGED <<log, acked, cursor, received>>

\* The follower moves to position k and by then holds the whole prefix.
Follow(u, k) ==
    /\ k \in cursor[u] + 1 .. Len(log[u])
    /\ cursor' = [cursor EXCEPT ![u] = k]
    /\ received' = [received EXCEPT ![u] = {log[u][s] : s \in 1 .. k}]
    /\ UNCHANGED <<log, acked, read>>

Next ==
    \E u \in Users :
        \/ \E id \in Ids : AppendEntry(u, id) \/ MarkRead(u, id)
        \/ \E s \in Claims : RecordAck(u, s)
        \/ \E k \in 1 .. Len(log[u]) : Follow(u, k)

Spec == Init /\ [][Next]_vars
=============================================================================
