------------------------------ MODULE Connection ------------------------------
(***************************************************************************)
(* One connection and the goroutines that share it (websocket/connection.  *)
(* go and its callers): SendToUser and the handlers enqueue, the writer    *)
(* drains, the reaper, OnClose and the writer close.  A step is one atomic *)
(* operation, one channel operation or one action on the mutex.            *)
(***************************************************************************)
EXTENDS Integers, Sequences, SequencesExt

CONSTANTS
    Casters,    \* goroutines in Hub.SendToUser: they close what refuses a frame
    Repliers,   \* goroutines in handleUpgrade, handleMessage and the reaper's ping
    Closers,    \* goroutines that decide to evict the connection (reaper)
    Writer,     \* the goroutine of startWriter
    OnClose,    \* the goroutine in which nbio reports the end of the socket
    Nobody,     \* "the mutex is free"
    WriteBuf,   \* capacity of the channel out
    MaxFrames   \* bound: frames that are offered to the connection

ASSUME WriteBufAssumption == WriteBuf \in Nat \ {0} /\ MaxFrames \in Nat

Senders == Casters \cup Repliers
Procs == Senders \cup Closers \cup {Writer, OnClose}

ASSUME ProcsAssumption ==
    /\ Nobody \notin Procs
    /\ Writer \notin Senders \cup Closers \cup {OnClose}

VARIABLES
    closed,     \* the atomic closed
    out,        \* the frames in the channel
    outClosed,  \* close(out) has run
    mu,         \* who holds the mutex
    socket,     \* wsConn: "open" or "closed"
    registered, \* the Hub has the connection
    pc,         \* where each goroutine is
    frame,      \* the frame a sender offers, the one the writer has received
    offered,    \* how many frames have been offered
    accepted,   \* the frames the channel took, in order
    wire,       \* the frames written to the socket, in order
    panicked    \* a send on a closed channel or a second close of it

vars == <<closed, out, outClosed, mu, socket, registered, pc, frame, offered,
          accepted, wire, panicked>>

Init ==
    /\ closed = FALSE
    /\ out = << >>
    /\ outClosed = FALSE
    /\ mu = Nobody
    /\ socket = "open"
    /\ registered = TRUE
    /\ pc = [p \in Procs |-> IF p = Writer THEN "receive" ELSE "idle"]
    /\ frame = [p \in Senders \cup {Writer} |-> 0]
    /\ offered = 0
    /\ accepted = << >>
    /\ wire = << >>
    /\ panicked = FALSE

\* Goroutine p is at label, in a process that a panic has not ended.
At(p, label) == pc[p] = label /\ ~panicked

Goto(p, label) == pc' = [pc EXCEPT ![p] = label]

\* Where a goroutine goes when Close returns.
AfterClose(p) == IF p \in Senders THEN "idle" ELSE "end"

-----------------------------------------------------------------------------
(* EnqueueRaw and its callers *)

LoadClosed(p) ==
    /\ At(p, "idle")
    /\ p \in Senders
    /\ offered < MaxFrames
    /\ offered' = offered + 1
    /\ frame' = [frame EXCEPT ![p] = offered']
    /\ Goto(p, IF closed THEN "refused" ELSE "select")
    /\ UNCHANGED <<closed, out, outClosed, mu, socket, registered, accepted, wire, panicked>>

\* Mutated: the capacity is off by one.
EnqueueBeyond(p) ==
    /\ At(p, "select")
    /\ ~outClosed /\ Len(out) <= WriteBuf
    /\ out' = Append(out, frame[p])
    /\ accepted' = Append(accepted, frame[p])
    /\ Goto(p, "idle")
    /\ UNCHANGED <<closed, outClosed, mu, socket, registered, frame, offered, wire, panicked>>

\* The select: a send on a closed channel panics.
Enqueue(p) ==
    /\ At(p, "select")
    /\ \/ /\ outClosed
          /\ panicked' = TRUE
          /\ UNCHANGED <<out, accepted, pc>>
       \/ /\ ~outClosed /\ Len(out) < WriteBuf
          /\ out' = Append(out, frame[p])
          /\ accepted' = Append(accepted, frame[p])
          /\ Goto(p, "idle")
          /\ UNCHANGED panicked
       \/ /\ ~outClosed /\ Len(out) = WriteBuf
          /\ Goto(p, "refused")
          /\ UNCHANGED <<out, accepted, panicked>>
    /\ UNCHANGED <<closed, outClosed, mu, socket, registered, frame, offered, wire>>

\* SendToUser closes the slow consumer; the other callers ignore the answer.
Refused(p) ==
    /\ At(p, "refused")
    /\ Goto(p, IF p \in Casters THEN "close" ELSE "idle")
    /\ UNCHANGED <<closed, out, outClosed, mu, socket, registered, frame, offered,
                   accepted, wire, panicked>>

-----------------------------------------------------------------------------
(* Close *)

\* Mutated: a load in place of the compare-and-swap.
CompareOnly(p) ==
    /\ At(p, "close")
    /\ Goto(p, IF closed THEN AfterClose(p) ELSE "closeOut")
    /\ UNCHANGED <<closed, out, outClosed, mu, socket, registered, frame, offered, accepted,
                   wire, panicked>>

CompareAndSwap(p) ==
    /\ At(p, "close")
    /\ closed' = TRUE
    /\ Goto(p, IF closed THEN AfterClose(p) ELSE "closeOut")
    /\ UNCHANGED <<out, outClosed, mu, socket, registered, frame, offered, accepted,
                   wire, panicked>>

CloseOut(p) ==
    /\ At(p, "closeOut")
    /\ outClosed' = TRUE
    /\ panicked' = outClosed
    /\ Goto(p, "lockToClose")
    /\ UNCHANGED <<closed, out, mu, socket, registered, frame, offered, accepted, wire>>

LockToClose(p) ==
    /\ At(p, "lockToClose")
    /\ mu = Nobody
    /\ mu' = p
    /\ Goto(p, "closeSocket")
    /\ UNCHANGED <<closed, out, outClosed, socket, registered, frame, offered, accepted,
                   wire, panicked>>

CloseSocket(p) ==
    /\ At(p, "closeSocket")
    /\ socket' = "closed"
    /\ mu' = Nobody
    /\ Goto(p, AfterClose(p))
    /\ UNCHANGED <<closed, out, outClosed, registered, frame, offered, accepted, wire,
                   panicked>>

-----------------------------------------------------------------------------
(* startWriter *)

\* range out: the rest of a closed channel is still drained.
ReceiveOut ==
    /\ At(Writer, "receive")
    /\ \/ /\ out # << >>
          /\ frame' = [frame EXCEPT ![Writer] = Head(out)]
          /\ out' = Tail(out)
          /\ Goto(Writer, "lockToWrite")
       \/ /\ out = << >> /\ outClosed
          /\ Goto(Writer, "end")
          /\ UNCHANGED <<frame, out>>
    /\ UNCHANGED <<closed, outClosed, mu, socket, registered, offered, accepted, wire,
                   panicked>>

LockToWrite ==
    /\ At(Writer, "lockToWrite")
    /\ mu = Nobody
    /\ mu' = Writer
    /\ Goto(Writer, "write")
    /\ UNCHANGED <<closed, out, outClosed, socket, registered, frame, offered, accepted,
                   wire, panicked>>

\* Mutated: a failed write is skipped and the loop goes on.
WriteContinues ==
    /\ At(Writer, "write")
    /\ mu' = Nobody
    /\ \/ /\ socket = "open"
          /\ wire' = Append(wire, frame[Writer])
       \/ UNCHANGED wire
    /\ Goto(Writer, "receive")
    /\ UNCHANGED <<closed, out, outClosed, socket, registered, frame, offered, accepted,
                   panicked>>

\* Mutated: the writer calls Close under the mutex.
WriteClosesLocked ==
    /\ At(Writer, "write")
    /\ \/ /\ socket = "open"
          /\ wire' = Append(wire, frame[Writer])
          /\ mu' = Nobody
          /\ Goto(Writer, "receive")
       \/ /\ Goto(Writer, "close")
          /\ UNCHANGED <<wire, mu>>
    /\ UNCHANGED <<closed, out, outClosed, socket, registered, frame, offered, accepted,
                   panicked>>

\* The write succeeds on an open socket, or fails (also by its deadline); the
\* lock is released before the error is looked at.
Write ==
    /\ At(Writer, "write")
    /\ mu' = Nobody
    /\ \/ /\ socket = "open"
          /\ wire' = Append(wire, frame[Writer])
          /\ Goto(Writer, "receive")
       \/ /\ Goto(Writer, "close")
          /\ UNCHANGED wire
    /\ UNCHANGED <<closed, out, outClosed, socket, registered, frame, offered, accepted,
                   panicked>>

-----------------------------------------------------------------------------
(* The end of the connection *)

\* The reaper finds the last pong too old.
Evict(p) ==
    /\ p \in Closers
    /\ At(p, "idle")
    /\ Goto(p, "close")
    /\ UNCHANGED <<closed, out, outClosed, mu, socket, registered, frame, offered,
                   accepted, wire, panicked>>

\* The peer goes away or the network breaks.
PeerGone ==
    /\ socket = "open"
    /\ socket' = "closed"
    /\ UNCHANGED <<closed, out, outClosed, mu, registered, pc, frame, offered, accepted,
                   wire, panicked>>

\* nbio calls OnClose once the socket is closed, whoever closed it: Unregister,
\* then Close.
SocketClosed ==
    /\ At(OnClose, "idle")
    /\ socket = "closed"
    /\ registered' = FALSE
    /\ Goto(OnClose, "close")
    /\ UNCHANGED <<closed, out, outClosed, mu, socket, frame, offered, accepted, wire,
                   panicked>>

-----------------------------------------------------------------------------
CloseStep(p) == CompareAndSwap(p) \/ CloseOut(p) \/ LockToClose(p) \/ CloseSocket(p)

WriterStep == ReceiveOut \/ LockToWrite \/ Write \/ CloseStep(Writer)

OnCloseStep == SocketClosed \/ CloseStep(OnClose)

SenderStep(p) == Enqueue(p) \/ Refused(p) \/ CloseStep(p)

Next ==
    \/ \E p \in Senders : LoadClosed(p) \/ SenderStep(p)
    \/ \E p \in Closers : Evict(p) \/ CloseStep(p)
    \/ WriterStep
    \/ OnCloseStep
    \/ PeerGone

Spec == Init /\ [][Next]_vars

\* The scheduler runs every goroutine that has begun something, and sync.Mutex
\* hands itself over to a goroutine that has waited long enough.
Fairness ==
    /\ WF_vars(WriterStep) /\ SF_vars(LockToWrite)
    /\ WF_vars(OnCloseStep)
    /\ \A p \in Senders : WF_vars(SenderStep(p))
    /\ \A p \in Closers : WF_vars(CloseStep(p))
    /\ \A p \in Procs : SF_vars(LockToClose(p))

FairSpec == Spec /\ Fairness

-----------------------------------------------------------------------------
(* Properties *)

Labels == {"idle", "select", "refused", "close", "closeOut", "lockToClose",
           "closeSocket", "receive", "lockToWrite", "write", "end"}

\* The channel stays within its capacity and the goroutines within the
\* functions of connection.go.
TypeOK ==
    /\ closed \in BOOLEAN /\ outClosed \in BOOLEAN /\ panicked \in BOOLEAN
    /\ registered \in BOOLEAN
    /\ out \in Seq(0 .. MaxFrames) /\ Len(out) <= WriteBuf
    /\ mu \in Procs \cup {Nobody}
    /\ socket \in {"open", "closed"}
    /\ pc \in [Procs -> Labels]
    /\ frame \in [Senders \cup {Writer} -> 0 .. MaxFrames]
    /\ offered \in 0 .. MaxFrames
    /\ accepted \in Seq(0 .. MaxFrames) /\ wire \in Seq(0 .. MaxFrames)

\* However many goroutines close the connection, the channel is closed by one
\* of them: nobody else is about to close it once it is closed.
ClosedByOne ==
    \A p, q \in Procs :
        pc[p] = "closeOut" => ~outClosed /\ (pc[q] = "closeOut" => p = q)

\* What reaches the peer is a prefix of what the channel took: in order, without
\* a gap, nothing twice, although senders, writer and closers interleave.
WireIsPrefix == IsPrefix(wire, accepted)

\* The socket is written and closed only under the mutex.
SocketIsGuarded ==
    \A p \in Procs : pc[p] \in {"write", "closeSocket"} => mu = p

\* A connection somebody has begun to close ends completely: its socket is
\* closed, its writer has returned and the Hub no longer has it.
CloseCompletes ==
    closed ~> (panicked \/ (socket = "closed" /\ pc[Writer] = "end" /\ ~registered))

\* An accepted frame is written unless the connection ends.
AcceptedIsWritten ==
    \A f \in 1 .. MaxFrames :
        Contains(accepted, f) ~> (Contains(wire, f) \/ closed \/ panicked)

-----------------------------------------------------------------------------
\* Close's comment: safe to call from any goroutine.
NoPanic == ~panicked
=============================================================================
