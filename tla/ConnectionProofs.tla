---------------------------- MODULE ConnectionProofs ----------------------------
(***************************************************************************)
(* What holds of a connection for any number of goroutines, any capacity   *)
(* of its channel and any number of frames.  IInv adds to the invariants   *)
(* of the runs which goroutine has won the compare-and-swap of Close and   *)
(* where each accepted frame is: on the wire, in the hands of the writer   *)
(* or still in the channel.                                                *)
(***************************************************************************)
EXTENDS Connection, SequenceTheorems, TLAPS

\* The mutex is held by the one goroutine that is inside its critical section.
LockInv ==
    \A p \in Procs :
        /\ pc[p] \in {"write", "closeSocket"} => mu = p
        /\ pc[p] = "write" => p = Writer

\* One goroutine wins the compare-and-swap; until it has closed the channel the
\* channel is open, and nobody closes it before the flag is set.
CloseInv ==
    /\ ~closed => ~outClosed
    /\ \A p \in Procs :
          pc[p] = "closeOut" =>
              /\ closed /\ ~outClosed
              /\ \A q \in Procs : pc[q] = "closeOut" => p = q

\* The writer has taken a frame from the channel and not yet written it.
InHand == IF pc[Writer] \in {"lockToWrite", "write"} THEN 1 ELSE 0

\* While the writer lives, the accepted frames are those on the wire, then the
\* one in its hands, then those in the channel; a failed write ends the writer.
WireInv ==
    /\ Len(wire) <= Len(accepted)
    /\ \A i \in 1 .. Len(wire) : accepted[i] = wire[i]
    /\ pc[Writer] \in {"receive", "lockToWrite", "write"} =>
          /\ Len(accepted) = Len(wire) + InHand + Len(out)
          /\ InHand = 1 => accepted[Len(wire) + 1] = frame[Writer]
          /\ \A i \in 1 .. Len(out) : accepted[Len(wire) + InHand + i] = out[i]

IInv == TypeOK /\ LockInv /\ CloseInv /\ WireInv

\* What Append does to a sequence, position by position.
LEMMA AppendAtEnd ==
    ASSUME NEW S, NEW s \in Seq(S), NEW e \in S
    PROVE  /\ Append(s, e) \in Seq(S)
           /\ Len(s) \in Nat
           /\ Len(Append(s, e)) = Len(s) + 1
           /\ \A i \in 1 .. Len(s) : Append(s, e)[i] = s[i]
           /\ Append(s, e)[Len(s) + 1] = e
OBVIOUS

-----------------------------------------------------------------------------
(* Sending *)

\* Offering a frame touches nothing but the sender.
LEMMA LoadClosedKeepsIInv ==
    ASSUME IInv, NEW p \in Senders, LoadClosed(p)  PROVE IInv'
<1> USE ProcsAssumption DEF IInv, LoadClosed, At, Goto, Procs
<1>0. p # Writer  OBVIOUS
<1>1. TypeOK'  BY WriteBufAssumption DEF TypeOK, Labels
<1>2. LockInv' /\ CloseInv'  BY DEF TypeOK, LockInv, CloseInv
<1>3. WireInv'  BY <1>0 DEF TypeOK, WireInv, InHand
<1> QED  BY <1>1, <1>2, <1>3

\* The channel takes the frame at its end, refuses it, or panics.
LEMMA EnqueueKeepsIInv ==
    ASSUME IInv, NEW p \in Senders, Enqueue(p)  PROVE IInv'
<1> USE ProcsAssumption DEF IInv, Enqueue, At, Goto, Procs
<1>0. p # Writer /\ frame[p] \in 0 .. MaxFrames  BY DEF TypeOK
<1>1. TypeOK'
    <2>1. CASE outClosed  BY <2>1 DEF TypeOK, Labels
    <2>2. CASE ~outClosed /\ Len(out) < WriteBuf
        <3>1. /\ Append(out, frame[p]) \in Seq(0 .. MaxFrames)
              /\ Len(Append(out, frame[p])) = Len(out) + 1
              /\ Append(accepted, frame[p]) \in Seq(0 .. MaxFrames)
              /\ Len(out) \in Nat
            BY <1>0, AppendAtEnd DEF TypeOK
        <3>2. out' = Append(out, frame[p]) /\ accepted' = Append(accepted, frame[p])
            BY <2>2, <3>1, WriteBufAssumption
        <3>3. out' \in Seq(0 .. MaxFrames) /\ Len(out') <= WriteBuf
              /\ accepted' \in Seq(0 .. MaxFrames)
            BY <2>2, <3>1, <3>2, WriteBufAssumption
        <3> QED  BY <2>2, <3>3 DEF TypeOK, Labels
    <2>3. CASE ~outClosed /\ Len(out) = WriteBuf
        BY <2>3 DEF TypeOK, Labels
    <2> QED  BY <2>1, <2>2, <2>3
<1>2. LockInv' /\ CloseInv'  BY DEF TypeOK, LockInv, CloseInv
<1>3. WireInv'
    <2>1. CASE UNCHANGED <<out, accepted>>
        BY <1>0, <2>1 DEF TypeOK, WireInv, InHand
    <2>2. CASE out' = Append(out, frame[p]) /\ accepted' = Append(accepted, frame[p])
        <3>1. /\ Len(out') = Len(out) + 1 /\ Len(accepted') = Len(accepted) + 1
              /\ \A i \in 1 .. Len(out) : out'[i] = out[i]
              /\ \A i \in 1 .. Len(accepted) : accepted'[i] = accepted[i]
              /\ out'[Len(out) + 1] = frame[p]
              /\ accepted'[Len(accepted) + 1] = frame[p]
            BY <1>0, <2>2 DEF TypeOK
        <3>2. wire' = wire /\ pc'[Writer] = pc[Writer] /\ frame' = frame
            BY <1>0 DEF TypeOK
        <3>3. Len(wire) \in Nat /\ Len(out) \in Nat /\ Len(accepted) \in Nat
            BY DEF TypeOK
        <3>4. InHand' = InHand /\ InHand \in {0, 1}
            BY <3>2 DEF InHand
        <3>5. Len(wire') <= Len(accepted') /\ \A i \in 1 .. Len(wire') : accepted'[i] = wire'[i]
            BY <3>1, <3>2, <3>3 DEF WireInv
        <3>6. ASSUME pc'[Writer] \in {"receive", "lockToWrite", "write"}
              PROVE  /\ Len(accepted') = Len(wire') + InHand' + Len(out')
                     /\ InHand' = 1 => accepted'[Len(wire') + 1] = frame'[Writer]
                     /\ \A i \in 1 .. Len(out') : accepted'[Len(wire') + InHand' + i] = out'[i]
            <4>1. /\ Len(accepted) = Len(wire) + InHand + Len(out)
                  /\ InHand = 1 => accepted[Len(wire) + 1] = frame[Writer]
                  /\ \A i \in 1 .. Len(out) : accepted[Len(wire) + InHand + i] = out[i]
                BY <3>2, <3>6 DEF WireInv
            <4>2. Len(accepted') = Len(wire') + InHand' + Len(out')
                BY <3>1, <3>2, <3>3, <3>4, <4>1
            <4>3. InHand' = 1 => accepted'[Len(wire') + 1] = frame'[Writer]
                BY <3>1, <3>2, <3>3, <3>4, <4>1
            <4>4. ASSUME NEW i \in 1 .. Len(out')
                  PROVE  accepted'[Len(wire) + InHand + i] = out'[i]
                <5>1. CASE i \in 1 .. Len(out)
                    <6>1. Len(wire) + InHand + i \in 1 .. Len(accepted)
                        BY <3>3, <3>4, <4>1, <5>1
                    <6> QED  BY <3>1, <4>1, <5>1, <6>1
                <5>2. CASE i = Len(out) + 1
                    <6>1. Len(wire) + InHand + i = Len(accepted) + 1
                        BY <3>3, <3>4, <4>1, <5>2
                    <6> QED  BY <3>1, <5>2, <6>1
                <5> QED  BY <3>1, <3>3, <5>1, <5>2
            <4> QED  BY <3>2, <3>4, <4>2, <4>3, <4>4
        <3> QED  BY <3>5, <3>6 DEF WireInv
    <2> QED  BY <2>1, <2>2
<1> QED  BY <1>1, <1>2, <1>3

\* A refused sender only chooses between Close and its caller.
LEMMA RefusedKeepsIInv ==
    ASSUME IInv, NEW p \in Senders, Refused(p)  PROVE IInv'
<1> USE ProcsAssumption DEF IInv, Refused, At, Goto, Procs
<1>0. p # Writer  OBVIOUS
<1>1. TypeOK'  BY DEF TypeOK, Labels
<1>2. LockInv' /\ CloseInv'  BY DEF TypeOK, LockInv, CloseInv
<1>3. WireInv'  BY <1>0 DEF TypeOK, WireInv, InHand
<1> QED  BY <1>1, <1>2, <1>3

-----------------------------------------------------------------------------
(* Close *)

\* The first to swap the flag is the only one to go on to the channel.
LEMMA CompareAndSwapKeepsIInv ==
    ASSUME IInv, NEW p \in Procs, CompareAndSwap(p)  PROVE IInv'
<1> USE DEF IInv, CompareAndSwap, At, Goto, AfterClose
<1>1. TypeOK'  BY DEF TypeOK, Labels
<1>2. LockInv'  BY DEF TypeOK, LockInv
<1>3. CloseInv'
    <2>1. closed => \A q \in Procs : pc'[q] = "closeOut" => pc[q] = "closeOut"
        BY DEF TypeOK
    <2>2. ~closed => \A q \in Procs : pc'[q] = "closeOut" => q = p
        BY DEF TypeOK, CloseInv
    <2> QED  BY <2>1, <2>2 DEF TypeOK, CloseInv
<1>4. WireInv'
    <2>1. pc'[Writer] \in {"receive", "lockToWrite", "write"} => pc'[Writer] = pc[Writer]
        BY ProcsAssumption DEF TypeOK
    <2>2. pc[Writer] # pc'[Writer] => InHand = InHand'  BY DEF TypeOK, InHand
    <2> QED  BY <2>1, <2>2 DEF WireInv, InHand
<1> QED  BY <1>1, <1>2, <1>3, <1>4

\* Closing the channel ends the winner's privilege.
LEMMA CloseOutKeepsIInv ==
    ASSUME IInv, NEW p \in Procs, CloseOut(p)  PROVE IInv'
<1> USE DEF IInv, CloseOut, At, Goto
<1>1. TypeOK'  BY DEF TypeOK, Labels
<1>2. LockInv'  BY DEF TypeOK, LockInv
<1>3. CloseInv'  BY DEF TypeOK, CloseInv
<1>4. WireInv'
    <2>1. pc'[Writer] \in {"receive", "lockToWrite", "write"} => pc'[Writer] = pc[Writer]
        BY DEF TypeOK
    <2> QED  BY <2>1 DEF WireInv, InHand
<1> QED  BY <1>1, <1>2, <1>3, <1>4

\* The closer takes a free mutex.
LEMMA LockToCloseKeepsIInv ==
    ASSUME IInv, NEW p \in Procs, LockToClose(p)  PROVE IInv'
<1> USE DEF IInv, LockToClose, At, Goto
<1>1. TypeOK'  BY DEF TypeOK, Labels
<1>2. LockInv'  BY ProcsAssumption DEF TypeOK, LockInv
<1>3. CloseInv'  BY DEF TypeOK, CloseInv
<1>4. WireInv'
    <2>1. pc'[Writer] \in {"receive", "lockToWrite", "write"} => pc'[Writer] = pc[Writer]
        BY DEF TypeOK
    <2> QED  BY <2>1 DEF WireInv, InHand
<1> QED  BY <1>1, <1>2, <1>3, <1>4

\* The holder of the mutex closes the socket and lets go.
LEMMA CloseSocketKeepsIInv ==
    ASSUME IInv, NEW p \in Procs, CloseSocket(p)  PROVE IInv'
<1> USE DEF IInv, CloseSocket, At, Goto, AfterClose
<1>1. TypeOK'  BY DEF TypeOK, Labels
<1>2. LockInv'  BY ProcsAssumption DEF TypeOK, LockInv
<1>3. CloseInv'  BY DEF TypeOK, CloseInv
<1>4. WireInv'
    <2>1. pc'[Writer] \in {"receive", "lockToWrite", "write"} => pc'[Writer] = pc[Writer]
        BY ProcsAssumption DEF TypeOK
    <2> QED  BY <2>1 DEF WireInv, InHand
<1> QED  BY <1>1, <1>2, <1>3, <1>4

-----------------------------------------------------------------------------
(* The writer *)

\* The head of the channel passes into the hands of the writer.
LEMMA ReceiveOutKeepsIInv ==
    ASSUME IInv, ReceiveOut  PROVE IInv'
<1> USE DEF IInv, ReceiveOut, At, Goto
<1>0. Writer \in Procs  BY DEF Procs
<1>1. CASE out # << >> /\ frame' = [frame EXCEPT ![Writer] = Head(out)] /\ out' = Tail(out)
           /\ pc' = [pc EXCEPT ![Writer] = "lockToWrite"]
    <2>1. /\ Len(out) \in Nat \ {0} /\ Head(out) = out[1] /\ Head(out) \in 0 .. MaxFrames
          /\ out' \in Seq(0 .. MaxFrames) /\ Len(out') = Len(out) - 1
          /\ \A i \in 1 .. Len(out') : out'[i] = out[i + 1]
        <3>1. out \in Seq(0 .. MaxFrames) /\ out # << >>  BY <1>1 DEF TypeOK
        <3>2. Len(out) \in Nat \ {0}  BY <3>1, EmptySeq
        <3>3. Head(out) = out[1]  BY <3>1
        <3> QED  BY <1>1, <3>1, <3>2, <3>3, HeadTailProperties
    <2>2. TypeOK'
        <3>1. Len(out') <= WriteBuf  BY <2>1, WriteBufAssumption DEF TypeOK
        <3>2. frame' \in [Senders \cup {Writer} -> 0 .. MaxFrames]
            BY <1>1, <2>1 DEF TypeOK
        <3> QED  BY <1>0, <1>1, <2>1, <3>1, <3>2 DEF TypeOK, Labels
    <2>3. LockInv' /\ CloseInv'  BY <1>0, <1>1 DEF TypeOK, LockInv, CloseInv
    <2>4. InHand = 0 /\ InHand' = 1 /\ frame'[Writer] = out[1]
        BY <1>0, <1>1, <2>1 DEF TypeOK, InHand
    <2>5. /\ Len(accepted) = Len(wire) + Len(out)
          /\ \A i \in 1 .. Len(out) : accepted[Len(wire) + i] = out[i]
          /\ Len(wire) \in Nat
        BY <2>4 DEF TypeOK, WireInv
    <2>6. \A i \in 1 .. Len(out') : accepted[Len(wire) + 1 + i] = out'[i]
        <3> SUFFICES ASSUME NEW i \in 1 .. Len(out')
                     PROVE  accepted[Len(wire) + 1 + i] = out'[i]
            OBVIOUS
        <3>1. i + 1 \in 1 .. Len(out)  BY <2>1
        <3>2. accepted[Len(wire) + (i + 1)] = out[i + 1]  BY <2>5, <3>1
        <3>3. Len(wire) + (i + 1) = Len(wire) + 1 + i  BY <2>5
        <3> QED  BY <2>1, <3>2, <3>3
    <2>7. accepted[Len(wire) + 1] = out[1]  BY <2>1, <2>5
    <2>8. WireInv'
        BY <2>1, <2>4, <2>5, <2>6, <2>7 DEF WireInv
    <2> QED  BY <2>2, <2>3, <2>8
<1>2. CASE pc' = [pc EXCEPT ![Writer] = "end"] /\ UNCHANGED <<frame, out>>
    <2>1. TypeOK'  BY <1>2 DEF TypeOK, Labels
    <2>2. LockInv' /\ CloseInv'  BY <1>2 DEF TypeOK, LockInv, CloseInv
    <2>3. WireInv'  BY <1>0, <1>2 DEF TypeOK, WireInv
    <2> QED  BY <2>1, <2>2, <2>3
<1> QED  BY <1>1, <1>2

\* The writer takes a free mutex, its frame in hand.
LEMMA LockToWriteKeepsIInv ==
    ASSUME IInv, LockToWrite  PROVE IInv'
<1> USE DEF IInv, LockToWrite, At, Goto
<1>0. Writer \in Procs  BY DEF Procs
<1>1. TypeOK'  BY <1>0 DEF TypeOK, Labels
<1>2. LockInv'  BY <1>0, ProcsAssumption DEF TypeOK, LockInv
<1>3. CloseInv'  BY DEF TypeOK, CloseInv
<1>4. WireInv'  BY <1>0 DEF TypeOK, WireInv, InHand
<1> QED  BY <1>1, <1>2, <1>3, <1>4

\* The frame in hand goes to the end of the wire, or the writer gives up.
LEMMA WriteKeepsIInv ==
    ASSUME IInv, Write  PROVE IInv'
<1> USE DEF IInv, Write, At, Goto
<1>0. Writer \in Procs /\ frame[Writer] \in 0 .. MaxFrames  BY DEF Procs, TypeOK
<1>1. TypeOK'
    <2>1. Append(wire, frame[Writer]) \in Seq(0 .. MaxFrames)
        BY <1>0, AppendAtEnd DEF TypeOK
    <2>2. wire' \in Seq(0 .. MaxFrames)  BY <2>1 DEF TypeOK
    <2> QED  BY <1>0, <2>2 DEF TypeOK, Labels
<1>2. LockInv'  BY <1>0, ProcsAssumption DEF TypeOK, LockInv
<1>3. CloseInv'  BY DEF TypeOK, CloseInv
<1>4. WireInv'
    <2>1. CASE pc' = [pc EXCEPT ![Writer] = "receive"] /\ wire' = Append(wire, frame[Writer])
        <3>1. InHand = 1 /\ InHand' = 0  BY <1>0, <2>1 DEF TypeOK, InHand
        <3>2. /\ Len(wire) \in Nat /\ Len(out) \in Nat
              /\ Len(wire') = Len(wire) + 1
              /\ wire'[Len(wire) + 1] = frame[Writer]
              /\ \A i \in 1 .. Len(wire) : wire'[i] = wire[i]
            BY <1>0, <2>1 DEF TypeOK
        <3>3. /\ Len(accepted) = Len(wire) + 1 + Len(out)
              /\ accepted[Len(wire) + 1] = frame[Writer]
              /\ \A i \in 1 .. Len(wire) : accepted[i] = wire[i]
              /\ \A i \in 1 .. Len(out) : accepted[Len(wire) + 1 + i] = out[i]
            BY <3>1 DEF WireInv
        <3>4. \A i \in 1 .. Len(wire') : accepted[i] = wire'[i]
            <4> SUFFICES ASSUME NEW i \in 1 .. Len(wire')  PROVE accepted[i] = wire'[i]
                OBVIOUS
            <4>1. i \in 1 .. Len(wire) \/ i = Len(wire) + 1  BY <3>2
            <4> QED  BY <3>2, <3>3, <4>1
        <3>5. /\ Len(wire') <= Len(accepted)
              /\ Len(accepted) = Len(wire') + InHand' + Len(out)
            BY <3>1, <3>2, <3>3
        <3>6. \A i \in 1 .. Len(out) : accepted[Len(wire') + InHand' + i] = out[i]
            <4> SUFFICES ASSUME NEW i \in 1 .. Len(out)
                         PROVE  accepted[Len(wire') + InHand' + i] = out[i]
                OBVIOUS
            <4>1. Len(wire') + InHand' + i = Len(wire) + 1 + i  BY <3>1, <3>2
            <4> QED  BY <3>3, <4>1
        <3>7. out' = out /\ accepted' = accepted  OBVIOUS
        <3>8. InHand' # 1  BY <3>1
        <3> HIDE DEF IInv, Write
        <3> QED  BY <3>4, <3>5, <3>6, <3>7, <3>8 DEF WireInv
    <2>2. CASE pc' = [pc EXCEPT ![Writer] = "close"] /\ UNCHANGED wire
        BY <1>0, <2>2 DEF TypeOK, WireInv
    <2> QED  BY <2>1, <2>2
<1> QED  BY <1>1, <1>2, <1>3, <1>4

-----------------------------------------------------------------------------
(* The end of the connection *)

\* The reaper turns to Close.
LEMMA EvictKeepsIInv ==
    ASSUME IInv, NEW p \in Closers, Evict(p)  PROVE IInv'
<1> USE ProcsAssumption DEF IInv, Evict, At, Goto, Procs
<1>0. p # Writer  OBVIOUS
<1>1. TypeOK'  BY DEF TypeOK, Labels
<1>2. LockInv' /\ CloseInv'  BY DEF TypeOK, LockInv, CloseInv
<1>3. WireInv'  BY <1>0 DEF TypeOK, WireInv, InHand
<1> QED  BY <1>1, <1>2, <1>3

\* OnClose unregisters and turns to Close.
LEMMA SocketClosedKeepsIInv ==
    ASSUME IInv, SocketClosed  PROVE IInv'
<1> USE ProcsAssumption DEF IInv, SocketClosed, At, Goto, Procs
<1>0. OnClose # Writer  OBVIOUS
<1>1. TypeOK'  BY DEF TypeOK, Labels
<1>2. LockInv' /\ CloseInv'  BY DEF TypeOK, LockInv, CloseInv
<1>3. WireInv'  BY <1>0 DEF TypeOK, WireInv, InHand
<1> QED  BY <1>1, <1>2, <1>3

\* The network touches the socket alone.
LEMMA PeerGoneKeepsIInv ==
    ASSUME IInv, PeerGone  PROVE IInv'
BY DEF IInv, PeerGone, TypeOK, LockInv, CloseInv, WireInv, InHand

\* Every step of Close, by any goroutine.
LEMMA CloseStepKeepsIInv ==
    ASSUME IInv, NEW p \in Procs, CloseStep(p)  PROVE IInv'
BY CompareAndSwapKeepsIInv, CloseOutKeepsIInv, LockToCloseKeepsIInv, CloseSocketKeepsIInv
   DEF CloseStep

-----------------------------------------------------------------------------
(* The theorems *)

\* A new connection satisfies the invariant.
LEMMA InitIInv ==
    Init => IInv
<1> SUFFICES ASSUME Init  PROVE IInv
    OBVIOUS
<1>0. Writer \in Procs /\ pc[Writer] = "receive"  BY DEF Init, Procs
<1>1. TypeOK
    <2>1. << >> \in Seq(0 .. MaxFrames) /\ Len(<< >>) = 0  BY EmptySeq
    <2>2. Len(out) <= WriteBuf  BY <2>1, WriteBufAssumption DEF Init
    <2>3. 0 \in 0 .. MaxFrames  BY WriteBufAssumption
    <2> QED  BY <2>1, <2>2, <2>3 DEF Init, TypeOK, Labels
<1>2. LockInv /\ CloseInv  BY DEF Init, LockInv, CloseInv
<1>3. WireInv  BY <1>0 DEF Init, WireInv, InHand
<1> QED  BY <1>1, <1>2, <1>3 DEF IInv

\* Every step preserves it.
LEMMA NextKeepsIInv ==
    IInv /\ [Next]_vars => IInv'
<1> SUFFICES ASSUME IInv, [Next]_vars  PROVE IInv'
    OBVIOUS
<1>1. ASSUME NEW p \in Senders, LoadClosed(p) \/ SenderStep(p)  PROVE IInv'
    <2>1. p \in Procs  BY DEF Procs
    <2> QED
        BY <1>1, <2>1, LoadClosedKeepsIInv, EnqueueKeepsIInv, RefusedKeepsIInv,
           CloseStepKeepsIInv DEF SenderStep
<1>2. ASSUME NEW p \in Closers, Evict(p) \/ CloseStep(p)  PROVE IInv'
    <2>1. p \in Procs  BY DEF Procs
    <2> QED  BY <1>2, <2>1, EvictKeepsIInv, CloseStepKeepsIInv
<1>3. CASE WriterStep
    <2>1. Writer \in Procs  BY DEF Procs
    <2> QED
        BY <1>3, <2>1, ReceiveOutKeepsIInv, LockToWriteKeepsIInv, WriteKeepsIInv,
           CloseStepKeepsIInv DEF WriterStep
<1>4. CASE OnCloseStep
    <2>1. OnClose \in Procs  BY DEF Procs
    <2> QED  BY <1>4, <2>1, SocketClosedKeepsIInv, CloseStepKeepsIInv DEF OnCloseStep
<1>5. CASE PeerGone  BY <1>5, PeerGoneKeepsIInv
<1>6. CASE UNCHANGED vars
    BY <1>6 DEF vars, IInv, TypeOK, LockInv, CloseInv, WireInv, InHand
<1> QED  BY <1>1, <1>2, <1>3, <1>4, <1>5, <1>6 DEF Next

\* The inductive invariant holds in every reachable state.
THEOREM Invariance ==
    Spec => []IInv
BY InitIInv, NextKeepsIInv, PTL DEF Spec

\* The channel never holds more than its capacity, and every goroutine stays
\* within the functions of connection.go.
THEOREM TypeCorrect ==
    Spec => []TypeOK
BY Invariance, PTL DEF IInv

\* However many goroutines call Close at once, one closes the channel.
THEOREM ChannelIsClosedByOne ==
    Spec => []ClosedByOne
<1>1. IInv => ClosedByOne  BY DEF IInv, CloseInv, ClosedByOne
<1> QED  BY <1>1, Invariance, PTL

\* The socket is written and closed under the mutex only.
THEOREM SocketAlwaysGuarded ==
    Spec => []SocketIsGuarded
<1>1. IInv => SocketIsGuarded  BY DEF IInv, LockInv, SocketIsGuarded
<1> QED  BY <1>1, Invariance, PTL

\* The peer receives the accepted frames in order, none skipped or repeated,
\* for any capacity of the channel and any number of goroutines.
THEOREM WireIsAlwaysPrefix ==
    Spec => []WireIsPrefix
<1>1. IInv => WireIsPrefix
    <2> SUFFICES ASSUME IInv  PROVE IsPrefix(wire, accepted)
        BY DEF WireIsPrefix
    <2>1. /\ wire \in Seq(0 .. MaxFrames) /\ accepted \in Seq(0 .. MaxFrames)
          /\ Len(wire) <= Len(accepted)
          /\ \A i \in 1 .. Len(wire) : accepted[i] = wire[i]
        BY DEF IInv, TypeOK, WireInv
    <2>2. SubSeq(wire, 1, Len(wire)) = SubSeq(accepted, 1, Len(wire))
        BY <2>1
    <2> QED  BY <2>1, <2>2 DEF IsPrefix
<1> QED  BY <1>1, Invariance, PTL
=============================================================================
