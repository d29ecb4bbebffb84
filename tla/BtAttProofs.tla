---------------------------- MODULE BtAttProofs ----------------------------
(* Proofs about BtAtt for every set of channels, every MTU and any number   *)
(* of operations.                                                           *)
EXTENDS BtAtt, SequenceTheorems, TLAPS

-----------------------------------------------------------------------------
(* Facts about the helpers *)

\* Removing a position of a sequence keeps the others in order.
LEMMA RemoveAtProperties ==
    ASSUME NEW S, NEW q \in Seq(S), NEW i \in 1..Len(q)
    PROVE  /\ RemoveAt(q, i) \in Seq(S)
           /\ Len(RemoveAt(q, i)) = Len(q) - 1
           /\ \A j \in 1..(Len(q) - 1) :
                  RemoveAt(q, i)[j] = IF j < i THEN q[j] ELSE q[j + 1]
<1> DEFINE a == SubSeq(q, 1, i - 1)
           b == SubSeq(q, i + 1, Len(q))
<1>1. a \in Seq(S) /\ Len(a) = i - 1 /\ \A j \in 1..(i - 1) : a[j] = q[j]
  BY SubSeqProperties
<1>2. /\ b \in Seq(S) /\ Len(b) = Len(q) - i
      /\ \A j \in 1..(Len(q) - i) : b[j] = q[i + j]
  BY SubSeqProperties
<1>3. /\ a \o b \in Seq(S) /\ Len(a \o b) = Len(a) + Len(b)
      /\ \A j \in 1..(Len(a) + Len(b)) :
             (a \o b)[j] = IF j <= Len(a) THEN a[j] ELSE b[j - Len(a)]
  BY <1>1, <1>2, ConcatProperties
<1>4. RemoveAt(q, i) = a \o b
  BY DEF RemoveAt
<1> HIDE DEF a, b
<1>5. Len(RemoveAt(q, i)) = Len(q) - 1
  BY <1>1, <1>2, <1>3, <1>4
<1>6. ASSUME NEW j \in 1..(Len(q) - 1)
      PROVE  RemoveAt(q, i)[j] = IF j < i THEN q[j] ELSE q[j + 1]
  <2>1. CASE j < i
    BY <1>1, <1>2, <1>3, <1>4, <2>1
  <2>2. CASE ~(j < i)
    <3>1. j - (i - 1) \in 1..(Len(q) - i) /\ i + (j - (i - 1)) = j + 1
      BY <2>2
    <3>2. b[j - (i - 1)] = q[j + 1]
      BY <1>2, <3>1
    <3>3. (a \o b)[j] = b[j - Len(a)]
      BY <1>1, <1>2, <1>3, <2>2
    <3> QED
      BY <1>1, <1>4, <2>2, <3>2, <3>3
  <2> QED
    BY <2>1, <2>2
<1> QED
  BY <1>3, <1>4, <1>5, <1>6

\* Counting keeps the type of a counter.
LEMMA PlusType ==
    ASSUME NEW f \in [OpId -> Nat], NEW S
    PROVE  Plus(f, S) \in [OpId -> Nat]
  BY DEF Plus

\* Attached channels are channels.
LEMMA AttachedType ==
    ASSUME TypeOK
    PROVE  Attached \subseteq Chan
  BY DEF TypeOK, Attached, ToSet

\* Pending ops are ops, and so are queued ones.
LEMMA HeldType ==
    ASSUME TypeOK
    PROVE  PendingOps \subseteq OpId /\ QueuedOps \subseteq OpId
<1>1. \A c \in Attached : /\ pendingReq[c] \in OpId \cup {NoOp}
                          /\ pendingInd[c] \in OpId \cup {NoOp}
  BY AttachedType DEF TypeOK
<1>2. PendingOps \subseteq OpId
  BY <1>1 DEF PendingOps
<1>3. QueuedOps \subseteq OpId
  BY DEF QueuedOps, ToSet, TypeOK
<1> QED
  BY <1>2, <1>3

\* The queue a channel takes its next PDU from is not empty.
LEMMA PickedType ==
    ASSUME TypeOK, NEW c \in Chan, PickSource(c) # "none"
    PROVE  /\ PickedQueue(c) \in Seq(OpId)
           /\ PickedQueue(c) # <<>>
           /\ Head(PickedQueue(c)) \in OpId
<1>1. PickedQueue(c) \in Seq(OpId) /\ PickedQueue(c) # <<>>
  BY DEF PickSource, PickedQueue, Fits, TypeOK
<1> QED
  BY <1>1

\* Taking the next PDU off its queue leaves sequences of ops.
LEMMA PopType ==
    ASSUME TypeOK, NEW c \in Chan, PopPicked(c)
    PROVE  /\ reqQ' \in Seq(OpId) /\ indQ' \in Seq(OpId) /\ wrQ' \in Seq(OpId)
           /\ cq' \in [Chan -> Seq(OpId)]
  BY DEF PopPicked, PickSource, Fits, TypeOK

\* bt_att_send keeps the types of what it changes.
LEMMA SendOpType ==
    ASSUME TypeOK, NEW t \in OpType, NEW oc \in Opcode \cup {NoOpcode},
           NEW len \in Nat, NEW ans \in Chan \cup {NoChan},
           SendOp(t, oc, len, ans)
    PROVE  /\ info' \in [OpId -> OpInfo]
           /\ nops' \in 0..MaxOp /\ nextId' \in Nat
           /\ hs' \subseteq OpId
           /\ reqQ' \in Seq(OpId) /\ indQ' \in Seq(OpId) /\ wrQ' \in Seq(OpId)
<1>1. nops + 1 \in OpId /\ nops' = nops + 1 /\ nops' \in 0..MaxOp
  BY BoundAssumption DEF SendOp, CreateOp, OpId, TypeOK
<1>2. info' \in [OpId -> OpInfo] /\ nextId' \in Nat
  BY <1>1 DEF SendOp, CreateOp, OpInfo, TypeOK
<1>3. hs' \subseteq OpId
  BY <1>1 DEF SendOp, CreateOp, TypeOK
<1>4. reqQ' \in Seq(OpId) /\ indQ' \in Seq(OpId) /\ wrQ' \in Seq(OpId)
  BY <1>1 DEF SendOp, TypeOK
<1> QED
  BY <1>1, <1>2, <1>3, <1>4

\* Destroying ops keeps the types of the counters and of the handlers.
LEMMA DestroyType ==
    ASSUME TypeOK, NEW S, Destroy(S)
    PROVE  /\ hs' \subseteq OpId
           /\ dtors' \in [OpId -> Nat] /\ frees' \in [OpId -> Nat]
           /\ again' \subseteq OpId
  BY PlusType DEF Destroy, TypeOK

\* Destroying ops runs their destroy handlers, and none of them again.
LEMMA DestroyRuns ==
    ASSUME TypeOK, NEW S
    PROVE  RunDestroy(S, {}) <=> /\ dtors' = Plus(dtors, S \cap hs)
                                 /\ hs' = hs \ S /\ UNCHANGED again
<1>1. Plus(Plus(dtors, S \cap hs), {}) = Plus(dtors, S \cap hs)
  BY DEF Plus, TypeOK
<1>2. again \cup {} = again
  OBVIOUS
<1> QED
  BY <1>1, <1>2 DEF RunDestroy

\* Running their destroy handlers keeps them too.
LEMMA RunDestroyType ==
    ASSUME TypeOK, NEW S, NEW A \in SUBSET OpId, RunDestroy(S, A)
    PROVE  /\ hs' \subseteq OpId /\ dtors' \in [OpId -> Nat]
           /\ again' \subseteq OpId
<1>1. Plus(dtors, S \cap hs) \in [OpId -> Nat]
  BY PlusType DEF TypeOK
<1> QED
  BY <1>1, PlusType DEF RunDestroy, TypeOK

\* A pending op is destroyed like others, or its own handler has it cancelled.
LEMMA EndsPending ==
    ASSUME TypeOK, NEW o, DestroyPending(o)
    PROVE  \/ Destroy({o}) /\ UNCHANGED cancelled
           \/ /\ o \in hs /\ hs' = hs \ {o}
              /\ cancelled' = cancelled \cup {o}
              /\ frees' = Plus(frees, {o})
<1>1. PICK A \in SUBSET ({o} \cap hs) :
          RunDestroy({o}, A) /\ cancelled' = cancelled \cup A
  BY DEF DestroyPending
<1>2. CASE A = {}
  <2>1. cancelled \cup {} = cancelled /\ RunDestroy({o}, {})
    BY <1>1, <1>2
  <2> QED
    BY <1>1, <1>2, <2>1, DestroyRuns DEF DestroyPending, Destroy
<1>3. CASE A # {}
  <2>1. A = {o} /\ o \in hs
    BY <1>1, <1>3
  <2> QED
    BY <1>1, <2>1 DEF DestroyPending, RunDestroy
<1> QED
  BY <1>2, <1>3

\* So does destroying a pending op.
LEMMA DestroyPendingType ==
    ASSUME TypeOK, NEW o, DestroyPending(o)
    PROVE  /\ hs' \subseteq OpId /\ again' \subseteq OpId
           /\ cancelled' \subseteq OpId
           /\ dtors' \in [OpId -> Nat] /\ frees' \in [OpId -> Nat]
<1>1. PICK A \in SUBSET ({o} \cap hs) :
          RunDestroy({o}, A) /\ cancelled' = cancelled \cup A
  BY DEF DestroyPending
<1>2. A \in SUBSET OpId
  BY DEF TypeOK
<1>3. frees' \in [OpId -> Nat]
  BY PlusType DEF DestroyPending, TypeOK
<1> QED
  BY <1>1, <1>2, <1>3, RunDestroyType DEF TypeOK

\* So does calling back.
LEMMA InvokeType ==
    ASSUME TypeOK, NEW o, NEW r \in {"ok", "error"}, Invoke(o, r)
    PROVE  /\ calls' \in [OpId -> Nat]
           /\ status' \in [OpId -> {"none", "ok", "error"}]
  BY PlusType DEF Invoke, TypeOK

\* A callback frame is a frame.
LEMMA CallFrameType ==
    ASSUME NEW k \in FrameKind, NEW c \in Chan,
           NEW o \in OpId \cup {NoOp}, NEW cb \in BOOLEAN
    PROVE  CallFrame(k, c, o, cb) \in Frame
  BY DEF CallFrame, Frame

\* Whether an op has a callback is a truth value.
LEMMA HasCallbackType == \A o : HasCallback(o) \in BOOLEAN
  BY DEF HasCallback

\* The frames without an op.
LEMMA IdleFrameType == IdleFrame \in Frame /\ ExitFrame \in Frame
<1>1. IdleFrame \in Frame
  BY DEF IdleFrame, Frame, FrameKind
<1> QED
  BY <1>1 DEF ExitFrame, Frame, FrameKind

\* The fields of the frame; a handler that works on a channel has one.
LEMMA FrameFields ==
    ASSUME TypeOK
    PROVE  /\ frame.op \in OpId \cup {NoOp}
           /\ frame.todo \in Seq(OpId)
           /\ frame.k \in {"idle", "exit"} \/ frame.c \in Chan
  BY DEF TypeOK, Frame

\* Going on with another list of ops to flush.
LEMMA FrameNext ==
    ASSUME TypeOK, frame.c \in Chan, NEW k \in FrameKind, NEW s \in Seq(OpId)
    PROVE  [frame EXCEPT !.k = k, !.todo = s] \in Frame
  BY DEF TypeOK, Frame

\* A security retry keeps the types of the queue and of the level.
LEMMA RetryType ==
    ASSUME TypeOK, NEW c \in Chan, NEW e, RspRetry(c, e)
    PROVE  reqQ' \in Seq(OpId) /\ sec' \in [Chan -> LOW..FIPS]
<1>1. pendingReq[c] \in OpId
  BY DEF RspRetry, TypeOK
<1>2. reqQ' \in Seq(OpId)
  BY <1>1 DEF RspRetry, Cons, TypeOK
<1>3. ChangeSecurity(sec[c], e) \in LOW..FIPS
  BY DEF RspRetry, ChangeSecurity, LOW, MEDIUM, HIGH, FIPS, TypeOK
<1> QED
  BY <1>2, <1>3 DEF RspRetry, TypeOK

\* The last bt_att_unref keeps the types.
LEMMA FreeType ==
    ASSUME TypeOK, Free
    PROVE  /\ alive' \in BOOLEAN /\ chans' \in Seq(Chan)
           /\ reqQ' \in Seq(OpId) /\ indQ' \in Seq(OpId) /\ wrQ' \in Seq(OpId)
           /\ armed' \subseteq OpId
           /\ pendingReq' \in [Chan -> OpId \cup {NoOp}]
           /\ pendingInd' \in [Chan -> OpId \cup {NoOp}]
           /\ cq' \in [Chan -> Seq(OpId)]
           /\ writer' \subseteq Chan /\ reader' \subseteq Chan
           /\ sock' \in [Chan -> SockState]
           /\ hs' \subseteq OpId
           /\ dtors' \in [OpId -> Nat] /\ frees' \in [OpId -> Nat]
           /\ again' \subseteq OpId
<1>1. /\ hs' \subseteq OpId
      /\ dtors' \in [OpId -> Nat] /\ frees' \in [OpId -> Nat]
      /\ again' \subseteq OpId
  BY DestroyType DEF Free
<1>2. alive' \in BOOLEAN
  BY DEF Free
<1>3. chans' \in Seq(Chan)
  BY DEF Free
<1>4. reqQ' \in Seq(OpId) /\ indQ' \in Seq(OpId) /\ wrQ' \in Seq(OpId)
  BY DEF Free
<1>5. armed' \subseteq OpId /\ writer' \subseteq Chan /\ reader' \subseteq Chan
  BY DEF Free, TypeOK
<1>6. /\ pendingReq' \in [Chan -> OpId \cup {NoOp}]
      /\ pendingInd' \in [Chan -> OpId \cup {NoOp}]
      /\ cq' \in [Chan -> Seq(OpId)]
  BY DEF Free, TypeOK
<1>7. sock' \in [Chan -> SockState]
  BY DEF Free, TypeOK, SockState
<1> QED
  BY <1>1, <1>2, <1>3, <1>4, <1>5, <1>6, <1>7

-----------------------------------------------------------------------------
(* Type correctness: one lemma per part of Next, one step per action *)

\* bt_att_new makes a well-typed bearer.
LEMMA TypeInit == Init => TypeOK
  BY ChanAssumption, MtuAssumption, BoundAssumption, IdleFrameType
     DEF Init, TypeOK, OpInfo, OpType, OpId, LOW, FIPS, SockState, NoOp

\* The calls of the client keep the types.
LEMMA TypeClient ==
    ASSUME TypeOK, Client
    PROVE  TypeOK'
<1> USE DEF attVars, queues, opVars, chanCfg, peer, history
<1>1. ASSUME NEW t \in ClientTypes, NEW oc \in Opcode, NEW len \in Lens,
               Send(t, oc, len)
      PROVE  TypeOK'
  <2>1. UNCHANGED <<alive, clientRef, chans, mtu, setMtus, armed, cmtu, sec,
                     pendingReq, pendingInd, cq, reader, inReq, sock, frame,
                     owed, peerReq, served, calls, status, dtors, frees,
                     cancelled, again>>
    BY <1>1 DEF Send
  <2>2. /\ reqQ' \in Seq(OpId)
        /\ indQ' \in Seq(OpId)
        /\ wrQ' \in Seq(OpId)
        /\ info' \in [OpId -> OpInfo]
        /\ nops' \in 0..MaxOp
        /\ nextId' \in Nat
        /\ hs' \subseteq OpId
    BY <1>1, SendOpType, MtuAssumption, TypeAssumption DEF Send, OpType
  <2>3. writer' \subseteq Chan
    BY <1>1, AttachedType DEF Send, WakeAll, TypeOK
  <2> QED
    BY <2>1, <2>2, <2>3 DEF TypeOK
<1>2. ASSUME NEW c \in Chan, NEW len \in Lens, ChanSendRsp(c, len)
      PROVE  TypeOK'
  <2>1. UNCHANGED <<alive, clientRef, chans, mtu, setMtus, reqQ, indQ, wrQ,
                     nextId, armed, cmtu, sec, pendingReq, pendingInd,
                     reader, inReq, sock, frame, owed, peerReq, served,
                     calls, status, dtors, frees, cancelled, again>>
    BY <1>2 DEF ChanSendRsp, CreateOp
  <2>2. /\ nops' \in 0..MaxOp
        /\ hs' \subseteq OpId
    BY <1>2, BoundAssumption DEF ChanSendRsp, CreateOp, OpId, TypeOK
  <2>3. info' \in [OpId -> OpInfo]
    BY <1>2, MtuAssumption, BoundAssumption DEF ChanSendRsp, CreateOp,
        OpInfo, OpType, OpId, TypeOK
  <2>4. cq' \in [Chan -> Seq(OpId)]
    BY <1>2, BoundAssumption DEF ChanSendRsp, CreateOp, OpId, TypeOK
  <2>5. writer' \subseteq Chan
    BY <1>2 DEF ChanSendRsp, WakeChan, TypeOK
  <2> QED
    BY <2>1, <2>2, <2>3, <2>4, <2>5 DEF TypeOK
<1>3. ASSUME NEW id \in 1..MaxOp, Cancel(id)
      PROVE  TypeOK'
  <2>1. UNCHANGED <<alive, clientRef, chans, mtu, setMtus, info, nops,
                     nextId, armed, cmtu, sec, pendingReq, pendingInd,
                     reader, inReq, sock, frame, owed, peerReq, served,
                     calls, status>>
    BY <1>3 DEF Cancel
  <2>2. ASSUME NEW o \in OpId, CancelPending(o)
        PROVE  TypeOK'
    <3>1. PICK A \in SUBSET ({o} \cap hs) : RunDestroy({o}, A)
      BY <2>2 DEF CancelPending
    <3>2. /\ hs' \subseteq OpId /\ cancelled' \subseteq OpId
          /\ dtors' \in [OpId -> Nat] /\ again' \subseteq OpId
      BY <2>2, <3>1, RunDestroyType DEF CancelPending, TypeOK
    <3>3. UNCHANGED <<reqQ, indQ, wrQ, cq, writer, frees>>
      BY <2>2 DEF CancelPending
    <3> QED
      BY <2>1, <3>2, <3>3 DEF TypeOK
  <2>3. ASSUME NEW i \in 1..Len(reqQ), CancelQueued(reqQ[i]),
               reqQ' = RemoveAt(reqQ, i), UNCHANGED <<indQ, wrQ, cq>>, WakeAll
        PROVE  TypeOK'
    <3>1. reqQ[i] \in OpId
      BY DEF TypeOK
    <3>2. /\ hs' \subseteq OpId /\ cancelled' \subseteq OpId
          /\ dtors' \in [OpId -> Nat] /\ frees' \in [OpId -> Nat]
          /\ again' \subseteq OpId
      BY <2>3, <3>1, DestroyType DEF CancelQueued, TypeOK
    <3>3. reqQ' \in Seq(OpId)
      BY <2>3, RemoveAtProperties DEF TypeOK
    <3>4. writer' \subseteq Chan
      BY <2>3, AttachedType DEF WakeAll, TypeOK
    <3> QED
      BY <2>1, <2>3, <3>2, <3>3, <3>4 DEF TypeOK
  <2>4. ASSUME NEW i \in 1..Len(indQ), CancelQueued(indQ[i]),
               indQ' = RemoveAt(indQ, i), UNCHANGED <<reqQ, wrQ, cq>>, WakeAll
        PROVE  TypeOK'
    <3>1. indQ[i] \in OpId
      BY DEF TypeOK
    <3>2. /\ hs' \subseteq OpId /\ cancelled' \subseteq OpId
          /\ dtors' \in [OpId -> Nat] /\ frees' \in [OpId -> Nat]
          /\ again' \subseteq OpId
      BY <2>4, <3>1, DestroyType DEF CancelQueued, TypeOK
    <3>3. indQ' \in Seq(OpId)
      BY <2>4, RemoveAtProperties DEF TypeOK
    <3>4. writer' \subseteq Chan
      BY <2>4, AttachedType DEF WakeAll, TypeOK
    <3> QED
      BY <2>1, <2>4, <3>2, <3>3, <3>4 DEF TypeOK
  <2>5. ASSUME NEW i \in 1..Len(wrQ), CancelQueued(wrQ[i]),
               wrQ' = RemoveAt(wrQ, i), UNCHANGED <<reqQ, indQ, cq>>, WakeAll
        PROVE  TypeOK'
    <3>1. wrQ[i] \in OpId
      BY DEF TypeOK
    <3>2. /\ hs' \subseteq OpId /\ cancelled' \subseteq OpId
          /\ dtors' \in [OpId -> Nat] /\ frees' \in [OpId -> Nat]
          /\ again' \subseteq OpId
      BY <2>5, <3>1, DestroyType DEF CancelQueued, TypeOK
    <3>3. wrQ' \in Seq(OpId)
      BY <2>5, RemoveAtProperties DEF TypeOK
    <3>4. writer' \subseteq Chan
      BY <2>5, AttachedType DEF WakeAll, TypeOK
    <3> QED
      BY <2>1, <2>5, <3>2, <3>3, <3>4 DEF TypeOK
  <2> QED
    BY <1>3, <2>2, <2>3, <2>4, <2>5 DEF Cancel
<1>4. ASSUME CancelAll
      PROVE  TypeOK'
  <2>1. UNCHANGED <<alive, clientRef, chans, mtu, setMtus, info, nops,
                     nextId, armed, cmtu, sec, pendingReq, pendingInd, cq,
                     writer, reader, inReq, sock, frame, owed, peerReq,
                     served, calls, status>>
    BY <1>4 DEF CancelAll
  <2>2. /\ reqQ' \in Seq(OpId)
        /\ indQ' \in Seq(OpId)
        /\ wrQ' \in Seq(OpId)
    BY <1>4 DEF CancelAll
  <2>5. frees' \in [OpId -> Nat]
    BY <1>4, PlusType DEF CancelAll, TypeOK
  <2>3. /\ hs' \subseteq OpId
        /\ dtors' \in [OpId -> Nat]
        /\ again' \subseteq OpId
    <3>1. PICK A \in SUBSET (PendingOps \cap hs) :
              RunDestroy(QueuedOps \cup PendingOps, A)
      BY <1>4 DEF CancelAll
    <3>2. A \in SUBSET OpId
      BY DEF TypeOK
    <3> QED
      BY <3>1, <3>2, RunDestroyType
  <2>4. cancelled' \subseteq OpId
    BY <1>4, HeldType DEF CancelAll, TypeOK
  <2> QED
    BY <2>1, <2>2, <2>3, <2>4, <2>5 DEF TypeOK
<1>5. ASSUME NEW m \in Mtus, SetMtu(m)
      PROVE  TypeOK'
  <2>1. UNCHANGED <<alive, clientRef, chans, reqQ, indQ, wrQ, info, nops,
                     nextId, hs, armed, sec, pendingReq, pendingInd, cq,
                     writer, reader, inReq, sock, frame, owed, peerReq,
                     served, calls, status, dtors, frees, cancelled, again>>
    BY <1>5 DEF SetMtu
  <2>2. m \in Nat
    BY MtuAssumption
  <2>3. setMtus' \in Nat /\ mtu' \in Nat
    BY <1>5, <2>2 DEF SetMtu, TypeOK
  <2>4. cmtu' \in [Chan -> Nat]
    BY <1>5, <2>2 DEF SetMtu, TypeOK
  <2> QED
    BY <2>1, <2>3, <2>4 DEF TypeOK
<1>6. ASSUME NEW l \in ClientLevels, SetSecurity(l)
      PROVE  TypeOK'
  <2>1. UNCHANGED <<alive, clientRef, chans, mtu, setMtus, reqQ, indQ, wrQ,
                     info, nops, nextId, hs, armed, cmtu, pendingReq,
                     pendingInd, cq, writer, reader, inReq, sock, frame,
                     owed, peerReq, served, calls, status, dtors, frees,
                     cancelled, again>>
    BY <1>6 DEF SetSecurity
  <2>2. l \in LOW..FIPS
    BY LevelAssumption DEF LOW, FIPS
  <2>3. sec' \in [Chan -> LOW..FIPS]
    BY <1>6, <2>2 DEF SetSecurity, TypeOK
  <2> QED
    BY <2>1, <2>3 DEF TypeOK
<1>7. ASSUME NEW c \in Chan, NEW m \in Mtus, AttachFd(c, m)
      PROVE  TypeOK'
  <2>1. UNCHANGED <<alive, clientRef, setMtus, reqQ, indQ, wrQ, info, nops,
                     nextId, hs, armed, sec, pendingReq, pendingInd, cq,
                     inReq, frame, owed, peerReq, served, calls, status,
                     dtors, frees, cancelled, again>>
    BY <1>7 DEF AttachFd
  <2>2. chans' \in Seq(Chan)
    BY <1>7 DEF AttachFd, Cons, TypeOK
  <2>3. /\ cmtu' \in [Chan -> Nat]
        /\ mtu' \in Nat
    BY <1>7, MtuAssumption DEF AttachFd, TypeOK
  <2>4. /\ reader' \subseteq Chan
        /\ writer' \subseteq Chan
    BY <1>7 DEF AttachFd, WakeChan, TypeOK
  <2>5. sock' \in [Chan -> SockState]
    BY <1>7 DEF AttachFd, SockState, TypeOK
  <2> QED
    BY <2>1, <2>2, <2>3, <2>4, <2>5 DEF TypeOK
<1>8. ASSUME ClientUnref
      PROVE  TypeOK'
  <2>1. UNCHANGED <<mtu, setMtus, info, nops, nextId, cmtu, sec, inReq,
                     frame, owed, peerReq, served, calls, status, cancelled>>
    BY <1>8 DEF ClientUnref, Free
  <2>2. clientRef' \in BOOLEAN
    BY <1>8 DEF ClientUnref
  <2>3. /\ alive' \in BOOLEAN
        /\ chans' \in Seq(Chan)
        /\ reqQ' \in Seq(OpId)
        /\ indQ' \in Seq(OpId)
        /\ wrQ' \in Seq(OpId)
        /\ armed' \subseteq OpId
        /\ pendingReq' \in [Chan -> OpId \cup {NoOp}]
        /\ pendingInd' \in [Chan -> OpId \cup {NoOp}]
        /\ cq' \in [Chan -> Seq(OpId)]
        /\ writer' \subseteq Chan
        /\ reader' \subseteq Chan
        /\ sock' \in [Chan -> SockState]
        /\ hs' \subseteq OpId
        /\ dtors' \in [OpId -> Nat]
        /\ frees' \in [OpId -> Nat]
        /\ again' \subseteq OpId
    BY <1>8, FreeType DEF ClientUnref, TypeOK
  <2> QED
    BY <2>1, <2>2, <2>3 DEF TypeOK
<1> QED
  BY <1>1, <1>2, <1>3, <1>4, <1>5, <1>6, <1>7, <1>8 DEF Client

\* So does what arrives from the peer and from the kernel.
LEMMA TypeEnvironment ==
    ASSUME TypeOK, Environment
    PROVE  TypeOK'
<1> USE DEF attVars, queues, opVars, chanCfg, peer, history
<1>1. ASSUME NEW c \in Chan, NEW o \in OpId, NEW e \in Ecode,
               PeerAnswers(c, o, e)
      PROVE  TypeOK'
  <2>1. UNCHANGED <<alive, clientRef, chans, mtu, setMtus, indQ, wrQ, info,
                     nops, nextId, hs, cmtu, pendingInd, cq, reader, inReq,
                     peerReq, dtors, frees, cancelled, again>>
    BY <1>1 DEF PeerAnswers, HandleRsp, RspUnexpected, RspRetry, RspDeliver
  <2>2. /\ reqQ' \in Seq(OpId)
        /\ pendingReq' \in [Chan -> OpId \cup {NoOp}]
    <3>1. reqQ' = reqQ \/ RspRetry(c, e)
      BY <1>1 DEF PeerAnswers, HandleRsp, RspUnexpected, RspDeliver
    <3>2. \/ pendingReq' = pendingReq
          \/ pendingReq' = [pendingReq EXCEPT ![c] = NoOp]
      BY <1>1 DEF PeerAnswers, HandleRsp, RspUnexpected, RspRetry, RspDeliver
    <3> QED
      BY <3>1, <3>2, RetryType DEF TypeOK
  <2>3. /\ armed' \subseteq OpId
        /\ writer' \subseteq Chan
    BY <1>1 DEF PeerAnswers, HandleRsp, RspUnexpected, RspRetry, RspDeliver,
        WakeChan, TypeOK
  <2>4. sec' \in [Chan -> LOW..FIPS]
    <3>1. sec' = sec \/ RspRetry(c, e)
      BY <1>1 DEF PeerAnswers, HandleRsp, RspUnexpected, RspDeliver
    <3> QED
      BY <3>1, RetryType DEF TypeOK
  <2>5. sock' \in [Chan -> SockState]
    BY <1>1 DEF PeerAnswers, HandleRsp, RspUnexpected, RspRetry, RspDeliver,
        Shutdown, SockState, TypeOK
  <2>6. /\ calls' \in [OpId -> Nat]
        /\ status' \in [OpId -> {"none", "ok", "error"}]
    BY <1>1, InvokeType DEF PeerAnswers, HandleRsp, RspUnexpected, RspRetry,
        RspDeliver, TypeOK
  <2>7. frame' \in Frame
    BY <1>1, CallFrameType, HasCallbackType DEF PeerAnswers, HandleRsp,
        RspUnexpected, RspRetry, RspDeliver, FrameKind, TypeOK
  <2>8. /\ owed' \in [Chan -> SUBSET OpId]
        /\ served' \subseteq OpId
    BY <1>1 DEF PeerAnswers, TypeOK
  <2> QED
    BY <2>1, <2>2, <2>3, <2>4, <2>5, <2>6, <2>7, <2>8 DEF TypeOK
<1>2. ASSUME NEW c \in Chan, NEW oc \in Opcode \cup {NoOpcode},
               NEW e \in Ecode, RogueRsp(c, oc, e)
      PROVE  TypeOK'
  <2>1. UNCHANGED <<alive, clientRef, chans, mtu, setMtus, indQ, wrQ, info,
                     nops, nextId, hs, cmtu, pendingInd, cq, reader, inReq,
                     owed, peerReq, served, dtors, frees, cancelled, again>>
    BY <1>2 DEF RogueRsp, HandleRsp, RspUnexpected, RspRetry, RspDeliver
  <2>2. /\ reqQ' \in Seq(OpId)
        /\ pendingReq' \in [Chan -> OpId \cup {NoOp}]
    <3>1. reqQ' = reqQ \/ RspRetry(c, e)
      BY <1>2 DEF RogueRsp, HandleRsp, RspUnexpected, RspDeliver
    <3>2. \/ pendingReq' = pendingReq
          \/ pendingReq' = [pendingReq EXCEPT ![c] = NoOp]
      BY <1>2 DEF RogueRsp, HandleRsp, RspUnexpected, RspRetry, RspDeliver
    <3> QED
      BY <3>1, <3>2, RetryType DEF TypeOK
  <2>3. /\ armed' \subseteq OpId
        /\ writer' \subseteq Chan
    BY <1>2 DEF RogueRsp, HandleRsp, RspUnexpected, RspRetry, RspDeliver,
        WakeChan, TypeOK
  <2>4. sec' \in [Chan -> LOW..FIPS]
    <3>1. sec' = sec \/ RspRetry(c, e)
      BY <1>2 DEF RogueRsp, HandleRsp, RspUnexpected, RspDeliver
    <3> QED
      BY <3>1, RetryType DEF TypeOK
  <2>5. sock' \in [Chan -> SockState]
    BY <1>2 DEF RogueRsp, HandleRsp, RspUnexpected, RspRetry, RspDeliver,
        Shutdown, SockState, TypeOK
  <2>6. /\ calls' \in [OpId -> Nat]
        /\ status' \in [OpId -> {"none", "ok", "error"}]
    BY <1>2, InvokeType DEF RogueRsp, HandleRsp, RspUnexpected, RspRetry,
        RspDeliver, TypeOK
  <2>7. frame' \in Frame
    BY <1>2, CallFrameType, HasCallbackType DEF RogueRsp, HandleRsp,
        RspUnexpected, RspRetry, RspDeliver, FrameKind, TypeOK
  <2> QED
    BY <2>1, <2>2, <2>3, <2>4, <2>5, <2>6, <2>7 DEF TypeOK
<1>3. ASSUME NEW c \in Chan, NEW o \in OpId, PeerConfirms(c, o)
      PROVE  TypeOK'
  <2>1. UNCHANGED <<alive, clientRef, chans, mtu, setMtus, reqQ, indQ, wrQ,
                     info, nops, nextId, hs, armed, cmtu, sec, pendingReq,
                     pendingInd, cq, writer, reader, inReq, peerReq, dtors,
                     frees, cancelled, again>>
    BY <1>3 DEF PeerConfirms, HandleConf
  <2>2. /\ owed' \in [Chan -> SUBSET OpId]
        /\ served' \subseteq OpId
    BY <1>3 DEF PeerConfirms, TypeOK
  <2>3. sock' \in [Chan -> SockState]
    BY <1>3 DEF PeerConfirms, HandleConf, Shutdown, SockState, TypeOK
  <2>4. /\ calls' \in [OpId -> Nat]
        /\ status' \in [OpId -> {"none", "ok", "error"}]
    BY <1>3, InvokeType DEF PeerConfirms, HandleConf, TypeOK
  <2>5. frame' \in Frame
    BY <1>3, CallFrameType, HasCallbackType DEF PeerConfirms, HandleConf,
        FrameKind, TypeOK
  <2> QED
    BY <2>1, <2>2, <2>3, <2>4, <2>5 DEF TypeOK
<1>4. ASSUME NEW c \in Chan, NEW empty \in BOOLEAN, RogueConf(c, empty)
      PROVE  TypeOK'
  <2>1. UNCHANGED <<alive, clientRef, chans, mtu, setMtus, reqQ, indQ, wrQ,
                     info, nops, nextId, hs, armed, cmtu, sec, pendingReq,
                     pendingInd, cq, writer, reader, inReq, owed, peerReq,
                     served, dtors, frees, cancelled, again>>
    BY <1>4 DEF RogueConf, HandleConf
  <2>2. sock' \in [Chan -> SockState]
    BY <1>4 DEF RogueConf, HandleConf, Shutdown, SockState, TypeOK
  <2>3. /\ calls' \in [OpId -> Nat]
        /\ status' \in [OpId -> {"none", "ok", "error"}]
    BY <1>4, InvokeType DEF RogueConf, HandleConf, TypeOK
  <2>4. frame' \in Frame
    BY <1>4, CallFrameType, HasCallbackType DEF RogueConf, HandleConf,
        FrameKind, TypeOK
  <2> QED
    BY <2>1, <2>2, <2>3, <2>4 DEF TypeOK
<1>5. ASSUME NEW c \in Chan, PeerRequestTwice(c)
      PROVE  TypeOK'
  <2>1. UNCHANGED <<alive, clientRef, chans, mtu, setMtus, reqQ, indQ, wrQ,
                     info, nops, nextId, hs, armed, cmtu, sec, pendingReq,
                     pendingInd, cq, writer, inReq, frame, owed, served,
                     calls, status, dtors, frees, cancelled, again>>
    BY <1>5 DEF PeerRequestTwice
  <2>2. sock' \in [Chan -> SockState]
    BY <1>5 DEF PeerRequestTwice, Shutdown, SockState, TypeOK
  <2>3. /\ reader' \subseteq Chan
        /\ peerReq' \subseteq Chan
    BY <1>5 DEF PeerRequestTwice, TypeOK
  <2> QED
    BY <2>1, <2>2, <2>3 DEF TypeOK
<1>6. ASSUME NEW c \in Chan, ReadError(c)
      PROVE  TypeOK'
  <2>1. UNCHANGED <<alive, clientRef, chans, mtu, setMtus, reqQ, indQ, wrQ,
                     info, nops, nextId, hs, armed, cmtu, sec, pendingReq,
                     pendingInd, cq, writer, inReq, sock, frame, owed,
                     peerReq, served, calls, status, dtors, frees,
                     cancelled, again>>
    BY <1>6 DEF ReadError
  <2>2. reader' \subseteq Chan
    BY <1>6 DEF ReadError, TypeOK
  <2> QED
    BY <2>1, <2>2 DEF TypeOK
<1>7. ASSUME NEW c \in Chan, PeerHangup(c)
      PROVE  TypeOK'
  <2>1. UNCHANGED <<alive, clientRef, chans, mtu, setMtus, reqQ, indQ, wrQ,
                     info, nops, nextId, hs, armed, cmtu, sec, pendingReq,
                     pendingInd, cq, writer, reader, inReq, frame, owed,
                     peerReq, served, calls, status, dtors, frees,
                     cancelled, again>>
    BY <1>7 DEF PeerHangup
  <2>2. sock' \in [Chan -> SockState]
    BY <1>7 DEF PeerHangup, SockState, TypeOK
  <2> QED
    BY <2>1, <2>2 DEF TypeOK
<1>8. ASSUME NEW c \in Chan, NEW t \in PeerTypes, PeerSendsHandled(c, t)
      PROVE  TypeOK'
  <2>1. UNCHANGED <<alive, clientRef, chans, mtu, setMtus, reqQ, indQ, wrQ,
                     info, nops, nextId, hs, armed, cmtu, sec, pendingReq,
                     pendingInd, cq, writer, reader, sock, owed, served,
                     calls, status, dtors, frees, cancelled, again>>
    BY <1>8 DEF PeerSendsHandled
  <2>2. /\ inReq' \subseteq Chan
        /\ peerReq' \subseteq Chan
    BY <1>8 DEF PeerSendsHandled, Arrives, TypeOK
  <2>3. frame' \in Frame
    BY <1>8, CallFrameType DEF PeerSendsHandled, FrameKind, TypeOK
  <2> QED
    BY <2>1, <2>2, <2>3 DEF TypeOK
<1>9. ASSUME NEW c \in Chan, NEW t \in PeerTypes, PeerSendsUnhandled(c, t)
      PROVE  TypeOK'
  <2>1. UNCHANGED <<alive, clientRef, chans, mtu, setMtus, armed, cmtu, sec,
                     pendingReq, pendingInd, cq, reader, sock, frame, owed,
                     served, calls, status, dtors, frees, cancelled, again>>
    BY <1>9 DEF PeerSendsUnhandled
  <2>2. /\ inReq' \subseteq Chan
        /\ peerReq' \subseteq Chan
    BY <1>9 DEF PeerSendsUnhandled, Arrives, TypeOK
  <2>3. /\ reqQ' \in Seq(OpId)
        /\ indQ' \in Seq(OpId)
        /\ wrQ' \in Seq(OpId)
        /\ info' \in [OpId -> OpInfo]
        /\ nops' \in 0..MaxOp
        /\ nextId' \in Nat
        /\ hs' \subseteq OpId
    BY <1>9, SendOpType DEF PeerSendsUnhandled, OpType, ErrorRspLen
  <2>4. writer' \subseteq Chan
    BY <1>9, AttachedType DEF PeerSendsUnhandled, WakeAll, TypeOK
  <2> QED
    BY <2>1, <2>2, <2>3, <2>4 DEF TypeOK
<1> QED
  BY <1>1, <1>2, <1>3, <1>4, <1>5, <1>6, <1>7, <1>8,
     <1>9 DEF Environment

\* So do the watches and the timers of the main loop.
LEMMA TypeLoop ==
    ASSUME TypeOK, NEW ch \in Chan, Loop(ch)
    PROVE  TypeOK'
<1> USE DEF attVars, queues, opVars, chanCfg, peer, history
<1>1. ASSUME NEW c \in Chan, WriteNone(c)
      PROVE  TypeOK'
  <2>1. UNCHANGED <<alive, clientRef, chans, mtu, setMtus, reqQ, indQ, wrQ,
                     info, nops, nextId, hs, armed, cmtu, sec, pendingReq,
                     pendingInd, cq, reader, inReq, sock, frame, owed,
                     peerReq, served, calls, status, dtors, frees,
                     cancelled, again>>
    BY <1>1 DEF WriteNone
  <2>2. writer' \subseteq Chan
    BY <1>1 DEF WriteNone, TypeOK
  <2> QED
    BY <2>1, <2>2 DEF TypeOK
<1>2. ASSUME NEW c \in Chan, NEW out \in {"sent", "failed"}, WritePdu(c, out)
      PROVE  TypeOK'
  <2>1. UNCHANGED <<alive, clientRef, chans, mtu, setMtus, info, nops,
                     nextId, cmtu, sec, writer, reader, sock, frame, served,
                     calls, status, cancelled>>
    BY <1>2 DEF WritePdu
  <2>2. /\ reqQ' \in Seq(OpId)
        /\ indQ' \in Seq(OpId)
        /\ wrQ' \in Seq(OpId)
        /\ cq' \in [Chan -> Seq(OpId)]
    BY <1>2, PopType DEF WritePdu
  <2>3. /\ pendingReq' \in [Chan -> OpId \cup {NoOp}]
        /\ pendingInd' \in [Chan -> OpId \cup {NoOp}]
    BY <1>2, PickedType DEF WritePdu, TypeOK
  <2>4. /\ armed' \subseteq OpId
        /\ inReq' \subseteq Chan
    BY <1>2, PickedType DEF WritePdu, TypeOK
  <2>5. /\ owed' \in [Chan -> SUBSET OpId]
        /\ peerReq' \subseteq Chan
    BY <1>2, PickedType DEF WritePdu, TypeOK
  <2>6. /\ hs' \subseteq OpId
        /\ dtors' \in [OpId -> Nat]
        /\ frees' \in [OpId -> Nat]
        /\ again' \subseteq OpId
    BY <1>2, DestroyType DEF WritePdu
  <2> QED
    BY <2>1, <2>2, <2>3, <2>4, <2>5, <2>6 DEF TypeOK
<1>3. ASSUME NEW c \in Chan, WriteZero(c)
      PROVE  TypeOK'
  <2>1. UNCHANGED <<alive, clientRef, chans, mtu, setMtus, info, nops,
                     nextId, hs, armed, cmtu, sec, pendingReq, pendingInd,
                     writer, reader, inReq, sock, owed, peerReq, served,
                     dtors, frees, cancelled, again>>
    BY <1>3 DEF WriteZero
  <2>2. /\ reqQ' \in Seq(OpId)
        /\ indQ' \in Seq(OpId)
        /\ wrQ' \in Seq(OpId)
        /\ cq' \in [Chan -> Seq(OpId)]
    BY <1>3, PopType DEF WriteZero
  <2>3. /\ calls' \in [OpId -> Nat]
        /\ status' \in [OpId -> {"none", "ok", "error"}]
    BY <1>3, InvokeType DEF WriteZero
  <2>4. frame' \in Frame
    BY <1>3, PickedType, CallFrameType, HasCallbackType DEF WriteZero,
        FrameKind
  <2> QED
    BY <2>1, <2>2, <2>3, <2>4 DEF TypeOK
<1>4. ASSUME NEW c \in Chan, NEW o \in OpId, Timeout(c, o)
      PROVE  TypeOK'
  <2>1. UNCHANGED <<alive, clientRef, chans, mtu, setMtus, reqQ, indQ, wrQ,
                     info, nops, nextId, hs, cmtu, sec, cq, writer, reader,
                     inReq, sock, owed, peerReq, served, dtors, frees,
                     cancelled, again>>
    BY <1>4 DEF Timeout
  <2>2. /\ pendingReq' \in [Chan -> OpId \cup {NoOp}]
        /\ pendingInd' \in [Chan -> OpId \cup {NoOp}]
        /\ armed' \subseteq OpId
    BY <1>4 DEF Timeout, TypeOK
  <2>3. /\ calls' \in [OpId -> Nat]
        /\ status' \in [OpId -> {"none", "ok", "error"}]
    BY <1>4, InvokeType DEF Timeout
  <2>4. frame' \in Frame
    BY <1>4, CallFrameType, HasCallbackType DEF Timeout, FrameKind
  <2> QED
    BY <2>1, <2>2, <2>3, <2>4 DEF TypeOK
<1>5. ASSUME NEW c \in Chan, WatchError(c)
      PROVE  TypeOK'
  <2>1. UNCHANGED <<alive, clientRef, chans, mtu, setMtus, reqQ, indQ, wrQ,
                     info, nops, nextId, hs, armed, cmtu, sec, pendingReq,
                     pendingInd, cq, inReq, sock, frame, owed, peerReq,
                     served, calls, status, dtors, frees, cancelled, again>>
    BY <1>5 DEF WatchError
  <2>2. /\ reader' \subseteq Chan
        /\ writer' \subseteq Chan
    BY <1>5 DEF WatchError, TypeOK
  <2> QED
    BY <2>1, <2>2 DEF TypeOK
<1>6. ASSUME NEW c \in Chan, Disconnect(c)
      PROVE  TypeOK'
  <2>1. UNCHANGED <<alive, clientRef, mtu, setMtus, indQ, wrQ, info, nops,
                     nextId, hs, armed, cmtu, sec, pendingReq, pendingInd,
                     cq, writer, reader, inReq, sock, owed, peerReq, served,
                     calls, status, dtors, frees, cancelled, again>>
    BY <1>6 DEF Disconnect
  <2>2. /\ chans' \in Seq(Chan)
        /\ reqQ' \in Seq(OpId)
    BY <1>6, RemoveAtProperties DEF Disconnect, TypeOK
  <2>3. frame' \in Frame
    BY <1>6 DEF Disconnect, Frame, FrameKind, TypeOK
  <2> QED
    BY <2>1, <2>2, <2>3 DEF TypeOK
<1> QED
  BY <1>1, <1>2, <1>3, <1>4, <1>5, <1>6 DEF Loop

\* So does the rest of a handler, after the callback has returned.
LEMMA TypeReturn ==
    ASSUME TypeOK, Return
    PROVE  TypeOK'
<1> USE DEF attVars, queues, opVars, chanCfg, peer, history
<1>1. ASSUME ReturnZero
      PROVE  TypeOK'
  <2>1. UNCHANGED <<alive, clientRef, chans, mtu, setMtus, reqQ, indQ, wrQ,
                     info, nops, nextId, armed, cmtu, sec, pendingReq,
                     pendingInd, cq, writer, reader, inReq, sock, owed,
                     peerReq, served, calls, status, cancelled>>
    BY <1>1 DEF ReturnZero
  <2>2. /\ hs' \subseteq OpId
        /\ dtors' \in [OpId -> Nat]
        /\ frees' \in [OpId -> Nat]
        /\ again' \subseteq OpId
    BY <1>1, DestroyType DEF ReturnZero
  <2>3. frame' \in Frame
    BY <1>1, IdleFrameType DEF ReturnZero
  <2> QED
    BY <2>1, <2>2, <2>3 DEF TypeOK
<1>2. ASSUME NEW c \in Chan, ReturnRsp(c)
      PROVE  TypeOK'
  <2>1. UNCHANGED <<alive, clientRef, chans, mtu, setMtus, reqQ, indQ, wrQ,
                     info, nops, nextId, cmtu, sec, pendingInd, cq, reader,
                     inReq, sock, owed, peerReq, served, calls, status>>
    BY <1>2 DEF ReturnRsp
  <2>2. /\ hs' \subseteq OpId
        /\ dtors' \in [OpId -> Nat]
        /\ frees' \in [OpId -> Nat]
        /\ again' \subseteq OpId
        /\ cancelled' \subseteq OpId
    BY <1>2, DestroyPendingType DEF ReturnRsp
  <2>3. frame' \in Frame
    BY <1>2, IdleFrameType DEF ReturnRsp
  <2>4. /\ armed' \subseteq OpId
        /\ pendingReq' \in [Chan -> OpId \cup {NoOp}]
        /\ writer' \subseteq Chan
    BY <1>2 DEF ReturnRsp, WakeChan, TypeOK
  <2> QED
    BY <2>1, <2>2, <2>3, <2>4 DEF TypeOK
<1>3. ASSUME NEW c \in Chan, ReturnConf(c)
      PROVE  TypeOK'
  <2>1. UNCHANGED <<alive, clientRef, chans, mtu, setMtus, reqQ, indQ, wrQ,
                     info, nops, nextId, cmtu, sec, pendingReq, cq, reader,
                     inReq, sock, owed, peerReq, served, calls, status>>
    BY <1>3 DEF ReturnConf
  <2>2. /\ hs' \subseteq OpId
        /\ dtors' \in [OpId -> Nat]
        /\ frees' \in [OpId -> Nat]
        /\ again' \subseteq OpId
        /\ cancelled' \subseteq OpId
    BY <1>3, DestroyPendingType DEF ReturnConf
  <2>3. frame' \in Frame
    BY <1>3, IdleFrameType DEF ReturnConf
  <2>4. /\ armed' \subseteq OpId
        /\ pendingInd' \in [Chan -> OpId \cup {NoOp}]
        /\ writer' \subseteq Chan
    BY <1>3 DEF ReturnConf, WakeChan, TypeOK
  <2> QED
    BY <2>1, <2>2, <2>3, <2>4 DEF TypeOK
<1>4. ASSUME ReturnNotify
      PROVE  TypeOK'
  <2>1. UNCHANGED <<alive, clientRef, chans, mtu, setMtus, reqQ, indQ, wrQ,
                     info, nops, nextId, hs, armed, cmtu, sec, pendingReq,
                     pendingInd, cq, writer, reader, inReq, sock, owed,
                     peerReq, served, calls, status, dtors, frees,
                     cancelled, again>>
    BY <1>4 DEF ReturnNotify
  <2>2. frame' \in Frame
    BY <1>4, IdleFrameType DEF ReturnNotify
  <2> QED
    BY <2>1, <2>2 DEF TypeOK
<1>5. ASSUME Exit
      PROVE  TypeOK'
  <2>1. UNCHANGED <<clientRef, mtu, setMtus, info, nops, nextId, cmtu, sec,
                     inReq, owed, peerReq, served, calls, status, cancelled>>
    BY <1>5 DEF Exit, Free
  <2>2. frame' \in Frame
    BY <1>5, IdleFrameType DEF Exit
  <2>3. /\ alive' \in BOOLEAN
        /\ chans' \in Seq(Chan)
        /\ reqQ' \in Seq(OpId)
        /\ indQ' \in Seq(OpId)
        /\ wrQ' \in Seq(OpId)
        /\ armed' \subseteq OpId
        /\ pendingReq' \in [Chan -> OpId \cup {NoOp}]
        /\ pendingInd' \in [Chan -> OpId \cup {NoOp}]
        /\ cq' \in [Chan -> Seq(OpId)]
        /\ writer' \subseteq Chan
        /\ reader' \subseteq Chan
        /\ sock' \in [Chan -> SockState]
        /\ hs' \subseteq OpId
        /\ dtors' \in [OpId -> Nat]
        /\ frees' \in [OpId -> Nat]
        /\ again' \subseteq OpId
    BY <1>5, FreeType DEF Exit, TypeOK
  <2> QED
    BY <2>1, <2>2, <2>3 DEF TypeOK
<1>6. ASSUME ReturnTimeout
      PROVE  TypeOK'
  <2>1. UNCHANGED <<alive, clientRef, chans, mtu, setMtus, reqQ, indQ, wrQ,
                     info, nops, nextId, armed, cmtu, sec, pendingReq,
                     pendingInd, cq, writer, reader, inReq, owed, peerReq,
                     served, calls, status, cancelled>>
    BY <1>6 DEF ReturnTimeout
  <2>2. /\ hs' \subseteq OpId
        /\ dtors' \in [OpId -> Nat]
        /\ frees' \in [OpId -> Nat]
        /\ again' \subseteq OpId
    BY <1>6, DestroyType DEF ReturnTimeout
  <2>3. frame' \in Frame
    BY <1>6, IdleFrameType DEF ReturnTimeout
  <2>4. sock' \in [Chan -> SockState]
    BY <1>6 DEF ReturnTimeout, Shutdown, SockState, TypeOK
  <2> QED
    BY <2>1, <2>2, <2>3, <2>4 DEF TypeOK
<1>7. ASSUME FlushCall
      PROVE  TypeOK'
  <2>1. UNCHANGED <<alive, clientRef, chans, mtu, setMtus, reqQ, indQ, wrQ,
                     info, nops, nextId, hs, armed, cmtu, sec, pendingReq,
                     pendingInd, cq, writer, reader, inReq, sock, owed,
                     peerReq, served, dtors, frees, cancelled, again>>
    BY <1>7 DEF FlushCall
  <2>2. /\ calls' \in [OpId -> Nat]
        /\ status' \in [OpId -> {"none", "ok", "error"}]
    BY <1>7, InvokeType DEF FlushCall
  <2>3. frame' \in Frame
    <3>1. frame.c \in Chan
      BY <1>7, FrameFields DEF FlushCall, Flushing
    <3>2. Head(frame.todo) \in OpId /\ Tail(frame.todo) \in Seq(OpId)
      BY <1>7, FrameFields DEF FlushCall
    <3>3. ASSUME NEW o \in OpId, NEW b \in BOOLEAN, NEW s \in Seq(OpId)
          PROVE  [frame EXCEPT !.op = o, !.cb = b, !.todo = s] \in Frame
      BY <3>1 DEF TypeOK, Frame
    <3> QED
      BY <1>7, <3>2, <3>3, HasCallbackType DEF FlushCall
  <2> QED
    BY <2>1, <2>2, <2>3 DEF TypeOK
<1>8. ASSUME ReturnFlush
      PROVE  TypeOK'
  <2>1. UNCHANGED <<alive, clientRef, chans, mtu, setMtus, reqQ, indQ, wrQ,
                     info, nops, nextId, cmtu, sec, pendingReq, pendingInd,
                     cq, writer, reader, inReq, sock, owed, peerReq, served,
                     calls, status, cancelled>>
    BY <1>8 DEF ReturnFlush
  <2>2. /\ hs' \subseteq OpId
        /\ dtors' \in [OpId -> Nat]
        /\ frees' \in [OpId -> Nat]
        /\ again' \subseteq OpId
    BY <1>8, DestroyType DEF ReturnFlush
  <2>3. armed' \subseteq OpId
    BY <1>8 DEF ReturnFlush, TypeOK
  <2>4. frame' \in Frame
    <3>1. frame.c \in Chan
      BY <1>8, FrameFields DEF ReturnFlush, Flushing
    <3> QED
      BY <1>8, <3>1 DEF ReturnFlush, Frame, TypeOK
  <2> QED
    BY <2>1, <2>2, <2>3, <2>4 DEF TypeOK
<1>9. ASSUME FlushInd
      PROVE  TypeOK'
  <2>1. UNCHANGED <<alive, clientRef, chans, mtu, setMtus, reqQ, wrQ, info,
                     nops, nextId, hs, armed, cmtu, sec, pendingReq,
                     pendingInd, cq, writer, reader, inReq, sock, owed,
                     peerReq, served, calls, status, dtors, frees,
                     cancelled, again>>
    BY <1>9 DEF FlushInd
  <2>2. indQ' \in Seq(OpId)
    BY <1>9 DEF FlushInd
  <2>3. frame.c \in Chan
    BY <1>9, FrameFields DEF FlushInd, FlushDone
  <2>4. frame' \in Frame
    BY <1>9, <2>3, FrameNext DEF FlushInd, FrameKind, TypeOK
  <2> QED
    BY <2>1, <2>2, <2>4 DEF TypeOK
<1>10. ASSUME FlushWrite
      PROVE  TypeOK'
  <2>1. UNCHANGED <<alive, clientRef, chans, mtu, setMtus, reqQ, indQ, info,
                     nops, nextId, hs, armed, cmtu, sec, pendingReq,
                     pendingInd, cq, writer, reader, inReq, sock, owed,
                     peerReq, served, calls, status, dtors, frees,
                     cancelled, again>>
    BY <1>10 DEF FlushWrite
  <2>2. wrQ' \in Seq(OpId)
    BY <1>10 DEF FlushWrite
  <2>3. frame.c \in Chan
    BY <1>10, FrameFields DEF FlushWrite, FlushDone
  <2>4. frame' \in Frame
    BY <1>10, <2>3, FrameNext DEF FlushWrite, FrameKind, TypeOK
  <2> QED
    BY <2>1, <2>2, <2>4 DEF TypeOK
<1>11. ASSUME FlushPending
      PROVE  TypeOK'
  <2>1. UNCHANGED <<alive, clientRef, chans, mtu, setMtus, reqQ, indQ, wrQ,
                     info, nops, nextId, hs, armed, cmtu, sec, cq, writer,
                     reader, inReq, sock, owed, peerReq, served, calls,
                     status, dtors, frees, cancelled, again>>
    BY <1>11 DEF FlushPending
  <2>2. /\ pendingReq' \in [Chan -> OpId \cup {NoOp}]
        /\ pendingInd' \in [Chan -> OpId \cup {NoOp}]
    BY <1>11 DEF FlushPending, TypeOK
  <2>3. frame' \in Frame
    <3>1. frame.c \in Chan
      BY <1>11, FrameFields DEF FlushPending, FlushDone
    <3>2. Single(pendingReq[frame.c]) \o Single(pendingInd[frame.c])
              \in Seq(OpId)
      BY <3>1 DEF Single, TypeOK
    <3> QED
      BY <1>11, <3>1, <3>2, FrameNext DEF FlushPending, FrameKind
  <2> QED
    BY <2>1, <2>2, <2>3 DEF TypeOK
<1>12. ASSUME ChanFree
      PROVE  TypeOK'
  <2>1. UNCHANGED <<alive, clientRef, chans, mtu, setMtus, reqQ, indQ, wrQ,
                     info, nops, nextId, armed, cmtu, sec, pendingReq,
                     pendingInd, inReq, owed, peerReq, served, calls, status,
                     cancelled>>
    BY <1>12 DEF ChanFree
  <2>2. /\ hs' \subseteq OpId
        /\ dtors' \in [OpId -> Nat]
        /\ frees' \in [OpId -> Nat]
        /\ again' \subseteq OpId
    BY <1>12, DestroyType DEF ChanFree
  <2>3. writer' \subseteq Chan /\ reader' \subseteq Chan
    BY <1>12 DEF ChanFree, TypeOK
  <2>4. cq' \in [Chan -> Seq(OpId)]
    <3>1. cq' = [cq EXCEPT ![frame.c] = <<>>] /\ <<>> \in Seq(OpId)
      BY <1>12 DEF ChanFree
    <3> QED
      BY <3>1 DEF TypeOK
  <2>5. sock' \in [Chan -> SockState]
    BY <1>12 DEF ChanFree, SockState, TypeOK
  <2>6. frame' \in Frame
    <3>1. frame.c \in Chan
      BY <1>12, FrameFields DEF ChanFree, FlushDone
    <3> QED
      BY <1>12, <3>1, IdleFrameType, CallFrameType DEF ChanFree, FrameKind
  <2> QED
    BY <2>1, <2>2, <2>3, <2>4, <2>5, <2>6 DEF TypeOK
<1>13. ASSUME ReturnDisconnect
      PROVE  TypeOK'
  <2>1. UNCHANGED <<alive, clientRef, chans, mtu, setMtus, reqQ, indQ, wrQ,
                     info, nops, nextId, hs, armed, cmtu, sec, pendingReq,
                     pendingInd, cq, writer, reader, inReq, sock, owed,
                     peerReq, served, calls, status, dtors, frees,
                     cancelled, again>>
    BY <1>13 DEF ReturnDisconnect
  <2>2. frame' \in Frame
    BY <1>13, IdleFrameType DEF ReturnDisconnect
  <2> QED
    BY <2>1, <2>2 DEF TypeOK
<1> QED
  BY <1>1, <1>2, <1>3, <1>4, <1>5, <1>6, <1>7, <1>8, <1>9, <1>10,
     <1>11, <1>12, <1>13 DEF Return

\* A step that changes nothing keeps the types.
LEMMA TypeStutter ==
    ASSUME TypeOK, UNCHANGED vars
    PROVE  TypeOK'
  BY DEF TypeOK, vars, attVars, queues, opVars, chanCfg, peer, history

\* Every reachable state of the bearer is well typed.  In particular
\* change_security never asks for a level above FIPS, however often requests
\* are retried, and a handler that works on a channel always has one.
THEOREM TypeCorrect == Spec => []TypeOK
<1>1. TypeOK /\ [Next]_vars => TypeOK'
  BY TypeClient, TypeEnvironment, TypeLoop, TypeReturn, TypeStutter DEF Next
<1> QED
  BY TypeInit, <1>1, PTL DEF Spec

-----------------------------------------------------------------------------
(* The callback of an op runs at most once, its destroy handler too unless  *)
(* it cancels the op it destroys, and a cancelled op is never called back:  *)
(* for every number of channels and ops.  The invariant that carries the    *)
(* argument says that an op whose handlers are attached has not been        *)
(* destroyed, is not cancelled, and has not been called back unless its     *)
(* callback is the one that runs.                                           *)

\* The ops of q are among the first n.
AtMost(q, n) == \A i \in 1..Len(q) : q[i] <= n

\* The queues and the pending slots hold only ops that were created.
KnownOps ==
    /\ AtMost(reqQ, nops) /\ AtMost(indQ, nops) /\ AtMost(wrQ, nops)
    /\ \A c \in Chan : AtMost(cq[c], nops)
    /\ \A c \in Chan : pendingReq[c] <= nops /\ pendingInd[c] <= nops

\* A handler that completes no op names none.
FrameOp == frame.k \in {"idle", "exit", "notify", "dhand"} => frame.op = NoOp

HandlerOK(o) ==
    /\ calls[o] <= 1 /\ (dtors[o] <= 1 \/ o \in again)
    /\ o \in hs => /\ o <= nops /\ o \notin cancelled /\ dtors[o] = 0
                   /\ calls[o] = 0 \/ frame.op = o
    /\ o > nops => o \notin cancelled /\ calls[o] = 0 /\ dtors[o] = 0

HandlerInv == \A o \in OpId : HandlerOK(o)

-----------------------------------------------------------------------------
(* What a step does to the handlers: nothing, or one of five things *)

\* The handlers are left alone.
LEMMA HandlersSame ==
    ASSUME TypeOK, HandlerInv,
           UNCHANGED <<calls, dtors, hs, cancelled, again, nops>>,
           frame.op = NoOp \/ frame'.op = frame.op
    PROVE  HandlerInv'
  BY DEF HandlerInv, HandlerOK, TypeOK, OpId, NoOp

\* An op is created.
LEMMA HandlersCreate ==
    ASSUME TypeOK, HandlerInv,
           NEW t, NEW oc, NEW len, NEW id, NEW ans,
           CreateOp(t, oc, len, id, ans),
           UNCHANGED <<calls, dtors, cancelled, again>>,
           frame.op = NoOp \/ frame'.op = frame.op
    PROVE  HandlerInv'
  BY DEF HandlerInv, HandlerOK, CreateOp, TypeOK, OpId, NoOp

\* Ops are destroyed; if the callback of one was running, it has returned.
LEMMA HandlersDestroy ==
    ASSUME TypeOK, HandlerInv, NEW S, Destroy(S),
           UNCHANGED <<calls, cancelled, nops>>,
           frame.op = NoOp \/ frame.op \in S \/ frame'.op = frame.op
    PROVE  HandlerInv'
<1> SUFFICES ASSUME NEW o \in OpId
             PROVE  HandlerOK(o)'
  BY DEF HandlerInv, OpId
<1>1. dtors'[o] = IF o \in S \cap hs THEN dtors[o] + 1 ELSE dtors[o]
  BY DEF Destroy, Plus, TypeOK
<1>2. (o \in hs' <=> o \in hs /\ o \notin S) /\ again' = again
  BY DEF Destroy
<1> QED
  BY <1>1, <1>2 DEF HandlerInv, HandlerOK, TypeOK, OpId, NoOp

\* The callback of an op is called.
LEMMA HandlersInvoke ==
    ASSUME TypeOK, HandlerInv, NEW r, NEW o \in OpId, Invoke(o, r),
           UNCHANGED <<dtors, hs, cancelled, again, nops>>,
           frame.op = NoOp, frame'.op = o
    PROVE  HandlerInv'
<1> SUFFICES ASSUME NEW x \in OpId
             PROVE  HandlerOK(x)'
  BY DEF HandlerInv, OpId
<1>1. calls'[x] = IF x = o /\ HasCallback(o) THEN calls[x] + 1 ELSE calls[x]
  BY DEF Invoke, Plus, TypeOK
<1>2. HasCallback(o) => o \in hs
  BY DEF HasCallback
<1> QED
  BY <1>1, <1>2 DEF HandlerInv, HandlerOK, TypeOK, OpId, NoOp

\* Ops are cancelled, or destroyed while they are pending.
LEMMA HandlersCancel ==
    ASSUME TypeOK, HandlerInv, NEW S, \A o \in S : o <= nops,
           NEW A \in SUBSET (S \cap hs), RunDestroy(S, A),
           cancelled' \subseteq cancelled \cup S,
           UNCHANGED <<calls, nops>>,
           frame.op = NoOp \/ frame.op \in S \/ frame'.op = frame.op
    PROVE  HandlerInv'
<1> SUFFICES ASSUME NEW o \in OpId
             PROVE  HandlerOK(o)'
  BY DEF HandlerInv, OpId
<1>1. /\ o \notin S \cap hs => dtors'[o] = dtors[o]
      /\ o \in S \cap hs /\ o \notin A => dtors'[o] = dtors[o] + 1
  BY DEF RunDestroy, Plus, TypeOK
<1>2. o > nops => o \notin S
  BY DEF TypeOK, OpId
<1>3. /\ hs' = hs \ S /\ again' = again \cup A
      /\ dtors' \in [OpId -> Nat]
  <2>1. A \in SUBSET OpId
    BY DEF TypeOK
  <2> QED
    BY <2>1, RunDestroyType DEF RunDestroy
<1>4. HandlerOK(o)
  BY DEF HandlerInv
<1>5. calls'[o] <= 1 /\ (dtors'[o] <= 1 \/ o \in again')
  BY <1>1, <1>3, <1>4 DEF HandlerOK, TypeOK
<1> QED
  BY <1>1, <1>2, <1>3, <1>4, <1>5 DEF HandlerOK, TypeOK, OpId, NoOp

\* The pending op whose callback has returned is destroyed.
LEMMA HandlersEnd ==
    ASSUME TypeOK, HandlerInv, DestroyPending(frame.op),
           UNCHANGED <<calls, nops>>
    PROVE  HandlerInv'
<1>1. PICK A \in SUBSET ({frame.op} \cap hs) :
          RunDestroy({frame.op}, A) /\ cancelled' = cancelled \cup A
  BY DEF DestroyPending
<1>2. CASE frame.op \in hs
  <2>1. frame.op <= nops
    BY <1>2 DEF HandlerInv, HandlerOK, TypeOK
  <2> DEFINE S == {frame.op}
  <2>2. /\ \A o \in S : o <= nops
        /\ A \in SUBSET (S \cap hs) /\ RunDestroy(S, A)
        /\ cancelled' \subseteq cancelled \cup S /\ frame.op \in S
    BY <1>1, <2>1
  <2> HIDE DEF S
  <2> QED
    BY <2>2, HandlersCancel
<1>3. CASE frame.op \notin hs
  BY <1>3, EndsPending, HandlersDestroy
<1> QED
  BY <1>2, <1>3
-----------------------------------------------------------------------------
(* KnownOps *)

\* A queue keeps its bound when it loses ops or gains one that is within it.
LEMMA AtMostMoves ==
    ASSUME NEW n, NEW q \in Seq(OpId), AtMost(q, n)
    PROVE  /\ q # <<>> => Head(q) \in OpId /\ Head(q) <= n
           /\ q # <<>> => AtMost(Tail(q), n)
           /\ \A k \in 1..Len(q) : AtMost(RemoveAt(q, k), n)
           /\ \A x \in OpId : x <= n => AtMost(Append(q, x), n)
           /\ \A x \in OpId : x <= n => AtMost(Cons(x, q), n)
<1>1. q # <<>> => Head(q) \in OpId /\ Head(q) <= n
  BY DEF AtMost
<1>2. q # <<>> => AtMost(Tail(q), n)
  BY DEF AtMost
<1>3. ASSUME NEW k \in 1..Len(q)
      PROVE  AtMost(RemoveAt(q, k), n)
  <2>1. /\ Len(q) \in Nat /\ Len(RemoveAt(q, k)) = Len(q) - 1
        /\ \A j \in 1..(Len(q) - 1) : \/ RemoveAt(q, k)[j] = q[j]
                                     \/ RemoveAt(q, k)[j] = q[j + 1]
    BY RemoveAtProperties
  <2> QED
    BY <2>1 DEF AtMost
<1>4. ASSUME NEW x \in OpId, x <= n
      PROVE  AtMost(Append(q, x), n)
  BY <1>4 DEF AtMost
<1>5. ASSUME NEW x \in OpId, x <= n
      PROVE  AtMost(Cons(x, q), n)
  BY <1>5 DEF AtMost, Cons
<1> QED
  BY <1>1, <1>2, <1>3, <1>4, <1>5

\* Nothing is queued.
LEMMA AtMostEmpty == \A n : AtMost(<<>>, n)
  BY DEF AtMost

\* Nothing is moved.
LEMMA KnownSame ==
    ASSUME KnownOps,
           UNCHANGED <<reqQ, indQ, wrQ, cq, pendingReq, pendingInd, nops>>
    PROVE  KnownOps'
  BY DEF KnownOps, AtMost

\* What is known stays known when an op is created.
LEMMA KnownMore ==
    ASSUME TypeOK, KnownOps, nops' = nops + 1
    PROVE  /\ AtMost(reqQ, nops') /\ AtMost(indQ, nops') /\ AtMost(wrQ, nops')
           /\ \A c \in Chan : AtMost(cq[c], nops')
           /\ \A c \in Chan : pendingReq[c] <= nops' /\ pendingInd[c] <= nops'
<1>1. \A o \in OpId \cup {NoOp} : o <= nops => o <= nops'
  BY DEF TypeOK, OpId, NoOp
<1>2. ASSUME NEW q \in Seq(OpId), AtMost(q, nops)
      PROVE  AtMost(q, nops')
  BY <1>1, <1>2 DEF AtMost
<1>3. \A c \in Chan : pendingReq[c] <= nops' /\ pendingInd[c] <= nops'
  BY <1>1 DEF KnownOps, TypeOK
<1> QED
  BY <1>2, <1>3 DEF KnownOps, TypeOK

\* The new op of create_att_send_op.
LEMMA CreateKnown ==
    ASSUME TypeOK, NEW t, NEW oc, NEW len, NEW id, NEW ans,
           CreateOp(t, oc, len, id, ans)
    PROVE  nops' = nops + 1 /\ nops + 1 \in OpId /\ nops + 1 <= nops'
<1>1. nops \in Nat /\ nops < MaxOp /\ nops' = nops + 1
  BY DEF CreateOp, TypeOK
<1> QED
  BY <1>1, BoundAssumption DEF OpId

\* bt_att_send files the op it has created.
LEMMA KnownSend ==
    ASSUME TypeOK, KnownOps, NEW t, NEW oc, NEW len, NEW ans,
           SendOp(t, oc, len, ans), UNCHANGED <<cq, pendingReq, pendingInd>>
    PROVE  KnownOps'
<1>1. nops' = nops + 1 /\ nops + 1 \in OpId /\ nops + 1 <= nops'
  BY CreateKnown DEF SendOp
<1>2. reqQ \in Seq(OpId) /\ indQ \in Seq(OpId) /\ wrQ \in Seq(OpId)
  BY DEF TypeOK
<1>3. AtMost(reqQ', nops')
  BY <1>1, <1>2, KnownMore, AtMostMoves DEF SendOp
<1>4. AtMost(indQ', nops')
  BY <1>1, <1>2, KnownMore, AtMostMoves DEF SendOp
<1>5. AtMost(wrQ', nops')
  BY <1>1, <1>2, KnownMore, AtMostMoves DEF SendOp
<1> QED
  BY <1>1, <1>3, <1>4, <1>5, KnownMore DEF KnownOps

\* The PDU pick_next_send_op chooses is one that was queued.
LEMMA KnownPicked ==
    ASSUME TypeOK, KnownOps, NEW c \in Chan, PickSource(c) # "none"
    PROVE  Head(PickedQueue(c)) <= nops
<1>1. PickedQueue(c) # <<>> /\ PickedQueue(c) \in {cq[c], wrQ, reqQ, indQ}
  BY DEF PickSource, PickedQueue, Fits
<1>2. PickedQueue(c) \in Seq(OpId) /\ AtMost(PickedQueue(c), nops)
  BY <1>1 DEF KnownOps, TypeOK
<1> QED
  BY <1>1, <1>2, AtMostMoves

\* Taking it off leaves the others.
LEMMA KnownPop ==
    ASSUME TypeOK, KnownOps, NEW c \in Chan, PopPicked(c), UNCHANGED nops
    PROVE  /\ AtMost(reqQ', nops') /\ AtMost(indQ', nops') /\ AtMost(wrQ', nops')
           /\ \A d \in Chan : AtMost(cq'[d], nops')
<1>1. /\ PickSource(c) = "chan" => cq[c] # <<>>
      /\ PickSource(c) = "write" => wrQ # <<>>
      /\ PickSource(c) = "req" => reqQ # <<>>
      /\ PickSource(c) = "ind" => indQ # <<>>
  BY DEF PickSource, Fits
<1>2. /\ reqQ \in Seq(OpId) /\ indQ \in Seq(OpId) /\ wrQ \in Seq(OpId)
      /\ cq \in [Chan -> Seq(OpId)]
  BY DEF TypeOK
<1>3. AtMost(reqQ', nops') /\ AtMost(indQ', nops') /\ AtMost(wrQ', nops')
  BY <1>1, <1>2, AtMostMoves DEF PopPicked, KnownOps
<1>4. ASSUME NEW d \in Chan
      PROVE  AtMost(cq'[d], nops')
  <2>1. cq'[d] = cq[d] \/ (cq[d] # <<>> /\ cq'[d] = Tail(cq[d]))
    BY <1>1, <1>2 DEF PopPicked
  <2> QED
    BY <1>2, <2>1, AtMostMoves DEF KnownOps
<1> QED
  BY <1>3, <1>4

\* bt_att_free leaves nothing on the attached channels.
LEMMA KnownFree ==
    ASSUME TypeOK, KnownOps, Free
    PROVE  KnownOps'
<1> USE DEF opVars
<1>1. reqQ' = <<>> /\ indQ' = <<>> /\ wrQ' = <<>> /\ UNCHANGED nops
  BY DEF Free
<1>2. \A d \in Chan : AtMost(cq'[d], nops)
  BY AtMostEmpty DEF Free, TypeOK, KnownOps
<1>3. \A d \in Chan : pendingReq'[d] <= nops /\ pendingInd'[d] <= nops
  BY DEF Free, TypeOK, KnownOps, NoOp
<1> QED
  BY <1>1, <1>2, <1>3, AtMostEmpty DEF KnownOps

\* No step puts an op where it does not belong before it was created.
LEMMA KnownStep ==
    ASSUME TypeOK, KnownOps, Next
    PROVE  KnownOps'
<1> USE DEF attVars, queues, opVars, chanCfg, peer, history
<1>1. ASSUME NEW t \in ClientTypes, NEW oc \in Opcode, NEW len \in Lens,
             Send(t, oc, len)
      PROVE  KnownOps'
  BY <1>1, KnownSend DEF Send
<1>2. ASSUME NEW c \in Chan, NEW len \in Lens, ChanSendRsp(c, len)
      PROVE  KnownOps'
  <2>1. /\ nops' = nops + 1 /\ nops + 1 \in OpId /\ nops + 1 <= nops'
        /\ UNCHANGED <<reqQ, indQ, wrQ, pendingReq, pendingInd>>
    BY <1>2, CreateKnown DEF ChanSendRsp
  <2>2. ASSUME NEW d \in Chan
        PROVE  AtMost(cq'[d], nops')
    <3>1. cq'[d] = cq[d] \/ cq'[d] = Append(cq[d], nops + 1)
      BY <1>2 DEF ChanSendRsp, TypeOK
    <3> QED
      BY <2>1, <3>1, KnownMore, AtMostMoves DEF TypeOK
  <2> QED
    BY <2>1, <2>2, KnownMore DEF KnownOps
<1>3. ASSUME NEW id \in 1..MaxOp, Cancel(id)
      PROVE  KnownOps'
  <2>1. UNCHANGED <<nops, pendingReq, pendingInd>>
    BY <1>3 DEF Cancel
  <2>2. ASSUME NEW o, CancelPending(o)
        PROVE  KnownOps'
    BY <2>1, <2>2, KnownSame DEF CancelPending
  <2>3. ASSUME NEW i \in 1..Len(reqQ), reqQ' = RemoveAt(reqQ, i),
               UNCHANGED <<indQ, wrQ, cq>>
        PROVE  KnownOps'
    <3>1. AtMost(reqQ', nops)
      BY <2>3, AtMostMoves DEF KnownOps, TypeOK
    <3> QED
      BY <2>1, <2>3, <3>1 DEF KnownOps
  <2>4. ASSUME NEW i \in 1..Len(indQ), indQ' = RemoveAt(indQ, i),
               UNCHANGED <<reqQ, wrQ, cq>>
        PROVE  KnownOps'
    <3>1. AtMost(indQ', nops)
      BY <2>4, AtMostMoves DEF KnownOps, TypeOK
    <3> QED
      BY <2>1, <2>4, <3>1 DEF KnownOps
  <2>5. ASSUME NEW i \in 1..Len(wrQ), wrQ' = RemoveAt(wrQ, i),
               UNCHANGED <<reqQ, indQ, cq>>
        PROVE  KnownOps'
    <3>1. AtMost(wrQ', nops)
      BY <2>5, AtMostMoves DEF KnownOps, TypeOK
    <3> QED
      BY <2>1, <2>5, <3>1 DEF KnownOps
  <2> QED
    BY <1>3, <2>2, <2>3, <2>4, <2>5 DEF Cancel
<1>4. ASSUME CancelAll
      PROVE  KnownOps'
  BY <1>4, AtMostEmpty DEF CancelAll, KnownOps
<1>5. ASSUME NEW m \in Mtus, SetMtu(m)
      PROVE  KnownOps'
  BY <1>5, KnownSame DEF SetMtu
<1>6. ASSUME NEW l \in ClientLevels, SetSecurity(l)
      PROVE  KnownOps'
  BY <1>6, KnownSame DEF SetSecurity
<1>7. ASSUME NEW c \in Chan, NEW m \in Mtus, AttachFd(c, m)
      PROVE  KnownOps'
  BY <1>7, KnownSame DEF AttachFd
<1>8. ASSUME ClientUnref
      PROVE  KnownOps'
  BY <1>8, KnownFree, KnownSame DEF ClientUnref
<1>9. ASSUME NEW c \in Chan, NEW o \in OpId, NEW e \in Ecode, PeerAnswers(c,
             o, e)
      PROVE  KnownOps'
  <2>1. UNCHANGED <<indQ, wrQ, cq, pendingInd, nops>>
    BY <1>9 DEF PeerAnswers, HandleRsp
  <2>2. ASSUME UNCHANGED <<reqQ, pendingReq>>
        PROVE  KnownOps'
    BY <2>1, <2>2, KnownSame
  <2>3. ASSUME RspRetry(c, e)
        PROVE  KnownOps'
    <3>1. pendingReq[c] \in OpId /\ pendingReq[c] <= nops
      BY <2>3 DEF RspRetry, TypeOK, KnownOps
    <3>2. AtMost(reqQ', nops)
      BY <2>3, <3>1, AtMostMoves DEF RspRetry, TypeOK, KnownOps
    <3>3. \A d \in Chan : pendingReq'[d] <= nops
      BY <2>3 DEF RspRetry, TypeOK, KnownOps, NoOp
    <3> QED
      BY <2>1, <3>2, <3>3 DEF KnownOps
  <2> QED
    BY <1>9, <2>2, <2>3 DEF PeerAnswers, HandleRsp, RspUnexpected, RspDeliver
<1>10. ASSUME NEW c \in Chan, NEW oc \in Opcode \cup {NoOpcode}, NEW e \in
             Ecode, RogueRsp(c, oc, e)
      PROVE  KnownOps'
  <2>1. UNCHANGED <<indQ, wrQ, cq, pendingInd, nops>>
    BY <1>10 DEF RogueRsp, HandleRsp
  <2>2. ASSUME UNCHANGED <<reqQ, pendingReq>>
        PROVE  KnownOps'
    BY <2>1, <2>2, KnownSame
  <2>3. ASSUME RspRetry(c, e)
        PROVE  KnownOps'
    <3>1. pendingReq[c] \in OpId /\ pendingReq[c] <= nops
      BY <2>3 DEF RspRetry, TypeOK, KnownOps
    <3>2. AtMost(reqQ', nops)
      BY <2>3, <3>1, AtMostMoves DEF RspRetry, TypeOK, KnownOps
    <3>3. \A d \in Chan : pendingReq'[d] <= nops
      BY <2>3 DEF RspRetry, TypeOK, KnownOps, NoOp
    <3> QED
      BY <2>1, <3>2, <3>3 DEF KnownOps
  <2> QED
    BY <1>10, <2>2, <2>3 DEF RogueRsp, HandleRsp, RspUnexpected, RspDeliver
<1>11. ASSUME NEW c \in Chan, NEW o \in OpId, PeerConfirms(c, o)
      PROVE  KnownOps'
  BY <1>11, KnownSame DEF PeerConfirms, HandleConf
<1>12. ASSUME NEW c \in Chan, NEW empty \in BOOLEAN, RogueConf(c, empty)
      PROVE  KnownOps'
  BY <1>12, KnownSame DEF RogueConf, HandleConf
<1>13. ASSUME NEW c \in Chan, PeerRequestTwice(c)
      PROVE  KnownOps'
  BY <1>13, KnownSame DEF PeerRequestTwice
<1>14. ASSUME NEW c \in Chan, ReadError(c)
      PROVE  KnownOps'
  BY <1>14, KnownSame DEF ReadError
<1>15. ASSUME NEW c \in Chan, PeerHangup(c)
      PROVE  KnownOps'
  BY <1>15, KnownSame DEF PeerHangup
<1>16. ASSUME NEW c \in Chan, NEW t \in PeerTypes, PeerSendsHandled(c, t)
      PROVE  KnownOps'
  BY <1>16, KnownSame DEF PeerSendsHandled
<1>17. ASSUME NEW c \in Chan, NEW t \in PeerTypes, PeerSendsUnhandled(c, t)
      PROVE  KnownOps'
  BY <1>17, KnownSend DEF PeerSendsUnhandled
<1>18. ASSUME NEW c \in Chan, WriteNone(c)
      PROVE  KnownOps'
  BY <1>18, KnownSame DEF WriteNone
<1>19. ASSUME NEW c \in Chan, NEW out \in {"sent", "failed"}, WritePdu(c, out)
      PROVE  KnownOps'
  <2>1. PickSource(c) # "none" /\ PopPicked(c) /\ UNCHANGED nops
    BY <1>19 DEF WritePdu
  <2>2. /\ \A d \in Chan : pendingReq'[d] <= nops
        /\ \A d \in Chan : pendingInd'[d] <= nops
    BY <1>19, <2>1, KnownPicked DEF WritePdu, TypeOK, KnownOps
  <2> QED
    BY <2>1, <2>2, KnownPop DEF KnownOps
<1>20. ASSUME NEW c \in Chan, WriteZero(c)
      PROVE  KnownOps'
  <2>1. /\ PickSource(c) # "none" /\ PopPicked(c)
        /\ UNCHANGED <<nops, pendingReq, pendingInd>>
    BY <1>20 DEF WriteZero
  <2> QED
    BY <2>1, KnownPop DEF KnownOps
<1>21. ASSUME NEW c \in Chan, NEW o \in OpId, Timeout(c, o)
      PROVE  KnownOps'
  <2>1. UNCHANGED <<reqQ, indQ, wrQ, cq, nops>>
    BY <1>21 DEF Timeout
  <2>2. \A d \in Chan : pendingReq'[d] <= nops /\ pendingInd'[d] <= nops
    BY <1>21 DEF Timeout, TypeOK, KnownOps, NoOp
  <2> QED
    BY <2>1, <2>2 DEF KnownOps
<1>22. ASSUME NEW c \in Chan, WatchError(c)
      PROVE  KnownOps'
  BY <1>22, KnownSame DEF WatchError
<1>23. ASSUME NEW c \in Chan, Disconnect(c)
      PROVE  KnownOps'
  BY <1>23, AtMostEmpty DEF Disconnect, KnownOps
<1>24. ASSUME NEW c \in Chan, ReturnRsp(c)
      PROVE  KnownOps'
  <2>1. UNCHANGED <<reqQ, indQ, wrQ, cq, pendingInd, nops>>
    BY <1>24 DEF ReturnRsp
  <2>2. \A d \in Chan : pendingReq'[d] <= nops
    BY <1>24 DEF ReturnRsp, TypeOK, KnownOps, NoOp
  <2> QED
    BY <2>1, <2>2 DEF KnownOps
<1>25. ASSUME NEW c \in Chan, ReturnConf(c)
      PROVE  KnownOps'
  <2>1. UNCHANGED <<reqQ, indQ, wrQ, cq, pendingReq, nops>>
    BY <1>25 DEF ReturnConf
  <2>2. \A d \in Chan : pendingInd'[d] <= nops
    BY <1>25 DEF ReturnConf, TypeOK, KnownOps, NoOp
  <2> QED
    BY <2>1, <2>2 DEF KnownOps
<1>26. ASSUME ReturnZero
      PROVE  KnownOps'
  BY <1>26, KnownSame DEF ReturnZero
<1>27. ASSUME ReturnNotify
      PROVE  KnownOps'
  BY <1>27, KnownSame DEF ReturnNotify
<1>28. ASSUME Exit
      PROVE  KnownOps'
  BY <1>28, KnownFree, KnownSame DEF Exit
<1>29. ASSUME ReturnTimeout
      PROVE  KnownOps'
  BY <1>29, KnownSame DEF ReturnTimeout
<1>30. ASSUME FlushCall
      PROVE  KnownOps'
  BY <1>30, KnownSame DEF FlushCall
<1>31. ASSUME ReturnFlush
      PROVE  KnownOps'
  BY <1>31, KnownSame DEF ReturnFlush
<1>32. ASSUME FlushInd
      PROVE  KnownOps'
  BY <1>32, AtMostEmpty DEF FlushInd, KnownOps
<1>33. ASSUME FlushWrite
      PROVE  KnownOps'
  BY <1>33, AtMostEmpty DEF FlushWrite, KnownOps
<1>34. ASSUME FlushPending
      PROVE  KnownOps'
  <2>1. UNCHANGED <<reqQ, indQ, wrQ, cq, nops>>
    BY <1>34 DEF FlushPending
  <2>2. \A d \in Chan : pendingReq'[d] <= nops /\ pendingInd'[d] <= nops
    BY <1>34 DEF FlushPending, TypeOK, KnownOps, NoOp
  <2> QED
    BY <2>1, <2>2 DEF KnownOps
<1>35. ASSUME ChanFree
      PROVE  KnownOps'
  <2>1. /\ UNCHANGED <<reqQ, indQ, wrQ, pendingReq, pendingInd, nops>>
        /\ cq' = [cq EXCEPT ![frame.c] = <<>>]
    BY <1>35 DEF ChanFree
  <2>2. \A d \in Chan : AtMost(cq'[d], nops)
    BY <2>1, AtMostEmpty DEF TypeOK, KnownOps
  <2> QED
    BY <2>1, <2>2 DEF KnownOps
<1>36. ASSUME ReturnDisconnect
      PROVE  KnownOps'
  BY <1>36, KnownSame DEF ReturnDisconnect
<1> QED
  BY <1>1, <1>2, <1>3, <1>4, <1>5, <1>6, <1>7, <1>8, <1>9, <1>10, <1>11,
     <1>12, <1>13, <1>14, <1>15, <1>16, <1>17, <1>18, <1>19, <1>20, <1>21,
     <1>22, <1>23, <1>24, <1>25, <1>26, <1>27, <1>28, <1>29, <1>30, <1>31,
     <1>32, <1>33, <1>34, <1>35, <1>36 DEF Next, Client, Environment, Loop,
     Return

-----------------------------------------------------------------------------
(* FrameOp *)

\* Every handler that ends, and every one that starts without an op, has none.
LEMMA FrameOpStep ==
    ASSUME TypeOK, FrameOp, Next
    PROVE  FrameOp'
<1> USE DEF attVars, queues, opVars, chanCfg, peer, history
<1>1. ASSUME NEW t \in ClientTypes, NEW oc \in Opcode, NEW len \in Lens,
             Send(t, oc, len)
      PROVE  FrameOp'
  BY <1>1 DEF Send, FrameOp
<1>2. ASSUME NEW c \in Chan, NEW len \in Lens, ChanSendRsp(c, len)
      PROVE  FrameOp'
  BY <1>2 DEF ChanSendRsp, FrameOp
<1>3. ASSUME NEW id \in 1..MaxOp, Cancel(id)
      PROVE  FrameOp'
  BY <1>3 DEF Cancel, FrameOp
<1>4. ASSUME CancelAll
      PROVE  FrameOp'
  BY <1>4 DEF CancelAll, FrameOp
<1>5. ASSUME NEW m \in Mtus, SetMtu(m)
      PROVE  FrameOp'
  BY <1>5 DEF SetMtu, FrameOp
<1>6. ASSUME NEW l \in ClientLevels, SetSecurity(l)
      PROVE  FrameOp'
  BY <1>6 DEF SetSecurity, FrameOp
<1>7. ASSUME NEW c \in Chan, NEW m \in Mtus, AttachFd(c, m)
      PROVE  FrameOp'
  BY <1>7 DEF AttachFd, FrameOp
<1>8. ASSUME ClientUnref
      PROVE  FrameOp'
  BY <1>8 DEF ClientUnref, FrameOp
<1>9. ASSUME NEW c \in Chan, NEW o \in OpId, NEW e \in Ecode, PeerAnswers(c,
             o, e)
      PROVE  FrameOp'
  BY <1>9 DEF PeerAnswers, HandleRsp, RspUnexpected, RspRetry, RspDeliver, CallFrame,
       FrameOp
<1>10. ASSUME NEW c \in Chan, NEW oc \in Opcode \cup {NoOpcode}, NEW e \in
             Ecode, RogueRsp(c, oc, e)
      PROVE  FrameOp'
  BY <1>10 DEF RogueRsp, HandleRsp, RspUnexpected, RspRetry, RspDeliver, CallFrame,
       FrameOp
<1>11. ASSUME NEW c \in Chan, NEW o \in OpId, PeerConfirms(c, o)
      PROVE  FrameOp'
  BY <1>11 DEF PeerConfirms, HandleConf, CallFrame, FrameOp
<1>12. ASSUME NEW c \in Chan, NEW empty \in BOOLEAN, RogueConf(c, empty)
      PROVE  FrameOp'
  BY <1>12 DEF RogueConf, HandleConf, CallFrame, FrameOp
<1>13. ASSUME NEW c \in Chan, PeerRequestTwice(c)
      PROVE  FrameOp'
  BY <1>13 DEF PeerRequestTwice, FrameOp
<1>14. ASSUME NEW c \in Chan, ReadError(c)
      PROVE  FrameOp'
  BY <1>14 DEF ReadError, FrameOp
<1>15. ASSUME NEW c \in Chan, PeerHangup(c)
      PROVE  FrameOp'
  BY <1>15 DEF PeerHangup, FrameOp
<1>16. ASSUME NEW c \in Chan, NEW t \in PeerTypes, PeerSendsHandled(c, t)
      PROVE  FrameOp'
  BY <1>16 DEF PeerSendsHandled, CallFrame, IdleFrame, FrameOp
<1>17. ASSUME NEW c \in Chan, NEW t \in PeerTypes, PeerSendsUnhandled(c, t)
      PROVE  FrameOp'
  BY <1>17 DEF PeerSendsUnhandled, FrameOp
<1>18. ASSUME NEW c \in Chan, WriteNone(c)
      PROVE  FrameOp'
  BY <1>18 DEF WriteNone, FrameOp
<1>19. ASSUME NEW c \in Chan, NEW out \in {"sent", "failed"}, WritePdu(c, out)
      PROVE  FrameOp'
  BY <1>19 DEF WritePdu, FrameOp
<1>20. ASSUME NEW c \in Chan, WriteZero(c)
      PROVE  FrameOp'
  BY <1>20 DEF WriteZero, CallFrame, IdleFrame, FrameOp
<1>21. ASSUME NEW c \in Chan, NEW o \in OpId, Timeout(c, o)
      PROVE  FrameOp'
  BY <1>21 DEF Timeout, CallFrame, IdleFrame, FrameOp
<1>22. ASSUME NEW c \in Chan, WatchError(c)
      PROVE  FrameOp'
  BY <1>22 DEF WatchError, FrameOp
<1>23. ASSUME NEW c \in Chan, Disconnect(c)
      PROVE  FrameOp'
  BY <1>23 DEF Disconnect, FrameOp
<1>24. ASSUME NEW c \in Chan, ReturnRsp(c)
      PROVE  FrameOp'
  BY <1>24 DEF ReturnRsp, ExitFrame, IdleFrame, FrameOp
<1>25. ASSUME NEW c \in Chan, ReturnConf(c)
      PROVE  FrameOp'
  BY <1>25 DEF ReturnConf, ExitFrame, IdleFrame, FrameOp
<1>26. ASSUME ReturnZero
      PROVE  FrameOp'
  BY <1>26 DEF ReturnZero, ExitFrame, IdleFrame, FrameOp
<1>27. ASSUME ReturnNotify
      PROVE  FrameOp'
  BY <1>27 DEF ReturnNotify, ExitFrame, IdleFrame, FrameOp
<1>28. ASSUME Exit
      PROVE  FrameOp'
  BY <1>28 DEF Exit, ExitFrame, IdleFrame, FrameOp
<1>29. ASSUME ReturnTimeout
      PROVE  FrameOp'
  BY <1>29 DEF ReturnTimeout, ExitFrame, IdleFrame, FrameOp
<1>30. ASSUME FlushCall
      PROVE  FrameOp'
  BY <1>30 DEF FlushCall, Flushing, FrameOp, TypeOK, Frame
<1>31. ASSUME ReturnFlush
      PROVE  FrameOp'
  BY <1>31 DEF ReturnFlush, Flushing, FrameOp, TypeOK, Frame
<1>32. ASSUME FlushInd
      PROVE  FrameOp'
  BY <1>32 DEF FlushInd, FlushDone, FrameOp, TypeOK, Frame
<1>33. ASSUME FlushWrite
      PROVE  FrameOp'
  BY <1>33 DEF FlushWrite, FlushDone, FrameOp, TypeOK, Frame
<1>34. ASSUME FlushPending
      PROVE  FrameOp'
  BY <1>34 DEF FlushPending, FlushDone, FrameOp, TypeOK, Frame
<1>35. ASSUME ChanFree
      PROVE  FrameOp'
  BY <1>35 DEF ChanFree, CallFrame, IdleFrame, FrameOp
<1>36. ASSUME ReturnDisconnect
      PROVE  FrameOp'
  BY <1>36 DEF ReturnDisconnect, ExitFrame, IdleFrame, FrameOp
<1> QED
  BY <1>1, <1>2, <1>3, <1>4, <1>5, <1>6, <1>7, <1>8, <1>9, <1>10, <1>11,
     <1>12, <1>13, <1>14, <1>15, <1>16, <1>17, <1>18, <1>19, <1>20, <1>21,
     <1>22, <1>23, <1>24, <1>25, <1>26, <1>27, <1>28, <1>29, <1>30, <1>31,
     <1>32, <1>33, <1>34, <1>35, <1>36 DEF Next, Client, Environment, Loop,
     Return

-----------------------------------------------------------------------------
(* HandlerInv *)

\* Every step is one of the five things above, or leaves the handlers alone.
LEMMA HandlerStep ==
    ASSUME TypeOK, KnownOps, FrameOp, HandlerInv, Next
    PROVE  HandlerInv'
<1> USE DEF attVars, queues, opVars, chanCfg, peer, history
<1>1. ASSUME NEW t \in ClientTypes, NEW oc \in Opcode, NEW len \in Lens,
             Send(t, oc, len)
      PROVE  HandlerInv'
  BY <1>1, HandlersCreate DEF Send, SendOp
<1>2. ASSUME NEW c \in Chan, NEW len \in Lens, ChanSendRsp(c, len)
      PROVE  HandlerInv'
  BY <1>2, HandlersCreate DEF ChanSendRsp
<1>3. ASSUME NEW id \in 1..MaxOp, Cancel(id)
      PROVE  HandlerInv'
  <2>1. UNCHANGED <<calls, nops, frame>>
    BY <1>3 DEF Cancel
  <2>2. ASSUME NEW o \in OpId, o <= nops, NEW A \in SUBSET ({o} \cap hs),
               RunDestroy({o}, A), cancelled' = cancelled \cup {o}
        PROVE  HandlerInv'
    <3> DEFINE S == {o}
    <3>1. /\ \A x \in S : x <= nops
          /\ A \in SUBSET (S \cap hs) /\ RunDestroy(S, A)
          /\ cancelled' \subseteq cancelled \cup S
      BY <2>2
    <3> HIDE DEF S
    <3> QED
      BY <2>1, <3>1, HandlersCancel
  <2>3. ASSUME NEW c \in Attached, NEW o \in OpId,
               o \in {pendingReq[c], pendingInd[c]}, CancelPending(o)
        PROVE  HandlerInv'
    BY <2>2, <2>3, AttachedType DEF CancelPending, KnownOps
  <2>4. ASSUME NEW o \in OpId, o <= nops, CancelQueued(o)
        PROVE  HandlerInv'
    <3>1. RunDestroy({o}, {}) /\ cancelled' = cancelled \cup {o}
      BY <2>4, DestroyRuns DEF CancelQueued, Destroy
    <3> QED
      BY <2>2, <2>4, <3>1
  <2>5. ASSUME NEW q \in Seq(OpId), AtMost(q, nops), NEW i \in 1..Len(q)
        PROVE  q[i] \in OpId /\ q[i] <= nops
    BY <2>5 DEF AtMost
  <2>6. /\ reqQ \in Seq(OpId) /\ indQ \in Seq(OpId) /\ wrQ \in Seq(OpId)
        /\ AtMost(reqQ, nops) /\ AtMost(indQ, nops) /\ AtMost(wrQ, nops)
    BY DEF KnownOps, TypeOK
  <2> QED
    BY <1>3, <2>3, <2>4, <2>5, <2>6 DEF Cancel
<1>4. ASSUME CancelAll
      PROVE  HandlerInv'
  <2>1. \A o \in QueuedOps \cup PendingOps : o <= nops
    <3>1. ASSUME NEW o \in QueuedOps
          PROVE  o <= nops
      BY <3>1 DEF QueuedOps, ToSet, KnownOps, AtMost, TypeOK
    <3>2. ASSUME NEW o \in PendingOps
          PROVE  o <= nops
      BY <3>2, AttachedType DEF PendingOps, KnownOps
    <3> QED
      BY <3>1, <3>2
  <2>2. PICK A \in SUBSET (PendingOps \cap hs) :
            RunDestroy(QueuedOps \cup PendingOps, A)
    BY <1>4 DEF CancelAll
  <2>3. /\ cancelled' \subseteq cancelled \cup (QueuedOps \cup PendingOps)
        /\ UNCHANGED <<calls, nops, frame>>
    BY <1>4 DEF CancelAll
  <2>4. A \in SUBSET ((QueuedOps \cup PendingOps) \cap hs)
    OBVIOUS
  <2> QED
    BY <2>1, <2>2, <2>3, <2>4, HandlersCancel
<1>5. ASSUME NEW m \in Mtus, SetMtu(m)
      PROVE  HandlerInv'
  BY <1>5, HandlersSame DEF SetMtu
<1>6. ASSUME NEW l \in ClientLevels, SetSecurity(l)
      PROVE  HandlerInv'
  BY <1>6, HandlersSame DEF SetSecurity
<1>7. ASSUME NEW c \in Chan, NEW m \in Mtus, AttachFd(c, m)
      PROVE  HandlerInv'
  BY <1>7, HandlersSame DEF AttachFd
<1>8. ASSUME ClientUnref
      PROVE  HandlerInv'
  <2>1. CASE frame.k = "idle"
    <3>1. Destroy(HeldOps) /\ UNCHANGED <<calls, cancelled, nops, frame>>
      BY <1>8, <2>1 DEF ClientUnref, Free
    <3> QED
      BY <3>1, HandlersDestroy
  <2>2. CASE frame.k # "idle"
    <3>1. UNCHANGED <<calls, dtors, hs, cancelled, again, nops, frame>>
      BY <1>8, <2>2 DEF ClientUnref
    <3> QED
      BY <3>1, HandlersSame
  <2> QED
    BY <2>1, <2>2
<1>9. ASSUME NEW c \in Chan, NEW o \in OpId, NEW e \in Ecode, PeerAnswers(c,
             o, e)
      PROVE  HandlerInv'
  <2>1. UNCHANGED <<dtors, hs, cancelled, again, nops>> /\ frame.op = NoOp
    BY <1>9 DEF PeerAnswers, HandleRsp, RspUnexpected, RspRetry, RspDeliver, Readable,
       Idle, FrameOp
  <2>2. ASSUME UNCHANGED <<calls, frame>>
        PROVE  HandlerInv'
    BY <2>1, <2>2, HandlersSame
  <2>3. ASSUME NEW r, NEW q \in OpId, Invoke(q, r), frame'.op = q
        PROVE  HandlerInv'
    BY <2>1, <2>3, HandlersInvoke
  <2>4. pendingReq[c] # NoOp => pendingReq[c] \in OpId
    BY DEF TypeOK
  <2> QED
    BY <1>9, <2>2, <2>3, <2>4 DEF PeerAnswers, HandleRsp, RspUnexpected, RspRetry,
       RspDeliver, CallFrame
<1>10. ASSUME NEW c \in Chan, NEW oc \in Opcode \cup {NoOpcode}, NEW e \in
             Ecode, RogueRsp(c, oc, e)
      PROVE  HandlerInv'
  <2>1. UNCHANGED <<dtors, hs, cancelled, again, nops>> /\ frame.op = NoOp
    BY <1>10 DEF RogueRsp, HandleRsp, RspUnexpected, RspRetry, RspDeliver, Readable,
       Idle, FrameOp
  <2>2. ASSUME UNCHANGED <<calls, frame>>
        PROVE  HandlerInv'
    BY <2>1, <2>2, HandlersSame
  <2>3. ASSUME NEW r, NEW q \in OpId, Invoke(q, r), frame'.op = q
        PROVE  HandlerInv'
    BY <2>1, <2>3, HandlersInvoke
  <2>4. pendingReq[c] # NoOp => pendingReq[c] \in OpId
    BY DEF TypeOK
  <2> QED
    BY <1>10, <2>2, <2>3, <2>4 DEF RogueRsp, HandleRsp, RspUnexpected, RspRetry,
       RspDeliver, CallFrame
<1>11. ASSUME NEW c \in Chan, NEW o \in OpId, PeerConfirms(c, o)
      PROVE  HandlerInv'
  <2>1. UNCHANGED <<dtors, hs, cancelled, again, nops>> /\ frame.op = NoOp
    BY <1>11 DEF PeerConfirms, HandleConf, Readable, Idle, FrameOp
  <2>2. ASSUME UNCHANGED <<calls, frame>>
        PROVE  HandlerInv'
    BY <2>1, <2>2, HandlersSame
  <2>3. ASSUME NEW q \in OpId, Invoke(q, "ok"), frame'.op = q
        PROVE  HandlerInv'
    BY <2>1, <2>3, HandlersInvoke
  <2>4. pendingInd[c] # NoOp => pendingInd[c] \in OpId
    BY DEF TypeOK
  <2> QED
    BY <1>11, <2>2, <2>3, <2>4 DEF PeerConfirms, HandleConf, CallFrame
<1>12. ASSUME NEW c \in Chan, NEW empty \in BOOLEAN, RogueConf(c, empty)
      PROVE  HandlerInv'
  <2>1. UNCHANGED <<dtors, hs, cancelled, again, nops>> /\ frame.op = NoOp
    BY <1>12 DEF RogueConf, HandleConf, Readable, Idle, FrameOp
  <2>2. ASSUME UNCHANGED <<calls, frame>>
        PROVE  HandlerInv'
    BY <2>1, <2>2, HandlersSame
  <2>3. ASSUME NEW q \in OpId, Invoke(q, "ok"), frame'.op = q
        PROVE  HandlerInv'
    BY <2>1, <2>3, HandlersInvoke
  <2>4. pendingInd[c] # NoOp => pendingInd[c] \in OpId
    BY DEF TypeOK
  <2> QED
    BY <1>12, <2>2, <2>3, <2>4 DEF RogueConf, HandleConf, CallFrame
<1>13. ASSUME NEW c \in Chan, PeerRequestTwice(c)
      PROVE  HandlerInv'
  BY <1>13, HandlersSame DEF PeerRequestTwice
<1>14. ASSUME NEW c \in Chan, ReadError(c)
      PROVE  HandlerInv'
  BY <1>14, HandlersSame DEF ReadError
<1>15. ASSUME NEW c \in Chan, PeerHangup(c)
      PROVE  HandlerInv'
  BY <1>15, HandlersSame DEF PeerHangup
<1>16. ASSUME NEW c \in Chan, NEW t \in PeerTypes, PeerSendsHandled(c, t)
      PROVE  HandlerInv'
  <2>1. frame.op = NoOp /\ UNCHANGED <<calls, dtors, hs, cancelled, again, nops>>
    BY <1>16 DEF PeerSendsHandled, Arrives, Readable, Idle, FrameOp
  <2> QED
    BY <2>1, HandlersSame
<1>17. ASSUME NEW c \in Chan, NEW t \in PeerTypes, PeerSendsUnhandled(c, t)
      PROVE  HandlerInv'
  BY <1>17, HandlersCreate DEF PeerSendsUnhandled, SendOp
<1>18. ASSUME NEW c \in Chan, WriteNone(c)
      PROVE  HandlerInv'
  BY <1>18, HandlersSame DEF WriteNone
<1>19. ASSUME NEW c \in Chan, NEW out \in {"sent", "failed"}, WritePdu(c, out)
      PROVE  HandlerInv'
  <2>1. PICK S : Destroy(S)
    BY <1>19 DEF WritePdu
  <2>2. UNCHANGED <<calls, cancelled, nops, frame>>
    BY <1>19 DEF WritePdu
  <2> QED
    BY <2>1, <2>2, HandlersDestroy
<1>20. ASSUME NEW c \in Chan, WriteZero(c)
      PROVE  HandlerInv'
  <2>1. frame.op = NoOp /\ UNCHANGED <<dtors, hs, cancelled, again, nops>>
    BY <1>20 DEF WriteZero, Idle, FrameOp
  <2>2. /\ Invoke(Head(PickedQueue(c)), "error")
        /\ frame'.op = Head(PickedQueue(c))
        /\ Head(PickedQueue(c)) \in OpId
    BY <1>20, PickedType DEF WriteZero, CallFrame
  <2> QED
    BY <2>1, <2>2, HandlersInvoke
<1>21. ASSUME NEW c \in Chan, NEW o \in OpId, Timeout(c, o)
      PROVE  HandlerInv'
  <2>1. /\ frame.op = NoOp /\ UNCHANGED <<dtors, hs, cancelled, again, nops>>
        /\ Invoke(o, "error") /\ frame'.op = o
    BY <1>21 DEF Timeout, Idle, FrameOp, CallFrame
  <2> QED
    BY <2>1, HandlersInvoke
<1>22. ASSUME NEW c \in Chan, WatchError(c)
      PROVE  HandlerInv'
  BY <1>22, HandlersSame DEF WatchError
<1>23. ASSUME NEW c \in Chan, Disconnect(c)
      PROVE  HandlerInv'
  <2>1. frame.op = NoOp /\ UNCHANGED <<calls, dtors, hs, cancelled, again, nops>>
    BY <1>23 DEF Disconnect, Idle, FrameOp
  <2> QED
    BY <2>1, HandlersSame
<1>24. ASSUME NEW c \in Chan, ReturnRsp(c)
      PROVE  HandlerInv'
  <2>1. DestroyPending(frame.op) /\ UNCHANGED <<calls, nops>>
    BY <1>24 DEF ReturnRsp
  <2> QED
    BY <2>1, HandlersEnd
<1>25. ASSUME NEW c \in Chan, ReturnConf(c)
      PROVE  HandlerInv'
  <2>1. DestroyPending(frame.op) /\ UNCHANGED <<calls, nops>>
    BY <1>25 DEF ReturnConf
  <2> QED
    BY <2>1, HandlersEnd
<1>26. ASSUME ReturnZero
      PROVE  HandlerInv'
  <2>1. Destroy({frame.op}) /\ UNCHANGED <<calls, cancelled, nops>>
    BY <1>26 DEF ReturnZero
  <2> QED
    BY <2>1, HandlersDestroy
<1>27. ASSUME ReturnNotify
      PROVE  HandlerInv'
  <2>1. frame.op = NoOp /\ UNCHANGED <<calls, dtors, hs, cancelled, again, nops>>
    BY <1>27 DEF ReturnNotify, FrameOp
  <2> QED
    BY <2>1, HandlersSame
<1>28. ASSUME Exit
      PROVE  HandlerInv'
  <2>1. frame.op = NoOp
    BY <1>28 DEF Exit, FrameOp
  <2>2. CASE clientRef
    BY <1>28, <2>1, <2>2, HandlersSame DEF Exit
  <2>3. CASE ~clientRef
    <3>1. Destroy(HeldOps) /\ UNCHANGED <<calls, cancelled, nops>>
      BY <1>28, <2>3 DEF Exit, Free
    <3> QED
      BY <2>1, <3>1, HandlersDestroy
  <2> QED
    BY <2>2, <2>3
<1>29. ASSUME ReturnTimeout
      PROVE  HandlerInv'
  <2>1. Destroy({frame.op}) /\ UNCHANGED <<calls, cancelled, nops>>
    BY <1>29 DEF ReturnTimeout
  <2> QED
    BY <2>1, HandlersDestroy
<1>30. ASSUME FlushCall
      PROVE  HandlerInv'
  <2>1. frame.op = NoOp /\ UNCHANGED <<dtors, hs, cancelled, again, nops>>
    BY <1>30 DEF FlushCall
  <2>2. /\ Head(frame.todo) \in OpId
        /\ Invoke(Head(frame.todo), "error")
    BY <1>30, FrameFields DEF FlushCall
  <2>3. frame'.op = Head(frame.todo)
    BY <1>30 DEF FlushCall, TypeOK, Frame
  <2> QED
    BY <2>1, <2>2, <2>3, HandlersInvoke
<1>31. ASSUME ReturnFlush
      PROVE  HandlerInv'
  <2>1. Destroy({frame.op}) /\ UNCHANGED <<calls, cancelled, nops>>
    BY <1>31 DEF ReturnFlush
  <2> QED
    BY <2>1, HandlersDestroy
<1>32. ASSUME FlushInd
      PROVE  HandlerInv'
  <2>1. frame.op = NoOp /\ UNCHANGED <<calls, dtors, hs, cancelled, again, nops>>
    BY <1>32 DEF FlushInd, FlushDone
  <2> QED
    BY <2>1, HandlersSame
<1>33. ASSUME FlushWrite
      PROVE  HandlerInv'
  <2>1. frame.op = NoOp /\ UNCHANGED <<calls, dtors, hs, cancelled, again, nops>>
    BY <1>33 DEF FlushWrite, FlushDone
  <2> QED
    BY <2>1, HandlersSame
<1>34. ASSUME FlushPending
      PROVE  HandlerInv'
  <2>1. frame.op = NoOp /\ UNCHANGED <<calls, dtors, hs, cancelled, again, nops>>
    BY <1>34 DEF FlushPending, FlushDone
  <2> QED
    BY <2>1, HandlersSame
<1>35. ASSUME ChanFree
      PROVE  HandlerInv'
  <2>1. /\ frame.op = NoOp /\ Destroy(ToSet(cq[frame.c]))
        /\ UNCHANGED <<calls, cancelled, nops>>
    BY <1>35 DEF ChanFree, FlushDone
  <2> QED
    BY <2>1, HandlersDestroy
<1>36. ASSUME ReturnDisconnect
      PROVE  HandlerInv'
  <2>1. frame.op = NoOp /\ UNCHANGED <<calls, dtors, hs, cancelled, again, nops>>
    BY <1>36 DEF ReturnDisconnect, FrameOp
  <2> QED
    BY <2>1, HandlersSame
<1> QED
  BY <1>1, <1>2, <1>3, <1>4, <1>5, <1>6, <1>7, <1>8, <1>9, <1>10, <1>11,
     <1>12, <1>13, <1>14, <1>15, <1>16, <1>17, <1>18, <1>19, <1>20, <1>21,
     <1>22, <1>23, <1>24, <1>25, <1>26, <1>27, <1>28, <1>29, <1>30, <1>31,
     <1>32, <1>33, <1>34, <1>35, <1>36 DEF Next, Client, Environment, Loop,
     Return

\* A step leaves the count of calls alone or calls back one op.
LEMMA CallsStep ==
    ASSUME Next
    PROVE  UNCHANGED calls \/ \E p, r : Invoke(p, r)
<1> USE DEF attVars, queues, opVars, chanCfg, peer, history
<1>1. ASSUME NEW t \in ClientTypes, NEW oc \in Opcode, NEW len \in Lens,
             Send(t, oc, len)
      PROVE  UNCHANGED calls \/ \E p, r : Invoke(p, r)
  BY <1>1 DEF Send
<1>2. ASSUME NEW c \in Chan, NEW len \in Lens, ChanSendRsp(c, len)
      PROVE  UNCHANGED calls \/ \E p, r : Invoke(p, r)
  BY <1>2 DEF ChanSendRsp
<1>3. ASSUME NEW id \in 1..MaxOp, Cancel(id)
      PROVE  UNCHANGED calls \/ \E p, r : Invoke(p, r)
  BY <1>3 DEF Cancel
<1>4. ASSUME CancelAll
      PROVE  UNCHANGED calls \/ \E p, r : Invoke(p, r)
  BY <1>4 DEF CancelAll
<1>5. ASSUME NEW m \in Mtus, SetMtu(m)
      PROVE  UNCHANGED calls \/ \E p, r : Invoke(p, r)
  BY <1>5 DEF SetMtu
<1>6. ASSUME NEW l \in ClientLevels, SetSecurity(l)
      PROVE  UNCHANGED calls \/ \E p, r : Invoke(p, r)
  BY <1>6 DEF SetSecurity
<1>7. ASSUME NEW c \in Chan, NEW m \in Mtus, AttachFd(c, m)
      PROVE  UNCHANGED calls \/ \E p, r : Invoke(p, r)
  BY <1>7 DEF AttachFd
<1>8. ASSUME ClientUnref
      PROVE  UNCHANGED calls \/ \E p, r : Invoke(p, r)
  BY <1>8 DEF ClientUnref, Free
<1>9. ASSUME NEW c \in Chan, NEW o \in OpId, NEW e \in Ecode, PeerAnswers(c,
             o, e)
      PROVE  UNCHANGED calls \/ \E p, r : Invoke(p, r)
  BY <1>9 DEF PeerAnswers, HandleRsp, RspUnexpected, RspRetry, RspDeliver
<1>10. ASSUME NEW c \in Chan, NEW oc \in Opcode \cup {NoOpcode}, NEW e \in
             Ecode, RogueRsp(c, oc, e)
      PROVE  UNCHANGED calls \/ \E p, r : Invoke(p, r)
  BY <1>10 DEF RogueRsp, HandleRsp, RspUnexpected, RspRetry, RspDeliver
<1>11. ASSUME NEW c \in Chan, NEW o \in OpId, PeerConfirms(c, o)
      PROVE  UNCHANGED calls \/ \E p, r : Invoke(p, r)
  BY <1>11 DEF PeerConfirms, HandleConf
<1>12. ASSUME NEW c \in Chan, NEW empty \in BOOLEAN, RogueConf(c, empty)
      PROVE  UNCHANGED calls \/ \E p, r : Invoke(p, r)
  BY <1>12 DEF RogueConf, HandleConf
<1>13. ASSUME NEW c \in Chan, PeerRequestTwice(c)
      PROVE  UNCHANGED calls \/ \E p, r : Invoke(p, r)
  BY <1>13 DEF PeerRequestTwice
<1>14. ASSUME NEW c \in Chan, ReadError(c)
      PROVE  UNCHANGED calls \/ \E p, r : Invoke(p, r)
  BY <1>14 DEF ReadError
<1>15. ASSUME NEW c \in Chan, PeerHangup(c)
      PROVE  UNCHANGED calls \/ \E p, r : Invoke(p, r)
  BY <1>15 DEF PeerHangup
<1>16. ASSUME NEW c \in Chan, NEW t \in PeerTypes, PeerSendsHandled(c, t)
      PROVE  UNCHANGED calls \/ \E p, r : Invoke(p, r)
  BY <1>16 DEF PeerSendsHandled
<1>17. ASSUME NEW c \in Chan, NEW t \in PeerTypes, PeerSendsUnhandled(c, t)
      PROVE  UNCHANGED calls \/ \E p, r : Invoke(p, r)
  BY <1>17 DEF PeerSendsUnhandled
<1>18. ASSUME NEW c \in Chan, WriteNone(c)
      PROVE  UNCHANGED calls \/ \E p, r : Invoke(p, r)
  BY <1>18 DEF WriteNone
<1>19. ASSUME NEW c \in Chan, NEW out \in {"sent", "failed"}, WritePdu(c, out)
      PROVE  UNCHANGED calls \/ \E p, r : Invoke(p, r)
  BY <1>19 DEF WritePdu
<1>20. ASSUME NEW c \in Chan, WriteZero(c)
      PROVE  UNCHANGED calls \/ \E p, r : Invoke(p, r)
  BY <1>20 DEF WriteZero
<1>21. ASSUME NEW c \in Chan, NEW o \in OpId, Timeout(c, o)
      PROVE  UNCHANGED calls \/ \E p, r : Invoke(p, r)
  BY <1>21 DEF Timeout
<1>22. ASSUME NEW c \in Chan, WatchError(c)
      PROVE  UNCHANGED calls \/ \E p, r : Invoke(p, r)
  BY <1>22 DEF WatchError
<1>23. ASSUME NEW c \in Chan, Disconnect(c)
      PROVE  UNCHANGED calls \/ \E p, r : Invoke(p, r)
  BY <1>23 DEF Disconnect
<1>24. ASSUME NEW c \in Chan, ReturnRsp(c)
      PROVE  UNCHANGED calls \/ \E p, r : Invoke(p, r)
  BY <1>24 DEF ReturnRsp
<1>25. ASSUME NEW c \in Chan, ReturnConf(c)
      PROVE  UNCHANGED calls \/ \E p, r : Invoke(p, r)
  BY <1>25 DEF ReturnConf
<1>26. ASSUME ReturnZero
      PROVE  UNCHANGED calls \/ \E p, r : Invoke(p, r)
  BY <1>26 DEF ReturnZero
<1>27. ASSUME ReturnNotify
      PROVE  UNCHANGED calls \/ \E p, r : Invoke(p, r)
  BY <1>27 DEF ReturnNotify
<1>28. ASSUME Exit
      PROVE  UNCHANGED calls \/ \E p, r : Invoke(p, r)
  BY <1>28 DEF Exit, Free
<1>29. ASSUME ReturnTimeout
      PROVE  UNCHANGED calls \/ \E p, r : Invoke(p, r)
  BY <1>29 DEF ReturnTimeout
<1>30. ASSUME FlushCall
      PROVE  UNCHANGED calls \/ \E p, r : Invoke(p, r)
  BY <1>30 DEF FlushCall
<1>31. ASSUME ReturnFlush
      PROVE  UNCHANGED calls \/ \E p, r : Invoke(p, r)
  BY <1>31 DEF ReturnFlush
<1>32. ASSUME FlushInd
      PROVE  UNCHANGED calls \/ \E p, r : Invoke(p, r)
  BY <1>32 DEF FlushInd
<1>33. ASSUME FlushWrite
      PROVE  UNCHANGED calls \/ \E p, r : Invoke(p, r)
  BY <1>33 DEF FlushWrite
<1>34. ASSUME FlushPending
      PROVE  UNCHANGED calls \/ \E p, r : Invoke(p, r)
  BY <1>34 DEF FlushPending
<1>35. ASSUME ChanFree
      PROVE  UNCHANGED calls \/ \E p, r : Invoke(p, r)
  BY <1>35 DEF ChanFree
<1>36. ASSUME ReturnDisconnect
      PROVE  UNCHANGED calls \/ \E p, r : Invoke(p, r)
  BY <1>36 DEF ReturnDisconnect
<1> QED
  BY <1>1, <1>2, <1>3, <1>4, <1>5, <1>6, <1>7, <1>8, <1>9, <1>10, <1>11,
     <1>12, <1>13, <1>14, <1>15, <1>16, <1>17, <1>18, <1>19, <1>20, <1>21,
     <1>22, <1>23, <1>24, <1>25, <1>26, <1>27, <1>28, <1>29, <1>30, <1>31,
     <1>32, <1>33, <1>34, <1>35, <1>36 DEF Next, Client, Environment, Loop,
     Return

-----------------------------------------------------------------------------
(* The theorems *)

Inv == TypeOK /\ KnownOps /\ FrameOp /\ HandlerInv

\* The strengthened invariant holds of a new bearer.
LEMMA InvInit == Init => Inv
<1> SUFFICES ASSUME Init
             PROVE  Inv
  OBVIOUS
<1>1. TypeOK
  BY TypeInit
<1>2. KnownOps
  BY AtMostEmpty DEF Init, KnownOps, NoOp
<1>3. FrameOp
  BY DEF Init, IdleFrame, FrameOp
<1>4. HandlerInv
  BY DEF Init, HandlerInv, HandlerOK, OpId
<1> QED
  BY <1>1, <1>2, <1>3, <1>4 DEF Inv

\* Every step keeps it: types, known ops, the op of the frame, the handlers.
LEMMA InvStep == Inv /\ [Next]_vars => Inv'
<1> SUFFICES ASSUME Inv, [Next]_vars
             PROVE  Inv'
  OBVIOUS
<1>1. TypeOK'
  BY TypeClient, TypeEnvironment, TypeLoop, TypeReturn, TypeStutter
     DEF Inv, Next
<1>2. CASE Next
  BY <1>1, <1>2, KnownStep, FrameOpStep, HandlerStep DEF Inv
<1>3. CASE UNCHANGED vars
  <2>1. /\ UNCHANGED <<reqQ, indQ, wrQ, cq, pendingReq, pendingInd, nops>>
        /\ UNCHANGED <<calls, dtors, hs, cancelled, again, frame>>
    BY <1>3 DEF vars, queues, opVars, history
  <2>2. KnownOps'
    BY <2>1, KnownSame DEF Inv
  <2>3. FrameOp'
    BY <2>1 DEF Inv, FrameOp
  <2>4. HandlerInv'
    BY <2>1, HandlersSame DEF Inv
  <2> QED
    BY <1>1, <2>2, <2>3, <2>4 DEF Inv
<1> QED
  BY <1>2, <1>3

\* So it holds always.
LEMMA InvAlways == Spec => []Inv
  BY InvInit, InvStep, PTL DEF Spec

\* The callback of an op runs at most once, whatever answers, timeouts, retries,
\* cancellations and disconnections interleave, and so does its destroy handler
\* (destroy_att_send_op), but for an op which that handler cancelled while it
\* was still pending: bt_att_cancel finds it in its slot and destroys it anew.
THEOREM CallbackOnceCorrect == Spec => []CallbackOnce
<1>1. Inv => CallbackOnce
  BY DEF Inv, HandlerInv, HandlerOK, CallbackOnce
<1> QED
  BY InvAlways, <1>1, PTL

\* A cancelled op is not called back: a step that changes how often an op was
\* called back invokes its callback, which the op has only while its handlers
\* are attached, and those of a cancelled op are not.
THEOREM CancelIsFinalCorrect == Spec => CancelIsFinal
<1>1. ASSUME Inv, [Next]_vars
      PROVE  [\A o \in cancelled : calls'[o] = calls[o]]_vars
  <2>1. \A o \in cancelled : o \in OpId /\ o \notin hs
    BY <1>1 DEF Inv, HandlerInv, HandlerOK, TypeOK
  <2>2. ASSUME NEW p, NEW r, Invoke(p, r), NEW o \in cancelled
        PROVE  calls'[o] = calls[o]
    BY <1>1, <2>1, <2>2 DEF Invoke, HasCallback, Plus, Inv, TypeOK
  <2>3. CASE UNCHANGED calls
    BY <2>3
  <2>4. CASE \E p, r : Invoke(p, r)
    BY <2>2, <2>4
  <2>5. CASE Next
    BY <2>3, <2>4, <2>5, CallsStep
  <2> QED
    BY <1>1, <2>5
<1> QED
  BY InvAlways, <1>1, PTL DEF Spec, CancelIsFinal
=============================================================================
