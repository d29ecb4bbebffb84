------------------------------- MODULE BtAtt -------------------------------
(* The ATT bearer of bluez/src/shared/att.c: the queues of outgoing PDUs,   *)
(* the channels they leave on, the requests and indications that wait for   *)
(* an answer, their timers, and the teardown of a channel.                  *)
(*                                                                          *)
(* The program is one GLib main loop.  A watch or a timer is dispatched     *)
(* only when no other handler runs (frame.k = "idle"); a handler may call   *)
(* a callback of the client, and while that callback runs (frame.cb) the    *)
(* client may call any operation of the bearer.  A handler that calls the   *)
(* client is therefore split where it calls: the action that dispatches it  *)
(* ends in the frame of the callback, and an action named Return... is the  *)
(* rest of the handler.                                                     *)
EXTENDS Integers, Sequences, FiniteSets, SequencesExt

CONSTANTS
    Chan,          \* the channel objects (struct bt_att_chan)
    NoChan,        \* no channel
    Original,      \* the channel bt_att_new attaches
    Opcode,        \* opcodes of requests
    NoOpcode,      \* the opcode 0: names no request
    DefaultMtu,    \* BT_ATT_DEFAULT_LE_MTU
    Mtus,          \* MTUs given to bt_att_set_mtu or found on an EATT socket
    ClientTypes,   \* types of the PDUs the client gives to bt_att_send
    PeerTypes,     \* types of the PDUs the peer sends of its own accord
    Lens,          \* lengths of the PDUs the client sends, opcode included
    Errors,        \* what the peer answers but success
    ClientLevels,  \* security levels the client gives to bt_att_set_security
    Rogue,         \* may the peer send what the protocol forbids?
    MaxOp,         \* bound: att_send_op objects created in a behaviour
    MaxSetMtu      \* bound: calls of bt_att_set_mtu in a behaviour

ASSUME ChanAssumption   == Original \in Chan /\ NoChan \notin Chan
ASSUME OpcodeAssumption == NoOpcode \notin Opcode
ASSUME MtuAssumption    == /\ DefaultMtu \in Nat
                           /\ Mtus \subseteq {m \in Nat : m >= DefaultMtu}
                           /\ Lens \subseteq Nat
ASSUME TypeAssumption   ==
           /\ ClientTypes \subseteq {"REQ", "IND", "CMD", "NFY"}
           /\ PeerTypes \subseteq {"REQ", "IND", "CMD", "NFY", "UNKNOWN"}
ASSUME ErrorAssumption  ==
           Errors \subseteq {"encryption", "authentication", "other", "malformed"}
ASSUME LevelAssumption  == ClientLevels \subseteq 1..3
ASSUME BoundAssumption  == /\ MaxOp \in Nat /\ MaxSetMtu \in Nat
                           /\ Rogue \in BOOLEAN

NoOp == 0
OpId == 1..MaxOp              \* att_send_op objects, in order of creation

\* BT_ATT_SECURITY_...
LOW == 1
MEDIUM == 2
HIGH == 3
FIPS == 4

VARIABLES
    alive,       \* the bt_att exists
    clientRef,   \* the client still holds its reference
    chans,       \* att->chans: attached channels, newest first
    mtu,         \* att->mtu, "biggest possible MTU"
    setMtus,     \* number of bt_att_set_mtu calls so far
    reqQ,        \* att->req_queue
    indQ,        \* att->ind_queue
    wrQ,         \* att->write_queue
    info,        \* the fields of an op that never change
    nops,        \* number of ops created
    nextId,      \* att->next_send_id
    hs,          \* ops whose callback and destroy handlers are attached
    armed,       \* ops with a running timer (timeout_id # 0)
    cmtu,        \* chan->mtu
    sec,         \* security level of the channel's socket
    pendingReq,  \* chan->pending_req
    pendingInd,  \* chan->pending_ind
    cq,          \* chan->queue
    writer,      \* channels with writer_active
    reader,      \* channels whose read watch is installed
    inReq,       \* channels with in_req
    sock,        \* state of the channel and of its socket
    frame,       \* the handler that is running, see Frame
    owed,        \* peer: ops received on the channel and not yet answered
    peerReq,     \* peer: channels on which its request has had no response
    served,      \* peer: requests it carried out
    calls,       \* history: how often the op's callback ran
    status,      \* history: what the op's callback was told
    dtors,       \* history: how often the op's destroy handler ran
    frees,       \* history: how often the op was freed
    cancelled,   \* history: ops a cancel reported as cancelled
    again        \* history: ops that their own destroy handler had cancelled

attVars  == <<alive, clientRef, chans, mtu, setMtus>>
queues   == <<reqQ, indQ, wrQ>>
opVars   == <<info, nops, nextId>>
chanCfg  == <<cmtu, sec>>
peer     == <<owed, peerReq, served>>
history  == <<calls, status, dtors, frees, cancelled, again>>
vars == <<attVars, queues, opVars, hs, armed, chanCfg, pendingReq, pendingInd,
          cq, writer, reader, inReq, sock, frame, peer, history>>

OpType == {"REQ", "RSP", "CMD", "IND", "NFY", "CONF"}

\* ans is the channel whose request a RSP answers, NoChan for the others.
OpInfo == [type : OpType, opcode : Opcode \cup {NoOpcode}, len : Nat,
           id : Nat, ans : Chan \cup {NoChan}]

\* k: the handler.  c: its channel.  op: the op it is completing.
\* cb: a callback of the client is running.  todo: ops still to be flushed.
FrameKind == {"idle", "rsp", "conf", "timeout", "zero", "notify",
              "dreq", "dind", "dwrite", "dpend", "dhand", "exit"}
Frame == {f \in [k : FrameKind, c : Chan \cup {NoChan}, op : OpId \cup {NoOp},
                 cb : BOOLEAN, todo : Seq(OpId)] :
              f.k \in {"idle", "exit"} \/ f.c \in Chan}

IdleFrame == [k |-> "idle", c |-> NoChan, op |-> NoOp, cb |-> FALSE,
              todo |-> <<>>]
ExitFrame == [IdleFrame EXCEPT !.k = "exit"]
CallFrame(k, c, o, cb) == [k |-> k, c |-> c, op |-> o, cb |-> cb,
                           todo |-> <<>>]

\* unused: not attached yet.  hup: the peer hung up.  shut: io_shutdown was
\* called.  freed: the channel object is gone.
SockState == {"unused", "up", "hup", "shut", "freed"}

TypeOK ==
    /\ alive \in BOOLEAN /\ clientRef \in BOOLEAN
    /\ chans \in Seq(Chan)
    /\ mtu \in Nat /\ setMtus \in Nat
    /\ reqQ \in Seq(OpId) /\ indQ \in Seq(OpId) /\ wrQ \in Seq(OpId)
    /\ info \in [OpId -> OpInfo]
    /\ nops \in 0..MaxOp /\ nextId \in Nat
    /\ hs \subseteq OpId /\ armed \subseteq OpId
    /\ cmtu \in [Chan -> Nat] /\ sec \in [Chan -> LOW..FIPS]
    /\ pendingReq \in [Chan -> OpId \cup {NoOp}]
    /\ pendingInd \in [Chan -> OpId \cup {NoOp}]
    /\ cq \in [Chan -> Seq(OpId)]
    /\ writer \subseteq Chan /\ reader \subseteq Chan /\ inReq \subseteq Chan
    /\ sock \in [Chan -> SockState]
    /\ frame \in Frame
    /\ owed \in [Chan -> SUBSET OpId] /\ peerReq \subseteq Chan
    /\ served \subseteq OpId
    /\ calls \in [OpId -> Nat] /\ dtors \in [OpId -> Nat]
    /\ frees \in [OpId -> Nat]
    /\ status \in [OpId -> {"none", "ok", "error"}]
    /\ cancelled \subseteq OpId /\ again \subseteq OpId

-----------------------------------------------------------------------------
(* Helpers *)

Attached == ToSet(chans)

\* The main loop may dispatch a watch or a timer.
Idle == alive /\ frame.k = "idle"

\* The client's own code runs and holds a reference.
ClientRuns == alive /\ clientRef /\ (frame.k = "idle" \/ frame.cb)

HasCallback(o) == o \in hs /\ info[o].type \in {"REQ", "IND"}

Plus(f, S) == [o \in OpId |-> f[o] + (IF o \in S THEN 1 ELSE 0)]

\* destroy_att_send_op on every op of S, none of which is pending any more: what
\* the destroy handlers call finds them nowhere.  The timers are the caller's.
Destroy(S) ==
    /\ frees' = Plus(frees, S)
    /\ dtors' = Plus(dtors, S \cap hs)
    /\ hs' = hs \ S
    /\ UNCHANGED again

\* The destroy handlers of the ops of S run, which are then no longer attached.
\* Those of A, ops that are still pending, have their own op cancelled, and
\* cancel_att_send_op runs them a second time before it detaches them.
RunDestroy(S, A) ==
    /\ dtors' = Plus(Plus(dtors, S \cap hs), A)
    /\ again' = again \cup A
    /\ hs' = hs \ S

\* destroy_att_send_op on op o, which is still in its slot.
DestroyPending(o) ==
    /\ frees' = Plus(frees, {o})
    /\ \E A \in SUBSET ({o} \cap hs) :
           RunDestroy({o}, A) /\ cancelled' = cancelled \cup A

\* Mutant of Invoke: only successes are reported.
InvokeOkOnly(o, r) ==
    /\ calls' = Plus(calls, IF HasCallback(o) /\ r = "ok" THEN {o} ELSE {})
    /\ status' = [status EXCEPT ![o] = IF HasCallback(o) THEN r ELSE @]

\* The callback of o is called with result r, if o still has one.
Invoke(o, r) ==
    /\ calls' = Plus(calls, IF HasCallback(o) THEN {o} ELSE {})
    /\ status' = [status EXCEPT ![o] = IF HasCallback(o) THEN r ELSE @]

\* Mutant of Work: indications are forgotten.
WorkNoInd(c) == \/ cq[c] # <<>> \/ wrQ # <<>>
                \/ pendingReq[c] = NoOp /\ reqQ # <<>>

\* wakeup_chan_writer: there is something that can be sent at all.
Work(c) == \/ cq[c] # <<>> \/ wrQ # <<>>
           \/ pendingReq[c] = NoOp /\ reqQ # <<>>
           \/ pendingInd[c] = NoOp /\ indQ # <<>>

\* Mutant of WakeChan: the wakeup is left out.
NoWakeChan(c) == UNCHANGED writer

WakeChan(c) == writer' = IF Work(c)' THEN writer \cup {c} ELSE writer

\* wakeup_writer
WakeAll == writer' = writer \cup {c \in Attached : Work(c)'}

\* Mutant of Shutdown: the channel stays open.
NoShutdown(c) == UNCHANGED sock

Shutdown(c) == sock' = [sock EXCEPT ![c] = "shut"]

-----------------------------------------------------------------------------
(* pick_next_send_op: the queue the next PDU of channel c comes from.  The  *)
(* head of a shared queue is taken only if it fits the channel's MTU.       *)

Fits(q, c) == q # <<>> /\ info[Head(q)].len <= cmtu[c]

PickSource(c) ==
    CASE cq[c] # <<>>                            -> "chan"
      [] cq[c] = <<>> /\ Fits(wrQ, c)            -> "write"
      [] /\ cq[c] = <<>> /\ ~Fits(wrQ, c)
         /\ pendingReq[c] = NoOp /\ Fits(reqQ, c) -> "req"
      [] /\ cq[c] = <<>> /\ ~Fits(wrQ, c)
         /\ ~(pendingReq[c] = NoOp /\ Fits(reqQ, c))
         /\ pendingInd[c] = NoOp /\ Fits(indQ, c) -> "ind"
      [] OTHER                                   -> "none"

PickedQueue(c) ==
    CASE PickSource(c) = "chan"  -> cq[c]
      [] PickSource(c) = "write" -> wrQ
      [] PickSource(c) = "req"   -> reqQ
      [] PickSource(c) = "ind"   -> indQ

PopPicked(c) ==
    LET src == PickSource(c) IN
    /\ cq' = IF src = "chan" THEN [cq EXCEPT ![c] = Tail(@)] ELSE cq
    /\ wrQ' = IF src = "write" THEN Tail(wrQ) ELSE wrQ
    /\ reqQ' = IF src = "req" THEN Tail(reqQ) ELSE reqQ
    /\ indQ' = IF src = "ind" THEN Tail(indQ) ELSE indQ

-----------------------------------------------------------------------------
(* Operations of the client *)

\* create_att_send_op: opcodes of type REQ and IND come with a callback, the
\* others without one; the PDU must fit the biggest MTU of the bearer.
CreateOp(t, oc, len, id, ans) ==
    /\ nops < MaxOp
    /\ len <= mtu
    /\ nops' = nops + 1
    /\ info' = [info EXCEPT ![nops + 1] =
                   [type |-> t, opcode |-> oc, len |-> len, id |-> id,
                    ans |-> ans]]
    /\ hs' = hs \cup {nops + 1}

\* bt_att_send, the op being filed by its type.
SendOp(t, oc, len, ans) ==
    LET id == IF nextId < 1 THEN 1 ELSE nextId IN
    /\ chans # <<>>
    /\ CreateOp(t, oc, len, id, ans)
    /\ nextId' = id + 1
    /\ reqQ' = IF t = "REQ" THEN Append(reqQ, nops + 1) ELSE reqQ
    /\ indQ' = IF t = "IND" THEN Append(indQ, nops + 1) ELSE indQ
    /\ wrQ' = IF t \notin {"REQ", "IND"} THEN Append(wrQ, nops + 1) ELSE wrQ

Send(t, oc, len) ==
    /\ ClientRuns
    /\ SendOp(t, IF t = "REQ" THEN oc ELSE NoOpcode, len, NoChan)
    /\ UNCHANGED <<attVars, armed, chanCfg, pendingReq, pendingInd, cq, reader,
                   inReq, sock, frame, peer, history>>
    /\ WakeAll

\* bt_att_chan_send, as bt_att_chan_send_rsp uses it: the answer to the
\* request that came in on c.  The op has no id.
ChanSendRsp(c, len) ==
    /\ ClientRuns
    /\ c \in Attached /\ c \in peerReq
    /\ CreateOp("RSP", NoOpcode, len, 0, c)
    /\ cq' = [cq EXCEPT ![c] = Append(@, nops + 1)]
    /\ UNCHANGED <<attVars, queues, nextId, armed, chanCfg, pendingReq,
                   pendingInd, reader, inReq, sock, frame, peer, history>>
    /\ WakeChan(c)

\* Mutant of CancelPending: the handlers stay attached.
CancelPendingKeep(o) ==
    /\ \E A \in SUBSET ({o} \cap hs) :
           /\ dtors' = Plus(Plus(dtors, {o} \cap hs), A)
           /\ again' = again \cup A
    /\ cancelled' = cancelled \cup {o}
    /\ UNCHANGED <<queues, cq, writer, frees, hs>>

\* cancel_att_send_op: the pending op stays, its handlers go.
CancelPending(o) ==
    /\ \E A \in SUBSET ({o} \cap hs) : RunDestroy({o}, A)
    /\ cancelled' = cancelled \cup {o}
    /\ UNCHANGED <<queues, cq, writer, frees>>

\* A queued op is destroyed; the caller takes it off its queue.
CancelQueued(o) ==
    /\ Destroy({o})
    /\ cancelled' = cancelled \cup {o}

\* bt_att_cancel.  Ids are unique, so at most one place holds the op.
Cancel(id) ==
    /\ ClientRuns
    /\ id # 0
    /\ UNCHANGED <<attVars, opVars, armed, chanCfg, pendingReq, pendingInd,
                   reader, inReq, sock, frame, peer, calls, status>>
    /\ \/ \E c \in Attached, o \in OpId :
              /\ o \in {pendingReq[c], pendingInd[c]}
              /\ info[o].id = id
              /\ CancelPending(o)
       \/ \E i \in 1..Len(reqQ) :
              /\ info[reqQ[i]].id = id
              /\ CancelQueued(reqQ[i])
              /\ reqQ' = RemoveAt(reqQ, i)
              /\ UNCHANGED <<indQ, wrQ, cq>>
              /\ WakeAll
       \/ \E i \in 1..Len(indQ) :
              /\ info[indQ[i]].id = id
              /\ CancelQueued(indQ[i])
              /\ indQ' = RemoveAt(indQ, i)
              /\ UNCHANGED <<reqQ, wrQ, cq>>
              /\ WakeAll
       \/ \E i \in 1..Len(wrQ) :
              /\ info[wrQ[i]].id = id
              /\ CancelQueued(wrQ[i])
              /\ wrQ' = RemoveAt(wrQ, i)
              /\ UNCHANGED <<reqQ, indQ, cq>>
              /\ WakeAll

PendingOps == ({pendingReq[c] : c \in Attached} \cup
               {pendingInd[c] : c \in Attached}) \ {NoOp}

QueuedOps == ToSet(reqQ) \cup ToSet(indQ) \cup ToSet(wrQ)

\* bt_att_cancel_all: the shared queues are emptied, the pending ops lose
\* their handlers; the queues of the channels stay.
CancelAll ==
    /\ ClientRuns
    /\ QueuedOps \cup PendingOps # {}
    /\ reqQ' = <<>> /\ indQ' = <<>> /\ wrQ' = <<>>
    /\ frees' = Plus(frees, QueuedOps)
    /\ \E A \in SUBSET (PendingOps \cap hs) :
           RunDestroy(QueuedOps \cup PendingOps, A)
    /\ cancelled' = cancelled \cup QueuedOps \cup PendingOps
    /\ UNCHANGED <<attVars, opVars, armed, chanCfg, pendingReq, pendingInd, cq,
                   writer, reader, inReq, sock, frame, peer, calls, status>>

\* bt_att_set_mtu: the original channel, which is always the last.
SetMtu(m) ==
    /\ ClientRuns
    /\ chans # <<>>
    /\ setMtus < MaxSetMtu
    /\ m >= DefaultMtu
    /\ setMtus' = setMtus + 1
    /\ cmtu' = [cmtu EXCEPT ![Last(chans)] = m]
    /\ mtu' = IF m > mtu THEN m ELSE mtu
    /\ UNCHANGED <<alive, clientRef, chans, queues, opVars, hs, armed, sec,
                   pendingReq, pendingInd, cq, writer, reader, inReq, sock,
                   frame, peer, history>>

\* bt_att_set_security on an L2CAP socket.
SetSecurity(l) ==
    /\ ClientRuns
    /\ chans # <<>>
    /\ l # sec[Last(chans)]
    /\ sec' = [sec EXCEPT ![Last(chans)] = l]
    /\ UNCHANGED <<attVars, queues, opVars, hs, armed, cmtu, pendingReq,
                   pendingInd, cq, writer, reader, inReq, sock, frame, peer,
                   history>>

\* bt_att_attach_fd and bt_att_attach_chan: an EATT channel, whose MTU the
\* socket gives, goes to the head of the list.
AttachFd(c, m) ==
    /\ ClientRuns
    /\ sock[c] = "unused"
    /\ m >= DefaultMtu
    /\ chans' = Cons(c, chans)
    /\ sock' = [sock EXCEPT ![c] = "up"]
    /\ reader' = reader \cup {c}
    /\ cmtu' = [cmtu EXCEPT ![c] = m]
    /\ mtu' = IF m > mtu THEN m ELSE mtu
    /\ UNCHANGED <<alive, clientRef, setMtus, queues, opVars, hs, armed, sec,
                   pendingReq, pendingInd, cq, inReq, frame, peer, history>>
    /\ WakeChan(c)

\* Ops that bt_att_free finds: the shared queues and the attached channels.
HeldOps == QueuedOps \cup PendingOps \cup
           UNION {ToSet(cq[c]) : c \in Attached}

\* The last bt_att_unref: cancel_all, then bt_att_free with its channels.
Free ==
    /\ Destroy(HeldOps)
    /\ alive' = FALSE
    /\ chans' = <<>>
    /\ reqQ' = <<>> /\ indQ' = <<>> /\ wrQ' = <<>>
    /\ armed' = armed \ HeldOps
    /\ pendingReq' = [c \in Chan |-> IF c \in Attached THEN NoOp
                                     ELSE pendingReq[c]]
    /\ pendingInd' = [c \in Chan |-> IF c \in Attached THEN NoOp
                                     ELSE pendingInd[c]]
    /\ cq' = [c \in Chan |-> IF c \in Attached THEN <<>> ELSE cq[c]]
    /\ writer' = writer \ Attached
    /\ reader' = reader \ Attached
    /\ sock' = [c \in Chan |-> IF c \in Attached THEN "freed" ELSE sock[c]]
    /\ UNCHANGED <<mtu, setMtus, opVars, chanCfg, inReq, peer, calls, status,
                   cancelled>>

\* The client drops its reference.  can_read_data and the disconnect handlers
\* hold one of their own, so there the bearer lives until the handler ends;
\* the handlers of a timeout and of the flush hold none, and a client must
\* not drop its reference in a callback of those.
ClientUnref ==
    /\ ClientRuns
    /\ frame.k \in {"idle", "rsp", "conf", "notify", "dhand"}
    /\ clientRef' = FALSE
    /\ IF frame.k = "idle"
       THEN Free /\ UNCHANGED frame
       ELSE UNCHANGED <<alive, chans, mtu, setMtus, queues, opVars, hs, armed,
                        chanCfg, pendingReq, pendingInd, cq, writer, reader,
                        inReq, sock, frame, peer, history>>

-----------------------------------------------------------------------------
(* can_write_data *)

\* Nothing to send: the write watch is removed.
WriteNone(c) ==
    /\ Idle /\ c \in Attached /\ c \in writer /\ sock[c] \in {"up", "hup"}
    /\ PickSource(c) = "none"
    /\ writer' = writer \ {c}
    /\ UNCHANGED <<attVars, queues, opVars, hs, armed, chanCfg, pendingReq,
                   pendingInd, cq, reader, inReq, sock, frame, peer, history>>

\* writev accepted the PDU ("sent") or failed with an error ("failed"): the
\* code tests the result of bt_att_chan_write against 0 only, so both go the
\* same way.
WritePdu(c, out) ==
    LET o == Head(PickedQueue(c))
        t == info[o].type
    IN
    /\ Idle /\ c \in Attached /\ c \in writer /\ sock[c] \in {"up", "hup"}
    /\ out = "sent" => sock[c] = "up"
    /\ PickSource(c) # "none"
    /\ PopPicked(c)
    /\ pendingReq' = IF t = "REQ" THEN [pendingReq EXCEPT ![c] = o]
                     ELSE pendingReq
    /\ pendingInd' = IF t = "IND" THEN [pendingInd EXCEPT ![c] = o]
                     ELSE pendingInd
    /\ armed' = IF t \in {"REQ", "IND"} THEN armed \cup {o} ELSE armed
    /\ inReq' = IF t = "RSP" THEN inReq \ {c} ELSE inReq
    /\ Destroy(IF t \in {"REQ", "IND"} THEN {} ELSE {o})
    /\ owed' = IF out = "sent" /\ t \in {"REQ", "IND"}
               THEN [owed EXCEPT ![c] = @ \cup {o}] ELSE owed
    /\ peerReq' = IF t = "RSP" /\ info[o].ans = c
                  THEN peerReq \ {c} ELSE peerReq
    /\ UNCHANGED <<attVars, opVars, chanCfg, writer, reader, sock, frame,
                   served, calls, status, cancelled>>

\* writev returned 0: the op ends with an error.
WriteZero(c) ==
    LET o == Head(PickedQueue(c)) IN
    /\ Idle /\ c \in Attached /\ c \in writer /\ sock[c] = "up"
    /\ PickSource(c) # "none"
    /\ PopPicked(c)
    /\ Invoke(o, "error")
    /\ frame' = CallFrame("zero", c, o, HasCallback(o))
    /\ UNCHANGED <<attVars, opVars, hs, armed, chanCfg, pendingReq, pendingInd,
                   writer, reader, inReq, sock, peer, dtors, frees, cancelled,
                   again>>

ReturnZero ==
    /\ frame.k = "zero"
    /\ Destroy({frame.op})
    /\ frame' = IdleFrame
    /\ UNCHANGED <<attVars, queues, opVars, armed, chanCfg, pendingReq,
                   pendingInd, cq, writer, reader, inReq, sock, peer, calls,
                   status, cancelled>>

-----------------------------------------------------------------------------
(* can_read_data: responses and confirmations *)

Readable(c) == Idle /\ c \in Attached /\ c \in reader /\ sock[c] \in {"up", "hup"}

Ecode == {"ok"} \cup Errors

\* Mutant of ChangeSecurity: no highest level.
ChangeSecurityUnbounded(l, ecode) ==
    CASE ecode = "encryption" /\ l < MEDIUM -> MEDIUM
      [] ecode = "authentication"           -> l + 1
      [] OTHER                              -> 0

\* change_security on a socket whose level is l: the level it asks for, or 0.
\* A channel over L2CAP has sec_level AUTO.
ChangeSecurity(l, ecode) ==
    CASE ecode = "encryption" /\ l < MEDIUM                    -> MEDIUM
      [] ecode = "authentication" /\ l < MEDIUM                -> MEDIUM
      [] ecode = "authentication" /\ l >= MEDIUM /\ l < HIGH   -> HIGH
      [] ecode = "authentication" /\ l >= HIGH /\ l < FIPS     -> FIPS
      [] OTHER                                                 -> 0

\* No request is pending: the response is unexpected.
RspUnexpected(c) ==
    /\ pendingReq[c] = NoOp
    /\ Shutdown(c)
    /\ UNCHANGED <<reqQ, hs, armed, sec, pendingReq, writer, frame, calls,
                   status>>

\* Mutant of RspRetry: pending_req is not cleared.
RspRetryKeep(c, ecode) ==
    LET l == ChangeSecurity(sec[c], ecode) IN
    /\ pendingReq[c] # NoOp
    /\ l # 0
    /\ sec' = [sec EXCEPT ![c] = l]
    /\ armed' = armed \ {pendingReq[c]}
    /\ reqQ' = Cons(pendingReq[c], reqQ)
    /\ UNCHANGED <<pendingReq, hs, sock, frame, calls, status>>
    /\ WakeChan(c)

\* Mutant of RspRetry: the timer keeps running.
RspRetryTimed(c, ecode) ==
    LET l == ChangeSecurity(sec[c], ecode) IN
    /\ pendingReq[c] # NoOp
    /\ l # 0
    /\ sec' = [sec EXCEPT ![c] = l]
    /\ reqQ' = Cons(pendingReq[c], reqQ)
    /\ pendingReq' = [pendingReq EXCEPT ![c] = NoOp]
    /\ UNCHANGED <<armed, hs, sock, frame, calls, status>>
    /\ WakeChan(c)

\* handle_error_rsp raises the security and puts the request back at the head
\* of the shared queue.  It does not look at the opcode the error names.
RspRetry(c, ecode) ==
    LET l == ChangeSecurity(sec[c], ecode) IN
    /\ pendingReq[c] # NoOp
    /\ l # 0
    /\ sec' = [sec EXCEPT ![c] = l]
    /\ armed' = armed \ {pendingReq[c]}
    /\ reqQ' = Cons(pendingReq[c], reqQ)
    /\ pendingReq' = [pendingReq EXCEPT ![c] = NoOp]
    /\ UNCHANGED <<hs, sock, frame, calls, status>>
    /\ WakeChan(c)

\* The request ends: with the response if it is one to this request, with an
\* error otherwise.  Also taken when setsockopt refuses the new level.
RspDeliver(c, oc, ecode) ==
    LET o == pendingReq[c] IN
    /\ o # NoOp
    /\ Invoke(o, IF ecode = "ok" /\ oc = info[o].opcode THEN "ok" ELSE "error")
    /\ frame' = CallFrame("rsp", c, o, HasCallback(o))
    /\ UNCHANGED <<reqQ, hs, armed, sec, pendingReq, writer, sock>>

HandleRsp(c, oc, ecode) ==
    /\ UNCHANGED <<attVars, indQ, wrQ, opVars, cmtu, pendingInd, cq, reader,
                   inReq, peerReq, dtors, frees, cancelled, again>>
    /\ \/ RspUnexpected(c)
       \/ RspRetry(c, ecode)
       \/ RspDeliver(c, oc, ecode)

\* The peer answers a request it has received.
PeerAnswers(c, o, ecode) ==
    /\ Readable(c)
    /\ o \in owed[c] /\ info[o].type = "REQ"
    /\ ecode # "malformed"
    /\ owed' = [owed EXCEPT ![c] = @ \ {o}]
    /\ served' = IF ecode = "ok" THEN served \cup {o} ELSE served
    /\ HandleRsp(c, info[o].opcode, ecode)

\* The peer sends a response nobody asked for, or a wrong or broken one.
RogueRsp(c, oc, ecode) ==
    /\ Rogue
    /\ Readable(c)
    /\ HandleRsp(c, oc, ecode)
    /\ UNCHANGED <<owed, served>>

ReturnRsp(c) ==
    /\ frame.k = "rsp" /\ frame.c = c
    /\ DestroyPending(frame.op)
    /\ armed' = armed \ {frame.op}
    /\ pendingReq' = [pendingReq EXCEPT ![c] = NoOp]
    /\ frame' = ExitFrame
    /\ UNCHANGED <<attVars, queues, opVars, chanCfg, pendingInd, cq, reader,
                   inReq, sock, peer, calls, status>>
    /\ WakeChan(c)

\* handle_conf, with a confirmation that is empty as it must be or is not.
HandleConf(c, empty) ==
    LET o == pendingInd[c] IN
    /\ \/ /\ o = NoOp \/ ~empty
          /\ Shutdown(c)
          /\ UNCHANGED <<frame, calls, status>>
       \/ /\ o # NoOp /\ empty
          /\ Invoke(o, "ok")
          /\ frame' = CallFrame("conf", c, o, HasCallback(o))
          /\ UNCHANGED sock
    /\ UNCHANGED <<attVars, queues, opVars, hs, armed, chanCfg, pendingReq,
                   pendingInd, cq, writer, reader, inReq, peerReq, dtors,
                   frees, cancelled, again>>

PeerConfirms(c, o) ==
    /\ Readable(c)
    /\ o \in owed[c] /\ info[o].type = "IND"
    /\ owed' = [owed EXCEPT ![c] = @ \ {o}]
    /\ served' = served \cup {o}
    /\ HandleConf(c, TRUE)

RogueConf(c, empty) ==
    /\ Rogue
    /\ Readable(c)
    /\ HandleConf(c, empty)
    /\ UNCHANGED <<owed, served>>

\* Mutant of ReturnConf: pending_ind is not cleared.
ReturnConfKeep(c) ==
    /\ frame.k = "conf" /\ frame.c = c
    /\ DestroyPending(frame.op)
    /\ armed' = armed \ {frame.op}
    /\ frame' = ExitFrame
    /\ UNCHANGED <<attVars, queues, opVars, chanCfg, pendingReq,
                   pendingInd, cq, reader,
                   inReq, sock, peer, calls, status>>
    /\ WakeChan(c)

ReturnConf(c) ==
    /\ frame.k = "conf" /\ frame.c = c
    /\ DestroyPending(frame.op)
    /\ armed' = armed \ {frame.op}
    /\ pendingInd' = [pendingInd EXCEPT ![c] = NoOp]
    /\ frame' = ExitFrame
    /\ UNCHANGED <<attVars, queues, opVars, chanCfg, pendingReq, cq, reader,
                   inReq, sock, peer, calls, status>>
    /\ WakeChan(c)

-----------------------------------------------------------------------------
(* can_read_data: everything else *)

\* A request while another one is pending: the bearer is disconnected, and
\* the read watch goes.
PeerRequestTwice(c) ==
    /\ Readable(c)
    /\ c \in inReq
    /\ c \in peerReq => Rogue
    /\ Shutdown(c)
    /\ reader' = reader \ {c}
    /\ peerReq' = peerReq \cup {c}
    /\ UNCHANGED <<attVars, queues, opVars, hs, armed, chanCfg, pendingReq,
                   pendingInd, cq, writer, inReq, frame, owed, served, history>>

\* A PDU of type t arrives that is not refused.
Arrives(c, t) ==
    /\ Readable(c)
    /\ t = "REQ" => c \notin inReq /\ (c \in peerReq => Rogue)
    /\ inReq' = IF t = "REQ" THEN inReq \cup {c} ELSE inReq
    /\ peerReq' = IF t = "REQ" THEN peerReq \cup {c} ELSE peerReq

\* handle_notify found handlers registered for the PDU: they run.
PeerSendsHandled(c, t) ==
    /\ Arrives(c, t)
    /\ frame' = CallFrame("notify", c, NoOp, TRUE)
    /\ UNCHANGED <<attVars, queues, opVars, hs, armed, chanCfg, pendingReq,
                   pendingInd, cq, writer, reader, sock, owed, served, history>>

ReturnNotify ==
    /\ frame.k = "notify"
    /\ frame' = ExitFrame
    /\ UNCHANGED <<attVars, queues, opVars, hs, armed, chanCfg, pendingReq,
                   pendingInd, cq, writer, reader, inReq, sock, peer, history>>

ErrorRspLen == 5   \* opcode, request opcode, handle, error code

\* No handler: respond_not_supported, through the shared write queue.
PeerSendsUnhandled(c, t) ==
    /\ Arrives(c, t)
    /\ t # "CMD"
    /\ SendOp("RSP", NoOpcode, ErrorRspLen, IF t = "REQ" THEN c ELSE NoChan)
    /\ UNCHANGED <<attVars, armed, chanCfg, pendingReq, pendingInd, cq, reader,
                   sock, frame, owed, served, history>>
    /\ WakeAll

\* read failed: the read watch goes, the channel stays.
ReadError(c) ==
    /\ Readable(c)
    /\ reader' = reader \ {c}
    /\ UNCHANGED <<attVars, queues, opVars, hs, armed, chanCfg, pendingReq,
                   pendingInd, cq, writer, inReq, sock, frame, peer, history>>

\* The bt_att_unref at the end of can_read_data and of disconnect_cb.
Exit ==
    /\ frame.k = "exit"
    /\ frame' = IdleFrame
    /\ IF clientRef
       THEN UNCHANGED <<alive, chans, mtu, setMtus, queues, opVars, hs, armed,
                        chanCfg, pendingReq, pendingInd, cq, writer, reader,
                        inReq, sock, peer, history>>
       ELSE Free
    /\ UNCHANGED clientRef

-----------------------------------------------------------------------------
(* timeout_cb: the answer did not come within ATT_TIMEOUT_INTERVAL *)

Timeout(c, o) ==
    /\ Idle
    /\ o \in armed
    /\ o \in {pendingReq[c], pendingInd[c]}
    /\ pendingReq' = IF pendingReq[c] = o THEN [pendingReq EXCEPT ![c] = NoOp]
                     ELSE pendingReq
    /\ pendingInd' = IF pendingReq[c] # o THEN [pendingInd EXCEPT ![c] = NoOp]
                     ELSE pendingInd
    /\ armed' = armed \ {o}
    /\ Invoke(o, "error")
    /\ frame' = CallFrame("timeout", c, o, HasCallback(o))
    /\ UNCHANGED <<attVars, queues, opVars, hs, chanCfg, cq, writer, reader,
                   inReq, sock, peer, dtors, frees, cancelled, again>>

ReturnTimeout ==
    /\ frame.k = "timeout"
    /\ Destroy({frame.op})
    /\ Shutdown(frame.c)
    /\ frame' = IdleFrame
    /\ UNCHANGED <<attVars, queues, opVars, armed, chanCfg, pendingReq,
                   pendingInd, cq, writer, reader, inReq, peer, calls, status,
                   cancelled>>

-----------------------------------------------------------------------------
(* The channel goes down *)

PeerHangup(c) ==
    /\ Idle /\ sock[c] = "up"
    /\ sock' = [sock EXCEPT ![c] = "hup"]
    /\ UNCHANGED <<attVars, queues, opVars, hs, armed, chanCfg, pendingReq,
                   pendingInd, cq, writer, reader, inReq, frame, peer, history>>

\* watch_callback: an error condition removes the read and the write watch.
WatchError(c) ==
    /\ Idle /\ sock[c] \in {"hup", "shut"}
    /\ c \in reader \/ c \in writer
    /\ reader' = reader \ {c}
    /\ writer' = writer \ {c}
    /\ UNCHANGED <<attVars, queues, opVars, hs, armed, chanCfg, pendingReq,
                   pendingInd, cq, inReq, sock, frame, peer, history>>

\* disconnect_cb detaches the channel and takes the request queue ...
Disconnect(c) ==
    /\ Idle /\ sock[c] \in {"hup", "shut"}
    /\ \E i \in 1..Len(chans) : chans[i] = c /\ chans' = RemoveAt(chans, i)
    /\ frame' = [k |-> "dreq", c |-> c, op |-> NoOp, cb |-> FALSE,
                 todo |-> reqQ]
    /\ reqQ' = <<>>
    /\ UNCHANGED <<alive, clientRef, mtu, setMtus, indQ, wrQ, opVars, hs, armed,
                   chanCfg, pendingReq, pendingInd, cq, writer, reader, inReq,
                   sock, peer, history>>

Flushing == frame.k \in {"dreq", "dind", "dwrite", "dpend"}

\* ... disc_att_send_op: the next op of the list is told of the failure ...
FlushCall ==
    LET o == Head(frame.todo) IN
    /\ Flushing /\ frame.op = NoOp /\ frame.todo # <<>>
    /\ Invoke(o, "error")
    /\ frame' = [frame EXCEPT !.op = o, !.cb = HasCallback(o),
                              !.todo = Tail(@)]
    /\ UNCHANGED <<attVars, queues, opVars, hs, armed, chanCfg, pendingReq,
                   pendingInd, cq, writer, reader, inReq, sock, peer, dtors,
                   frees, cancelled, again>>

\* ... and destroyed when its callback returns ...
ReturnFlush ==
    /\ Flushing /\ frame.op # NoOp
    /\ Destroy({frame.op})
    /\ armed' = armed \ {frame.op}
    /\ frame' = [frame EXCEPT !.op = NoOp, !.cb = FALSE]
    /\ UNCHANGED <<attVars, queues, opVars, chanCfg, pendingReq, pendingInd, cq,
                   writer, reader, inReq, sock, peer, calls, status, cancelled>>

FlushDone(k) == frame.k = k /\ frame.op = NoOp /\ frame.todo = <<>>

\* ... then the indications, the PDUs ready to send, and the two pending ops.
FlushInd ==
    /\ FlushDone("dreq")
    /\ frame' = [frame EXCEPT !.k = "dind", !.todo = indQ]
    /\ indQ' = <<>>
    /\ UNCHANGED <<attVars, reqQ, wrQ, opVars, hs, armed, chanCfg, pendingReq,
                   pendingInd, cq, writer, reader, inReq, sock, peer, history>>

FlushWrite ==
    /\ FlushDone("dind")
    /\ frame' = [frame EXCEPT !.k = "dwrite", !.todo = wrQ]
    /\ wrQ' = <<>>
    /\ UNCHANGED <<attVars, reqQ, indQ, opVars, hs, armed, chanCfg, pendingReq,
                   pendingInd, cq, writer, reader, inReq, sock, peer, history>>

\* Mutant of Single: what is pending is forgotten.
SingleLost(o) == <<>>

Single(o) == IF o = NoOp THEN <<>> ELSE <<o>>

FlushPending ==
    LET c == frame.c IN
    /\ FlushDone("dwrite")
    /\ frame' = [frame EXCEPT !.k = "dpend",
                     !.todo = Single(pendingReq[c]) \o Single(pendingInd[c])]
    /\ pendingReq' = [pendingReq EXCEPT ![c] = NoOp]
    /\ pendingInd' = [pendingInd EXCEPT ![c] = NoOp]
    /\ UNCHANGED <<attVars, queues, opVars, hs, armed, chanCfg, cq, writer,
                   reader, inReq, sock, peer, history>>

\* bt_att_chan_free: the channel's own queue is dropped without a word.  The
\* disconnect handlers run only when no channel is left.
ChanFree ==
    LET c == frame.c IN
    /\ FlushDone("dpend")
    /\ Destroy(ToSet(cq[c]))
    /\ cq' = [cq EXCEPT ![c] = <<>>]
    /\ writer' = writer \ {c}
    /\ reader' = reader \ {c}
    /\ sock' = [sock EXCEPT ![c] = "freed"]
    /\ frame' = IF chans = <<>> THEN CallFrame("dhand", c, NoOp, TRUE)
                ELSE IdleFrame
    /\ UNCHANGED <<attVars, queues, opVars, armed, chanCfg, pendingReq,
                   pendingInd, inReq, peer, calls, status, cancelled>>

ReturnDisconnect ==
    /\ frame.k = "dhand"
    /\ frame' = ExitFrame
    /\ UNCHANGED <<attVars, queues, opVars, hs, armed, chanCfg, pendingReq,
                   pendingInd, cq, writer, reader, inReq, sock, peer, history>>

-----------------------------------------------------------------------------
(* Specification *)

\* bt_att_new on an LE socket: one channel, everything else empty.
Init ==
    /\ alive = TRUE /\ clientRef = TRUE
    /\ chans = <<Original>>
    /\ mtu = DefaultMtu /\ setMtus = 0
    /\ reqQ = <<>> /\ indQ = <<>> /\ wrQ = <<>>
    /\ info = [o \in OpId |-> [type |-> "CMD", opcode |-> NoOpcode, len |-> 0,
                               id |-> 0, ans |-> NoChan]]
    /\ nops = 0 /\ nextId = 0
    /\ hs = {} /\ armed = {}
    /\ cmtu = [c \in Chan |-> DefaultMtu]
    /\ sec = [c \in Chan |-> LOW]
    /\ pendingReq = [c \in Chan |-> NoOp]
    /\ pendingInd = [c \in Chan |-> NoOp]
    /\ cq = [c \in Chan |-> <<>>]
    /\ writer = {} /\ reader = {Original} /\ inReq = {}
    /\ sock = [c \in Chan |-> IF c = Original THEN "up" ELSE "unused"]
    /\ frame = IdleFrame
    /\ owed = [c \in Chan |-> {}] /\ peerReq = {}
    /\ served = {}
    /\ calls = [o \in OpId |-> 0] /\ dtors = [o \in OpId |-> 0]
    /\ frees = [o \in OpId |-> 0]
    /\ status = [o \in OpId |-> "none"]
    /\ cancelled = {} /\ again = {}

\* The calls of the client.
Client ==
    \/ \E t \in ClientTypes, oc \in Opcode, len \in Lens :
           Send(t, oc, len)
    \/ \E c \in Chan, len \in Lens : ChanSendRsp(c, len)
    \/ \E id \in 1..MaxOp : Cancel(id)
    \/ CancelAll
    \/ \E m \in Mtus : SetMtu(m)
    \/ \E l \in ClientLevels : SetSecurity(l)
    \/ \E c \in Chan, m \in Mtus : AttachFd(c, m)
    \/ ClientUnref

\* What the kernel and the peer do.
Environment ==
    \/ \E c \in Chan, o \in OpId, e \in Ecode : PeerAnswers(c, o, e)
    \/ \E c \in Chan, oc \in Opcode \cup {NoOpcode}, e \in Ecode :
           RogueRsp(c, oc, e)
    \/ \E c \in Chan, o \in OpId : PeerConfirms(c, o)
    \/ \E c \in Chan, empty \in BOOLEAN : RogueConf(c, empty)
    \/ \E c \in Chan : PeerRequestTwice(c) \/ ReadError(c) \/ PeerHangup(c)
    \/ \E c \in Chan, t \in PeerTypes :
           PeerSendsHandled(c, t) \/ PeerSendsUnhandled(c, t)

\* The main loop's own progress on a channel.
Loop(c) ==
    \/ WriteNone(c)
    \/ \E out \in {"sent", "failed"} : WritePdu(c, out)
    \/ WriteZero(c)
    \/ \E o \in OpId : Timeout(c, o)
    \/ WatchError(c)
    \/ Disconnect(c)

\* The rest of the running handler.
Return ==
    \/ \E c \in Chan : ReturnRsp(c) \/ ReturnConf(c)
    \/ ReturnZero \/ ReturnNotify \/ Exit
    \/ ReturnTimeout
    \/ FlushCall \/ ReturnFlush \/ FlushInd \/ FlushWrite \/ FlushPending
    \/ ChanFree \/ ReturnDisconnect

Next == Client \/ Environment \/ (\E c \in Chan : Loop(c)) \/ Return

Spec == Init /\ [][Next]_vars
\* A handler that has started ends, for the client's callbacks return.  The
\* main loop dispatches in every iteration all the ready sources of the
\* default priority, so a ready write watch or an expired timer is not starved
\* by PDUs that keep arriving; the disconnect watch has idle priority and runs
\* when what a dead socket still holds has been read.
Fairness ==
    /\ WF_vars(Return)
    /\ \A c \in Chan :
        /\ SF_vars(WriteNone(c) \/ WriteZero(c) \/
                   \E out \in {"sent", "failed"} : WritePdu(c, out))
        /\ SF_vars(\E o \in OpId : Timeout(c, o))
        /\ SF_vars(Disconnect(c))

FairSpec == Spec /\ Fairness

-----------------------------------------------------------------------------
(* Properties *)

Live(o) == o <= nops /\ frees[o] = 0

\* The handlers in which the op of the frame is no longer pending.
Detached == frame.k \in {"timeout", "zero", "dreq", "dind", "dwrite", "dpend"}

\* The positions of op o in queue q, and the channels with o in a slot of theirs.
PlacesIn(q, l, c, o) == {<<l, c, i>> : i \in {j \in 1..Len(q) : q[j] = o}}
SlotsOf(slot, l, o)  == {<<l, c, 0>> : c \in {d \in Chan : slot[d] = o}}
ChanPlaces(o) == UNION {PlacesIn(cq[c], "chan", c, o) : c \in Chan}

\* The places of the bearer that refer to op o.
Places(o) ==
    PlacesIn(reqQ, "req", NoChan, o) \cup PlacesIn(indQ, "ind", NoChan, o) \cup
    PlacesIn(wrQ, "write", NoChan, o) \cup
    PlacesIn(frame.todo, "todo", NoChan, o) \cup
    ChanPlaces(o) \cup
    SlotsOf(pendingReq, "preq", o) \cup SlotsOf(pendingInd, "pind", o) \cup
    (IF Detached /\ frame.op = o THEN {<<"frame", NoChan, 0>>} ELSE {})

\* Every op that was created and not freed is held in exactly one place, and
\* a freed op in none: no leak, no dangling pointer, no double ownership.  An
\* op is freed once, and its destroy handler has run by then.
\* About the hand-over of ops between the queues, pending_req, pending_ind,
\* the flush of disconnect_cb and bt_att_free.
OwnedOnce ==
    \A o \in OpId : /\ Live(o) <=> Places(o) # {}
                    /\ \A p, q \in Places(o) : p = q
                    /\ frees[o] <= 1
                    /\ frees[o] = 1 => dtors[o] >= 1

\* The callback of an op runs at most once, whatever callbacks, cancellations
\* (also from the op's own callback or destroy handler), timeouts, retries and
\* disconnections are interleaved.  So does its destroy handler, but for one
\* that has its own op cancelled while the op is in its slot: then
\* cancel_att_send_op runs it once more (att.c:227).
CallbackOnce ==
    \A o \in OpId : calls[o] <= 1 /\ (dtors[o] <= 1 \/ o \in again)

\* Once a cancel has been reported as done, the callback does not run: also
\* when the op was already on the air and its answer, its timeout or the
\* disconnection arrives later.
CancelIsFinal == [][\A o \in cancelled : calls'[o] = calls[o]]_vars

\* A timer runs for exactly the ops that wait for an answer, so none waits
\* forever and no timer fires for an op that was answered, retried or freed.
\* An op is still timed while disconnect_cb reports it.
TimerIffPending ==
    armed = {o \in OpId :
                \/ \E c \in Chan : o \in {pendingReq[c], pendingInd[c]}
                \/ frame.k = "dpend" /\ (o = frame.op \/ o \in ToSet(frame.todo))}

\* On a channel that is up the peer has nothing left to answer but the ops
\* that are pending there: the protocol stays sequential over timeouts,
\* security retries and cancellations.  (Peer keeps to the protocol.)
OwedIsPending ==
    \A c \in Attached :
        sock[c] = "up" /\ ~(frame.k = "timeout" /\ frame.c = c)
            => owed[c] \subseteq {pendingReq[c], pendingInd[c]}

\* A callback that reports success belongs to an op the peer has carried out:
\* no late or foreign answer is taken for it.  (Peer keeps to the protocol.)
OkMeansServed == \A o \in OpId : status[o] = "ok" => o \in served

\* Channel c is up and has something to send.
CanSend(c) == sock[c] = "up" /\ PickSource(c) # "none"

\* Whenever a channel could send something, a channel that can is woken, or
\* one is going down and its disconnect_cb will flush the queues: no
\* wakeup_chan_writer is missing.  With several channels it may be another
\* one, for a retried request wakes only the channel it failed on.  (All
\* channels have one MTU.)
NoLostWakeup ==
    Idle /\ (\E c \in Attached : CanSend(c))
        => \E d \in Attached : (d \in writer /\ CanSend(d)) \/ sock[d] # "up"

\* Every op that is accepted ends: it is written, answered, timed out, flushed
\* or cancelled, and then freed.  (All channels have one MTU.)
EveryOpEnds == \A o \in OpId : Live(o) ~> frees[o] > 0

\* How far the client sees op o: the handlers of an op go when it is cancelled
\* or destroyed, and its callback runs while they are attached.
PhaseOf(o) ==
    CASE o > nops                                  -> "new"
      [] o <= nops /\ o \in hs /\ calls[o] = 0     -> "open"
      [] o <= nops /\ o \in hs /\ calls[o] # 0     -> "told"
      [] o <= nops /\ o \notin hs /\ o \in cancelled -> "cancelled"
      [] OTHER                                     -> "done"

Service == INSTANCE AttService WITH
    Op      <- OpId,
    up      <- alive,
    phase   <- [o \in OpId |-> PhaseOf(o)],
    expects <- [o \in OpId |-> o <= nops /\ info[o].type \in {"REQ", "IND"}]

\* The bearer, with its queues, channels, timers, security retries, flushes
\* and cancellations from inside callbacks, implements AttService: every
\* request and indication is told of its result exactly once, unless it is
\* cancelled or the bearer released first, and never after a cancel; no
\* callback runs inside another one.
KeepsPromise == Service!Spec
=============================================================================
