------------------------------- MODULE Libble -------------------------------
(* The device handle of lib/libble.c: its connection state, the GIOChannel  *)
(* and the GAttrib it owns, the watches that call it back, and the events   *)
(* it reports.                                                              *)
(*                                                                          *)
(* Everything runs in one GLib main loop.  emit calls the client's event    *)
(* handler in the middle of a function, and the handler may call the        *)
(* library again: the stack holds, innermost first, the functions that are  *)
(* inside such a call; Return... is the rest of the innermost one.  A watch *)
(* is dispatched when the stack is empty.                                   *)
(*                                                                          *)
(* The layer below is abstract here: GAttrib (with its bt_att, see BtAtt)   *)
(* answers each request it accepts once, in order, fails it when the link   *)
(* is lost, drops it when it is freed, and closes the socket then.  It is   *)
(* counted: the handle holds one reference, and so does every request but   *)
(* a write (gatt_read_char, gatt_discover_...), until it has been answered. *)
EXTENDS Naturals, Sequences, FiniteSets

CONSTANTS
    Kinds,    \* the kinds of requests the client makes
    MaxConn,  \* bound: sockets created in a behaviour
    MaxReq,   \* bound: requests waiting at one time
    MaxDepth  \* bound: nested calls of the event handler

ASSUME LibbleAssumption == /\ Kinds \subseteq {"read", "write", "hand", "char"}
                           /\ MaxConn \in Nat /\ MaxReq \in Nat
                           /\ MaxDepth \in Nat

Io   == 1..MaxConn            \* GIOChannels, in order of creation
NoIo == 0

VARIABLES
    state,    \* dev->conn_state
    ioch,     \* dev->iochannel
    attrib,   \* dev->attrib, named by the channel it was made on
    nio,      \* number of channels created
    sk,       \* state of the channel's socket
    held,     \* channels of which the reference bt_io_connect returned is kept
    cwatch,   \* channels with the connect watch of btio
    dwatch,   \* channels with channel_watcher
    att,      \* the GAttrib made on a channel
    ref,      \* GAttribs of which connect_cb's reference is not given back
    listen,   \* GAttribs with events_handler registered
    pend,     \* requests a GAttrib has not answered
    broken,   \* the program used a GAttrib it had freed, and did not survive it
    stack,    \* functions inside a call of the event handler
    told,     \* history: the last state the client was told
    rash      \* history: the client did what connect_cb does not stand (Rash)

dev    == <<state, ioch, attrib>>
chan   == <<nio, sk, held>>
watch  == <<cwatch, dwatch>>
gattrib == <<att, ref, listen, pend, broken>>
system == <<dev, chan, watch, gattrib, stack, told>>
vars   == <<system, rash>>

State == {"DISCONNECTED", "CONNECTING", "CONNECTED"}

\* What the handler is called with; a State is a STATE_CHANGED event.
Event == State \cup {"ERROR", "TO_READ", "TO_WRITE", "DEVICE", "UUID"}

\* none: not created.  error: SO_ERROR is set.  lost: the peer hung up.
SockState == {"none", "connecting", "up", "error", "lost", "closed"}

\* Requests: lble_request, lble_write, lble_discover_hand, lble_discover_char.
Kind == {"read", "write", "hand", "char"}

Cont == {"connect", "sync_failed", "async_failed", "mtu_failed", "connected",
         "watcher", "request", "flush", "none"}

Frame == [k : Cont, io : Io \cup {NoIo}]

TypeOK ==
    /\ state \in State /\ told \in State
    /\ ioch \in Io \cup {NoIo} /\ attrib \in Io \cup {NoIo}
    /\ nio \in 0..MaxConn
    /\ sk \in [Io -> SockState]
    /\ held \subseteq Io /\ cwatch \subseteq Io /\ dwatch \subseteq Io
    /\ att \in [Io -> {"none", "live", "down", "freed"}]
    /\ ref \subseteq Io /\ listen \subseteq Io
    /\ pend \in [Io -> Seq(Kind)]
    /\ stack \in Seq(Frame)

-----------------------------------------------------------------------------
(* Helpers *)

\* emit, from a function whose rest is k; below are the frames under it.
Emit(below, k, i, e) ==
    /\ stack' = <<[k |-> k, io |-> i]>> \o below
    /\ told' = IF e \in State THEN e ELSE told

Idle == stack = <<>>

\* The innermost function is inside a call of the handler, with rest k.
Inside(k) == stack # <<>> /\ Head(stack).k = k

Pop == stack' = Tail(stack) /\ UNCHANGED told

\* The channels that have lost their last reference are closed
\* (g_io_channel_set_close_on_unref in create_io; g_attrib_new switches it off
\* and leaves the closing to its bt_att).
CloseUnreferenced ==
    sk' = [i \in Io |->
              IF /\ sk[i] # "none" /\ att'[i] = "none"
                 /\ i \notin held' \cup cwatch' \cup dwatch'
              THEN "closed" ELSE sk[i]]

\* A request that holds a reference on its GAttrib is among p.
Keeps(p) == \E j \in 1..Len(p) : p[j] # "write"

\* An attempt to connect has not been reported yet.
InFlight == cwatch # {} \/ \E j \in 1..Len(stack) : stack[j].k = "connect"

-----------------------------------------------------------------------------
(* Calls of the client *)

\* lble_connect tells that it is connecting ...
LbleConnect ==
    /\ state = "DISCONNECTED"
    /\ nio + Len(stack) < MaxConn /\ Len(stack) < MaxDepth
    /\ state' = "CONNECTING"
    /\ Emit(stack, "connect", NoIo, "CONNECTING")
    /\ UNCHANGED <<ioch, attrib, chan, watch, gattrib>>

\* ... and then connects: bt_io_connect makes a channel and watches it ...
ReturnConnect ==
    LET i == nio + 1 IN
    /\ Inside("connect")
    /\ nio' = i
    /\ ioch' = i
    /\ sk' = [sk EXCEPT ![i] = "connecting"]
    /\ held' = held \cup {i}
    /\ cwatch' = cwatch \cup {i}
    /\ Pop
    /\ UNCHANGED <<state, attrib, dwatch, gattrib>>

\* ... or fails at once, which is reported ...
ReturnConnectFails ==
    /\ Inside("connect")
    /\ ioch' = NoIo
    /\ Emit(Tail(stack), "sync_failed", NoIo, "ERROR")
    /\ UNCHANGED <<state, attrib, chan, watch, gattrib>>

\* Mutant of ReturnSyncFailed: the client is not told.
SyncFailedSilent ==
    /\ Inside("sync_failed")
    /\ state' = "DISCONNECTED"
    /\ Pop
    /\ UNCHANGED <<ioch, attrib, chan, watch, gattrib>>

\* ... before the state is reset.
ReturnSyncFailed ==
    /\ Inside("sync_failed")
    /\ state' = "DISCONNECTED"
    /\ Emit(Tail(stack), "none", NoIo, "DISCONNECTED")
    /\ UNCHANGED <<ioch, attrib, chan, watch, gattrib>>

\* Mutant of Settle: an orphan is not freed when its last request ends.
SettleNever(i, p) ==
    /\ pend' = [pend EXCEPT ![i] = p]
    /\ UNCHANGED <<att, sk, listen>>

\* What waits on GAttrib i is now p.  If neither the handle nor a request
\* holds a reference any more it is freed, and its bt_att closes the socket.
Settle(i, p) ==
    LET gone == i \notin ref' /\ ~Keeps(p) IN
    /\ att' = IF gone THEN [att EXCEPT ![i] = "freed"] ELSE att
    /\ pend' = [pend EXCEPT ![i] = IF gone THEN <<>> ELSE p]
    /\ sk' = IF gone THEN [sk EXCEPT ![i] = "closed"] ELSE sk
    /\ listen' = IF gone THEN listen \ {i} ELSE listen

\* The destroy function of the request that ended gives back the last reference:
\* the GAttrib is freed, and attrib_callbacks_destroy goes on with it
\* (gattrib.c:163-166), as timeout_cb and disconnect_cb do with its bt_att.
\* What was freed may still be as it was, or the program does not survive.
FreedUnderDestroy(i, p) ==
    broken' \in {FALSE} \cup (IF i \notin ref /\ ~Keeps(p) THEN {TRUE} ELSE {})

\* lble_disconnect of a connection.  The GAttrib may live on until its last
\* request ends; the reference to the channel is not given back.
DropLink ==
    /\ state = "CONNECTED"
    /\ ref' = ref \ {attrib}
    /\ IF attrib # NoIo THEN Settle(attrib, pend[attrib])
       ELSE UNCHANGED <<att, pend, sk, listen>>
    /\ attrib' = NoIo
    /\ ioch' = NoIo
    /\ state' = "DISCONNECTED"
    /\ UNCHANGED broken

\* lble_disconnect while connecting: the attempt goes on, and connect_cb will
\* find the state.
GiveUp ==
    /\ state = "CONNECTING"
    /\ state' = "DISCONNECTED"

\* A client must not disconnect in a callback of its GAttrib: the callback's
\* own records would be freed under it.
InGAttrib == \E j \in 1..Len(stack) : stack[j].k \in {"request", "flush"}

LbleDisconnect ==
    /\ ~InGAttrib
    /\ \/ /\ Len(stack) < MaxDepth
          /\ DropLink
          /\ Emit(stack, "none", NoIo, "DISCONNECTED")
          /\ UNCHANGED <<nio, held, watch>>
       \/ /\ GiveUp
          /\ UNCHANGED <<ioch, attrib, chan, watch, gattrib, stack, told>>

LbleListen ==
    /\ state = "CONNECTED"
    /\ listen' = listen \cup ({attrib} \ {NoIo})
    /\ UNCHANGED <<dev, chan, watch, att, ref, pend, broken, stack, told>>

\* lble_request, lble_write, lble_discover_hand, lble_discover_char.  A
\* GAttrib without a link accepts nothing and says nothing.
LbleRequest(kind) ==
    /\ state = "CONNECTED"
    /\ attrib # NoIo
    /\ att[attrib] = "live"
    /\ Len(pend[attrib]) < MaxReq
    /\ pend' = [pend EXCEPT ![attrib] = Append(@, kind)]
    /\ UNCHANGED <<dev, chan, watch, att, ref, listen, broken, stack, told>>

-----------------------------------------------------------------------------
(* connect_cb, dispatched by the connect watch of btio *)

\* The socket was closed meanwhile: the attempt was aborted.
ConnectAborted(i) ==
    /\ Idle /\ i \in cwatch /\ sk[i] = "closed"
    /\ cwatch' = cwatch \ {i}
    /\ UNCHANGED <<dev, chan, dwatch, gattrib, stack, told>>

\* SO_ERROR is set: the error is reported ...
ConnectFailed(i) ==
    /\ Idle /\ i \in cwatch /\ sk[i] \in {"error", "lost"}
    /\ Emit(<<>>, "async_failed", i, "ERROR")
    /\ UNCHANGED <<dev, chan, watch, gattrib>>

\* Mutant of ReturnAsyncFailed: the state is not reset.
AsyncFailedNoReset ==
    /\ Inside("async_failed")
    /\ held' = held \ {ioch}
    /\ ioch' = NoIo
    /\ Emit(Tail(stack), "connected", Head(stack).io, state)
    /\ UNCHANGED <<state, attrib, nio, sk, watch, gattrib>>

\* ... and the channel given back; g_io_channel_unref ignores NULL.
ReturnAsyncFailed ==
    /\ Inside("async_failed")
    /\ held' = held \ {ioch}
    /\ ioch' = NoIo
    /\ state' = "DISCONNECTED"
    /\ Emit(Tail(stack), "connected", Head(stack).io, "DISCONNECTED")
    /\ UNCHANGED <<attrib, nio, sk, watch, gattrib>>

\* Mutant of ConnectUnwanted: the channel is not shut down.
UnwantedKept(i) ==
    /\ Idle /\ i \in cwatch /\ sk[i] \in {"up", "lost"}
    /\ state = "DISCONNECTED"
    /\ ioch' = NoIo
    /\ Emit(<<>>, "connected", i, "DISCONNECTED")
    /\ UNCHANGED <<state, attrib, chan, watch, gattrib>>

\* Connected, but the client has given up: the channel is shut down.
ConnectUnwanted(i) ==
    /\ Idle /\ i \in cwatch /\ sk[i] \in {"up", "lost"}
    /\ state = "DISCONNECTED"
    /\ held' = held \ {ioch}
    /\ sk' = IF ioch # NoIo THEN [sk EXCEPT ![ioch] = "closed"] ELSE sk
    /\ ioch' = NoIo
    /\ Emit(<<>>, "connected", i, "DISCONNECTED")
    /\ UNCHANGED <<state, attrib, nio, watch, gattrib>>

\* Mutant of Established: the GAttrib is not kept.
EstablishedNoAttrib(i, below) ==
    /\ dwatch' = IF ioch # NoIo THEN dwatch \cup {ioch} ELSE dwatch
    /\ att' = [att EXCEPT ![i] = "live"]
    /\ ref' = ref \cup {i}
    /\ state' = "CONNECTED"
    /\ Emit(below, "connected", i, "CONNECTED")
    /\ UNCHANGED <<ioch, attrib, chan, cwatch, listen, pend, broken>>

\* The channel is watched and a GAttrib made on it.
Established(i, below) ==
    /\ dwatch' = IF ioch # NoIo THEN dwatch \cup {ioch} ELSE dwatch
    /\ att' = [att EXCEPT ![i] = "live"]
    /\ ref' = ref \cup {i}
    /\ attrib' = i
    /\ state' = "CONNECTED"
    /\ Emit(below, "connected", i, "CONNECTED")
    /\ UNCHANGED <<ioch, chan, cwatch, listen, pend, broken>>

Connected(i) ==
    /\ Idle /\ i \in cwatch /\ sk[i] \in {"up", "lost"}
    /\ state # "DISCONNECTED"
    /\ Established(i, <<>>)

\* bt_io_get fails, on a link that is already lost: the error is reported
\* and the default MTU used.
ConnectedNoMtu(i) ==
    /\ Idle /\ i \in cwatch /\ sk[i] = "lost"
    /\ state # "DISCONNECTED"
    /\ Emit(<<>>, "mtu_failed", i, "ERROR")
    /\ UNCHANGED <<dev, chan, watch, gattrib>>

ReturnMtuFailed ==
    /\ Inside("mtu_failed")
    /\ Established(Head(stack).io, Tail(stack))

\* The watch goes when connect_cb returns.
ReturnConnected ==
    /\ Inside("connected")
    /\ cwatch' = cwatch \ {Head(stack).io}
    /\ Pop
    /\ UNCHANGED <<dev, nio, held, dwatch, gattrib>>
    /\ CloseUnreferenced

-----------------------------------------------------------------------------
(* channel_watcher.  It compares the condition, a set of bits, with single  *)
(* bits, and it returns FALSE: it runs once.                                *)

\* The number of a closed socket may have been given to another one.
Watched(i) == IF sk[i] = "closed" THEN {"closed"} \cup {sk[j] : j \in Io}
              ELSE {sk[i]}

\* HUP, ERR or NVAL alone, while connected.
WatcherDrops(i) ==
    /\ Idle /\ i \in dwatch /\ Watched(i) \cap {"lost", "error", "closed"} # {}
    /\ DropLink
    /\ Emit(<<>>, "watcher", i, "DISCONNECTED")
    /\ UNCHANGED <<nio, held, watch>>

\* IN, PRI or OUT alone.
WatcherReports(i, e) ==
    /\ Idle /\ i \in dwatch /\ "up" \in Watched(i)
    /\ e \in {"TO_READ", "TO_WRITE"}
    /\ Emit(<<>>, "watcher", i, e)
    /\ UNCHANGED <<dev, chan, watch, gattrib>>

\* Several bits, or nothing to disconnect.
WatcherSilent(i) ==
    /\ Idle /\ i \in dwatch
    /\ \/ UNCHANGED state
       \/ GiveUp /\ Watched(i) \cap {"lost", "error", "closed"} # {}
    /\ dwatch' = dwatch \ {i}
    /\ UNCHANGED <<ioch, attrib, nio, held, cwatch, gattrib, stack, told>>
    /\ CloseUnreferenced

ReturnWatcher ==
    /\ Inside("watcher")
    /\ dwatch' = dwatch \ {Head(stack).io}
    /\ Pop
    /\ UNCHANGED <<dev, nio, held, cwatch, gattrib>>
    /\ CloseUnreferenced

-----------------------------------------------------------------------------
(* Callbacks of the GAttrib *)

Answers(kind) == CASE kind = "read" -> {"DEVICE", "ERROR"}
                   [] kind = "write" -> {"ERROR"}
                   [] kind \in {"hand", "char"} -> {"UUID", "ERROR"}

\* The first request is answered: char_read_cb, char_write_cb, char_desc_cb
\* or char_discovered_cb.
Answer(i, e) ==
    /\ Idle /\ att[i] = "live" /\ sk[i] = "up"
    /\ pend[i] # <<>>
    /\ e \in Answers(Head(pend[i]))
    /\ pend' = [pend EXCEPT ![i] = Tail(@)]
    /\ Emit(<<>>, "request", i, e)
    /\ UNCHANGED <<dev, chan, watch, att, ref, listen, broken>>

\* A write that succeeds, or a read of an empty value, is not reported.
AnswerSilent(i) ==
    /\ Idle /\ att[i] = "live" /\ sk[i] = "up"
    /\ pend[i] # <<>> /\ Head(pend[i]) \in {"read", "write"}
    /\ UNCHANGED <<dev, nio, held, watch, ref, stack, told>>
    /\ Settle(i, Tail(pend[i])) /\ FreedUnderDestroy(i, Tail(pend[i]))

\* No answer within the ATT timeout: bt_att reports it and closes the link.
RequestTimeout(i) ==
    /\ Idle /\ att[i] = "live" /\ sk[i] = "up"
    /\ pend[i] # <<>>
    /\ pend' = [pend EXCEPT ![i] = Tail(@)]
    /\ sk' = [sk EXCEPT ![i] = "lost"]
    /\ Emit(<<>>, "request", i, "ERROR")
    /\ UNCHANGED <<dev, nio, held, watch, att, ref, listen, broken>>

\* events_handler
Notify(i) ==
    /\ Idle /\ att[i] = "live" /\ sk[i] = "up" /\ i \in listen
    /\ Emit(<<>>, "request", i, "DEVICE")
    /\ UNCHANGED <<dev, chan, watch, gattrib>>

\* The request gives its reference back after its callback.
ReturnRequest ==
    LET i == Head(stack).io IN
    /\ Inside("request")
    /\ Pop
    /\ UNCHANGED <<dev, nio, held, watch, ref>>
    /\ Settle(i, pend[i]) /\ FreedUnderDestroy(i, pend[i])

\* The rest of lble_connect and of lble_disconnect is empty.
ReturnNone ==
    /\ Inside("none")
    /\ Pop
    /\ UNCHANGED <<dev, chan, watch, gattrib>>

\* Mutant of Flush: the requests are forgotten.
FlushForgets(i, below) ==
    /\ att' = [att EXCEPT ![i] = IF i \in ref THEN "down" ELSE "freed"]
    /\ listen' = listen \ {i}
    /\ sk' = [sk EXCEPT ![i] = "closed"]
    /\ stack' = below
    /\ UNCHANGED <<pend, told>>

\* disconnect_cb of the bt_att detaches the channel, so that nothing is
\* accepted any more; every request fails, and then the handlers are
\* unregistered and the socket is closed.
Flush(i, below) ==
    \/ /\ pend[i] # <<>>
       /\ att' = [att EXCEPT ![i] = "down"]
       /\ pend' = [pend EXCEPT ![i] = Tail(@)]
       /\ Emit(below, "flush", i, "ERROR")
       /\ UNCHANGED <<sk, listen>>
    \/ /\ pend[i] = <<>>
       /\ att' = [att EXCEPT ![i] = IF i \in ref THEN "down" ELSE "freed"]
       /\ listen' = listen \ {i}
       /\ sk' = [sk EXCEPT ![i] = "closed"]
       /\ stack' = below
       /\ UNCHANGED <<pend, told>>

LinkLost(i) ==
    /\ Idle /\ att[i] = "live" /\ sk[i] = "lost"
    /\ Flush(i, <<>>)
    /\ UNCHANGED <<dev, nio, held, watch, ref, broken>>

\* The flush goes on, unless the request that failed held the GAttrib last.
ReturnFlush ==
    LET i == Head(stack).io IN
    /\ Inside("flush")
    /\ UNCHANGED <<dev, nio, held, watch, ref>>
    /\ \/ /\ i \in ref \/ Keeps(pend[i])
          /\ Flush(i, Tail(stack)) /\ UNCHANGED broken
       \/ /\ ~(i \in ref \/ Keeps(pend[i]))
          /\ Pop
          /\ Settle(i, pend[i]) /\ FreedUnderDestroy(i, pend[i])

-----------------------------------------------------------------------------
(* The kernel *)

\* The connection is made, or it fails or times out.
KernelConnects(i, s) ==
    /\ Idle
    /\ sk[i] = "connecting" /\ s \in {"up", "error"}
    /\ sk' = [sk EXCEPT ![i] = s]
    /\ UNCHANGED <<dev, nio, held, watch, gattrib, stack, told>>

PeerHangup(i) ==
    /\ Idle
    /\ sk[i] = "up"
    /\ sk' = [sk EXCEPT ![i] = "lost"]
    /\ UNCHANGED <<dev, nio, held, watch, gattrib, stack, told>>

-----------------------------------------------------------------------------
(* Specification *)

\* lble_newdev, and an event handler set.
Init ==
    /\ state = "DISCONNECTED" /\ told = "DISCONNECTED"
    /\ ioch = NoIo /\ attrib = NoIo /\ nio = 0
    /\ sk = [i \in Io |-> "none"]
    /\ held = {} /\ cwatch = {} /\ dwatch = {}
    /\ att = [i \in Io |-> "none"] /\ ref = {} /\ listen = {}
    /\ pend = [i \in Io |-> <<>>] /\ broken = FALSE
    /\ stack = <<>> /\ rash = FALSE

Client == LbleConnect \/ LbleDisconnect \/ LbleListen \/
          \E kind \in Kinds : LbleRequest(kind)

\* What the main loop dispatches for channel i.
ConnectWatch(i) == \/ ConnectAborted(i) \/ ConnectFailed(i)
                   \/ ConnectUnwanted(i) \/ Connected(i) \/ ConnectedNoMtu(i)

ChannelWatch(i) == \/ WatcherDrops(i) \/ WatcherSilent(i)
                   \/ \E e \in Event : WatcherReports(i, e)

AttWatch(i) == \/ \E e \in Event : Answer(i, e)
               \/ AnswerSilent(i) \/ RequestTimeout(i)

Return == \/ ReturnConnect \/ ReturnConnectFails \/ ReturnSyncFailed
          \/ ReturnAsyncFailed \/ ReturnMtuFailed \/ ReturnConnected
          \/ ReturnWatcher \/ ReturnRequest \/ ReturnNone \/ ReturnFlush

Kernel(i) == \E s \in SockState : KernelConnects(i, s)

System(i) == \/ ConnectWatch(i) \/ ChannelWatch(i) \/ AttWatch(i)
             \/ Notify(i) \/ LinkLost(i) \/ Kernel(i) \/ PeerHangup(i)

\* Two calls after which connect_cb does the wrong thing: one that connects
\* again while an attempt that was given up is in flight, of which connect_cb
\* then finds the state and the channel of the new one (libble.c:105-111); and
\* one that disconnects on the report that bt_io_get failed, after which
\* connect_cb sets STATE_CONNECTED all the same (libble.c:116-125).
Rash == \/ LbleConnect /\ InFlight
        \/ LbleDisconnect /\ Inside("mtu_failed")

Next ==
    /\ ~broken
    /\ Client \/ Return \/ \E i \in Io : System(i)
    /\ rash' = IF Rash THEN TRUE ELSE rash

Spec == Init /\ [][Next]_vars

\* The event handler returns; the kernel ends every attempt to connect; the
\* main loop dispatches the watches that stay ready; bt_att ends every request
\* by an answer or by its timeout, however many notifications arrive.
Fairness ==
    /\ WF_system(~broken /\ Return)
    /\ \A i \in Io : /\ SF_system(~broken /\ Kernel(i))
                     /\ SF_system(~broken /\ ConnectWatch(i))
                     /\ SF_system(~broken /\ ChannelWatch(i))
                     /\ SF_system(~broken /\ AttWatch(i))
                     /\ SF_system(~broken /\ LinkLost(i))

FairSpec == Spec /\ Fairness

-----------------------------------------------------------------------------
(* Properties *)

Open(i) == sk[i] \in {"connecting", "up", "lost"}

\* While nothing runs, the handle agrees with itself: it has a GAttrib exactly
\* when it is connected, the GAttrib is on its channel, and while it is
\* connecting its channel is the one attempt in flight.  (Until the client has
\* been rash.)
HandleConsistent ==
    Idle /\ ~rash =>
            /\ state = "CONNECTED" <=> attrib # NoIo
            /\ state = "CONNECTED" => attrib = ioch /\ att[attrib] # "freed"
            /\ state = "CONNECTING" => cwatch = {ioch}

\* lble_disconnect breaks the connection, as doc/api.txt:43 says: once the
\* handle is disconnected and no attempt is in flight, no socket is open but
\* those on which a request still holds the GAttrib.  (Until the client has been
\* rash.)
DisconnectBreaksLink ==
    Idle /\ state = "DISCONNECTED" /\ ~InFlight /\ ~rash
        => \A i \in Io : Open(i) => Keeps(pend[i])

\* A link the handle has given back is closed in the end, whatever requests
\* were waiting on it, if the program survives what the last of them does to
\* the GAttrib (FreedUnderDestroy).
OrphanCloses ==
    \A i \in Io : (att[i] # "none" /\ i \notin ref) ~> (sk[i] = "closed" \/ broken)

\* The client has been told the state: a STATE_CHANGED is missing only while
\* an attempt that was given up is in flight.  (Whatever the client does.)
ToldState == Idle /\ ~InFlight => told = state

\* An attempt to connect ends by itself, as doc/api.txt says of the timeout.
ConnectEnds == (state = "CONNECTING") ~> (state # "CONNECTING" \/ broken)

\* Every request a GAttrib accepted is answered, fails, or goes down with it:
\* requests leave in order, and while some wait one of them leaves again.
RequestEnds ==
    \A i \in Io : \/ <>[](pend[i] = <<>> \/ broken)
                  \/ []<><<Len(pend'[i]) < Len(pend[i])>>_vars

\* The state that lble_state returns is the state of the connection, as
\* doc/api.txt says: a link that is lost does not stay CONNECTED.
LostLinkNoticed ==
    \A i \in Io : (state = "CONNECTED" /\ attrib = i /\ sk[i] # "up")
                      ~> (state # "CONNECTED" \/ attrib # i \/ broken)
=============================================================================
