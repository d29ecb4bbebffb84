# A verification project for libble

libble is a small C library that talks to Bluetooth Low Energy devices. It wraps
a copy of BlueZ's client stack: a device handle on top of GATT procedures, on top
of an ATT bearer, on top of L2CAP sockets. Everything runs in one GLib main loop;
what makes it hard is not threads but callbacks that call back into the code that
called them, connections that come and go underneath, and a peer that answers
late, wrongly or not at all.

This directory holds TLA+ modules that model the stack, TLC configurations that
check them on small instances, and TLAPS proofs for every instance of some of the
results.

## Inventory

| Part | Source | State it keeps | Operations |
|---|---|---|---|
| Device handle | `lib/libble.c` | connection state, channel, GAttrib, event handler | `lble_connect`, `lble_disconnect`, `lble_listen`, `lble_request`, `lble_write`, `lble_discover_*`; watches `connect_cb`, `channel_watcher`; answers `char_read_cb`, ... |
| GATT procedures | `bluez/attrib/gatt.c` | one record per running procedure: range, list found so far, buffer of a long value | discovery of services, characteristics, descriptors, included services; reads, long reads, writes, prepared writes |
| GAttrib | `bluez/attrib/gattrib.c` | reference count, records of callbacks, ids given out, notification handlers, buffer | `g_attrib_send`, `g_attrib_cancel`, `g_attrib_register`, `g_attrib_ref/unref` |
| ATT bearer | `bluez/src/shared/att.c` | queues of PDUs, attached channels, pending request and indication of each, timers, MTU, notification handlers | `bt_att_send`, `bt_att_cancel`, `bt_att_set_mtu`, ...; `can_read_data`, `can_write_data`, `timeout_cb`, `disconnect_cb` |
| ATT PDU codecs | `bluez/attrib/att.c` | none | `enc_*`, `dec_*` |
| Sockets | `bluez/btio/btio.c` | a watch per attempt to connect, per server and per accepted connection; channels and their descriptors | `bt_io_connect`, `bt_io_listen`, `bt_io_accept`, `bt_io_set`, `bt_io_get`; `connect_cb`, `server_cb`, `accept_cb` |
| Main loop glue | `bluez/src/shared/io-glib.c`, `timeout-glib.c` | watches and timers | set, remove, dispatch |
| Queue | `bluez/src/shared/queue.c` | a counted list | push, pop, remove, foreach |
| UUIDs, crypto, logging, utilities | `bluez/lib/uuid.c`, `bluez/src/shared/crypto.c`, `util.c`, `log.c` | none of interest | conversions, ciphers, output |
| Tools | `src/vecs.c`, `motion.c`, `info.c` | a device, a main loop | event handlers that drive the library |

How they interact. A call of the client goes down: `lble_request` ->
`gatt_read_char` -> `g_attrib_send` -> `bt_att_send`, which queues a PDU and
installs a write watch. The answer comes up: the read watch runs `can_read_data`
-> `handle_rsp` -> GAttrib's callback -> the GATT procedure's callback (which may
send its next request) -> `char_read_cb` -> `emit` -> the client's event handler,
which may call any function of the library again. A lost link runs `disconnect_cb`
of the bearer, which fails every request it still holds, each of them through the
same chain of callbacks; independently of it `channel_watcher` of the handle
watches the same socket. References keep the parts alive: the handle holds one on
its GAttrib, and so does every GATT procedure with a record.

What is hard, part by part, and the property that would notice it going wrong, is
in PROJECT.json under `hazards`. In short:

- **Bearer**: an op must have one owner through queues, retries, timeouts,
  cancellations and the flush of a lost channel, all of which may be interrupted by
  callbacks (`OwnedOnce`, `CallbackOnce`, `KeepsPromise`, `CancelIsFinal`); a late
  answer must not be taken for another request's (`OkMeansServed`,
  `OwedIsPending`); the write watch removes itself and must be installed again
  (`NoLostWakeup`, `EveryOpEnds`).
- **Handle**: an attempt to connect that was given up still ends later and finds
  the state of the next one (`HandleConsistent`, `DisconnectBreaksLink`); the
  client's view must match (`ToldState`, `LostLinkNoticed`); a GAttrib that requests
  still hold must go in the end (`OrphanCloses`).
- **Discovery**: 16-bit handles, ranges that end at 0xffff, servers that list
  handles out of range (`DiscoveryComplete`, `ForwardOnly`,
  `DiscoveryTerminates`, `CharSearchStops`).
- **Other procedures**: values read and written in parts while the MTU changes,
  another procedure writes or the link goes (`ReadExact`, `WriteApplied`,
  `RefusedStaysPrepared`); nested requests that end in any order
  (`IncludedComplete`, `ProcedureEnds`).
- **GAttrib**: functions of the client that run in the middle of a walk over a
  list and change it, or let the whole thing go (`FreedUntouched`, `Cancellable`,
  `DestroyOnce`).
- **Codecs**: lengths at the edge of a buffer, PDUs that lost their tail
  (`RoundTrip`, `NeverMisread`, `OwnKindOnly`).
- **Sockets**: one of several steps fails; a descriptor is closed, given out again,
  and still watched (`NoOrphan`, `AsAsked`, `ToldOwnFate`).
- **Tools**: a signal handler that shares a pointer with the code it interrupts
  (`LoopOutlivesRun`, `StopsWhenTold`).

## Modules

### BtAtt: the ATT bearer

State. An op (`struct att_send_op`) is a number in order of creation; `info` has
the fields that never change, `hs` the ops whose callback and destroy handlers are
still attached, `armed` those with a running timer. The queues `reqQ`, `indQ`,
`wrQ` and the queue `cq[c]` of a channel are sequences of ops; `pendingReq[c]` and
`pendingInd[c]` are the ops on the air. `writer` and `reader` are the installed
watches, `sock` the channel and its socket. `owed`, `peerReq` and `served` are the
peer's own account of the conversation, and `calls`, `status`, `dtors`, `frees`,
`cancelled` are history for the properties.

Actions. A handler that calls no callback is one action. One that does is split at
the call: the action that dispatches it ends with the callback's frame in `frame`,
the client may then call any operation, and `Return...` is the rest of the
handler. So `HandleRsp`/`ReturnRsp` are `handle_rsp`, `Timeout`/`ReturnTimeout` are
`timeout_cb`, and `Disconnect`, `FlushCall`, `ReturnFlush`, `FlushInd`,
`FlushWrite`, `FlushPending`, `ChanFree`, `ReturnDisconnect` are `disconnect_cb` in
the order of its statements. `RspRetry` is the retry after a security error;
`WritePdu`, `WriteZero` and `WriteNone` are the outcomes of `can_write_data`,
failed writes included.

A destroy handler runs inside the action that calls it. Where the op is still in its
slot (`cancel_att_send_op`, and `destroy_att_send_op` after a callback) what the
handler may do is part of that action: it may have its own op cancelled, which runs it
a second time (`RunDestroy`, with `again` as the history of it). Elsewhere the op is in
no queue and no slot any more and a cancel finds nothing.

Assumptions on the client: it does not drop its last reference inside a callback of
`timeout_cb` or of the flush, or in a destroy handler inside `bt_att_cancel`, where
the code holds none of its own and goes on with the freed bearer; GAttrib shows what
that leads to. And a destroy handler that runs for the second time does not cancel
again (it would call itself for ever), nor does a destroy handler send or cancel
another op.

### AttService: what the bearer promises

Three variables: whether the bearer is still there, how far each op has come as its
client sees it (new, open, told, cancelled, done), and whether it expects a result.
An op that expects one is told exactly once, unless it is cancelled or the bearer is
released first; never after a cancel; and no callback runs inside another one.
`BtAtt!KeepsPromise` says that BtAtt implements it: the mapping reads the phase of
an op off the handlers that are still attached and the callbacks that have run
(`PhaseOf`), and queues, channels, timers and retries are steps that change nothing.

### Libble: the device handle

State. `state`, `ioch` and `attrib` are the fields of the handle. Channels are
numbered in order of creation; `sk` is the socket of each, `held`, `cwatch` and
`dwatch` say who still refers to it (the reference of `bt_io_connect`, btio's
connect watch, `channel_watcher`), and a socket is closed when nobody does. `att`,
`ref`, `listen` and `pend` are the GAttrib made on a channel: alive or freed,
whether the handle still holds its reference, its notification handler, its
unanswered requests. A GAttrib goes when the handle has given its reference back
and no waiting request holds one (reads and discoveries do, writes do not). When it
goes in the destroy function of its last request, the code goes on with what it freed
(gattrib.c:163-166): the model lets the program survive that or not
(`FreedUnderDestroy`), and a program that does not is `broken` and stops.
`stack` holds the functions that are inside a call of the event handler, for the
handler may call the library again, which may call the handler again.

Actions. `LbleConnect` .. `LbleRequest` are the functions of the API, from the idle
loop or from the handler; `ConnectFailed`, `ConnectUnwanted`, `Connected`,
`ConnectedNoMtu` are the paths through btio's and libble's `connect_cb`;
`Watcher...` are those of `channel_watcher`, whose test compares a set of
condition bits with single bits and which runs once; `Answer`, `RequestTimeout`,
`Notify`, `LinkLost` and `ReturnFlush` are what the bearer does to the handle.

The bearer is abstract here, and what is assumed of it is what BtAtt shows: a
request is answered once (`CallbackOnce`), it ends (`EveryOpEnds`), it fails when
the link is lost (`KeepsPromise`).

Assumptions on the client: it does not disconnect from inside a callback of the
GAttrib that this would free (the code then uses freed records), and does not free
the handle. Otherwise it may call any function at any time, but the code breaks its
promise to a client that makes one of two calls, which `Rash` names and the history
variable `rash` remembers. The first is to connect again while an attempt that was given
up is in flight: `connect_cb` of the first attempt works on the handle's channel, which
is the second one's by then, shuts that down, and the first link stays open
(libble.c:105-111). The second is to call `lble_disconnect` when told that `bt_io_get`
failed: `connect_cb` goes on after the report, and the handle is CONNECTED all the same
(libble.c:116-125). `HandleConsistent` and `DisconnectBreaksLink` are about what happens
until then, and fail after it; the other properties hold whatever the client does.

### GattDiscover: the discovery procedures

State. One procedure, for procedures share nothing: `start` and `end` of its
record, the first handle `req` of the request on the air, the `list` found so far,
the references `refs` that keep the record. `db` is the server's attributes of the
kind looked for, any set that has no overlapping groups. `MaxHandle` stands for
0xffff and `NextStart` wraps as `uint16_t` does.

Actions. `Discover` is `gatt_discover_primary`, `_char` and `_desc`; the four
callbacks (`PrimaryByUuidCb`, `PrimaryAllCb`, `CharDiscoveredCb`,
`DescDiscoveredCb`) take the decoded response of `ServerAnswers` (a server that
keeps to the protocol), `ServerFails` (an error, a timeout, a lost link) or
`RogueAnswers` (anything; `RogueProcs` are the procedures that meet such a server, all
of them in the runs, and `rogue` says that this one does). `Wrapped` is the one thing
such a server can do to the search: it lists a characteristic at the highest handle,
and `char_discovered_cb` starts again at 0. `parity` is history that changes with every
request, so that a loop that asks for the same handles is not a stuttering step.
Failed allocations are left out. A characteristic
declaration is never the last handle of the range asked for, since its value
follows it; the code relies on that when it stops at `start = end`. The database
does not change during a discovery.

### GattProcs: the other procedures

State. The requests that wait in the bearer are one sequence, `reqs`, and the
server's value, its queue of prepared writes and its include declarations are the
server. Of each procedure the model has the record of `gatt.c`: the buffer of a long
read, value and offset of a long write, start handle, error and list of a search for
included services. Bytes carry the name of who wrote them, so that a value that is a
mixture shows. Lengths are scaled down (an MTU of 7 leaves room for 6, 4 and 2 bytes
where 23 leaves 22, 20 and 18).

Actions. `ReadChar`, `WriteChar`, `ReliableWriteChar`, `ExecuteWrite`, `WriteCmd`,
`FindIncluded`, `ExchangeMtu` are the functions of `gatt.h`; `ReadCharHelper`,
`ReadBlobHelper`, `PrepareWriteCb`, `FindIncludedCb`, `FindIncludedEnd`,
`ResolveIncludedCb` are the callbacks, each together with the answer it is given:
carried out, refused, or an error because the link is gone. The bearer is what
AttService promises, on one channel. A long write that fails leaves its parts in the
server's queue, as `prepare_write_cb` does (gatt.c:910). What the server does is external:
`Apply` is the value after an execution, each byte from the last prepared write that
covers it; `Whole` says that the prepared writes leave no hole between the value and
themselves, without which the server refuses to execute them (with three writers whose
parts mix this can happen); `Lists` are the answers a server that keeps to the protocol
may give to a search.

### GAttrib: records, ids and freed memory

State. `cbs` and `track` are the two queues of the GAttrib (of the first, a set, no
order is ever used; `Without` is `queue_remove` on the second), `pair` the ids of a
request and the address of its pair (an address may be used again once it is free,
and `attrib_callbacks_destroy` looks pairs up by address), `ops`, `flush` and `notes`
what the bearer holds of it, and `stack` the calls under way: client functions,
`handle_notify` with the entry it looks at next, `g_attrib_cancel_all` with the next
entry of `queue_foreach`, `disconnect_cb`. Memory that was freed and is looked at
sets `uaf`, and the behaviour stops there.

Actions. The functions of `gattrib.h`, callable whenever a function of the client
runs; the handlers of the bearer that call these functions, cut at each call; and
the rest of `attrib_callbacks_destroy` after a destroy function (`ReturnDestroy`).
A request on the air stays `pending_req` while its destroy function runs, so a
cancel from there reaches `attrib_callbacks_remove` a second time.

### AttCodec: encoders and decoders

One operator per function of `attrib/att.c`, on sequences of bytes. Around them: a
message is encoded, perhaps loses its tail, and is given to any decoder. Values of
lengths 0 to above the buffer, 16- and 128-bit UUIDs, lists whose entries fit or not.
`None` is what a decoder returns to refuse a PDU: where that is 0, as in
`dec_indication`, a length of 0 is `None` too, so an indication with an empty value
counts as refused.
`dec_find_info_resp` is not given a PDU of one byte, for it computes `len - 2`
without a look at the length.

### Btio: sockets

State. Channels with their descriptor, who holds them and which watch is on them;
in the kernel, the socket behind a descriptor and the options in force. `call` is
what the last call returned, `reused` that a descriptor which a watch still has was
given to a new socket.

Actions. `bt_io_connect`, `bt_io_listen`, `bt_io_accept`, `bt_io_set`, `bt_io_get`
and the three watches have the names of the code. Setting options is a sequence of
steps in the order of the code, any of which the kernel may refuse, and an option has
the value of the last step that set it (`After`); `given` are the options that the
client named, with whatever value, so that one asked for with the value 0
(`BT_IO_SEC_SDP`, `BT_IO_MODE_BASIC`) is told from one that was not asked for, which
the code does not do; `OldKernel` chooses the path through
`L2CAP_LM` and `RFCOMM_LM`. The kernel and the client are `Settle`, `HangUp`,
`Shutdown`, `Unref`.

### Vecs: the tools

`vecs_connect` statement by statement, the events of `notify_handler`, and `quit()`,
with `SigInt` between any two steps. The tools are built without optimisation, so each
mention of `event_loop` loads it: in `quit()` the test, the two loads, the two calls and
the assignment are steps of their own, and so are the load for `g_main_loop_run`, the
reference that function takes, and its setting of `is_running`. The library is what
Libble shows of it: it reports the end of an attempt and, if it notices, the loss of
the link.

### Proof modules

`BtAttProofs` and `BtAttOwnerProofs`, which builds on it, for the bearer;
`GattDiscoverProofs`, `GattProcsProofs`, `GAttribProofs`, `BtioProofs`, `LibbleProofs`
and `VecsProofs` for the modules they are named after; see below. The modules `MC...`
instantiate the others for TLC.

## Runs

Deadlock is not checked: a bearer whose channels are gone, a handle whose sockets
are used up, a procedure that is done and a program that has returned have nothing
left to do.

| Run | Instance | What it shows |
|---|---|---|
| `att_one` | 1 channel, 2 ops, requests and commands, MTUs 23 and 64 set once, PDUs of 60 bytes, rogue peer that sends every kind of PDU | ownership, callbacks, timers, wakeups and cancellation under all interleavings, cancels from callbacks and destroy handlers included; the bearer implements AttService |
| `att_two` | 2 channels, 2 requests, peer keeps to the protocol, errors "encryption" (retried once per channel) and "other" | the same with a shared queue and retries that change channel; answers are matched with their requests |
| `att_live` | 1 channel, 2 requests or indications, answers and errors of every kind, fair | both kinds beside each other: ownership and the promise of AttService; every op ends |
| `att_codec` | every kind of message, buffers of 23 bytes and more, PDUs cut anywhere, every decoder | nothing is misread or taken for another kind, what arrives whole is understood |
| `gatt_discover` | 5 handle values, up to 2 items per response, every database; also a rogue server, 1 item per response | discovery finds exactly what there is; whatever the server answers, requests move forward and the search ends unless it wraps, and the client is told once |
| `gatt_rogue` | characteristics, rogue server, fair | violation: the search wraps and goes on for ever |
| `gatt_procs` | pairs of procedures out of readers, writers and a finder, MTU 7 raised on the way, values of several parts, fair | values are read and written whole, a refused write reaches the value only with another one's success, the search is complete, every procedure ends |
| `gattrib` | 3 records, 2 references, 3 calls deep | freed memory is used only after one of three things clients must not do; requests can be cancelled; records go once |
| `btio` | 2 sockets, 1 `bt_io_set`, old kernel | no socket is left behind, options are in force, the client is told of its own socket |
| `libble` | any client, 2 connections, 1 request at a time, handler nested 2 deep, fair | the client knows the state, attempts and requests end, orphaned links are closed; the handle is consistent and links are broken until the client is rash |
| `libble_lost` | 1 connection, fair | violation: a lost link stays CONNECTED |
| `vecs` | 3 signals, fair program | the loop is not used after it was freed but for three places; the program ends when told, but for the calls that are missed |

Why the bounds are enough to meet the interesting cases. Two ops are one on the
air and one queued behind it, which is what an op's end can disturb; two channels
are one that fails and one that takes over. Each op may be retried as often as
security levels allow, cancelled at any point and from any callback. Two
connections are one that was given up, or whose GAttrib a request still holds, and one
that replaced it; a stack of two is a handler inside a handler. `read` stands for the
requests that hold the GAttrib and `write` for those that do not. Four handles and
two items per response give several rounds, groups of more than one handle, gaps
and a group that ends at the highest handle. Two procedures at a time are enough to
mix their requests in the bearer and their parts in the server's queue, and the
values take up to three requests. Three records of a GAttrib are one whose function
runs, the next one of the walk, and one that is added or taken away meanwhile; three
calls are a walk or a `g_attrib_cancel_all`, a function it calls, and what that one
calls. Two sockets are one that was closed and one that got its descriptor. Three
signals are one before, one in and one after a `quit()` or the start of the loop. The
bounds are `MaxOp`, `MaxSetMtu`, `MaxConn`, `MaxReq`, `MaxDepth`, `PerRsp`,
`RoguePerRsp`, `MaxList`, `MaxCb`, `MaxRef`, `MaxSet`, `MaxSig`, each in a guard or
in the range of a quantifier.

Fairness. A handler that has started ends, because callbacks return
(`WF(Return)`). GLib dispatches in every iteration of the main loop all sources of
the default priority that are ready, so a write watch or an expired timer that is
ready again and again is dispatched in spite of PDUs that keep arriving (strong
fairness, since callbacks of other sources run in between and disable it for a
moment). The disconnect watch has idle priority and runs when what a dead socket
still holds has been read. The kernel ends every attempt to connect. No fairness
is assumed of the peer: a request that is never answered ends by its timer, and in
GattDiscover `WF(Server)` says only that a request ends by an answer, an error or
the timeout, which is what `EveryOpEnds` shows of the bearer. GattProcs assumes the
same of its requests, and that a client which prepared a reliable write executes it
or drops it. In Vecs only the program itself is fair: the device, the link and the
user may do nothing for ever.

### Findings

Two runs find their property violated, each with an entry under `findings`.

- `libble_lost`: `channel_watcher` runs once (libble.c:82), usually because the channel
  is writable, so a link that is lost later stays STATE_CONNECTED for ever.
- `gatt_rogue`: `char_discovered_cb` goes on from the last handle plus one, which is 0
  after 0xffff (gatt.c:658), past the guard that is to keep it from an infinite loop
  (gatt.c:649).

In other places the code does what a reader would not expect. Where a passing property
meets it, the exception is part of the property's text.

- The destroy handler of an op that cancels the op while it is pending runs twice
  (att.c:218, 227): `CallbackOnce`.
- `in_req` (att.c:65, "There's a pending incoming request") is cleared by any
  response, also the error response to a notification without a handler
  (att.c:531). No property depends on it.
- `bt_att_set_mtu` only raises `att->mtu` (att.c:1373), so after the MTU was reduced
  `encode_pdu` accepts what no channel can send (att.c:300), though the comment at
  gattrib.c:443 says it does not. No property covers it: wakeups and liveness are about
  channels that have the bearer's MTU (`SameMtu`).
- `connect_cb` of an attempt that was given up works on the handle's channel, not on its
  own (libble.c:105), and sets STATE_CONNECTED after a report on which the client may
  have disconnected (libble.c:125): `Rash`, in `HandleConsistent` and
  `DisconnectBreaksLink`.
- `lble_disconnect` only gives one reference back (libble.c:283): a read that waits
  keeps the link up, hence the last line of `DisconnectBreaksLink`.
- `dec_prep_write_resp` compares the opcode with that of the request, so it refuses
  every response (att.c:1162-1187); nothing calls it. `OwnKindOnly` and `RoundTrip`.
- A signed write that lost its tail passes, with the end of its value for the start of
  its signature (att.c:607), and an indication with an empty value is decoded as if
  it had been refused (att.c:995): `NeverMisread` and `RoundTrip`.
- A long read that fails in the middle is reported as a success (gatt.c:771):
  `ReadExact`. A long write that does leaves its parts prepared (gatt.c:910), and the
  next write that is executed applies them: `RefusedStaysPrepared`.
- `g_attrib_cancel` finds a waiting request on the queue of ids (gattrib.c:360, "it
  has to be on the tracking id queue") except after `g_attrib_cancel_all` or the
  reuse of an address: `Cancellable`.
- The value 0 of an option is taken for none: `bt_io_set` with `BT_IO_SEC_SDP`,
  `BT_IO_MODE_BASIC` or the priority 0 returns TRUE and changes nothing (btio.c:655,
  682, 687). `l2cap_set` fails without an error on an LE socket with a mode or an
  outgoing MTU and no incoming one, drops the outgoing MTU otherwise, and overwrites
  the master role on an old kernel; a SCO socket has one MTU: `Dropped` and `AsAsked`.
- `quit()` before the main loop exists is lost, so `vecs_connect` never returns when
  `lble_connect` fails at once (vecs.c:65, 162), and so is one inside `g_main_loop_run`
  before `is_running` is set (vecs.c:166): `StopsWhenTold`. A signal after
  `event_loop` was loaded for `g_main_loop_run` or for `g_main_loop_unref` in `quit()`,
  or before `quit()` clears it, may free the running loop (vecs.c:166, 69, 70):
  `LoopOutlivesRun`.

## Proofs

The theorems hold for every value of the constants that satisfies the modules'
named assumptions: any number of channels, ops, MTUs and lengths, handles of any
width, any number of records, references, sockets, connections and signals, and
calls nested to any depth. The assumptions bound nothing: they say that a bound is a
number, that there is at least one channel, and the like. Where a theorem needs more,
its statement says so, and the text below says why.

### The bearer

- **`BtAttProofs!TypeCorrect`**: `Spec => []TypeOK`. One lemma per group of
  actions; `TypeOK` is inductive as it stands.
- **`BtAttProofs!CallbackOnceCorrect`** and **`CancelIsFinalCorrect`**: a
  callback runs at most once and not after a cancel was reported as done, and a destroy
  handler runs at most once unless it cancels its own op while that is pending.
  `CallbackOnce` is not inductive: a state in which an op has had its callback and still
  has its handlers attached would allow a second call. The strengthening is
  `Inv == TypeOK /\ KnownOps /\ FrameOp /\ HandlerInv`. `HandlerInv` says that an op with
  handlers attached has had no destroy call, was not cancelled, and has had no callback
  unless it is the one in the running frame; `KnownOps` that queues and pending fields
  name only ops that were created, without which a new op could inherit a past; `FrameOp`
  that a handler which completes no op names none. Five lemmas say what a step can do to
  the handlers (nothing, create, detach, call, destroy), and every action is one of them.
- **`BtAttOwnerProofs!OwnedOnceCorrect`**: every op that was created and not freed is
  in exactly one place and none is freed twice. The invariant `Owners` adds to it
  that queues have no repetitions and no op is pending twice (`NoTwice`: else taking
  it out once would leave it there), that ops are filed by type (`Filed`: requests
  and indications are in different queues, so they cannot meet), what a channel that
  is gone may still hold (`ChanShape`: nothing, but while `disconnect_cb` works on
  it) and where the op of a running handler still is (`FrameShape`). The places an op
  can be in are named, and every action moves one op from one place to another or
  frees it.
- **`TimerIffPendingCorrect`**: a timer runs for exactly the ops on the air. `Timed`
  adds the ops that `disconnect_cb` has taken off the air and not reached yet.
- **`OwedIsPendingCorrect`** and **`OkMeansServedCorrect`**: what the peer owes on a
  channel in use is what the bearer waits for, and an op reported as successful was
  carried out by the peer. Both assume `~Rogue`, a peer that keeps to the protocol:
  the protocol has no request ids, so a peer that answers what it was not asked is
  believed by design. `Owes` is the former without the exception of the moment in
  which an answered op is handed to its callback.
- **`KeepsPromiseCorrect`**: `Spec => KeepsPromise`, the bearer implements AttService.
  The initial states map to initial states, and every step maps to a step of
  AttService or to a stutter: one lemma per outcome (created, told, destroyed,
  cancelled, all destroyed with the bearer), and one per group of actions that says
  which it is. The mapping needs `Told`: an op that lives has its handlers or was
  cancelled, and a callback that runs has been counted.
- **`NoLostWakeupCorrect`**: no channel sleeps on something it could send unless another
  one is awake for it. It assumes `[]SameMtu`, that every attached channel has the MTU of
  the bearer, because `pick_next_send_op` passes over what does not fit a channel and
  `bt_att_set_mtu` never lowers `att->mtu`. **`OneMtuCorrect`** draws it
  from the constants alone (`OneMtu`: no other MTU than the default one, as in
  `att_two`, or one channel whose MTU is set once, as in `att_one`).
  `NoLostWakeup` is far from inductive. `Woken` says that a channel is awake for
  whatever it can send but requests. For requests this fails, since `handle_error_rsp`
  puts a request back into the shared queue and wakes only the channel it failed on:
  what holds is a count (`Enough`), that while a channel sleeps which could take a
  request, there are at least as many others awake and free as there are requests. A
  retry adds one to both sides, sending a request takes one from both, and
  `wakeup_writer` leaves nobody asleep. With `Fitting` (what was accepted fits the
  biggest MTU, which only grows) a channel then finds something to send whenever there
  is something.

### Discovery

- **`GattDiscoverProofs!DiscoveryCompleteCorrect`**: with a server that keeps to
  the protocol, a discovery that reports success has found exactly what the
  client looked for, in order. The invariant `Position /\ Progress` says that
  while a request is on the air it starts where the record says and the list is
  exactly what there is below that handle. `Listed` is the heart: a response that
  keeps to the protocol lists all there is from `start` to the end of the group of
  its last item, since groups do not overlap.
- **`ForwardOnlyCorrect`**: whatever the server answers, a discovery never asks for the
  same handles twice, unless the search for characteristics has wrapped to 0, which is
  a state the theorem names and not an assumption on the server.
- **`EndsOnceCorrect`**: whatever the server answers, the client's function is called
  once and the record goes then.

### Reads, writes and included services

All in `GattProcsProofs`, for any number of procedures that run together, any MTUs,
values and declarations. `Apply` is defined byte by byte and not by going through the
prepared writes, so its proofs need no induction: only that a set of numbers with a
bound has a largest one.

- **`QueueCorrect`**, which the others rest on: types, and who has which requests in
  the bearer. Only a procedure that runs has requests there (`Busy`), a read or a write
  has one at most (`Unique`), of its own kind (`Fitting`), and the server has nothing
  prepared once the link is gone.
- **`ReadCorrect`**: `ReadExact`. While a request for the rest of the value waits, the
  buffer is the value up to the offset it asks for (`ReadInv`). The two exceptions of
  the property, a value that changes meanwhile and a read that fails in the middle, are
  those of the code.
- **`IncludedCorrect`**: `IncludedComplete`. `FindInv` says that a search asks for what
  follows `start_handle`, in one request (`SearchInv`), and that the declarations below
  it are in the list or wait for their UUID, each in one of these places and once
  (`FoundInv`). Answers to reads of UUIDs come in between further searches, so the list
  itself is in no order.
- **`RefusalCorrect`**: `RefusedStaysPrepared`. `TraceInv` says where bytes of a write
  can be: in its requests and the server's queue, but not in the value while it runs,
  and not after it failed as long as no other write was a success (`NoneOk`). What
  carries it is that the value changes by the request that was answered or by a write
  command (`ValueMoves`), and that an execution belongs to a write that is a success
  when it is carried out (`ExecutedOk`). `Rivals` says that writes which ran together
  are marked as such, so that only one write at a time is left to think of.
- **`WriteCorrect`**: `WriteApplied`. `ApplyInv` follows a long write through its
  requests: while part number n is on its way, the execution of what the server holds
  gives the bytes before it (`Covered`), also when older parts of a failed write are
  still prepared below.

Most lemmas say that a step of one procedure leaves what the invariant says of another
one alone, since it neither takes nor adds requests of the other's.

### GAttrib

The invariant is in three layers, each proved from the ones before.

- `Kept` gives **`GAttribProofs!DestroyOnceCorrect`**. A record is in the queue until
  it is destroyed (`Records`); a record belongs to requests or to one handler, never
  both (`Handlers`), or `g_attrib_unregister` would destroy what a request still
  names; only certain calls can be on top of others (`Shape`); a bearer that is being
  disconnected is not connected again (`Ending`).
- `Asking` gives **`CancellableCorrect`**. A request has an id of its own and is in one
  place of the bearer (`Requests`); the bearer lists no destroyed request but the one
  on the air whose destroy function is running (`Listed`); tracked pairs have
  different addresses, and the address of a pair that is no stray's is named by no
  other record that still exists (`Pairs`: the pair is looked up by address); and
  everything that a running `g_attrib_cancel_all` has passed is cancelled (`Swept`,
  by position in the list: at its end it frees all pairs, so nothing may still need
  one).
- `Calm => Safe` gives **`FreedUntouchedCorrect`**: as long as the client has done none
  of the three forbidden things, the entry that `handle_notify` or
  `g_attrib_cancel_all` looks at next is still in its list, or the list is empty and
  that will be noticed (`WalkSafe`, `AllSafe`), and the GAttrib goes only when no call
  is under way. `AllSafe` needs that the pair it looks at next has another address
  than that of the record whose destroy function runs, for that one will be freed.

### Sockets, handle, tools

- **`BtioProofs!NoOrphanCorrect`** and **`ToldOwnFateCorrect`**: an open descriptor is
  that of a channel which is held or watched and closes it when it goes; an attempt is
  told its own fate once. `BInv` says this of every descriptor (`Owned`), that a watch
  which is on has not reported (`OnceOK`), and, until a descriptor that a watch still
  has is given out again, that a watched number is the watch's own socket's or free
  (`MineOK`). That a new socket gets a free number is a counting argument: of `MaxConn`
  numbers fewer are in use than sockets were made.
- **`BtioProofs!AsAskedCorrect`**: a call that succeeds has put in force every option it
  named, the value 0 included, but for what `Dropped` names. `SetSteps` gives the steps of a kind of
  socket as a set: each sets an option to the value that was asked for (`StepValues`),
  and each option that was asked for has a step unless one of the steps cannot succeed
  (`HasStep`). So the order of the steps matters for the flags alone (`MasterLast`,
  `FlagsLevel`). What is left is an invariant of the sockets (`KindOK`): the kernel keeps
  every option, and an open socket is of one of the three kinds. `OptsAssumption` says
  what a client may ask for after its list is parsed: a master role and a flushable flag
  that are booleans when they are named, and a priority without a sign, as they are in
  btio.c:63.
- **`LibbleProofs!HandleConsistentCorrect`**, **`DisconnectBreaksLinkCorrect`** and
  **`ToldStateCorrect`**, all from `rash \/ LInv`: the invariant holds until the client
  has been rash, and after that nothing is claimed (of `ToldState`, which the run finds to
  hold for a rash client too, only this much is proved). It ties the handle to at most one
  attempt in flight, on the last channel (`Attempt`), says what may be on the stack together
  (`Excl`) and what a function relies on when the event handler returns (`FramesOK`:
  without it `connect_cb` could come back to a handle that the handler changed), who
  keeps an open socket (`Links`) and that CONNECTING has an attempt behind it
  (`Tells`).
- **`VecsProofs!LoopOutlivesRunCorrect`**: every reference to the main loop is accounted
  for at every step (`Counted`), with a pointer that was loaded and not used yet, as long
  as no signal came in one of the three places the property names.

### Only model-checked

- The liveness properties (`EveryOpEnds`, `ConnectEnds`, `RequestEnds`,
  `OrphanCloses`, `DiscoveryTerminates`, `ProcedureEnds`, `StopsWhenTold`): fairness and
  ENABLED are beyond the prover. And the violations: `LostLinkNoticed` and
  `CharSearchStops`. `ToldState` after the client has been rash.
- All of AttCodec (`OwnKindOnly`, `NeverMisread`, `RoundTrip`): they are about sequences
  of bytes that are put together part by part, in recursive definitions, which takes
  induction over data.
- That `parse_set_opts`, a fold over the client's list, gives what `OptsAssumption` says:
  an assumption on the lists, which TLC evaluates.

## Not modelled

- **Freed memory** outside GAttrib and Vecs: the double free of a GError in
  `connect_cb` (libble.c:90), the handle freed under its watches (libble.c:234). They
  are listed as hazards.
- **Bearer**: disconnect handlers, the signatures of signed writes and their
  verification, the BR/EDR MTU exchange, non-L2CAP transports, the timeout and debug
  callbacks.
- **UUID conversions, crypto, logging, utilities**: conversions of strings, calls of
  the kernel's ciphers and output, with no state of their own. SDP records: never
  parsed by this library.
- **motion.c, info.c** and the table of handles of `vecs.c`: output.

## Plan

The parts that carry behaviour are modelled, and every safety property of theirs is
proved but those of the codecs. What is left are the hazards that have no property yet:
freed memory of the handle and of the error in `connect_cb`, the references that
`lble_disconnect` and a refused `g_attrib_send` leak.
