------------------------------- MODULE Btio -------------------------------
(* Bluetooth sockets as btio/btio.c makes them: the options of a call, in    *)
(* which order they are set and what is left behind when one fails; the      *)
(* watches that report the end of bt_io_connect, bt_io_listen and            *)
(* bt_io_accept; and the GIOChannels and descriptors they hang on.           *)
(*                                                                           *)
(* A descriptor is a number: the kernel gives the number of a closed socket  *)
(* to the next one, and a watch or a channel that still has it then means    *)
(* the wrong socket.  Addresses are not told apart.                          *)
EXTENDS Integers, Sequences, FiniteSets, SequencesExt

CONSTANTS
    MaxConn,     \* bound: sockets made in a behaviour
    MaxSet,      \* bound: calls of bt_io_set in a behaviour
    OldKernel,   \* the kernel knows no BT_SECURITY (ENOPROTOOPT)
    OptLists,    \* the lists of options the client gives
    GetOpts      \* the options it asks for

ASSUME ConnAssumption == MaxConn \in Nat /\ MaxSet \in Nat /\ OldKernel \in BOOLEAN

Conn == 1..MaxConn
Fd   == 1..MaxConn
None == 0

VARIABLES
    nc,      \* number of sockets made
    nset,    \* number of calls of bt_io_set
    chan,    \* of each socket its GIOChannel: [fd, held, auto]
    watch,   \* its watch: "none", "connect", "server" or "accept"
    confirm, \* of a server: the client is to confirm connections
    owner,   \* kernel: the socket that is open under a number
    sock,    \* kernel: [type, le, link, err, opt, src, dst]
    call,    \* what the call that was just made returned
    told,    \* history: the calls of connect of each attempt
    gone,    \* history: how often the destroy function was called
    reused   \* history: a number that a watch still has was given away

kernel  == <<owner, sock>>
history == <<told, gone, reused>>
vars == <<nc, nset, chan, watch, confirm, kernel, call, history>>

-----------------------------------------------------------------------------
(* parse_set_opts *)

Unset == -1

Defaults ==
    [type |-> "SCO", le |-> FALSE, port |-> 0, cid |-> 0, mtu |-> 0,
     imtu |-> 0, omtu |-> 0, mode |-> 0, master |-> Unset,
     flushable |-> Unset, priority |-> 0, sec |-> 0, voice |-> 0, bad |-> FALSE,
     given |-> {}]   \* history: the options that were named

\* One option x, a pair of its name and its value.
parse_opt(o, x) ==
    LET k == x[1]
        v == x[2]
    IN
    CASE k = "SOURCE_TYPE" -> [o EXCEPT !.le = v]
      [] k = "SEC_LEVEL"   -> [o EXCEPT !.sec = v]
      [] k = "CHANNEL"     -> [o EXCEPT !.type = "RFCOMM", !.port = v]
      [] k = "PSM"         -> [o EXCEPT !.type = "L2CAP", !.port = v]
      [] k = "CID"         -> [o EXCEPT !.type = "L2CAP", !.cid = v]
      [] k = "MTU"         -> [o EXCEPT !.mtu = v, !.imtu = v, !.omtu = v]
      [] k = "OMTU"        -> [o EXCEPT !.omtu = v, !.mtu = IF @ = 0 THEN v ELSE @]
      [] k = "IMTU"        -> [o EXCEPT !.imtu = v, !.mtu = IF @ = 0 THEN v ELSE @]
      [] k = "MASTER"      -> [o EXCEPT !.master = v]
      [] k = "MODE"        -> [o EXCEPT !.mode = v]
      [] k = "FLUSHABLE"   -> [o EXCEPT !.flushable = v]
      [] k = "PRIORITY"    -> [o EXCEPT !.priority = v]
      [] k = "VOICE"       -> [o EXCEPT !.voice = v]
      [] OTHER             -> [o EXCEPT !.bad = TRUE]

\* BT_IO_OPT_MTU stands for both directions.
Named(list) ==
    LET names == {list[i][1] : i \in DOMAIN list} IN
    names \cup IF "MTU" \in names THEN {"IMTU", "OMTU"} ELSE {}

parse_set_opts(list) ==
    [FoldLeft(parse_opt, Defaults, list) EXCEPT !.given = Named(list)]

\* What the lists the client gives come to.
Options == [list \in OptLists |-> parse_set_opts(list)]

\* What the client may ask for: the master role and flushable are gbooleans, the
\* priority has no sign.
ASSUME OptsAssumption ==
    \A list \in OptLists :
        LET o == Options[list] IN
        /\ o.type \in {"L2CAP", "RFCOMM", "SCO"} /\ o.le \in BOOLEAN
        /\ o.master \in {Unset, 0, 1} /\ o.priority \in Nat
        /\ "MASTER" \in o.given => o.master # Unset
        /\ "FLUSHABLE" \in o.given => o.flushable # Unset

-----------------------------------------------------------------------------
(* Setting options: a sequence of steps, each of which the kernel may refuse. *)

\* A step puts values in force.  One that cannot succeed says why or does not.
Step(set) == [set |-> set, can |-> TRUE, says |-> TRUE]
Refusal(says) == [set |-> <<>>, can |-> FALSE, says |-> says]

\* The function from the names in S to their values in o.
Pick(o, S) == [n \in S |-> o[n]]

When(b, steps) == IF b THEN steps ELSE <<>>

\* The flags of L2CAP_LM and RFCOMM_LM for a security level, and back.
lm_map(level) ==
    CASE level = 1 -> {"AUTH"}
      [] level = 2 -> {"AUTH", "ENCRYPT"}
      [] level = 3 -> {"AUTH", "ENCRYPT", "SECURE"}
get_lm(lm) ==
    IF "SECURE" \in lm THEN 3 ELSE IF "ENCRYPT" \in lm THEN 2
    ELSE IF "AUTH" \in lm THEN 1 ELSE 0

\* set_sec_level.  With the old option all flags are written.
set_sec_level(level) ==
    IF level \notin 1..3 THEN <<Refusal(TRUE)>>
    ELSE IF OldKernel THEN <<Step([lm |-> lm_map(level)])>>
    ELSE <<Step([sec |-> level])>>

\* l2cap_set_master, rfcomm_set_master: only the one flag changes.
set_master(o) == When(o.master # Unset, <<Step([master |-> o.master])>>)

\* Mutant of l2cap_mtu: the modes are forgotten.
l2cap_mtu_only(o) ==
    LET given == {n \in {"imtu", "omtu"} : o[n] # 0} IN
    When(given # {}, <<Step(Pick(o, given))>>)

\* The first part of l2cap_set: set_l2opts, or set_le_imtu and set_le_mode,
\* where without an imtu the call fails and nothing is said.
l2cap_mtu(o) ==
    LET given == {n \in {"imtu", "omtu", "mode"} : o[n] # 0} IN
    IF given = {} THEN <<>>
    ELSE IF ~o.le THEN <<Step(Pick(o, given))>>
    ELSE IF o.imtu = 0 THEN <<Refusal(FALSE)>>
    ELSE <<Step(Pick(o, {"imtu"}))>> \o When(o.mode # 0, <<Step(Pick(o, {"mode"}))>>)

l2cap_set(o) ==
    l2cap_mtu(o) \o set_master(o)
    \o When(o.flushable # Unset, <<Step(Pick(o, {"flushable"}))>>)
    \o When(o.priority > 0, <<Step(Pick(o, {"priority"}))>>)
    \o When(o.sec # 0, set_sec_level(o.sec))

rfcomm_set(o) == When(o.sec # 0, set_sec_level(o.sec)) \o set_master(o)

sco_set(o) == When(o.mtu # 0, <<Step(Pick(o, {"mtu"}))>>)
              \o When(o.voice # 0, <<Step(Pick(o, {"voice"}))>>)

set_steps(type, o) ==
    CASE type = "L2CAP" -> l2cap_set(o)
      [] type = "RFCOMM" -> rfcomm_set(o)
      [] type = "SCO" -> sco_set(o)

\* n of the steps succeed.
May(steps, n) == /\ n \in 0..Len(steps)
                 /\ \A i \in 1..n : steps[i].can

\* The last of the first n steps that sets option k, or 0.
Latest(steps, n, k) == Max({0} \cup {i \in 1..n : k \in DOMAIN steps[i].set})

\* setsockopt, in the kernel: of the options opt, those that the first n steps
\* set have the value of the last one that does.  A step that sets the master
\* flag changes it in the flags that are there.
After(opt, steps, n) ==
    LET by(k) == Latest(steps, n, k)
        now(k) == IF by(k) = 0 THEN opt[k] ELSE steps[by(k)].set[k]
        flags ==
            IF by("master") <= by("lm") THEN now("lm")
            ELSE IF steps[by("master")].set.master = 1 THEN now("lm") \cup {"MASTER"}
            ELSE now("lm") \ {"MASTER"}
    IN [k \in DOMAIN opt |-> IF k = "lm" THEN flags ELSE now(k)]

Says(steps, n) == n < Len(steps) => steps[n + 1].says

\* What a new socket has in force.
NewOpt == [imtu |-> 0, omtu |-> 0, mode |-> 0, flushable |-> 0, priority |-> 0,
           sec |-> 1, lm |-> {}, mtu |-> 0, voice |-> 0]

NoSock == [type |-> "none", le |-> FALSE, link |-> "none", err |-> FALSE,
           opt |-> NewOpt, src |-> 0, dst |-> 0]

-----------------------------------------------------------------------------
(* Channels *)

\* A call returns: whether it succeeded and, if not, said why; what it was
\* asked to set, and of which socket; and the option it was to read.
Returns(ok, said, o, c, get) ==
    call' = [ok |-> ok, said |-> said, asked |-> o, conn |-> c, get |-> get]
NoCall == Returns(FALSE, TRUE, Defaults, None, "none")

Open(c) == owner[chan[c].fd] = c

\* The lowest number that is free, which the kernel gives to a new socket.
NewFd == CHOOSE f \in Fd : owner[f] = None /\ \A g \in 1..(f - 1) : owner[g] # None

\* g_io_channel_shutdown, g_io_channel_unref with close_on_unref.  ss is what
\* the kernel knows of the sockets, from which that of c goes.
Close(c, ss) ==
    /\ owner' = [owner EXCEPT ![chan[c].fd] = None]
    /\ sock' = [ss EXCEPT ![c] = NoSock]

\* Mutant of Abandon: the socket stays open.
AbandonOpen(c) == owner' = [owner EXCEPT ![NewFd] = c]

\* A socket is given up before its channel is returned: close in create_io,
\* g_io_channel_unref in bt_io_connect and bt_io_listen.
Abandon(c) == UNCHANGED owner

\* The new socket c, its channel held by the client and watched as w.
NewChannel(c, held, w, s) ==
    /\ nc' = c
    /\ chan' = [chan EXCEPT ![c] = [fd |-> NewFd, held |-> held, auto |-> TRUE]]
    /\ watch' = [watch EXCEPT ![c] = w]
    /\ owner' = [owner EXCEPT ![NewFd] = c]
    /\ sock' = [sock EXCEPT ![c] = s]
    /\ reused' = (reused \/ \E d \in Conn : watch[d] # "none" /\ chan[d].fd = NewFd)

\* bt_io_connect and bt_io_listen up to the kernel's connect or listen: the
\* options are bad, there is no socket, bind fails or one of the steps does; or
\* all is well and so is what follows, or not.
Make(list, server, w, link) ==
    LET o == Options[list]
        c == nc + 1
        steps == set_steps(o.type, o)
        cid == o.type = "L2CAP" /\ o.cid # 0
        port == IF cid THEN o.cid ELSE o.port
    IN
    /\ nc < MaxConn
    /\ \/ \* parse_set_opts or socket
          /\ Returns(FALSE, TRUE, o, None, "none")
          /\ UNCHANGED <<nc, chan, watch, kernel, reused>>
       \/ \* bind, a step, or connect or listen
          \E n \in 0..Len(steps) :
              /\ ~o.bad /\ May(steps, n)
              /\ Returns(FALSE, Says(steps, n), o, None, "none")
              /\ Abandon(c)
              /\ UNCHANGED <<nc, chan, watch, sock, reused>>
       \/ /\ ~o.bad /\ May(steps, Len(steps))
          /\ Returns(TRUE, FALSE, o, c, "none")
          /\ NewChannel(c, TRUE, w,
                 [type |-> o.type, le |-> o.le, link |-> link, err |-> FALSE,
                  opt |-> After(NewOpt, steps, Len(steps)),
                  src |-> IF server \/ cid THEN port ELSE 0,
                  dst |-> IF server THEN None ELSE port])
    /\ UNCHANGED <<nset, told, gone>>

bt_io_connect(list) ==
    /\ Make(list, FALSE, "connect", "connecting")
    /\ UNCHANGED confirm

bt_io_listen(list, conf) ==
    /\ Make(list, TRUE, "server", "listening")
    /\ confirm' = IF nc' > nc THEN [confirm EXCEPT ![nc'] = conf] ELSE confirm

\* bt_io_set: the kind of socket is the kernel's, but its address type is the
\* one the options name.  A failure leaves the steps before it in force.
bt_io_set(c, list) ==
    LET o == Options[list]
        steps == set_steps(sock[c].type, o)
    IN
    /\ chan[c].held /\ Open(c)
    /\ nset < MaxSet /\ nset' = nset + 1
    /\ \/ /\ o.bad
          /\ Returns(FALSE, TRUE, o, c, "none")
          /\ UNCHANGED sock
       \/ \E n \in 0..Len(steps) :
              /\ ~o.bad /\ May(steps, n)
              /\ Returns(n = Len(steps), Says(steps, n), o, c, "none")
              /\ sock' = [sock EXCEPT ![c].opt = After(@, steps, n)]
    /\ UNCHANGED <<nc, chan, watch, confirm, owner, history>>

-----------------------------------------------------------------------------
(* bt_io_get *)

L2capGets == {"SEC_LEVEL", "KEY_SIZE", "PSM", "CID", "OMTU", "IMTU", "MASTER",
              "MODE", "FLUSHABLE", "PRIORITY", "DEST"}
RfcommGets == {"SEC_LEVEL", "CHANNEL", "MASTER", "DEST"}
ScoGets == {"MTU", "OMTU", "IMTU", "DEST"}

Gets(type) == CASE type = "L2CAP" -> L2capGets [] type = "RFCOMM" -> RfcommGets
                [] type = "SCO" -> ScoGets

\* getpeername succeeds.
HasPeer(c) == sock[c].link \in {"up", "deferred"}

\* A port that was bound is taken from getsockname, another from the peer.
NeedsPeer(c, k) ==
    \/ k = "DEST" \/ sock[c].type = "SCO"
    \/ k \in {"PSM", "CID", "CHANNEL"} /\ sock[c].src = 0

\* The value that l2cap_get, rfcomm_get and sco_get read of socket s for option k.
Value(s, k) ==
    IF s.type = "SCO" THEN s.opt.mtu
    ELSE CASE k = "SEC_LEVEL" -> IF OldKernel THEN get_lm(s.opt.lm) ELSE s.opt.sec
           [] k = "MASTER"    -> IF "MASTER" \in s.opt.lm THEN 1 ELSE 0
           [] k = "IMTU"      -> s.opt.imtu
           [] k = "OMTU"      -> s.opt.omtu
           [] k = "MODE"      -> s.opt.mode
           [] k = "FLUSHABLE" -> s.opt.flushable
           [] k = "PRIORITY"  -> s.opt.priority
           [] OTHER           -> IF s.src # 0 THEN s.src ELSE s.dst

\* A failed getsockopt is told, but not that of get_key_size.
bt_io_get(c, k) ==
    /\ chan[c].held /\ Open(c)
    /\ \/ /\ k \in Gets(sock[c].type)
          /\ NeedsPeer(c, k) => HasPeer(c)
          /\ Returns(TRUE, FALSE, Defaults, c, k)
       \/ /\ k \in Gets(sock[c].type)
          /\ Returns(FALSE, k # "KEY_SIZE", Defaults, c, k)
       \/ /\ k \notin Gets(sock[c].type)
          /\ Returns(FALSE, TRUE, Defaults, c, k)
    /\ UNCHANGED <<nc, nset, chan, watch, confirm, kernel, history>>

-----------------------------------------------------------------------------
(* Watches *)

\* The watch of c ends: connect_remove, server_remove or accept_remove, and
\* the reference of the watch goes.  ss is what the kernel knows by then.
EndWatch(c, ss) ==
    /\ watch' = [watch EXCEPT ![c] = "none"]
    /\ gone' = [gone EXCEPT ![c] = @ + 1]
    /\ IF ~chan[c].held /\ chan[c].auto
       THEN Close(c, ss) /\ chan' = [chan EXCEPT ![c].auto = FALSE]
       ELSE sock' = ss /\ UNCHANGED <<owner, chan>>

\* Mutant of check_nval: a descriptor that was closed is not noticed.
check_nval_never(c) == FALSE

\* check_nval, and G_IO_NVAL: nothing is open under the number.
check_nval(c) == owner[chan[c].fd] = None

\* connect_cb and accept_cb: the socket under the number has an event.  Its
\* error is read, which also clears it.
Report(c) ==
    LET s == owner[chan[c].fd] IN
    IF check_nval(c)
    THEN UNCHANGED told /\ EndWatch(c, sock)
    ELSE /\ s # None => sock[s].link \in {"up", "failed", "hup"}
         /\ told' = [told EXCEPT ![c] = Append(@,
                IF s = None THEN [of |-> None, ok |-> FALSE, link |-> "none"]
                ELSE [of |-> s, ok |-> ~sock[s].err, link |-> sock[s].link])]
         /\ EndWatch(c, IF s = None THEN sock ELSE [sock EXCEPT ![s].err = FALSE])

connect_cb(c) ==
    /\ watch[c] = "connect"
    /\ Report(c)
    /\ NoCall
    /\ UNCHANGED <<nc, nset, confirm, reused>>

accept_cb(c) ==
    /\ watch[c] = "accept"
    /\ Report(c)
    /\ NoCall
    /\ UNCHANGED <<nc, nset, confirm, reused>>

\* server_cb when the server is closed ...
server_cb_end(c) ==
    /\ watch[c] = "server" /\ owner[chan[c].fd] = None
    /\ EndWatch(c, sock)
    /\ NoCall
    /\ UNCHANGED <<nc, nset, confirm, told, reused>>

\* ... and with a new connection, which the kernel may have deferred if the
\* client is to confirm it.  (If the client keeps no reference to the channel
\* the socket is closed at once and nothing has happened.)
server_cb(c) ==
    LET new == nc + 1 IN
    /\ watch[c] = "server" /\ Open(c) /\ nc < MaxConn
    /\ \E link \in IF confirm[c] THEN {"up", "deferred"} ELSE {"up"} :
           NewChannel(new, TRUE, "none", [sock[c] EXCEPT !.link = link])
    /\ told' = IF confirm[c] THEN told
               ELSE [told EXCEPT ![new] = <<[of |-> new, ok |-> TRUE, link |-> "up"]>>]
    /\ NoCall
    /\ UNCHANGED <<nset, confirm, gone>>

\* bt_io_accept of a connection that is to be confirmed: reading one byte lets
\* a deferred one go on.
bt_io_accept(c) ==
    /\ chan[c].held /\ Open(c)
    /\ watch[c] = "none" /\ gone[c] = 0 /\ told[c] = <<>>
    /\ \/ /\ Returns(FALSE, TRUE, Defaults, c, "none")
          /\ UNCHANGED <<watch, sock>>
       \/ /\ Returns(TRUE, FALSE, Defaults, c, "none")
          /\ watch' = [watch EXCEPT ![c] = "accept"]
          /\ sock' = [sock EXCEPT ![c].link = IF @ = "deferred" THEN "connecting" ELSE @]
    /\ UNCHANGED <<nc, nset, chan, confirm, owner, history>>

-----------------------------------------------------------------------------
(* The kernel and the client *)

\* An attempt succeeds, or fails with an error.
Settle(c, ok) ==
    /\ Open(c) /\ sock[c].link = "connecting"
    /\ sock' = [sock EXCEPT ![c].link = IF ok THEN "up" ELSE "failed", ![c].err = ~ok]
    /\ NoCall
    /\ UNCHANGED <<nc, nset, chan, watch, confirm, owner, history>>

\* The peer hangs up, with an error or without.
HangUp(c, err) ==
    /\ Open(c) /\ sock[c].link \in {"up", "deferred"}
    /\ sock' = [sock EXCEPT ![c].link = "hup", ![c].err = err]
    /\ NoCall
    /\ UNCHANGED <<nc, nset, chan, watch, confirm, owner, history>>

\* The client closes the channel, whether a watch is on it or not.
Shutdown(c) ==
    /\ chan[c].held /\ chan[c].auto
    /\ Close(c, sock)
    /\ chan' = [chan EXCEPT ![c].auto = FALSE]
    /\ NoCall
    /\ UNCHANGED <<nc, nset, watch, confirm, history>>

\* The client gives its reference back.
Unref(c) ==
    /\ chan[c].held
    /\ IF watch[c] = "none" /\ chan[c].auto
       THEN /\ Close(c, sock)
            /\ chan' = [chan EXCEPT ![c].held = FALSE, ![c].auto = FALSE]
       ELSE /\ chan' = [chan EXCEPT ![c].held = FALSE]
            /\ UNCHANGED kernel
    /\ NoCall
    /\ UNCHANGED <<nc, nset, watch, confirm, history>>

-----------------------------------------------------------------------------
Init ==
    /\ nc = 0 /\ nset = 0
    /\ chan = [c \in Conn |-> [fd |-> 1, held |-> FALSE, auto |-> FALSE]]
    /\ watch = [c \in Conn |-> "none"]
    /\ confirm = [c \in Conn |-> FALSE]
    /\ owner = [f \in Fd |-> None]
    /\ sock = [c \in Conn |-> NoSock]
    /\ call = [ok |-> FALSE, said |-> TRUE, asked |-> Defaults, conn |-> None,
               get |-> "none"]
    /\ told = [c \in Conn |-> <<>>]
    /\ gone = [c \in Conn |-> 0]
    /\ reused = FALSE

Next ==
    \/ \E list \in OptLists :
           \/ bt_io_connect(list)
           \/ \E conf \in BOOLEAN : bt_io_listen(list, conf)
           \/ \E c \in Conn : bt_io_set(c, list)
    \/ \E c \in Conn :
           \/ \E k \in GetOpts : bt_io_get(c, k)
           \/ bt_io_accept(c)
           \/ connect_cb(c) \/ accept_cb(c) \/ server_cb(c) \/ server_cb_end(c)
           \/ \E b \in BOOLEAN : Settle(c, b) \/ HangUp(c, b)
           \/ Shutdown(c) \/ Unref(c)

Spec == Init /\ [][Next]_vars

-----------------------------------------------------------------------------
(* Properties *)

\* No socket outlives the calls that know of it: whatever step of
\* bt_io_connect, bt_io_listen or bt_io_accept fails, and however the client's
\* close and unref and the end of the watch are ordered, an open socket is that
\* of a channel which the client or a watch holds, under its own number.
\* The client's destroy function is called at most once for a watch, and not
\* while it is on.
NoOrphan ==
    /\ \A f \in Fd : owner[f] # None =>
           /\ owner[f] <= nc /\ chan[owner[f]].fd = f
           /\ chan[owner[f]].held \/ watch[owner[f]] # "none"
    /\ \A c \in Conn : gone[c] <= IF watch[c] = "none" THEN 1 ELSE 0

OptValues(o) ==
    {<<"SEC_LEVEL", o.sec>>, <<"MASTER", o.master>>, <<"IMTU", o.imtu>>,
     <<"OMTU", o.omtu>>, <<"MODE", o.mode>>, <<"FLUSHABLE", o.flushable>>,
     <<"PRIORITY", o.priority>>, <<"MTU", o.mtu>>}

\* The options of the last call that a socket of its kind has, addresses aside.
Asked(o, type) == {p \in OptValues(o) : p[1] \in o.given \cap Gets(type)}

\* The options that the code drops without a word.  The value 0 of all but the
\* gbooleans, BT_IO_SEC_SDP and BT_IO_MODE_BASIC among them, is taken for an
\* option that was not given (btio.c:613, 655, 682, 687); l2cap_set has no way to
\* set the outgoing MTU of an LE socket; a SCO socket has one MTU, the first that
\* was named; and on a kernel without BT_SECURITY l2cap_set writes the flag of
\* the master role first and then all flags again for the security level
\* (rfcomm_set does it the other way round).
Dropped(o, type) ==
    {p[1] : p \in {q \in OptValues(o) : q[2] = 0 /\ q[1] \notin {"MASTER", "FLUSHABLE"}}}
    \cup (IF type = "L2CAP" /\ o.le THEN {"OMTU"} ELSE {})
    \cup (IF type = "L2CAP" /\ OldKernel /\ o.sec # 0 THEN {"MASTER"} ELSE {})
    \cup (IF type = "SCO" /\ o.imtu # o.mtu THEN {"IMTU"} ELSE {})
    \cup (IF type = "SCO" /\ o.omtu # o.mtu THEN {"OMTU"} ELSE {})

\* A call that returns success has put in force every option it named that its
\* kind of socket has, in whatever order and combination, so that bt_io_get reads
\* it back, but for what is dropped; and one that fails has set the GError, but
\* for MTU or mode of an LE socket without an incoming MTU (btio.c:660) and for
\* the key size.
AsAsked ==
    LET s == sock[call.conn] IN
    /\ call.ok /\ call.conn # None =>
           \A p \in Asked(call.asked, s.type) :
               \/ p[1] \in Dropped(call.asked, s.type)
               \/ Value(s, p[1]) = p[2]
    /\ ~call.ok /\ ~call.said =>
           \/ call.get = "KEY_SIZE"
           \/ call.asked.le /\ call.asked.imtu = 0

\* The client's connect function is called at most once for an attempt, with
\* the fate of its own socket, success only if that was once up, and not at all
\* if the client closed the channel before; unless the number of a closed
\* channel was given to a new socket while the watch on it was still there,
\* which check_nval cannot see.
ToldOwnFate ==
    ~reused =>
        \A c \in Conn : told[c] # <<>> =>
            /\ Len(told[c]) = 1 /\ told[c][1].of = c
            /\ IF told[c][1].ok THEN told[c][1].link \in {"up", "hup"}
               ELSE told[c][1].link \in {"failed", "hup"}
=============================================================================
