------------------------------ MODULE GattProcs ------------------------------
(* The GATT procedures of attrib/gatt.c that read and write a value, plain, *)
(* long and reliable, and the search for included services.  Several of     *)
(* them share one bearer, so their requests wait in one queue and a server  *)
(* answers them one by one; a procedure goes on in the callback of its      *)
(* request.  The bearer is BtAtt on one channel: it keeps the order of the  *)
(* requests and ends each of them, with an error once the link is lost.     *)
(*                                                                          *)
(* Lengths are scaled down: an MTU of 7 leaves room for 6 bytes of a value  *)
(* that is read, 4 that are written and 2 that are prepared.                *)
EXTENDS Integers, Sequences, FiniteSets, FiniteSetsExt, SequencesExt

CONSTANTS
    Readers, Writers, Finders,   \* procedures the client may start
    Pairs,       \* the sets of procedures that run together
    Mtu,         \* MTU of the bearer at first
    ServerMtu,   \* what Exchange MTU makes of it
    ValueLen,    \* length of the server's value at first
    WriteLens,   \* lengths of the values the client writes
    Decls,       \* the server's include declarations: handle -> 6 or 8
    EndHandle,   \* the search ends there
    MaxList      \* most entries in a response of the server

ASSUME MtuAssumption == Mtu \in Nat /\ ServerMtu \in Nat /\ Mtu > 5 /\ ServerMtu >= Mtu
ASSUME DeclAssumption ==
    /\ DOMAIN Decls \subseteq 1..EndHandle
    /\ \A h \in DOMAIN Decls : Decls[h] \in {6, 8}
    /\ EndHandle \in Nat /\ MaxList \in Nat \ {0}

ASSUME ProcAssumption ==
    /\ Readers \cap Writers = {} /\ Readers \cap Finders = {}
    /\ Writers \cap Finders = {}
    /\ {"client", "server"} \cap (Readers \cup Writers \cup Finders) = {}
ASSUME LengthAssumption == ValueLen \in Nat /\ WriteLens \subseteq Nat

Procs == Readers \cup Writers \cup Finders

VARIABLES
    cast,      \* the procedures of this behaviour
    up,        \* the link is up
    mtu,       \* bt_att_get_mtu
    reqs,      \* requests the bearer has not answered yet
    cmds,      \* write commands on their way
    value,     \* server: the value
    prep,      \* server: its queue of prepared writes
    st,        \* how far a procedure has come, see ProcState
    got,       \* long_read->buffer without the opcode
    data,      \* long_write->value
    offset,    \* long_write->offset
    start,     \* isd->start_handle
    err,       \* isd->err # 0
    includes,  \* isd->includes
    seen,      \* history: the value when the read began
    touched,   \* history: reads during which the value changed
    hit,       \* history: reads that met an error before the end
    mixed      \* history: writes that ran while another one did

client  == <<mtu, got, data, offset, start, err, includes>>
server  == <<value, prep>>
history == <<seen, touched, hit, mixed>>
vars == <<cast, up, reqs, cmds, st, client, server, history>>

\* failed: the server refused a request.  lost: the link was lost.
\* prepared: a reliable write waits for the client to execute it.
ProcState == {"new", "run", "prepared", "sent", "ok", "failed", "lost"}

Request(p, op, arg, part) == [p |-> p, op |-> op, arg |-> arg, part |-> part]

Least(m, n) == IF m < n THEN m ELSE n

\* The bytes of v from offset o on, n of them at most.
Slice(v, o, n) == SubSeq(v, o + 1, Least(o + n, Len(v)))

\* The server's value v after the prepared writes of q: every byte comes from
\* the last one that covers it.
Apply(q, v) ==
    LET Over(i) == {j \in 1..Len(q) : q[j].off < i /\ i <= q[j].off + Len(q[j].part)}
        n == Max({Len(v)} \cup {q[j].off + Len(q[j].part) : j \in 1..Len(q)})
    IN [i \in 1..n |-> IF Over(i) = {} THEN v[i]
                       ELSE q[Max(Over(i))].part[i - q[Max(Over(i))].off]]

\* No prepared write begins past the end of the value and of the others: the
\* server refuses to execute such a one (Invalid Offset).
Whole(q, v) ==
    \A j \in 1..Len(q) : \A i \in (Len(v) + 1)..q[j].off :
        \E k \in 1..Len(q) : q[k].off < i /\ i <= q[k].off + Len(q[k].part)

Running(p) == st[p] \in {"run", "prepared"}

\* Every read that runs while the value changes.
Touch(v) == touched' = IF v = value THEN touched
                       ELSE touched \cup {r \in Readers : Running(r)}

-----------------------------------------------------------------------------
(* The client starts a procedure *)

Starts(p) == up /\ p \in cast /\ st[p] = "new"

\* gatt_read_char
ReadChar(r) ==
    /\ Starts(r)
    /\ st' = [st EXCEPT ![r] = "run"]
    /\ reqs' = Append(reqs, Request(r, "read", 0, <<>>))
    /\ seen' = [seen EXCEPT ![r] = value]
    /\ UNCHANGED <<cast, up, cmds, client, server, touched, hit, mixed>>

\* Mutant of PrepareRequest: the part is taken from the start of the value.
PrepareRequestFirst(w, d, o, m) ==
    Request(w, "prep", o, Slice(d, 0, Least(m - 5, Len(d) - o)))

\* prepare_write: as much of the rest as fits, 5 bytes being the header.
PrepareRequest(w, d, o, m) == Request(w, "prep", o, Slice(d, o, m - 5))

\* Writes that overlap may mix their parts in the server's queue.
StartWrite(w, d) ==
    LET others == {x \in Writers \ {w} : Running(x)} IN
    /\ data' = [data EXCEPT ![w] = d]
    /\ mixed' = IF others = {} THEN mixed ELSE mixed \cup others \cup {w}

Bytes(w, n) == [i \in 1..n |-> <<w, i>>]

\* gatt_write_char: a value that fits goes in one request.
WriteChar(w, n) ==
    /\ Starts(w)
    /\ StartWrite(w, Bytes(w, n))
    /\ st' = [st EXCEPT ![w] = "run"]
    /\ reqs' = Append(reqs, IF n <= mtu - 3
                            THEN Request(w, "write", 0, Bytes(w, n))
                            ELSE PrepareRequest(w, Bytes(w, n), 0, mtu))
    /\ UNCHANGED <<cast, up, cmds, mtu, got, offset, start, err, includes,
                   server, seen, touched, hit>>

\* gatt_reliable_write_char: one prepared write, which the client executes
\* itself.  What does not fit is cut off.
ReliableWriteChar(w, n) ==
    /\ Starts(w)
    /\ StartWrite(w, Slice(Bytes(w, n), 0, mtu - 5))
    /\ st' = [st EXCEPT ![w] = "run"]
    /\ reqs' = Append(reqs, Request(w, "reliable", 0,
                                    Slice(Bytes(w, n), 0, mtu - 5)))
    /\ UNCHANGED <<cast, up, cmds, mtu, got, offset, start, err, includes,
                   server, seen, touched, hit>>

\* gatt_execute_write by the client, to apply or to drop what is prepared.
ExecuteWrite(w, op) ==
    /\ up /\ st[w] = "prepared"
    /\ st' = [st EXCEPT ![w] = "run"]
    /\ reqs' = Append(reqs, Request(w, op, 0, <<>>))
    /\ UNCHANGED <<cast, up, cmds, client, server, history>>

\* gatt_write_cmd and gatt_signed_write_cmd: no answer, and what does not fit
\* is cut off.
WriteCmd(w, n) ==
    /\ Starts(w)
    /\ cmds' = cmds \cup {w}
    /\ data' = [data EXCEPT ![w] = Slice(Bytes(w, n), 0, mtu - 3)]
    /\ st' = [st EXCEPT ![w] = "sent"]
    /\ UNCHANGED <<cast, up, reqs, mtu, got, offset, start, err, includes,
                   server, history>>

\* gatt_find_included
FindIncluded(f) ==
    /\ Starts(f)
    /\ st' = [st EXCEPT ![f] = "run"]
    /\ reqs' = Append(reqs, Request(f, "include", 1, <<>>))
    /\ UNCHANGED <<cast, up, cmds, client, server, history>>

\* gatt_exchange_mtu, once.
ExchangeMtu ==
    /\ up /\ mtu # ServerMtu
    /\ \A i \in 1..Len(reqs) : reqs[i].op # "mtu"
    /\ reqs' = Append(reqs, Request("client", "mtu", 0, <<>>))
    /\ UNCHANGED <<cast, up, cmds, st, client, server, history>>

-----------------------------------------------------------------------------
(* The server carries out the first request, or not *)

\* What the server makes of its value and of its queue of prepared writes.
Served(q) ==
    CASE q.op = "write"   -> [value |-> q.part, prep |-> prep]
      [] q.op \in {"prep", "reliable"} ->
             [value |-> value,
              prep |-> Append(prep, [off |-> q.arg, part |-> q.part])]
      [] q.op = "execute" ->
             [value |-> IF Whole(prep, value) THEN Apply(prep, value) ELSE value,
              prep |-> <<>>]
      [] q.op = "cancel"  -> [value |-> value, prep |-> <<>>]
      [] OTHER            -> [value |-> value, prep |-> prep]

\* An execute that fails applies nothing.
Refused(q) ==
    [value |-> value, prep |-> IF q.op \in {"execute", "cancel"} THEN <<>> ELSE prep]

\* The request at the head is of kind op and is answered: carried out if r is
\* "ok", refused if it is "error", flushed by the bearer if the link is lost.
Answer(op, r) ==
    /\ reqs # <<>> /\ Head(reqs).op = op
    /\ r = "ok" => up /\ (op = "execute" => Whole(prep, value))
    /\ LET s == IF ~up THEN [value |-> value, prep |-> prep]
                ELSE IF r = "ok" THEN Served(Head(reqs)) ELSE Refused(Head(reqs))
       IN value' = s.value /\ prep' = s.prep /\ Touch(s.value)
    /\ UNCHANGED <<cast, up>>

\* The state of a procedure that ends in an error.
Failure == IF up THEN "failed" ELSE "lost"

-----------------------------------------------------------------------------
(* Reading *)

\* Mutant of IsFull: a full buffer is taken for the end.
IsFullOver(n) == n + 1 > mtu

\* A response of n value bytes fills the buffer (rlen = buflen), so there may
\* be more.
IsFull(n) == n + 1 >= mtu

\* read_char_helper
ReadCharHelper(r, res) ==
    LET v == Slice(value, 0, mtu - 1)
        more == res = "ok" /\ IsFull(Len(v))
    IN
    /\ Answer("read", res) /\ Head(reqs).p = r
    /\ got' = IF res = "ok" THEN [got EXCEPT ![r] = v] ELSE got
    /\ reqs' = IF more
               THEN Append(Tail(reqs), Request(r, "blob", Len(v), <<>>))
               ELSE Tail(reqs)
    /\ st' = [st EXCEPT ![r] = IF res # "ok" THEN Failure
                               ELSE IF more THEN "run" ELSE "ok"]
    /\ UNCHANGED <<cmds, mtu, data, offset, start, err, includes, seen, hit,
                   mixed>>

\* read_blob_helper: an error or an empty response ends the read, with what
\* it has and as a success.  The server refuses an offset past the end.
ReadBlobHelper(r, res) ==
    LET o == Head(reqs).arg
        v == IF res = "ok" THEN Slice(value, o, mtu - 1) ELSE <<>>
        more == v # <<>> /\ IsFull(Len(v))
    IN
    /\ Answer("blob", res) /\ Head(reqs).p = r
    /\ res = "ok" => o <= Len(value)
    /\ got' = [got EXCEPT ![r] = @ \o v]
    /\ reqs' = IF more
               THEN Append(Tail(reqs), Request(r, "blob", o + Len(v), <<>>))
               ELSE Tail(reqs)
    /\ st' = [st EXCEPT ![r] = IF more THEN "run" ELSE "ok"]
    /\ hit' = IF res = "error" /\ o < Len(value) THEN hit \cup {r} ELSE hit
    /\ UNCHANGED <<cmds, mtu, data, offset, start, err, includes, seen, mixed>>

-----------------------------------------------------------------------------
(* Writing *)

\* The result of a Write Request goes to the client as it is.
WriteDone(w, res) ==
    /\ Answer("write", res) /\ Head(reqs).p = w
    /\ reqs' = Tail(reqs)
    /\ st' = [st EXCEPT ![w] = IF res = "ok" THEN "ok" ELSE Failure]
    /\ UNCHANGED <<cmds, client, seen, hit, mixed>>

\* prepare_write_cb: the next part, or the execution after the last one.  After
\* an error the client is told and no more: the server keeps what it holds.
PrepareWriteCb(w, res) ==
    LET o == offset[w] + Len(Head(reqs).part) IN
    /\ Answer("prep", res) /\ Head(reqs).p = w
    /\ offset' = IF res = "ok" THEN [offset EXCEPT ![w] = o] ELSE offset
    /\ reqs' = IF res # "ok" THEN Tail(reqs)
               ELSE Append(Tail(reqs),
                           IF o = Len(data[w])
                           THEN Request(w, "execute", 0, <<>>)
                           ELSE PrepareRequest(w, data[w], o, mtu))
    /\ st' = [st EXCEPT ![w] = IF res = "ok" THEN "run" ELSE Failure]
    /\ UNCHANGED <<cmds, mtu, got, data, start, err, includes, seen, hit, mixed>>

\* The response to a reliable write goes to the client as it is.
ReliableDone(w, res) ==
    /\ Answer("reliable", res) /\ Head(reqs).p = w
    /\ reqs' = Tail(reqs)
    /\ st' = [st EXCEPT ![w] = IF res = "ok" THEN "prepared" ELSE Failure]
    /\ UNCHANGED <<cmds, client, seen, hit, mixed>>

\* Mutant of ExecuteDone: the flags of gatt_execute_write are lost on the way,
\* and the server applies what it was to drop.
ExecuteDoneFlags(w, op, res) ==
    /\ op \in {"execute", "cancel"}
    /\ reqs # <<>> /\ Head(reqs).op = op /\ Head(reqs).p = w
    /\ res = "ok" => up /\ Whole(prep, value)
    /\ value' = IF up /\ res = "ok" THEN Apply(prep, value) ELSE value
    /\ prep' = IF up THEN <<>> ELSE prep
    /\ Touch(value')
    /\ reqs' = Tail(reqs)
    /\ st' = [st EXCEPT ![w] = IF ~up THEN "lost"
                               ELSE IF op = "execute" /\ res = "ok" THEN "ok"
                               ELSE "failed"]
    /\ UNCHANGED <<cast, up, cmds, client, seen, hit, mixed>>

\* So does that to Execute Write: "failed" also stands for a write the client
\* dropped itself.
ExecuteDone(w, op, res) ==
    /\ op \in {"execute", "cancel"}
    /\ Answer(op, res) /\ Head(reqs).p = w
    /\ reqs' = Tail(reqs)
    /\ st' = [st EXCEPT ![w] = IF ~up THEN "lost"
                               ELSE IF op = "execute" /\ res = "ok" THEN "ok"
                               ELSE "failed"]
    /\ UNCHANGED <<cmds, client, seen, hit, mixed>>

\* A write command arrives at the server.
TakeCmd(w) ==
    /\ w \in cmds
    /\ cmds' = cmds \ {w}
    /\ value' = data[w]
    /\ Touch(data[w])
    /\ UNCHANGED <<cast, up, reqs, prep, st, client, seen, hit, mixed>>

\* The response to Exchange MTU: both sides use the new one from now on.
MtuDone(res) ==
    /\ Answer("mtu", res)
    /\ reqs' = Tail(reqs)
    /\ mtu' = IF res = "ok" THEN ServerMtu ELSE mtu
    /\ UNCHANGED <<cmds, st, got, data, offset, start, err, includes, seen, hit,
                   mixed>>

-----------------------------------------------------------------------------
(* Included services *)

\* The declarations of the server from handle h on.
DeclsFrom(h) == {d \in DOMAIN Decls : d >= h}

\* What it may answer: some of them, in order and from the first on, with
\* entries of one length.
Lists(h) ==
    {s \in SeqOf(DeclsFrom(h), MaxList) :
        /\ s # <<>>
        /\ \A i \in 1..Len(s) : Decls[s[i]] = Decls[s[1]]
        /\ \A i, j \in 1..Len(s) : i < j => s[i] < s[j]
        /\ \A d \in DeclsFrom(h) : d <= s[Len(s)] => d \in ToSet(s)}

\* Mutant of MoreToFind: the last handle of the range is left out.
MoreToFindShort(last) == last + 1 < EndHandle

MoreToFind(last) == last < EndHandle

\* Mutant of EndFind: the last reference is never given back.
EndFindNever(f, more, e) ==
    /\ reqs' = Tail(reqs) \o more
    /\ err' = [err EXCEPT ![f] = @ \/ e]
    /\ UNCHANGED st

\* The callback of one of f's requests is over and its reference goes: with
\* the last one (isd_unref) the client is told.
EndFind(f, more, e) ==
    /\ reqs' = Tail(reqs) \o more
    /\ err' = [err EXCEPT ![f] = @ \/ e]
    /\ st' = IF \E i \in 2..Len(reqs) : reqs[i].p = f
             THEN st
             ELSE [st EXCEPT ![f] = IF more # <<>> THEN "run"
                                    ELSE IF err[f] \/ e THEN Failure ELSE "ok"]

\* find_included_cb with a list: an entry of 6 bytes has no UUID, which a Read
\* of the service declaration gets; then the next find.
FindIncludedCb(f, list) ==
    LET last == list[Len(list)]
        long == Decls[list[1]] = 6
        read == IF long THEN [i \in 1..Len(list) |->
                                 Request(f, "resolve", list[i], <<>>)]
                ELSE <<>>
        bad  == last < start[f]
        find == IF ~bad /\ MoreToFind(last)
                THEN <<Request(f, "include", last + 1, <<>>)>> ELSE <<>>
    IN
    /\ Answer("include", "ok") /\ Head(reqs).p = f
    /\ includes' = IF long THEN includes
                   ELSE [includes EXCEPT ![f] = @ \o list]
    /\ start' = IF bad THEN start ELSE [start EXCEPT ![f] = last + 1]
    /\ EndFind(f, read \o find, bad)
    /\ UNCHANGED <<cmds, mtu, got, data, offset, seen, hit, mixed>>

\* find_included_cb with a status, or with a list it cannot use: "Attribute
\* not found" is the end of the search, anything else an error.
FindIncludedEnd(f, res) ==
    /\ Answer("include", IF res = "not found" THEN "ok" ELSE "error")
    /\ Head(reqs).p = f
    /\ res = "not found" => DeclsFrom(Head(reqs).arg) = {}
    /\ EndFind(f, <<>>, res # "not found")
    /\ UNCHANGED <<cmds, mtu, got, data, offset, start, includes, seen, hit,
                   mixed>>

\* resolve_included_uuid_cb
ResolveIncludedCb(f, res) ==
    /\ Answer("resolve", res) /\ Head(reqs).p = f
    /\ includes' = IF res = "ok"
                   THEN [includes EXCEPT ![f] = Append(@, Head(reqs).arg)]
                   ELSE includes
    /\ EndFind(f, <<>>, res # "ok")
    /\ UNCHANGED <<cmds, mtu, got, data, offset, start, seen, hit, mixed>>

-----------------------------------------------------------------------------
(* The link *)

\* The link is lost, perhaps after the server has carried out the request it
\* was sent.  What was prepared is gone with it.
HangUp(done) ==
    /\ up
    /\ up' = FALSE
    /\ cmds' = {}
    /\ prep' = <<>>
    /\ value' = IF done /\ reqs # <<>> THEN Served(Head(reqs)).value ELSE value
    /\ Touch(value')
    /\ UNCHANGED <<cast, reqs, st, client, seen, hit, mixed>>

-----------------------------------------------------------------------------
(* Specification *)

Init ==
    /\ cast \in Pairs
    /\ up = TRUE /\ mtu = Mtu
    /\ reqs = <<>> /\ cmds = {}
    /\ value = Bytes("server", ValueLen) /\ prep = <<>>
    /\ st = [p \in Procs |-> "new"]
    /\ got = [r \in Readers |-> <<>>]
    /\ data = [w \in Writers |-> <<>>] /\ offset = [w \in Writers |-> 0]
    /\ start = [f \in Finders |-> 1] /\ err = [f \in Finders |-> FALSE]
    /\ includes = [f \in Finders |-> <<>>]
    /\ seen = [r \in Readers |-> <<>>]
    /\ touched = {} /\ hit = {} /\ mixed = {}

Client ==
    \/ \E r \in Readers : ReadChar(r)
    \/ \E w \in Writers, n \in WriteLens :
           WriteChar(w, n) \/ ReliableWriteChar(w, n) \/ WriteCmd(w, n)
    \/ \E w \in Writers, op \in {"execute", "cancel"} : ExecuteWrite(w, op)
    \/ \E f \in Finders : FindIncluded(f)
    \/ ExchangeMtu

\* The next answer, with the callback it is given to.
Callback ==
    \E res \in {"ok", "error"} :
        \/ \E r \in Readers : ReadCharHelper(r, res) \/ ReadBlobHelper(r, res)
        \/ \E w \in Writers : \/ WriteDone(w, res) \/ PrepareWriteCb(w, res)
                              \/ ReliableDone(w, res)
                              \/ \E op \in {"execute", "cancel"} :
                                     ExecuteDone(w, op, res)
        \/ \E f \in Finders : ResolveIncludedCb(f, res)
        \/ MtuDone(res)

FindCallback ==
    \E f \in Finders :
        \/ \E list \in IF reqs = <<>> THEN {} ELSE Lists(Head(reqs).arg) :
               FindIncludedCb(f, list)
        \/ \E h \in DOMAIN Decls : h < start[f] /\ FindIncludedCb(f, <<h>>)
        \/ \E res \in {"not found", "error"} : FindIncludedEnd(f, res)

Next ==
    \/ Client \/ Callback \/ FindCallback
    \/ \E w \in Writers : TakeCmd(w)
    \/ \E done \in BOOLEAN : HangUp(done)

Spec == Init /\ [][Next]_vars

\* The bearer ends every request it has taken (EveryOpEnds of BtAtt), and a
\* client that prepared a reliable write executes it or drops it.
FairSpec ==
    /\ Spec
    /\ WF_vars(Callback \/ FindCallback)
    /\ \A w \in Writers :
           WF_vars(\E op \in {"execute", "cancel"} : ExecuteWrite(w, op))

-----------------------------------------------------------------------------
(* Properties *)

\* A read that is reported as a success returns the server's value, whole,
\* however many blobs it took and even if the MTU changed on the way; and
\* what it returns is a prefix of it if a blob was refused or the link was
\* lost, for that is reported as a success too (read_blob_helper).  Only a
\* value that changed during the read may come out torn.
ReadExact ==
    \A r \in Readers : st[r] = "ok" /\ r \notin touched =>
        /\ IsPrefix(got[r], seen[r])
        /\ r \notin hit => got[r] = seen[r]

\* When a write is reported as a success the server's value begins with all
\* that was to be written: no part of a long write is lost, doubled or
\* misplaced.  (No other write was under way.)
WriteApplied ==
    [][\A w \in Writers :
          st[w] # "ok" /\ st'[w] = "ok" /\ w \notin mixed
              => IsPrefix(data[w], value')]_vars

\* A write that was reported as failed, or that the client dropped, does not
\* change the value, neither at once nor later: what gatt.c leaves of it in the
\* server's queue (prepare_write_cb only reports the error) stays prepared, and
\* is never executed until another write is, and then as a success of that
\* one.  (No other write was under way with it.)
RefusedStaysPrepared ==
    \A w \in Writers :
        st[w] = "failed" /\ up /\ w \notin mixed
            /\ (\A x \in Writers : x # w => st[x] # "ok")
        => \A i \in 1..Len(value) : value[i][1] # w

\* A search for included services that ends without an error has found every
\* declaration of the server once, with UUIDs that had to be read one by one
\* while the search went on.
IncludedComplete ==
    \A f \in Finders : st[f] = "ok" =>
        /\ ToSet(includes[f]) = DOMAIN Decls
        /\ Len(includes[f]) = Cardinality(DOMAIN Decls)

\* Every procedure that was started ends and tells its client.
ProcedureEnds == \A p \in Procs : st[p] = "run" ~> st[p] # "run"
=============================================================================
