------------------------------ MODULE GAttrib ------------------------------
(* The GAttrib of attrib/gattrib.c: the records of callbacks it keeps for   *)
(* the requests and the handlers it has given to the bearer, the pairs that *)
(* translate the ids of its clients, and its end; with the walk of the      *)
(* bearer over the registered handlers (handle_notify of shared/att.c).     *)
(*                                                                          *)
(* What is hard here is that the client's functions run in the middle of    *)
(* all this, and may call it again.  The stack of calls is modelled: the    *)
(* client runs when the stack is empty or a function of its is on top.      *)
(* Memory is modelled where it may be used after it was freed: then uaf is  *)
(* set and the behaviour stops, for nothing is known of what follows.       *)
EXTENDS Integers, Sequences, FiniteSets, SequencesExt

CONSTANTS
    MaxCb,      \* bound: callback records made in a behaviour
    MaxRef,     \* bound: references held at a time
    MaxDepth    \* bound: calls on the stack

ASSUME BoundAssumption == MaxCb \in Nat /\ MaxRef \in Nat \ {0} /\ MaxDepth \in Nat

CbId == 1..MaxCb      \* struct attrib_callbacks, in order of creation
Addr == 1..MaxCb      \* addresses of id_pairs; malloc may use one again
Null == 0

VARIABLES
    refs,      \* ref_count; the GAttrib exists while it is not 0
    att,       \* its bt_att exists
    chan,      \* the bearer has a channel
    cbs,       \* attrib->callbacks, whose order is of no account
    track,     \* attrib->track_ids, by the records whose pairs they are
    pair,      \* the id_pair of a record and its address, which is cb->id
    ops,       \* bearer: requests with handlers it finds, as [id, cb]
    flush,     \* bearer: requests it is ending for a disconnection
    notes,     \* bearer: notify_list, the records of the handlers
    ncb,       \* number of callback records made
    nextId,    \* bearer: next_send_id
    stack,     \* the calls under way, the innermost last
    dtor,      \* history: how often the record was destroyed
    uaf,       \* history: memory was used that had been freed
    strays,    \* history: requests whose pair another call may free
    lastInside,\* history: the last reference went while a call was under way
    pulled,    \* history: a handler took away the next one of the walk
    reentered  \* history: a cancel inside a destroy function of cancel_all

queues  == <<cbs, track, pair>>
bearer  == <<att, chan, ops, flush, notes, nextId>>
history == <<dtor, strays, lastInside, pulled, reentered>>
vars == <<refs, queues, bearer, ncb, stack, uaf, history>>

alive == refs > 0

\* result: the callback of request cb, which the bearer still lists if held.
\* destroy: the destroy function of cb, whose request the bearer still has on
\* the air if next = cb.  notify: the handler of cb.
\* walk: handle_notify, with the entry it will look at next.
\* all: g_attrib_cancel_all, with the entry queue_foreach looks at next.
\* disconnect: disconnect_cb of the bearer.
Frame(k, cb, held, next) == [k |-> k, cb |-> cb, held |-> held, next |-> next]

Top == stack[Len(stack)]
Pop == SubSeq(stack, 1, Len(stack) - 1)
Push(f) == Append(stack, f)
In(k) == stack # <<>> /\ Top.k = k
OnStack(k) == \E i \in 1..Len(stack) : stack[i].k = k

\* The client's code runs and may use the GAttrib.
ClientRuns ==
    /\ ~uaf /\ alive
    /\ stack # <<>> => Top.k \in {"result", "destroy", "notify"}

\* The event loop may call a handler of the bearer.
LoopRuns == ~uaf /\ alive /\ chan /\ stack = <<>>

Room == Len(stack) < MaxDepth

\* The element of s that follows x.
NextOf(s, x) ==
    LET later == {i \in 2..Len(s) : s[i - 1] = x} IN
    IF later = {} THEN Null ELSE s[CHOOSE i \in later : TRUE]

\* queue_remove: the first element of s that is in S goes.
Without(s, S) == RemoveFirstMatch(s, LAMBDA x : x \in S)

-----------------------------------------------------------------------------
(* Requests *)

\* Mutant of StoreId: a request with an id of the client's is not tracked.
StoreIdNew(cb, given, pend) ==
    \E a \in Addr \ {pair[c].addr : c \in ToSet(track)} :
        /\ track' = IF given = 0 THEN Append(track, cb) ELSE track
        /\ pair' = [pair EXCEPT ![cb] = [org  |-> IF given = 0 THEN pend ELSE given,
                                         pend |-> pend, addr |-> a]]
        /\ UNCHANGED strays

\* A record that exists has address a in cb->id.
Named(a) ==
    \E c \in CbId : /\ pair[c].addr = a
                   /\ \/ dtor[c] = 0
                      \/ \E i \in 1..Len(stack) : stack[i].cb = c

\* store_id: the pair may get any address that is not in use, also one that a
\* record still names though its pair was freed.
StoreId(cb, given, pend) ==
    \E a \in Addr \ {pair[c].addr : c \in ToSet(track)} :
        /\ track' = Append(track, cb)
        /\ pair' = [pair EXCEPT ![cb] = [org  |-> IF given = 0 THEN pend ELSE given,
                                         pend |-> pend, addr |-> a]]
        /\ strays' = IF OnStack("all") \/ Named(a) THEN strays \cup {cb} ELSE strays

\* g_attrib_send with a callback, under an id of its own or a given one.  The
\* record is kept even if the bearer takes no request.
Send(given) ==
    LET cb == ncb + 1
        id == IF chan THEN nextId ELSE 0
    IN
    /\ ClientRuns
    /\ ncb < MaxCb
    /\ ncb' = cb
    /\ cbs' = cbs \cup {cb}
    /\ ops' = IF chan THEN Append(ops, [id |-> id, cb |-> cb]) ELSE ops
    /\ nextId' = IF chan THEN nextId + 1 ELSE nextId
    /\ StoreId(cb, given, id)
    /\ UNCHANGED <<refs, att, chan, flush, notes, stack, uaf, dtor, lastInside,
                   pulled, reentered>>

\* The destroy function of cb runs; its record is freed when it has returned.
Destroying(cb) == \E i \in 1..Len(stack) : stack[i].k = "destroy" /\ stack[i].cb = cb
Freed(cb) == dtor[cb] > 0 /\ ~Destroying(cb)

\* Mutant of RemoveCb: it is not asked whether the record was in the queue.
RemoveCbAgain(cb, rest, held, next) ==
    IF Freed(cb)
    THEN uaf' = TRUE /\ UNCHANGED <<cbs, dtor, stack>>
    ELSE /\ cbs' = cbs \ {cb}
         /\ dtor' = [dtor EXCEPT ![cb] = @ + 1]
         /\ stack' = Append(rest, Frame("destroy", cb, held, next))
         /\ UNCHANGED uaf

\* attrib_callbacks_remove, and attrib_callbacks_destroy up to the client's
\* destroy function, rest being the stack it is called on.  Nothing is done if
\* the record has left the queue, but it must still be there to be looked at.
RemoveCb(cb, rest, held, next) ==
    IF Freed(cb)
    THEN uaf' = TRUE /\ UNCHANGED <<cbs, dtor, stack>>
    ELSE /\ IF cb \in cbs
            THEN /\ cbs' = cbs \ {cb}
                 /\ dtor' = [dtor EXCEPT ![cb] = @ + 1]
                 /\ stack' = Append(rest, Frame("destroy", cb, held, next))
            ELSE stack' = rest /\ UNCHANGED <<cbs, dtor>>
         /\ UNCHANGED uaf

\* bt_att_cancel of the request pend, on the stack rest.  A request leaves its
\* queue before its destroy function is called, but the one on the air (the
\* oldest, if it was sent) stays where it is.
BtAttCancel(pend, rest) ==
    \/ /\ \A i \in 1..Len(ops) : ops[i].id # pend
       /\ stack' = rest
       /\ UNCHANGED <<ops, cbs, dtor, uaf>>
    \/ \E i \in 1..Len(ops) :
           /\ ops[i].id = pend /\ ~Destroying(ops[i].cb)
           /\ ops' = RemoveAt(ops, i)
           /\ RemoveCb(ops[i].cb, rest, FALSE, Null)
    \/ /\ ops # <<>> /\ ops[1].id = pend
       /\ RemoveCb(ops[1].cb, rest, FALSE, ops[1].cb)
       /\ UNCHANGED ops

InAll == reentered' = (reentered \/ (OnStack("all") /\ OnStack("destroy")))

\* g_attrib_cancel: the first pair with this id goes, and its request.
Cancel(org) ==
    /\ ClientRuns /\ Room
    /\ \E i \in 1..Len(track) :
           /\ pair[track[i]].org = org
           /\ \A j \in 1..(i - 1) : pair[track[j]].org # org
           /\ track' = RemoveAt(track, i)
           /\ BtAttCancel(pair[track[i]].pend, stack)
    /\ InAll
    /\ UNCHANGED <<refs, pair, att, chan, flush, notes, ncb, nextId, strays,
                   lastInside, pulled>>

\* g_attrib_cancel_all: queue_foreach over the pairs begins ...
CancelAll ==
    /\ ClientRuns /\ Room
    /\ track # <<>>
    /\ stack' = Push(Frame("all", Null, FALSE, Head(track)))
    /\ InAll
    /\ UNCHANGED <<refs, queues, bearer, ncb, uaf, dtor, strays, lastInside,
                   pulled>>

\* ... cancels the request of one pair, having looked up the next ...
CancelAllNext ==
    /\ ~uaf /\ In("all")
    /\ alive /\ Top.next # Null /\ track # <<>>
    /\ IF Top.next \in ToSet(track)
       THEN BtAttCancel(pair[Top.next].pend,
                Append(Pop, Frame("all", Null, FALSE, NextOf(track, Top.next))))
       ELSE uaf' = TRUE /\ UNCHANGED <<stack, ops, cbs, dtor>>
    /\ UNCHANGED <<refs, track, pair, att, chan, flush, notes, ncb, nextId,
                   strays, lastInside, pulled, reentered>>

\* ... and frees the pairs that are left.
CancelAllEnd ==
    /\ ~uaf /\ In("all")
    /\ ~alive \/ Top.next = Null \/ track = <<>>
    /\ uaf' = ~alive
    /\ track' = <<>>
    /\ stack' = Pop
    /\ UNCHANGED <<refs, cbs, pair, bearer, ncb, history>>

\* The bearer calls attrib_callback_result for the oldest request: with the
\* response (handle_rsp: it stays listed meanwhile), or with an error after a
\* timeout (timeout_cb: it does not).
Result(held) ==
    /\ LoopRuns /\ ops # <<>>
    /\ stack' = Push(Frame("result", Head(ops).cb, held, Null))
    /\ ops' = IF held THEN ops ELSE Tail(ops)
    /\ UNCHANGED <<refs, queues, att, chan, flush, notes, nextId, ncb, uaf,
                   history>>

\* The callback returns: the request goes with its record, unless it was
\* cancelled from inside the callback.  handle_rsp forgets the request only
\* after its destroy function.
ReturnResult ==
    LET cb == Top.cb
        attached == Top.held => \E i \in 1..Len(ops) : ops[i].cb = cb
    IN
    /\ ~uaf /\ In("result")
    /\ IF attached
       THEN RemoveCb(cb, Pop, Top.held, IF Top.held THEN cb ELSE Null)
       ELSE stack' = Pop /\ UNCHANGED <<cbs, dtor, uaf>>
    /\ UNCHANGED <<refs, track, pair, att, chan, ops, flush, notes, ncb, nextId,
                   strays, lastInside, pulled, reentered>>

\* The rest of attrib_callbacks_destroy: the pair, which is looked up by its
\* address in the queue of the parent, goes too; and the bearer is done with
\* the request.
ReturnDestroy ==
    /\ ~uaf /\ In("destroy")
    /\ uaf' = ~alive
    /\ track' = Without(track, {c \in CbId : pair[c].addr = pair[Top.cb].addr})
    /\ ops' = Without(ops, {o \in ToSet(ops) : o.cb = Top.next})
    /\ stack' = Pop
    /\ UNCHANGED <<refs, cbs, pair, att, chan, flush, notes, nextId, ncb, history>>

-----------------------------------------------------------------------------
(* Handlers of notifications.  The client gives no destroy function here. *)

\* The handler whose entry the walk looks at next is gone.
NextGone(ns) ==
    \E i \in 1..Len(stack) : /\ stack[i].k = "walk" /\ stack[i].next # Null
                             /\ stack[i].next \notin ToSet(ns)

\* g_attrib_register and bt_att_register
Register ==
    LET cb == ncb + 1 IN
    /\ ClientRuns
    /\ ncb < MaxCb
    /\ ncb' = cb
    /\ cbs' = cbs \cup {cb}
    /\ notes' = IF chan THEN Append(notes, cb) ELSE notes
    /\ pulled' = (pulled \/ NextGone(notes'))
    /\ UNCHANGED <<refs, track, pair, att, chan, ops, flush, nextId, stack, uaf,
                   dtor, strays, lastInside, reentered>>

\* The records of the handlers S go.
Drop(S) ==
    /\ cbs' = cbs \ S
    /\ dtor' = [c \in CbId |-> dtor[c] + (IF c \in S THEN 1 ELSE 0)]

\* g_attrib_unregister and bt_att_unregister
Unregister(cb) ==
    /\ ClientRuns
    /\ cb \in ToSet(notes)
    /\ notes' = Without(notes, {cb})
    /\ Drop({cb})
    /\ pulled' = (pulled \/ (notes' # <<>> /\ NextGone(notes')))
    /\ UNCHANGED <<refs, track, pair, att, chan, ops, flush, ncb, nextId, stack,
                   uaf, strays, lastInside, reentered>>

\* g_attrib_unregister_all and bt_att_unregister_all
UnregisterAll ==
    /\ ClientRuns
    /\ notes # <<>>
    /\ notes' = <<>>
    /\ Drop(ToSet(notes))
    /\ UNCHANGED <<refs, track, pair, att, chan, ops, flush, ncb, nextId, stack,
                   uaf, strays, lastInside, pulled, reentered>>

\* handle_notify begins ...
Notify ==
    /\ LoopRuns /\ notes # <<>>
    /\ stack' = Push(Frame("walk", Null, FALSE, Head(notes)))
    /\ UNCHANGED <<refs, queues, bearer, ncb, uaf, history>>

\* ... takes an entry and looks up the next, and calls the handler, if the PDU
\* is one it is registered for ...
WalkNext(match) ==
    /\ ~uaf /\ In("walk") /\ Top.next # Null
    /\ IF \/ Top.next \notin ToSet(notes)
          \/ match /\ dtor[Top.next] > 0
       THEN uaf' = TRUE /\ UNCHANGED stack
       ELSE /\ stack' = Append(Pop, Frame("walk", Null, FALSE,
                                          NextOf(notes, Top.next)))
                        \o (IF match
                            THEN <<Frame("notify", Top.next, FALSE, Null)>>
                            ELSE <<>>)
            /\ UNCHANGED uaf
    /\ UNCHANGED <<refs, queues, bearer, ncb, history>>

\* Mutant of WalkGoesOn: an emptied list is not noticed.
WalkGoesOnBlindly == TRUE

\* "callback could remove all entries from notify list"
WalkGoesOn == notes # <<>>

\* ... which returns ...
ReturnNotify ==
    /\ ~uaf /\ In("notify")
    /\ stack' = IF WalkGoesOn THEN Pop ELSE SubSeq(stack, 1, Len(stack) - 2)
    /\ UNCHANGED <<refs, queues, bearer, ncb, uaf, history>>

\* ... until the list ends.
WalkEnd ==
    /\ ~uaf /\ In("walk") /\ Top.next = Null
    /\ stack' = Pop
    /\ UNCHANGED <<refs, queues, bearer, ncb, uaf, history>>

-----------------------------------------------------------------------------
(* The end of the connection and of the GAttrib *)

\* disconnect_cb: every request comes off the lists of the bearer, the one on
\* the air, if the oldest was sent, after those in the queue ...
Disconnect ==
    /\ LoopRuns
    /\ chan' = FALSE
    /\ flush' \in {ops, IF ops = <<>> THEN <<>> ELSE Append(Tail(ops), Head(ops))}
    /\ ops' = <<>>
    /\ stack' = Push(Frame("disconnect", Null, FALSE, Null))
    /\ UNCHANGED <<refs, queues, att, notes, nextId, ncb, uaf, history>>

\* ... its callback is called ...
DisconnectNext ==
    /\ ~uaf /\ In("disconnect") /\ flush # <<>>
    /\ IF dtor[Head(flush).cb] > 0
       THEN uaf' = TRUE /\ UNCHANGED <<stack, flush>>
       ELSE /\ stack' = Push(Frame("result", Head(flush).cb, FALSE, Null))
            /\ flush' = Tail(flush)
            /\ UNCHANGED uaf
    /\ UNCHANGED <<refs, queues, att, chan, ops, notes, nextId, ncb, history>>

\* ... and then the handlers go.
DisconnectEnd ==
    /\ ~uaf /\ In("disconnect") /\ flush = <<>>
    /\ stack' = Pop
    /\ IF att
       THEN notes' = <<>> /\ Drop(ToSet(notes)) /\ UNCHANGED uaf
       ELSE uaf' = TRUE /\ UNCHANGED <<notes, cbs, dtor>>
    /\ UNCHANGED <<refs, track, pair, att, chan, ops, flush, nextId, ncb,
                   strays, lastInside, pulled, reentered>>

\* g_attrib_ref
Ref ==
    /\ ClientRuns
    /\ refs < MaxRef
    /\ refs' = refs + 1
    /\ UNCHANGED <<queues, bearer, ncb, stack, uaf, history>>

\* can_read_data and handle_notify hold a reference to the bearer.
BearerHeld == \E i \in 1..Len(stack) : stack[i].k = "walk" \/ stack[i].held

\* g_attrib_unref.  With the last reference all records are destroyed, by
\* bt_att_unref if this frees the bearer, or by queue_destroy.
Unref ==
    /\ ClientRuns
    /\ refs' = refs - 1
    /\ IF refs > 1
       THEN UNCHANGED <<queues, bearer, history>>
       ELSE /\ lastInside' = (stack # <<>>)
            /\ dtor' = [c \in CbId |-> dtor[c] + (IF c \in cbs THEN 1 ELSE 0)]
            /\ cbs' = {} /\ track' = <<>>
            /\ IF BearerHeld
               THEN UNCHANGED <<att, chan, ops, notes>>
               ELSE att' = FALSE /\ chan' = FALSE /\ ops' = <<>> /\ notes' = <<>>
            /\ UNCHANGED <<pair, flush, nextId, strays, pulled, reentered>>
    /\ UNCHANGED <<ncb, stack, uaf>>

\* The handler gives the bearer's last reference back: bt_att_unref calls the
\* destroy functions of what is left, whose records are gone.
HandlerEnd ==
    /\ ~uaf /\ stack = <<>> /\ ~alive /\ att
    /\ uaf' = (ops # <<>> \/ notes # <<>>)
    /\ att' = FALSE /\ chan' = FALSE /\ ops' = <<>> /\ notes' = <<>>
    /\ UNCHANGED <<refs, queues, flush, nextId, ncb, stack, history>>

-----------------------------------------------------------------------------
Init ==
    /\ refs = 1 /\ att = TRUE /\ chan = TRUE
    /\ cbs = {} /\ track = <<>>
    /\ pair = [c \in CbId |-> [org |-> 0, pend |-> 0, addr |-> Null]]
    /\ ops = <<>> /\ flush = <<>> /\ notes = <<>>
    /\ ncb = 0 /\ nextId = 1
    /\ stack = <<>>
    /\ dtor = [c \in CbId |-> 0]
    /\ uaf = FALSE /\ strays = {}
    /\ lastInside = FALSE /\ pulled = FALSE /\ reentered = FALSE

\* Ids a client may know: those of the bearer, and 0 for a request of its own.
Ids == 0..MaxCb

Next ==
    \/ \E id \in Ids : Send(id) \/ Cancel(id)
    \/ CancelAll \/ CancelAllNext \/ CancelAllEnd
    \/ \E held \in BOOLEAN : Result(held)
    \/ ReturnResult \/ ReturnDestroy
    \/ Register \/ UnregisterAll
    \/ \E cb \in CbId : Unregister(cb)
    \/ Notify \/ WalkEnd \/ ReturnNotify
    \/ \E match \in BOOLEAN : WalkNext(match)
    \/ Disconnect \/ DisconnectNext \/ DisconnectEnd
    \/ Ref \/ Unref \/ HandlerEnd

Spec == Init /\ [][Next]_vars

-----------------------------------------------------------------------------
(* Properties *)

\* No memory is used after it was freed, unless a client's function, run from
\* inside the GAttrib or the bearer, gave the last reference back, took the
\* next handler away from a walk (att.c:935), or cancelled from a destroy
\* function that g_attrib_cancel_all had called.  So only these three things
\* are forbidden to the clients of this code: an id cancelled in its own
\* callback, requests and handlers added anywhere, all handlers removed by one
\* of them, and a disconnection in the middle are safe.
FreedUntouched == uaf => lastInside \/ pulled \/ reentered

\* A request that the bearer could still cancel has its pair in track_ids, so
\* that g_attrib_cancel finds it ("it has to be on the tracking id queue"),
\* whatever callbacks, timeouts and cancels of other requests do, but for the
\* strays: a request sent while g_attrib_cancel_all is under way, which frees
\* all pairs at its end, and one whose pair got the address of a freed pair
\* that another record still names (cb->id is looked up by address).
Cancellable ==
    \A i \in 1..Len(ops) :
        alive /\ dtor[ops[i].cb] = 0 /\ ops[i].cb \notin strays
            => ops[i].cb \in ToSet(track)

\* A record is destroyed at most once, and exactly once by the time the
\* GAttrib and its bearer are gone, whichever of the bearer, a cancel or
\* g_attrib_unref came to it first.
DestroyOnce ==
    \A c \in 1..ncb :
        /\ dtor[c] <= 1
        /\ ~att /\ stack = <<>> /\ ~uaf => dtor[c] = 1
=============================================================================
