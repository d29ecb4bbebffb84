---------------------------- MODULE GattDiscover ----------------------------
(* The discovery procedures of bluez/attrib/gatt.c: primary services (all,  *)
(* or by UUID), characteristics and descriptors.  A procedure asks the      *)
(* server for the attributes of a range of handles, collects what a         *)
(* response lists, and asks again from the handle after the last one, until *)
(* the server finds no more or the range is exhausted.                      *)
(*                                                                          *)
(* A procedure has one request on the air at a time and shares nothing with *)
(* the others, so the module has one of them.  Handles are 16 bits wide in  *)
(* the code; MaxHandle stands for 0xffff.                                   *)
EXTENDS Integers, Sequences, FiniteSets, SequencesExt

CONSTANTS
    MaxHandle,   \* 0xffff
    Procs,       \* the procedures the client runs
    RogueProcs,  \* those it runs against a server that answers what it likes
    PerRsp,      \* bound: attributes in a response
    RoguePerRsp  \* the same, of such a server

ASSUME HandleAssumption == MaxHandle \in Nat \ {0}
ASSUME ProcAssumption   == /\ Procs \subseteq {"primary", "char", "desc"}
                           /\ RogueProcs \subseteq Procs
ASSUME ServerAssumption == PerRsp \in Nat /\ RoguePerRsp \in Nat

Handle == 0..MaxHandle        \* uint16_t

\* What a response lists: a handle, the end of its group (the handle itself
\* but for primary services), and whether it has the UUID asked for.
Item == [h : Handle, e : Handle, m : BOOLEAN]

VARIABLES
    db,        \* the server's attributes of the kind the procedure looks for
    rogue,     \* does the server answer what it likes?
    proc,      \* the procedure
    byUuid,    \* does the client look for one UUID?
    from,      \* the first handle the client asked for
    end,       \* dc->end, dd->end; 0xffff for primary services
    start,     \* dp->start, dc->start, dd->start
    req,       \* first handle of the request on the air
    parity,    \* history: changes with every request, so that one shows that
               \* asks for the same handles again
    list,      \* dp->primaries, dc->characteristics, dd->descriptors
    ordered,   \* history: the list has grown in ascending order of handles
    phase,     \* idle, wait (a request is on the air), done, offline
    err,       \* what the client's function was told
    refs,      \* references to the procedure's record
    calls      \* history: how often the client's function was called

client == <<rogue, proc, byUuid, from, end>>
vars == <<db, client, start, req, parity, list, ordered, phase, err, refs, calls>>

Status == {"ok", "bad", "not_found", "error"}

Err == {"none", "not_found", "error", "io", "unlikely"}

TypeOK ==
    /\ db \subseteq Item /\ rogue \in BOOLEAN
    /\ proc \in {"none"} \cup Procs /\ byUuid \in BOOLEAN
    /\ from \in Handle /\ end \in Handle
    /\ start \in Handle /\ req \in Handle /\ parity \in BOOLEAN
    /\ list \subseteq Item /\ ordered \in BOOLEAN
    /\ phase \in {"idle", "wait", "done", "offline"}
    /\ err \in Err
    /\ refs \in Nat /\ calls \in Nat

-----------------------------------------------------------------------------
(* Helpers *)

\* Mutants of NextStart: a handle is skipped; the last one is asked for again.
NextStartSkips(h) == (h + 2) % (MaxHandle + 1)
NextStartStays(h) == h

\* The handle after h, in 16 bits.
NextStart(h) == (h + 1) % (MaxHandle + 1)

\* Mutant of Backwards: never.
NeverBackwards(h) == FALSE

\* The server's last handle lies before the range asked for.
Backwards(h) == h < start

\* The items at the indices in taken are appended to the list, in order.
Collect(items, taken) ==
    /\ list' = list \cup {items[i] : i \in taken}
    /\ ordered' = (/\ ordered
                   /\ \A i \in taken :
                          /\ \A x \in list : x.h < items[i].h
                          /\ \A j \in taken : j < i => items[j].h < items[i].h)

\* Mutant of Finish: the record is not released.
FinishKept(e) ==
    /\ phase' = "done"
    /\ err' = e
    /\ calls' = calls + 1
    /\ UNCHANGED <<req, parity, refs>>

\* The client's function is called; then the request goes, and with it the
\* reference it held.
Finish(e) ==
    /\ phase' = "done"
    /\ err' = e
    /\ calls' = calls + 1
    /\ refs' = refs - 1
    /\ UNCHANGED <<req, parity>>

\* The next request takes a reference, the old one gives its own back.
Ask ==
    /\ req' = start' /\ parity' = ~parity
    /\ UNCHANGED <<phase, err, calls, refs>>

\* The answer ends the procedure with e and nothing is collected.
Fail(e) == Finish(e) /\ UNCHANGED <<start, list, ordered>>

\* A response that goes backwards ends the search; else the next one starts
\* after the last handle, if more is to come.
GoOn(last, more) ==
    \/ Backwards(last) /\ Finish("unlikely") /\ UNCHANGED start
    \/ /\ ~Backwards(last)
       /\ start' = NextStart(last)
       /\ IF more THEN Ask ELSE Finish("none")

Waiting(p) == phase = "wait" /\ proc = p

-----------------------------------------------------------------------------
(* The procedures.  r is the response: its status, and the items it lists.  *)

\* primary_by_uuid_cb.  A response that cannot be decoded ends the search as
\* if nothing more had been found.
PrimaryByUuidCb(r) ==
    LET last == Last(r.items).e IN
    /\ Waiting("primary") /\ byUuid
    /\ \/ r.status \in {"not_found", "bad"} /\ Fail("none")
       \/ r.status = "error" /\ Fail("error")
       \/ /\ r.status = "ok" /\ r.items # <<>>
          /\ Collect(r.items, DOMAIN r.items)
          /\ \/ last = MaxHandle /\ Finish("none") /\ UNCHANGED start
             \/ last # MaxHandle /\ GoOn(last, TRUE)

\* primary_all_cb.  "io" is also what the client is told of a response whose
\* items have no UUID's length (ATT_ECODE_INVALID_PDU).
PrimaryAllCb(r) ==
    LET last == Last(r.items).e IN
    /\ Waiting("primary") /\ ~byUuid
    /\ \/ r.status = "not_found" /\ Fail("none")
       \/ r.status = "error" /\ Fail("error")
       \/ r.status = "bad" /\ Fail("io")
       \/ /\ r.status = "ok" /\ r.items # <<>>
          /\ Collect(r.items, DOMAIN r.items)
          /\ GoOn(last, last # MaxHandle)

\* Nothing found at all is an error, nothing more is not.
NotFound == IF list = {} THEN "not_found" ELSE "none"

\* char_discovered_cb
CharDiscoveredCb(r) ==
    LET last == Last(r.items).h
        wanted == {i \in DOMAIN r.items : byUuid => r.items[i].m}
    IN
    /\ Waiting("char")
    /\ \/ r.status = "not_found" /\ Fail(NotFound)
       \/ r.status = "error" /\ Fail("error")
       \/ r.status = "bad" /\ Fail("io")
       \/ /\ r.status = "ok" /\ r.items # <<>>
          /\ Collect(r.items, wanted)
          /\ GoOn(last, last # 0 /\ NextStart(last) < end)

\* desc_discovered_cb.  A response without items counts as one that reaches
\* the highest handle.  The first descriptor with the UUID ends the search.
DescDiscoveredCb(r) ==
    LET hits == {i \in DOMAIN r.items : byUuid /\ r.items[i].m}
        last == IF r.items = <<>> THEN MaxHandle ELSE Last(r.items).h
    IN
    /\ Waiting("desc")
    /\ \/ r.status = "not_found" /\ Fail(NotFound)
       \/ r.status = "error" /\ Fail("error")
       \/ r.status = "bad" /\ Fail("io")
       \/ /\ r.status = "ok" /\ hits = {}
          /\ Collect(r.items, IF byUuid THEN {} ELSE DOMAIN r.items)
          /\ GoOn(last, last < end)
       \/ /\ r.status = "ok"
          /\ \E i \in hits :
                /\ \A j \in hits : i <= j
                /\ Collect(r.items, {i})
                /\ GoOn(r.items[i].h, FALSE)

Callback(r) == /\ \/ PrimaryByUuidCb(r) \/ PrimaryAllCb(r)
                  \/ CharDiscoveredCb(r) \/ DescDiscoveredCb(r)
               /\ UNCHANGED <<db, client>>

-----------------------------------------------------------------------------
(* The client *)

\* A server has a group of primary services where it likes, a characteristic
\* declaration only where its value still fits the range.
Database(p, e) ==
    {x \in Item : /\ x.h > 0
                  /\ IF p = "primary" THEN x.h <= x.e ELSE x.h = x.e
                  /\ p = "char" => x.h # e /\ x.h < MaxHandle}

Disjoint(S) == \A x, y \in S : x = y \/ x.e < y.h \/ y.e < x.h

\* gatt_discover_primary, gatt_discover_char, gatt_discover_desc.  Without a
\* link g_attrib_send returns 0, and nobody releases the record any more.
Discover(p, s, e, u, bad, up) ==
    /\ phase = "idle"
    /\ s > 0 /\ s <= e
    /\ p = "primary" => s = 1 /\ e = MaxHandle
    /\ bad => p \in RogueProcs
    /\ rogue' = bad
    /\ db' \in IF bad THEN {{}} ELSE {S \in SUBSET Database(p, e) : Disjoint(S)}
    /\ proc' = p /\ byUuid' = u
    /\ from' = s /\ start' = s /\ req' = s /\ end' = e
    /\ phase' = IF up THEN "wait" ELSE "offline"
    /\ refs' = 1
    /\ UNCHANGED <<parity, list, ordered, err, calls>>

-----------------------------------------------------------------------------
(* The server *)

\* What a server that keeps to the protocol has to list.
Asked == {x \in db : /\ x.h >= req /\ x.h <= end
                     /\ proc = "primary" /\ byUuid => x.m}

Reply(status, items) == [status |-> status, items |-> items]

\* In ascending order, and nothing is left out between them.
Conforms(items) ==
    /\ \A i, j \in DOMAIN items : i < j => items[i].h < items[j].h
    /\ \A x \in Asked : x.h <= Last(items).h => x \in ToSet(items)

\* The first items that match, as many as fit; an error if there are none.
ServerAnswers(items) ==
    /\ phase = "wait" /\ ~rogue
    /\ req > 0 /\ req <= end
    /\ \/ Asked = {} /\ items = <<>> /\ Callback(Reply("not_found", items))
       \/ items # <<>> /\ Conforms(items) /\ Callback(Reply("ok", items))

\* Any other error: the server's, a timeout, or the link is lost.
ServerFails == Callback(Reply("error", <<>>))

\* Any response at all.
RogueAnswers(status, items) ==
    /\ rogue
    /\ items # <<>> => status = "ok"
    /\ proc # "primary" => \A i \in DOMAIN items : items[i].e = items[i].h
    /\ Callback(Reply(status, items))

-----------------------------------------------------------------------------
(* Specification *)

Init ==
    /\ db = {} /\ rogue = FALSE /\ proc = "none" /\ byUuid = FALSE
    /\ from = 0 /\ end = 0 /\ start = 0 /\ req = 0 /\ parity = FALSE
    /\ list = {} /\ ordered = TRUE
    /\ phase = "idle" /\ err = "none" /\ refs = 0 /\ calls = 0

Server == \/ \E n \in 0..PerRsp :
                 \E items \in [1..n -> Asked] : ServerAnswers(items)
          \/ ServerFails
          \/ \E status \in Status, n \in 0..RoguePerRsp :
                 \E items \in [1..n -> Item] : RogueAnswers(status, items)

Next == \/ \E p \in Procs, s, e \in Handle, u, bad, up \in BOOLEAN :
               Discover(p, s, e, u, bad, up)
        \/ Server

Spec == Init /\ [][Next]_vars

\* A request ends by a response, by the ATT timeout or with the link.
FairSpec == Spec /\ WF_vars(Server)

-----------------------------------------------------------------------------
(* Properties *)

InRange == {x \in db : x.h >= from /\ x.h <= end}

\* What the client is looking for.
Sought ==
    IF ~byUuid THEN InRange
    ELSE LET hits == {x \in InRange : x.m} IN
         IF proc = "desc"
         THEN {x \in hits : \A y \in hits : x.h <= y.h}
         ELSE hits

\* With a server that keeps to the protocol, a discovery that reports success
\* has found everything the client looked for and nothing else, in ascending
\* order; one that reports "not found" had nothing to find; and the guard
\* against servers that go backwards is never met.
DiscoveryComplete ==
    phase = "done" /\ ~rogue =>
        /\ err = "none" => list = Sought /\ ordered
        /\ err = "not_found" => Sought = {}
        /\ err \in {"none", "not_found", "error"}

\* The client's function is called once, when the procedure ends, and the
\* record lives exactly as long as a request needs it.
EndsOnce ==
    /\ phase = "wait" => calls = 0 /\ refs = 1
    /\ phase = "done" => calls = 1 /\ refs = 0

\* The search for characteristics has started again at handle 0: a server
\* listed one at the highest handle, and the handle after it is 0 in 16 bits
\* (gatt.c:658), which no test of char_discovered_cb catches.
Wrapped == rogue /\ proc = "char" /\ req = 0

\* Every request asks for handles beyond those of the one before, whatever
\* the server answers, unless the search for characteristics wraps.
ForwardOnly == [][phase = "wait" /\ phase' = "wait" => req' > req \/ Wrapped']_vars

\* A discovery ends, whatever the server answers, unless it wraps.
DiscoveryTerminates == (phase = "wait") ~> (phase = "done" \/ Wrapped)

\* What gatt.c:649-652 says of the search for characteristics: a server that
\* does not keep to the protocol is found out, "otherwise we might enter
\* infinite loop".  A server that lists a characteristic at the highest handle
\* again and again is not.
CharSearchStops == (phase = "wait" /\ proc = "char") ~> (phase = "done")
=============================================================================
