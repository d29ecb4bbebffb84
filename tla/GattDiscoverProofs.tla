------------------------- MODULE GattDiscoverProofs -------------------------
(* Proofs about the discovery procedures, for handles of any width, any     *)
(* number of items in a response and any database of the server.            *)
EXTENDS GattDiscover, TLAPS

-----------------------------------------------------------------------------
(* Helpers *)

\* The handle after h is h + 1, but for the highest one.
LEMMA NextStartValue ==
    ASSUME NEW h \in Handle
    PROVE  /\ NextStart(h) \in Handle
           /\ h # MaxHandle => NextStart(h) = h + 1
           /\ h = MaxHandle => NextStart(h) = 0
BY HandleAssumption DEF NextStart, Handle

\* The last item of a response that lists any is one of them.
LEMMA LastItem ==
    ASSUME NEW n \in Nat, NEW S, NEW items \in [1..n -> S], items # <<>>
    PROVE  /\ n \in 1..n /\ DOMAIN items = 1..n /\ Len(items) = n
           /\ Last(items) = items[n] /\ Last(items) \in S
           /\ \A i \in DOMAIN items : items[i] \in S
<1>1. DOMAIN items = 1..n
  OBVIOUS
<1>2. items \in Seq(S)
  OBVIOUS
<1>3. Len(items) = n
  BY <1>1, <1>2
<1>4. n # 0
  BY <1>2, <1>3
<1>. QED
  BY <1>1, <1>3, <1>4 DEF Last

-----------------------------------------------------------------------------
(* Forward *)

\* A procedure starts its next request where the record says.
Position ==
    /\ db \subseteq Item
    /\ proc \in {"none"} \cup Procs
    /\ end \in Handle /\ start \in Handle /\ req \in Handle
    /\ phase = "wait" => req = start

\* GoOn keeps the position, and goes on only beyond the handles it asked for.
LEMMA GoOnForward ==
    ASSUME Position, phase = "wait", NEW last \in Handle, NEW more \in BOOLEAN,
           GoOn(last, more)
    PROVE  /\ start' \in Handle /\ req' \in Handle
           /\ phase' = "wait" => req' = start'
           /\ phase' = "wait" /\ last # MaxHandle => req' > req
           /\ phase' = "wait" /\ last = MaxHandle => req' = 0
<1>1. CASE Backwards(last)
  BY <1>1 DEF GoOn, Finish, Position
<1>2. CASE ~Backwards(last)
  <2>1. /\ start' \in Handle
        /\ last # MaxHandle => start' = last + 1
        /\ last = MaxHandle => start' = 0
    BY <1>2, NextStartValue DEF GoOn
  <2>2. last >= start
    BY <1>2, HandleAssumption DEF Backwards, Position, Handle
  <2>. QED
    BY <1>2, <2>1, <2>2, HandleAssumption DEF GoOn, Finish, Ask, Position, Handle
<1>. QED
  BY <1>1, <1>2

\* An answer that is an error leaves the position where it was.
LEMMA FailForward ==
    ASSUME Position, phase = "wait", NEW e, Fail(e)
    PROVE  start' \in Handle /\ req' \in Handle /\ phase' = "done"
BY DEF Fail, Finish, Position

\* Whatever the server answers, a callback keeps the position; and it goes on
\* only beyond the handles it asked for, but for characteristics that reach the
\* highest handle: then it goes on at 0.
LEMMA CallbackForward ==
    ASSUME Position, NEW n \in Nat, NEW items \in [1..n -> Item], NEW status,
           Callback(Reply(status, items))
    PROVE  /\ Position'
           /\ phase' = "wait" =>
                 \/ req' > req
                 \/ /\ proc = "char" /\ req' = 0
                    /\ \E i \in DOMAIN items : items[i].h = MaxHandle
<1>. DEFINE r == Reply(status, items)
            first == /\ start' \in Handle /\ req' \in Handle
                     /\ phase' = "wait" => req' = start'
            high == \E i \in DOMAIN items : items[i].h = MaxHandle
            wrapped == proc = "char" /\ req' = 0 /\ high
            goal == /\ first
                    /\ phase' = "wait" => req' > req \/ wrapped
<1>1. phase = "wait" /\ UNCHANGED <<db, proc, end>>
  BY DEF Callback, PrimaryByUuidCb, PrimaryAllCb, CharDiscoveredCb,
         DescDiscoveredCb, Waiting, client
<1>2. r.status = status /\ r.items = items
  BY DEF Reply
<1>3. ASSUME items # <<>>
      PROVE  /\ Last(items).e \in Handle /\ Last(items).h \in Handle
             /\ \A i \in DOMAIN items : items[i].h \in Handle
  <2>1. Last(items) \in Item /\ \A i \in DOMAIN items : items[i] \in Item
    BY <1>3, LastItem
  <2>. QED
    BY <2>1 DEF Item
<1>4. ASSUME NEW e, Fail(e) PROVE goal
  BY <1>1, <1>4, FailForward
<1>. SUFFICES goal
  BY <1>1 DEF Position
<1>5. CASE PrimaryByUuidCb(r)
  <2>1. CASE \E e \in {"none", "error"} : Fail(e)
    BY <2>1, <1>4
  <2>2. CASE /\ items # <<>> /\ Last(items).e = MaxHandle
             /\ Finish("none") /\ UNCHANGED start
    BY <2>2 DEF Finish, Position
  <2>3. CASE /\ items # <<>> /\ Last(items).e # MaxHandle
             /\ GoOn(Last(items).e, TRUE)
    BY <2>3, <1>1, <1>3, GoOnForward
  <2>. QED
    BY <1>5, <1>2, <2>1, <2>2, <2>3 DEF PrimaryByUuidCb
<1>6. CASE PrimaryAllCb(r)
  <2>1. CASE \E e \in {"none", "error", "io"} : Fail(e)
    BY <2>1, <1>4
  <2>2. CASE items # <<>> /\ GoOn(Last(items).e, Last(items).e # MaxHandle)
    <3>1. first /\ (phase' = "wait" /\ Last(items).e # MaxHandle => req' > req)
      BY <2>2, <1>1, <1>3, GoOnForward
    <3>2. phase' = "wait" => Last(items).e # MaxHandle
      BY <2>2 DEF GoOn, Finish
    <3>. QED
      BY <3>1, <3>2
  <2>. QED
    BY <1>6, <1>2, <2>1, <2>2 DEF PrimaryAllCb
<1>7. CASE CharDiscoveredCb(r)
  <2>1. CASE \E e \in {"none", "not_found", "error", "io"} : Fail(e)
    BY <2>1, <1>4
  <2>2. CASE /\ items # <<>>
             /\ GoOn(Last(items).h,
                     Last(items).h # 0 /\ NextStart(Last(items).h) < end)
    <3>1. proc = "char"
      BY <1>7 DEF CharDiscoveredCb, Waiting
    <3>2. Last(items).h = MaxHandle => high
      <4>1. n \in DOMAIN items /\ Last(items) = items[n]
        BY <2>2, LastItem
      <4>. QED
        BY <4>1
    <3>3. /\ first
          /\ phase' = "wait" /\ Last(items).h # MaxHandle => req' > req
          /\ phase' = "wait" /\ Last(items).h = MaxHandle => req' = 0
      BY <2>2, <1>1, <1>3, GoOnForward
    <3>. QED
      BY <3>1, <3>2, <3>3
  <2>. QED
    BY <1>7, <1>2, <2>1, <2>2 DEF CharDiscoveredCb, NotFound
<1>8. CASE DescDiscoveredCb(r)
  <2>. DEFINE last == IF items = <<>> THEN MaxHandle ELSE Last(items).h
  <2>1. CASE \E e \in {"none", "not_found", "error", "io"} : Fail(e)
    BY <2>1, <1>4
  <2>2. CASE GoOn(last, last < end)
    <3>1. last \in Handle
      BY <1>3, HandleAssumption DEF Handle
    <3>. DEFINE more == last < end
    <3>. HIDE DEF last
    <3>2. more \in BOOLEAN /\ GoOn(last, more)
      BY <2>2
    <3>. HIDE DEF more
    <3>3. first /\ (phase' = "wait" /\ last # MaxHandle => req' > req)
      BY <3>2, <3>1, <1>1, GoOnForward
    <3>4. phase' = "wait" => last < end
      BY <2>2 DEF GoOn, Finish
    <3>5. phase' = "wait" => last # MaxHandle
      BY <3>1, <3>4, HandleAssumption DEF Position, Handle
    <3>. QED
      BY <3>3, <3>5
  <2>3. CASE \E i \in DOMAIN items : GoOn(items[i].h, FALSE)
    <3>1. PICK i \in DOMAIN items : GoOn(items[i].h, FALSE)
      BY <2>3
    <3>2. items[i].h \in Handle
      BY DEF Item
    <3>3. phase' = "done"
      BY <3>1 DEF GoOn, Finish
    <3>. QED
      BY <3>1, <3>2, <3>3, <1>1, GoOnForward
  <2>. QED
    BY <1>8, <1>2, <2>1, <2>2, <2>3 DEF DescDiscoveredCb, NotFound
<1>. QED
  BY <1>5, <1>6, <1>7, <1>8 DEF Callback

\* The server's answer, of whatever kind, is the same to the procedure.
Answered(items) == \E status \in Status : Callback(Reply(status, items))

\* A step starts a procedure, is an answer to one, or changes nothing.
LEMMA StepKinds ==
    ASSUME Position, [Next]_vars
    PROVE  \/ UNCHANGED vars
           \/ \E p \in Procs, s, e \in Handle, u, bad, up \in BOOLEAN :
                 Discover(p, s, e, u, bad, up)
           \/ \E n \in Nat : \E items \in [1..n -> Item] :
                 /\ Answered(items)
                 /\ rogue \/ items = <<>> \/ items \in [1..n -> Asked]
<1>. DEFINE A == \E n \in Nat : \E items \in [1..n -> Item] :
                     /\ Answered(items)
                     /\ rogue \/ items = <<>> \/ items \in [1..n -> Asked]
<1>1. ASSUME NEW n \in 0..PerRsp, NEW items \in [1..n -> Asked],
             ServerAnswers(items)
      PROVE  A
  <2>1. items \in [1..n -> Item] /\ n \in Nat
    BY ServerAssumption DEF Asked, Position
  <2>2. Answered(items)
    BY <1>1 DEF ServerAnswers, Answered, Status
  <2>. QED
    BY <2>1, <2>2
<1>2. ASSUME ServerFails PROVE A
  <2>1. <<>> \in [1..0 -> Item]
    OBVIOUS
  <2>2. Answered(<<>>)
    BY <1>2 DEF ServerFails, Answered, Status
  <2>. QED
    BY <2>1, <2>2
<1>3. ASSUME NEW status \in Status, NEW n \in 0..RoguePerRsp,
             NEW items \in [1..n -> Item], RogueAnswers(status, items)
      PROVE  A
  <2>1. n \in Nat /\ rogue /\ Answered(items)
    BY <1>3, ServerAssumption DEF RogueAnswers, Answered
  <2>. QED
    BY <2>1
<1>. HIDE DEF A
<1>4. UNCHANGED vars \/ A \/ \E p \in Procs, s, e \in Handle, u, bad, up \in BOOLEAN :
                                Discover(p, s, e, u, bad, up)
  BY <1>1, <1>2, <1>3 DEF Next, Server
<1>. QED
  BY <1>4 DEF A

\* A step of the specification keeps the position.
LEMMA PositionStep ==
    ASSUME Position, [Next]_vars
    PROVE  Position'
<1>1. CASE UNCHANGED vars
  BY <1>1 DEF vars, client, Position
<1>2. ASSUME NEW p \in Procs, NEW s \in Handle, NEW e \in Handle, NEW u \in BOOLEAN,
             NEW bad \in BOOLEAN, NEW up \in BOOLEAN, Discover(p, s, e, u, bad, up)
      PROVE  Position'
  BY <1>2 DEF Discover, Database, Position
<1>3. ASSUME NEW n \in Nat, NEW items \in [1..n -> Item], Answered(items)
      PROVE  Position'
  BY <1>3, CallbackForward DEF Answered
<1>. QED
  BY <1>1, <1>2, <1>3, StepKinds

-----------------------------------------------------------------------------
(* Completeness *)

\* What has been found of what the client looks for: all of it below start.
Below == {x \in InRange : x.h < start /\ (byUuid => x.m)}

\* While a request is on the air the list is exact up to its first handle.
Progress ==
    /\ phase = "idle" => list = {} /\ ordered = TRUE
    /\ phase = "wait" /\ ~rogue =>
          /\ db \subseteq Database(proc, end) /\ Disjoint(db)
          /\ byUuid \in BOOLEAN /\ from \in Handle
          /\ from <= start /\ start <= end
          /\ proc = "primary" => end = MaxHandle
          /\ ordered = TRUE /\ list = Below
          /\ proc = "desc" /\ byUuid => list = {}

\* A response that keeps to the protocol lists exactly what the server has
\* from start up to the end of the group of its last item.
LEMMA Listed ==
    ASSUME Position, Progress, phase = "wait", ~rogue,
           NEW n \in Nat, NEW items \in [1..n -> Asked], items # <<>>,
           Conforms(items)
    PROVE  /\ n \in DOMAIN items /\ Last(items) = items[n]
           /\ items[n].h \in Handle /\ items[n].e \in Handle
           /\ start <= items[n].h /\ items[n].h <= items[n].e
           /\ proc # "primary" => items[n].e = items[n].h
           /\ \A i \in DOMAIN items : items[i] \in Asked
           /\ \A x \in Asked : x.h <= items[n].e => \E i \in DOMAIN items : items[i] = x
           /\ \A i \in DOMAIN items : items[i].h <= items[n].e
<1>1. /\ n \in 1..n /\ DOMAIN items = 1..n /\ Last(items) = items[n]
      /\ \A i \in DOMAIN items : items[i] \in Asked
  BY LastItem
<1>2. ASSUME NEW x \in Asked
      PROVE  /\ x \in db /\ x.h \in Handle /\ x.e \in Handle
             /\ start <= x.h /\ x.h <= x.e
             /\ proc # "primary" => x.e = x.h
  BY HandleAssumption DEF Asked, Position, Progress, Database, Item, Handle
<1>3. ASSUME NEW i \in DOMAIN items PROVE items[i].h <= items[n].h
  <2>1. CASE i = n
    BY <2>1, <1>1, <1>2 DEF Handle
  <2>2. CASE i < n
    <3>1. items[i].h < items[n].h
      BY <2>2, <1>1 DEF Conforms
    <3>2. items[i].h \in Handle /\ items[n].h \in Handle
      BY <1>1, <1>2
    <3>. QED
      BY <3>1, <3>2 DEF Handle
  <2>. QED
    BY <2>1, <2>2, <1>1
<1>4. ASSUME NEW x \in Asked, x.h <= items[n].e PROVE x.h <= items[n].h
  <2>1. items[n] \in Asked
    BY <1>1
  <2>2. x = items[n] \/ x.e < items[n].h \/ items[n].e < x.h
    BY <2>1, <1>2 DEF Progress, Disjoint
  <2>3. /\ x.h \in Handle /\ x.e \in Handle /\ x.h <= x.e
        /\ items[n].h \in Handle /\ items[n].e \in Handle
    BY <2>1, <1>2
  <2>. QED
    BY <1>4, <2>2, <2>3 DEF Handle
<1>5. \A x \in Asked : x.h <= items[n].h => \E i \in DOMAIN items : items[i] = x
  BY <1>1 DEF Conforms, ToSet
<1>6. /\ items[n].h \in Handle /\ items[n].e \in Handle
      /\ start <= items[n].h /\ items[n].h <= items[n].e
      /\ proc # "primary" => items[n].e = items[n].h
  BY <1>1, <1>2
<1>7. ASSUME NEW i \in DOMAIN items PROVE items[i].h <= items[n].e
  <2>1. items[i].h \in Handle /\ items[i].h <= items[n].h
    BY <1>1, <1>2, <1>3
  <2>. QED
    BY <2>1, <1>6 DEF Handle
<1>8. \A x \in Asked :
         x.h <= items[n].e => \E i \in DOMAIN items : items[i] = x
  BY <1>4, <1>5
<1>. QED
  BY <1>1, <1>6, <1>7, <1>8

\* When such a response is collected the list is exact up to there.
LEMMA Collected ==
    ASSUME Position, Progress, phase = "wait", ~rogue,
           NEW n \in Nat, NEW items \in [1..n -> Asked], items # <<>>,
           Conforms(items), NEW T,
           T = {i \in DOMAIN items : byUuid => items[i].m},
           Collect(items, T), UNCHANGED <<db, client>>
    PROVE  /\ list' = {x \in InRange' : x.h <= items[n].e /\ (byUuid' => x.m)}
           /\ ordered' = TRUE
<1>1. InRange' = InRange /\ byUuid' = byUuid
  BY DEF InRange, client
<1>2. \A x \in InRange : x.h \in Handle
  BY DEF InRange, Position, Item
<1>3. \A x \in InRange : start <= x.h /\ (byUuid => x.m) => x \in Asked
  BY DEF InRange, Asked, Position
<1>4. \A x \in Asked : x \in InRange /\ x.h \in Handle /\ start <= x.h
  BY HandleAssumption DEF InRange, Asked, Position, Progress, Item, Handle
<1>5. list' = {x \in InRange : x.h <= items[n].e /\ (byUuid => x.m)}
  <2>1. ASSUME NEW x \in list'
        PROVE  x \in InRange /\ x.h <= items[n].e /\ (byUuid => x.m)
    <3>1. CASE x \in list
      BY <3>1, <1>2, Listed DEF Progress, Below, Position, Handle
    <3>2. CASE \E i \in T : x = items[i]
      BY <3>2, <1>4, Listed
    <3>. QED
      BY <2>1, <3>1, <3>2 DEF Collect
  <2>2. ASSUME NEW x \in InRange, x.h <= items[n].e, byUuid => x.m
        PROVE  x \in list'
    <3>1. CASE x.h < start
      BY <2>2, <3>1 DEF Progress, Below, Collect
    <3>2. CASE start <= x.h
      BY <2>2, <3>2, <1>3, Listed DEF Collect
    <3>. QED
      BY <3>1, <3>2, <1>2 DEF Position, Handle
  <2>. QED
    BY <2>1, <2>2
<1>6. ordered' = TRUE
  <2>1. ASSUME NEW i \in T, NEW x \in list PROVE x.h < items[i].h
    BY <1>2, <1>4, Listed DEF Progress, Below, Position, Handle
  <2>2. ASSUME NEW i \in T, NEW j \in T, j < i PROVE items[j].h < items[i].h
    BY <2>2 DEF Conforms
  <2>. QED
    BY <2>1, <2>2 DEF Collect, Progress
<1>. QED
  BY <1>1, <1>5, <1>6

\* Two attributes of the server with the same handle are the same.
LEMMA SameHandle ==
    ASSUME Position, Progress, phase = "wait", ~rogue,
           NEW x \in db, NEW y \in db, x.h = y.h
    PROVE  x = y
<1>1. x = y \/ x.e < y.h \/ y.e < x.h
  BY DEF Progress, Disjoint
<1>2. /\ x.h \in Handle /\ x.e \in Handle /\ x.h <= x.e
      /\ y.h \in Handle /\ y.e \in Handle /\ y.h <= y.e
  BY HandleAssumption DEF Position, Progress, Database, Item, Handle
<1>. QED
  BY <1>1, <1>2, HandleAssumption DEF Handle

\* When the list holds all that is sought, success is what the client is told.
LEMMA EndsComplete ==
    ASSUME list' = {x \in InRange' : byUuid' => x.m}, ordered' = TRUE,
           proc' = "desc" /\ byUuid' => list' = {},
           phase' = "done", err' \in {"none", "not_found"},
           err' = "not_found" => list' = {}
    PROVE  DiscoveryComplete' /\ Progress'
<1>1. list' = Sought'
  <2>1. CASE ~byUuid'
    BY <2>1 DEF Sought
  <2>2. CASE byUuid' /\ proc' # "desc"
    BY <2>2 DEF Sought
  <2>3. CASE byUuid' /\ proc' = "desc"
    BY <2>3 DEF Sought
  <2>. QED
    BY <2>1, <2>2, <2>3
<1>2. DiscoveryComplete'
  BY <1>1 DEF DiscoveryComplete
<1>. QED
  BY <1>2 DEF Progress

\* From a list that is exact up to last, GoOn either goes on with one that is
\* exact up to its next request, or ends when nothing more can be found.
LEMMA GoOnComplete ==
    ASSUME Position, Progress, phase = "wait", ~rogue, UNCHANGED <<db, client>>,
           NEW last \in Handle, NEW more \in BOOLEAN, GoOn(last, more),
           start <= last,
           list' = {x \in InRange' : x.h <= last /\ (byUuid' => x.m)},
           ordered' = TRUE,
           proc = "desc" /\ byUuid => list' = {},
           more => last < end,
           ~ more => \A x \in InRange : x.h <= last
    PROVE  Progress' /\ DiscoveryComplete'
<1>1. ~ Backwards(last)
  BY HandleAssumption DEF Backwards, Position, Handle
<1>2. InRange' = InRange /\ byUuid' = byUuid /\ proc' = proc
  BY DEF InRange, client
<1>3. CASE more
  <2>1. phase' = "wait" /\ start' = last + 1
    <3>1. last # MaxHandle
      BY <1>3, HandleAssumption DEF Position, Handle
    <3>. QED
      BY <1>1, <1>3, <3>1, NextStartValue DEF GoOn, Ask
  <2>2. list' = Below'
    <3>1. ASSUME NEW x \in InRange PROVE x.h <= last <=> x.h < start'
      <4>1. x.h \in Handle
        BY DEF InRange, Position, Item
      <4>. QED
        BY <2>1, <4>1 DEF Handle
    <3>. QED
      BY <1>2, <3>1 DEF Below
  <2>3. from' <= start' /\ start' <= end'
    BY <2>1, <1>3, HandleAssumption DEF Progress, Position, client, Handle
  <2>. QED
    BY <2>1, <2>2, <2>3, <1>2 DEF Progress, DiscoveryComplete, client
<1>4. CASE ~ more
  <2>1. phase' = "done" /\ err' = "none"
    BY <1>1, <1>4 DEF GoOn, Finish
  <2>2. list' = {x \in InRange' : byUuid' => x.m}
    BY <1>2, <1>4
  <2>. QED
    BY <2>1, <2>2, <1>2, EndsComplete
<1>. QED
  BY <1>3, <1>4

\* "Attribute not found" is the answer when nothing is left from start on.
LEMMA NotFoundComplete ==
    ASSUME Position, Progress, phase = "wait", ~rogue, Asked = {},
           Callback(Reply("not_found", <<>>))
    PROVE  Progress' /\ DiscoveryComplete'
<1>1. /\ UNCHANGED <<db, proc, byUuid, from, end, list, ordered>>
      /\ phase' = "done"
      /\ \/ err' = "none" /\ proc = "primary"
         \/ err' = NotFound
  BY DEF Callback, PrimaryByUuidCb, PrimaryAllCb, CharDiscoveredCb,
         DescDiscoveredCb, Waiting, client, Reply, Fail, Finish
<1>2. InRange' = InRange
  BY <1>1 DEF InRange
<1>3. list' = {x \in InRange' : byUuid' => x.m}
  <2>1. ASSUME NEW x \in InRange, byUuid => x.m PROVE x.h < start
    <3>1. ~ (start <= x.h)
      BY <2>1 DEF InRange, Asked, Position
    <3>. QED
      BY <3>1 DEF InRange, Position, Item, Handle
  <2>. QED
    BY <1>1, <1>2, <2>1 DEF Progress, Below
<1>. QED
  BY <1>1, <1>3, EndsComplete DEF NotFound, Progress

\* Descriptors by UUID: the first that the server lists is the first it has.
LEMMA HitComplete ==
    ASSUME Position, Progress, phase = "wait", ~rogue, proc = "desc", byUuid,
           UNCHANGED <<db, client>>,
           NEW n \in Nat, NEW items \in [1..n -> Asked], items # <<>>,
           Conforms(items), NEW i \in DOMAIN items, items[i].m,
           \A j \in DOMAIN items : items[j].m => i <= j,
           Collect(items, {i}), GoOn(items[i].h, FALSE)
    PROVE  Progress' /\ DiscoveryComplete'
<1>1. InRange' = InRange /\ byUuid' = byUuid /\ proc' = proc
  BY DEF InRange, client
<1>2. items[i] \in Asked
  BY Listed
<1>3. items[i] \in InRange /\ items[i].h \in Handle /\ start <= items[i].h
  BY <1>2, HandleAssumption DEF InRange, Asked, Position, Progress, Item, Handle
<1>4. list' = {items[i]} /\ ordered' = TRUE
  BY DEF Collect, Progress
<1>5. phase' = "done" /\ err' = "none"
  <2>1. ~ Backwards(items[i].h)
    BY <1>3, HandleAssumption DEF Backwards, Position, Handle
  <2>. QED
    BY <2>1 DEF GoOn, Finish
<1>6. ASSUME NEW y \in InRange, y.m PROVE y.h \in Handle /\ items[i].h <= y.h
  <2>1. y.h \in Handle
    BY DEF InRange, Position, Item
  <2>2. start <= y.h
    <3>1. y \notin Below
      BY DEF Progress
    <3>. QED
      BY <3>1, <2>1, <1>6 DEF Below, Position, Handle
  <2>3. y \in Asked
    BY <2>2, <1>6 DEF Asked, InRange, Position
  <2>4. CASE y.h <= items[n].e
    <3>1. PICK j \in DOMAIN items : items[j] = y
      BY <2>3, <2>4, Listed
    <3>2. i <= j /\ i \in Nat /\ j \in Nat
      BY <3>1, <1>6
    <3>3. i = j \/ items[i].h < items[j].h
      BY <3>2 DEF Conforms
    <3>. QED
      BY <3>1, <3>3, <1>3, <2>1 DEF Handle
  <2>5. CASE ~ (y.h <= items[n].e)
    <3>1. items[i].h <= items[n].e /\ items[n].e \in Handle
      BY Listed
    <3>. QED
      BY <3>1, <2>5, <1>3, <2>1 DEF Handle
  <2>. QED
    BY <2>1, <2>4, <2>5
<1>7. ASSUME NEW y \in InRange, y.m, y.h <= items[i].h PROVE y = items[i]
  <2>1. y.h = items[i].h
    BY <1>3, <1>6, <1>7 DEF Handle
  <2>2. y \in db /\ items[i] \in db
    BY <1>3 DEF InRange
  <2>. QED
    BY <2>1, <2>2, SameHandle
<1>8. Sought = {items[i]}
  <2>. DEFINE hits == {x \in InRange : x.m}
  <2>1. items[i] \in hits /\ \A y \in hits : items[i].h <= y.h
    BY <1>3, <1>6
  <2>2. ASSUME NEW x \in hits, \A y \in hits : x.h <= y.h PROVE x = items[i]
    BY <2>1, <2>2, <1>7
  <2>3. Sought = {x \in hits : \A y \in hits : x.h <= y.h}
    BY DEF Sought
  <2>. QED
    BY <2>1, <2>2, <2>3
<1>9. Sought' = Sought
  BY <1>1 DEF Sought
<1>. QED
  BY <1>4, <1>5, <1>8, <1>9 DEF Progress, DiscoveryComplete

\* A response that keeps to the protocol leaves the list exact.
LEMMA AnswerComplete ==
    ASSUME Position, Progress, ~rogue,
           NEW n \in Nat, NEW items \in [1..n -> Asked], items # <<>>,
           Conforms(items), Callback(Reply("ok", items))
    PROVE  Progress' /\ DiscoveryComplete'
<1>. DEFINE r == Reply("ok", items)
            wanted == {i \in DOMAIN items : byUuid => items[i].m}
            last == items[n].e
<1>1. /\ phase = "wait" /\ UNCHANGED <<db, client>>
      /\ r.status = "ok" /\ r.items = items
  BY DEF Callback, PrimaryByUuidCb, PrimaryAllCb, CharDiscoveredCb,
         DescDiscoveredCb, Waiting, Reply
<1>2. /\ n \in DOMAIN items /\ Last(items) = items[n]
      /\ last \in Handle /\ start <= last
      /\ proc # "primary" => last = items[n].h
      /\ items[n] \in Asked
  BY <1>1, Listed, HandleAssumption DEF Position, Handle
<1>3. ASSUME Collect(items, wanted)
      PROVE  /\ list' = {x \in InRange' : x.h <= last /\ (byUuid' => x.m)}
             /\ ordered' = TRUE
  BY <1>1, <1>3, Collected
<1>4. \A x \in InRange : x.h \in Handle /\ x.h <= end /\ x \in db
  BY DEF InRange, Position, Item
<1>5. CASE PrimaryByUuidCb(r) \/ PrimaryAllCb(r)
  <2>1. proc = "primary" /\ end = MaxHandle
    BY <1>1, <1>5 DEF PrimaryByUuidCb, PrimaryAllCb, Waiting, Progress
  <2>2. wanted = DOMAIN items
    BY <1>1, <2>1, Listed DEF Asked
  <2>3. Collect(items, wanted)
    BY <1>1, <1>5, <2>2 DEF PrimaryByUuidCb, PrimaryAllCb
  <2>4. CASE last = MaxHandle
    <3>1. phase' = "done" /\ err' = "none"
      <4>1. ~ Backwards(last)
        BY <1>2, HandleAssumption DEF Backwards, Position, Handle
      <4>. QED
        BY <1>1, <1>2, <1>5, <2>4, <4>1
           DEF PrimaryByUuidCb, PrimaryAllCb, GoOn, Finish
    <3>2. InRange' = InRange /\ byUuid' = byUuid /\ proc' = proc
      BY <1>1 DEF InRange, client
    <3>3. list' = {x \in InRange' : byUuid' => x.m} /\ ordered' = TRUE
      BY <1>3, <1>4, <2>3, <2>4, <3>2 DEF Handle
    <3>. QED
      BY <3>1, <3>2, <3>3, <2>1, EndsComplete
  <2>5. CASE last # MaxHandle
    <3>1. GoOn(last, TRUE)
      BY <1>1, <1>2, <1>5, <2>5 DEF PrimaryByUuidCb, PrimaryAllCb
    <3>2. last < end
      BY <1>2, <2>1, <2>5, HandleAssumption DEF Handle
    <3>. QED
      BY <1>1, <1>2, <1>3, <2>1, <2>3, <3>1, <3>2, GoOnComplete
  <2>. QED
    BY <2>4, <2>5
<1>6. CASE CharDiscoveredCb(r)
  <2>. DEFINE more == last # 0 /\ NextStart(last) < end
  <2>1. proc = "char" /\ Collect(items, wanted) /\ GoOn(last, more)
    BY <1>1, <1>2, <1>6 DEF CharDiscoveredCb, Waiting
  <2>2. last # 0 /\ last < MaxHandle
    <3>1. items[n] \in Database("char", end)
      BY <1>1, <1>2, <2>1 DEF Progress, Asked
    <3>. QED
      BY <3>1, <1>2, <2>1, HandleAssumption DEF Database, Handle
  <2>3. NextStart(last) = last + 1
    BY <1>2, <2>2, NextStartValue DEF Handle
  <2>4. more => last < end
    BY <1>2, <2>3, HandleAssumption DEF Position, Handle
  <2>5. ASSUME ~ more, NEW x \in InRange PROVE x.h <= last
    <3>1. x.h # end /\ x.h <= end /\ x.h \in Handle
      BY <1>1, <1>4, <2>1 DEF Progress, Database
    <3>. QED
      BY <1>2, <2>2, <2>3, <2>5, <3>1, HandleAssumption DEF Position, Handle
  <2>. HIDE DEF more
  <2>6. more \in BOOLEAN
    BY DEF more
  <2>. QED
    BY <1>1, <1>2, <1>3, <2>1, <2>4, <2>5, <2>6, GoOnComplete
<1>7. CASE DescDiscoveredCb(r)
  <2>. DEFINE hits == {i \in DOMAIN items : byUuid /\ items[i].m}
              more == last < end
  <2>1. proc = "desc"
    BY <1>1, <1>7 DEF DescDiscoveredCb, Waiting
  <2>2. CASE hits = {}
    <3>1. wanted = IF byUuid THEN {} ELSE DOMAIN items
      BY <2>2
    <3>2. Collect(items, wanted) /\ GoOn(last, more)
      BY <1>1, <1>2, <1>7, <2>1, <2>2, <3>1 DEF DescDiscoveredCb
    <3>3. proc = "desc" /\ byUuid => list' = {}
      BY <3>1, <3>2, <2>1, <1>1 DEF Collect, Progress
    <3>4. ASSUME ~ more, NEW x \in InRange PROVE x.h <= last
      BY <1>2, <1>4, <3>4, HandleAssumption DEF Position, Handle
    <3>. HIDE DEF more
    <3>5. more \in BOOLEAN /\ (more => last < end)
      BY DEF more
    <3>. QED
      BY <1>1, <1>2, <1>3, <3>2, <3>3, <3>4, <3>5, GoOnComplete
  <2>3. CASE hits # {}
    <3>1. PICK i \in hits : /\ \A j \in hits : i <= j
                            /\ Collect(items, {i})
                            /\ GoOn(items[i].h, FALSE)
      BY <1>1, <1>7, <2>3 DEF DescDiscoveredCb
    <3>2. byUuid /\ items[i].m /\ i \in DOMAIN items
      BY DEF hits
    <3>3. \A j \in DOMAIN items : items[j].m => i <= j
      BY <3>1, <3>2
    <3>. QED
      BY <1>1, <2>1, <3>1, <3>2, <3>3, HitComplete
  <2>. QED
    BY <2>2, <2>3
<1>. QED
  BY <1>5, <1>6, <1>7 DEF Callback

\* A step keeps the list exact, if the server keeps to the protocol.
LEMMA CompleteStep ==
    ASSUME Position, Progress, DiscoveryComplete, [Next]_vars
    PROVE  Progress' /\ DiscoveryComplete'
<1>1. CASE UNCHANGED vars
  <2>1. InRange' = InRange /\ Sought' = Sought
    BY <1>1 DEF vars, client, InRange, Sought
  <2>2. Below' = Below
    BY <1>1, <2>1 DEF Below, vars, client
  <2>. QED
    BY <1>1, <2>1, <2>2 DEF vars, client, Progress, DiscoveryComplete
<1>2. ASSUME NEW p \in Procs, NEW s \in Handle, NEW e \in Handle, NEW u \in BOOLEAN,
             NEW bad \in BOOLEAN, NEW up \in BOOLEAN, Discover(p, s, e, u, bad, up)
      PROVE  Progress' /\ DiscoveryComplete'
  <2>1. list' = {} /\ ordered' = TRUE /\ start' = s /\ from' = s
    BY <1>2 DEF Discover, Progress
  <2>2. ~rogue' => /\ db' \subseteq Database(p, e) /\ db' \subseteq Item
                   /\ Disjoint(db')
    BY <1>2 DEF Discover, Database
  <2>3. ~rogue' => Below' = {}
    BY <2>1, <2>2, HandleAssumption DEF Below, InRange, Item, Handle
  <2>4. phase' = "wait" => Progress'
    BY <1>2, <2>1, <2>2, <2>3, HandleAssumption DEF Discover, Progress, Handle
  <2>5. phase' # "done" /\ phase' # "idle"
    BY <1>2 DEF Discover
  <2>. QED
    BY <2>4, <2>5 DEF Progress, DiscoveryComplete
<1>3. ASSUME NEW n \in 0..PerRsp, NEW items \in [1..n -> Asked],
             ServerAnswers(items)
      PROVE  Progress' /\ DiscoveryComplete'
  <2>1. n \in Nat /\ ~rogue
    BY <1>3, ServerAssumption DEF ServerAnswers
  <2>2. CASE Asked = {} /\ items = <<>> /\ Callback(Reply("not_found", items))
    BY <1>3, <2>1, <2>2, NotFoundComplete DEF ServerAnswers
  <2>3. CASE items # <<>> /\ Conforms(items) /\ Callback(Reply("ok", items))
    BY <2>1, <2>3, AnswerComplete
  <2>. QED
    BY <1>3, <2>2, <2>3 DEF ServerAnswers
<1>4. ASSUME ServerFails PROVE Progress' /\ DiscoveryComplete'
  <2>1. phase' = "done" /\ err' = "error"
    BY <1>4 DEF ServerFails, Callback, PrimaryByUuidCb, PrimaryAllCb,
                CharDiscoveredCb, DescDiscoveredCb, Reply, Fail, Finish
  <2>. QED
    BY <2>1 DEF Progress, DiscoveryComplete
<1>5. ASSUME NEW status, NEW items, RogueAnswers(status, items)
      PROVE  Progress' /\ DiscoveryComplete'
  <2>1. rogue' /\ phase = "wait"
    BY <1>5 DEF RogueAnswers, Callback, client, PrimaryByUuidCb, PrimaryAllCb,
                CharDiscoveredCb, DescDiscoveredCb, Waiting
  <2>2. phase' # "idle"
    BY <1>5, <2>1 DEF RogueAnswers, Callback, PrimaryByUuidCb, PrimaryAllCb,
                      CharDiscoveredCb, DescDiscoveredCb, Fail, GoOn, Finish, Ask
  <2>. QED
    BY <2>1, <2>2 DEF Progress, DiscoveryComplete
<1>. QED
  BY <1>1, <1>2, <1>3, <1>4, <1>5 DEF Next, Server

-----------------------------------------------------------------------------
(* Theorems *)

\* The inductive invariant.
Inv == Position /\ Progress /\ DiscoveryComplete

\* It holds of a client that has started nothing.
LEMMA InvInit == Init => Inv
BY HandleAssumption
   DEF Init, Inv, Position, Progress, DiscoveryComplete, Handle

\* Every step keeps it.
LEMMA InvNext == Inv /\ [Next]_vars => Inv'
BY PositionStep, CompleteStep DEF Inv

\* With a server that keeps to the protocol, whatever its database, however
\* wide the handles are and however few items a response has room for, a
\* discovery of gatt.c that reports success has found exactly what the client
\* looked for, in order, and one that reports "not found" had nothing to find.
THEOREM DiscoveryCompleteCorrect == Spec => []DiscoveryComplete
<1>1. Inv => DiscoveryComplete
  BY DEF Inv
<1>. QED
  BY <1>1, InvInit, InvNext, PTL DEF Spec

\* A discovery never asks for the same handles twice, however wide the handles
\* are and whatever the server answers, for the guards of primary_by_uuid_cb,
\* primary_all_cb and desc_discovered_cb hold; but for the search for
\* characteristics, which goes on at handle 0 when a server that does not keep
\* to the protocol lists one at 0xffff.
THEOREM ForwardOnlyCorrect == Spec => ForwardOnly
<1>1. Inv /\ [Next]_vars
        => [phase = "wait" /\ phase' = "wait" => req' > req \/ Wrapped']_vars
  <2>. SUFFICES ASSUME Inv, [Next]_vars, ~ UNCHANGED vars,
                       phase = "wait", phase' = "wait"
                PROVE  req' > req \/ Wrapped'
    OBVIOUS
  <2>0. PICK n \in Nat : \E items \in [1..n -> Item] :
            /\ Answered(items)
            /\ rogue \/ items = <<>> \/ items \in [1..n -> Asked]
    <3>1. ASSUME NEW p \in Procs, NEW s \in Handle, NEW e \in Handle,
                 NEW u \in BOOLEAN, NEW bad \in BOOLEAN, NEW up \in BOOLEAN,
                 Discover(p, s, e, u, bad, up)
          PROVE  FALSE
      BY <3>1 DEF Discover
    <3>. QED
      BY <3>1, StepKinds DEF Inv
  <2>1. PICK items \in [1..n -> Item] :
            /\ Answered(items)
            /\ rogue \/ items = <<>> \/ items \in [1..n -> Asked]
    BY <2>0
  <2>2. ASSUME proc = "char", ~rogue, NEW i \in DOMAIN items
        PROVE  items[i].h # MaxHandle
    <3>1. items # <<>>
      BY <2>2
    <3>2. items[i] \in Asked
      BY <2>1, <2>2, <3>1
    <3>3. items[i] \in Database("char", end)
      BY <2>2, <3>2 DEF Inv, Progress, Asked
    <3>. QED
      BY <3>3, HandleAssumption DEF Database, Item, Handle
  <2>3. UNCHANGED <<rogue, proc>>
    BY <2>1 DEF Answered, Callback, client
  <2>4. \/ req' > req
        \/ /\ proc = "char" /\ req' = 0
           /\ \E i \in DOMAIN items : items[i].h = MaxHandle
    BY <2>1, CallbackForward DEF Inv, Answered
  <2>. QED
    BY <2>2, <2>3, <2>4 DEF Wrapped
<1>. QED
  BY <1>1, InvInit, InvNext, PTL DEF Spec, ForwardOnly

\* An answer ends the procedure, or one more request is on the air.
LEMMA AnswerEnds ==
    ASSUME NEW items, Answered(items)
    PROVE  /\ phase = "wait"
           /\ \/ UNCHANGED <<phase, calls, refs>>
              \/ phase' = "done" /\ calls' = calls + 1 /\ refs' = refs - 1
<1>1. PICK status : Callback(Reply(status, items))
  BY DEF Answered
<1>2. ASSUME NEW e, Finish(e)
      PROVE  phase' = "done" /\ calls' = calls + 1 /\ refs' = refs - 1
  BY <1>2 DEF Finish
<1>3. ASSUME NEW e, Fail(e)
      PROVE  phase' = "done" /\ calls' = calls + 1 /\ refs' = refs - 1
  BY <1>3 DEF Fail, Finish
<1>4. ASSUME NEW last, NEW more, GoOn(last, more)
      PROVE  \/ UNCHANGED <<phase, calls, refs>>
             \/ phase' = "done" /\ calls' = calls + 1 /\ refs' = refs - 1
  BY <1>4 DEF GoOn, Ask, Finish
<1>. QED
  BY <1>1, <1>2, <1>3, <1>4
     DEF Callback, Waiting, PrimaryByUuidCb, PrimaryAllCb, CharDiscoveredCb,
         DescDiscoveredCb

\* Whatever the server answers and however the client's request fails, its
\* function is called exactly once, when the procedure ends, and the record of
\* the procedure (discover_primary_free and its like) is released with the
\* last request and not before.
THEOREM EndsOnceCorrect == Spec => []EndsOnce
<1>. DEFINE Fresh == phase = "idle" => calls = 0
<1>1. Init => EndsOnce /\ Fresh
  BY DEF Init, EndsOnce
<1>2. Inv /\ EndsOnce /\ Fresh /\ [Next]_vars => EndsOnce' /\ Fresh'
  <2>. SUFFICES ASSUME Inv, EndsOnce, Fresh, [Next]_vars
                PROVE  EndsOnce' /\ Fresh'
    OBVIOUS
  <2>1. CASE UNCHANGED vars
    BY <2>1 DEF vars, EndsOnce
  <2>2. ASSUME NEW p \in Procs, NEW s \in Handle, NEW e \in Handle,
               NEW u \in BOOLEAN, NEW bad \in BOOLEAN, NEW up \in BOOLEAN,
               Discover(p, s, e, u, bad, up)
        PROVE  EndsOnce' /\ Fresh'
    BY <2>2 DEF Discover, EndsOnce
  <2>3. ASSUME NEW items, Answered(items) PROVE EndsOnce' /\ Fresh'
    BY <2>3, AnswerEnds DEF EndsOnce
  <2>. QED
    BY <2>1, <2>2, <2>3, StepKinds DEF Inv
<1>. QED
  BY <1>1, <1>2, InvInit, InvNext, PTL DEF Spec
=============================================================================
