--------------------------- MODULE GAttribProofs ---------------------------
(* The records, the pairs and the handlers of a GAttrib stay in order        *)
(* whatever the client's functions call from inside it: for every number of *)
(* records and references and every depth of calls.                         *)
EXTENDS GAttrib, TLAPS, SequenceTheorems, WellFoundedInduction

-----------------------------------------------------------------------------
(* The invariant *)

Kind   == {"result", "destroy", "notify", "walk", "all", "disconnect"}
Frames == [k : Kind, cb : CbId \cup {Null}, held : BOOLEAN, next : CbId \cup {Null}]
Op     == [id : Nat, cb : CbId]

TypeOK ==
    /\ refs \in Nat /\ att \in BOOLEAN /\ chan \in BOOLEAN
    /\ cbs \subseteq CbId /\ track \in Seq(CbId)
    /\ pair \in [CbId -> [org : Nat, pend : Nat, addr : Addr \cup {Null}]]
    /\ ops \in Seq(Op) /\ flush \in Seq(Op) /\ notes \in Seq(CbId)
    /\ ncb \in 0..MaxCb /\ nextId \in Nat \ {0}
    /\ stack \in Seq(Frames)
    /\ dtor \in [CbId -> Nat] /\ strays \subseteq CbId
    /\ uaf \in BOOLEAN /\ lastInside \in BOOLEAN
    /\ pulled \in BOOLEAN /\ reentered \in BOOLEAN

\* A record is in the queue until it is destroyed, and with the GAttrib all
\* records go.
Records ==
    /\ \A c \in cbs : c <= ncb
    /\ \A c \in CbId : dtor[c] = IF c <= ncb /\ c \notin cbs THEN 1 ELSE 0
    /\ ~alive => cbs = {}
    /\ ~att => ~alive
    /\ alive => ~lastInside

\* x is the record of a request that the bearer or a function has hold of.
AskedOps(x) == \E i \in 1..Len(ops) : ops[i].cb = x
AskedFlush(x) == \E i \in 1..Len(flush) : flush[i].cb = x
AskedOn(s, x) == \E i \in 1..Len(s) : s[i].k \in {"result", "destroy"} /\ s[i].cb = x
Asked(x) == AskedOps(x) \/ AskedFlush(x) \/ AskedOn(stack, x)

\* A record belongs to requests or to one handler.
Handlers ==
    /\ \A i, j \in 1..Len(notes) : i # j => notes[i] # notes[j]
    /\ \A i \in 1..Len(notes) : /\ notes[i] <= ncb /\ ~Asked(notes[i])
                                /\ alive => notes[i] \in cbs
    /\ \A c \in CbId : Asked(c) => c <= ncb

\* What calls what.
Shape(s) ==
    \A i \in 1..Len(s) :
        /\ (s[i].k \in {"walk", "disconnect"} \/ s[i].held) => i = 1
        /\ s[i].k = "notify" => (i = 2 /\ s[1].k = "walk")
        /\ s[i].k = "result" => (i = 1 \/ (i = 2 /\ s[1].k = "disconnect"))
        /\ s[i].k \in {"result", "destroy", "notify"} => s[i].cb # Null
        /\ (s[1].k = "walk" /\ i = 2) => s[2].k = "notify"
        /\ s[i].held => s[i].k \in {"result", "destroy"}

\* A disconnection is handled once, by a bearer that goes with the GAttrib.
Ending == \A i \in 1..Len(stack) : stack[i].k = "disconnect" => (~chan /\ (att => alive))

\* A request has an id of its own, and is in one place of the bearer.
Requests ==
    /\ \A i, j \in 1..Len(ops) : i # j => ops[i].cb # ops[j].cb
    /\ \A i, j \in 1..Len(flush) : i # j => flush[i].cb # flush[j].cb
    /\ \A i \in 1..Len(ops) : ops[i].id = pair[ops[i].cb].pend /\ ops[i].id # 0
    /\ \A c \in CbId : pair[c].pend < nextId
    /\ \A c, d \in CbId : (pair[c].pend = pair[d].pend /\ pair[c].pend # 0) => c = d
    /\ ~chan => ops = <<>>
    /\ chan => flush = <<>>

\* The bearer lists no request that was destroyed but the one on the air, while
\* its destroy function runs; and one it does not list is not destroyed before
\* its callback has returned.
OnAir(s, x) ==
    \E j \in 1..Len(s) : s[j].k = "destroy" /\ s[j].cb = x /\ s[j].next = x

ListedOps == \A i \in 1..Len(ops) : dtor[ops[i].cb] = 0 \/ OnAir(stack, ops[i].cb)

Dying == \A j \in 1..Len(stack) : stack[j].k = "destroy" => dtor[stack[j].cb] = 1

Unlisted ==
    \A j \in 1..Len(stack) : (stack[j].k = "result" /\ ~stack[j].held) =>
        /\ dtor[stack[j].cb] = 0
        /\ ~AskedOps(stack[j].cb) /\ ~AskedFlush(stack[j].cb)

Listed == /\ ListedOps /\ Dying /\ Unlisted
          /\ \A i \in 1..Len(flush) : dtor[flush[i].cb] = 0

\* The record d exists, so that its address may be looked up.
Exists(d) == dtor[d] = 0 \/ \E i \in 1..Len(stack) : stack[i].cb = d

\* The pairs that are tracked.
Pairs ==
    /\ \A i, j \in 1..Len(track) :
           i # j => (track[i] # track[j] /\ pair[track[i]].addr # pair[track[j]].addr)
    /\ \A i \in 1..Len(track) : track[i] <= ncb /\ pair[track[i]].addr # Null
    /\ \A c \in CbId : c > ncb => (pair[c].pend = 0 /\ pair[c].addr = Null)
    /\ \A i \in 1..Len(track), d \in CbId :
           (track[i] \notin strays /\ d # track[i] /\ Exists(d))
               => pair[d].addr # pair[track[i]].addr

\* A request that can be cancelled, and that no other call may make stray.
Live(c) == dtor[c] = 0 /\ c \notin strays /\ AskedOps(c)

\* g_attrib_cancel_all has cancelled what is before the entry it looks at next.
SweptTo(x) ==
    /\ x <= ncb
    /\ x = Null => \A c \in CbId : ~Live(c)
    /\ \A i \in 1..Len(track) : track[i] = x =>
           \A c \in CbId : Live(c) => \E l \in 1..Len(track) : l >= i /\ track[l] = c

Swept == \A j \in 1..Len(stack) : stack[j].k = "all" => SweptTo(stack[j].next)

\* The client does none of the three things that FreedUntouched excludes.
Calm == ~lastInside /\ ~pulled /\ ~reentered

\* What this guarantees: handle_notify and g_attrib_cancel_all find the entry
\* they look at next, or are told that there is none.
WalkSafe(j) ==
    \/ stack[j].next = Null
    \/ \E i \in 1..Len(notes) : notes[i] = stack[j].next
    \/ notes = <<>> /\ j # Len(stack)

AllSafe(j) ==
    /\ stack[j].next = Null \/ \E i \in 1..Len(track) : track[i] = stack[j].next
    /\ j # Len(stack) =>
           /\ j + 1 = Len(stack) /\ Top.k = "destroy"
           /\ stack[j].next # Null => pair[Top.cb].addr # pair[stack[j].next].addr

Safe ==
    /\ ~uaf
    /\ ~alive => (stack = <<>> /\ ~att)
    /\ \A j \in 1..Len(stack) : /\ stack[j].k = "walk" => WalkSafe(j)
                                /\ stack[j].k = "all" => AllSafe(j)

Kept == TypeOK /\ Records /\ Handlers /\ Shape(stack) /\ Ending
Asking == Requests /\ (alive => (Listed /\ Pairs /\ Cancellable /\ Swept))

-----------------------------------------------------------------------------
(* Sequences *)

\* A set of numbers has a smallest one.
LEMMA Smallest ==
    ASSUME NEW S \in SUBSET Nat, S # {}
    PROVE  \E x \in S : \A y \in S : x <= y
<1>1. PICK x \in S : \A y \in S : ~ (<<y, x>> \in OpToRel(<, Nat))
  BY NatLessThanWellFounded, WFMin
<1>2. \A y \in S : ~(y < x)
  BY <1>1 DEF OpToRel
<1> QED
  BY <1>2

\* t is s without the element at i: what is after it moves up.
Closed(s, t, i) ==
    /\ Len(t) = Len(s) - 1
    /\ \A l \in 1..Len(s) : l < i => t[l] = s[l]
    /\ \A l \in 1..Len(s) : l > i => t[l - 1] = s[l]

\* What RemoveAt returns.
LEMMA RemoveAtFacts ==
    ASSUME NEW T, NEW s \in Seq(T), NEW i \in 1..Len(s)
    PROVE  RemoveAt(s, i) \in Seq(T) /\ Closed(s, RemoveAt(s, i), i)
<1> DEFINE a == SubSeq(s, 1, i - 1)
           b == SubSeq(s, i + 1, Len(s))
<1>1. /\ a \in Seq(T) /\ Len(a) = i - 1 /\ \A l \in 1..(i - 1) : a[l] = s[l]
      /\ b \in Seq(T) /\ Len(b) = Len(s) - i
      /\ \A l \in 1..(Len(s) - i) : b[l] = s[l + i]
  OBVIOUS
<1>2. RemoveAt(s, i) = a \o b
  BY DEF RemoveAt
<1> HIDE DEF a, b
<1>3. /\ a \o b \in Seq(T) /\ Len(a \o b) = Len(s) - 1
      /\ \A l \in 1..(i - 1) : (a \o b)[l] = s[l]
  <2>1. a \o b \in Seq(T) /\ Len(a \o b) = Len(a) + Len(b)
    BY <1>1, ConcatProperties
  <2>2. \A l \in 1..Len(a) : (a \o b)[l] = a[l]
    BY <1>1, ConcatProperties
  <2> QED
    BY <1>1, <2>1, <2>2
<1>4. ASSUME NEW l \in 1..Len(s), l > i PROVE (a \o b)[l - 1] = s[l]
  <2>1. (a \o b)[l - 1] = b[l - i]
    BY <1>1, <1>4
  <2>2. b[l - i] = s[l]
    BY <1>1, <1>4
  <2> QED
    BY <2>1, <2>2
<1>5. Len(s) \in Nat /\ i \in 1..Len(s)
  OBVIOUS
<1> QED
  BY <1>2, <1>3, <1>4, <1>5 DEF Closed

\* The elements of a sequence with one removed are those of the others.
LEMMA ClosedFacts ==
    ASSUME NEW T, NEW s \in Seq(T), NEW t \in Seq(T), NEW i \in 1..Len(s),
           Closed(s, t, i)
    PROVE  /\ \A m \in 1..Len(t) : \E l \in 1..Len(s) :
                  /\ l # i /\ t[m] = s[l]
                  /\ l = IF m < i THEN m ELSE m + 1
           /\ \A l \in 1..Len(s) : l # i => \E m \in 1..Len(t) : t[m] = s[l]
<1>1. ASSUME NEW m \in 1..Len(t)
      PROVE  \E l \in 1..Len(s) : l # i /\ t[m] = s[l] /\ l = IF m < i THEN m ELSE m + 1
  <2>1. CASE m < i
    <3>1. m \in 1..Len(s) /\ m # i /\ t[m] = s[m]
      BY <2>1 DEF Closed
    <3> QED
      BY <2>1, <3>1
  <2>2. CASE ~(m < i)
    <3>1. m + 1 \in 1..Len(s) /\ m + 1 > i /\ (m + 1) - 1 = m
      BY <2>2 DEF Closed
    <3>2. t[(m + 1) - 1] = s[m + 1]
      BY <3>1 DEF Closed
    <3> QED
      BY <2>2, <3>1, <3>2
  <2> QED
    BY <2>1, <2>2
<1>2. ASSUME NEW l \in 1..Len(s), l # i PROVE \E m \in 1..Len(t) : t[m] = s[l]
  <2>1. CASE l < i
    <3>1. t[l] = s[l] /\ l \in 1..Len(t)
      BY <2>1 DEF Closed
    <3> QED
      BY <3>1
  <2>2. CASE l > i
    <3>1. t[l - 1] = s[l] /\ l - 1 \in 1..Len(t)
      BY <2>2 DEF Closed
    <3> QED
      BY <3>1
  <2> QED
    BY <1>2, <2>1, <2>2
<1> QED
  BY <1>1, <1>2

\* What is left of a sequence was in it.
LEMMA ClosedSub ==
    ASSUME NEW T, NEW s \in Seq(T), NEW t \in Seq(T), NEW i \in 1..Len(s),
           Closed(s, t, i)
    PROVE  \A m \in 1..Len(t) : \E l \in 1..Len(s) : t[m] = s[l]
<1>1. \A m \in 1..Len(t) : \E l \in 1..Len(s) :
         l # i /\ t[m] = s[l] /\ l = IF m < i THEN m ELSE m + 1
  BY ClosedFacts
<1> QED
  BY <1>1, Zenon

\* What was elsewhere in a sequence is left.
LEMMA ClosedKeeps ==
    ASSUME NEW T, NEW s \in Seq(T), NEW t \in Seq(T), NEW i \in 1..Len(s),
           Closed(s, t, i)
    PROVE  \A l \in 1..Len(s) : l # i => \E m \in 1..Len(t) : t[m] = s[l]
  BY ClosedFacts

\* queue_remove takes away the first element of S, if there is one.
LEMMA WithoutFacts ==
    ASSUME NEW T, NEW s \in Seq(T), NEW S
    PROVE  /\ Without(s, S) \in Seq(T)
           /\ \/ /\ Without(s, S) = s
                 /\ \A i \in 1..Len(s) : s[i] \notin S
              \/ \E i \in 1..Len(s) : s[i] \in S /\ Closed(s, Without(s, S), i)
<1> DEFINE I == {i \in 1..Len(s) : s[i] \in S}
<1>1. CASE I = {}
  <2>1. Without(s, S) = s
    BY <1>1 DEF Without, RemoveFirstMatch
  <2> QED
    BY <1>1, <2>1
<1>2. CASE I # {}
  <2>1. I \in SUBSET Nat
    OBVIOUS
  <2>2. \E x \in I : \A y \in I : x <= y
    BY <1>2, <2>1, Smallest
  <2>3. Min(I) \in I
    BY <2>2 DEF Min
  <2>4. Without(s, S) = RemoveAt(s, Min(I))
    BY <1>2 DEF Without, RemoveFirstMatch, SelectInSeq
  <2> QED
    BY <2>3, <2>4, RemoveAtFacts
<1> QED
  BY <1>1, <1>2

\* Append and the last element.
LEMMA AppendFacts ==
    ASSUME NEW T, NEW s \in Seq(T), NEW e \in T
    PROVE  /\ Append(s, e) \in Seq(T) /\ Len(Append(s, e)) = Len(s) + 1
           /\ \A i \in 1..Len(s) : Append(s, e)[i] = s[i]
           /\ Append(s, e)[Len(s) + 1] = e
  OBVIOUS

\* What is left when the first element is taken away.
LEMMA TailFacts ==
    ASSUME NEW T, NEW s \in Seq(T), s # <<>>
    PROVE  /\ Head(s) = s[1] /\ Head(s) \in T /\ 1 \in 1..Len(s)
           /\ Tail(s) \in Seq(T) /\ Len(Tail(s)) = Len(s) - 1
           /\ \A i \in 1..(Len(s) - 1) : Tail(s)[i] = s[i + 1]
  OBVIOUS

\* A call returns: the frames below it stay.
LEMMA PopFacts ==
    ASSUME NEW T, stack \in Seq(T), stack # <<>>
    PROVE  /\ Len(stack) \in 1..Len(stack) /\ Top = stack[Len(stack)] /\ Top \in T
           /\ Pop \in Seq(T) /\ Len(Pop) = Len(stack) - 1
           /\ \A i \in 1..(Len(stack) - 1) : Pop[i] = stack[i]
<1>1. Len(stack) \in Nat /\ Len(stack) # 0
  OBVIOUS
<1>2. Len(stack) \in 1..Len(stack) /\ stack[Len(stack)] \in T
  BY <1>1
<1>3. /\ SubSeq(stack, 1, Len(stack) - 1) \in Seq(T)
      /\ Len(SubSeq(stack, 1, Len(stack) - 1)) = Len(stack) - 1
      /\ \A i \in 1..(Len(stack) - 1) : SubSeq(stack, 1, Len(stack) - 1)[i] = stack[i]
  <2>1. \A n \in 0..Len(stack) :
           /\ SubSeq(stack, 1, n) \in Seq(T) /\ Len(SubSeq(stack, 1, n)) = n
           /\ \A i \in 1..n : SubSeq(stack, 1, n)[i] = stack[i]
    <3> TAKE n \in 0..Len(stack)
    <3>1. n \in Int /\ 1 \in Int /\ \A i \in 1..n : stack[i] \in T
      BY <1>1
    <3>2. /\ SubSeq(stack, 1, n) \in Seq(T)
          /\ Len(SubSeq(stack, 1, n)) = IF 1 <= n THEN n - 1 + 1 ELSE 0
          /\ \A i \in 1..(n - 1 + 1) : SubSeq(stack, 1, n)[i] = stack[1 + i - 1]
      BY <3>1, SubSeqProperties
    <3> QED
      BY <1>1, <3>2
  <2>2. Len(stack) - 1 \in 0..Len(stack)
    BY <1>1
  <2> QED
    BY <2>1, <2>2
<1> QED
  BY <1>2, <1>3 DEF Top, Pop

\* A frame and its parts.
LEMMA FrameFacts ==
    ASSUME NEW k \in Kind, NEW cb \in CbId \cup {Null}, NEW held \in BOOLEAN,
           NEW next \in CbId \cup {Null}
    PROVE  /\ Frame(k, cb, held, next) \in Frames
           /\ Frame(k, cb, held, next).k = k /\ Frame(k, cb, held, next).cb = cb
           /\ Frame(k, cb, held, next).held = held
           /\ Frame(k, cb, held, next).next = next
  BY DEF Frame, Frames

\* The types of what the queues hold.
LEMMA TypeFacts ==
    ASSUME TypeOK
    PROVE  /\ \A i \in 1..Len(ops) : /\ ops[i] \in Op /\ ops[i].cb \in CbId
                                    /\ ops[i].id \in Nat
           /\ \A i \in 1..Len(flush) : flush[i] \in Op /\ flush[i].cb \in CbId
           /\ \A i \in 1..Len(track) : track[i] \in CbId
           /\ \A i \in 1..Len(notes) : notes[i] \in CbId
           /\ \A i \in 1..Len(stack) :
                  /\ stack[i] \in Frames /\ stack[i].k \in Kind
                  /\ stack[i].held \in BOOLEAN
                  /\ stack[i].cb \in CbId \cup {Null}
                  /\ stack[i].next \in CbId \cup {Null}
           /\ \A c \in CbId : pair[c].pend \in Nat /\ pair[c].addr \in Addr \cup {Null}
           /\ MaxCb \in Nat /\ ncb \in Nat /\ CbId \subseteq Nat /\ Null \notin CbId
<1>1. \A i \in 1..Len(ops) : ops[i] \in Op
  BY DEF TypeOK
<1>2. \A i \in 1..Len(flush) : flush[i] \in Op
  BY DEF TypeOK
<1>3. \A o \in Op : o.cb \in CbId /\ o.id \in Nat
  BY DEF Op
<1>4. \A i \in 1..Len(stack) : stack[i] \in Frames
  BY DEF TypeOK
<1>5. \A f \in Frames : /\ f.k \in Kind /\ f.held \in BOOLEAN
                         /\ f.cb \in CbId \cup {Null} /\ f.next \in CbId \cup {Null}
  BY DEF Frames
<1>6. /\ \A i \in 1..Len(track) : track[i] \in CbId
      /\ \A i \in 1..Len(notes) : notes[i] \in CbId
  <2>1. track \in Seq(CbId) /\ notes \in Seq(CbId)
    BY DEF TypeOK
  <2> QED
    BY <2>1
<1>7. \A c \in CbId : pair[c].pend \in Nat /\ pair[c].addr \in Addr \cup {Null}
  BY DEF TypeOK
<1>8. MaxCb \in Nat /\ ncb \in Nat /\ CbId \subseteq Nat /\ Null \notin CbId
  BY BoundAssumption DEF TypeOK, CbId, Null
<1> QED
  BY <1>1, <1>2, <1>3, <1>4, <1>5, <1>6, <1>7, <1>8

\* The entry after x is looked up.
LEMMA NextOfFacts ==
    ASSUME NEW s \in Seq(CbId), NEW x
    PROVE  /\ NextOf(s, x) \in CbId \cup {Null}
           /\ \/ NextOf(s, x) = Null /\ \A i \in 2..Len(s) : s[i - 1] # x
              \/ \E i \in 2..Len(s) : s[i - 1] = x /\ NextOf(s, x) = s[i]
<1> DEFINE later == {i \in 2..Len(s) : s[i - 1] = x}
<1>1. CASE later = {}
  <2>1. NextOf(s, x) = Null
    BY <1>1 DEF NextOf
  <2> QED
    BY <1>1, <2>1
<1>2. CASE later # {}
  <2>1. PICK i \in later : i = CHOOSE j \in later : TRUE
    BY <1>2
  <2>2. NextOf(s, x) = s[i]
    BY <1>2, <2>1 DEF NextOf
  <2>3. i \in 2..Len(s) /\ s[i - 1] = x /\ i \in 1..Len(s)
    BY <2>1
  <2> QED
    BY <2>2, <2>3
<1> QED
  BY <1>1, <1>2

-----------------------------------------------------------------------------
(* What the steps do with a record *)

\* The record cb is destroyed.
Dies(cb) ==
    /\ cb \in cbs /\ cbs' = cbs \ {cb}
    /\ dtor' = [dtor EXCEPT ![cb] = @ + 1]

\* The three outcomes of attrib_callbacks_remove.
LEMMA RemoveCbFacts ==
    ASSUME NEW cb, NEW rest, NEW held, NEW next, RemoveCb(cb, rest, held, next)
    PROVE  \/ Freed(cb) /\ uaf' = TRUE /\ UNCHANGED <<cbs, dtor, stack>>
           \/ /\ ~Freed(cb) /\ cb \notin cbs
              /\ stack' = rest /\ UNCHANGED <<cbs, dtor, uaf>>
           \/ /\ ~Freed(cb) /\ Dies(cb) /\ UNCHANGED uaf
              /\ stack' = Append(rest, Frame("destroy", cb, held, next))
  BY DEF RemoveCb, Dies

\* Only the record that is destroyed has its count raised.
LEMMA DiesFacts ==
    ASSUME TypeOK, NEW cb \in CbId, Dies(cb)
    PROVE  /\ cbs' \subseteq CbId /\ dtor' \in [CbId -> Nat]
           /\ dtor'[cb] = dtor[cb] + 1
           /\ \A c \in CbId : c # cb => dtor'[c] = dtor[c]
  BY DEF TypeOK, Dies

\* Only the records of the handlers that go have their counts raised.
LEMMA DropFacts ==
    ASSUME TypeOK, NEW S, Drop(S)
    PROVE  /\ cbs' = cbs \ S /\ cbs' \subseteq CbId /\ dtor' \in [CbId -> Nat]
           /\ \A c \in CbId : dtor'[c] = IF c \in S THEN dtor[c] + 1 ELSE dtor[c]
  BY DEF TypeOK, Drop

\* bt_att_cancel finds no such request; or it finds the one at i, takes it out
\* of its queue or leaves it on the air, and comes to its record.
NoneFound(pend, rest) ==
    /\ \A i \in 1..Len(ops) : ops[i].id # pend
    /\ stack' = rest /\ UNCHANGED <<ops, cbs, dtor, uaf>>

Found(pend, rest, i, next) ==
    /\ ops[i].id = pend /\ ops[i].cb \in CbId
    /\ RemoveCb(ops[i].cb, rest, FALSE, next)
    /\ \/ /\ ops' \in Seq(Op) /\ Closed(ops, ops', i)
          /\ next = Null /\ ~Destroying(ops[i].cb)
       \/ i = 1 /\ ops' = ops /\ next = ops[i].cb

\* The outcomes of bt_att_cancel.
LEMMA CancelFacts ==
    ASSUME TypeOK, NEW pend, NEW rest, BtAttCancel(pend, rest)
    PROVE  \/ NoneFound(pend, rest)
           \/ \E i \in 1..Len(ops), next \in CbId \cup {Null} : Found(pend, rest, i, next)
<1>1. \A i \in 1..Len(ops) : ops[i].cb \in CbId
  BY TypeFacts
<1>2. ASSUME NEW i \in 1..Len(ops), ops[i].id = pend, ~Destroying(ops[i].cb),
             ops' = RemoveAt(ops, i), RemoveCb(ops[i].cb, rest, FALSE, Null)
      PROVE  Found(pend, rest, i, Null)
  <2>1. ops' \in Seq(Op) /\ Closed(ops, ops', i)
    BY <1>2, RemoveAtFacts DEF TypeOK
  <2> QED
    BY <1>1, <1>2, <2>1 DEF Found
<1>3. ASSUME ops # <<>>, ops[1].id = pend, UNCHANGED ops,
             RemoveCb(ops[1].cb, rest, FALSE, ops[1].cb)
      PROVE  1 \in 1..Len(ops) /\ Found(pend, rest, 1, ops[1].cb)
  <2>1. 1 \in 1..Len(ops)
    BY <1>3 DEF TypeOK
  <2> QED
    BY <1>1, <1>3, <2>1 DEF Found
<1>4. CASE NoneFound(pend, rest)
  BY <1>4
<1>5. CASE \E i \in 1..Len(ops) :
              /\ ops[i].id = pend /\ ~Destroying(ops[i].cb)
              /\ ops' = RemoveAt(ops, i)
              /\ RemoveCb(ops[i].cb, rest, FALSE, Null)
  BY <1>2, <1>5
<1>6. CASE /\ ops # <<>> /\ ops[1].id = pend
           /\ RemoveCb(ops[1].cb, rest, FALSE, ops[1].cb)
           /\ UNCHANGED ops
  BY <1>1, <1>3, <1>6
<1> QED
  BY <1>4, <1>5, <1>6 DEF BtAttCancel, NoneFound

-----------------------------------------------------------------------------
(* Types *)

\* attrib_callbacks_remove keeps the types of what it changes.
LEMMA RemoveCbType ==
    ASSUME TypeOK, NEW cb \in CbId, NEW rest \in Seq(Frames), NEW held \in BOOLEAN,
           NEW next \in CbId \cup {Null}, RemoveCb(cb, rest, held, next)
    PROVE  /\ cbs' \subseteq CbId /\ dtor' \in [CbId -> Nat]
           /\ stack' \in Seq(Frames) /\ uaf' \in BOOLEAN
<1>1. Frame("destroy", cb, held, next) \in Frames
  BY FrameFacts DEF Kind
<1>2. Append(rest, Frame("destroy", cb, held, next)) \in Seq(Frames)
  BY <1>1, AppendFacts
<1>3. CASE Freed(cb) /\ uaf' = TRUE /\ UNCHANGED <<cbs, dtor, stack>>
  BY <1>3 DEF TypeOK
<1>4. CASE stack' = rest /\ UNCHANGED <<cbs, dtor, uaf>>
  BY <1>4 DEF TypeOK
<1>5. CASE /\ Dies(cb) /\ UNCHANGED uaf
           /\ stack' = Append(rest, Frame("destroy", cb, held, next))
  BY <1>2, <1>5, DiesFacts DEF TypeOK
<1> QED
  BY <1>3, <1>4, <1>5, RemoveCbFacts

\* So does bt_att_cancel.
LEMMA CancelType ==
    ASSUME TypeOK, NEW pend, NEW rest \in Seq(Frames), BtAttCancel(pend, rest)
    PROVE  /\ cbs' \subseteq CbId /\ dtor' \in [CbId -> Nat] /\ ops' \in Seq(Op)
           /\ stack' \in Seq(Frames) /\ uaf' \in BOOLEAN
<1>1. CASE NoneFound(pend, rest)
  BY <1>1 DEF NoneFound, TypeOK
<1>2. ASSUME NEW i \in 1..Len(ops), NEW next \in CbId \cup {Null},
             Found(pend, rest, i, next)
      PROVE  /\ cbs' \subseteq CbId /\ dtor' \in [CbId -> Nat] /\ ops' \in Seq(Op)
             /\ stack' \in Seq(Frames) /\ uaf' \in BOOLEAN
  <2>1. ops' \in Seq(Op)
    BY <1>2 DEF Found, TypeOK
  <2>2. ops[i].cb \in CbId /\ RemoveCb(ops[i].cb, rest, FALSE, next)
    BY <1>2 DEF Found
  <2> QED
    BY <2>1, <2>2, RemoveCbType
<1> QED
  BY <1>1, <1>2, CancelFacts

\* The types are kept.
LEMMA TypeStep ==
    ASSUME TypeOK, Shape(stack), Next
    PROVE  TypeOK'
<1> USE TypeFacts
<1>0. /\ Null \in CbId \cup {Null}
      /\ \A k \in Kind, h \in BOOLEAN, cb \in CbId \cup {Null}, x \in CbId \cup {Null} :
             Frame(k, cb, h, x) \in Frames
      /\ stack # <<>> => /\ Top \in Frames /\ Top.cb \in CbId \cup {Null}
                         /\ Top.next \in CbId \cup {Null} /\ Top.held \in BOOLEAN
                         /\ Pop \in Seq(Frames)
      /\ \A f \in Frames, s \in Seq(Frames) : Append(s, f) \in Seq(Frames)
      /\ \A k \in {"all", "walk", "result", "notify", "destroy", "disconnect"} : k \in Kind
  <2>1. \A k \in Kind, h \in BOOLEAN, cb \in CbId \cup {Null}, x \in CbId \cup {Null} :
             Frame(k, cb, h, x) \in Frames
    BY FrameFacts
  <2>2. stack # <<>> => Top \in Frames /\ Pop \in Seq(Frames)
    BY PopFacts DEF TypeOK
  <2>3. \A f \in Frames : /\ f.cb \in CbId \cup {Null} /\ f.held \in BOOLEAN
                          /\ f.next \in CbId \cup {Null}
    BY DEF Frames
  <2>4. \A f \in Frames, s \in Seq(Frames) : Append(s, f) \in Seq(Frames)
    BY AppendFacts
  <2> QED
    BY <2>1, <2>2, <2>3, <2>4 DEF Kind
<1>1. ASSUME NEW id \in Ids, Send(id) PROVE TypeOK'
  <2> DEFINE n == ncb + 1
             p == IF chan THEN nextId ELSE 0
  <2>1. n \in CbId /\ n \in 0..MaxCb /\ p \in Nat /\ id \in Nat
    BY <1>1, BoundAssumption DEF Send, Ids, CbId, TypeOK
  <2>2. [id |-> p, cb |-> n] \in Op
    BY <2>1 DEF Op
  <2>3. ops' \in Seq(Op) /\ nextId' \in Nat \ {0}
    BY <1>1, <2>2 DEF Send, TypeOK
  <2>4. PICK a \in Addr :
          /\ track' = Append(track, n)
          /\ pair' = [pair EXCEPT ![n] = [org  |-> IF id = 0 THEN p ELSE id,
                                          pend |-> p, addr |-> a]]
    BY <1>1 DEF Send, StoreId
  <2>5. strays' \subseteq CbId
    BY <1>1, <2>1 DEF Send, StoreId, TypeOK
  <2>6. cbs' \subseteq CbId /\ ncb' \in 0..MaxCb
    BY <1>1, <2>1 DEF Send, TypeOK
  <2>7. [org  |-> IF id = 0 THEN p ELSE id, pend |-> p, addr |-> a]
           \in [org : Nat, pend : Nat, addr : Addr \cup {Null}]
    BY <2>1
  <2> HIDE DEF n, p
  <2>8. /\ track' \in Seq(CbId)
        /\ pair' \in [CbId -> [org : Nat, pend : Nat, addr : Addr \cup {Null}]]
    BY <2>1, <2>4, <2>7 DEF TypeOK
  <2>9. UNCHANGED <<refs, att, chan, flush, notes, stack, uaf, dtor, lastInside,
                    pulled, reentered>>
    BY <1>1 DEF Send
  <2> QED
    BY <2>3, <2>5, <2>6, <2>8, <2>9 DEF TypeOK
<1>2. ASSUME NEW id \in Ids, Cancel(id) PROVE TypeOK'
  <2>1. PICK i \in 1..Len(track) : /\ track' = RemoveAt(track, i)
                                   /\ BtAttCancel(pair[track[i]].pend, stack)
    BY <1>2 DEF Cancel
  <2>2. track' \in Seq(CbId)
    BY <2>1, RemoveAtFacts DEF TypeOK
  <2>3. /\ cbs' \subseteq CbId /\ dtor' \in [CbId -> Nat] /\ ops' \in Seq(Op)
        /\ stack' \in Seq(Frames) /\ uaf' \in BOOLEAN
    BY <2>1, CancelType DEF TypeOK
  <2>4. reentered' \in BOOLEAN
    BY <1>2, Zenon DEF Cancel, InAll
  <2>5. UNCHANGED <<refs, pair, att, chan, flush, notes, ncb, nextId, strays,
                   lastInside, pulled>>
    BY <1>2 DEF Cancel
  <2> QED
    BY <2>2, <2>3, <2>4, <2>5 DEF TypeOK
<1>3. ASSUME CancelAll PROVE TypeOK'
  <2>1. Head(track) \in CbId
    BY <1>3, TailFacts DEF CancelAll, TypeOK
  <2>2. stack' \in Seq(Frames)
    BY <1>0, <1>3, <2>1 DEF CancelAll, Push, TypeOK
  <2>3. reentered' \in BOOLEAN
    BY <1>3, Zenon DEF CancelAll, InAll
  <2> QED
    BY <1>3, <2>2, <2>3 DEF CancelAll, TypeOK, queues, bearer
<1>4. ASSUME CancelAllNext PROVE TypeOK'
  <2>1. /\ cbs' \subseteq CbId /\ dtor' \in [CbId -> Nat] /\ ops' \in Seq(Op)
        /\ stack' \in Seq(Frames) /\ uaf' \in BOOLEAN
    <3>1. CASE uaf' = TRUE /\ UNCHANGED <<stack, ops, cbs, dtor>>
      BY <3>1 DEF TypeOK
    <3>2. CASE BtAttCancel(pair[Top.next].pend,
                Append(Pop, Frame("all", Null, FALSE, NextOf(track, Top.next))))
      <4>1. NextOf(track, Top.next) \in CbId \cup {Null}
        BY NextOfFacts DEF TypeOK
      <4>2. Append(Pop, Frame("all", Null, FALSE, NextOf(track, Top.next))) \in Seq(Frames)
        BY <1>0, <1>4, <4>1 DEF CancelAllNext, In
      <4> QED
        BY <3>2, <4>2, CancelType
    <3> QED
      BY <1>4, <3>1, <3>2 DEF CancelAllNext
  <2>2. UNCHANGED <<refs, track, pair, att, chan, flush, notes, ncb, nextId,
                    strays, lastInside, pulled, reentered>>
    BY <1>4 DEF CancelAllNext
  <2> QED
    BY <2>1, <2>2 DEF TypeOK
<1>5. ASSUME CancelAllEnd PROVE TypeOK'
  <2>1. uaf' \in BOOLEAN
    BY <1>5, Zenon DEF CancelAllEnd
  <2>2. track' \in Seq(CbId) /\ stack' \in Seq(Frames)
    BY <1>0, <1>5 DEF CancelAllEnd, In
  <2> QED
    BY <1>5, <2>1, <2>2 DEF CancelAllEnd, TypeOK, bearer, history
<1>6. ASSUME NEW held \in BOOLEAN, Result(held) PROVE TypeOK'
  <2>1. Head(ops) \in Op /\ Tail(ops) \in Seq(Op)
    BY <1>6, TailFacts DEF Result, TypeOK
  <2>2. Head(ops).cb \in CbId
    BY <2>1 DEF Op
  <2>3. stack' \in Seq(Frames) /\ ops' \in Seq(Op)
    BY <1>0, <1>6, <2>1, <2>2 DEF Result, Push, TypeOK
  <2> QED
    BY <1>6, <2>3 DEF Result, TypeOK, queues, history
<1>7. ASSUME ReturnResult PROVE TypeOK'
  <2>0. Top.cb # Null
    <3>1. stack # <<>> /\ Top.k = "result" /\ stack \in Seq(Frames)
      BY <1>7 DEF ReturnResult, In, TypeOK
    <3>2. Len(stack) \in 1..Len(stack) /\ Top = stack[Len(stack)]
      BY <3>1, PopFacts
    <3> QED
      BY <3>1, <3>2 DEF Shape
  <2>1. /\ cbs' \subseteq CbId /\ dtor' \in [CbId -> Nat]
        /\ stack' \in Seq(Frames) /\ uaf' \in BOOLEAN
    <3>1. CASE stack' = Pop /\ UNCHANGED <<cbs, dtor, uaf>>
      BY <1>0, <1>7, <3>1 DEF ReturnResult, In, TypeOK
    <3>2. CASE RemoveCb(Top.cb, Pop, Top.held, IF Top.held THEN Top.cb ELSE Null)
      <4>1. Top.cb \in CbId /\ Pop \in Seq(Frames) /\ Top.held \in BOOLEAN
        BY <1>0, <1>7, <2>0 DEF ReturnResult, In
      <4>2. (IF Top.held THEN Top.cb ELSE Null) \in CbId \cup {Null}
        BY <4>1
      <4> QED
        BY <3>2, <4>1, <4>2, RemoveCbType
    <3> QED
      BY <1>7, <3>1, <3>2 DEF ReturnResult
  <2> QED
    BY <1>7, <2>1 DEF ReturnResult, TypeOK
<1>8. ASSUME ReturnDestroy PROVE TypeOK'
  <2>1. track' \in Seq(CbId) /\ ops' \in Seq(Op)
    BY <1>8, WithoutFacts DEF ReturnDestroy, TypeOK
  <2>2. uaf' \in BOOLEAN
    BY <1>8, Zenon DEF ReturnDestroy
  <2>3. stack' \in Seq(Frames)
    BY <1>0, <1>8 DEF ReturnDestroy, In
  <2> QED
    BY <1>8, <2>1, <2>2, <2>3 DEF ReturnDestroy, TypeOK, history
<1>9. ASSUME Register PROVE TypeOK'
  <2>1. ncb + 1 \in CbId /\ ncb + 1 \in 0..MaxCb
    BY <1>9, BoundAssumption DEF Register, CbId, TypeOK
  <2>2. pulled' \in BOOLEAN
    BY <1>9, Zenon DEF Register
  <2>3. notes' \in Seq(CbId) /\ cbs' \subseteq CbId /\ ncb' \in 0..MaxCb
    BY <1>9, <2>1 DEF Register, TypeOK
  <2> QED
    BY <1>9, <2>2, <2>3 DEF Register, TypeOK
<1>10. ASSUME UnregisterAll PROVE TypeOK'
  <2>1. cbs' \subseteq CbId /\ dtor' \in [CbId -> Nat]
    BY <1>10, DropFacts DEF UnregisterAll
  <2>2. notes' \in Seq(CbId)
    BY <1>10 DEF UnregisterAll
  <2> QED
    BY <1>10, <2>1, <2>2 DEF UnregisterAll, TypeOK
<1>11. ASSUME NEW cb \in CbId, Unregister(cb) PROVE TypeOK'
  <2>1. pulled' \in BOOLEAN
    BY <1>11, Zenon DEF Unregister
  <2>2. notes' \in Seq(CbId)
    BY <1>11, WithoutFacts DEF Unregister, TypeOK
  <2>3. cbs' \subseteq CbId /\ dtor' \in [CbId -> Nat]
    BY <1>11, DropFacts DEF Unregister
  <2> QED
    BY <1>11, <2>1, <2>2, <2>3 DEF Unregister, TypeOK
<1>12. ASSUME Notify PROVE TypeOK'
  <2>1. Head(notes) \in CbId
    BY <1>12, TailFacts DEF Notify, TypeOK
  <2>2. stack' \in Seq(Frames)
    BY <1>0, <1>12, <2>1 DEF Notify, Push, TypeOK
  <2> QED
    BY <1>12, <2>2 DEF Notify, TypeOK, queues, bearer, history
<1>13. ASSUME WalkEnd PROVE TypeOK'
  <2>1. stack' \in Seq(Frames)
    BY <1>0, <1>13 DEF WalkEnd, In
  <2> QED
    BY <1>13, <2>1 DEF WalkEnd, TypeOK, queues, bearer, history
<1>14. ASSUME NEW match \in BOOLEAN, WalkNext(match) PROVE TypeOK'
  <2> DEFINE w == Frame("walk", Null, FALSE, NextOf(notes, Top.next))
             t == Frame("notify", Top.next, FALSE, Null)
  <2>1. NextOf(notes, Top.next) \in CbId \cup {Null}
    BY NextOfFacts DEF TypeOK
  <2>2. w \in Frames /\ t \in Frames /\ Pop \in Seq(Frames)
    BY <1>0, <1>14, <2>1 DEF WalkNext, In
  <2> HIDE DEF w, t
  <2>3. \/ uaf' = TRUE /\ stack' = stack
        \/ /\ uaf' = uaf
           /\ stack' = Append(Pop, w) \o (IF match THEN <<t>> ELSE <<>>)
    BY <1>14 DEF WalkNext, w, t
  <2>4. Append(Pop, w) \in Seq(Frames)
    BY <2>2, AppendFacts
  <2>5. (IF match THEN <<t>> ELSE <<>>) \in Seq(Frames)
    BY <2>2
  <2>6. Append(Pop, w) \o (IF match THEN <<t>> ELSE <<>>) \in Seq(Frames)
    BY <2>4, <2>5, ConcatProperties
  <2>7. stack' \in Seq(Frames) /\ uaf' \in BOOLEAN
    BY <2>3, <2>6 DEF TypeOK
  <2> QED
    BY <1>14, <2>7 DEF WalkNext, TypeOK, queues, bearer, history
<1>15. ASSUME ReturnNotify PROVE TypeOK'
  <2>1. Len(stack) - 2 \in Int /\ \A i \in 1..(Len(stack) - 2) : stack[i] \in Frames
    BY DEF TypeOK
  <2>2. SubSeq(stack, 1, Len(stack) - 2) \in Seq(Frames)
    BY <2>1, SubSeqProperties
  <2>3. stack' \in Seq(Frames)
    BY <1>0, <1>15, <2>2 DEF ReturnNotify, In
  <2> QED
    BY <1>15, <2>3 DEF ReturnNotify, TypeOK, queues, bearer, history
<1>16. ASSUME Disconnect PROVE TypeOK'
  <2>0. chan' \in BOOLEAN /\ ops' = <<>>
    BY <1>16, Zenon DEF Disconnect
  <2>3. UNCHANGED <<refs, cbs, track, pair, att, notes, nextId, ncb, uaf, dtor,
                    strays, lastInside, pulled, reentered>>
    BY <1>16, Zenon DEF Disconnect, queues, history
  <2>1. CASE ops = <<>>
    <3>1. flush' = ops
      BY <1>16, <2>1 DEF Disconnect
    <3>2. stack' \in Seq(Frames)
      BY <1>0, <1>16 DEF Disconnect, Push, TypeOK
    <3> QED
      BY <2>0, <2>3, <3>1, <3>2 DEF TypeOK
  <2>2. CASE ops # <<>>
    <3>1. Head(ops) \in Op /\ Tail(ops) \in Seq(Op)
      BY <2>2, TailFacts DEF TypeOK
    <3>2. Append(Tail(ops), Head(ops)) \in Seq(Op)
      BY <3>1, AppendFacts
    <3>3. flush' \in Seq(Op)
      BY <1>16, <2>2, <3>2 DEF Disconnect, TypeOK
    <3>4. stack' \in Seq(Frames)
      BY <1>0, <1>16 DEF Disconnect, Push, TypeOK
    <3> QED
      BY <2>0, <2>3, <3>3, <3>4 DEF TypeOK
  <2> QED
    BY <2>1, <2>2
<1>17. ASSUME DisconnectNext PROVE TypeOK'
  <2>1. Head(flush) \in Op /\ Tail(flush) \in Seq(Op)
    BY <1>17, TailFacts DEF DisconnectNext, TypeOK
  <2>2. Head(flush).cb \in CbId
    BY <2>1 DEF Op
  <2>3. Push(Frame("result", Head(flush).cb, FALSE, Null)) \in Seq(Frames)
    BY <1>0, <2>2 DEF Push, TypeOK
  <2>4. stack' \in Seq(Frames) /\ flush' \in Seq(Op) /\ uaf' \in BOOLEAN
    BY <1>17, <2>1, <2>3 DEF DisconnectNext, TypeOK
  <2> QED
    BY <1>17, <2>4 DEF DisconnectNext, TypeOK, queues, history
<1>18. ASSUME DisconnectEnd PROVE TypeOK'
  <2>1. stack' \in Seq(Frames)
    BY <1>0, <1>18 DEF DisconnectEnd, In
  <2>2. /\ notes' \in Seq(CbId) /\ cbs' \subseteq CbId /\ dtor' \in [CbId -> Nat]
        /\ uaf' \in BOOLEAN
    <3>1. CASE att
      BY <1>18, <3>1, DropFacts DEF DisconnectEnd, TypeOK
    <3>2. CASE ~att
      BY <1>18, <3>2 DEF DisconnectEnd, TypeOK
    <3> QED
      BY <3>1, <3>2
  <2> QED
    BY <1>18, <2>1, <2>2 DEF DisconnectEnd, TypeOK
<1>19. ASSUME Ref PROVE TypeOK'
  BY <1>19 DEF Ref, TypeOK, queues, bearer, history
<1>20. ASSUME Unref PROVE TypeOK'
  <2>1. refs' \in Nat
    BY <1>20 DEF Unref, ClientRuns, alive, TypeOK
  <2>2. CASE refs > 1
    BY <1>20, <2>1, <2>2 DEF Unref, TypeOK, queues, bearer, history
  <2>3. CASE ~(refs > 1)
    <3>1. lastInside' \in BOOLEAN
      BY <1>20, <2>3, Zenon DEF Unref
    <3>2. dtor' \in [CbId -> Nat]
      <4>1. dtor' = [c \in CbId |-> dtor[c] + (IF c \in cbs THEN 1 ELSE 0)]
        BY <1>20, <2>3, Zenon DEF Unref
      <4>2. dtor \in [CbId -> Nat]
        BY DEF TypeOK
      <4> QED
        BY <4>1, <4>2
    <3>3. att' \in BOOLEAN /\ chan' \in BOOLEAN
      BY <1>20, <2>3, Zenon DEF Unref, TypeOK
    <3>4. ops' \in {ops, <<>>} /\ notes' \in {notes, <<>>} /\ cbs' = {} /\ track' = <<>>
      BY <1>20, <2>3, Zenon DEF Unref
    <3>5. UNCHANGED <<pair, flush, nextId, strays, pulled, reentered, ncb, stack, uaf>>
      BY <1>20, <2>3, Zenon DEF Unref
    <3>6. /\ ops' \in Seq(Op) /\ notes' \in Seq(CbId) /\ cbs' \subseteq CbId
          /\ track' \in Seq(CbId)
      <4>1. <<>> \in Seq(Op) /\ <<>> \in Seq(CbId)
        OBVIOUS
      <4> QED
        BY <3>4, <4>1, Zenon DEF TypeOK
    <3> QED
      BY <2>1, <3>1, <3>2, <3>3, <3>5, <3>6 DEF TypeOK
  <2> QED
    BY <2>2, <2>3
<1>21. ASSUME HandlerEnd PROVE TypeOK'
  <2>1. uaf' \in BOOLEAN /\ att' \in BOOLEAN /\ chan' \in BOOLEAN
    BY <1>21, Zenon DEF HandlerEnd
  <2> QED
    BY <1>21, <2>1 DEF HandlerEnd, TypeOK, queues, history
<1> QED
  BY <1>1, <1>2, <1>3, <1>4, <1>5, <1>6, <1>7, <1>8, <1>9, <1>10, <1>11, <1>12,
     <1>13, <1>14, <1>15, <1>16, <1>17, <1>18, <1>19, <1>20, <1>21 DEF Next

-----------------------------------------------------------------------------
(* What calls what *)

\* The call f may be made on the stack s.
Onto(s, f) ==
    /\ (f.k \in {"walk", "disconnect"} \/ f.held) => Len(s) = 0
    /\ f.k = "notify" => (Len(s) = 1 /\ s[1].k = "walk")
    /\ f.k = "result" => (Len(s) = 0 \/ (Len(s) = 1 /\ s[1].k = "disconnect"))
    /\ f.k \in {"result", "destroy", "notify"} => f.cb # Null
    /\ (Len(s) = 1 /\ s[1].k = "walk") => f.k = "notify"
    /\ f.held => f.k \in {"result", "destroy"}

\* A call that may be made where it is made keeps the shape.
LEMMA ShapePush ==
    ASSUME NEW s \in Seq(Frames), NEW f \in Frames, Shape(s), Onto(s, f)
    PROVE  Shape(Append(s, f))
<1> DEFINE t == Append(s, f)
<1>1. /\ t \in Seq(Frames) /\ Len(t) = Len(s) + 1 /\ Len(s) \in Nat
      /\ \A i \in 1..Len(s) : t[i] = s[i]
      /\ t[Len(s) + 1] = f
  BY AppendFacts
<1> HIDE DEF t
<1>2. ASSUME NEW i \in 1..Len(t)
      PROVE  /\ (t[i].k \in {"walk", "disconnect"} \/ t[i].held) => i = 1
             /\ t[i].k = "notify" => (i = 2 /\ t[1].k = "walk")
             /\ t[i].k = "result" => (i = 1 \/ (i = 2 /\ t[1].k = "disconnect"))
             /\ t[i].k \in {"result", "destroy", "notify"} => t[i].cb # Null
             /\ (t[1].k = "walk" /\ i = 2) => t[2].k = "notify"
             /\ t[i].held => t[i].k \in {"result", "destroy"}
  <2>1. CASE i \in 1..Len(s)
    <3>1. t[i] = s[i] /\ t[1] = s[1] /\ (i = 2 => t[2] = s[2])
      BY <1>1, <2>1
    <3>2. /\ (s[i].k \in {"walk", "disconnect"} \/ s[i].held) => i = 1
          /\ s[i].k = "notify" => (i = 2 /\ s[1].k = "walk")
          /\ s[i].k = "result" => (i = 1 \/ (i = 2 /\ s[1].k = "disconnect"))
          /\ s[i].k \in {"result", "destroy", "notify"} => s[i].cb # Null
          /\ (s[1].k = "walk" /\ i = 2) => s[2].k = "notify"
          /\ s[i].held => s[i].k \in {"result", "destroy"}
      BY <2>1, Zenon DEF Shape
    <3> QED
      BY <3>1, <3>2
  <2>2. CASE i = Len(s) + 1
    <3>1. t[i] = f /\ (Len(s) = 1 => t[1] = s[1])
      BY <1>1, <2>2
    <3>0. Len(s) \in Nat /\ i \in Nat
      BY <1>1
    <3>2. (Len(s) = 0 => i = 1) /\ (Len(s) = 1 => i = 2) /\ (i = 2 => Len(s) = 1)
      <4>1. \A m, n \in Nat : m = n + 1 =>
                (n = 0 => m = 1) /\ (n = 1 => m = 2) /\ (m = 2 => n = 1)
        OBVIOUS
      <4> QED
        BY <2>2, <3>0, <4>1, Zenon
    <3> QED
      BY <3>1, <3>2 DEF Onto
  <2> QED
    BY <1>1, <2>1, <2>2
<1> QED
  BY <1>2 DEF Shape, t

\* Calls that return leave a stack of that shape.
LEMMA ShapePrefix ==
    ASSUME NEW s \in Seq(Frames), NEW t \in Seq(Frames), Shape(s),
           Len(t) <= Len(s), \A i \in 1..Len(t) : t[i] = s[i]
    PROVE  Shape(t)
<1> SUFFICES ASSUME NEW i \in 1..Len(t)
             PROVE  /\ (t[i].k \in {"walk", "disconnect"} \/ t[i].held) => i = 1
                    /\ t[i].k = "notify" => (i = 2 /\ t[1].k = "walk")
                    /\ t[i].k = "result" => (i = 1 \/ (i = 2 /\ t[1].k = "disconnect"))
                    /\ t[i].k \in {"result", "destroy", "notify"} => t[i].cb # Null
                    /\ (t[1].k = "walk" /\ i = 2) => t[2].k = "notify"
                    /\ t[i].held => t[i].k \in {"result", "destroy"}
  BY DEF Shape
<1>1. i \in 1..Len(s) /\ t[i] = s[i] /\ t[1] = s[1] /\ (i = 2 => t[2] = s[2])
  OBVIOUS
<1> QED
  BY <1>1 DEF Shape

\* The innermost call and those below it.
LEMMA TopOnto ==
    ASSUME TypeOK, Shape(stack), stack # <<>>
    PROVE  /\ Shape(Pop) /\ Onto(Pop, Top)
           /\ Pop \in Seq(Frames) /\ Len(Pop) = Len(stack) - 1
           /\ Len(stack) \in Nat /\ Len(stack) > 0
           /\ \A i \in 1..(Len(stack) - 1) : Pop[i] = stack[i]
           /\ Top = stack[Len(stack)] /\ Len(stack) \in 1..Len(stack)
           /\ Top \in Frames /\ Top.k \in Kind /\ Top.cb \in CbId \cup {Null}
           /\ Top.next \in CbId \cup {Null} /\ Top.held \in BOOLEAN
<1>1. /\ Len(stack) \in 1..Len(stack) /\ Top = stack[Len(stack)] /\ Top \in Frames
      /\ Pop \in Seq(Frames) /\ Len(Pop) = Len(stack) - 1
      /\ \A i \in 1..(Len(stack) - 1) : Pop[i] = stack[i]
  BY PopFacts DEF TypeOK
<1>2. Len(stack) \in Nat /\ Len(stack) > 0 /\ stack \in Seq(Frames)
  BY <1>1 DEF TypeOK
<1>3. Shape(Pop)
  BY <1>1, <1>2, ShapePrefix
<1>4. Onto(Pop, Top)
  <2> DEFINE n == Len(stack)
  <2>1. /\ (Top.k \in {"walk", "disconnect"} \/ Top.held) => n = 1
        /\ Top.k = "notify" => (n = 2 /\ stack[1].k = "walk")
        /\ Top.k = "result" => (n = 1 \/ (n = 2 /\ stack[1].k = "disconnect"))
        /\ Top.k \in {"result", "destroy", "notify"} => Top.cb # Null
        /\ (stack[1].k = "walk" /\ n = 2) => stack[2].k = "notify"
        /\ Top.held => Top.k \in {"result", "destroy"}
    BY <1>1 DEF Shape
  <2>2. /\ n = 1 => Len(Pop) = 0
        /\ n = 2 => (Len(Pop) = 1 /\ Pop[1] = stack[1] /\ stack[2] = Top)
        /\ Len(Pop) = 1 => n = 2
    BY <1>1, <1>2
  <2> QED
    BY <2>1, <2>2 DEF Onto
<1>5. /\ Top.k \in Kind /\ Top.cb \in CbId \cup {Null}
      /\ Top.next \in CbId \cup {Null} /\ Top.held \in BOOLEAN
  BY <1>1 DEF Frames
<1> QED
  BY <1>1, <1>2, <1>3, <1>4, <1>5

\* A function of the client may be interrupted by any call it makes.
LEMMA ClientOnto ==
    ASSUME TypeOK, Shape(stack), ClientRuns, NEW f \in Frames,
           f.k \in {"destroy", "all"}, ~f.held, f.k = "destroy" => f.cb # Null
    PROVE  Onto(stack, f)
<1>1. ~(Len(stack) = 1 /\ stack[1].k = "walk")
  <2> SUFFICES ASSUME Len(stack) = 1, stack[1].k = "walk" PROVE FALSE
    OBVIOUS
  <2>0. Len(<<>>) = 0
    OBVIOUS
  <2>1. stack # <<>>
    BY <2>0
  <2>2. Top.k \in {"result", "destroy", "notify"}
    BY <2>1 DEF ClientRuns
  <2> QED
    BY <2>2 DEF Top
<1> QED
  BY <1>1 DEF Onto

\* attrib_callbacks_remove on a stack where the destroy function may be called.
LEMMA RemoveCbShape ==
    ASSUME TypeOK, Shape(stack), NEW cb \in CbId, NEW rest \in Seq(Frames),
           NEW held \in BOOLEAN, NEW next \in CbId \cup {Null},
           RemoveCb(cb, rest, held, next), Shape(rest),
           Onto(rest, Frame("destroy", cb, held, next))
    PROVE  Shape(stack')
<1>1. Frame("destroy", cb, held, next) \in Frames
  BY FrameFacts DEF Kind
<1>2. Shape(Append(rest, Frame("destroy", cb, held, next)))
  BY <1>1, ShapePush
<1>3. CASE stack' = stack
  BY <1>3
<1>4. CASE stack' = rest
  BY <1>4
<1>5. CASE stack' = Append(rest, Frame("destroy", cb, held, next))
  BY <1>2, <1>5
<1> QED
  BY <1>3, <1>4, <1>5, RemoveCbFacts

\* bt_att_cancel calls a destroy function at most.
LEMMA CancelShape ==
    ASSUME TypeOK, Shape(stack), NEW pend, NEW rest \in Seq(Frames),
           BtAttCancel(pend, rest), Shape(rest),
           ~(Len(rest) = 1 /\ rest[1].k = "walk")
    PROVE  Shape(stack')
<1>1. ASSUME NEW cb \in CbId, NEW next \in CbId \cup {Null},
             RemoveCb(cb, rest, FALSE, next)
      PROVE  Shape(stack')
  <2> DEFINE f == Frame("destroy", cb, FALSE, next)
  <2>1. f.k = "destroy" /\ f.cb = cb /\ ~f.held
    BY DEF Frame
  <2>2. cb # Null
    BY TypeFacts
  <2> HIDE DEF f
  <2>3. Onto(rest, f)
    BY <2>1, <2>2 DEF Onto
  <2> QED
    BY <1>1, <2>3, RemoveCbShape DEF f
<1>2. CASE NoneFound(pend, rest)
  BY <1>2 DEF NoneFound
<1>3. ASSUME NEW i \in 1..Len(ops), NEW next \in CbId \cup {Null},
             Found(pend, rest, i, next)
      PROVE  Shape(stack')
  BY <1>1, <1>3 DEF Found
<1> QED
  BY <1>2, <1>3, CancelFacts

\* The frame of the walk that goes on, and that of the handler it calls.
WalkFrame == Frame("walk", Null, FALSE, NextOf(notes, Top.next))
NotifyFrame == Frame("notify", Top.next, FALSE, Null)

\* handle_notify stops, passes an entry or calls its handler.
LEMMA WalkNextFacts ==
    ASSUME TypeOK, Shape(stack), NEW match \in BOOLEAN, WalkNext(match)
    PROVE  /\ Len(stack) = 1 /\ Top = stack[1] /\ Top.k = "walk"
           /\ Top.next \in CbId /\ Pop = <<>>
           /\ WalkFrame \in Frames /\ NotifyFrame \in Frames
           /\ \/ uaf' = TRUE /\ UNCHANGED stack
              \/ /\ UNCHANGED uaf /\ Top.next \in ToSet(notes)
                 /\ \/ stack' = <<WalkFrame>>
                    \/ stack' = Append(<<WalkFrame>>, NotifyFrame) /\ dtor[Top.next] = 0
<1>1. stack # <<>> /\ Top.k = "walk" /\ Top.next # Null
  BY DEF WalkNext, In
<1>2. /\ Onto(Pop, Top) /\ Pop \in Seq(Frames) /\ Len(Pop) = Len(stack) - 1
      /\ Len(stack) \in Nat /\ Top = stack[Len(stack)] /\ Top.next \in CbId \cup {Null}
  BY <1>1, TopOnto
<1>3. Len(Pop) = 0
  BY <1>1, <1>2 DEF Onto
<1>4. Len(stack) = 1 /\ Pop = <<>>
  BY <1>2, <1>3
<1>5. NextOf(notes, Top.next) \in CbId \cup {Null}
  BY NextOfFacts DEF TypeOK
<1>6. WalkFrame \in Frames /\ NotifyFrame \in Frames
  BY <1>2, <1>5 DEF WalkFrame, NotifyFrame, Frame, Frames, Kind
<1>7. \/ uaf' = TRUE /\ UNCHANGED stack
      \/ /\ UNCHANGED uaf /\ Top.next \in ToSet(notes)
         /\ match => ~(dtor[Top.next] > 0)
         /\ stack' = Append(Pop, WalkFrame) \o (IF match THEN <<NotifyFrame>> ELSE <<>>)
  BY DEF WalkNext, WalkFrame, NotifyFrame
<1>8. Append(<<>>, WalkFrame) = <<WalkFrame>>
  OBVIOUS
<1>9. /\ <<WalkFrame>> \o <<NotifyFrame>> = Append(<<WalkFrame>>, NotifyFrame)
      /\ <<WalkFrame>> \o <<>> = <<WalkFrame>>
  <2>1. <<WalkFrame>> \in Seq(Frames)
    BY <1>6
  <2> QED
    BY <1>6, <2>1, AppendIsConcat, ConcatEmptySeq
<1>10. Top.next \in CbId
  BY <1>1, <1>2
<1>11. ~(dtor[Top.next] > 0) => dtor[Top.next] = 0
  BY <1>10 DEF TypeOK
<1>12. \/ uaf' = TRUE /\ UNCHANGED stack
       \/ /\ UNCHANGED uaf /\ Top.next \in ToSet(notes)
          /\ \/ stack' = <<WalkFrame>>
             \/ stack' = Append(<<WalkFrame>>, NotifyFrame) /\ dtor[Top.next] = 0
  <2>1. CASE match
    BY <1>4, <1>7, <1>8, <1>9, <1>11, <2>1, Zenon
  <2>2. CASE ~match
    BY <1>4, <1>7, <1>8, <1>9, <2>2, Zenon
  <2> QED
    BY <2>1, <2>2
<1> QED
  BY <1>1, <1>2, <1>4, <1>6, <1>10, <1>12

\* handle_notify calls a handler at most.
LEMMA WalkNextShape ==
    ASSUME TypeOK, Shape(stack), NEW match \in BOOLEAN, WalkNext(match)
    PROVE  Shape(stack')
<1> DEFINE w == WalkFrame
           n == NotifyFrame
<1>1. /\ Top.next \in CbId /\ w \in Frames /\ n \in Frames
      /\ stack' \in {stack, <<w>>, Append(<<w>>, n)}
  BY WalkNextFacts
<1>2. Top.next # Null
  BY <1>1, TypeFacts
<1>3. /\ w.k = "walk" /\ ~w.held
      /\ n.k = "notify" /\ ~n.held /\ n.cb # Null
  BY <1>2 DEF WalkFrame, NotifyFrame, Frame
<1> HIDE DEF w, n
<1>4. Shape(<<w>>) /\ <<w>> \in Seq(Frames) /\ Len(<<w>>) = 1
  <2>1. Shape(<<>>) /\ <<>> \in Seq(Frames) /\ Len(<<>>) = 0 /\ Append(<<>>, w) = <<w>>
    BY DEF Shape
  <2>2. Onto(<<>>, w)
    BY <1>3, <2>1 DEF Onto
  <2>3. Shape(Append(<<>>, w))
    BY <1>1, <2>1, <2>2, ShapePush
  <2> QED
    BY <1>1, <2>1, <2>3
<1>5. Shape(Append(<<w>>, n))
  <2>1. <<w>>[1] = w
    OBVIOUS
  <2>2. Onto(<<w>>, n)
    BY <1>3, <1>4, <2>1 DEF Onto
  <2>3. Shape(Append(<<w>>, n))
    BY <1>1, <1>4, <2>2, ShapePush
  <2> QED
    BY <2>3
<1>6. CASE stack' = stack
  BY <1>6
<1>7. CASE stack' = <<w>>
  BY <1>4, <1>7
<1>8. CASE stack' = Append(<<w>>, n)
  BY <1>5, <1>8
<1> QED
  BY <1>1, <1>6, <1>7, <1>8

\* A handler returns to the walk, which goes on unless the list was emptied.
LEMMA ReturnNotifyFacts ==
    ASSUME TypeOK, Shape(stack), ReturnNotify
    PROVE  /\ stack # <<>> /\ Len(stack) = 2 /\ Len(Pop) = 1 /\ Pop[1] = stack[1]
           /\ \/ notes # <<>> /\ stack' = Pop
              \/ notes = <<>> /\ stack' = <<>>
<1>1. stack # <<>> /\ Top.k = "notify"
  BY DEF ReturnNotify, In
<1>2. /\ Onto(Pop, Top) /\ Len(Pop) = Len(stack) - 1 /\ Len(stack) \in Nat
      /\ \A i \in 1..(Len(stack) - 1) : Pop[i] = stack[i]
  BY <1>1, TopOnto
<1>3. Len(Pop) = 1
  BY <1>1, <1>2 DEF Onto
<1>4. Len(stack) = 2 /\ Pop[1] = stack[1]
  <2>0. \A n \in Nat : 1 = n - 1 => n = 2
    OBVIOUS
  <2>1. Len(stack) = 2
    BY <1>2, <1>3, <2>0, Zenon
  <2>2. 1 \in 1..(Len(stack) - 1)
    BY <2>1
  <2> QED
    BY <1>2, <2>1, <2>2, Zenon
<1>5. SubSeq(stack, 1, 0) = <<>>
  BY SubSeqEmpty
<1>6. Len(stack) - 2 = 0
  BY <1>4
<1> QED
  BY <1>1, <1>3, <1>4, <1>5, <1>6 DEF ReturnNotify, WalkGoesOn

\* The calls keep their order.
LEMMA ShapeStep ==
    ASSUME TypeOK, Shape(stack), Next
    PROVE  Shape(stack')
<1>0. ASSUME NEW f \in Frames, Onto(stack, f), stack' = Push(f) PROVE Shape(stack')
  BY <1>0, ShapePush DEF Push, TypeOK
<1>1. CASE UNCHANGED stack
  BY <1>1
<1>2. ASSUME NEW id \in Ids, Cancel(id) PROVE Shape(stack')
  <2>1. PICK i \in 1..Len(track) : BtAttCancel(pair[track[i]].pend, stack)
    BY <1>2 DEF Cancel
  <2>2. ~(Len(stack) = 1 /\ stack[1].k = "walk")
    <3>1. Frame("all", Null, FALSE, Null) \in Frames
      BY DEF Frame, Frames, Kind
    <3>2. Frame("all", Null, FALSE, Null).k = "all" /\ ~Frame("all", Null, FALSE, Null).held
      BY DEF Frame
    <3>3. ClientRuns
      BY <1>2 DEF Cancel
    <3> HIDE DEF Frame
    <3>4. Onto(stack, Frame("all", Null, FALSE, Null))
      BY <3>1, <3>2, <3>3, ClientOnto
    <3> QED
      BY <3>2, <3>4 DEF Onto
  <2> QED
    BY <2>1, <2>2, CancelShape DEF TypeOK
<1>3. ASSUME CancelAll PROVE Shape(stack')
  <2> DEFINE f == Frame("all", Null, FALSE, Head(track))
  <2>1. Head(track) \in CbId
    BY <1>3, TailFacts DEF CancelAll, TypeOK
  <2>2. f \in Frames /\ f.k = "all" /\ ~f.held
    BY <2>1 DEF Frame, Frames, Kind
  <2>3. stack' = Push(f) /\ ClientRuns
    BY <1>3 DEF CancelAll
  <2> HIDE DEF f
  <2> QED
    BY <1>0, <2>2, <2>3, ClientOnto
<1>4. ASSUME CancelAllNext PROVE Shape(stack')
  <2> DEFINE f == Frame("all", Null, FALSE, NextOf(track, Top.next))
  <2>1. stack # <<>> /\ Top.k = "all"
    BY <1>4 DEF CancelAllNext, In
  <2>2. f \in Frames /\ f.k = "all" /\ ~f.held
    <3>1. NextOf(track, Top.next) \in CbId \cup {Null}
      BY NextOfFacts DEF TypeOK
    <3> QED
      BY <3>1 DEF Frame, Frames, Kind
  <2>3. UNCHANGED stack \/ BtAttCancel(pair[Top.next].pend, Append(Pop, f))
    BY <1>4 DEF CancelAllNext
  <2> HIDE DEF f
  <2>4. Shape(Pop) /\ Onto(Pop, Top) /\ Pop \in Seq(Frames)
    BY <2>1, TopOnto
  <2>5. Onto(Pop, f)
    BY <2>1, <2>2, <2>4 DEF Onto
  <2>6. Append(Pop, f) \in Seq(Frames) /\ Shape(Append(Pop, f))
    BY <2>2, <2>4, <2>5, ShapePush, AppendFacts
  <2>7. ~(Len(Append(Pop, f)) = 1 /\ Append(Pop, f)[1].k = "walk")
    <3>1. Len(Append(Pop, f)) = Len(Pop) + 1 /\ Append(Pop, f)[Len(Pop) + 1] = f
      BY <2>2, <2>4, AppendFacts
    <3>2. Len(Pop) \in Nat
      BY <2>4
    <3>3. Len(Append(Pop, f)) = 1 => Len(Pop) + 1 = 1
      BY <3>1
    <3> QED
      BY <2>2, <3>1, <3>3
  <2> QED
    BY <2>3, <2>6, <2>7, CancelShape
<1>5. ASSUME NEW held \in BOOLEAN, Result(held) PROVE Shape(stack')
  <2> DEFINE f == Frame("result", Head(ops).cb, held, Null)
  <2>1. Head(ops).cb \in CbId /\ Head(ops).cb # Null
    BY <1>5, TailFacts, TypeFacts DEF Result, TypeOK
  <2>2. f \in Frames /\ f.k = "result" /\ f.cb # Null
    BY <2>1 DEF Frame, Frames, Kind
  <2>3. stack' = Push(f) /\ stack = <<>>
    BY <1>5 DEF Result, LoopRuns
  <2> HIDE DEF f
  <2>4. Onto(stack, f)
    BY <2>2, <2>3 DEF Onto
  <2> QED
    BY <1>0, <2>2, <2>3, <2>4
<1>6. CASE stack # <<>> /\ stack' = Pop
  BY <1>6, TopOnto
<1>7. ASSUME ReturnResult PROVE Shape(stack')
  <2> DEFINE f == Frame("destroy", Top.cb, Top.held, IF Top.held THEN Top.cb ELSE Null)
  <2>1. stack # <<>> /\ Top.k = "result"
    BY <1>7 DEF ReturnResult, In
  <2>2. /\ Shape(Pop) /\ Onto(Pop, Top) /\ Pop \in Seq(Frames)
        /\ Top.cb \in CbId \cup {Null} /\ Top.held \in BOOLEAN
    BY <2>1, TopOnto
  <2>3. Top.cb # Null
    BY <2>1, <2>2 DEF Onto
  <2>4. f \in Frames /\ f.k = "destroy" /\ f.cb = Top.cb /\ f.held = Top.held
    BY <2>2 DEF Frame, Frames, Kind
  <2>5. \/ stack' = Pop
        \/ RemoveCb(Top.cb, Pop, Top.held, IF Top.held THEN Top.cb ELSE Null)
    BY <1>7 DEF ReturnResult
  <2>6. (IF Top.held THEN Top.cb ELSE Null) \in CbId \cup {Null}
    BY <2>2
  <2>7. Onto(Pop, f)
    <3> HIDE DEF f
    <3>1. (f.held => Len(Pop) = 0) /\ ~(Len(Pop) = 1 /\ Pop[1].k = "walk")
      BY <2>1, <2>2, <2>4 DEF Onto
    <3> QED
      BY <2>3, <2>4, <3>1 DEF Onto
  <2> QED
    BY <2>2, <2>3, <2>5, <2>6, <2>7, RemoveCbShape
<1>8. ASSUME Notify PROVE Shape(stack')
  <2> DEFINE f == Frame("walk", Null, FALSE, Head(notes))
  <2>1. Head(notes) \in CbId
    BY <1>8, TailFacts DEF Notify, TypeOK
  <2>2. f \in Frames /\ f.k = "walk" /\ ~f.held
    BY <2>1 DEF Frame, Frames, Kind
  <2>3. stack' = Push(f) /\ stack = <<>>
    BY <1>8 DEF Notify, LoopRuns
  <2> HIDE DEF f
  <2>4. Onto(stack, f)
    BY <2>2, <2>3 DEF Onto
  <2> QED
    BY <1>0, <2>2, <2>3, <2>4
<1>9. ASSUME NEW match \in BOOLEAN, WalkNext(match) PROVE Shape(stack')
  BY <1>9, WalkNextShape
<1>10. ASSUME ReturnNotify PROVE Shape(stack')
  <2>1. CASE stack' = Pop
    BY <1>10, <2>1, TopOnto DEF ReturnNotify, In
  <2>2. CASE stack' = <<>>
    BY <2>2 DEF Shape
  <2> QED
    BY <1>10, <2>1, <2>2, ReturnNotifyFacts
<1>11. ASSUME Disconnect PROVE Shape(stack')
  <2> DEFINE f == Frame("disconnect", Null, FALSE, Null)
  <2>2. f \in Frames /\ f.k = "disconnect" /\ ~f.held
    BY DEF Frame, Frames, Kind
  <2>3. stack' = Push(f) /\ stack = <<>>
    BY <1>11 DEF Disconnect, LoopRuns
  <2> HIDE DEF f
  <2>4. Onto(stack, f)
    BY <2>2, <2>3 DEF Onto
  <2> QED
    BY <1>0, <2>2, <2>3, <2>4
<1>12. ASSUME DisconnectNext PROVE Shape(stack')
  <2> DEFINE f == Frame("result", Head(flush).cb, FALSE, Null)
  <2>1. Head(flush).cb \in CbId /\ Head(flush).cb # Null
    BY <1>12, TailFacts, TypeFacts DEF DisconnectNext, TypeOK
  <2>2. f \in Frames /\ f.k = "result" /\ f.cb # Null /\ ~f.held
    BY <2>1 DEF Frame, Frames, Kind
  <2>3. stack # <<>> /\ Top.k = "disconnect" /\ (UNCHANGED stack \/ stack' = Push(f))
    BY <1>12 DEF DisconnectNext, In
  <2> HIDE DEF f
  <2>4. /\ Onto(Pop, Top) /\ Len(Pop) = Len(stack) - 1 /\ Len(stack) \in Nat
        /\ Top = stack[Len(stack)]
    BY <2>3, TopOnto
  <2>5. Len(stack) = 1
    BY <2>3, <2>4 DEF Onto
  <2>6. Onto(stack, f)
    BY <2>2, <2>3, <2>4, <2>5 DEF Onto
  <2> QED
    BY <1>0, <2>2, <2>3, <2>6
<1>13. ASSUME CancelAllEnd \/ ReturnDestroy \/ WalkEnd \/ DisconnectEnd
       PROVE  stack # <<>> /\ stack' = Pop
  BY <1>13 DEF CancelAllEnd, ReturnDestroy, WalkEnd, DisconnectEnd, In
<1>14. ASSUME \/ \E id \in Ids : Send(id)
              \/ Register \/ UnregisterAll
              \/ \E cb \in CbId : Unregister(cb)
              \/ Ref \/ Unref \/ HandlerEnd
       PROVE  UNCHANGED stack
  BY <1>14 DEF Send, Register, UnregisterAll, Unregister, Ref, Unref, HandlerEnd
<1> QED
  BY <1>1, <1>2, <1>3, <1>4, <1>5, <1>6, <1>7, <1>8, <1>9, <1>10, <1>11, <1>12,
     <1>13, <1>14 DEF Next

-----------------------------------------------------------------------------
(* Where the calls come from *)

\* The call f was under way; or it is one that a step may begin.
Was(f) == \E j \in 1..Len(stack) : stack[j] = f

Walks == Notify \/ \E match \in BOOLEAN : WalkNext(match)

New(f) ==
    \/ f.k = "walk" /\ f.cb = Null /\ Walks
    \/ f.k = "all" /\ f.cb = Null /\ CancelAll /\ f.next = Head(track)
    \/ /\ f.k = "all" /\ f.cb = Null /\ CancelAllNext
       /\ f.next = NextOf(track, Top.next) /\ Top.next \in ToSet(track)
    \/ f.k = "disconnect" /\ f.cb = Null /\ Disconnect
    \/ f.k = "notify" /\ dtor[f.cb] = 0
    \/ f.k = "destroy" /\ Asked(f.cb) /\ Dies(f.cb)
    \/ /\ f.k = "result" /\ Asked(f.cb) /\ DisconnectNext
       /\ dtor[f.cb] = 0 /\ f.cb = Head(flush).cb /\ flush' = Tail(flush)
    \/ /\ f.k = "result" /\ Asked(f.cb) /\ f.cb = Head(ops).cb
       /\ Result(TRUE) \/ Result(FALSE)
       /\ f.held \/ Result(FALSE)

From(t) == \A i \in 1..Len(t) : Was(t[i]) \/ New(t[i])

\* A new call on top of calls that are accounted for.
LEMMA FromPush ==
    ASSUME NEW s \in Seq(Frames), NEW f \in Frames, From(s), New(f)
    PROVE  From(Append(s, f))
<1> DEFINE t == Append(s, f)
<1>1. /\ Len(t) = Len(s) + 1 /\ Len(s) \in Nat
      /\ \A i \in 1..Len(s) : t[i] = s[i]
      /\ t[Len(s) + 1] = f
  BY AppendFacts
<1> HIDE DEF t
<1>2. ASSUME NEW i \in 1..Len(t) PROVE Was(t[i]) \/ New(t[i])
  <2>1. i \in 1..Len(s) \/ i = Len(s) + 1
    BY <1>1
  <2>2. CASE i \in 1..Len(s)
    BY <1>1, <2>2, Zenon DEF From
  <2>3. CASE i = Len(s) + 1
    BY <1>1, <2>3, Zenon
  <2> QED
    BY <2>1, <2>2, <2>3
<1> QED
  BY <1>2 DEF From, t

\* The calls under way, also without the innermost, were under way.
LEMMA FromStack ==
    ASSUME TypeOK, Shape(stack)
    PROVE  From(stack) /\ (stack # <<>> => From(Pop))
<1>1. From(stack)
  BY DEF From, Was
<1>2. ASSUME stack # <<>> PROVE From(Pop)
  <2>1. /\ Len(Pop) = Len(stack) - 1 /\ Len(stack) \in Nat
        /\ \A i \in 1..(Len(stack) - 1) : Pop[i] = stack[i]
    BY <1>2, TopOnto
  <2>2. \A i \in 1..Len(Pop) : i \in 1..Len(stack) /\ Pop[i] = stack[i]
    BY <2>1
  <2> QED
    BY <2>2 DEF From, Was
<1> QED
  BY <1>1, <1>2

\* The record of a frame is one that a request has.
LEMMA TopAsked ==
    ASSUME TypeOK, Shape(stack), stack # <<>>, Top.k \in {"result", "destroy"}
    PROVE  Asked(Top.cb) /\ Top.cb \in CbId
<1>1. /\ Top = stack[Len(stack)] /\ Len(stack) \in 1..Len(stack)
      /\ Top.cb \in CbId \cup {Null} /\ Onto(Pop, Top)
  BY TopOnto
<1>2. Asked(Top.cb)
  BY <1>1 DEF Asked, AskedOn
<1> QED
  BY <1>1, <1>2 DEF Onto

\* attrib_callbacks_remove adds the destroy function of its record at most.
LEMMA RemoveCbFrom ==
    ASSUME TypeOK, Shape(stack), NEW cb \in CbId, NEW rest \in Seq(Frames),
           NEW held \in BOOLEAN, NEW next \in CbId \cup {Null},
           RemoveCb(cb, rest, held, next), From(rest), Asked(cb)
    PROVE  From(stack')
<1> DEFINE f == Frame("destroy", cb, held, next)
<1>1. f \in Frames /\ f.k = "destroy" /\ f.cb = cb
  BY DEF Frame, Frames, Kind
<1>2. CASE stack' = stack
  BY <1>2, FromStack
<1>3. CASE stack' = rest
  BY <1>3
<1>4. CASE Dies(cb) /\ stack' = Append(rest, f)
  <2> HIDE DEF f
  <2>1. New(f)
    BY <1>1, <1>4 DEF New
  <2> QED
    BY <1>1, <1>4, <2>1, FromPush
<1> QED
  BY <1>2, <1>3, <1>4, RemoveCbFacts

\* So does bt_att_cancel, of a record that has a request.
LEMMA CancelFrom ==
    ASSUME TypeOK, Shape(stack), NEW pend, NEW rest \in Seq(Frames),
           BtAttCancel(pend, rest), From(rest)
    PROVE  From(stack')
<1>1. CASE NoneFound(pend, rest)
  BY <1>1 DEF NoneFound
<1>2. ASSUME NEW i \in 1..Len(ops), NEW next \in CbId \cup {Null},
             Found(pend, rest, i, next)
      PROVE  From(stack')
  <2>1. Asked(ops[i].cb)
    BY DEF Asked, AskedOps
  <2>2. ops[i].cb \in CbId /\ RemoveCb(ops[i].cb, rest, FALSE, next)
    BY <1>2 DEF Found
  <2> QED
    BY <2>1, <2>2, RemoveCbFrom
<1> QED
  BY <1>1, <1>2, CancelFacts

\* Every call under way after a step was under way before it or is new.
LEMMA StackStep ==
    ASSUME TypeOK, Shape(stack), Next
    PROVE  From(stack')
<1>0. ASSUME NEW f \in Frames, New(f), stack' = Push(f) PROVE From(stack')
  BY <1>0, FromPush, FromStack DEF Push, TypeOK
<1>1. CASE UNCHANGED stack
  BY <1>1, FromStack
<1>2. ASSUME NEW id \in Ids, Cancel(id) PROVE From(stack')
  <2>1. PICK i \in 1..Len(track) : BtAttCancel(pair[track[i]].pend, stack)
    BY <1>2 DEF Cancel
  <2> QED
    BY <2>1, CancelFrom, FromStack DEF TypeOK
<1>3. ASSUME CancelAll PROVE From(stack')
  <2> DEFINE f == Frame("all", Null, FALSE, Head(track))
  <2>1. Head(track) \in CbId
    BY <1>3, TailFacts DEF CancelAll, TypeOK
  <2>2. f \in Frames /\ f.k = "all" /\ f.cb = Null /\ f.next = Head(track)
    BY <2>1 DEF Frame, Frames, Kind
  <2>3. stack' = Push(f)
    BY <1>3 DEF CancelAll
  <2> HIDE DEF f
  <2>4. New(f)
    BY <1>3, <2>2 DEF New
  <2> QED
    BY <1>0, <2>2, <2>3, <2>4
<1>4. ASSUME CancelAllNext PROVE From(stack')
  <2> DEFINE f == Frame("all", Null, FALSE, NextOf(track, Top.next))
  <2>1. stack # <<>>
    BY <1>4 DEF CancelAllNext, In
  <2>2. f \in Frames /\ f.k = "all" /\ f.cb = Null /\ f.next = NextOf(track, Top.next)
    <3>1. NextOf(track, Top.next) \in CbId \cup {Null}
      BY NextOfFacts DEF TypeOK
    <3> QED
      BY <3>1 DEF Frame, Frames, Kind
  <2>3. CASE UNCHANGED stack
    BY <1>1, <2>3
  <2>4. CASE Top.next \in ToSet(track) /\ BtAttCancel(pair[Top.next].pend, Append(Pop, f))
    <3> HIDE DEF f
    <3>1. New(f)
      BY <1>4, <2>2, <2>4 DEF New
    <3>2. Pop \in Seq(Frames) /\ From(Pop)
      BY <2>1, TopOnto, FromStack
    <3>3. Append(Pop, f) \in Seq(Frames) /\ From(Append(Pop, f))
      BY <2>2, <3>1, <3>2, FromPush, AppendFacts
    <3> QED
      BY <2>4, <3>3, CancelFrom
  <2> QED
    BY <1>4, <2>3, <2>4 DEF CancelAllNext
<1>5. ASSUME NEW held \in BOOLEAN, Result(held) PROVE From(stack')
  <2> DEFINE f == Frame("result", Head(ops).cb, held, Null)
  <2>1. 1 \in 1..Len(ops) /\ Head(ops) = ops[1] /\ Head(ops).cb \in CbId
    BY <1>5, TailFacts, TypeFacts DEF Result, TypeOK
  <2>2. f \in Frames /\ f.k = "result" /\ f.cb = Head(ops).cb
    BY <2>1 DEF Frame, Frames, Kind
  <2>3. stack' = Push(f) /\ stack = <<>>
    BY <1>5 DEF Result, LoopRuns
  <2> HIDE DEF f
  <2>4. AskedOps(f.cb)
    BY <2>1, <2>2 DEF AskedOps
  <2>5. f.held \/ Result(FALSE)
    <3>1. CASE held
      BY <3>1 DEF f, Frame
    <3>2. CASE ~held
      BY <1>5, <3>2
    <3> QED
      BY <3>1, <3>2
  <2>6. Result(TRUE) \/ Result(FALSE)
    BY <1>5
  <2>7. New(f)
    BY <2>2, <2>4, <2>5, <2>6 DEF New, Asked
  <2> QED
    BY <1>0, <2>2, <2>3, <2>7
<1>6. CASE stack # <<>> /\ stack' = Pop
  BY <1>6, FromStack
<1>7. ASSUME ReturnResult PROVE From(stack')
  <2>1. stack # <<>> /\ Top.k = "result"
    BY <1>7 DEF ReturnResult, In
  <2>2. Pop \in Seq(Frames) /\ From(Pop) /\ Top.held \in BOOLEAN
    BY <2>1, TopOnto, FromStack
  <2>3. Asked(Top.cb) /\ Top.cb \in CbId
    BY <2>1, TopAsked
  <2>4. \/ stack' = Pop
        \/ RemoveCb(Top.cb, Pop, Top.held, IF Top.held THEN Top.cb ELSE Null)
    BY <1>7 DEF ReturnResult
  <2>5. (IF Top.held THEN Top.cb ELSE Null) \in CbId \cup {Null}
    BY <2>3
  <2> QED
    BY <2>2, <2>3, <2>4, <2>5, RemoveCbFrom
<1>8. ASSUME Notify PROVE From(stack')
  <2> DEFINE f == Frame("walk", Null, FALSE, Head(notes))
  <2>1. Head(notes) \in CbId
    BY <1>8, TailFacts DEF Notify, TypeOK
  <2>2. f \in Frames /\ f.k = "walk" /\ f.cb = Null
    BY <2>1 DEF Frame, Frames, Kind
  <2>3. stack' = Push(f)
    BY <1>8 DEF Notify
  <2> HIDE DEF f
  <2>4. New(f)
    BY <1>8, <2>2 DEF New, Walks
  <2> QED
    BY <1>0, <2>2, <2>3, <2>4
<1>9. ASSUME NEW match \in BOOLEAN, WalkNext(match) PROVE From(stack')
  <2> DEFINE w == WalkFrame
             n == NotifyFrame
  <2>1. /\ w \in Frames /\ n \in Frames
        /\ \/ stack' = stack
           \/ stack' = <<w>>
           \/ stack' = Append(<<w>>, n) /\ dtor[Top.next] = 0
    BY <1>9, WalkNextFacts
  <2>2. w.k = "walk" /\ w.cb = Null /\ n.k = "notify" /\ n.cb = Top.next
    BY DEF WalkFrame, NotifyFrame, Frame
  <2> HIDE DEF w, n
  <2>3. New(w) /\ (dtor[Top.next] = 0 => New(n))
    BY <1>9, <2>2 DEF New, Walks
  <2>4. From(<<w>>) /\ <<w>> \in Seq(Frames)
    BY <2>1, <2>3 DEF From
  <2> QED
    BY <1>1, <2>1, <2>3, <2>4, FromPush
<1>10. ASSUME ReturnNotify PROVE From(stack')
  <2>1. CASE stack' = <<>>
    BY <2>1 DEF From
  <2> QED
    BY <1>6, <1>10, <2>1, ReturnNotifyFacts
<1>11. ASSUME Disconnect PROVE From(stack')
  <2> DEFINE f == Frame("disconnect", Null, FALSE, Null)
  <2>2. f \in Frames /\ f.k = "disconnect" /\ f.cb = Null
    BY DEF Frame, Frames, Kind
  <2>3. stack' = Push(f)
    BY <1>11 DEF Disconnect
  <2> HIDE DEF f
  <2>4. New(f)
    BY <1>11, <2>2 DEF New
  <2> QED
    BY <1>0, <2>2, <2>3, <2>4
<1>12. ASSUME DisconnectNext PROVE From(stack')
  <2> DEFINE f == Frame("result", Head(flush).cb, FALSE, Null)
  <2>1. 1 \in 1..Len(flush) /\ Head(flush) = flush[1] /\ Head(flush).cb \in CbId
    BY <1>12, TailFacts, TypeFacts DEF DisconnectNext, TypeOK
  <2>2. f \in Frames /\ f.k = "result" /\ f.cb = Head(flush).cb
    BY <2>1 DEF Frame, Frames, Kind
  <2>3. \/ UNCHANGED stack
        \/ /\ ~(dtor[Head(flush).cb] > 0) /\ stack' = Push(f)
           /\ flush' = Tail(flush)
    BY <1>12 DEF DisconnectNext
  <2> HIDE DEF f
  <2>4. AskedFlush(f.cb)
    BY <2>1, <2>2 DEF AskedFlush
  <2>5. ~(dtor[Head(flush).cb] > 0) => dtor[f.cb] = 0
    BY <2>1, <2>2 DEF TypeOK
  <2>6. (~(dtor[Head(flush).cb] > 0) /\ flush' = Tail(flush)) => New(f)
    BY <1>12, <2>2, <2>4, <2>5 DEF New, Asked
  <2> QED
    BY <1>0, <1>1, <2>2, <2>3, <2>6
<1>13. ASSUME CancelAllEnd \/ ReturnDestroy \/ WalkEnd \/ DisconnectEnd
       PROVE  stack # <<>> /\ stack' = Pop
  BY <1>13 DEF CancelAllEnd, ReturnDestroy, WalkEnd, DisconnectEnd, In
<1>14. ASSUME \/ \E id \in Ids : Send(id)
              \/ Register \/ UnregisterAll
              \/ \E cb \in CbId : Unregister(cb)
              \/ Ref \/ Unref \/ HandlerEnd
       PROVE  UNCHANGED stack
  BY <1>14 DEF Send, Register, UnregisterAll, Unregister, Ref, Unref, HandlerEnd
<1> QED
  BY <1>1, <1>2, <1>3, <1>4, <1>5, <1>6, <1>7, <1>8, <1>9, <1>10, <1>11, <1>12,
     <1>13, <1>14 DEF Next

-----------------------------------------------------------------------------
(* Records and handlers *)

\* The GAttrib, its bearer and the channel are not made again.
LEMMA LifeStep ==
    ASSUME TypeOK, Next
    PROVE  /\ alive' => alive
           /\ att' => att
           /\ chan' => chan
           /\ \/ UNCHANGED <<refs, att>>
              \/ Ref \/ Unref \/ HandlerEnd
<1>1. CASE UNCHANGED <<refs, att, chan>>
  BY <1>1 DEF alive
<1>2. CASE Disconnect
  BY <1>2 DEF Disconnect, queues, alive
<1>3. CASE Ref
  BY <1>3 DEF Ref, ClientRuns, bearer
<1>4. CASE Unref
  BY <1>4 DEF Unref, ClientRuns, bearer
<1>5. CASE HandlerEnd
  BY <1>5 DEF HandlerEnd, alive
<1> QED
  BY <1>1, <1>2, <1>3, <1>4, <1>5
     DEF Next, Send, Cancel, CancelAll, CancelAllNext, CancelAllEnd, Result,
         ReturnResult, ReturnDestroy, Register, UnregisterAll, Unregister, Notify,
         WalkEnd, WalkNext, ReturnNotify, DisconnectNext, DisconnectEnd, bearer

\* Nothing connects the bearer again while disconnect_cb runs.
LEMMA EndingStep ==
    ASSUME TypeOK, Shape(stack), Ending, Next
    PROVE  Ending'
<1> SUFFICES ASSUME NEW i \in 1..Len(stack'), stack'[i].k = "disconnect"
             PROVE  ~chan' /\ (att' => alive')
  BY DEF Ending
<1>1. CASE Disconnect
  BY <1>1 DEF Disconnect, LoopRuns, alive, queues
<1>2. CASE Was(stack'[i])
  <2>1. PICK j \in 1..Len(stack) : stack[j].k = "disconnect"
    BY <1>2 DEF Was
  <2>2. ~chan /\ (att => alive) /\ j = 1
    BY <2>1 DEF Ending, Shape
  <2>3. ~chan'
    BY <2>2, LifeStep
  <2>4. CASE UNCHANGED <<refs, att>>
    BY <2>2, <2>3, <2>4 DEF alive
  <2>5. CASE Ref
    BY <2>3, <2>5 DEF Ref, ClientRuns, alive, TypeOK
  <2>6. CASE HandlerEnd
    BY <2>1, <2>6 DEF HandlerEnd
  <2>7. CASE Unref
    <3>1. CASE refs > 1
      BY <2>3, <2>7, <3>1 DEF Unref, alive, TypeOK
    <3>2. CASE ~(refs > 1)
      <4>1. ~BearerHeld
        <5> SUFFICES ASSUME NEW h \in 1..Len(stack), stack[h].k = "walk" \/ stack[h].held
                     PROVE  FALSE
          BY DEF BearerHeld
        <5>1. h = 1 /\ (stack[h].held => stack[h].k \in {"result", "destroy"})
          BY DEF Shape
        <5> QED
          BY <2>1, <2>2, <5>1
      <4> QED
        BY <2>3, <2>7, <3>2, <4>1 DEF Unref
    <3> QED
      BY <3>1, <3>2
  <2> QED
    BY <2>4, <2>5, <2>6, <2>7, LifeStep
<1>3. CASE New(stack'[i])
  BY <1>1, <1>3 DEF New
<1> QED
  BY <1>2, <1>3, StackStep DEF From

\* What the bearer lists after a step it listed before, but for a new request.
LEMMA OpsStep ==
    ASSUME TypeOK, Next
    PROVE  \A i \in 1..Len(ops') :
              \/ \E j \in 1..Len(ops) : ops'[i] = ops[j]
              \/ ops'[i].cb = ncb + 1 /\ \E id \in Ids : Send(id)
<1>1. CASE UNCHANGED ops
  BY <1>1
<1>2. CASE ops' = <<>>
  BY <1>2
<1>3. ASSUME NEW j \in 1..Len(ops), ops' \in Seq(Op), Closed(ops, ops', j)
      PROVE  \A i \in 1..Len(ops') : \E l \in 1..Len(ops) : ops'[i] = ops[l]
  <2>1. ops \in Seq(Op)
    BY DEF TypeOK
  <2> QED
    BY <1>3, <2>1, ClosedSub
<1>4. ASSUME NEW pend, NEW rest, BtAttCancel(pend, rest)
      PROVE  \A i \in 1..Len(ops') : \E l \in 1..Len(ops) : ops'[i] = ops[l]
  <2>1. CASE NoneFound(pend, rest)
    BY <2>1 DEF NoneFound
  <2>2. ASSUME NEW j \in 1..Len(ops), NEW next \in CbId \cup {Null},
               Found(pend, rest, j, next)
        PROVE  \A i \in 1..Len(ops') : \E l \in 1..Len(ops) : ops'[i] = ops[l]
    <3>1. CASE ops' = ops
      BY <3>1
    <3> QED
      BY <1>3, <2>2, <3>1 DEF Found
  <2> QED
    BY <1>4, <2>1, <2>2, CancelFacts
<1>5. ASSUME NEW id \in Ids, Send(id) PROVE
        \A i \in 1..Len(ops') :
              \/ \E j \in 1..Len(ops) : ops'[i] = ops[j]
              \/ ops'[i].cb = ncb + 1
  <2> DEFINE o == [id |-> IF chan THEN nextId ELSE 0, cb |-> ncb + 1]
  <2>1. ops' = Append(ops, o) \/ ops' = ops
    BY <1>5 DEF Send
  <2>2. o.cb = ncb + 1 /\ ops \in Seq(Op)
    BY DEF TypeOK
  <2>3. o \in Op
    BY <1>5, BoundAssumption DEF Send, Op, CbId, TypeOK
  <2> HIDE DEF o
  <2>4. CASE ops' = Append(ops, o)
    <3>1. /\ Len(ops') = Len(ops) + 1 /\ Len(ops) \in Nat
          /\ \A i \in 1..Len(ops) : ops'[i] = ops[i]
          /\ ops'[Len(ops) + 1] = o
      BY <2>2, <2>3, <2>4, AppendFacts
    <3>2. \A i \in 1..Len(ops') : i \in 1..Len(ops) \/ i = Len(ops) + 1
      BY <3>1
    <3> QED
      BY <2>2, <3>1, <3>2, Zenon
  <2> QED
    BY <2>1, <2>4
<1>6. ASSUME NEW held \in BOOLEAN, Result(held)
      PROVE  \A i \in 1..Len(ops') : \E l \in 1..Len(ops) : ops'[i] = ops[l]
  <2>1. CASE ops' = ops
    BY <2>1
  <2>2. CASE ops' = Tail(ops)
    <3>1. ops # <<>> /\ ops \in Seq(Op)
      BY <1>6 DEF Result, TypeOK
    <3>2. Len(ops') = Len(ops) - 1 /\ \A i \in 1..(Len(ops) - 1) : ops'[i] = ops[i + 1]
      BY <2>2, <3>1, TailFacts
    <3>3. \A i \in 1..Len(ops') : i + 1 \in 1..Len(ops) /\ i \in 1..(Len(ops) - 1)
      BY <3>1, <3>2
    <3> QED
      BY <3>2, <3>3
  <2> QED
    BY <1>6, <2>1, <2>2 DEF Result
<1>7. ASSUME ReturnDestroy
      PROVE  \A i \in 1..Len(ops') : \E l \in 1..Len(ops) : ops'[i] = ops[l]
  <2>1. PICK S : ops' = Without(ops, S)
    BY <1>7 DEF ReturnDestroy
  <2>2. /\ ops' \in Seq(Op)
        /\ ops' = ops \/ \E j \in 1..Len(ops) : Closed(ops, ops', j)
    BY <2>1, WithoutFacts DEF TypeOK
  <2>3. CASE ops' = ops
    BY <2>3
  <2>4. ASSUME NEW j \in 1..Len(ops), Closed(ops, ops', j)
        PROVE  \A i \in 1..Len(ops') : \E l \in 1..Len(ops) : ops'[i] = ops[l]
    BY <1>3, <2>2, <2>4
  <2> QED
    BY <2>2, <2>3, <2>4
<1>8. ASSUME \/ \E id \in Ids : Cancel(id)
             \/ CancelAllNext
      PROVE  UNCHANGED ops \/ \E pend, rest : BtAttCancel(pend, rest)
  BY <1>8 DEF Cancel, CancelAllNext
<1>9. ASSUME Unref \/ HandlerEnd \/ Disconnect
      PROVE  ops' = ops \/ ops' = <<>>
  BY <1>9 DEF Unref, HandlerEnd, Disconnect, bearer
<1> QED
  BY <1>1, <1>2, <1>4, <1>5, <1>6, <1>7, <1>8, <1>9
     DEF Next, CancelAll, CancelAllEnd,
         ReturnResult, Register, UnregisterAll, Unregister, Notify,
         WalkEnd, WalkNext, ReturnNotify, DisconnectNext, DisconnectEnd, Ref, bearer

\* A request that a disconnection ends was listed.
LEMMA FlushStep ==
    ASSUME TypeOK, Next
    PROVE  \A i \in 1..Len(flush') :
              \/ \E j \in 1..Len(flush) : flush'[i] = flush[j]
              \/ \E j \in 1..Len(ops) : flush'[i] = ops[j]
<1>1. CASE UNCHANGED flush
  BY <1>1
<1>2. CASE Disconnect
  <2>1. CASE flush' = ops
    BY <2>1
  <2>2. CASE ops # <<>> /\ flush' = Append(Tail(ops), Head(ops))
    <3>1. /\ Head(ops) = ops[1] /\ Head(ops) \in Op /\ 1 \in 1..Len(ops)
          /\ Tail(ops) \in Seq(Op) /\ Len(Tail(ops)) = Len(ops) - 1
          /\ \A i \in 1..(Len(ops) - 1) : Tail(ops)[i] = ops[i + 1]
      BY <2>2, TailFacts DEF TypeOK
    <3>2. /\ Len(flush') = Len(Tail(ops)) + 1
          /\ \A i \in 1..Len(Tail(ops)) : flush'[i] = Tail(ops)[i]
          /\ flush'[Len(Tail(ops)) + 1] = Head(ops)
      BY <2>2, <3>1, AppendFacts
    <3>3. Len(ops) \in Nat
      BY DEF TypeOK
    <3>4. Len(flush') = Len(ops)
      BY <3>1, <3>2, <3>3
    <3>5. ASSUME NEW i \in 1..(Len(ops) - 1)
          PROVE  i + 1 \in 1..Len(ops) /\ flush'[i] = ops[i + 1]
      BY <3>1, <3>2, <3>3
    <3>6. flush'[Len(ops)] = ops[1]
      BY <3>1, <3>2, <3>3
    <3>7. \A i \in 1..Len(flush') : i \in 1..(Len(ops) - 1) \/ i = Len(ops)
      BY <3>3, <3>4
    <3> QED
      BY <3>1, <3>5, <3>6, <3>7, Zenon
  <2>3. CASE flush' = <<>>
    BY <2>3
  <2> QED
    BY <1>2, <2>1, <2>2, <2>3 DEF Disconnect
<1>3. CASE DisconnectNext
  <2>1. CASE flush' = Tail(flush)
    <3>1. /\ Len(flush') = Len(flush) - 1 /\ flush \in Seq(Op)
          /\ \A i \in 1..(Len(flush) - 1) : flush'[i] = flush[i + 1]
      BY <1>3, <2>1, TailFacts DEF DisconnectNext, TypeOK
    <3>2. \A i \in 1..Len(flush') : i + 1 \in 1..Len(flush) /\ i \in 1..(Len(flush) - 1)
      BY <3>1
    <3> QED
      BY <3>1, <3>2
  <2> QED
    BY <1>1, <1>3, <2>1 DEF DisconnectNext
<1> QED
  BY <1>1, <1>2, <1>3
     DEF Next, Send, Cancel, CancelAll, CancelAllNext, CancelAllEnd, Result,
         ReturnResult, ReturnDestroy, Register, UnregisterAll, Unregister, Notify,
         WalkEnd, WalkNext, ReturnNotify, DisconnectEnd, Ref, Unref, HandlerEnd, bearer

\* Records come to the requests only when they are made.
LEMMA AskedStep ==
    ASSUME TypeOK, Shape(stack), Next, NEW x, Asked(x)'
    PROVE  Asked(x) \/ (x = ncb + 1 /\ \E id \in Ids : Send(id))
<1>1. CASE AskedOps(x)'
  <2>1. PICK i \in 1..Len(ops') : ops'[i].cb = x
    BY <1>1 DEF AskedOps
  <2>2. CASE \E j \in 1..Len(ops) : ops'[i] = ops[j]
    BY <2>1, <2>2 DEF Asked, AskedOps
  <2> QED
    BY <2>1, <2>2, OpsStep
<1>2. CASE AskedFlush(x)'
  <2>1. PICK i \in 1..Len(flush') : flush'[i].cb = x
    BY <1>2 DEF AskedFlush
  <2>2. CASE \E j \in 1..Len(ops) : flush'[i] = ops[j]
    BY <2>1, <2>2 DEF Asked, AskedOps
  <2>3. CASE \E j \in 1..Len(flush) : flush'[i] = flush[j]
    BY <2>1, <2>3 DEF Asked, AskedFlush
  <2> QED
    BY <2>2, <2>3, FlushStep
<1>3. CASE AskedOn(stack', x)
  <2>1. PICK i \in 1..Len(stack') : stack'[i].k \in {"result", "destroy"} /\ stack'[i].cb = x
    BY <1>3 DEF AskedOn
  <2>2. CASE Was(stack'[i])
    BY <2>1, <2>2 DEF Was, Asked, AskedOn
  <2>3. CASE New(stack'[i])
    BY <2>1, <2>3 DEF New
  <2> QED
    BY <2>2, <2>3, StackStep DEF From
<1> QED
  BY <1>1, <1>2, <1>3 DEF Asked

\* The records of a set that are in the queue are destroyed.
LEMMA RecordsDrop ==
    ASSUME TypeOK, Records, NEW S, S \subseteq cbs, cbs' = cbs \ S,
           \A c \in CbId : dtor'[c] = IF c \in S THEN dtor[c] + 1 ELSE dtor[c],
           UNCHANGED <<ncb, refs, att, lastInside>>
    PROVE  Records'
<1>1. /\ \A c \in cbs : c \in CbId /\ c <= ncb
      /\ \A c \in CbId : dtor[c] = IF c <= ncb /\ c \notin cbs THEN 1 ELSE 0
  BY DEF Records, TypeOK
<1>2. \A c \in CbId : dtor'[c] = IF c <= ncb /\ c \notin cbs' THEN 1 ELSE 0
  BY <1>1
<1>3. \A c \in cbs' : c <= ncb'
  BY <1>1
<1>4. /\ ~alive => cbs' = {}
      /\ ~att => ~alive
      /\ alive => ~lastInside
  BY DEF Records
<1>5. UNCHANGED <<alive, att, lastInside, ncb>>
  BY DEF alive
<1> QED
  BY <1>2, <1>3, <1>4, <1>5 DEF Records

\* A record is made.
LEMMA RecordsMade ==
    ASSUME TypeOK, Records, alive, ncb < MaxCb, ncb' = ncb + 1,
           cbs' = cbs \cup {ncb + 1}, UNCHANGED <<dtor, refs, att, lastInside>>
    PROVE  Records'
<1>1. /\ \A c \in cbs : c \in CbId /\ c <= ncb
      /\ \A c \in CbId : dtor[c] = IF c <= ncb /\ c \notin cbs THEN 1 ELSE 0
  BY DEF Records, TypeOK
<1>2. \A c \in CbId : dtor'[c] = IF c <= ncb' /\ c \notin cbs' THEN 1 ELSE 0
  BY <1>1, TypeFacts
<1>3. \A c \in cbs' : c <= ncb'
  BY <1>1, TypeFacts
<1>4. (~att => ~alive) /\ (alive => ~lastInside)
  BY DEF Records
<1>5. UNCHANGED <<alive, att, lastInside>>
  BY DEF alive
<1> QED
  BY <1>2, <1>3, <1>4, <1>5 DEF Records

\* A record leaves the queue when it is destroyed ...
LEMMA RecordsDies ==
    ASSUME TypeOK, Records, NEW cb \in CbId, Dies(cb),
           UNCHANGED <<ncb, refs, att, lastInside>>
    PROVE  Records'
<1>1. \A c \in CbId : dtor'[c] = IF c \in {cb} THEN dtor[c] + 1 ELSE dtor[c]
  BY DiesFacts
<1> QED
  BY <1>1, RecordsDrop DEF Dies

\* ... also by bt_att_cancel.
LEMMA RecordsCancel ==
    ASSUME TypeOK, Records, NEW pend, NEW rest, BtAttCancel(pend, rest),
           UNCHANGED <<ncb, refs, att, lastInside>>
    PROVE  Records'
<1>1. CASE UNCHANGED <<cbs, dtor>>
  BY <1>1 DEF Records, alive
<1>2. ASSUME NEW i \in 1..Len(ops), NEW next \in CbId \cup {Null},
             Found(pend, rest, i, next)
      PROVE  Records'
  BY <1>1, <1>2, RemoveCbFacts, RecordsDies DEF Found
<1> QED
  BY <1>1, <1>2, CancelFacts DEF NoneFound

\* The queue of records is kept.
LEMMA RecordsStep ==
    ASSUME TypeOK, Records, Handlers, Shape(stack), Ending, Next
    PROVE  Records'
<1>1. CASE UNCHANGED <<cbs, dtor, ncb, refs, att, lastInside>>
  BY <1>1 DEF Records, alive
<1>2. ASSUME NEW id \in Ids, Send(id) PROVE Records'
  BY <1>2, RecordsMade DEF Send, ClientRuns
<1>3. ASSUME Register PROVE Records'
  BY <1>3, RecordsMade DEF Register, ClientRuns
<1>4. ASSUME NEW id \in Ids, Cancel(id) PROVE Records'
  <2>1. PICK i \in 1..Len(track) : BtAttCancel(pair[track[i]].pend, stack)
    BY <1>4 DEF Cancel
  <2> QED
    BY <1>4, <2>1, RecordsCancel DEF Cancel
<1>5. ASSUME CancelAllNext PROVE Records'
  BY <1>1, <1>5, RecordsCancel DEF CancelAllNext
<1>6. ASSUME ReturnResult PROVE Records'
  <2>1. Top.cb \in CbId
    BY <1>6, TopAsked DEF ReturnResult, In
  <2>2. CASE Dies(Top.cb)
    BY <1>6, <2>1, <2>2, RecordsDies DEF ReturnResult
  <2>3. UNCHANGED <<cbs, dtor>> \/ Dies(Top.cb)
    BY <1>6, RemoveCbFacts DEF ReturnResult
  <2> QED
    BY <1>1, <1>6, <2>2, <2>3 DEF ReturnResult
<1>7. ASSUME NEW S, Drop(S), S \subseteq ToSet(notes), alive,
             UNCHANGED <<ncb, refs, att, lastInside>>
      PROVE  Records'
  <2>1. S \subseteq cbs
    BY <1>7 DEF Handlers, ToSet, TypeOK
  <2> QED
    BY <1>7, <2>1, DropFacts, RecordsDrop
<1>8. ASSUME UnregisterAll PROVE Records'
  BY <1>7, <1>8 DEF UnregisterAll, ClientRuns
<1>9. ASSUME NEW cb \in CbId, Unregister(cb) PROVE Records'
  BY <1>7, <1>9 DEF Unregister, ClientRuns
<1>10. ASSUME DisconnectEnd PROVE Records'
  <2>1. CASE ~att
    BY <1>1, <1>10, <2>1 DEF DisconnectEnd
  <2>2. CASE att
    <3>1. alive
      BY <1>10, <2>2, TopOnto DEF DisconnectEnd, In, Ending
    <3> QED
      BY <1>7, <1>10, <2>2, <3>1 DEF DisconnectEnd
  <2> QED
    BY <2>1, <2>2
<1>11. ASSUME Ref PROVE Records'
  BY <1>11 DEF Ref, ClientRuns, Records, alive, TypeOK, queues, bearer, history
<1>12. ASSUME Unref PROVE Records'
  <2>1. CASE refs > 1
    BY <1>12, <2>1 DEF Unref, Records, alive, TypeOK, queues, bearer, history
  <2>2. CASE ~(refs > 1)
    <3>1. refs' = 0
      BY <1>12, <2>2 DEF Unref, ClientRuns, alive, TypeOK
    <3>2. cbs' = {} /\ ncb' = ncb
      BY <1>12, <2>2, Zenon DEF Unref
    <3>3. dtor' = [c \in CbId |-> dtor[c] + (IF c \in cbs THEN 1 ELSE 0)]
      BY <1>12, <2>2, Zenon DEF Unref
    <3>4. \A c \in CbId : dtor'[c] = IF c <= ncb THEN 1 ELSE 0
      BY <3>3 DEF Records, TypeOK
    <3> QED
      BY <3>1, <3>2, <3>4 DEF Records, alive
  <2> QED
    BY <2>1, <2>2
<1>13. ASSUME HandlerEnd PROVE Records'
  <2>1. UNCHANGED <<cbs, dtor, ncb, refs, lastInside>> /\ ~alive
    BY <1>13 DEF HandlerEnd, queues, history
  <2> QED
    BY <2>1 DEF Records, alive
<1> QED
  BY <1>1, <1>2, <1>3, <1>4, <1>5, <1>6, <1>8, <1>9, <1>10, <1>11, <1>12, <1>13
     DEF Next, CancelAll, CancelAllEnd, Result, ReturnDestroy, Notify, WalkEnd,
         WalkNext, ReturnNotify, Disconnect, DisconnectNext, queues, bearer, history

\* A record that leaves the queue while the GAttrib lives is that of a request
\* or of a handler that goes.
LEMMA CbsStep ==
    ASSUME TypeOK, Shape(stack), Next, alive', NEW x \in cbs, x \notin cbs'
    PROVE  Asked(x) \/ notes' = <<>> \/ (\E cb \in CbId : Unregister(cb) /\ x = cb)
<1>1. ASSUME NEW pend, NEW rest, BtAttCancel(pend, rest) PROVE Asked(x)
  <2>1. CASE NoneFound(pend, rest)
    BY <2>1 DEF NoneFound
  <2>2. ASSUME NEW i \in 1..Len(ops), NEW next \in CbId \cup {Null},
               Found(pend, rest, i, next)
        PROVE  Asked(x)
    <3>1. Asked(ops[i].cb)
      BY DEF Asked, AskedOps
    <3>2. x = ops[i].cb
      BY <2>2, RemoveCbFacts DEF Found, Dies
    <3> QED
      BY <3>1, <3>2
  <2> QED
    BY <1>1, <2>1, <2>2, CancelFacts
<1>2. CASE (\E id \in Ids : Cancel(id)) \/ CancelAllNext
  BY <1>1, <1>2 DEF Cancel, CancelAllNext
<1>3. CASE ReturnResult
  <2>1. Asked(Top.cb)
    BY <1>3, TopAsked DEF ReturnResult, In
  <2>2. x = Top.cb
    <3>1. UNCHANGED cbs \/ Dies(Top.cb)
      BY <1>3, RemoveCbFacts DEF ReturnResult
    <3> QED
      BY <3>1 DEF Dies
  <2> QED
    BY <2>1, <2>2
<1>4. ASSUME NEW cb \in CbId, Unregister(cb) PROVE x = cb
  BY <1>4 DEF Unregister, Drop
<1>5. CASE UnregisterAll \/ DisconnectEnd
  BY <1>5 DEF UnregisterAll, DisconnectEnd
<1>6. CASE Unref
  <2>1. refs > 1
    BY <1>6 DEF Unref, alive, TypeOK
  <2> QED
    BY <1>6, <2>1 DEF Unref, queues
<1>7. CASE cbs \subseteq cbs'
  BY <1>7
<1> QED
  BY <1>2, <1>3, <1>4, <1>5, <1>6, <1>7
     DEF Next, Send, CancelAll, CancelAllEnd, Result, ReturnDestroy, Register,
         Notify, WalkEnd, WalkNext, ReturnNotify, Disconnect, DisconnectNext, Ref,
         HandlerEnd, queues

\* What is registered after a step was so before, but for a new handler.
LEMMA NotesStep ==
    ASSUME TypeOK, Handlers, Next
    PROVE  /\ \A i, j \in 1..Len(notes') : i # j => notes'[i] # notes'[j]
           /\ \A i \in 1..Len(notes') :
                 \/ /\ \E j \in 1..Len(notes) : notes'[i] = notes[j]
                    /\ \A cb \in CbId : Unregister(cb) => notes'[i] # cb
                 \/ notes'[i] = ncb + 1 /\ Register
<1>0. /\ \A i, j \in 1..Len(notes) : i # j => notes[i] # notes[j]
      /\ \A i \in 1..Len(notes) : notes[i] \in CbId /\ notes[i] <= ncb
      /\ notes \in Seq(CbId) /\ Len(notes) \in Nat
  <2>1. notes \in Seq(CbId) /\ \A i \in 1..Len(notes) : notes[i] \in CbId
    BY TypeFacts DEF TypeOK
  <2>2. Len(notes) \in Nat
    BY <2>1
  <2> QED
    BY <2>1, <2>2, Zenon DEF Handlers
<1>1. CASE UNCHANGED notes /\ \A cb \in CbId : ~Unregister(cb)
  BY <1>0, <1>1
<1>2. CASE notes' = <<>>
  BY <1>2
<1>3. ASSUME Register PROVE
           /\ \A i, j \in 1..Len(notes') : i # j => notes'[i] # notes'[j]
           /\ \A i \in 1..Len(notes') :
                 \/ /\ \E j \in 1..Len(notes) : notes'[i] = notes[j]
                    /\ \A cb \in CbId : Unregister(cb) => notes'[i] # cb
                 \/ notes'[i] = ncb + 1
  <2>1. \A cb \in CbId : ~Unregister(cb)
    <3> SUFFICES ASSUME NEW cb \in CbId, Unregister(cb) PROVE FALSE
      OBVIOUS
    <3>1. ncb' = ncb + 1 /\ ncb' = ncb /\ ncb \in Nat
      BY <1>3, TypeFacts DEF Register, Unregister
    <3> QED
      BY <3>1
  <2>2. CASE notes' = notes
    BY <1>0, <2>1, <2>2
  <2>3. CASE notes' = Append(notes, ncb + 1)
    <3>1. ncb + 1 \in CbId
      BY <1>3, BoundAssumption DEF Register, CbId, TypeOK
    <3>2. /\ Len(notes') = Len(notes) + 1
          /\ \A i \in 1..Len(notes) : notes'[i] = notes[i]
          /\ notes'[Len(notes) + 1] = ncb + 1
      BY <1>0, <2>3, <3>1, AppendFacts
    <3>3. \A i \in 1..Len(notes') : i \in 1..Len(notes) \/ i = Len(notes) + 1
      BY <1>0, <3>2
    <3>4. \A i \in 1..Len(notes) : notes'[i] # ncb + 1
      <4>1. \A m, n \in Nat : m <= n => m # n + 1
        OBVIOUS
      <4>2. ncb \in Nat /\ \A i \in 1..Len(notes) : notes[i] \in Nat
        BY <1>0, TypeFacts
      <4> QED
        BY <1>0, <3>2, <4>1, <4>2, Zenon
    <3>5. \A i, j \in 1..Len(notes') : i # j => notes'[i] # notes'[j]
      BY <1>0, <3>2, <3>3, <3>4, Zenon
    <3>6. \A i \in 1..Len(notes') :
             (\E j \in 1..Len(notes) : notes'[i] = notes[j]) \/ notes'[i] = ncb + 1
      BY <3>2, <3>3, Zenon
    <3> QED
      BY <2>1, <3>5, <3>6
  <2> QED
    BY <1>3, <2>2, <2>3 DEF Register
<1>4. ASSUME NEW cb \in CbId, Unregister(cb) PROVE
           /\ \A i, j \in 1..Len(notes') : i # j => notes'[i] # notes'[j]
           /\ \A i \in 1..Len(notes') :
                    /\ \E j \in 1..Len(notes) : notes'[i] = notes[j]
                    /\ \A d \in CbId : Unregister(d) => notes'[i] # d
  <2>1. notes' = Without(notes, {cb}) /\ cb \in ToSet(notes) /\ cb \in cbs /\ cbs' = cbs \ {cb}
    <3>1. cb \in ToSet(notes) /\ alive
      BY <1>4 DEF Unregister, ClientRuns
    <3>2. \E i \in 1..Len(notes) : cb = notes[i]
      BY <1>0, <3>1 DEF ToSet
    <3> QED
      BY <1>4, <3>1, <3>2 DEF Unregister, Drop, Handlers
  <2>2. \A d \in CbId : Unregister(d) => d = cb
    BY <2>1 DEF Unregister, Drop
  <2>3. \E i \in 1..Len(notes) : notes[i] = cb
    BY <1>0, <2>1 DEF ToSet
  <2>4. notes' \in Seq(CbId) /\ \E i \in 1..Len(notes) : notes[i] \in {cb} /\ Closed(notes, notes', i)
    BY <1>0, <2>1, <2>3, WithoutFacts
  <2>5. PICK i \in 1..Len(notes) : notes[i] = cb /\ Closed(notes, notes', i)
    BY <2>4
  <2>6. \A m \in 1..Len(notes') : \E l \in 1..Len(notes) :
            l # i /\ notes'[m] = notes[l] /\ l = IF m < i THEN m ELSE m + 1
    BY <1>0, <2>4, <2>5, ClosedFacts
  <2>7. \A m \in 1..Len(notes') :
           (\E j \in 1..Len(notes) : notes'[m] = notes[j]) /\ notes'[m] # cb
    BY <1>0, <2>5, <2>6
  <2>8. ASSUME NEW a \in 1..Len(notes'), NEW b \in 1..Len(notes'), a # b
        PROVE  notes'[a] # notes'[b]
    <3>1. PICK l \in 1..Len(notes) : notes'[a] = notes[l] /\ l = IF a < i THEN a ELSE a + 1
      BY <2>6
    <3>2. PICK m \in 1..Len(notes) : notes'[b] = notes[m] /\ m = IF b < i THEN b ELSE b + 1
      BY <2>6
    <3>3. l # m
      BY <2>4, <2>8, <3>1, <3>2
    <3> QED
      BY <1>0, <3>1, <3>2, <3>3
  <2> QED
    BY <2>2, <2>7, <2>8
<1>5. ASSUME UNCHANGED notes, NEW cb \in CbId, Unregister(cb) PROVE FALSE
  <2>1. cb \in ToSet(notes)
    BY <1>5 DEF Unregister
  <2>2. \E i \in 1..Len(notes) : notes[i] = cb
    BY <1>0, <2>1 DEF ToSet
  <2> QED
    BY <1>4, <1>5, <2>2
<1>6. ASSUME Unref \/ HandlerEnd \/ DisconnectEnd \/ UnregisterAll
      PROVE  (UNCHANGED notes /\ \A cb \in CbId : ~Unregister(cb)) \/ notes' = <<>>
  <2>1. UNCHANGED notes \/ notes' = <<>>
    BY <1>6 DEF Unref, HandlerEnd, DisconnectEnd, UnregisterAll, bearer
  <2> QED
    BY <1>5, <2>1
<1> QED
  BY <1>1, <1>2, <1>3, <1>4, <1>5, <1>6
     DEF Next, Send, Cancel, CancelAll, CancelAllNext, CancelAllEnd, Result,
         ReturnResult, ReturnDestroy, Notify, WalkEnd, WalkNext, ReturnNotify,
         Disconnect, DisconnectNext, Ref, bearer

\* The records of the handlers are kept apart from those of the requests.
LEMMA HandlersStep ==
    ASSUME TypeOK, Records, Handlers, Shape(stack), Next
    PROVE  Handlers'
<1>0. /\ ncb \in Nat /\ ncb' \in Nat /\ ncb <= ncb'
      /\ (Register \/ \E id \in Ids : Send(id)) => ncb' = ncb + 1
  <2>1. ncb' = ncb \/ ncb' = ncb + 1
    BY DEF Next, Send, Cancel, CancelAll, CancelAllNext, CancelAllEnd, Result,
           ReturnResult, ReturnDestroy, Register, UnregisterAll, Unregister, Notify,
           WalkEnd, WalkNext, ReturnNotify, Disconnect, DisconnectNext,
           DisconnectEnd, Ref, Unref, HandlerEnd
  <2> QED
    BY <2>1, TypeFacts DEF Register, Send
<1>1. ASSUME NEW i \in 1..Len(notes'), notes'[i] = ncb + 1, Register
      PROVE  /\ notes'[i] <= ncb' /\ ~Asked(notes[i])'
             /\ alive' => notes'[i] \in cbs'
  <2>1. notes'[i] \in cbs' /\ notes'[i] <= ncb'
    BY <1>0, <1>1 DEF Register
  <2>2. PICK x \in CbId : x = ncb + 1
    BY <1>1, BoundAssumption DEF Register, CbId, TypeOK
  <2>3. ~Asked(x)
    BY <1>0, <2>2 DEF Handlers
  <2>4. UNCHANGED <<ops, flush, stack>>
    BY <1>1 DEF Register
  <2>5. ~Asked(x)'
    BY <2>3, <2>4 DEF Asked, AskedOps, AskedFlush, AskedOn
  <2> QED
    BY <1>1, <2>1, <2>2, <2>5 DEF Asked, AskedOps, AskedFlush, AskedOn
<1>2. ASSUME NEW i \in 1..Len(notes'), NEW j \in 1..Len(notes), notes'[i] = notes[j],
             \A cb \in CbId : Unregister(cb) => notes'[i] # cb
      PROVE  /\ notes'[i] <= ncb' /\ ~Asked(notes[i])'
             /\ alive' => notes'[i] \in cbs'
  <2>1. PICK x \in CbId : x = notes'[i]
    BY <1>2, TypeFacts
  <2>2. x <= ncb /\ ~Asked(x) /\ (alive => x \in cbs)
    BY <1>2, <2>1 DEF Handlers
  <2>3. x <= ncb'
    BY <1>0, <2>2, TypeFacts
  <2>4. ~Asked(x)'
    <3>1. x # ncb + 1
      BY <1>0, <2>2, TypeFacts
    <3> QED
      BY <2>2, <3>1, AskedStep
  <2>5. alive' => x \in cbs'
    <3> SUFFICES ASSUME alive', x \notin cbs' PROVE FALSE
      OBVIOUS
    <3>1. x \in cbs
      BY <2>2, LifeStep
    <3>2. notes' # <<>>
      OBVIOUS
    <3> QED
      BY <1>2, <2>1, <2>2, <3>1, <3>2, CbsStep
  <2>6. ~Asked(notes[i])'
    BY <2>1, <2>4 DEF Asked, AskedOps, AskedFlush, AskedOn
  <2> QED
    BY <2>1, <2>3, <2>5, <2>6
<1>3. ASSUME NEW c \in CbId, Asked(c)' PROVE c <= ncb'
  <2>1. CASE Asked(c)
    <3>1. c <= ncb
      BY <2>1 DEF Handlers
    <3> QED
      BY <1>0, <3>1, TypeFacts
  <2>2. CASE c = ncb + 1 /\ \E id \in Ids : Send(id)
    BY <1>0, <2>2
  <2> QED
    BY <1>3, <2>1, <2>2, AskedStep
<1>4. \A i \in 1..Len(notes') : /\ notes'[i] <= ncb' /\ ~Asked(notes[i])'
                                /\ alive' => notes'[i] \in cbs'
  BY <1>1, <1>2, NotesStep
<1>5. \A i, j \in 1..Len(notes') : i # j => notes'[i] # notes'[j]
  BY NotesStep
<1> QED
  BY <1>3, <1>4, <1>5 DEF Handlers

-----------------------------------------------------------------------------
(* Each record is destroyed once *)

\* At the beginning there is nothing to keep in order.
LEMMA KeptInit ==
    ASSUME Init
    PROVE  Kept
<1>1. /\ refs \in Nat /\ att \in BOOLEAN /\ chan \in BOOLEAN /\ uaf \in BOOLEAN
      /\ lastInside \in BOOLEAN /\ pulled \in BOOLEAN /\ reentered \in BOOLEAN
  BY Zenon DEF Init
<1>2. /\ refs = 1 /\ cbs = {} /\ track = <<>>
      /\ pair = [c \in CbId |-> [org |-> 0, pend |-> 0, addr |-> Null]]
      /\ ops = <<>> /\ flush = <<>> /\ notes = <<>>
      /\ ncb = 0 /\ nextId = 1
      /\ stack = <<>>
      /\ dtor = [c \in CbId |-> 0] /\ strays = {} /\ att /\ ~lastInside
  BY DEF Init
<1>3. TypeOK
  <2>1. refs \in Nat
    BY <1>2
  <2>2. [org |-> 0, pend |-> 0, addr |-> Null] \in [org : Nat, pend : Nat, addr : Addr \cup {Null}]
    OBVIOUS
  <2>3. pair \in [CbId -> [org : Nat, pend : Nat, addr : Addr \cup {Null}]]
    BY <1>2, <2>2, Zenon
  <2>4. ncb \in 0..MaxCb /\ nextId \in Nat \ {0}
    BY <1>2, BoundAssumption
  <2>5. dtor \in [CbId -> Nat]
    BY <1>2
  <2>6. <<>> \in Seq(CbId) /\ <<>> \in Seq(Op) /\ <<>> \in Seq(Frames)
    OBVIOUS
  <2> QED
    BY <1>1, <1>2, <2>1, <2>3, <2>4, <2>5, <2>6, Zenon DEF TypeOK
<1>4. Records
  <2>1. \A c \in CbId : dtor[c] = 0 /\ ~(c <= 0)
    BY <1>2, BoundAssumption DEF CbId
  <2> QED
    BY <1>2, <2>1 DEF Records, alive
<1>5. Handlers /\ Shape(stack) /\ Ending
  BY <1>2 DEF Handlers, Asked, AskedOps, AskedFlush, AskedOn, Shape, Ending
<1> QED
  BY <1>3, <1>4, <1>5 DEF Kept

\* A step of others changes nothing here.
LEMMA KeptStutter ==
    ASSUME Kept, UNCHANGED vars
    PROVE  Kept'
<1>1. UNCHANGED <<refs, cbs, track, pair, att, chan, ops, flush, notes, nextId, ncb,
                  stack, uaf, dtor, strays, lastInside, pulled, reentered>>
  BY DEF vars, queues, bearer, history
<1>2. TypeOK' /\ Records'
  BY <1>1 DEF Kept, TypeOK, Records, alive
<1>3. Handlers'
  BY <1>1 DEF Kept, Handlers, Asked, AskedOps, AskedFlush, AskedOn, alive
<1>4. Shape(stack)' /\ Ending'
  BY <1>1 DEF Kept, Ending, Shape, alive
<1> QED
  BY <1>2, <1>3, <1>4 DEF Kept

\* The records, the handlers and the calls under way stay in order.
THEOREM KeptCorrect == Spec => []Kept
<1>1. Init => Kept
  BY KeptInit
<1>2. Kept /\ [Next]_vars => Kept'
  <2>1. ASSUME Kept, Next PROVE Kept'
    BY <2>1, TypeStep, RecordsStep, HandlersStep, ShapeStep, EndingStep DEF Kept
  <2> QED
    BY <2>1, KeptStutter
<1> QED
  BY <1>1, <1>2, PTL DEF Spec

\* No record of g_attrib_send or g_attrib_register is destroyed twice, and none
\* is left when the GAttrib and its bearer are gone.
THEOREM DestroyOnceCorrect == Spec => []DestroyOnce
<1>1. Kept => DestroyOnce
  <2> SUFFICES ASSUME Kept PROVE DestroyOnce
    OBVIOUS
  <2>1. \A c \in 1..ncb : c \in CbId /\ c <= ncb
    BY TypeFacts, BoundAssumption DEF Kept, TypeOK, CbId
  <2> QED
    BY <2>1 DEF Kept, Records, DestroyOnce
<1> QED
  BY <1>1, KeptCorrect, PTL

-----------------------------------------------------------------------------
(* Requests *)

\* The elements of t are elements of s, different ones at different places.
Thin(s, t) ==
    /\ \A m \in 1..Len(t) : \E k \in 1..Len(s) : t[m] = s[k]
    /\ \A m, n \in 1..Len(t) : m # n =>
           \E k, l \in 1..Len(s) : k # l /\ t[m] = s[k] /\ t[n] = s[l]

\* A list without one of its elements ...
LEMMA ThinClosed ==
    ASSUME NEW T, NEW s \in Seq(T), NEW t \in Seq(T), NEW i \in 1..Len(s),
           Closed(s, t, i)
    PROVE  Thin(s, t)
<1>1. \A m \in 1..Len(t) : \E l \in 1..Len(s) :
         l # i /\ t[m] = s[l] /\ l = IF m < i THEN m ELSE m + 1
  BY ClosedFacts
<1>2. \A m \in 1..Len(t) : \E k \in 1..Len(s) : t[m] = s[k]
  BY ClosedSub
<1>3. ASSUME NEW a \in 1..Len(t), NEW b \in 1..Len(t), a # b
      PROVE  \E k, l \in 1..Len(s) : k # l /\ t[a] = s[k] /\ t[b] = s[l]
  <2>1. PICK k \in 1..Len(s) : t[a] = s[k] /\ k = IF a < i THEN a ELSE a + 1
    BY <1>1
  <2>2. PICK l \in 1..Len(s) : t[b] = s[l] /\ l = IF b < i THEN b ELSE b + 1
    BY <1>1
  <2>3. k # l
    BY <1>3, <2>1, <2>2
  <2> QED
    BY <2>1, <2>2, <2>3
<1> QED
  BY <1>2, <1>3 DEF Thin

\* ... or without its first, or with it last, is thinner ...
LEMMA ThinTail ==
    ASSUME NEW T, NEW s \in Seq(T), s # <<>>
    PROVE  Thin(s, Tail(s)) /\ Thin(s, Append(Tail(s), Head(s)))
<1> DEFINE t == Tail(s)
           u == Append(t, Head(s))
<1>1. /\ Head(s) = s[1] /\ Head(s) \in T /\ 1 \in 1..Len(s)
      /\ t \in Seq(T) /\ Len(t) = Len(s) - 1 /\ Len(s) \in Nat
      /\ \A i \in 1..(Len(s) - 1) : t[i] = s[i + 1]
  BY TailFacts
<1>2. /\ Len(u) = Len(t) + 1
      /\ \A i \in 1..Len(t) : u[i] = t[i]
      /\ u[Len(t) + 1] = s[1]
  BY <1>1, AppendFacts
<1> HIDE DEF t, u
<1>3. Thin(s, t)
  <2>1. \A i \in 1..Len(t) : i + 1 \in 1..Len(s) /\ t[i] = s[i + 1]
    BY <1>1
  <2>2. \A m, n \in 1..Len(t) : m # n => m + 1 # n + 1
    BY <1>1
  <2> QED
    BY <2>1, <2>2 DEF Thin
<1>4. Thin(s, u)
  <2>0. Len(u) = Len(s)
    BY <1>1, <1>2
  <2>1. \A i \in 1..Len(u) : i \in 1..(Len(s) - 1) \/ i = Len(s)
    BY <1>1, <2>0
  <2>2. \A i \in 1..(Len(s) - 1) : i + 1 \in 1..Len(s) /\ i + 1 # 1 /\ u[i] = s[i + 1]
    BY <1>1, <1>2
  <2>3. u[Len(s)] = s[1]
    BY <1>1, <1>2
  <2>4. \A m, n \in 1..(Len(s) - 1) : m # n => m + 1 # n + 1
    BY <1>1
  <2>5. \A m \in 1..Len(u) : \E k \in 1..Len(s) : u[m] = s[k]
    BY <1>1, <2>1, <2>2, <2>3, Zenon
  <2>6. ASSUME NEW m \in 1..Len(u), NEW n \in 1..Len(u), m # n
        PROVE  \E k, l \in 1..Len(s) : k # l /\ u[m] = s[k] /\ u[n] = s[l]
    <3>1. CASE m \in 1..(Len(s) - 1) /\ n \in 1..(Len(s) - 1)
      BY <2>2, <2>4, <2>6, <3>1
    <3>2. CASE m \in 1..(Len(s) - 1) /\ n = Len(s)
      BY <1>1, <2>2, <2>3, <3>2, Zenon
    <3>3. CASE m = Len(s) /\ n \in 1..(Len(s) - 1)
      BY <1>1, <2>2, <2>3, <3>3, Zenon
    <3> QED
      BY <2>1, <2>6, <3>1, <3>2, <3>3, Zenon
  <2> QED
    BY <2>5, <2>6 DEF Thin
<1> QED
  BY <1>3, <1>4 DEF t, u

\* ... as is the list itself ...
LEMMA ThinSame ==
    ASSUME NEW s, NEW t, t = s \/ t = <<>>
    PROVE  Thin(s, t)
  BY DEF Thin

\* ... and what was different in it stays so.
LEMMA ThinDistinct ==
    ASSUME NEW s, NEW t, Thin(s, t),
           \A i, j \in 1..Len(s) : i # j => s[i].cb # s[j].cb
    PROVE  \A i, j \in 1..Len(t) : i # j => t[i].cb # t[j].cb
<1> SUFFICES ASSUME NEW i \in 1..Len(t), NEW j \in 1..Len(t), i # j
             PROVE  t[i].cb # t[j].cb
  OBVIOUS
<1>1. PICK k \in 1..Len(s), l \in 1..Len(s) : k # l /\ t[i] = s[k] /\ t[j] = s[l]
  BY DEF Thin
<1> QED
  BY <1>1

\* bt_att_cancel takes at most one request away.
LEMMA CancelThin ==
    ASSUME TypeOK, NEW pend, NEW rest, BtAttCancel(pend, rest)
    PROVE  Thin(ops, ops')
<1>1. CASE ops' = ops
  BY <1>1, ThinSame
<1>2. ASSUME NEW i \in 1..Len(ops), NEW next \in CbId \cup {Null},
             Found(pend, rest, i, next)
      PROVE  Thin(ops, ops')
  BY <1>1, <1>2, ThinClosed DEF Found, TypeOK
<1> QED
  BY <1>1, <1>2, CancelFacts DEF NoneFound

\* Without new requests the list of the bearer only gets shorter.
LEMMA OpsThin ==
    ASSUME TypeOK, Next, ~(\E id \in Ids : Send(id))
    PROVE  Thin(ops, ops')
<1>1. CASE ops' = ops \/ ops' = <<>>
  BY <1>1, ThinSame
<1>2. ASSUME NEW held \in BOOLEAN, Result(held) PROVE Thin(ops, ops')
  BY <1>1, <1>2, ThinTail DEF Result, TypeOK
<1>3. CASE (\E id \in Ids : Cancel(id)) \/ CancelAllNext
  BY <1>1, <1>3, CancelThin DEF Cancel, CancelAllNext
<1>4. CASE ReturnDestroy
  <2>1. PICK S : ops' = Without(ops, S)
    BY <1>4 DEF ReturnDestroy
  <2>2. /\ ops' \in Seq(Op)
        /\ ops' = ops \/ \E j \in 1..Len(ops) : Closed(ops, ops', j)
    BY <2>1, WithoutFacts DEF TypeOK
  <2>3. ASSUME NEW j \in 1..Len(ops), Closed(ops, ops', j) PROVE Thin(ops, ops')
    BY <2>2, <2>3, ThinClosed DEF TypeOK
  <2> QED
    BY <1>1, <2>2, <2>3
<1>5. CASE Unref \/ HandlerEnd \/ Disconnect
  BY <1>1, <1>5 DEF Unref, HandlerEnd, Disconnect, bearer
<1> QED
  BY <1>1, <1>2, <1>3, <1>4, <1>5
     DEF Next, CancelAll, CancelAllEnd,
         ReturnResult, Register, UnregisterAll, Unregister, Notify,
         WalkEnd, WalkNext, ReturnNotify, DisconnectNext, DisconnectEnd, Ref, bearer

\* What a disconnection ends is a list that only gets shorter.
LEMMA FlushThin ==
    ASSUME TypeOK, Next
    PROVE  Thin(flush, flush') \/ (Thin(ops, flush') /\ Disconnect)
<1>1. CASE flush' = flush \/ flush' = <<>>
  BY <1>1, ThinSame
<1>2. CASE Disconnect
  <2>1. CASE flush' = ops \/ flush' = <<>>
    BY <1>2, <2>1, ThinSame
  <2> QED
    BY <1>2, <2>1, ThinTail DEF Disconnect, TypeOK
<1>3. CASE DisconnectNext
  BY <1>1, <1>3, ThinTail DEF DisconnectNext, TypeOK
<1> QED
  BY <1>1, <1>2, <1>3
     DEF Next, Send, Cancel, CancelAll, CancelAllNext, CancelAllEnd, Result,
         ReturnResult, ReturnDestroy, Register, UnregisterAll, Unregister, Notify,
         WalkEnd, WalkNext, ReturnNotify, DisconnectEnd, Ref, Unref, HandlerEnd, bearer

\* A new request: its record n, its id p and the address a of its pair.
Sent(n, p, a) ==
    /\ n = ncb + 1 /\ n \in CbId /\ a \in Addr /\ p \in Nat
    /\ ncb' = n /\ cbs' = cbs \cup {n} /\ dtor[n] = 0 /\ ~Asked(n)
    /\ \A i \in 1..Len(track) : a # pair[track[i]].addr
    /\ track' = Append(track, n)
    /\ pair'[n].pend = p /\ pair'[n].addr = a
    /\ \A c \in CbId : c # n => pair'[c] = pair[c]
    /\ \/ strays' = strays \cup {n}
       \/ strays' = strays /\ ~OnStack("all") /\ ~Named(a)
    /\ UNCHANGED <<refs, att, chan, flush, notes, stack, uaf, dtor, lastInside,
                   pulled, reentered>>

\* What g_attrib_send does.
LEMMA SendFacts ==
    ASSUME Kept, NEW id \in Ids, Send(id)
    PROVE  \E n, p, a :
              /\ Sent(n, p, a)
              /\ \/ /\ chan /\ p = nextId /\ nextId' = nextId + 1
                    /\ ops' = Append(ops, [id |-> p, cb |-> n])
                 \/ ~chan /\ p = 0 /\ UNCHANGED <<ops, nextId>>
<1> DEFINE n == ncb + 1
           p == IF chan THEN nextId ELSE 0
<1>0. TypeOK /\ Records /\ Handlers
  BY DEF Kept
<1>1. n \in CbId /\ p \in Nat
  BY <1>0, BoundAssumption DEF Send, CbId, TypeOK
<1>2. dtor[n] = 0
  BY <1>0, <1>1, TypeFacts DEF Records
<1>3. ~Asked(n)
  BY <1>0, <1>1, TypeFacts DEF Handlers
<1>4. PICK a \in Addr \ {pair[c].addr : c \in ToSet(track)} :
        /\ track' = Append(track, n)
        /\ pair' = [pair EXCEPT ![n] = [org  |-> IF id = 0 THEN p ELSE id,
                                        pend |-> p, addr |-> a]]
        /\ strays' = IF OnStack("all") \/ Named(a) THEN strays \cup {n} ELSE strays
  BY DEF Send, StoreId
<1>5. \A i \in 1..Len(track) : a # pair[track[i]].addr
  <2>1. \A i \in 1..Len(track) : track[i] \in ToSet(track)
    BY DEF ToSet
  <2> QED
    BY <1>4, <2>1
<1>6. /\ ncb' = n /\ cbs' = cbs \cup {n}
      /\ UNCHANGED <<refs, att, chan, flush, notes, stack, uaf, dtor, lastInside,
                     pulled, reentered>>
  BY DEF Send
<1>7. \/ /\ chan /\ p = nextId /\ nextId' = nextId + 1
         /\ ops' = Append(ops, [id |-> p, cb |-> n])
      \/ ~chan /\ p = 0 /\ UNCHANGED <<ops, nextId>>
  BY DEF Send
<1>8. n = ncb + 1
  OBVIOUS
<1> HIDE DEF n, p
<1>9. /\ pair'[n].pend = p /\ pair'[n].addr = a
      /\ \A c \in CbId : c # n => pair'[c] = pair[c]
  BY <1>0, <1>1, <1>4 DEF TypeOK
<1>10. \/ strays' = strays \cup {n}
       \/ strays' = strays /\ ~OnStack("all") /\ ~Named(a)
  BY <1>4
<1>11. Sent(n, p, a)
  BY <1>1, <1>2, <1>3, <1>4, <1>5, <1>6, <1>8, <1>9, <1>10 DEF Sent
<1> QED
  BY <1>7, <1>11

\* A new request takes a new id.
LEMMA RequestsSend ==
    ASSUME Kept, Requests, NEW id \in Ids, Send(id)
    PROVE  Requests'
<1>0. /\ TypeOK
      /\ \A i, j \in 1..Len(ops) : i # j => ops[i].cb # ops[j].cb
      /\ \A i \in 1..Len(ops) : ops[i].id = pair[ops[i].cb].pend /\ ops[i].id # 0
      /\ \A c \in CbId : pair[c].pend < nextId /\ pair[c].pend \in Nat
      /\ \A c, d \in CbId : (pair[c].pend = pair[d].pend /\ pair[c].pend # 0) => c = d
      /\ nextId \in Nat \ {0}
  <2>1. TypeOK
    BY DEF Kept
  <2> QED
    BY <2>1, TypeFacts DEF Requests, TypeOK
<1>1. PICK n, p, a :
              /\ Sent(n, p, a)
              /\ \/ /\ chan /\ p = nextId /\ nextId' = nextId + 1
                    /\ ops' = Append(ops, [id |-> p, cb |-> n])
                 \/ ~chan /\ p = 0 /\ UNCHANGED <<ops, nextId>>
  BY SendFacts
<1>2. /\ n \in CbId /\ p \in Nat /\ ~Asked(n) /\ UNCHANGED <<chan, flush>>
      /\ pair'[n].pend = p /\ \A c \in CbId : c # n => pair'[c] = pair[c]
  BY <1>1 DEF Sent
<1>3. \A i \in 1..Len(ops) : ops[i].cb \in CbId /\ ops[i].cb # n
  BY <1>0, <1>2, TypeFacts DEF Asked, AskedOps
<1>4. \A i, j \in 1..Len(flush') : i # j => flush'[i].cb # flush'[j].cb
  BY <1>2 DEF Requests
<1>5. /\ (~chan => ops = <<>>) /\ (chan => flush = <<>>)
  BY DEF Requests
<1>6. CASE chan /\ p = nextId /\ nextId' = nextId + 1
                    /\ ops' = Append(ops, [id |-> p, cb |-> n])
  <2> DEFINE o == [id |-> p, cb |-> n]
  <2>1. o.id = p /\ o.cb = n /\ o \in Op
    BY <1>2 DEF Op
  <2> HIDE DEF o
  <2>2. /\ Len(ops') = Len(ops) + 1 /\ Len(ops) \in Nat
        /\ \A i \in 1..Len(ops) : ops'[i] = ops[i]
        /\ ops'[Len(ops) + 1] = o
    BY <1>0, <1>6, <2>1, AppendFacts DEF TypeOK, o
  <2>3. \A i \in 1..Len(ops') : i \in 1..Len(ops) \/ i = Len(ops) + 1
    BY <2>2
  <2>4. \A i, j \in 1..Len(ops') : i # j => ops'[i].cb # ops'[j].cb
    <3>1. \A i \in 1..Len(ops) : ops'[i].cb # n /\ ops'[i].cb = ops[i].cb
      BY <1>3, <2>2
    <3>2. ops'[Len(ops) + 1].cb = n
      BY <2>1, <2>2
    <3> SUFFICES ASSUME NEW i \in 1..Len(ops'), NEW j \in 1..Len(ops'), i # j
                 PROVE  ops'[i].cb # ops'[j].cb
      OBVIOUS
    <3>3. CASE i \in 1..Len(ops) /\ j \in 1..Len(ops)
      BY <1>0, <3>1, <3>3, Zenon
    <3>4. CASE i \in 1..Len(ops) /\ j = Len(ops) + 1
      BY <3>1, <3>2, <3>4, Zenon
    <3>5. CASE i = Len(ops) + 1 /\ j \in 1..Len(ops)
      BY <3>1, <3>2, <3>5, Zenon
    <3> QED
      BY <2>3, <3>3, <3>4, <3>5, Zenon
  <2>5. p # 0 /\ nextId' \in Nat
    BY <1>0, <1>6
  <2>6. \A i \in 1..Len(ops') : ops'[i].id = pair'[ops'[i].cb].pend /\ ops'[i].id # 0
    <3> TAKE i \in 1..Len(ops')
    <3>1. CASE i \in 1..Len(ops)
      <4>1. ops'[i] = ops[i] /\ ops[i].cb \in CbId /\ ops[i].cb # n
        BY <1>3, <2>2, <3>1, Zenon
      <4>2. ops[i].id = pair[ops[i].cb].pend /\ ops[i].id # 0
        BY <1>0, <3>1, Zenon
      <4>3. pair'[ops[i].cb] = pair[ops[i].cb]
        BY <1>2, <4>1, Zenon
      <4> QED
        BY <4>1, <4>2, <4>3, Zenon
    <3>2. CASE i = Len(ops) + 1
      <4>1. ops'[i] = o
        BY <2>2, <3>2, Zenon
      <4> QED
        BY <1>2, <2>1, <2>5, <4>1, Zenon
    <3> QED
      BY <2>3, <3>1, <3>2
  <2>7. \A c \in CbId : pair'[c].pend < nextId'
    <3>1. \A x \in Nat : x < nextId => x < nextId + 1
      BY <1>0
    <3>2. p < nextId'
      BY <1>0, <1>6
    <3> QED
      BY <1>0, <1>2, <1>6, <3>1, <3>2
  <2>8. \A c \in CbId : pair[c].pend # p
    BY <1>0, <1>6
  <2>9. \A c, d \in CbId : (pair'[c].pend = pair'[d].pend /\ pair'[c].pend # 0) => c = d
    BY <1>0, <1>2, <2>8
  <2> QED
    BY <1>2, <1>4, <1>5, <1>6, <2>4, <2>6, <2>7, <2>9 DEF Requests
<1>7. CASE ~chan /\ p = 0 /\ UNCHANGED <<ops, nextId>>
  <2>1. ops' = <<>>
    BY <1>5, <1>7
  <2>2. \A c \in CbId : pair'[c].pend < nextId'
    BY <1>0, <1>2, <1>7
  <2>3. \A c, d \in CbId : (pair'[c].pend = pair'[d].pend /\ pair'[c].pend # 0) => c = d
    BY <1>0, <1>2, <1>7
  <2> QED
    BY <1>2, <1>4, <1>7, <2>1, <2>2, <2>3 DEF Requests
<1> QED
  BY <1>1, <1>6, <1>7

\* The requests keep their ids and places.
LEMMA RequestsStep ==
    ASSUME Kept, Requests, Next
    PROVE  Requests'
<1>0. TypeOK
  BY DEF Kept
<1>1. CASE \E id \in Ids : Send(id)
  BY <1>1, RequestsSend
<1>2. CASE ~(\E id \in Ids : Send(id))
  <2>1. UNCHANGED <<pair, nextId>>
    BY <1>2 DEF Next, Cancel, CancelAll, CancelAllNext, CancelAllEnd, Result,
         ReturnResult, ReturnDestroy, Register, UnregisterAll, Unregister, Notify,
         WalkEnd, WalkNext, ReturnNotify, Disconnect, DisconnectNext, DisconnectEnd,
         Ref, Unref, HandlerEnd, queues, bearer
  <2>2. Thin(ops, ops')
    BY <1>0, <1>2, OpsThin
  <2>3. \A i, j \in 1..Len(ops') : i # j => ops'[i].cb # ops'[j].cb
    BY <2>2, ThinDistinct DEF Requests
  <2>4. \A i \in 1..Len(ops') : ops'[i].id = pair'[ops'[i].cb].pend /\ ops'[i].id # 0
    <3> TAKE i \in 1..Len(ops')
    <3>1. PICK k \in 1..Len(ops) : ops'[i] = ops[k]
      BY <2>2 DEF Thin
    <3>2. ops[k].id = pair[ops[k].cb].pend /\ ops[k].id # 0
      BY DEF Requests
    <3> QED
      BY <2>1, <3>1, <3>2
  <2>5. \A i, j \in 1..Len(flush') : i # j => flush'[i].cb # flush'[j].cb
    BY <1>0, FlushThin, ThinDistinct DEF Requests
  <2>6. /\ \A c \in CbId : pair'[c].pend < nextId'
        /\ \A c, d \in CbId : (pair'[c].pend = pair'[d].pend /\ pair'[c].pend # 0) => c = d
    BY <2>1 DEF Requests
  <2>7. ops = <<>> => ops' = <<>>
    <3> SUFFICES ASSUME ops = <<>> PROVE ops' = <<>>
      OBVIOUS
    <3>1. \A m \in 1..Len(ops') : FALSE
      BY <2>2 DEF Thin
    <3>2. ops' \in Seq(Op)
      BY <1>0, TypeStep DEF Kept, TypeOK
    <3> QED
      BY <3>1, <3>2
  <2>8. ~chan' => ops' = <<>>
    <3>1. chan' = chan \/ ops' = <<>> \/ Unref
      BY DEF Next, Send, Cancel, CancelAll, CancelAllNext, CancelAllEnd, Result,
         ReturnResult, ReturnDestroy, Register, UnregisterAll, Unregister, Notify,
         WalkEnd, WalkNext, ReturnNotify, Disconnect, DisconnectNext, DisconnectEnd,
         Ref, HandlerEnd, bearer
    <3>2. Unref => chan' = chan \/ ops' = <<>>
      BY DEF Unref, bearer
    <3> QED
      BY <2>7, <3>1, <3>2 DEF Requests
  <2>9. chan' => flush' = <<>>
    <3>1. chan' => chan
      BY <1>0, LifeStep
    <3>2. CASE Disconnect
      BY <3>2 DEF Disconnect
    <3>3. CASE DisconnectNext
      BY <3>1, <3>3 DEF DisconnectNext, Requests
    <3>4. CASE UNCHANGED flush
      BY <3>1, <3>4 DEF Requests
    <3> QED
      BY <3>2, <3>3, <3>4 DEF Next, Send, Cancel, CancelAll, CancelAllNext,
         CancelAllEnd, Result, ReturnResult, ReturnDestroy, Register, UnregisterAll,
         Unregister, Notify, WalkEnd, WalkNext, ReturnNotify, DisconnectEnd, Ref,
         Unref, HandlerEnd, bearer
  <2> QED
    BY <2>3, <2>4, <2>5, <2>6, <2>8, <2>9 DEF Requests
<1> QED
  BY <1>1, <1>2

-----------------------------------------------------------------------------
(* What the bearer lists *)

\* The calls of kind k that are under way are still under way on the stack t.
Keeps(k, t) ==
    \A j \in 1..Len(stack) : stack[j].k = k => \E i \in 1..Len(t) : t[i] = stack[j]

\* A call that is made ends no other.
LEMMA KeepsPush ==
    ASSUME NEW k, NEW s \in Seq(Frames), NEW f \in Frames, Keeps(k, s)
    PROVE  Keeps(k, Append(s, f))
<1> DEFINE t == Append(s, f)
<1>1. /\ Len(t) = Len(s) + 1 /\ Len(s) \in Nat
      /\ \A i \in 1..Len(s) : t[i] = s[i]
  BY AppendFacts
<1> HIDE DEF t
<1>2. \A i \in 1..Len(s) : i \in 1..Len(t) /\ t[i] = s[i]
  BY <1>1
<1> QED
  BY <1>2 DEF Keeps, t

\* A call that returns ends none of another kind.
LEMMA KeepsPop ==
    ASSUME NEW k, TypeOK, Shape(stack), stack # <<>>, Top.k # k
    PROVE  Keeps(k, Pop)
<1>1. /\ Len(Pop) = Len(stack) - 1 /\ Len(stack) \in Nat /\ Top = stack[Len(stack)]
      /\ \A i \in 1..(Len(stack) - 1) : Pop[i] = stack[i]
  BY TopOnto
<1>2. \A j \in 1..Len(stack) : j = Len(stack) \/ (j \in 1..Len(Pop) /\ Pop[j] = stack[j])
  BY <1>1
<1> QED
  BY <1>1, <1>2 DEF Keeps

\* attrib_callbacks_remove ends no call of what is below it.
LEMMA KeepsRemove ==
    ASSUME NEW k, NEW cb \in CbId, NEW rest \in Seq(Frames), NEW held \in BOOLEAN,
           NEW next \in CbId \cup {Null}, RemoveCb(cb, rest, held, next),
           Keeps(k, rest)
    PROVE  Keeps(k, stack')
<1>1. Frame("destroy", cb, held, next) \in Frames
  BY FrameFacts DEF Kind
<1>2. Keeps(k, stack)
  BY DEF Keeps
<1>3. CASE stack' = stack
  BY <1>2, <1>3
<1>4. CASE stack' = rest
  BY <1>4
<1>5. CASE stack' = Append(rest, Frame("destroy", cb, held, next))
  BY <1>1, <1>5, KeepsPush
<1> QED
  BY <1>3, <1>4, <1>5, RemoveCbFacts

\* Nor does bt_att_cancel.
LEMMA KeepsCancel ==
    ASSUME NEW k, TypeOK, NEW pend, NEW rest \in Seq(Frames), BtAttCancel(pend, rest),
           Keeps(k, rest)
    PROVE  Keeps(k, stack')
<1>1. CASE NoneFound(pend, rest)
  BY <1>1 DEF NoneFound
<1>2. ASSUME NEW i \in 1..Len(ops), NEW next \in CbId \cup {Null},
             Found(pend, rest, i, next)
      PROVE  Keeps(k, stack')
  BY <1>2, KeepsRemove DEF Found
<1> QED
  BY <1>1, <1>2, CancelFacts

\* g_attrib_cancel_all goes on with the next pair.
AllFrame == Frame("all", Null, FALSE, NextOf(track, Top.next))

\* What a step of g_attrib_cancel_all does.
LEMMA CancelAllFacts ==
    ASSUME TypeOK, Shape(stack), CancelAllNext
    PROVE  /\ stack # <<>> /\ Top.k = "all" /\ AllFrame \in Frames
           /\ AllFrame.k = "all" /\ AllFrame.cb = Null
           /\ AllFrame.next = NextOf(track, Top.next)
           /\ Append(Pop, AllFrame) \in Seq(Frames)
           /\ Top.next # Null /\ track # <<>> /\ alive
           /\ UNCHANGED <<refs, track, pair, att, chan, flush, notes, ncb, nextId,
                          strays, lastInside, pulled, reentered>>
           /\ \/ /\ Top.next \notin ToSet(track) /\ uaf' = TRUE
                 /\ UNCHANGED <<stack, ops, cbs, dtor>>
              \/ /\ Top.next \in ToSet(track)
                 /\ BtAttCancel(pair[Top.next].pend, Append(Pop, AllFrame))
<1>1. stack # <<>> /\ Top.k = "all"
  BY DEF CancelAllNext, In
<1>2. NextOf(track, Top.next) \in CbId \cup {Null}
  BY NextOfFacts DEF TypeOK
<1>3. /\ AllFrame \in Frames /\ AllFrame.k = "all" /\ AllFrame.cb = Null
      /\ AllFrame.next = NextOf(track, Top.next)
  BY <1>2 DEF AllFrame, Frame, Frames, Kind
<1>4. Append(Pop, AllFrame) \in Seq(Frames)
  BY <1>1, <1>3, TopOnto, AppendFacts
<1> QED
  BY <1>1, <1>3, <1>4 DEF CancelAllNext, AllFrame

\* It ends no call of another kind.
LEMMA KeepsAll ==
    ASSUME NEW k, k # "all", TypeOK, Shape(stack), CancelAllNext
    PROVE  Keeps(k, Append(Pop, AllFrame))
<1>1. stack # <<>> /\ Top.k # k /\ AllFrame \in Frames
  BY CancelAllFacts
<1> QED
  BY <1>1, KeepsPop, KeepsPush, TopOnto

\* Only its own return ends a destroy function or a handler.
LEMMA CallKept ==
    ASSUME NEW k \in {"destroy", "notify"}, TypeOK, Shape(stack), Next,
           ~(k = "destroy" /\ ReturnDestroy), ~(k = "notify" /\ ReturnNotify)
    PROVE  Keeps(k, stack')
<1>0. ASSUME NEW f \in Frames, stack' = Push(f) PROVE Keeps(k, stack')
  <2>1. Keeps(k, stack)
    BY DEF Keeps
  <2> QED
    BY <1>0, <2>1, KeepsPush DEF Push, TypeOK
<1>1. CASE UNCHANGED stack
  BY <1>1 DEF Keeps
<1>2. CASE stack' = <<>> /\ stack = <<>>
  BY <1>2 DEF Keeps
<1>3. ASSUME NEW id \in Ids, Cancel(id) PROVE Keeps(k, stack')
  <2>1. PICK i \in 1..Len(track) : BtAttCancel(pair[track[i]].pend, stack)
    BY <1>3 DEF Cancel
  <2>2. Keeps(k, stack)
    BY DEF Keeps
  <2> QED
    BY <2>1, <2>2, KeepsCancel DEF TypeOK
<1>4. ASSUME CancelAllNext PROVE Keeps(k, stack')
  BY <1>1, <1>4, KeepsAll, KeepsCancel, CancelAllFacts
<1>5. CASE stack # <<>> /\ Top.k # k /\ stack' = Pop
  BY <1>5, KeepsPop
<1>6. ASSUME ReturnResult PROVE Keeps(k, stack')
  <2>1. stack # <<>> /\ Top.k = "result"
    BY <1>6 DEF ReturnResult, In
  <2>2. Pop \in Seq(Frames) /\ Keeps(k, Pop) /\ Top.held \in BOOLEAN
    BY <2>1, TopOnto, KeepsPop
  <2>3. Top.cb \in CbId
    BY <2>1, TopAsked
  <2>4. \/ stack' = Pop
        \/ RemoveCb(Top.cb, Pop, Top.held, IF Top.held THEN Top.cb ELSE Null)
    BY <1>6 DEF ReturnResult
  <2>5. (IF Top.held THEN Top.cb ELSE Null) \in CbId \cup {Null}
    BY <2>3
  <2> QED
    BY <2>2, <2>3, <2>4, <2>5, KeepsRemove
<1>7. ASSUME NEW match \in BOOLEAN, WalkNext(match) PROVE Keeps(k, stack')
  <2>1. Len(stack) = 1 /\ Top = stack[1] /\ Top.k = "walk"
    BY <1>7, WalkNextFacts
  <2>2. \A j \in 1..Len(stack) : stack[j].k = "walk"
    BY <2>1
  <2> QED
    BY <2>2 DEF Keeps
<1>8. ASSUME ReturnNotify PROVE Keeps(k, stack')
  <2>1. stack # <<>> /\ Top.k = "notify" /\ k = "destroy"
    BY <1>8 DEF ReturnNotify, In
  <2>2. CASE stack' = Pop
    BY <1>5, <2>1, <2>2
  <2>3. CASE stack' = <<>>
    <3>1. Onto(Pop, Top) /\ Top = stack[Len(stack)]
      BY <2>1, TopOnto
    <3>2. Len(stack) = 2 /\ Len(Pop) = 1 /\ Pop[1] = stack[1]
      BY <1>8, ReturnNotifyFacts
    <3>3. stack[1].k = "walk" /\ stack[2].k = "notify"
      BY <2>1, <3>1, <3>2 DEF Onto
    <3>4. \A j \in 1..Len(stack) : stack[j].k # k
      <4>1. \A j \in 1..2 : j = 1 \/ j = 2
        OBVIOUS
      <4> QED
        BY <2>1, <3>2, <3>3, <4>1
    <3> QED
      BY <3>4 DEF Keeps
  <2> QED
    BY <1>8, <2>2, <2>3, ReturnNotifyFacts
<1>9. ASSUME CancelAll \/ Notify \/ Disconnect \/ DisconnectNext
             \/ \E held \in BOOLEAN : Result(held)
      PROVE  stack' = stack \/ \E f : stack' = Push(f)
  BY <1>9 DEF CancelAll, Notify, Disconnect, DisconnectNext, Result
<1>10. ASSUME NEW f, stack' = Push(f) PROVE Keeps(k, stack')
  <2>1. \A j \in 1..Len(stack) : j \in 1..Len(Append(stack, f)) /\ Append(stack, f)[j] = stack[j]
    BY DEF TypeOK
  <2> QED
    BY <1>10, <2>1 DEF Keeps, Push
<1>11. ASSUME CancelAllEnd \/ WalkEnd \/ DisconnectEnd \/ ReturnDestroy
       PROVE  stack # <<>> /\ Top.k # k /\ stack' = Pop
  BY <1>11 DEF CancelAllEnd, WalkEnd, DisconnectEnd, ReturnDestroy, In
<1>12. ASSUME \/ \E id \in Ids : Send(id)
              \/ Register \/ UnregisterAll
              \/ \E cb \in CbId : Unregister(cb)
              \/ Ref \/ Unref \/ HandlerEnd
       PROVE  UNCHANGED stack
  BY <1>12 DEF Send, Register, UnregisterAll, Unregister, Ref, Unref, HandlerEnd
<1> QED
  BY <1>1, <1>3, <1>4, <1>5, <1>6, <1>7, <1>8, <1>9, <1>10, <1>11, <1>12 DEF Next

\* bt_att_cancel destroys a record only with a request the bearer lists, which
\* stays listed only while its destroy function runs.
Gives(c) == AskedOps(c)' => OnAir(stack', c)

\* The record that bt_att_cancel destroys had a request of the bearer.
LEMMA CancelGives ==
    ASSUME TypeOK, Requests, NEW pend, NEW rest \in Seq(Frames),
           BtAttCancel(pend, rest), NEW c \in CbId, dtor'[c] # dtor[c]
    PROVE  AskedOps(c) /\ Dies(c) /\ Gives(c)
<1>1. PICK i \in 1..Len(ops), next \in CbId \cup {Null} : Found(pend, rest, i, next)
  BY CancelFacts DEF NoneFound
<1> DEFINE x == ops[i].cb
<1>2. /\ x \in CbId /\ RemoveCb(x, rest, FALSE, next)
      /\ \/ ops' \in Seq(Op) /\ Closed(ops, ops', i)
         \/ i = 1 /\ ops' = ops /\ next = x
  BY <1>1 DEF Found
<1>3. AskedOps(x)
  BY DEF AskedOps
<1> HIDE DEF x
<1>4. Dies(x) /\ stack' = Append(rest, Frame("destroy", x, FALSE, next))
  BY <1>2, RemoveCbFacts
<1>5. c = x
  BY <1>2, <1>4, DiesFacts
<1>6. CASE ops' \in Seq(Op) /\ Closed(ops, ops', i)
  <2>1. ops \in Seq(Op)
    BY DEF TypeOK
  <2>2. ~AskedOps(c)'
    <3> SUFFICES ASSUME NEW m \in 1..Len(ops') PROVE ops'[m].cb # x
      BY <1>5 DEF AskedOps
    <3>1. PICK l \in 1..Len(ops) : l # i /\ ops'[m] = ops[l]
      BY <1>6, <2>1, ClosedFacts
    <3> QED
      BY <3>1 DEF Requests, x
  <2> QED
    BY <1>3, <1>4, <1>5, <2>2 DEF Gives
<1>7. CASE next = x
  <2> DEFINE f == Frame("destroy", c, FALSE, next)
  <2>1. f \in Frames /\ f.k = "destroy" /\ f.cb = c /\ f.next = c
    BY <1>5, <1>7 DEF Frame, Frames, Kind
  <2>2. stack' = Append(rest, f)
    BY <1>4, <1>5
  <2> HIDE DEF f
  <2>3. Len(stack') \in 1..Len(stack') /\ stack'[Len(stack')] = f
    <3>1. /\ Len(stack') = Len(rest) + 1 /\ Len(rest) \in Nat
          /\ stack'[Len(rest) + 1] = f
      BY <2>1, <2>2, AppendFacts
    <3> QED
      BY <3>1
  <2>4. OnAir(stack', c)
    BY <2>1, <2>3 DEF OnAir
  <2> QED
    BY <1>3, <1>4, <1>5, <2>4 DEF Gives
<1> QED
  BY <1>2, <1>6, <1>7

\* What a step destroys while the GAttrib lives: the record of a handler, of a
\* request the bearer lists, or of one whose callback returns.
LEMMA DtorStep ==
    ASSUME Kept, Requests, Next, alive', NEW c \in CbId, dtor'[c] # dtor[c]
    PROVE  /\ dtor[c] = 0 /\ dtor'[c] = 1
           /\ \/ \E i \in 1..Len(notes) : notes[i] = c
              \/ AskedOps(c) /\ Dies(c) /\ Gives(c)
              \/ ReturnResult /\ c = Top.cb /\ ~Top.held
<1>0. TypeOK /\ Shape(stack) /\ Records
  BY DEF Kept
<1>1. Records'
  BY RecordsStep DEF Kept
<1>2. (dtor[c] = 0 \/ dtor[c] = 1) /\ (dtor'[c] = 0 \/ dtor'[c] = 1)
  BY <1>0, <1>1 DEF Records
<1> DEFINE Goal == /\ dtor'[c] = dtor[c] + 1
                   /\ \/ \E i \in 1..Len(notes) : notes[i] = c
                      \/ AskedOps(c) /\ Dies(c) /\ Gives(c)
                      \/ ReturnResult /\ c = Top.cb /\ ~Top.held
<1>3. ASSUME NEW pend, NEW rest \in Seq(Frames), BtAttCancel(pend, rest) PROVE Goal
  BY <1>0, <1>3, CancelGives, DiesFacts
<1>4. ASSUME NEW id \in Ids, Cancel(id) PROVE Goal
  <2>1. PICK i \in 1..Len(track) : BtAttCancel(pair[track[i]].pend, stack)
    BY <1>4 DEF Cancel
  <2> HIDE DEF Goal
  <2> QED
    BY <1>0, <1>3, <2>1 DEF TypeOK
<1>5. ASSUME CancelAllNext PROVE Goal
  <2> HIDE DEF Goal
  <2> QED
    BY <1>0, <1>3, <1>5, CancelAllFacts
<1>6. ASSUME NEW S, Drop(S), \A x \in S : \E i \in 1..Len(notes) : notes[i] = x PROVE Goal
  BY <1>0, <1>6, DropFacts
<1>7. ASSUME Unregister(c) PROVE Goal
  <2>1. Drop({c}) /\ c \in ToSet(notes)
    BY <1>7 DEF Unregister
  <2>2. \E i \in 1..Len(notes) : notes[i] = c
    BY <2>1 DEF ToSet
  <2> HIDE DEF Goal
  <2> QED
    BY <1>6, <2>1, <2>2
<1>8. ASSUME NEW cb \in CbId, Unregister(cb) PROVE Goal
  <2>1. Drop({cb})
    BY <1>8 DEF Unregister
  <2>2. c = cb
    BY <1>0, <2>1, DropFacts
  <2> QED
    BY <1>7, <1>8, <2>2
<1>9. ASSUME UnregisterAll \/ DisconnectEnd PROVE Goal
  <2>1. Drop(ToSet(notes))
    BY <1>9 DEF UnregisterAll, DisconnectEnd
  <2>2. \A x \in ToSet(notes) : \E i \in 1..Len(notes) : notes[i] = x
    BY DEF ToSet
  <2> HIDE DEF Goal
  <2> QED
    BY <1>6, <2>1, <2>2
<1>10. ASSUME ReturnResult PROVE Goal
  <2> DEFINE x == Top.cb
             nx == IF Top.held THEN x ELSE Null
  <2>1. stack # <<>> /\ Top.k = "result"
    BY <1>10 DEF ReturnResult, In
  <2>2. x \in CbId /\ Pop \in Seq(Frames) /\ Top.held \in BOOLEAN
    BY <1>0, <2>1, TopAsked, TopOnto
  <2>3. RemoveCb(x, Pop, Top.held, nx) /\ (Top.held => AskedOps(x))
    BY <1>10 DEF ReturnResult, AskedOps
  <2>4. nx \in CbId \cup {Null}
    BY <2>2
  <2> HIDE DEF nx, x
  <2>5. Dies(x) /\ stack' = Append(Pop, Frame("destroy", x, Top.held, nx))
    BY <2>3, RemoveCbFacts
  <2>6. c = x /\ dtor'[c] = dtor[c] + 1
    BY <1>0, <2>2, <2>5, DiesFacts
  <2>7. CASE ~Top.held
    BY <1>10, <2>6, <2>7 DEF x
  <2>8. CASE Top.held
    <3> DEFINE f == Frame("destroy", x, Top.held, nx)
    <3>0. nx = x
      BY <2>8 DEF nx
    <3>1. f \in Frames /\ f.k = "destroy" /\ f.cb = x /\ f.next = x
      BY <2>2, <2>4, <3>0, FrameFacts DEF Kind
    <3> HIDE DEF f
    <3>2. Len(stack') \in 1..Len(stack') /\ stack'[Len(stack')] = f
      <4>1. /\ Len(stack') = Len(Pop) + 1 /\ Len(Pop) \in Nat
            /\ stack'[Len(Pop) + 1] = f
        BY <2>2, <2>5, <3>1, AppendFacts DEF f
      <4> QED
        BY <4>1
    <3>3. OnAir(stack', c)
      BY <2>6, <3>1, <3>2 DEF OnAir
    <3> QED
      BY <2>3, <2>5, <2>6, <2>8, <3>3 DEF Gives
  <2> QED
    BY <2>7, <2>8
<1>11. ASSUME Unref PROVE FALSE
  <2>1. refs > 1
    BY <1>0, <1>11 DEF Unref, alive, ClientRuns, TypeOK
  <2> QED
    BY <1>11, <2>1 DEF Unref, history
<1>12. Goal
  <2> HIDE DEF Goal
  <2> QED
    BY <1>4, <1>5, <1>8, <1>9, <1>10, <1>11
     DEF Next, Send, CancelAll, CancelAllEnd, Result, ReturnDestroy, Register,
         Notify, WalkEnd, WalkNext, ReturnNotify, Disconnect, DisconnectNext,
         Ref, HandlerEnd, history
<1> QED
  BY <1>2, <1>12

\* A frame of any stack and its parts.
LEMMA FrameTypes ==
    ASSUME NEW s \in Seq(Frames), Shape(s), NEW j \in 1..Len(s)
    PROVE  /\ s[j] \in Frames /\ s[j].k \in Kind /\ s[j].held \in BOOLEAN
           /\ s[j].cb \in CbId \cup {Null} /\ s[j].next \in CbId \cup {Null}
           /\ s[j].k \in {"result", "destroy", "notify"} => s[j].cb \in CbId
<1>1. s[j] \in Frames
  OBVIOUS
<1>2. /\ s[j].k \in Kind /\ s[j].held \in BOOLEAN
      /\ s[j].cb \in CbId \cup {Null} /\ s[j].next \in CbId \cup {Null}
  BY <1>1 DEF Frames
<1>3. s[j].k \in {"result", "destroy", "notify"} => s[j].cb # Null
  BY DEF Shape
<1> QED
  BY <1>1, <1>2, <1>3

\* The record of a request belongs to no handler.
LEMMA NotNoted ==
    ASSUME Kept, alive, NEW c, Asked(c)
    PROVE  ~(\E i \in 1..Len(notes) : notes[i] = c)
  BY DEF Kept, Handlers

\* What a disconnection ends is not destroyed before its turn.
LEMMA FlushListed ==
    ASSUME Kept, Requests, Listed, Next, alive, alive'
    PROVE  \A i \in 1..Len(flush') : dtor'[flush'[i].cb] = 0
<1>0. TypeOK
  BY DEF Kept
<1> SUFFICES ASSUME NEW i \in 1..Len(flush') PROVE dtor'[flush'[i].cb] = 0
  OBVIOUS
<1>1. ASSUME NEW k \in 1..Len(flush), flush'[i] = flush[k] PROVE dtor'[flush'[i].cb] = 0
  <2>1. PICK x \in CbId : x = flush[k].cb
    BY <1>0, TypeFacts
  <2>2. dtor[x] = 0 /\ AskedFlush(x) /\ flush # <<>>
    BY <2>1 DEF Listed, AskedFlush
  <2>3. dtor'[x] = dtor[x]
    <3> SUFFICES ASSUME dtor'[x] # dtor[x] PROVE FALSE
      OBVIOUS
    <3>1. \/ \E j \in 1..Len(notes) : notes[j] = x
          \/ AskedOps(x)
          \/ ReturnResult /\ x = Top.cb /\ ~Top.held
      BY DtorStep
    <3>2. ~(\E j \in 1..Len(notes) : notes[j] = x)
      BY <2>2, NotNoted DEF Asked
    <3>3. ~AskedOps(x)
      BY <2>2 DEF AskedOps, Requests
    <3>4. ASSUME ReturnResult, x = Top.cb, ~Top.held PROVE FALSE
      <4>1. stack # <<>> /\ Top.k = "result"
        BY <3>4 DEF ReturnResult, In
      <4>2. Top = stack[Len(stack)] /\ Len(stack) \in 1..Len(stack)
        BY <1>0, <4>1, PopFacts DEF TypeOK
      <4>3. ~AskedFlush(Top.cb)
        BY <3>4, <4>1, <4>2 DEF Listed, Unlisted
      <4> QED
        BY <2>2, <3>4, <4>3
    <3> QED
      BY <3>1, <3>2, <3>3, <3>4
  <2> QED
    BY <1>1, <2>1, <2>2, <2>3
<1>2. ASSUME Disconnect, NEW k \in 1..Len(ops), flush'[i] = ops[k]
      PROVE  dtor'[flush'[i].cb] = 0
  <2>1. stack = <<>> /\ dtor' = dtor
    BY <1>2 DEF Disconnect, LoopRuns, history
  <2>2. dtor[ops[k].cb] = 0
    BY <2>1 DEF Listed, ListedOps, OnAir
  <2> QED
    BY <1>2, <2>1, <2>2
<1> QED
  BY <1>0, <1>1, <1>2, FlushThin DEF Thin

\* A record whose destroy function runs has been destroyed.
LEMMA DyingStep ==
    ASSUME Kept, Requests, Listed, Next, alive, alive'
    PROVE  Dying'
<1>0. TypeOK /\ Shape(stack) /\ Records
  BY DEF Kept
<1>1. stack' \in Seq(Frames) /\ Shape(stack')
  BY <1>0, TypeStep, ShapeStep DEF TypeOK
<1> SUFFICES ASSUME NEW j \in 1..Len(stack'), stack'[j].k = "destroy"
             PROVE  dtor'[stack'[j].cb] = 1
  BY DEF Dying
<1>2. PICK x \in CbId : x = stack'[j].cb
  BY <1>1, FrameTypes
<1>3. CASE Was(stack'[j])
  <2>1. PICK m \in 1..Len(stack) : stack[m] = stack'[j]
    BY <1>3 DEF Was
  <2>2. dtor[x] = 1
    BY <1>2, <2>1 DEF Listed, Dying
  <2>3. dtor'[x] = dtor[x]
    BY <2>2, DtorStep
  <2> QED
    BY <1>2, <2>2, <2>3
<1>4. CASE New(stack'[j])
  <2>1. Dies(x)
    BY <1>2, <1>4 DEF New
  <2>2. dtor'[x] = dtor[x] + 1
    BY <1>0, <2>1, DiesFacts
  <2>3. dtor[x] = 0
    BY <1>0, <2>1 DEF Dies, Records
  <2> QED
    BY <1>2, <2>2, <2>3
<1> QED
  BY <1>0, <1>3, <1>4, StackStep DEF From

\* A request that is listed is not destroyed, or it is on the air and its
\* destroy function runs.
LEMMA ListedOpsStep ==
    ASSUME Kept, Requests, Listed, Next, alive, alive'
    PROVE  ListedOps'
<1>0. TypeOK /\ Shape(stack)
  BY DEF Kept
<1> SUFFICES ASSUME NEW i \in 1..Len(ops')
             PROVE  dtor'[ops'[i].cb] = 0 \/ OnAir(stack', ops'[i].cb)
  BY DEF ListedOps
<1>1. ASSUME ops'[i].cb = ncb + 1, NEW id \in Ids, Send(id)
      PROVE  dtor'[ops'[i].cb] = 0
  <2>1. dtor' = dtor /\ dtor[ncb + 1] = 0
    BY <1>1, SendFacts DEF Sent
  <2> QED
    BY <1>1, <2>1
<1>2. ASSUME NEW k \in 1..Len(ops), ops'[i] = ops[k]
      PROVE  dtor'[ops'[i].cb] = 0 \/ OnAir(stack', ops'[i].cb)
  <2>1. PICK x \in CbId : x = ops[k].cb
    BY <1>0, TypeFacts
  <2>2. AskedOps(x) /\ AskedOps(x)' /\ (dtor[x] = 0 \/ OnAir(stack, x))
    <3>1. AskedOps(x) /\ (dtor[x] = 0 \/ OnAir(stack, x))
      BY <2>1 DEF AskedOps, Listed, ListedOps
    <3>2. ops'[i].cb = x
      BY <1>2, <2>1
    <3> QED
      BY <3>1, <3>2 DEF AskedOps
  <2>3. CASE dtor'[x] # dtor[x]
    <3>1. \/ \E j \in 1..Len(notes) : notes[j] = x
          \/ Gives(x)
          \/ ReturnResult /\ x = Top.cb /\ ~Top.held
      BY <2>3, DtorStep
    <3>2. ~(\E j \in 1..Len(notes) : notes[j] = x)
      BY <2>2, NotNoted DEF Asked
    <3>3. ASSUME ReturnResult, x = Top.cb, ~Top.held PROVE FALSE
      <4>1. stack # <<>> /\ Top.k = "result"
        BY <3>3 DEF ReturnResult, In
      <4>2. Top = stack[Len(stack)] /\ Len(stack) \in 1..Len(stack)
        BY <1>0, <4>1, PopFacts DEF TypeOK
      <4>3. ~AskedOps(Top.cb)
        BY <3>3, <4>1, <4>2 DEF Listed, Unlisted
      <4> QED
        BY <2>2, <3>3, <4>3
    <3> QED
      BY <1>2, <2>1, <2>2, <3>1, <3>2, <3>3 DEF Gives
  <2>4. CASE dtor'[x] = dtor[x] /\ dtor[x] = 0
    BY <1>2, <2>1, <2>4
  <2>5. ASSUME OnAir(stack, x), ~ReturnDestroy PROVE OnAir(stack', x)
    <3>1. PICK j \in 1..Len(stack) : stack[j].k = "destroy" /\ stack[j].cb = x /\ stack[j].next = x
      BY <2>5 DEF OnAir
    <3>2. PICK m \in 1..Len(stack') : stack'[m] = stack[j]
      BY <1>0, <2>5, <3>1, CallKept DEF Keeps
    <3> QED
      BY <3>1, <3>2 DEF OnAir
  <2>6. ASSUME OnAir(stack, x), ReturnDestroy PROVE OnAir(stack', x)
    <3>1. PICK j \in 1..Len(stack) : stack[j].k = "destroy" /\ stack[j].cb = x /\ stack[j].next = x
      BY <2>6 DEF OnAir
    <3>2. stack # <<>> /\ stack' = Pop
      BY <2>6 DEF ReturnDestroy, In
    <3>3. /\ Len(Pop) = Len(stack) - 1 /\ Len(stack) \in Nat /\ Top = stack[Len(stack)]
          /\ \A l \in 1..(Len(stack) - 1) : Pop[l] = stack[l]
      BY <1>0, <3>2, TopOnto
    <3>4. CASE j # Len(stack)
      <4>1. j \in 1..Len(stack') /\ stack'[j] = stack[j]
        BY <3>2, <3>3, <3>4
      <4> QED
        BY <3>1, <4>1 DEF OnAir
    <3>5. CASE j = Len(stack)
      <4>1. Top.next = x
        BY <3>1, <3>3, <3>5
      <4> DEFINE S == {o \in ToSet(ops) : o.cb = Top.next}
      <4>2. ops' = Without(ops, S) /\ ops \in Seq(Op)
        BY <1>0, <2>6 DEF ReturnDestroy, TypeOK
      <4>3. ops[k] \in S /\ \A l \in 1..Len(ops) : ops[l] \in S => ops[l].cb = x
        BY <2>1, <4>1 DEF ToSet
      <4> HIDE DEF S
      <4>4. PICK m \in 1..Len(ops) : ops[m] \in S /\ Closed(ops, ops', m)
        BY <4>2, <4>3, WithoutFacts
      <4>5. ops' \in Seq(Op)
        BY <4>2, WithoutFacts
      <4>6. PICK l \in 1..Len(ops) : l # m /\ ops'[i] = ops[l]
        <5>1. \A n \in 1..Len(ops') : \E l \in 1..Len(ops) :
                  /\ l # m /\ ops'[n] = ops[l]
                  /\ l = IF n < m THEN n ELSE n + 1
          <6>1. ops \in Seq(Op) /\ ops' \in Seq(Op) /\ Closed(ops, ops', m)
            BY <4>2, <4>4, <4>5
          <6> QED
            BY <6>1, ClosedFacts
        <5> QED
          BY <5>1, Zenon
      <4>7. ops[m].cb = x /\ ops[l].cb = x
        BY <1>2, <2>1, <4>3, <4>4, <4>6
      <4> QED
        BY <4>6, <4>7 DEF Requests
    <3> QED
      BY <3>4, <3>5
  <2> QED
    BY <1>2, <2>1, <2>2, <2>3, <2>4, <2>5, <2>6
<1> QED
  BY <1>0, <1>1, <1>2, OpsStep

\* The first of a list of requests is not in the rest of it.
LEMMA HeadGone ==
    ASSUME NEW s \in Seq(Op), s # <<>>, \A i, j \in 1..Len(s) : i # j => s[i].cb # s[j].cb
    PROVE  \A i \in 1..Len(Tail(s)) : Tail(s)[i].cb # Head(s).cb
<1>1. /\ Head(s) = s[1] /\ 1 \in 1..Len(s) /\ Len(s) \in Nat
      /\ Len(Tail(s)) = Len(s) - 1
      /\ \A i \in 1..(Len(s) - 1) : Tail(s)[i] = s[i + 1]
  BY TailFacts
<1> SUFFICES ASSUME NEW i \in 1..Len(Tail(s)) PROVE Tail(s)[i].cb # Head(s).cb
  OBVIOUS
<1>2. i \in 1..(Len(s) - 1) /\ i + 1 \in 1..Len(s) /\ i + 1 # 1
  BY <1>1
<1>3. Tail(s)[i] = s[i + 1] /\ s[i + 1].cb # s[1].cb
  BY <1>1, <1>2
<1> QED
  BY <1>1, <1>3

\* The callback that returns was the only one.
LEMMA OneResult ==
    ASSUME Kept, ReturnResult, NEW c \in CbId, dtor'[c] # dtor[c]
    PROVE  \A j \in 1..Len(stack') : stack'[j].k # "result"
<1>0. TypeOK /\ Shape(stack)
  BY DEF Kept
<1>1. stack # <<>> /\ Top.k = "result"
  BY DEF ReturnResult, In
<1>2. /\ Top.cb \in CbId /\ Pop \in Seq(Frames) /\ Top.held \in BOOLEAN
      /\ Onto(Pop, Top)
  BY <1>0, <1>1, TopAsked, TopOnto
<1>3. \A j \in 1..Len(Pop) : Pop[j].k # "result"
  <2>1. Len(Pop) = 0 \/ (Len(Pop) = 1 /\ Pop[1].k = "disconnect")
    BY <1>1, <1>2 DEF Onto
  <2>2. CASE Len(Pop) = 0
    BY <2>2
  <2>3. CASE Len(Pop) = 1 /\ Pop[1].k = "disconnect"
    <3>1. \A j \in 1..1 : j = 1
      OBVIOUS
    <3> QED
      BY <2>3, <3>1
  <2> QED
    BY <2>1, <2>2, <2>3
<1> DEFINE nx == IF Top.held THEN Top.cb ELSE Null
           f == Frame("destroy", Top.cb, Top.held, nx)
<1>4. RemoveCb(Top.cb, Pop, Top.held, nx)
  BY DEF ReturnResult
<1>5. f \in Frames /\ f.k = "destroy"
  BY <1>2 DEF Frame, Frames, Kind
<1> HIDE DEF nx
<1>6. stack' = Append(Pop, f)
  BY <1>4, RemoveCbFacts
<1> HIDE DEF f
<1>7. /\ Len(stack') = Len(Pop) + 1 /\ Len(Pop) \in Nat
      /\ \A i \in 1..Len(Pop) : stack'[i] = Pop[i]
      /\ stack'[Len(Pop) + 1] = f
  BY <1>2, <1>5, <1>6, AppendFacts
<1> SUFFICES ASSUME NEW j \in 1..Len(stack') PROVE stack'[j].k # "result"
  OBVIOUS
<1>8. j \in 1..Len(Pop) \/ j = Len(Pop) + 1
  BY <1>7
<1>9. CASE j \in 1..Len(Pop)
  BY <1>3, <1>7, <1>9, Zenon
<1>10. CASE j = Len(Pop) + 1
  <2>1. stack'[j] = f
    BY <1>7, <1>10, Zenon
  <2> QED
    BY <1>5, <2>1
<1> QED
  BY <1>8, <1>9, <1>10

\* A request that the bearer no longer lists while its callback runs is not
\* destroyed before the callback has returned.
LEMMA UnlistedStep ==
    ASSUME Kept, Requests, Listed, Next, alive, alive'
    PROVE  Unlisted'
<1>0. TypeOK /\ Shape(stack) /\ Ending /\ Handlers
  BY DEF Kept
<1>1. stack' \in Seq(Frames) /\ Shape(stack')
  BY <1>0, TypeStep, ShapeStep DEF TypeOK
<1> SUFFICES ASSUME NEW j \in 1..Len(stack'), stack'[j].k = "result", ~stack'[j].held
             PROVE  /\ dtor'[stack'[j].cb] = 0
                    /\ ~AskedOps(stack[j].cb)' /\ ~AskedFlush(stack[j].cb)'
  BY DEF Unlisted
<1>2. PICK x \in CbId : x = stack'[j].cb
  BY <1>1, FrameTypes
<1> SUFFICES dtor'[x] = 0 /\ ~AskedOps(x)' /\ ~AskedFlush(x)'
  BY <1>2 DEF AskedOps, AskedFlush
<1>3. CASE Was(stack'[j])
  <2>1. PICK m \in 1..Len(stack) : stack[m] = stack'[j]
    BY <1>3 DEF Was
  <2>2. dtor[x] = 0 /\ ~AskedOps(x) /\ ~AskedFlush(x)
    BY <1>2, <2>1 DEF Listed, Unlisted
  <2>3. Asked(x)
    BY <1>2, <2>1 DEF Asked, AskedOn
  <2>4. x <= ncb /\ ncb \in Nat
    BY <1>0, <2>3, TypeFacts DEF Handlers
  <2>5. dtor'[x] = dtor[x]
    <3> SUFFICES ASSUME dtor'[x] # dtor[x] PROVE FALSE
      OBVIOUS
    <3>1. ~(\E i \in 1..Len(notes) : notes[i] = x)
      BY <2>3, NotNoted
    <3>2. ReturnResult
      BY <2>2, <3>1, DtorStep
    <3> QED
      BY <3>2, OneResult
  <2>6. ~AskedOps(x)'
    <3> SUFFICES ASSUME NEW i \in 1..Len(ops'), ops'[i].cb = x PROVE FALSE
      BY DEF AskedOps
    <3>1. (\E k \in 1..Len(ops) : ops'[i] = ops[k]) \/ ops'[i].cb = ncb + 1
      BY <1>0, OpsStep
    <3>2. ncb + 1 # x
      BY <2>4
    <3> QED
      BY <2>2, <3>1, <3>2 DEF AskedOps
  <2>7. ~AskedFlush(x)'
    <3> SUFFICES ASSUME NEW i \in 1..Len(flush'), flush'[i].cb = x PROVE FALSE
      BY DEF AskedFlush
    <3>1. \/ \E k \in 1..Len(flush) : flush'[i] = flush[k]
          \/ \E k \in 1..Len(ops) : flush'[i] = ops[k]
      BY <1>0, FlushStep
    <3> QED
      BY <2>2, <3>1 DEF AskedOps, AskedFlush
  <2> QED
    BY <2>2, <2>5, <2>6, <2>7
<1>4. ASSUME DisconnectNext, dtor[x] = 0, x = Head(flush).cb, flush' = Tail(flush)
      PROVE  dtor'[x] = 0 /\ ~AskedOps(x)' /\ ~AskedFlush(x)'
  <2>1. stack # <<>> /\ Top.k = "disconnect" /\ flush # <<>> /\ UNCHANGED <<dtor, ops>>
    BY <1>4 DEF DisconnectNext, In, history
  <2>2. Top = stack[Len(stack)] /\ Len(stack) \in 1..Len(stack)
    BY <1>0, <2>1, PopFacts DEF TypeOK
  <2>3. ~chan
    BY <1>0, <2>1, <2>2 DEF Ending
  <2>4. ops' = <<>>
    BY <2>1, <2>3 DEF Requests
  <2>5. \A i \in 1..Len(Tail(flush)) : Tail(flush)[i].cb # Head(flush).cb
    BY <1>0, <2>1, HeadGone DEF TypeOK, Requests
  <2>6. ~AskedOps(x)'
    BY <2>4 DEF AskedOps
  <2>7. ~AskedFlush(x)'
    BY <1>4, <2>5 DEF AskedFlush
  <2> QED
    BY <1>4, <2>1, <2>6, <2>7
<1>5. ASSUME Result(FALSE), x = Head(ops).cb
      PROVE  dtor'[x] = 0 /\ ~AskedOps(x)' /\ ~AskedFlush(x)'
  <2>1. /\ stack = <<>> /\ chan /\ ops # <<>> /\ ops' = Tail(ops)
        /\ UNCHANGED <<dtor, flush>>
    BY <1>5 DEF Result, LoopRuns, history
  <2>2. Head(ops) = ops[1] /\ 1 \in 1..Len(ops)
    BY <1>0, <2>1, TailFacts DEF TypeOK
  <2>3. dtor[x] = 0
    BY <1>5, <2>1, <2>2 DEF Listed, ListedOps, OnAir
  <2>4. \A i \in 1..Len(Tail(ops)) : Tail(ops)[i].cb # Head(ops).cb
    BY <1>0, <2>1, HeadGone DEF TypeOK, Requests
  <2>5. flush' = <<>>
    BY <2>1 DEF Requests
  <2>6. ~AskedOps(x)'
    BY <1>5, <2>1, <2>4 DEF AskedOps
  <2>7. ~AskedFlush(x)'
    BY <2>5 DEF AskedFlush
  <2> QED
    BY <2>1, <2>3, <2>6, <2>7
<1>6. CASE New(stack'[j])
  <2>1. \/ DisconnectNext /\ dtor[x] = 0 /\ x = Head(flush).cb /\ flush' = Tail(flush)
        \/ Result(FALSE) /\ x = Head(ops).cb
    BY <1>2, <1>6 DEF New
  <2> QED
    BY <1>4, <1>5, <2>1
<1> QED
  BY <1>0, <1>3, <1>6, StackStep DEF From

\* The lists of the bearer and the calls under way agree on what is destroyed.
LEMMA ListedStep ==
    ASSUME Kept, Requests, Listed, Next, alive, alive'
    PROVE  Listed'
<1>1. ListedOps' /\ Dying' /\ Unlisted'
  BY ListedOpsStep, DyingStep, UnlistedStep
<1>2. \A i \in 1..Len(flush') : dtor'[flush'[i].cb] = 0
  BY FlushListed
<1> QED
  BY <1>1, <1>2 DEF Listed

-----------------------------------------------------------------------------
(* Pairs *)

\* Without new requests, and while the GAttrib lives, records and pairs only go.
LEMMA ExistsStep ==
    ASSUME Kept, Requests, Listed, Next, alive, alive', NEW d \in CbId, Exists(d)'
    PROVE  Exists(d)
<1>0. TypeOK /\ Shape(stack) /\ Records
  BY DEF Kept
<1>1. CASE dtor'[d] = 0
  <2>1. dtor[d] = 0
    BY <1>1, DtorStep
  <2> QED
    BY <2>1 DEF Exists
<1>2. ASSUME NEW i \in 1..Len(stack'), stack'[i].cb = d PROVE Exists(d)
  <2>1. CASE Was(stack'[i])
    BY <1>2, <2>1 DEF Was, Exists
  <2>2. CASE New(stack'[i])
    <3>0. d # Null
      BY <1>0, TypeFacts
    <3>1. \/ dtor[d] = 0
          \/ Dies(d)
          \/ d = Head(ops).cb /\ (Result(TRUE) \/ Result(FALSE))
      BY <1>2, <2>2, <3>0 DEF New
    <3>2. Dies(d) => dtor[d] = 0
      BY <1>0 DEF Dies, Records
    <3>3. ASSUME d = Head(ops).cb, Result(TRUE) \/ Result(FALSE) PROVE dtor[d] = 0
      <4>1. stack = <<>> /\ ops # <<>>
        BY <3>3 DEF Result, LoopRuns
      <4>2. Head(ops) = ops[1] /\ 1 \in 1..Len(ops)
        BY <1>0, <4>1, TailFacts DEF TypeOK
      <4> QED
        BY <3>3, <4>1, <4>2 DEF Listed, ListedOps, OnAir
    <3> QED
      BY <3>1, <3>2, <3>3 DEF Exists
  <2> QED
    BY <1>0, <2>1, <2>2, StackStep DEF From
<1> QED
  BY <1>1, <1>2 DEF Exists

\* What the steps do to track_ids.
LEMMA TrackStep ==
    ASSUME TypeOK, Next, alive'
    PROVE  \/ UNCHANGED track
           \/ \E id \in Ids : Send(id)
           \/ CancelAllEnd /\ track' = <<>>
           \/ /\ track' \in Seq(CbId)
              /\ \E m \in 1..Len(track) : Closed(track, track', m)
              /\ ReturnDestroy \/ \E id \in Ids : Cancel(id)
<1>1. ASSUME NEW id \in Ids, Cancel(id)
      PROVE  track' \in Seq(CbId) /\ \E m \in 1..Len(track) : Closed(track, track', m)
  <2>1. PICK m \in 1..Len(track) : track' = RemoveAt(track, m)
    BY <1>1 DEF Cancel
  <2> QED
    BY <2>1, RemoveAtFacts DEF TypeOK
<1>2. ASSUME ReturnDestroy
      PROVE  \/ UNCHANGED track
             \/ track' \in Seq(CbId) /\ \E m \in 1..Len(track) : Closed(track, track', m)
  <2>1. PICK S : track' = Without(track, S)
    BY <1>2 DEF ReturnDestroy
  <2>2. track \in Seq(CbId)
    BY DEF TypeOK
  <2> QED
    BY <2>1, <2>2, WithoutFacts
<1>3. Unref => UNCHANGED track
  <2>1. Unref => refs > 1
    BY DEF Unref, alive, ClientRuns, TypeOK
  <2> QED
    BY <2>1 DEF Unref, queues
<1>4. CancelAllEnd => track' = <<>>
  BY DEF CancelAllEnd
<1> QED
  BY <1>1, <1>2, <1>3, <1>4
     DEF Next, CancelAll, CancelAllNext, Result, ReturnResult, Register, UnregisterAll,
         Unregister, Notify, WalkEnd, WalkNext, ReturnNotify, Disconnect,
         DisconnectNext, DisconnectEnd, Ref, HandlerEnd, queues

\* But for a new request, pairs only leave the list.
LEMMA TrackThin ==
    ASSUME TypeOK, Next, alive', ~(\E id \in Ids : Send(id))
    PROVE  Thin(track, track')
<1>1. track \in Seq(CbId)
  BY DEF TypeOK
<1>2. CASE track' = track \/ track' = <<>>
  BY <1>2, ThinSame
<1>3. ASSUME track' \in Seq(CbId), NEW m \in 1..Len(track), Closed(track, track', m)
      PROVE  Thin(track, track')
  BY <1>1, <1>3, ThinClosed
<1> QED
  BY <1>2, <1>3, TrackStep

\* What else changes only with a new record.
LEMMA PairSame ==
    ASSUME TypeOK, Next, ~(\E id \in Ids : Send(id))
    PROVE  UNCHANGED <<pair, strays>> /\ (ncb' = ncb \/ ncb' = ncb + 1)
  BY DEF Next, Cancel, CancelAll, CancelAllNext, CancelAllEnd, Result,
         ReturnResult, ReturnDestroy, Register, UnregisterAll, Unregister, Notify,
         WalkEnd, WalkNext, ReturnNotify, Disconnect, DisconnectNext, DisconnectEnd,
         Ref, Unref, HandlerEnd, queues, history

\* Two pairs that are tracked have different addresses, and no other record
\* names the address of a pair that is not a stray's.
LEMMA PairsStep ==
    ASSUME Kept, Requests, Listed, Pairs, Next, alive, alive',
           ~(\E id \in Ids : Send(id))
    PROVE  Pairs'
<1>0. TypeOK
  BY DEF Kept
<1>1. Thin(track, track')
  BY <1>0, TrackThin
<1>2. UNCHANGED <<pair, strays>> /\ (ncb' = ncb \/ ncb' = ncb + 1)
  BY <1>0, PairSame
<1>3. \A c \in CbId : c \in Nat
  BY <1>0, TypeFacts
<1>4. \A c \in CbId : (c <= ncb => c <= ncb') /\ (c > ncb' => c > ncb)
  <2>1. ncb \in Nat
    BY <1>0, TypeFacts
  <2> QED
    BY <1>2, <1>3, <2>1
<1>5. ASSUME NEW i \in 1..Len(track'), NEW j \in 1..Len(track'), i # j
      PROVE  track'[i] # track'[j] /\ pair'[track'[i]].addr # pair'[track'[j]].addr
  <2>1. PICK k \in 1..Len(track), l \in 1..Len(track) :
            k # l /\ track'[i] = track[k] /\ track'[j] = track[l]
    BY <1>1, <1>5 DEF Thin
  <2>2. track[k] # track[l] /\ pair[track[k]].addr # pair[track[l]].addr
    BY <2>1 DEF Pairs
  <2> QED
    BY <1>2, <2>1, <2>2
<1>6. ASSUME NEW i \in 1..Len(track')
      PROVE  /\ track'[i] <= ncb' /\ pair'[track'[i]].addr # Null
             /\ \A d \in CbId : (track'[i] \notin strays' /\ d # track'[i] /\ Exists(d)')
                   => pair'[d].addr # pair'[track'[i]].addr
  <2>1. PICK k \in 1..Len(track) : track'[i] = track[k]
    BY <1>1 DEF Thin
  <2>2. /\ track[k] <= ncb /\ pair[track[k]].addr # Null /\ track[k] \in CbId
    BY <1>0, TypeFacts DEF Pairs
  <2>3. ASSUME NEW d \in CbId, track[k] \notin strays, d # track[k], Exists(d)'
        PROVE  pair[d].addr # pair[track[k]].addr
    <3>1. Exists(d)
      BY <2>3, ExistsStep
    <3> QED
      BY <2>3, <3>1 DEF Pairs
  <2> QED
    BY <1>2, <1>4, <2>1, <2>2, <2>3
<1>7. \A c \in CbId : c > ncb' => (pair'[c].pend = 0 /\ pair'[c].addr = Null)
  BY <1>2, <1>4 DEF Pairs
<1> QED
  BY <1>5, <1>6, <1>7 DEF Pairs

\* The list t is s with n at its end.
LEMMA AppendIndex ==
    ASSUME NEW T, NEW s \in Seq(T), NEW n \in T, NEW t, t = Append(s, n)
    PROVE  /\ \A i \in 1..Len(t) : (i \in 1..Len(s) /\ t[i] = s[i]) \/ (i = Len(t) /\ t[i] = n)
           /\ Len(t) \in 1..Len(t) /\ t[Len(t)] = n
           /\ \A i \in 1..Len(s) : i \in 1..Len(t) /\ t[i] = s[i]
<1>1. /\ Len(t) = Len(s) + 1 /\ Len(s) \in Nat
      /\ \A i \in 1..Len(s) : t[i] = s[i]
      /\ t[Len(s) + 1] = n
  BY AppendFacts
<1>2. \A i \in 1..Len(t) : i \in 1..Len(s) \/ i = Len(s) + 1
  BY <1>1
<1>3. Len(t) \in 1..Len(t) /\ \A i \in 1..Len(s) : i \in 1..Len(t)
  BY <1>1
<1>4. Len(t) = Len(s) + 1
  BY <1>1
<1> QED
  BY <1>1, <1>2, <1>3, <1>4, Zenon

\* A new pair gets an address that is not in use.
LEMMA PairsSend ==
    ASSUME Kept, Pairs, NEW id \in Ids, Send(id)
    PROVE  Pairs'
<1>0. TypeOK /\ track \in Seq(CbId)
  BY DEF Kept, TypeOK
<1>1. PICK n, p, a : Sent(n, p, a)
  BY SendFacts
<1>2. /\ n = ncb + 1 /\ n \in CbId /\ a \in Addr /\ ncb' = n
      /\ \A i \in 1..Len(track) : a # pair[track[i]].addr
      /\ track' = Append(track, n)
      /\ pair'[n].addr = a
      /\ \A c \in CbId : c # n => pair'[c] = pair[c]
      /\ strays \subseteq strays'
      /\ n \in strays' \/ ~Named(a)
      /\ UNCHANGED <<stack, dtor>>
  BY <1>1 DEF Sent
<1>3. ncb \in Nat /\ a # Null /\ \A c \in CbId : c \in Nat
  BY <1>0, <1>2, TypeFacts DEF Addr, Null
<1>4. \A x \in Nat : /\ x <= ncb => (x # n /\ x <= ncb')
                     /\ x > ncb' => (x > ncb /\ x # n)
  <2>1. n = ncb + 1 /\ ncb' = ncb + 1 /\ ncb \in Nat
    BY <1>2, <1>3
  <2> QED
    BY <2>1
<1>5. /\ \A i \in 1..Len(track') :
            (i \in 1..Len(track) /\ track'[i] = track[i]) \/ (i = Len(track') /\ track'[i] = n)
  BY <1>0, <1>2, AppendIndex
<1>6. \A i \in 1..Len(track) : /\ track[i] \in CbId /\ track[i] <= ncb
                              /\ track[i] # n /\ track[i] <= ncb'
  <2>1. \A i \in 1..Len(track) : track[i] \in CbId /\ track[i] <= ncb
    BY <1>0, TypeFacts DEF Pairs
  <2> QED
    BY <1>3, <1>4, <2>1
<1>7. \A i \in 1..Len(track) : pair'[track[i]] = pair[track[i]]
  BY <1>2, <1>6
<1>8. ASSUME NEW i \in 1..Len(track'), NEW j \in 1..Len(track'), i # j
      PROVE  track'[i] # track'[j] /\ pair'[track'[i]].addr # pair'[track'[j]].addr
  <2>1. CASE i \in 1..Len(track) /\ track'[i] = track[i] /\ j \in 1..Len(track) /\ track'[j] = track[j]
    BY <1>7, <1>8, <2>1 DEF Pairs
  <2>2. CASE i \in 1..Len(track) /\ track'[i] = track[i] /\ track'[j] = n
    BY <1>2, <1>6, <1>7, <2>2
  <2>3. CASE track'[i] = n /\ j \in 1..Len(track) /\ track'[j] = track[j]
    BY <1>2, <1>6, <1>7, <2>3
  <2> QED
    BY <1>5, <1>8, <2>1, <2>2, <2>3
<1>9. \A d \in CbId : Exists(d)' <=> Exists(d)
  BY <1>2 DEF Exists
<1>10. ASSUME NEW i \in 1..Len(track')
      PROVE  /\ track'[i] <= ncb' /\ pair'[track'[i]].addr # Null
             /\ \A d \in CbId : (track'[i] \notin strays' /\ d # track'[i] /\ Exists(d)')
                   => pair'[d].addr # pair'[track'[i]].addr
  <2>1. CASE i \in 1..Len(track) /\ track'[i] = track[i]
    <3>1. track'[i] <= ncb' /\ pair'[track'[i]].addr # Null
      BY <1>6, <1>7, <2>1 DEF Pairs
    <3>2. ASSUME NEW d \in CbId, track[i] \notin strays', d # track[i], Exists(d)'
          PROVE  pair'[d].addr # pair'[track[i]].addr
      <4>1. CASE d = n
        BY <1>2, <1>7, <2>1, <4>1
      <4>2. CASE d # n
        <5>1. pair[d].addr # pair[track[i]].addr
          BY <1>2, <1>9, <2>1, <3>2 DEF Pairs
        <5> QED
          BY <1>2, <1>7, <2>1, <4>2, <5>1
      <4> QED
        BY <4>1, <4>2
    <3> QED
      BY <2>1, <3>1, <3>2
  <2>2. CASE track'[i] = n
    <3>1. n <= n /\ track'[i] <= ncb'
      BY <1>2, <1>3, <2>2
    <3>2. ASSUME NEW d \in CbId, n \notin strays', d # n, Exists(d)'
          PROVE  pair'[d].addr # pair'[n].addr
      <4>1. ~Named(a) /\ Exists(d)
        BY <1>2, <1>9, <3>2
      <4>2. pair[d].addr # a
        BY <4>1 DEF Named, Exists
      <4> QED
        BY <1>2, <3>2, <4>2
    <3> QED
      BY <1>2, <1>3, <2>2, <3>1, <3>2
  <2> QED
    BY <1>5, <2>1, <2>2
<1>11. ASSUME NEW c \in CbId, c > ncb' PROVE pair'[c].pend = 0 /\ pair'[c].addr = Null
  <2>1. c > ncb /\ c # n
    BY <1>3, <1>4, <1>11
  <2> QED
    BY <1>2, <2>1 DEF Pairs
<1> QED
  BY <1>8, <1>10, <1>11 DEF Pairs

-----------------------------------------------------------------------------
(* Cancelling *)

\* bt_att_cancel of a request that is listed and not destroyed destroys it.
LEMMA CancelKills ==
    ASSUME Kept, Requests, NEW x \in CbId, AskedOps(x), dtor[x] = 0,
           NEW pend, NEW rest, BtAttCancel(pend, rest), pend = pair[x].pend
    PROVE  dtor'[x] = 1
<1>0. TypeOK /\ Records /\ Handlers
  BY DEF Kept
<1>1. PICK k \in 1..Len(ops) : ops[k].cb = x
  BY DEF AskedOps
<1>2. ops[k].id = pend /\ pend # 0
  BY <1>1 DEF Requests
<1>3. PICK i \in 1..Len(ops), next \in CbId \cup {Null} : Found(pend, rest, i, next)
  BY <1>0, <1>2, CancelFacts DEF NoneFound
<1>4. ops[i].id = pend /\ ops[i].cb \in CbId /\ RemoveCb(ops[i].cb, rest, FALSE, next)
  BY <1>3 DEF Found
<1>5. pair[ops[i].cb].pend = pend
  BY <1>4 DEF Requests
<1>6. ops[i].cb = x
  BY <1>2, <1>4, <1>5 DEF Requests
<1>7. x <= ncb
  BY <1>0 DEF Handlers, Asked
<1>8. x \in cbs
  BY <1>0, <1>7 DEF Records
<1>9. ~Freed(x)
  BY DEF Freed
<1>10. Dies(x)
  BY <1>4, <1>6, <1>8, <1>9, RemoveCbFacts
<1> QED
  BY <1>0, <1>10, DiesFacts

\* Without new requests none becomes one that can be cancelled.
LEMMA LiveStep ==
    ASSUME Kept, Requests, Next, alive', NEW c \in CbId, Live(c)',
           OnStack("all") \/ ~(\E id \in Ids : Send(id))
    PROVE  Live(c)
<1>0. TypeOK
  BY DEF Kept
<1>1. dtor[c] = 0
  BY DtorStep DEF Live
<1>2. CASE ~(\E id \in Ids : Send(id))
  <2>1. UNCHANGED strays
    BY <1>0, <1>2, PairSame
  <2>2. AskedOps(c)
    <3>1. PICK i \in 1..Len(ops') : ops'[i].cb = c
      BY DEF Live, AskedOps
    <3>2. \E k \in 1..Len(ops) : ops'[i] = ops[k]
      BY <1>0, <1>2, OpsStep
    <3> QED
      BY <3>1, <3>2 DEF AskedOps
  <2> QED
    BY <1>1, <2>1, <2>2 DEF Live
<1>3. ASSUME NEW id \in Ids, Send(id), OnStack("all") PROVE Live(c)
  <2>1. PICK n, p, a : Sent(n, p, a)
    BY <1>3, SendFacts
  <2>2. n = ncb + 1 /\ strays' = strays \cup {n}
    BY <1>3, <2>1 DEF Sent
  <2>3. c # n /\ c \notin strays
    BY <2>2 DEF Live
  <2>4. AskedOps(c)
    <3>1. PICK i \in 1..Len(ops') : ops'[i].cb = c
      BY DEF Live, AskedOps
    <3>2. \E k \in 1..Len(ops) : ops'[i] = ops[k]
      BY <1>0, <2>2, <2>3, <3>1, OpsStep
    <3> QED
      BY <3>1, <3>2 DEF AskedOps
  <2> QED
    BY <1>1, <2>3, <2>4 DEF Live
<1> QED
  BY <1>2, <1>3

\* A request that can be cancelled has its pair tracked.
CanBe ==
    \A x \in CbId : Live(x) => \E l \in 1..Len(track) : track[l] = x

\* CanBe says what Cancellable says, by places in the list.
LEMMA CanBeFacts ==
    ASSUME TypeOK, alive
    PROVE  Cancellable <=> CanBe
<1>1. \A i \in 1..Len(ops) : ops[i].cb \in CbId
  BY TypeFacts
<1>2. \A x : x \in ToSet(track) <=> \E l \in 1..Len(track) : track[l] = x
  BY DEF ToSet
<1>3. ASSUME Cancellable, NEW x \in CbId, Live(x) PROVE \E l \in 1..Len(track) : track[l] = x
  <2>1. PICK i \in 1..Len(ops) : ops[i].cb = x
    BY <1>3 DEF Live, AskedOps
  <2> QED
    BY <1>2, <1>3, <2>1 DEF Live, Cancellable
<1>4. ASSUME CanBe, NEW i \in 1..Len(ops), dtor[ops[i].cb] = 0, ops[i].cb \notin strays
      PROVE  ops[i].cb \in ToSet(track)
  <2>1. Live(ops[i].cb)
    BY <1>4 DEF Live, AskedOps
  <2> QED
    BY <1>1, <1>2, <1>4, <2>1 DEF CanBe
<1> QED
  BY <1>3, <1>4 DEF Cancellable, CanBe

\* The pair of a new request is in the list.
LEMMA CanBeSend ==
    ASSUME Kept, CanBe, NEW id \in Ids, Send(id)
    PROVE  CanBe'
<1>0. TypeOK /\ track \in Seq(CbId)
  BY DEF Kept, TypeOK
<1>1. PICK n, p, a : Sent(n, p, a)
  BY SendFacts
<1>2. /\ n = ncb + 1 /\ n \in CbId /\ track' = Append(track, n)
      /\ strays \subseteq strays' /\ dtor' = dtor
  BY <1>1 DEF Sent
<1>3. /\ Len(track') \in 1..Len(track') /\ track'[Len(track')] = n
      /\ \A i \in 1..Len(track) : i \in 1..Len(track') /\ track'[i] = track[i]
  BY <1>0, <1>2, AppendIndex
<1> SUFFICES ASSUME NEW x \in CbId, Live(x)'
             PROVE  \E l \in 1..Len(track') : track'[l] = x
  BY DEF CanBe
<1>4. CASE x = n
  BY <1>3, <1>4
<1>5. CASE x # n
  <2>1. PICK i \in 1..Len(ops') : ops'[i].cb = x
    BY DEF Live, AskedOps
  <2>2. \E k \in 1..Len(ops) : ops'[i] = ops[k]
    BY <1>0, <1>2, <1>5, <2>1, OpsStep DEF Next
  <2>3. Live(x)
    BY <1>2, <2>1, <2>2 DEF Live, AskedOps
  <2>4. PICK l \in 1..Len(track) : track[l] = x
    BY <2>3 DEF CanBe
  <2> QED
    BY <1>3, <2>4
<1> QED
  BY <1>4, <1>5

\* A pair goes with its request, with a record that names its address, or when
\* g_attrib_cancel_all has cancelled them all.
LEMMA CanBeStep ==
    ASSUME Kept, Requests, Listed, Pairs, CanBe, Swept, Next, alive, alive'
    PROVE  CanBe'
<1>0. TypeOK /\ Shape(stack) /\ track \in Seq(CbId)
  BY DEF Kept, TypeOK
<1>1. CASE \E id \in Ids : Send(id)
  BY <1>1, CanBeSend
<1>2. CASE ~(\E id \in Ids : Send(id))
  <2> SUFFICES ASSUME NEW x \in CbId, Live(x)'
               PROVE  \E l \in 1..Len(track') : track'[l] = x
    BY DEF CanBe
  <2>1. Live(x)
    BY <1>2, LiveStep
  <2>2. PICK l \in 1..Len(track) : track[l] = x
    BY <2>1 DEF CanBe
  <2>3. dtor[x] = 0 /\ dtor'[x] = 0 /\ x \notin strays /\ AskedOps(x)
    BY <2>1 DEF Live
  <2>4. CASE UNCHANGED track
    BY <2>2, <2>4
  <2>5. ASSUME CancelAllEnd PROVE FALSE
    <3>1. stack # <<>> /\ Top.k = "all" /\ (Top.next = Null \/ track = <<>>)
      BY <2>5 DEF CancelAllEnd, In
    <3>2. Top = stack[Len(stack)] /\ Len(stack) \in 1..Len(stack)
      BY <1>0, <3>1, PopFacts DEF TypeOK
    <3>3. track # <<>>
      BY <2>2
    <3> QED
      BY <2>1, <3>1, <3>2, <3>3 DEF Swept, SweptTo
  <2>6. ASSUME NEW m \in 1..Len(track), Closed(track, track', m), track' \in Seq(CbId), m # l
        PROVE  \E k \in 1..Len(track') : track'[k] = x
    <3>1. \A q \in 1..Len(track) : q # m => \E k \in 1..Len(track') : track'[k] = track[q]
      <4>1. track \in Seq(CbId) /\ track' \in Seq(CbId) /\ Closed(track, track', m)
        BY <1>0, <2>6
      <4> QED
        BY <4>1, ClosedKeeps
    <3>2. l # m /\ track[l] = x
      BY <2>2, <2>6
    <3> QED
      BY <3>1, <3>2, Zenon
  <2>7. ASSUME NEW id \in Ids, Cancel(id) PROVE \E k \in 1..Len(track') : track'[k] = x
    <3>1. PICK m \in 1..Len(track) : /\ track' = RemoveAt(track, m)
                                     /\ BtAttCancel(pair[track[m]].pend, stack)
      BY <2>7 DEF Cancel
    <3>2. track' \in Seq(CbId) /\ Closed(track, track', m)
      BY <1>0, <3>1, RemoveAtFacts
    <3>3. m # l
      <4> SUFFICES ASSUME m = l PROVE FALSE
        OBVIOUS
      <4>1. BtAttCancel(pair[x].pend, stack)
        BY <2>2, <3>1
      <4>2. dtor'[x] = 1
        BY <2>3, <4>1, CancelKills
      <4> QED
        BY <2>3, <4>2
    <3> QED
      BY <2>6, <3>2, <3>3
  <2>8. ASSUME ReturnDestroy PROVE \E k \in 1..Len(track') : track'[k] = x
    <3> DEFINE S == {c \in CbId : pair[c].addr = pair[Top.cb].addr}
    <3>1. stack # <<>> /\ Top.k = "destroy" /\ track' = Without(track, S)
      BY <2>8 DEF ReturnDestroy, In
    <3>2. Top = stack[Len(stack)] /\ Len(stack) \in 1..Len(stack) /\ Top.cb \in CbId
      BY <1>0, <3>1, TopOnto, TopAsked
    <3>3. dtor[Top.cb] = 1 /\ Exists(Top.cb)
      BY <3>1, <3>2 DEF Listed, Dying, Exists
    <3>4. x \notin S
      BY <2>2, <2>3, <3>2, <3>3 DEF Pairs
    <3> HIDE DEF S
    <3>5. track' \in Seq(CbId)
      BY <1>0, <3>1, WithoutFacts
    <3>6. \/ track' = track
          \/ \E m \in 1..Len(track) : track[m] \in S /\ Closed(track, track', m)
      BY <1>0, <3>1, WithoutFacts
    <3>7. ASSUME NEW m \in 1..Len(track), track[m] \in S, Closed(track, track', m)
          PROVE  \E k \in 1..Len(track') : track'[k] = x
      BY <2>2, <2>6, <3>4, <3>5, <3>7
    <3> QED
      BY <2>4, <3>6, <3>7
  <2> QED
    BY <1>0, <1>2, <2>4, <2>5, <2>7, <2>8, TrackStep
<1> QED
  BY <1>1, <1>2

\* A walk of g_attrib_cancel_all that was under way has done what it had done.
LEMMA SweptKept ==
    ASSUME Kept, Requests, Pairs, Next, alive, alive', CanBe',
           OnStack("all"), NEW x \in CbId \cup {Null}, SweptTo(x)
    PROVE  SweptTo(x)'
<1>0. TypeOK /\ track \in Seq(CbId) /\ ncb \in Nat /\ x \in Nat
  <2>1. TypeOK
    BY DEF Kept
  <2>2. track \in Seq(CbId)
    BY <2>1 DEF TypeOK
  <2>3. ncb \in Nat /\ CbId \subseteq Nat /\ Null \in Nat
    BY <2>1, TypeFacts DEF Null
  <2> QED
    BY <2>1, <2>2, <2>3
<1>1. x <= ncb'
  <2>1. ncb' = ncb \/ ncb' = ncb + 1
    BY <1>0, PairSame, SendFacts DEF Sent
  <2>2. x <= ncb
    BY DEF SweptTo
  <2> QED
    BY <1>0, <2>1, <2>2
<1>2. \A c \in CbId : Live(c)' => Live(c)
  BY LiveStep
<1>3. x = Null => \A c \in CbId : ~Live(c)'
  BY <1>2 DEF SweptTo
<1>4. ASSUME NEW i \in 1..Len(track'), track'[i] = x, NEW c \in CbId, Live(c)'
      PROVE  \E l \in 1..Len(track') : l >= i /\ track'[l] = c
  <2>1. Live(c)
    BY <1>2, <1>4
  <2>2. \A k \in 1..Len(track) : track[k] = x =>
            \E l \in 1..Len(track) : l >= k /\ track[l] = c
    BY <2>1 DEF SweptTo
  <2>3. CASE UNCHANGED track
    BY <1>4, <2>2, <2>3
  <2>4. CASE track' = <<>>
    BY <1>4, <2>4
  <2>5. ASSUME NEW id \in Ids, Send(id)
        PROVE  \E l \in 1..Len(track') : l >= i /\ track'[l] = c
    <3>1. PICK n, p, a : Sent(n, p, a)
      BY <2>5, SendFacts
    <3>2. n = ncb + 1 /\ n \in CbId /\ track' = Append(track, n)
      BY <3>1 DEF Sent
    <3>3. /\ (i \in 1..Len(track) /\ track'[i] = track[i]) \/ track'[i] = n
          /\ \A k \in 1..Len(track) : k \in 1..Len(track') /\ track'[k] = track[k]
      BY <1>0, <3>2, AppendIndex
    <3>4. x # n
      <4>1. x <= ncb
        BY DEF SweptTo
      <4> QED
        BY <1>0, <3>2, <4>1
    <3>5. i \in 1..Len(track) /\ track[i] = x
      BY <1>4, <3>3, <3>4
    <3>6. PICK l \in 1..Len(track) : l >= i /\ track[l] = c
      BY <2>2, <3>5
    <3> QED
      BY <3>3, <3>6
  <2>6. ASSUME track' \in Seq(CbId), NEW m \in 1..Len(track), Closed(track, track', m)
        PROVE  \E l \in 1..Len(track') : l >= i /\ track'[l] = c
    <3>1. \A q \in 1..Len(track') : \E l \in 1..Len(track) :
              /\ l # m /\ track'[q] = track[l]
              /\ l = IF q < m THEN q ELSE q + 1
      BY <1>0, <2>6, ClosedFacts
    <3>2. PICK k \in 1..Len(track) : track'[i] = track[k] /\ k = IF i < m THEN i ELSE i + 1
      BY <3>1
    <3>3. PICK l \in 1..Len(track) : l >= k /\ track[l] = c
      BY <1>4, <2>2, <3>2
    <3>4. PICK q \in 1..Len(track') : track'[q] = c
      BY <1>4 DEF CanBe
    <3>5. PICK r \in 1..Len(track) : track'[q] = track[r] /\ r = IF q < m THEN q ELSE q + 1
      BY <3>1
    <3>6. r = l
      BY <3>3, <3>4, <3>5 DEF Pairs
    <3>7. q >= i
      BY <3>2, <3>3, <3>5, <3>6
    <3> QED
      BY <3>4, <3>7
  <2> QED
    BY <1>0, <2>3, <2>4, <2>5, <2>6, TrackStep
<1> QED
  BY <1>1, <1>3, <1>4 DEF SweptTo

\* g_attrib_cancel_all begins with the first pair ...
LEMMA SweptBegins ==
    ASSUME Kept, Pairs, CanBe, CancelAll
    PROVE  SweptTo(Head(track))'
<1>0. TypeOK /\ track \in Seq(CbId) /\ track # <<>>
  BY DEF Kept, TypeOK, CancelAll
<1>1. Head(track) = track[1] /\ 1 \in 1..Len(track) /\ Head(track) \in CbId
  BY <1>0, TailFacts
<1>2. UNCHANGED <<track, ncb, dtor, strays, ops>>
  BY DEF CancelAll, queues, bearer
<1>3. \A c \in CbId : Live(c)' => Live(c)
  BY <1>2 DEF Live, AskedOps
<1>4. track[1] <= ncb /\ track[1] # Null
  BY <1>0, <1>1, TypeFacts DEF Pairs
<1>5. ASSUME NEW i \in 1..Len(track), track[i] = track[1], NEW c \in CbId, Live(c)
      PROVE  \E l \in 1..Len(track) : l >= i /\ track[l] = c
  <2>1. i = 1
    BY <1>1, <1>5 DEF Pairs
  <2>2. PICK l \in 1..Len(track) : track[l] = c
    BY <1>5 DEF CanBe
  <2> QED
    BY <2>1, <2>2
<1>6. SweptTo(track[1])'
  BY <1>2, <1>3, <1>4, <1>5 DEF SweptTo
<1> QED
  BY <1>1, <1>2, <1>6

\* ... and goes on with the next when it has cancelled one.
LEMMA SweptGoesOn ==
    ASSUME Kept, Requests, Pairs, Swept, CancelAllNext, alive', Top.next \in ToSet(track),
           NEW x, x = NextOf(track, Top.next)
    PROVE  SweptTo(x)'
<1>0. TypeOK /\ Shape(stack) /\ track \in Seq(CbId)
  BY DEF Kept, TypeOK
<1>1. PICK y \in CbId \cup {Null} : y = Top.next
  BY <1>0, CancelAllFacts, TopOnto
<1>2. /\ BtAttCancel(pair[y].pend, Append(Pop, AllFrame))
      /\ UNCHANGED <<track, ncb, strays>>
      /\ stack # <<>> /\ Top.k = "all"
  BY <1>0, <1>1, CancelAllFacts
<1>3. PICK k \in 1..Len(track) : track[k] = y
  <2>1. y \in ToSet(track)
    BY <1>1
  <2> QED
    BY <2>1 DEF ToSet
<1>4. y \in CbId
  BY <1>0, <1>3, TypeFacts
<1>5. SweptTo(y)
  <2>1. Top = stack[Len(stack)] /\ Len(stack) \in 1..Len(stack)
    BY <1>0, <1>2, TopOnto
  <2> QED
    BY <1>1, <1>2, <2>1 DEF Swept
<1>6. ASSUME NEW c \in CbId, Live(c)'
      PROVE  Live(c) /\ c # y
  <2>1. Live(c)
    <3>1. OnStack("all")
      <4>1. Top = stack[Len(stack)] /\ Len(stack) \in 1..Len(stack)
        BY <1>0, <1>2, TopOnto
      <4> QED
        BY <1>2, <4>1 DEF OnStack
    <3> QED
      BY <1>6, <3>1, LiveStep DEF Next
  <2>2. c # y
    <3> SUFFICES ASSUME c = y PROVE FALSE
      OBVIOUS
    <3>1. dtor'[c] = 1
      BY <1>2, <2>1, CancelKills DEF Live
    <3> QED
      BY <1>6, <3>1 DEF Live
  <2> QED
    BY <2>1, <2>2
<1>7. ASSUME NEW c \in CbId, Live(c)'
      PROVE  \E l \in 1..Len(track) : l > k /\ track[l] = c
  <2>1. PICK l \in 1..Len(track) : l >= k /\ track[l] = c
    BY <1>3, <1>5, <1>6, <1>7 DEF SweptTo
  <2>2. l # k
    BY <1>3, <1>6, <1>7, <2>1
  <2> QED
    BY <2>1, <2>2
<1>8. CASE x = Null /\ \A i \in 2..Len(track) : track[i - 1] # y
  <2>1. \A l \in 1..Len(track) : l <= k
    <3> SUFFICES ASSUME NEW l \in 1..Len(track), l > k PROVE FALSE
      OBVIOUS
    <3>1. k + 1 \in 2..Len(track) /\ (k + 1) - 1 = k
      BY <1>0
    <3> QED
      BY <1>3, <1>8, <3>1
  <2>2. \A c \in CbId : ~Live(c)'
    BY <1>7, <2>1
  <2>3. x <= ncb'
    BY <1>0, <1>2, <1>8, TypeFacts DEF Null
  <2> QED
    BY <2>2, <2>3 DEF SweptTo
<1>9. ASSUME NEW i \in 2..Len(track), track[i - 1] = y, x = track[i]
      PROVE  SweptTo(x)'
  <2>1. i \in 1..Len(track) /\ i - 1 \in 1..Len(track)
    BY <1>0
  <2>2. i - 1 = k
    BY <1>3, <1>9, <2>1 DEF Pairs
  <2>3. x <= ncb /\ x # Null
    BY <1>0, <1>9, <2>1, TypeFacts DEF Pairs
  <2>4. ASSUME NEW j \in 1..Len(track), track[j] = x, NEW c \in CbId, Live(c)'
        PROVE  \E l \in 1..Len(track) : l >= j /\ track[l] = c
    <3>1. j = i
      BY <1>9, <2>1, <2>4 DEF Pairs
    <3>2. PICK l \in 1..Len(track) : l > k /\ track[l] = c
      BY <1>7, <2>4
    <3>3. l >= j
      BY <2>2, <3>1, <3>2
    <3> QED
      BY <3>2, <3>3
  <2> QED
    BY <1>2, <2>3, <2>4 DEF SweptTo
<1> QED
  BY <1>0, <1>1, <1>8, <1>9, NextOfFacts

\* Every g_attrib_cancel_all under way has swept what is behind it.
LEMMA SweptStep ==
    ASSUME Kept, Requests, Pairs, CanBe, Swept, Next, alive, alive', CanBe'
    PROVE  Swept'
<1>0. TypeOK /\ Shape(stack)
  BY DEF Kept
<1>1. stack' \in Seq(Frames) /\ Shape(stack')
  BY <1>0, TypeStep, ShapeStep DEF TypeOK
<1> SUFFICES ASSUME NEW j \in 1..Len(stack'), stack'[j].k = "all"
             PROVE  SweptTo(stack[j].next)'
  BY DEF Swept
<1>2. PICK x \in CbId \cup {Null} : x = stack'[j].next
  BY <1>1, FrameTypes
<1>3. CASE Was(stack'[j])
  <2>1. PICK m \in 1..Len(stack) : stack[m] = stack'[j]
    BY <1>3 DEF Was
  <2>2. OnStack("all") /\ SweptTo(x)
    BY <1>2, <2>1 DEF OnStack, Swept
  <2>3. SweptTo(x)'
    BY <2>2, SweptKept
  <2> QED
    BY <1>2, <2>3
<1>4. CASE New(stack'[j])
  <2>1. \/ CancelAll /\ x = Head(track)
        \/ CancelAllNext /\ x = NextOf(track, Top.next) /\ Top.next \in ToSet(track)
    BY <1>2, <1>4 DEF New
  <2>2. ASSUME CancelAll, x = Head(track) PROVE SweptTo(x)'
    <3>1. track' = track
      BY <2>2 DEF CancelAll, queues
    <3>2. SweptTo(Head(track))'
      BY <2>2, SweptBegins
    <3> QED
      BY <2>2, <3>1, <3>2
  <2>3. SweptTo(x)'
    BY <2>1, <2>2, SweptGoesOn
  <2> QED
    BY <1>2, <2>3
<1> QED
  BY <1>0, <1>3, <1>4, StackStep DEF From

-----------------------------------------------------------------------------

\* What the bearer lists, the pairs and the walks of g_attrib_cancel_all agree
\* while the GAttrib lives.
LEMMA AskingStep ==
    ASSUME Kept, Asking, Next
    PROVE  Asking'
<1>1. Requests'
  BY RequestsStep DEF Asking
<1>2. ASSUME alive' PROVE Listed' /\ Pairs' /\ Cancellable' /\ Swept'
  <2>1. TypeOK /\ alive
    BY <1>2, LifeStep DEF Kept
  <2>2. Requests /\ Listed /\ Pairs /\ Swept /\ CanBe
    BY <2>1, CanBeFacts DEF Asking
  <2>3. Listed'
    BY <1>2, <2>1, <2>2, ListedStep
  <2>4. Pairs'
    BY <1>2, <2>1, <2>2, PairsStep, PairsSend
  <2>5. CanBe'
    BY <1>2, <2>1, <2>2, CanBeStep
  <2>6. Swept'
    BY <1>2, <2>1, <2>2, <2>5, SweptStep
  <2>7. TypeOK'
    BY TypeStep DEF Kept
  <2>8. Cancellable'
    <3>1. (TypeOK /\ alive /\ CanBe => Cancellable)'
      BY CanBeFacts, PTL
    <3> QED
      BY <1>2, <2>5, <2>7, <3>1
  <2> QED
    BY <2>3, <2>4, <2>6, <2>8
<1> QED
  BY <1>1, <1>2 DEF Asking

\* At the beginning nothing is asked for.
LEMMA AskingInit ==
    ASSUME Init
    PROVE  Asking
<1>1. /\ ops = <<>> /\ flush = <<>> /\ stack = <<>> /\ track = <<>> /\ nextId = 1
      /\ \A c \in CbId : pair[c].pend = 0 /\ pair[c].addr = Null
      /\ \A c \in CbId : dtor[c] = 0
  BY DEF Init
<1>2. Requests
  BY <1>1 DEF Requests
<1>3. Listed
  BY <1>1 DEF Listed, ListedOps, Dying, Unlisted
<1>4. Pairs /\ Swept /\ Cancellable
  BY <1>1 DEF Pairs, Swept, Cancellable
<1> QED
  BY <1>2, <1>3, <1>4 DEF Asking

\* The requests of the bearer, the pairs and the walks agree at all times.
THEOREM AskingCorrect == Spec => []Asking
<1>1. Init => Asking
  BY AskingInit
<1>2. Kept /\ Asking /\ [Next]_vars => Asking'
  <2>1. ASSUME Kept, Asking, Next PROVE Asking'
    BY <2>1, AskingStep
  <2>2. ASSUME Asking, UNCHANGED vars PROVE Asking'
    <3>1. UNCHANGED <<refs, chan, track, pair, ops, flush, ncb, nextId, stack, dtor, strays>>
      BY <2>2 DEF vars, queues, bearer, history
    <3>2. Requests' <=> Requests
      BY <3>1 DEF Requests
    <3>3. Listed' <=> Listed
      BY <3>1 DEF Listed, ListedOps, OnAir, Dying, Unlisted, AskedOps, AskedFlush
    <3>4. (Pairs' <=> Pairs) /\ (Cancellable' <=> Cancellable)
      BY <3>1 DEF Pairs, Exists, Cancellable, alive
    <3>5. Swept' <=> Swept
      BY <3>1 DEF Swept, SweptTo, Live, AskedOps
    <3> QED
      BY <2>2, <3>1, <3>2, <3>3, <3>4, <3>5 DEF Asking, alive
  <2> QED
    BY <2>1, <2>2
<1> QED
  BY <1>1, <1>2, KeptCorrect, PTL DEF Spec

\* A request that the bearer could still cancel is found by g_attrib_cancel,
\* for any number of requests and whatever callbacks, timeouts and cancels of
\* others do, but for the strays that Cancellable names.
THEOREM CancellableCorrect == Spec => []Cancellable
<1>1. Asking => Cancellable
  BY DEF Asking, Cancellable
<1> QED
  BY <1>1, AskingCorrect, PTL

-----------------------------------------------------------------------------
(* Freed memory *)

\* A record that a request of the bearer has is still there.
LEMMA NotFreed ==
    ASSUME Asking, alive, NEW x, AskedOps(x)
    PROVE  ~Freed(x)
<1>1. PICK i \in 1..Len(ops) : ops[i].cb = x
  BY DEF AskedOps
<1>2. dtor[x] = 0 \/ OnAir(stack, x)
  BY <1>1 DEF Asking, Listed, ListedOps
<1> QED
  BY <1>2 DEF Freed, Destroying, OnAir

\* bt_att_cancel uses no freed record.
LEMMA CancelSafe ==
    ASSUME Kept, Asking, alive, ~uaf, NEW pend, NEW rest, BtAttCancel(pend, rest)
    PROVE  ~uaf'
<1>1. TypeOK
  BY DEF Kept
<1>2. ASSUME NEW i \in 1..Len(ops), NEW next \in CbId \cup {Null},
             Found(pend, rest, i, next)
      PROVE  ~uaf'
  <2>1. ~Freed(ops[i].cb)
    BY NotFreed DEF AskedOps
  <2>2. RemoveCb(ops[i].cb, rest, FALSE, next)
    BY <1>2 DEF Found
  <2> QED
    BY <2>1, <2>2, RemoveCbFacts
<1> QED
  BY <1>1, <1>2, CancelFacts DEF NoneFound

\* No step uses freed memory.
LEMMA UafStep ==
    ASSUME Kept, Asking, Safe, Next
    PROVE  ~uaf'
<1>0. TypeOK /\ Shape(stack) /\ Records /\ Handlers /\ ~uaf
  BY DEF Kept, Safe
<1>1. stack # <<>> => alive
  BY DEF Safe
<1>2. stack # <<>> => Top = stack[Len(stack)] /\ Len(stack) \in 1..Len(stack)
  BY <1>0, TopOnto
<1>3. ASSUME NEW id \in Ids, Cancel(id) PROVE ~uaf'
  <2>1. alive /\ \E i \in 1..Len(track) : BtAttCancel(pair[track[i]].pend, stack)
    BY <1>3 DEF Cancel, ClientRuns
  <2> QED
    BY <1>0, <2>1, CancelSafe
<1>4. ASSUME CancelAllNext PROVE ~uaf'
  <2>1. stack # <<>> /\ Top.k = "all" /\ Top.next # Null /\ alive
    BY <1>0, <1>4, CancelAllFacts
  <2>2. \E i \in 1..Len(track) : track[i] = Top.next
    <3>1. AllSafe(Len(stack))
      BY <1>2, <2>1 DEF Safe
    <3> QED
      BY <1>2, <2>1, <3>1 DEF AllSafe
  <2>3. Top.next \in ToSet(track)
    BY <2>2 DEF ToSet
  <2>4. BtAttCancel(pair[Top.next].pend, Append(Pop, AllFrame))
    BY <1>0, <1>4, <2>3, CancelAllFacts
  <2> QED
    BY <1>0, <2>1, <2>4, CancelSafe
<1>5. ASSUME CancelAllEnd \/ ReturnDestroy PROVE ~uaf'
  BY <1>1, <1>5 DEF CancelAllEnd, ReturnDestroy, In
<1>6. ASSUME ReturnResult PROVE ~uaf'
  <2>1. stack # <<>> /\ Top.k = "result"
    BY <1>6 DEF ReturnResult, In
  <2>2. ASSUME RemoveCb(Top.cb, Pop, Top.held, IF Top.held THEN Top.cb ELSE Null),
               Top.held => AskedOps(Top.cb)
        PROVE  ~uaf'
    <3>1. ~Freed(Top.cb)
      <4>1. CASE Top.held
        BY <1>1, <2>1, <2>2, <4>1, NotFreed
      <4>2. CASE ~Top.held
        <5>1. dtor[Top.cb] = 0
          BY <1>1, <1>2, <2>1, <4>2 DEF Asking, Listed, Unlisted
        <5> QED
          BY <5>1 DEF Freed
      <4> QED
        BY <4>1, <4>2
    <3> QED
      BY <1>0, <2>2, <3>1 DEF RemoveCb
  <2> QED
    BY <1>0, <1>6, <2>2 DEF ReturnResult, AskedOps
<1>7. ASSUME NEW match \in BOOLEAN, WalkNext(match) PROVE ~uaf'
  <2>1. stack # <<>> /\ Top.k = "walk" /\ Top.next # Null
    BY <1>7 DEF WalkNext, In
  <2>2. PICK i \in 1..Len(notes) : notes[i] = Top.next
    <3>1. WalkSafe(Len(stack))
      BY <1>2, <2>1 DEF Safe
    <3> QED
      BY <1>2, <2>1, <3>1 DEF WalkSafe
  <2>3. Top.next \in ToSet(notes)
    BY <2>2 DEF ToSet
  <2>4. ~(dtor[Top.next] > 0)
    <3>1. notes[i] \in cbs /\ notes[i] \in CbId
      BY <1>0, <1>1, <2>1, TypeFacts DEF Handlers
    <3>2. dtor[notes[i]] = 0
      BY <1>0, <3>1 DEF Records
    <3> QED
      BY <2>2, <3>2
  <2> QED
    BY <1>0, <1>7, <2>3, <2>4 DEF WalkNext
<1>8. ASSUME DisconnectNext PROVE ~uaf'
  <2>1. stack # <<>> /\ flush # <<>>
    BY <1>8 DEF DisconnectNext, In
  <2>2. Head(flush) = flush[1] /\ 1 \in 1..Len(flush)
    BY <1>0, <2>1, TailFacts DEF TypeOK
  <2>3. dtor[Head(flush).cb] = 0
    BY <1>1, <2>1, <2>2 DEF Asking, Listed
  <2> QED
    BY <1>0, <1>8, <2>3 DEF DisconnectNext
<1>9. ASSUME DisconnectEnd PROVE ~uaf'
  <2>1. stack # <<>>
    BY <1>9 DEF DisconnectEnd, In
  <2>2. att
    BY <1>0, <1>1, <2>1 DEF Records
  <2> QED
    BY <1>0, <1>9, <2>2 DEF DisconnectEnd
<1>10. ~HandlerEnd
  BY DEF HandlerEnd, Safe
<1> QED
  BY <1>0, <1>3, <1>4, <1>5, <1>6, <1>7, <1>8, <1>9, <1>10
     DEF Next, Send, CancelAll, Result, Register, UnregisterAll, Unregister,
         Notify, WalkEnd, ReturnNotify, Disconnect, Ref, Unref

\* The client did not do any of the three things before this step either.
LEMMA CalmStep ==
    ASSUME Kept, Next, Calm'
    PROVE  Calm
<1>0. Records
  BY DEF Kept
<1>1. ~pulled
  BY DEF Calm, Next, Send, Cancel, CancelAll, CancelAllNext, CancelAllEnd, Result,
         ReturnResult, ReturnDestroy, Register, UnregisterAll, Unregister, Notify,
         WalkEnd, WalkNext, ReturnNotify, Disconnect, DisconnectNext, DisconnectEnd,
         Ref, Unref, HandlerEnd, history
<1>2. ~reentered
  BY DEF Calm, Next, Send, Cancel, CancelAll, CancelAllNext, CancelAllEnd, Result,
         ReturnResult, ReturnDestroy, Register, UnregisterAll, Unregister, Notify,
         WalkEnd, WalkNext, ReturnNotify, Disconnect, DisconnectNext, DisconnectEnd,
         Ref, Unref, HandlerEnd, history, InAll
<1>3. ~lastInside
  <2>1. CASE alive
    BY <1>0, <2>1 DEF Records
  <2>2. CASE ~alive
    BY <2>2 DEF Calm, Next, Send, Cancel, CancelAll, CancelAllNext, CancelAllEnd,
         Result, ReturnResult, ReturnDestroy, Register, UnregisterAll, Unregister,
         Notify, WalkEnd, WalkNext, ReturnNotify, Disconnect, DisconnectNext,
         DisconnectEnd, Ref, Unref, HandlerEnd, history, ClientRuns, LoopRuns
  <2> QED
    BY <2>1, <2>2
<1> QED
  BY <1>1, <1>2, <1>3 DEF Calm

\* With the last reference, given back outside of all calls, the bearer goes.
LEMMA EndStep ==
    ASSUME Kept, Safe, Next, Calm', ~alive'
    PROVE  stack' = <<>> /\ ~att'
<1>0. TypeOK /\ Shape(stack) /\ Records
  BY DEF Kept
<1>1. CASE alive
  <2>1. Unref
    <3>1. UNCHANGED refs \/ Ref \/ Unref
      BY <1>0, LifeStep DEF HandlerEnd
    <3>2. Ref => refs' = refs + 1 /\ refs \in Nat
      BY <1>0 DEF Ref, TypeOK
    <3>3. ~Ref
      BY <3>2 DEF alive
    <3>4. ~UNCHANGED refs
      BY <1>1 DEF alive
    <3> QED
      BY <3>1, <3>3, <3>4
  <2>2. ~(refs > 1)
    BY <1>0, <2>1 DEF Unref, alive, TypeOK
  <2>3. /\ lastInside' = (stack # <<>>) /\ UNCHANGED stack
        /\ ~BearerHeld => ~att'
    BY <2>1, <2>2 DEF Unref
  <2>4. stack = <<>>
    BY <2>3 DEF Calm
  <2>5. ~BearerHeld
    BY <2>4 DEF BearerHeld
  <2> QED
    BY <2>3, <2>4, <2>5
<1>2. CASE ~alive
  <2>1. stack = <<>> /\ ~att
    BY <1>2 DEF Safe
  <2> QED
    BY <1>2, <2>1 DEF Next, Send, Cancel, CancelAll, CancelAllNext, CancelAllEnd,
         Result, ReturnResult, ReturnDestroy, Register, UnregisterAll, Unregister,
         Notify, WalkEnd, WalkNext, ReturnNotify, Disconnect, DisconnectNext,
         DisconnectEnd, Ref, Unref, HandlerEnd, ClientRuns, LoopRuns, In
<1> QED
  BY <1>1, <1>2

\* A walk that is on top of the calls is the only one, and handlers run above it.
LEMMA WalkBelow ==
    ASSUME TypeOK, Shape(stack), NEW m \in 1..Len(stack), stack[m].k = "walk"
    PROVE  /\ m = 1 /\ Len(stack) \in Nat
           /\ Len(stack) # 1 => (2 \in 1..Len(stack) /\ stack[2].k = "notify")
           /\ Len(stack) = 1 => Top.k = "walk"
<1>0. stack \in Seq(Frames)
  BY DEF TypeOK
<1>1. m = 1 /\ Len(stack) \in Nat
  BY <1>0 DEF Shape
<1>2. ASSUME Len(stack) # 1 PROVE 2 \in 1..Len(stack) /\ stack[2].k = "notify"
  <2>1. 2 \in 1..Len(stack)
    BY <1>1, <1>2
  <2> QED
    BY <1>1, <2>1 DEF Shape
<1> QED
  BY <1>1, <1>2 DEF Top

\* handle_notify finds its next entry, or a list that a handler emptied.
LEMMA WalkSafeStep ==
    ASSUME Kept, Asking, Safe, Next, Calm', NEW j \in 1..Len(stack'), stack'[j].k = "walk"
    PROVE  WalkSafe(j)'
<1>0. TypeOK /\ Shape(stack) /\ notes \in Seq(CbId) /\ stack \in Seq(Frames)
  BY DEF Kept, TypeOK
<1>1. stack' \in Seq(Frames) /\ Shape(stack')
  BY <1>0, TypeStep, ShapeStep DEF TypeOK
<1>2. j = 1
  BY <1>1 DEF Shape
<1>3. ASSUME Notify PROVE WalkSafe(j)'
  <2> DEFINE f == Frame("walk", Null, FALSE, Head(notes))
  <2>1. notes # <<>> /\ stack = <<>> /\ stack' = Push(f) /\ notes' = notes
    BY <1>3 DEF Notify, LoopRuns, bearer
  <2>2. Head(notes) = notes[1] /\ 1 \in 1..Len(notes) /\ Head(notes) \in CbId
    BY <1>0, <2>1, TailFacts
  <2>3. f \in Frames /\ f.next = Head(notes)
    BY <2>2 DEF Frame, Frames, Kind
  <2> HIDE DEF f
  <2>4. stack'[j] = f
    BY <1>0, <2>1, <2>3, AppendIndex DEF Push
  <2> QED
    BY <2>1, <2>2, <2>3, <2>4 DEF WalkSafe
<1>4. ASSUME NEW match \in BOOLEAN, WalkNext(match) PROVE WalkSafe(j)'
  <2>1. notes' = notes /\ stack # <<>> /\ Top.k = "walk"
    BY <1>4 DEF WalkNext, bearer, In
  <2>2. ~uaf'
    BY UafStep
  <2>3. WalkFrame \in Frames /\ NotifyFrame \in Frames
        /\ (stack' = <<WalkFrame>> \/ stack' = Append(<<WalkFrame>>, NotifyFrame))
    BY <1>0, <1>4, <2>2, WalkNextFacts
  <2>4. stack'[1] = WalkFrame
    <3>1. <<WalkFrame>> \in Seq(Frames) /\ <<WalkFrame>>[1] = WalkFrame /\ Len(<<WalkFrame>>) = 1
      BY <2>3
    <3>2. 1 \in 1..Len(<<WalkFrame>>)
      BY <3>1
    <3>3. CASE stack' = Append(<<WalkFrame>>, NotifyFrame)
      BY <2>3, <3>1, <3>2, <3>3, AppendIndex
    <3> QED
      BY <2>3, <3>1, <3>3
  <2>5. WalkFrame.next = NextOf(notes, Top.next)
    BY DEF WalkFrame, Frame
  <2>6. stack'[j].next = NextOf(notes, Top.next)
    BY <1>2, <2>4, <2>5
  <2>7. stack'[j].next = Null \/ \E i \in 1..Len(notes) : notes[i] = stack'[j].next
    <3>1. \/ NextOf(notes, Top.next) = Null
          \/ \E i \in 2..Len(notes) : NextOf(notes, Top.next) = notes[i]
      BY <1>0, NextOfFacts
    <3>2. \A i \in 2..Len(notes) : i \in 1..Len(notes)
      OBVIOUS
    <3> QED
      BY <2>6, <3>1, <3>2
  <2> QED
    BY <2>1, <2>7 DEF WalkSafe
<1>5. ASSUME ReturnNotify PROVE WalkSafe(j)'
  <2>1. notes' = notes
    BY <1>5 DEF ReturnNotify, bearer
  <2>2. stack' # <<>>
    BY <1>1
  <2>3. stack # <<>> /\ notes # <<>> /\ stack' = Pop /\ Pop[1] = stack[1] /\ Len(stack) = 2
    BY <1>0, <1>5, <2>2, ReturnNotifyFacts
  <2>4. stack'[j] = stack[1] /\ 1 \in 1..Len(stack)
    BY <1>2, <2>3
  <2>5. WalkSafe(1)
    BY <2>4 DEF Safe
  <2> QED
    BY <2>1, <2>3, <2>4, <2>5 DEF WalkSafe
<1>6. ASSUME Was(stack'[j]), ~ReturnNotify PROVE WalkSafe(j)'
  <2>1. PICK m \in 1..Len(stack) : stack[m] = stack'[j]
    BY <1>6 DEF Was
  <2>2. /\ m = 1 /\ Len(stack) \in Nat
        /\ Len(stack) # 1 => (2 \in 1..Len(stack) /\ stack[2].k = "notify")
        /\ Len(stack) = 1 => Top.k = "walk"
    BY <1>0, <2>1, WalkBelow
  <2>3. stack[1] = stack'[j] /\ WalkSafe(1) /\ stack # <<>> /\ stack[1].k = "walk" /\ 1 \in 1..Len(stack)
    BY <2>1, <2>2 DEF Safe
  <2>4. ASSUME notes' = notes PROVE WalkSafe(j)'
    <3>1. CASE stack[1].next = Null \/ \E i \in 1..Len(notes) : notes[i] = stack[1].next
      BY <2>3, <2>4, <3>1 DEF WalkSafe
    <3>2. CASE notes = <<>> /\ 1 # Len(stack)
      <4>1. PICK i \in 1..Len(stack') : stack'[i] = stack[2]
        BY <1>0, <1>6, <2>2, <3>2, CallKept DEF Keeps
      <4>2. i = 2
        BY <1>1, <2>2, <3>2, <4>1 DEF Shape
      <4>3. Len(stack') \in Nat /\ 2 \in 1..Len(stack')
        BY <1>1, <4>1, <4>2
      <4>4. \A n \in Nat : 2 \in 1..n => 1 # n
        OBVIOUS
      <4>5. j # Len(stack')
        BY <1>2, <4>3, <4>4
      <4> QED
        BY <2>4, <3>2, <4>5 DEF WalkSafe
    <3> QED
      BY <2>3, <3>1, <3>2 DEF WalkSafe
  <2>5. ASSUME ~NextGone(notes') PROVE WalkSafe(j)'
    <3>1. stack[1].next = Null \/ stack[1].next \in ToSet(notes')
      BY <2>3, <2>5 DEF NextGone
    <3>2. stack[1].next = Null \/ \E i \in 1..Len(notes') : notes'[i] = stack[1].next
      BY <3>1 DEF ToSet
    <3> QED
      BY <2>3, <3>2 DEF WalkSafe
  <2>6. ASSUME ClientRuns, UNCHANGED stack, notes' = <<>> PROVE WalkSafe(j)'
    <3>1. Len(stack) # 1
      BY <2>2, <2>3, <2>6 DEF ClientRuns
    <3> QED
      BY <1>2, <2>6, <3>1 DEF WalkSafe
  <2>7. ASSUME Register PROVE WalkSafe(j)'
    BY <2>5, <2>7 DEF Register, Calm
  <2>8. ASSUME NEW cb \in CbId, Unregister(cb) PROVE WalkSafe(j)'
    BY <2>5, <2>6, <2>8 DEF Unregister, Calm
  <2>9. ASSUME UnregisterAll PROVE WalkSafe(j)'
    BY <2>6, <2>9 DEF UnregisterAll
  <2>10. ~DisconnectEnd
    <3> SUFFICES ASSUME DisconnectEnd PROVE FALSE
      OBVIOUS
    <3>1. Top.k = "disconnect"
      BY DEF DisconnectEnd, In
    <3>2. Top = stack[Len(stack)] /\ Len(stack) \in 1..Len(stack)
      BY <1>0, <2>3, TopOnto
    <3>3. Len(stack) = 1
      BY <1>0, <3>1, <3>2 DEF Shape
    <3> QED
      BY <2>2, <3>1, <3>3
  <2>11. ~HandlerEnd
    BY <2>3 DEF HandlerEnd
  <2>12. ASSUME Unref PROVE notes' = notes
    <3>1. alive'
      BY <1>1, EndStep
    <3>2. refs > 1
      BY <1>0, <2>12, <3>1 DEF Unref, alive, ClientRuns, TypeOK
    <3> QED
      BY <2>12, <3>2 DEF Unref, bearer
  <2> QED
    BY <2>4, <2>7, <2>8, <2>9, <2>10, <2>11, <2>12
     DEF Next, Send, Cancel, CancelAll, CancelAllNext, CancelAllEnd, Result,
         ReturnResult, ReturnDestroy, Notify, WalkEnd, WalkNext, ReturnNotify,
         Disconnect, DisconnectNext, Ref, bearer
<1>7. Was(stack'[j]) \/ Walks
  BY <1>0, StackStep DEF From, New
<1> QED
  BY <1>3, <1>4, <1>5, <1>6, <1>7 DEF Walks

\* Of g_attrib_cancel_all there is one call at most, with at most a destroy
\* function above it.
LEMMA AllBelow ==
    ASSUME Kept, Safe, NEW m \in 1..Len(stack), stack[m].k = "all"
    PROVE  /\ stack # <<>> /\ OnStack("all") /\ Top.k \in {"all", "destroy"}
           /\ m # Len(stack) => (m + 1 = Len(stack) /\ Top.k = "destroy")
           /\ Top.k = "destroy" => OnStack("destroy")
<1>0. TypeOK /\ Shape(stack)
  BY DEF Kept
<1>1. stack # <<>>
  OBVIOUS
<1>2. Top = stack[Len(stack)] /\ Len(stack) \in 1..Len(stack)
  BY <1>0, <1>1, TopOnto
<1>3. AllSafe(m)
  BY DEF Safe
<1>4. m # Len(stack) => (m + 1 = Len(stack) /\ Top.k = "destroy")
  BY <1>3 DEF AllSafe
<1>5. m = Len(stack) => Top.k = "all"
  BY <1>2
<1>6. Top.k = "destroy" => OnStack("destroy")
  BY <1>2 DEF OnStack
<1> QED
  BY <1>1, <1>4, <1>5, <1>6 DEF OnStack

\* A client that is calm cancels nothing while it is under way.
LEMMA AllAlone ==
    ASSUME Kept, Safe, Calm', CancelAll \/ \E id \in Ids : Cancel(id)
    PROVE  ~OnStack("all")
<1> SUFFICES ASSUME OnStack("all") PROVE FALSE
  OBVIOUS
<1>1. PICK m \in 1..Len(stack) : stack[m].k = "all"
  BY DEF OnStack
<1>2. /\ stack # <<>> /\ Top.k \in {"all", "destroy"}
      /\ Top.k = "destroy" => OnStack("destroy")
  BY <1>1, AllBelow
<1>3. ClientRuns /\ reentered' = (reentered \/ (OnStack("all") /\ OnStack("destroy")))
  BY DEF CancelAll, Cancel, InAll
<1>4. Top.k = "destroy"
  BY <1>2, <1>3 DEF ClientRuns
<1> QED
  BY <1>2, <1>3, <1>4 DEF Calm

\* A step that leaves the calls, the pairs and their list alone, or adds one.
LEMMA AllSame ==
    ASSUME Kept, Asking, Safe, NEW j \in 1..Len(stack), stack[j].k = "all",
           UNCHANGED <<stack, track, pair>> \/ \E id \in Ids : Send(id)
    PROVE  AllSafe(j)'
<1>0. TypeOK /\ Shape(stack) /\ Handlers /\ track \in Seq(CbId) /\ ncb \in Nat
  BY TypeFacts DEF Kept, TypeOK
<1>1. AllSafe(j)
  BY DEF Safe
<1>2. CASE UNCHANGED <<stack, track, pair>>
  BY <1>1, <1>2 DEF AllSafe, Top
<1>3. ASSUME NEW id \in Ids, Send(id) PROVE AllSafe(j)'
  <2>1. PICK n, p, a : Sent(n, p, a)
    BY <1>3, SendFacts
  <2>2. /\ n = ncb + 1 /\ n \in CbId /\ track' = Append(track, n) /\ stack' = stack
        /\ \A c \in CbId : c # n => pair'[c] = pair[c]
    BY <2>1 DEF Sent
  <2>3. PICK x \in CbId \cup {Null} : x = stack[j].next
    BY <1>0, TypeFacts
  <2>4. stack # <<>> /\ alive
    BY DEF Safe
  <2>5. x \in Nat /\ x <= ncb
    BY <1>0, <2>3, <2>4, TypeFacts DEF Asking, Swept, SweptTo, Null
  <2>6. x # n
    BY <1>0, <2>2, <2>5
  <2>7. x # Null => pair'[x] = pair[x]
    BY <2>2, <2>3, <2>6
  <2>8. Top.k = "destroy" => pair'[Top.cb] = pair[Top.cb]
    <3> SUFFICES ASSUME Top.k = "destroy" PROVE pair'[Top.cb] = pair[Top.cb]
      OBVIOUS
    <3>1. Top.cb \in CbId /\ Asked(Top.cb)
      BY <1>0, <2>4, TopAsked
    <3>2. Top.cb <= ncb /\ Top.cb \in Nat
      BY <1>0, <3>1, TypeFacts DEF Handlers
    <3>3. Top.cb # n
      BY <1>0, <2>2, <3>2
    <3> QED
      BY <2>2, <3>1, <3>3
  <2>9. \A i \in 1..Len(track) : i \in 1..Len(track') /\ track'[i] = track[i]
    BY <1>0, <2>2, AppendIndex
  <2>10. x = Null \/ \E i \in 1..Len(track') : track'[i] = x
    BY <1>1, <2>3, <2>9 DEF AllSafe
  <2>11. j # Len(stack) =>
           /\ j + 1 = Len(stack) /\ Top.k = "destroy"
           /\ x # Null => pair'[Top.cb].addr # pair'[x].addr
    BY <1>1, <2>3, <2>7, <2>8 DEF AllSafe
  <2> QED
    BY <2>2, <2>3, <2>10, <2>11 DEF AllSafe, Top
<1> QED
  BY <1>2, <1>3

\* g_attrib_cancel_all begins with a pair that is in the list.
LEMMA AllBegins ==
    ASSUME Kept, Safe, CancelAll, ~OnStack("all"), NEW j \in 1..Len(stack'),
           stack'[j].k = "all"
    PROVE  AllSafe(j)'
<1>0. stack \in Seq(Frames) /\ track \in Seq(CbId)
  BY DEF Kept, TypeOK
<1> DEFINE f == Frame("all", Null, FALSE, Head(track))
<1>1. track # <<>> /\ stack' = Append(stack, f) /\ track' = track
  BY DEF CancelAll, queues, Push
<1>2. Head(track) = track[1] /\ 1 \in 1..Len(track) /\ Head(track) \in CbId
  BY <1>0, <1>1, TailFacts
<1>3. f \in Frames /\ f.next = Head(track)
  BY <1>2 DEF Frame, Frames, Kind
<1> HIDE DEF f
<1>4. (j \in 1..Len(stack) /\ stack'[j] = stack[j]) \/ (j = Len(stack') /\ stack'[j] = f)
  BY <1>0, <1>1, <1>3, AppendIndex
<1>5. j = Len(stack') /\ stack'[j] = f
  BY <1>4 DEF OnStack
<1> QED
  BY <1>1, <1>2, <1>3, <1>5 DEF AllSafe

\* It goes on, with the destroy function of the request it has cancelled, if
\* there was one.
LEMMA AllCancels ==
    ASSUME Kept, Asking, CancelAllNext, Top.next \in ToSet(track), ~uaf'
    PROVE  \/ stack' = Append(Pop, AllFrame)
           \/ \E f \in Frames : /\ f.k = "destroy" /\ f.cb = Top.next
                                /\ stack' = Append(Append(Pop, AllFrame), f)
<1>0. TypeOK /\ Shape(stack) /\ Requests
  BY DEF Kept, Asking
<1>1. PICK rest : rest = Append(Pop, AllFrame)
  OBVIOUS
<1>2. PICK y : y = Top.next
  OBVIOUS
<1>3. BtAttCancel(pair[y].pend, rest)
  BY <1>0, <1>1, <1>2, CancelAllFacts
<1>4. y \in CbId
  BY <1>0, <1>2 DEF ToSet, TypeOK
<1>5. ASSUME NEW i \in 1..Len(ops), NEW next \in CbId \cup {Null},
             Found(pair[y].pend, rest, i, next)
      PROVE  \/ stack' = rest
             \/ \E f \in Frames : f.k = "destroy" /\ f.cb = y /\ stack' = Append(rest, f)
  <2>1. ops[i].cb \in CbId /\ ops[i].id = pair[y].pend
        /\ RemoveCb(ops[i].cb, rest, FALSE, next)
    BY <1>5 DEF Found
  <2>2. ops[i].cb = y
    BY <1>0, <1>4, <2>1 DEF Requests
  <2>3. RemoveCb(y, rest, FALSE, next)
    BY <2>1, <2>2
  <2>4. stack' = rest \/ stack' = Append(rest, Frame("destroy", y, FALSE, next))
    BY <2>3, RemoveCbFacts
  <2>5. /\ Frame("destroy", y, FALSE, next) \in Frames
        /\ Frame("destroy", y, FALSE, next).k = "destroy"
        /\ Frame("destroy", y, FALSE, next).cb = y
    BY <1>4 DEF Frame, Frames, Kind
  <2> QED
    BY <2>4, <2>5
<1>6. \/ stack' = rest
      \/ \E f \in Frames : f.k = "destroy" /\ f.cb = y /\ stack' = Append(rest, f)
  BY <1>0, <1>3, <1>5, CancelFacts DEF NoneFound
<1> QED
  BY <1>1, <1>2, <1>6

\* The pair it looks at next is in the list, and is not the one whose request
\* it cancels.
LEMMA AllGoesOn ==
    ASSUME Kept, Asking, Safe, CancelAllNext, ~uaf', NEW j \in 1..Len(stack'),
           stack'[j].k = "all"
    PROVE  AllSafe(j)'
<1>0. TypeOK /\ Shape(stack) /\ track \in Seq(CbId)
  BY DEF Kept, TypeOK
<1>1. /\ stack # <<>> /\ Top.k = "all" /\ AllFrame \in Frames /\ alive
      /\ AllFrame.next = NextOf(track, Top.next) /\ AllFrame.k = "all"
      /\ Top.next \in ToSet(track) /\ track' = track /\ pair' = pair
  BY <1>0, CancelAllFacts
<1>2. Pairs
  BY <1>1 DEF Asking
<1>3. PICK y : y = Top.next
  OBVIOUS
<1>4. PICK g \in Frames : g = AllFrame
  BY <1>1
<1>5. \/ g.next = Null
      \/ \E i \in 1..Len(track) : g.next = track[i] /\ pair[y].addr # pair[track[i]].addr
  <2>1. ASSUME NEW i \in 2..Len(track), track[i - 1] = y, g.next = track[i]
        PROVE  i \in 1..Len(track) /\ pair[y].addr # pair[track[i]].addr
    <3>1. i \in 1..Len(track) /\ i - 1 \in 1..Len(track) /\ i - 1 # i
      BY <1>0
    <3>2. pair[track[i - 1]].addr # pair[track[i]].addr
      BY <1>2, <3>1 DEF Pairs
    <3> QED
      BY <2>1, <3>1, <3>2
  <2>2. g.next = NextOf(track, y)
    BY <1>1, <1>3, <1>4
  <2> QED
    BY <1>0, <2>1, <2>2, NextOfFacts
<1>6. PICK p \in Seq(Frames) : p = Pop
  BY <1>0, <1>1, TopOnto
<1>7. \A m \in 1..Len(p) : p[m].k # "all"
  <2>1. /\ Len(p) = Len(stack) - 1 /\ Len(stack) \in Nat
        /\ \A i \in 1..(Len(stack) - 1) : p[i] = stack[i]
    BY <1>0, <1>1, <1>6, TopOnto
  <2>2. \A m \in 1..Len(p) : m \in 1..Len(stack) /\ p[m] = stack[m] /\ m # Len(stack)
    BY <2>1
  <2>3. \A m \in 1..Len(stack) : (stack[m].k = "all" /\ m # Len(stack)) => Top.k = "destroy"
    BY AllBelow
  <2> QED
    BY <1>1, <2>2, <2>3
<1>8. PICK s : s = Append(p, g)
  OBVIOUS
<1>9. s \in Seq(Frames) /\ Len(s) \in Nat
  BY <1>8, AppendFacts
<1>10. \A m \in 1..Len(s) : s[m].k = "all" => (m = Len(s) /\ s[m] = g)
  <2>1. \A m \in 1..Len(s) : (m \in 1..Len(p) /\ s[m] = p[m]) \/ (m = Len(s) /\ s[m] = g)
    BY <1>8, AppendIndex
  <2> QED
    BY <1>7, <2>1
<1>11. \/ stack' = s
       \/ \E f \in Frames : f.k = "destroy" /\ f.cb = y /\ stack' = Append(s, f)
  BY <1>1, <1>3, <1>4, <1>6, <1>8, AllCancels
<1>12. CASE stack' = s
  <2>1. j = Len(stack') /\ stack'[j] = g
    BY <1>10, <1>12
  <2> QED
    BY <1>1, <1>5, <2>1 DEF AllSafe
<1>13. ASSUME NEW f \in Frames, f.k = "destroy", f.cb = y, stack' = Append(s, f)
       PROVE  AllSafe(j)'
  <2>1. /\ (j \in 1..Len(s) /\ stack'[j] = s[j]) \/ (j = Len(stack') /\ stack'[j] = f)
        /\ stack'[Len(stack')] = f
    BY <1>9, <1>13, AppendIndex
  <2>2. j \in 1..Len(s) /\ stack'[j] = s[j]
    BY <1>13, <2>1
  <2>3. j = Len(s) /\ stack'[j] = g
    BY <1>10, <2>2
  <2>4. Len(stack') = Len(s) + 1
    BY <1>9, <1>13, AppendFacts
  <2>5. j + 1 = Len(stack')
    BY <2>3, <2>4
  <2>6. Top' = f
    BY <2>1 DEF Top
  <2> QED
    BY <1>1, <1>5, <1>13, <2>3, <2>5, <2>6 DEF AllSafe
<1> QED
  BY <1>11, <1>12, <1>13

\* A destroy function that returns frees the pair of its own request only.
LEMMA AllReturns ==
    ASSUME Kept, Safe, ReturnDestroy, NEW j \in 1..Len(stack'), stack'[j].k = "all"
    PROVE  AllSafe(j)'
<1>0. TypeOK /\ Shape(stack) /\ track \in Seq(CbId)
  BY DEF Kept, TypeOK
<1>1. stack # <<>> /\ Top.k = "destroy" /\ stack' = Pop
      /\ track' = Without(track, {c \in CbId : pair[c].addr = pair[Top.cb].addr})
  BY DEF ReturnDestroy, In
<1>2. /\ Len(Pop) = Len(stack) - 1 /\ Len(stack) \in Nat
      /\ \A i \in 1..(Len(stack) - 1) : Pop[i] = stack[i]
  BY <1>0, <1>1, TopOnto
<1>3. j \in 1..Len(stack) /\ stack'[j] = stack[j] /\ j # Len(stack)
      /\ Len(stack') = Len(stack) - 1
  BY <1>1, <1>2
<1>4. AllSafe(j)
  BY <1>3 DEF Safe
<1>5. j = Len(stack')
  BY <1>2, <1>3, <1>4 DEF AllSafe
<1>6. PICK x : x = stack[j].next
  OBVIOUS
<1>7. x = Null \/ \E i \in 1..Len(track') : track'[i] = x
  <2> SUFFICES ASSUME x # Null PROVE \E i \in 1..Len(track') : track'[i] = x
    OBVIOUS
  <2>1. PICK i \in 1..Len(track) : track[i] = x
    BY <1>4, <1>6 DEF AllSafe
  <2>2. pair[Top.cb].addr # pair[x].addr
    BY <1>3, <1>4, <1>6 DEF AllSafe
  <2>3. PICK S : S = {c \in CbId : pair[c].addr = pair[Top.cb].addr}
    OBVIOUS
  <2>4. x \notin S
    BY <2>2, <2>3
  <2>5. PICK t : t = Without(track, S)
    OBVIOUS
  <2>6. /\ t \in Seq(CbId)
        /\ t = track \/ \E m \in 1..Len(track) : track[m] \in S /\ Closed(track, t, m)
    BY <1>0, <2>5, WithoutFacts
  <2>7. ASSUME NEW m \in 1..Len(track), track[m] \in S, Closed(track, t, m)
        PROVE  \E l \in 1..Len(t) : t[l] = x
    <3>1. \A l \in 1..Len(track) : l # m => \E q \in 1..Len(t) : t[q] = track[l]
      BY <1>0, <2>6, <2>7, ClosedKeeps
    <3>2. i # m
      BY <2>1, <2>4, <2>7
    <3> QED
      BY <2>1, <3>1, <3>2, Zenon
  <2>8. \E l \in 1..Len(t) : t[l] = x
    BY <2>1, <2>6, <2>7
  <2> QED
    BY <1>1, <2>3, <2>5, <2>8
<1> QED
  BY <1>3, <1>5, <1>6, <1>7 DEF AllSafe

\* g_attrib_cancel_all finds the pair it looks at next.
LEMMA AllSafeStep ==
    ASSUME Kept, Asking, Safe, Next, Calm', NEW j \in 1..Len(stack'), stack'[j].k = "all"
    PROVE  AllSafe(j)'
<1>0. TypeOK /\ Shape(stack)
  BY DEF Kept
<1>1. stack' \in Seq(Frames) /\ stack' # <<>>
  BY <1>0, TypeStep DEF TypeOK
<1>2. CASE UNCHANGED <<stack, track, pair>> \/ \E id \in Ids : Send(id)
  <2>1. stack' = stack
    BY <1>2 DEF Send
  <2> QED
    BY <1>2, <2>1, AllSame
<1>3. CASE CancelAll
  BY <1>3, AllAlone, AllBegins
<1>4. CASE CancelAllNext
  BY <1>4, UafStep, AllGoesOn
<1>5. CASE ReturnDestroy
  BY <1>5, AllReturns
<1>6. ~CancelAllEnd
  <2> SUFFICES ASSUME CancelAllEnd PROVE FALSE
    OBVIOUS
  <2>1. stack # <<>> /\ Top.k = "all" /\ stack' = Pop
    BY DEF CancelAllEnd, In
  <2>2. /\ Len(Pop) = Len(stack) - 1 /\ Len(stack) \in Nat
        /\ \A i \in 1..(Len(stack) - 1) : Pop[i] = stack[i]
    BY <1>0, <2>1, TopOnto
  <2>3. j \in 1..Len(stack) /\ stack[j].k = "all" /\ j # Len(stack)
    BY <2>1, <2>2
  <2>4. Top.k = "destroy"
    BY <2>3, AllBelow
  <2> QED
    BY <2>1, <2>4
<1>7. OnStack("all") \/ CancelAll \/ CancelAllNext
  <2>1. Was(stack'[j]) \/ New(stack'[j])
    BY <1>0, StackStep DEF From
  <2> QED
    BY <2>1 DEF Was, New, OnStack
<1>8. ASSUME OnStack("all") PROVE stack # <<>> /\ Top.k \in {"all", "destroy"}
  <2>1. PICK m \in 1..Len(stack) : stack[m].k = "all"
    BY <1>8 DEF OnStack
  <2> QED
    BY <2>1, AllBelow
<1>9. ASSUME OnStack("all"), NEW id \in Ids, Cancel(id) PROVE FALSE
  BY <1>9, AllAlone
<1>10. ASSUME ReturnResult \/ Notify \/ WalkEnd \/ ReturnNotify
              \/ (\E match \in BOOLEAN : WalkNext(match))
              \/ (\E held \in BOOLEAN : Result(held))
              \/ Disconnect \/ DisconnectNext \/ DisconnectEnd
       PROVE  stack = <<>> \/ Top.k \notin {"all", "destroy"}
  BY <1>10 DEF ReturnResult, Notify, WalkEnd, ReturnNotify, WalkNext, Result,
               Disconnect, DisconnectNext, DisconnectEnd, In, LoopRuns
<1>11. ASSUME Register \/ UnregisterAll \/ (\E cb \in CbId : Unregister(cb)) \/ Ref
       PROVE  UNCHANGED <<stack, track, pair>>
  BY <1>11 DEF Register, UnregisterAll, Unregister, Ref, queues
<1>12. ASSUME Unref PROVE UNCHANGED <<stack, track, pair>>
  <2>1. alive'
    BY <1>1, EndStep
  <2>2. refs > 1
    BY <1>0, <1>12, <2>1 DEF Unref, alive, ClientRuns, TypeOK
  <2> QED
    BY <1>12, <2>2 DEF Unref, queues
<1>13. ~HandlerEnd
  BY <1>1 DEF HandlerEnd
<1> QED
  BY <1>2, <1>3, <1>4, <1>5, <1>6, <1>7, <1>8, <1>9, <1>10, <1>11, <1>12, <1>13 DEF Next

\* No step of a calm client makes the calls under way unsafe.
LEMMA SafeStep ==
    ASSUME Kept, Asking, Calm => Safe, Next, Calm'
    PROVE  Safe'
<1>1. Safe
  BY CalmStep
<1>2. ~uaf'
  BY <1>1, UafStep
<1>3. ~alive' => (stack' = <<>> /\ ~att')
  BY <1>1, EndStep
<1>4. \A j \in 1..Len(stack') : stack'[j].k = "walk" => WalkSafe(j)'
  BY <1>1, WalkSafeStep
<1>5. \A j \in 1..Len(stack') : stack'[j].k = "all" => AllSafe(j)'
  BY <1>1, AllSafeStep
<1> QED
  BY <1>2, <1>3, <1>4, <1>5 DEF Safe

\* While the client is calm, the walks of the bearer and of g_attrib_cancel_all
\* have an entry to look at.
THEOREM SafeCorrect == Spec => [](Calm => Safe)
<1>1. Init => (Calm => Safe)
  BY DEF Init, Safe, alive
<1>2. Kept /\ Asking /\ (Calm => Safe) /\ [Next]_vars => (Calm => Safe)'
  <2>1. ASSUME Kept, Asking, Calm => Safe, Next PROVE (Calm => Safe)'
    BY <2>1, SafeStep
  <2>2. ASSUME Calm => Safe, UNCHANGED vars PROVE (Calm => Safe)'
    BY <2>2 DEF Calm, Safe, WalkSafe, AllSafe, Top, alive, vars, queues, bearer, history
  <2> QED
    BY <2>1, <2>2
<1> QED
  BY <1>1, <1>2, KeptCorrect, AskingCorrect, PTL DEF Spec

\* No memory of the GAttrib or of the bearer is used after it was freed, for
\* any number of requests, handlers and references and any depth of calls,
\* unless a function of the client does one of the three things that
\* FreedUntouched names.
THEOREM FreedUntouchedCorrect == Spec => []FreedUntouched
<1>1. (Calm => Safe) => FreedUntouched
  BY DEF FreedUntouched, Calm, Safe
<1> QED
  BY <1>1, SafeCorrect, PTL

=============================================================================
