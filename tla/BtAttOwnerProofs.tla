-------------------------- MODULE BtAttOwnerProofs --------------------------
(* Who holds an op: every op of the bearer that was created and not freed   *)
(* is in exactly one place, a queue, a pending slot, the list a flush still *)
(* has to do or the hands of a handler; and a timer runs for exactly the    *)
(* ops that wait for an answer.  From there: what the peer owes, the        *)
(* refinement of AttService, and the write watches, of which none that is   *)
(* needed is missing.  For every number of channels and ops.                *)
EXTENDS BtAttProofs, FiniteSetTheorems

-----------------------------------------------------------------------------
(* The places of an op *)

Wait(o)   == o \in ToSet(reqQ) \/ o \in ToSet(indQ) \/ o \in ToSet(wrQ)
InChan(o) == \E c \in Chan : o \in ToSet(cq[c])
Pend(o)   == \E c \in Chan : pendingReq[c] = o \/ pendingInd[c] = o
Todo(o)   == o \in ToSet(frame.todo)
Hand(o)   == Detached /\ frame.op = o

Nowhere(o) == ~Wait(o) /\ ~InChan(o) /\ ~Pend(o) /\ ~Todo(o) /\ ~Hand(o)

\* Not in two kinds of places at a time.
Alone(o) ==
    /\ Wait(o) => ~InChan(o) /\ ~Pend(o) /\ ~Todo(o) /\ ~Hand(o)
    /\ InChan(o) => ~Pend(o) /\ ~Todo(o) /\ ~Hand(o)
    /\ Pend(o) => ~Todo(o) /\ ~Hand(o)
    /\ Todo(o) => ~Hand(o)

\* How often it was freed, and what that says of its destroy handler.
Counted(o) ==
    /\ frees[o] <= 1
    /\ o \in hs => frees[o] = 0
    /\ o > nops => frees[o] = 0
    /\ o <= nops /\ o \notin hs => dtors[o] >= 1

OnePlace(o) == (Live(o) <=> ~Nowhere(o)) /\ Alone(o) /\ Counted(o)

-----------------------------------------------------------------------------
(* The invariant *)

QDistinct(q) == \A i, j \in 1..Len(q) : q[i] = q[j] => i = j

\* No op is twice in one queue, or pending on two channels.
NoTwice ==
    /\ QDistinct(reqQ) /\ QDistinct(indQ) /\ QDistinct(wrQ)
    /\ QDistinct(frame.todo)
    /\ \A c \in Chan : QDistinct(cq[c])
    /\ \A c, d \in Chan :
           /\ pendingReq[c] = pendingReq[d] /\ pendingReq[c] # NoOp => c = d
           /\ pendingInd[c] = pendingInd[d] /\ pendingInd[c] # NoOp => c = d

\* An op is filed by its type; what is queued on a channel answers a request
\* that came in there.
Filed ==
    /\ \A o \in ToSet(reqQ) : info[o].type = "REQ"
    /\ \A o \in ToSet(indQ) : info[o].type = "IND"
    /\ \A o \in ToSet(wrQ) : info[o].type \notin {"REQ", "IND"}
    /\ \A c \in Chan : \A o \in ToSet(cq[c]) : /\ info[o].type = "RSP"
                                               /\ info[o].ans = c
    /\ \A c \in Chan :
           /\ pendingReq[c] # NoOp => info[pendingReq[c]].type = "REQ"
           /\ pendingInd[c] # NoOp => info[pendingInd[c]].type = "IND"

\* disconnect_cb has detached c and is still flushing it.
Leaving(c) == Flushing /\ frame.c = c

\* A channel that is not attached holds nothing, unless it is being flushed;
\* its pending ops are taken in the last part of the flush.
ChanShape ==
    /\ QDistinct(chans)
    /\ \A c \in Attached : sock[c] \in {"up", "hup", "shut"}
    /\ \A c \in Chan \ Attached :
           /\ Leaving(c) \/ sock[c] \in {"unused", "freed"}
           /\ Leaving(c) \/ cq[c] = <<>>
           /\ \/ Leaving(c) /\ frame.k # "dpend"
              \/ pendingReq[c] = NoOp /\ pendingInd[c] = NoOp
    /\ Flushing => frame.c \notin Attached /\ sock[frame.c] # "unused"

\* The op a handler works on, and where it still is meanwhile.
FrameShape ==
    /\ ~Flushing => frame.todo = <<>>
    /\ frame.k \in {"zero", "timeout"} => frame.op # NoOp
    /\ frame.k = "timeout" => frame.c \in Attached
    /\ frame.k = "rsp" => frame.op = pendingReq[frame.c] /\ frame.op # NoOp
    /\ frame.k = "conf" => frame.op = pendingInd[frame.c] /\ frame.op # NoOp

OwnInv == \A o \in OpId : OnePlace(o)

Owners == Filed /\ NoTwice /\ ChanShape /\ FrameShape /\ OwnInv

-----------------------------------------------------------------------------
(* Queues without repetition *)

\* What the operations on a queue do to the set of its ops.
LEMMA QueueMoves ==
    ASSUME NEW S, NEW q \in Seq(S), QDistinct(q)
    PROVE  /\ ToSet(q) \subseteq S
           /\ q # <<>> => /\ Head(q) \in ToSet(q) /\ QDistinct(Tail(q))
                          /\ ToSet(Tail(q)) = ToSet(q) \ {Head(q)}
           /\ \A k \in 1..Len(q) :
                  /\ q[k] \in ToSet(q) /\ QDistinct(RemoveAt(q, k))
                  /\ ToSet(RemoveAt(q, k)) = ToSet(q) \ {q[k]}
           /\ \A x \in S \ ToSet(q) :
                  /\ QDistinct(Append(q, x)) /\ QDistinct(Cons(x, q))
                  /\ ToSet(Append(q, x)) = ToSet(q) \cup {x}
                  /\ ToSet(Cons(x, q)) = ToSet(q) \cup {x}
<1> USE DEF QDistinct
<1>0. \A s \in Seq(S) : \A x : x \in ToSet(s) <=> \E i \in 1..Len(s) : s[i] = x
  BY DEF ToSet
<1>1. ToSet(q) \subseteq S
  BY <1>0
<1>2. ASSUME q # <<>>
      PROVE  /\ Head(q) \in ToSet(q) /\ QDistinct(Tail(q))
             /\ ToSet(Tail(q)) = ToSet(q) \ {Head(q)}
  <2> DEFINE t == Tail(q)
  <2>1. /\ t \in Seq(S) /\ Len(t) = Len(q) - 1 /\ Len(q) \in Nat
        /\ Len(q) > 0 /\ Head(q) = q[1]
        /\ \A i \in 1..(Len(q) - 1) : t[i] = q[i + 1]
    BY <1>2
  <2> HIDE DEF t
  <2>2. ASSUME NEW x \in ToSet(q) \ {Head(q)} PROVE x \in ToSet(t)
    <3>1. PICK i \in 1..Len(q) : q[i] = x
      BY <1>0
    <3>2. i - 1 \in 1..(Len(q) - 1) /\ (i - 1) + 1 = i
      BY <2>1, <2>2, <3>1
    <3>3. i - 1 \in 1..Len(t) /\ t[i - 1] = x
      BY <2>1, <3>1, <3>2
    <3> QED
      BY <1>0, <2>1, <3>3
  <2>3. ASSUME NEW x \in ToSet(t) PROVE x \in ToSet(q) \ {Head(q)}
    <3>1. PICK j \in 1..(Len(q) - 1) : t[j] = x
      BY <1>0, <2>1
    <3>2. j + 1 \in 1..Len(q) /\ 1 \in 1..Len(q) /\ j + 1 # 1 /\ q[j + 1] = x
      BY <2>1, <3>1
    <3> QED
      BY <1>0, <2>1, <3>2
  <2>4. QDistinct(t)
    BY <2>1
  <2> QED
    BY <1>0, <2>1, <2>2, <2>3, <2>4 DEF t
<1>3. ASSUME NEW k \in 1..Len(q)
      PROVE  /\ q[k] \in ToSet(q) /\ QDistinct(RemoveAt(q, k))
             /\ ToSet(RemoveAt(q, k)) = ToSet(q) \ {q[k]}
  <2> DEFINE r == RemoveAt(q, k)
  <2>1. /\ r \in Seq(S) /\ Len(r) = Len(q) - 1 /\ Len(q) \in Nat
        /\ \A j \in 1..(Len(q) - 1) : r[j] = IF j < k THEN q[j] ELSE q[j + 1]
    BY RemoveAtProperties
  <2> HIDE DEF r
  <2>2. ASSUME NEW x \in ToSet(q) \ {q[k]} PROVE x \in ToSet(r)
    <3>1. PICK i \in 1..Len(q) : q[i] = x
      BY <1>0
    <3>2. CASE i < k
      BY <1>0, <2>1, <3>1, <3>2
    <3>3. CASE i > k
      <4>1. i - 1 \in 1..(Len(q) - 1) /\ (i - 1) + 1 = i /\ ~(i - 1 < k)
        BY <2>1, <3>3
      <4> QED
        BY <1>0, <2>1, <3>1, <4>1
    <3> QED
      BY <2>2, <3>1, <3>2, <3>3
  <2>3. ASSUME NEW x \in ToSet(r) PROVE x \in ToSet(q) \ {q[k]}
    <3>1. PICK j \in 1..(Len(q) - 1) : r[j] = x
      BY <1>0, <2>1
    <3>2. \E i \in 1..Len(q) : i # k /\ q[i] = x
      BY <2>1, <3>1
    <3> QED
      BY <1>0, <3>2
  <2>4. QDistinct(r)
    <3>1. ASSUME NEW i \in 1..(Len(q) - 1), NEW j \in 1..(Len(q) - 1), r[i] = r[j]
          PROVE  i = j
      <4>0. ASSUME NEW x \in 1..(Len(q) - 1)
            PROVE  \E y \in 1..Len(q) : /\ y = (IF x < k THEN x ELSE x + 1)
                                        /\ r[x] = q[y]
        <5>1. CASE x < k
          BY <1>0, <2>1, <5>1
        <5>2. CASE ~(x < k)
          BY <1>0, <2>1, <5>2
        <5> QED
          BY <5>1, <5>2
      <4>1. PICK a \in 1..Len(q) : a = (IF i < k THEN i ELSE i + 1) /\ r[i] = q[a]
        BY <4>0
      <4>2. PICK b \in 1..Len(q) : b = (IF j < k THEN j ELSE j + 1) /\ r[j] = q[b]
        BY <4>0
      <4>3. a = b
        BY <3>1, <4>1, <4>2
      <4> QED
        BY <2>1, <4>1, <4>2, <4>3
    <3> QED
      BY <2>1, <3>1
  <2> QED
    BY <1>0, <2>2, <2>3, <2>4 DEF r
<1>4. ASSUME NEW x \in S \ ToSet(q)
      PROVE  /\ QDistinct(Append(q, x)) /\ QDistinct(Cons(x, q))
             /\ ToSet(Append(q, x)) = ToSet(q) \cup {x}
             /\ ToSet(Cons(x, q)) = ToSet(q) \cup {x}
  <2> DEFINE a == Append(q, x)
             d == Cons(x, q)
  <2>1. /\ a \in Seq(S) /\ Len(a) = Len(q) + 1
        /\ Len(q) \in Nat /\ a[Len(q) + 1] = x
        /\ \A i \in 1..Len(q) : a[i] = q[i]
    OBVIOUS
  <2>2. /\ d \in Seq(S) /\ Len(d) = Len(q) + 1
        /\ d[1] = x
        /\ \A i \in 1..Len(q) : d[i + 1] = q[i]
    BY DEF Cons
  <2> HIDE DEF a, d
  <2>3. QDistinct(a)
    BY <1>0, <2>1
  <2>4. QDistinct(d)
    <3>1. \A i \in 2..(Len(q) + 1) : d[i] = q[i - 1] /\ i - 1 \in 1..Len(q)
      <4> TAKE i \in 2..(Len(q) + 1)
      <4>1. i - 1 \in 1..Len(q) /\ (i - 1) + 1 = i
        BY <2>1
      <4> QED
        BY <2>2, <4>1
    <3> SUFFICES ASSUME NEW i \in 1..(Len(q) + 1), NEW j \in 1..(Len(q) + 1),
                        d[i] = d[j], i < j
                 PROVE  FALSE
      BY <2>1, <2>2
    <3>2. j \in 2..(Len(q) + 1) /\ (i = 1 \/ i \in 2..(Len(q) + 1))
      BY <2>1
    <3>3. d[j] \in ToSet(q)
      BY <1>0, <3>1, <3>2
    <3>4. i # 1
      BY <2>2, <3>3
    <3>5. q[i - 1] = q[j - 1] /\ i - 1 # j - 1
      BY <2>1, <3>1, <3>2, <3>4
    <3> QED
      BY <3>1, <3>2, <3>4, <3>5
  <2>5. ToSet(a) = ToSet(q) \cup {x}
    <3>1. ASSUME NEW y \in ToSet(a) PROVE y \in ToSet(q) \cup {x}
      <4>1. PICK i \in 1..(Len(q) + 1) : a[i] = y
        BY <1>0, <2>1
      <4>2. i = Len(q) + 1 \/ i \in 1..Len(q)
        BY <2>1
      <4> QED
        BY <1>0, <2>1, <4>1, <4>2
    <3>2. ASSUME NEW y \in ToSet(q) \cup {x} PROVE y \in ToSet(a)
      <4>1. /\ Len(q) + 1 \in 1..Len(a)
            /\ \A i \in 1..Len(q) : i \in 1..Len(a)
        BY <2>1
      <4> QED
        BY <1>0, <2>1, <4>1
    <3> QED
      BY <3>1, <3>2
  <2>6. ToSet(d) = ToSet(q) \cup {x}
    <3>1. ASSUME NEW y \in ToSet(d) PROVE y \in ToSet(q) \cup {x}
      <4>1. PICK i \in 1..(Len(q) + 1) : d[i] = y
        BY <1>0, <2>2
      <4>2. i = 1 \/ (i - 1 \in 1..Len(q) /\ (i - 1) + 1 = i)
        BY <2>1
      <4>3. CASE i - 1 \in 1..Len(q) /\ (i - 1) + 1 = i
        <5>1. q[i - 1] = y
          BY <2>2, <4>1, <4>3
        <5> QED
          BY <1>0, <4>3, <5>1
      <4> QED
        BY <2>2, <4>1, <4>2, <4>3
    <3>2. ASSUME NEW y \in ToSet(q) \cup {x} PROVE y \in ToSet(d)
      <4>1. 1 \in 1..(Len(q) + 1) /\ \A i \in 1..Len(q) : i + 1 \in 1..(Len(q) + 1)
        BY <2>1
      <4>2. CASE y = x
        BY <1>0, <2>2, <4>1, <4>2
      <4>3. CASE y \in ToSet(q)
        <5>1. PICK i \in 1..Len(q) : q[i] = y
          BY <1>0, <4>3
        <5>2. d[i + 1] = y /\ i + 1 \in 1..(Len(q) + 1)
          BY <2>2, <4>1, <5>1
        <5> QED
          BY <1>0, <2>2, <5>2
      <4> QED
        BY <3>2, <4>2, <4>3
    <3> QED
      BY <3>1, <3>2
  <2> QED
    BY <2>3, <2>4, <2>5, <2>6 DEF a, d
<1> QED
  BY <1>1, <1>2, <1>3, <1>4

\* The empty queue.
LEMMA QueueEmpty == QDistinct(<<>>) /\ ToSet(<<>>) = {}
  BY DEF QDistinct, ToSet

-----------------------------------------------------------------------------
(* What a step does to the places: nothing, or one of four things *)

\* An op stays in its kind of place.
Stays(o) == /\ Wait(o)' <=> Wait(o)
            /\ InChan(o)' <=> InChan(o)
            /\ Pend(o)' <=> Pend(o)
            /\ Todo(o)' <=> Todo(o)
            /\ Hand(o)' <=> Hand(o)

\* It is in exactly one kind of place.
InOne(o) == ~Nowhere(o) /\ Alone(o)

\* The queues and the pending slots are left alone.
SamePlaces == UNCHANGED <<reqQ, indQ, wrQ, cq, pendingReq, pendingInd, info>>

\* The handlers without a list of ops and without a detached op.
Calm == frame.todo = <<>> /\ ~Detached

\* Nothing moves, and the handler that runs does not take an op either.
LEMMA OwnSame ==
    ASSUME Filed, NoTwice, OwnInv, SamePlaces,
           UNCHANGED <<hs, dtors, frees, nops>>,
           UNCHANGED frame \/ (Calm /\ Calm')
    PROVE  Filed' /\ NoTwice' /\ OwnInv'
<1> USE DEF SamePlaces
<1>1. Filed'
  BY DEF Filed
<1>2. frame'.todo = frame.todo
  BY DEF Calm
<1>3. NoTwice'
  BY <1>2 DEF NoTwice, QDistinct
<1>4. ASSUME NEW o \in OpId PROVE Stays(o)
  <2>1. Hand(o)' <=> Hand(o)
    BY DEF Hand, Calm, Detached
  <2> QED
    BY <1>2, <2>1 DEF Stays, Wait, InChan, Pend, Todo
<1>5. OwnInv'
  BY <1>4 DEF OwnInv, OnePlace, Live, Nowhere, Alone, Counted, Stays, OpId
<1> QED
  BY <1>1, <1>3, <1>5

\* Ops move from one kind of place to another.
LEMMA OwnMove ==
    ASSUME OwnInv, UNCHANGED <<hs, dtors, frees, nops>>,
           \A o \in OpId : Stays(o) \/ (~Nowhere(o) /\ InOne(o)')
    PROVE  OwnInv'
<1> SUFFICES ASSUME NEW o \in OpId
             PROVE  OnePlace(o)'
  BY DEF OwnInv, OpId
<1>1. Counted(o)' /\ (Live(o)' <=> Live(o))
  BY DEF OwnInv, OnePlace, Counted, Live
<1>2. CASE Stays(o)
  BY <1>1, <1>2 DEF OwnInv, OnePlace, Nowhere, Alone, Stays
<1>3. CASE ~Nowhere(o) /\ InOne(o)'
  BY <1>1, <1>3 DEF OwnInv, OnePlace, InOne
<1> QED
  BY <1>2, <1>3

\* The ops of D lose their handlers, and those of S are freed.
LEMMA OwnGone ==
    ASSUME TypeOK, HandlerInv, OwnInv, NEW S, NEW D, S \subseteq D,
           frees' = Plus(frees, S), NEW A \in SUBSET (D \cap hs),
           RunDestroy(D, A), UNCHANGED nops,
           \A o \in D : o \in OpId => ~Nowhere(o),
           \A o \in OpId : IF o \in S THEN Nowhere(o)' ELSE Stays(o)
    PROVE  OwnInv'
<1> SUFFICES ASSUME NEW o \in OpId
             PROVE  OnePlace(o)'
  BY DEF OwnInv, OpId
<1>0. frees[o] \in Nat /\ dtors[o] \in Nat /\ nops \in Nat /\ o \in Nat
  <2>1. frees \in [OpId -> Nat] /\ dtors \in [OpId -> Nat] /\ nops \in 0..MaxOp
    BY DEF TypeOK
  <2> QED
    BY <2>1 DEF OpId
<1>1. /\ frees'[o] = IF o \in S THEN frees[o] + 1 ELSE frees[o]
      /\ IF o \in D \cap hs THEN dtors'[o] >= 1 ELSE dtors'[o] = dtors[o]
      /\ hs' = hs \ D
  BY <1>0 DEF Plus, RunDestroy
<1>2. o \in D => Live(o)
  BY DEF OwnInv, OnePlace
<1>3. Counted(o)'
  BY <1>0, <1>1, <1>2
     DEF OwnInv, OnePlace, Counted, Live, HandlerInv, HandlerOK
<1>4. CASE o \in S
  <2>1. ~Live(o)'
    BY <1>0, <1>1, <1>4 DEF Live
  <2> QED
    BY <1>3, <1>4, <2>1 DEF OnePlace, Nowhere, Alone
<1>5. CASE o \notin S
  <2>1. Live(o)' <=> Live(o)
    BY <1>1, <1>5 DEF Live
  <2> QED
    BY <1>3, <1>5, <2>1 DEF OwnInv, OnePlace, Nowhere, Alone, Stays
<1> QED
  BY <1>4, <1>5

\* Ops are destroyed.
LEMMA OwnDestroy ==
    ASSUME TypeOK, HandlerInv, OwnInv, NEW S, Destroy(S), UNCHANGED nops,
           \A o \in S : o \in OpId => ~Nowhere(o),
           \A o \in OpId : IF o \in S THEN Nowhere(o)' ELSE Stays(o)
    PROVE  OwnInv'
<1>1. RunDestroy(S, {})
  BY DestroyRuns DEF Destroy
<1>2. {} \in SUBSET (S \cap hs) /\ S \subseteq S
  OBVIOUS
<1>3. frees' = Plus(frees, S)
  BY DEF Destroy
<1> QED
  BY <1>1, <1>2, <1>3, OwnGone

\* The op that was pending is destroyed.
LEMMA OwnEnd ==
    ASSUME TypeOK, HandlerInv, OwnInv, NEW x, DestroyPending(x), UNCHANGED nops,
           x \in OpId => ~Nowhere(x),
           \A o \in OpId : IF o = x THEN Nowhere(o)' ELSE Stays(o)
    PROVE  OwnInv'
<1> DEFINE S == {x}
<1>1. PICK A \in SUBSET (S \cap hs) : RunDestroy(S, A)
  BY DEF DestroyPending
<1>2. /\ frees' = Plus(frees, S) /\ S \subseteq S
      /\ \A o \in S : o \in OpId => ~Nowhere(o)
      /\ \A o \in OpId : IF o \in S THEN Nowhere(o)' ELSE Stays(o)
  BY DEF DestroyPending
<1> HIDE DEF S
<1> QED
  BY <1>1, <1>2, OwnGone

\* An op is created and filed.
LEMMA OwnCreate ==
    ASSUME TypeOK, OwnInv, NEW t, NEW oc, NEW len, NEW id, NEW ans,
           CreateOp(t, oc, len, id, ans), UNCHANGED <<dtors, frees>>,
           NEW n, n = nops + 1, InOne(n)',
           \A o \in OpId : o # n => Stays(o)
    PROVE  OwnInv'
<1> SUFFICES ASSUME NEW o \in OpId
             PROVE  OnePlace(o)'
  BY DEF OwnInv, OpId
<1>1. nops' = nops + 1 /\ hs' = hs \cup {nops + 1} /\ nops \in Nat /\ o \in Nat
  BY DEF CreateOp, TypeOK, OpId
<1>2. Counted(o)'
  BY <1>1 DEF OwnInv, OnePlace, Counted
<1>3. CASE o = n
  <2>1. Live(o)'
    BY <1>1, <1>3 DEF Live, OwnInv, OnePlace, Counted
  <2> QED
    BY <1>1, <1>2, <1>3, <2>1 DEF OnePlace, InOne
<1>4. CASE o # n
  <2>1. Live(o)' <=> Live(o)
    BY <1>1, <1>4 DEF Live
  <2> QED
    BY <1>2, <1>4, <2>1 DEF OwnInv, OnePlace, Nowhere, Alone, Stays
<1> QED
  BY <1>3, <1>4

\* The channels stay attached or detached, and the sockets of those that are
\* attached stay in use.
LEMMA ChanSame ==
    ASSUME TypeOK, ChanShape,
           UNCHANGED <<chans, cq, pendingReq, pendingInd>>,
           \A c \in Chan : \/ sock'[c] = sock[c]
                           \/ c \in Attached /\ sock'[c] \in {"up", "hup", "shut"},
           \/ UNCHANGED frame
           \/ ~Flushing /\ ~Flushing'
    PROVE  ChanShape'
<1>1. Attached' = Attached
  BY DEF Attached
<1>2. \A c \in Chan : /\ Leaving(c)' <=> Leaving(c)
                      /\ Leaving(c) => frame' = frame
  BY DEF Leaving, Flushing
<1>3. Flushing' => frame'.c \notin Attached /\ sock'[frame'.c] # "unused"
  BY FrameFields DEF ChanShape, Flushing
<1> QED
  BY <1>1, <1>2, <1>3, AttachedType DEF ChanShape, QDistinct

-----------------------------------------------------------------------------
(* An op is created *)

\* What is queued, pending or in the hands of a handler is an op.
LEMMA PlaceType ==
    ASSUME TypeOK, NEW o
    PROVE  Wait(o) \/ InChan(o) \/ Todo(o) => o \in OpId
<1>1. \A q \in Seq(OpId) : ToSet(q) \subseteq OpId
  BY DEF ToSet
<1> QED
  BY <1>1, FrameFields DEF Wait, InChan, Todo, TypeOK

\* An op that does not exist yet is nowhere, and the fields of the others stay
\* when it is created.
LEMMA NewOp ==
    ASSUME Inv, Owners, NEW t, NEW oc, NEW len, NEW id, NEW ans,
           CreateOp(t, oc, len, id, ans)
    PROVE  \E n \in OpId : /\ n = nops + 1 /\ Nowhere(n)
                           /\ info'[n].type = t /\ info'[n].ans = ans
                           /\ \A o \in OpId : o # n => info'[o] = info[o]
<1>1. nops' = nops + 1 /\ nops + 1 \in OpId
  BY CreateKnown DEF Inv
<1>2. PICK n \in OpId : n = nops + 1
  BY <1>1
<1>3. nops \in Nat /\ info \in [OpId -> OpInfo]
  BY DEF Inv, TypeOK
<1>4. ~Live(n)
  BY <1>2, <1>3 DEF Live
<1>5. Nowhere(n)
  BY <1>4 DEF Owners, OwnInv, OnePlace
<1>6. /\ info'[n].type = t /\ info'[n].ans = ans
      /\ \A o \in OpId : o # n => info'[o] = info[o]
  BY <1>2, <1>3 DEF CreateOp
<1> QED
  BY <1>2, <1>5, <1>6

\* bt_att_send: the new op goes to the queue of its type.
LEMMA OwnersSend ==
    ASSUME Inv, Owners, NEW t, NEW oc, NEW len, NEW ans,
           SendOp(t, oc, len, ans),
           UNCHANGED <<cq, pendingReq, pendingInd, frame, sock, chans, dtors,
                       frees>>
    PROVE  Owners'
<1>1. PICK n \in OpId : /\ n = nops + 1 /\ Nowhere(n)
                        /\ info'[n].type = t
                        /\ \A o \in OpId : o # n => info'[o] = info[o]
  BY NewOp DEF SendOp
<1>2. /\ reqQ \in Seq(OpId) /\ indQ \in Seq(OpId) /\ wrQ \in Seq(OpId)
      /\ QDistinct(reqQ) /\ QDistinct(indQ) /\ QDistinct(wrQ)
  BY DEF Inv, TypeOK, Owners, NoTwice
<1>3. n \notin ToSet(reqQ) /\ n \notin ToSet(indQ) /\ n \notin ToSet(wrQ)
  BY <1>1 DEF Nowhere, Wait
<1>4. /\ QDistinct(reqQ')
      /\ ToSet(reqQ') = ToSet(reqQ) \cup (IF t = "REQ" THEN {n} ELSE {})
  BY <1>1, <1>2, <1>3, QueueMoves DEF SendOp
<1>5. /\ QDistinct(indQ')
      /\ ToSet(indQ') = ToSet(indQ) \cup (IF t = "IND" THEN {n} ELSE {})
  BY <1>1, <1>2, <1>3, QueueMoves DEF SendOp
<1>6. /\ QDistinct(wrQ')
      /\ ToSet(wrQ') = ToSet(wrQ) \cup (IF t \notin {"REQ", "IND"} THEN {n} ELSE {})
  BY <1>1, <1>2, <1>3, QueueMoves DEF SendOp
<1>7. NoTwice'
  BY <1>4, <1>5, <1>6 DEF Owners, NoTwice, QDistinct
<1>8. /\ \A c \in Chan : \A o \in ToSet(cq[c]) : o \in OpId /\ o # n
      /\ \A c \in Chan : /\ pendingReq[c] # n /\ pendingInd[c] # n
                         /\ pendingReq[c] # NoOp => pendingReq[c] \in OpId
                         /\ pendingInd[c] # NoOp => pendingInd[c] \in OpId
      /\ ToSet(reqQ) \subseteq OpId /\ ToSet(indQ) \subseteq OpId
      /\ ToSet(wrQ) \subseteq OpId
  BY <1>1, PlaceType DEF Nowhere, InChan, Pend, Wait, Inv, TypeOK
<1>9. Filed'
  <2>1. ASSUME NEW o \in ToSet(reqQ')
        PROVE  info'[o].type = "REQ"
    <3>1. CASE o = n
      BY <1>1, <1>3, <1>4, <3>1
    <3>2. CASE o # n
      <4>1. o \in ToSet(reqQ) /\ o \in OpId
        BY <1>4, <1>8, <3>2
      <4> QED
        BY <1>1, <3>2, <4>1 DEF Owners, Filed
    <3> QED
      BY <3>1, <3>2
  <2>5. ASSUME NEW o \in ToSet(indQ')
        PROVE  info'[o].type = "IND"
    <3>1. CASE o = n
      BY <1>1, <1>3, <1>5, <3>1
    <3>2. CASE o # n
      <4>1. o \in ToSet(indQ) /\ o \in OpId
        BY <1>5, <1>8, <3>2
      <4> QED
        BY <1>1, <3>2, <4>1 DEF Owners, Filed
    <3> QED
      BY <3>1, <3>2
  <2>2. ASSUME NEW o \in ToSet(wrQ')
        PROVE  info'[o].type \notin {"REQ", "IND"}
    <3>1. CASE o = n
      BY <1>1, <1>3, <1>6, <3>1
    <3>2. CASE o # n
      <4>1. o \in ToSet(wrQ) /\ o \in OpId
        BY <1>6, <1>8, <3>2
      <4> QED
        BY <1>1, <3>2, <4>1 DEF Owners, Filed
    <3> QED
      BY <3>1, <3>2
  <2>3. ASSUME NEW c \in Chan, NEW o \in ToSet(cq[c])
        PROVE  info'[o].type = "RSP" /\ info'[o].ans = c
    <3>1. info'[o] = info[o]
      BY <1>1, <1>8
    <3> QED
      BY <3>1 DEF Owners, Filed
  <2>4. ASSUME NEW c \in Chan
        PROVE  /\ pendingReq[c] # NoOp => info'[pendingReq[c]].type = "REQ"
               /\ pendingInd[c] # NoOp => info'[pendingInd[c]].type = "IND"
    <3>1. /\ pendingReq[c] # NoOp => info'[pendingReq[c]] = info[pendingReq[c]]
          /\ pendingInd[c] # NoOp => info'[pendingInd[c]] = info[pendingInd[c]]
      BY <1>1, <1>8
    <3> QED
      BY <3>1 DEF Owners, Filed
  <2> QED
    BY <2>1, <2>2, <2>3, <2>4, <2>5 DEF Filed
<1>10. \A o \in OpId : o # n => Stays(o)
  BY <1>4, <1>5, <1>6 DEF Stays, Wait, InChan, Pend, Todo, Hand, Detached
<1>11. InOne(n)'
  BY <1>1, <1>4, <1>5, <1>6
     DEF InOne, Nowhere, Alone, Wait, InChan, Pend, Todo, Hand, Detached
<1>12. OwnInv'
  BY <1>1, <1>10, <1>11, OwnCreate DEF Inv, Owners, SendOp
<1>13. ChanShape'
  BY ChanSame DEF Inv, Owners
<1>14. FrameShape'
  BY DEF Owners, FrameShape, Flushing, Attached
<1> QED
  BY <1>7, <1>9, <1>12, <1>13, <1>14 DEF Owners

\* bt_att_chan_send: the answer goes to the queue of its channel.
LEMMA OwnersChanSend ==
    ASSUME Inv, Owners, NEW c \in Chan, NEW len, ChanSendRsp(c, len)
    PROVE  Owners'
<1> USE DEF attVars, queues, opVars, chanCfg, peer, history
<1>1. PICK n \in OpId : /\ n = nops + 1 /\ Nowhere(n)
                        /\ info'[n].type = "RSP" /\ info'[n].ans = c
                        /\ \A o \in OpId : o # n => info'[o] = info[o]
  BY NewOp DEF ChanSendRsp
<1>2. /\ UNCHANGED <<reqQ, indQ, wrQ, pendingReq, pendingInd, frame, sock,
                     chans, dtors, frees>>
      /\ c \in Attached
      /\ cq' = [cq EXCEPT ![c] = Append(@, n)]
  BY <1>1 DEF ChanSendRsp
<1>3. cq \in [Chan -> Seq(OpId)] /\ \A d \in Chan : QDistinct(cq[d])
  BY DEF Inv, TypeOK, Owners, NoTwice
<1>4. \A d \in Chan : n \notin ToSet(cq[d])
  BY <1>1 DEF Nowhere, InChan
<1>5. ASSUME NEW d \in Chan
      PROVE  /\ QDistinct(cq'[d])
             /\ ToSet(cq'[d]) = ToSet(cq[d]) \cup (IF d = c THEN {n} ELSE {})
  BY <1>1, <1>2, <1>3, <1>4, QueueMoves
<1>6. NoTwice'
  BY <1>2, <1>5 DEF Owners, NoTwice, QDistinct
<1>7. /\ \A d \in Chan : \A o \in ToSet(cq[d]) : o \in OpId /\ o # n
      /\ \A d \in Chan : /\ pendingReq[d] # n /\ pendingInd[d] # n
                         /\ pendingReq[d] # NoOp => pendingReq[d] \in OpId
                         /\ pendingInd[d] # NoOp => pendingInd[d] \in OpId
      /\ \A o : o \in ToSet(reqQ) \/ o \in ToSet(indQ) \/ o \in ToSet(wrQ)
                    => o \in OpId /\ o # n
  BY <1>1, PlaceType DEF Nowhere, InChan, Pend, Wait, Inv, TypeOK
<1>8. Filed'
  BY <1>1, <1>2, <1>5, <1>7 DEF Owners, Filed
<1>9. \A o \in OpId : o # n => Stays(o)
  BY <1>2, <1>5 DEF Stays, Wait, InChan, Pend, Todo, Hand, Detached
<1>10. InOne(n)'
  BY <1>1, <1>2, <1>5
     DEF InOne, Nowhere, Alone, Wait, InChan, Pend, Todo, Hand, Detached
<1>11. OwnInv'
  BY <1>1, <1>2, <1>9, <1>10, OwnCreate DEF Inv, Owners, ChanSendRsp
<1>12. ChanShape'
  <2>1. Attached' = Attached /\ \A d \in Chan \ Attached : cq'[d] = cq[d]
    BY <1>2, <1>3 DEF Attached
  <2> QED
    BY <1>2, <2>1 DEF Owners, ChanShape, QDistinct, Leaving, Flushing
<1>13. FrameShape'
  BY <1>2 DEF Owners, FrameShape, Flushing, Attached
<1> QED
  BY <1>6, <1>8, <1>11, <1>12, <1>13 DEF Owners

-----------------------------------------------------------------------------
(* Cancellation *)

\* The queues lose ops and gain none.
Shrunk ==
    /\ QDistinct(reqQ') /\ ToSet(reqQ') \subseteq ToSet(reqQ)
    /\ QDistinct(indQ') /\ ToSet(indQ') \subseteq ToSet(indQ)
    /\ QDistinct(wrQ') /\ ToSet(wrQ') \subseteq ToSet(wrQ)
    /\ \A c \in Chan : /\ QDistinct(cq'[c])
                       /\ ToSet(cq'[c]) \subseteq ToSet(cq[c])

\* Then what is left is filed as it was, in no place twice.
LEMMA ShrunkFiled ==
    ASSUME Filed, NoTwice, Shrunk, UNCHANGED <<info, pendingReq, pendingInd>>,
           QDistinct(frame'.todo)
    PROVE  Filed' /\ NoTwice'
<1>1. Filed'
  BY DEF Filed, Shrunk
<1>2. NoTwice'
  BY DEF NoTwice, Shrunk, QDistinct
<1> QED
  BY <1>1, <1>2

\* Queues that are left alone, or lose one op, or all, have shrunk.
LEMMA ShrunkQueues ==
    ASSUME Inv, Owners
    PROVE  /\ \A q \in {reqQ, indQ, wrQ} :
                  /\ q \in Seq(OpId) /\ QDistinct(q)
                  /\ \A i \in 1..Len(q) : q[i] \in OpId /\ Wait(q[i])
           /\ \A c \in Chan : cq[c] \in Seq(OpId) /\ QDistinct(cq[c])
           /\ ToSet(reqQ) \cap ToSet(indQ) = {}
           /\ ToSet(reqQ) \cap ToSet(wrQ) = {}
           /\ ToSet(indQ) \cap ToSet(wrQ) = {}
<1>1. /\ \A q \in {reqQ, indQ, wrQ} : q \in Seq(OpId) /\ QDistinct(q)
      /\ \A c \in Chan : cq[c] \in Seq(OpId) /\ QDistinct(cq[c])
  BY DEF Inv, TypeOK, Owners, NoTwice
<1>2. \A q \in {reqQ, indQ, wrQ} :
          \A i \in 1..Len(q) : q[i] \in OpId /\ Wait(q[i])
  BY <1>1, QueueMoves DEF Wait
<1>3. /\ ToSet(reqQ) \cap ToSet(indQ) = {}
      /\ ToSet(reqQ) \cap ToSet(wrQ) = {}
      /\ ToSet(indQ) \cap ToSet(wrQ) = {}
  BY DEF Owners, Filed
<1> QED
  BY <1>1, <1>2, <1>3

\* An op is taken off a shared queue and destroyed.
LEMMA OwnersCut ==
    ASSUME Inv, Owners, NEW x \in OpId, Destroy({x}), Wait(x),
           UNCHANGED <<cq, pendingReq, pendingInd, frame, sock, chans, info, nops>>,
           QDistinct(reqQ'), QDistinct(indQ'), QDistinct(wrQ'),
           ToSet(reqQ') = ToSet(reqQ) \ {x}, ToSet(indQ') = ToSet(indQ) \ {x},
           ToSet(wrQ') = ToSet(wrQ) \ {x}
    PROVE  Owners'
<1>1. Shrunk
  BY DEF Shrunk, Owners, NoTwice
<1>2. Filed' /\ NoTwice'
  BY <1>1, ShrunkFiled DEF Owners, NoTwice
<1>3. \A o \in OpId : o # x => Stays(o)
  BY DEF Stays, Wait, InChan, Pend, Todo, Hand, Detached
<1>4. ~Nowhere(x) /\ Nowhere(x)'
  BY DEF Owners, OwnInv, OnePlace, Alone, Nowhere, Wait, InChan, Pend, Todo,
         Hand, Detached
<1>5. OwnInv'
  BY <1>3, <1>4, OwnDestroy DEF Inv, Owners
<1>6. ChanShape'
  BY ChanSame DEF Inv, Owners
<1>7. FrameShape'
  BY DEF Owners, FrameShape, Flushing, Attached
<1> QED
  BY <1>2, <1>5, <1>6, <1>7 DEF Owners

\* bt_att_cancel: a pending op loses its handlers, a queued one is destroyed.
LEMMA OwnersCancel ==
    ASSUME Inv, Owners, NEW id, Cancel(id)
    PROVE  Owners'
<1> USE DEF attVars, queues, opVars, chanCfg, peer, history
<1>1. UNCHANGED <<pendingReq, pendingInd, frame, sock, chans, info, nops>>
  BY DEF Cancel
<1>2. ASSUME NEW c \in Attached, NEW o \in OpId,
             o \in {pendingReq[c], pendingInd[c]}, CancelPending(o)
      PROVE  Owners'
  <2>1. UNCHANGED <<reqQ, indQ, wrQ, cq, frees>>
    BY <1>2 DEF CancelPending
  <2>2. \A x \in OpId : Stays(x)
    BY <1>1, <2>1 DEF Stays, Wait, InChan, Pend, Todo, Hand, Detached
  <2>3. ~Nowhere(o)
    BY <1>2, AttachedType DEF Nowhere, Pend, Inv
  <2>4. frees' = Plus(frees, {})
    BY <2>1 DEF Plus, Inv, TypeOK
  <2>5. OwnInv'
    <3> DEFINE S == {}
               D == {o}
    <3>1. PICK A \in SUBSET (D \cap hs) : RunDestroy(D, A)
      BY <1>2 DEF CancelPending
    <3>2. /\ S \subseteq D /\ frees' = Plus(frees, S)
          /\ \A x \in D : x \in OpId => ~Nowhere(x)
          /\ \A x \in OpId : IF x \in S THEN Nowhere(x)' ELSE Stays(x)
      BY <2>1, <2>2, <2>3, <2>4
    <3> HIDE DEF S, D
    <3> QED
      BY <1>1, <3>1, <3>2, OwnGone DEF Inv, Owners
  <2>6. Filed' /\ NoTwice'
    BY <1>1, <2>1 DEF Owners, Filed, NoTwice, QDistinct
  <2>7. ChanShape' /\ FrameShape'
    BY <1>1, <2>1, ChanSame
       DEF Inv, Owners, FrameShape, Flushing, Attached
  <2> QED
    BY <2>5, <2>6, <2>7 DEF Owners
<1>3. ASSUME NEW i \in 1..Len(reqQ), CancelQueued(reqQ[i]),
             reqQ' = RemoveAt(reqQ, i), UNCHANGED <<indQ, wrQ, cq>>
      PROVE  Owners'
  <2>1. PICK x \in OpId : x = reqQ[i] /\ Wait(x)
    BY ShrunkQueues
  <2>2. x \in ToSet(reqQ) /\ ToSet(reqQ') = ToSet(reqQ) \ {x} /\ QDistinct(reqQ')
    BY <1>3, <2>1, ShrunkQueues, QueueMoves
  <2>3. /\ ToSet(indQ') = ToSet(indQ) \ {x} /\ QDistinct(indQ')
        /\ ToSet(wrQ') = ToSet(wrQ) \ {x} /\ QDistinct(wrQ')
    BY <1>3, <2>2, ShrunkQueues
  <2> QED
    BY <1>1, <1>3, <2>1, <2>2, <2>3, OwnersCut DEF CancelQueued
<1>4. ASSUME NEW i \in 1..Len(indQ), CancelQueued(indQ[i]),
             indQ' = RemoveAt(indQ, i), UNCHANGED <<reqQ, wrQ, cq>>
      PROVE  Owners'
  <2>1. PICK x \in OpId : x = indQ[i] /\ Wait(x)
    BY ShrunkQueues
  <2>2. x \in ToSet(indQ) /\ ToSet(indQ') = ToSet(indQ) \ {x} /\ QDistinct(indQ')
    BY <1>4, <2>1, ShrunkQueues, QueueMoves
  <2>3. /\ ToSet(reqQ') = ToSet(reqQ) \ {x} /\ QDistinct(reqQ')
        /\ ToSet(wrQ') = ToSet(wrQ) \ {x} /\ QDistinct(wrQ')
    BY <1>4, <2>2, ShrunkQueues
  <2> QED
    BY <1>1, <1>4, <2>1, <2>2, <2>3, OwnersCut DEF CancelQueued
<1>5. ASSUME NEW i \in 1..Len(wrQ), CancelQueued(wrQ[i]),
             wrQ' = RemoveAt(wrQ, i), UNCHANGED <<reqQ, indQ, cq>>
      PROVE  Owners'
  <2>1. PICK x \in OpId : x = wrQ[i] /\ Wait(x)
    BY ShrunkQueues
  <2>2. x \in ToSet(wrQ) /\ ToSet(wrQ') = ToSet(wrQ) \ {x} /\ QDistinct(wrQ')
    BY <1>5, <2>1, ShrunkQueues, QueueMoves
  <2>3. /\ ToSet(reqQ') = ToSet(reqQ) \ {x} /\ QDistinct(reqQ')
        /\ ToSet(indQ') = ToSet(indQ) \ {x} /\ QDistinct(indQ')
    BY <1>5, <2>2, ShrunkQueues
  <2> QED
    BY <1>1, <1>5, <2>1, <2>2, <2>3, OwnersCut DEF CancelQueued
<1> QED
  BY <1>2, <1>3, <1>4, <1>5 DEF Cancel

\* bt_att_cancel_all: the shared queues are destroyed, the pending ops lose
\* their handlers.
LEMMA OwnersCancelAll ==
    ASSUME Inv, Owners, CancelAll
    PROVE  Owners'
<1> USE DEF attVars, queues, opVars, chanCfg, peer, history
<1>1. /\ UNCHANGED <<cq, pendingReq, pendingInd, frame, sock, chans, info, nops>>
      /\ reqQ' = <<>> /\ indQ' = <<>> /\ wrQ' = <<>>
  BY DEF CancelAll
<1>2. Filed' /\ NoTwice'
  <2>1. Shrunk
    BY <1>1, QueueEmpty DEF Shrunk, Owners, NoTwice
  <2> QED
    BY <1>1, <2>1, ShrunkFiled DEF Owners, NoTwice
<1>3. ASSUME NEW o \in OpId
      PROVE  /\ o \in QueuedOps \cup PendingOps => ~Nowhere(o)
             /\ IF o \in QueuedOps THEN Nowhere(o)' ELSE Stays(o)
  <2>1. o \in QueuedOps <=> Wait(o)
    BY DEF QueuedOps, Wait
  <2>2. o \in PendingOps => Pend(o)
    BY AttachedType DEF PendingOps, Pend, Inv
  <2>3. ~Wait(o)'
    BY <1>1, QueueEmpty DEF Wait
  <2>4. /\ InChan(o)' <=> InChan(o)
        /\ Pend(o)' <=> Pend(o)
        /\ Todo(o)' <=> Todo(o)
        /\ Hand(o)' <=> Hand(o)
    BY <1>1 DEF InChan, Pend, Todo, Hand, Detached
  <2> QED
    BY <2>1, <2>2, <2>3, <2>4 DEF Owners, OwnInv, OnePlace, Alone, Nowhere, Stays
<1>4. OwnInv'
  <2> DEFINE S == QueuedOps
             D == QueuedOps \cup PendingOps
  <2>1. /\ S \subseteq D /\ frees' = Plus(frees, S) /\ UNCHANGED nops
    BY <1>1 DEF CancelAll
  <2>3. PICK A \in SUBSET (D \cap hs) : RunDestroy(D, A)
    BY DEF CancelAll
  <2>2. /\ \A o \in D : o \in OpId => ~Nowhere(o)
        /\ \A o \in OpId : IF o \in S THEN Nowhere(o)' ELSE Stays(o)
    BY <1>3
  <2> HIDE DEF S, D
  <2> QED
    BY <2>1, <2>2, <2>3, OwnGone DEF Inv, Owners
<1>5. ChanShape' /\ FrameShape'
  BY <1>1, ChanSame
     DEF Inv, Owners, FrameShape, Flushing, Attached
<1> QED
  BY <1>2, <1>4, <1>5 DEF Owners

-----------------------------------------------------------------------------
(* The end of the bearer *)

\* When no handler works on an op, bt_att_free finds every op there is.
LEMMA HeldIsAll ==
    ASSUME Inv, Owners, frame.k \in {"idle", "exit"}
    PROVE  /\ \A o \in OpId : o \in HeldOps <=> ~Nowhere(o)
           /\ \A c \in Chan \ Attached : /\ cq[c] = <<>>
                                         /\ pendingReq[c] = NoOp
                                         /\ pendingInd[c] = NoOp
                                         /\ sock[c] \in {"unused", "freed"}
<1>1. ~Flushing /\ ~Detached /\ frame.todo = <<>>
  BY DEF Flushing, Detached, Owners, FrameShape
<1>2. \A c \in Chan \ Attached : /\ cq[c] = <<>>
                                 /\ pendingReq[c] = NoOp /\ pendingInd[c] = NoOp
                                 /\ sock[c] \in {"unused", "freed"}
  BY <1>1 DEF Owners, ChanShape, Leaving
<1>3. ASSUME NEW o \in OpId
      PROVE  o \in HeldOps <=> ~Nowhere(o)
  <2>1. o \in QueuedOps <=> Wait(o)
    BY DEF QueuedOps, Wait
  <2>2. o \in PendingOps <=> Pend(o)
    <3>1. o # NoOp
      BY DEF OpId, NoOp
    <3> QED
      BY <1>2, <3>1, AttachedType DEF PendingOps, Pend, Inv
  <2>3. o \in UNION {ToSet(cq[c]) : c \in Attached} <=> InChan(o)
    BY <1>2, AttachedType, QueueEmpty DEF InChan, Inv
  <2>4. ~Todo(o) /\ ~Hand(o)
    BY <1>1, QueueEmpty DEF Todo, Hand
  <2> QED
    BY <2>1, <2>2, <2>3, <2>4 DEF HeldOps, Nowhere
<1> QED
  BY <1>2, <1>3

\* The last bt_att_unref frees them all.
LEMMA OwnersFree ==
    ASSUME Inv, Owners, Free, frame.k \in {"idle", "exit"},
           frame'.k = "idle", frame'.todo = <<>>
    PROVE  Owners'
<1> USE DEF opVars
<1>1. /\ reqQ' = <<>> /\ indQ' = <<>> /\ wrQ' = <<>> /\ chans' = <<>>
      /\ UNCHANGED <<info, nops>> /\ Destroy(HeldOps)
  BY DEF Free
<1>2. \A c \in Chan : /\ pendingReq'[c] = NoOp /\ pendingInd'[c] = NoOp
                      /\ cq'[c] = <<>> /\ sock'[c] \in {"unused", "freed"}
  BY HeldIsAll DEF Free
<1>3. Filed'
  BY <1>1, <1>2, QueueEmpty DEF Filed
<1>4. NoTwice'
  BY <1>1, <1>2, QueueEmpty DEF NoTwice
<1>5. ~Detached' /\ ~Flushing'
  BY DEF Detached, Flushing
<1>6. ASSUME NEW o \in OpId PROVE Nowhere(o)'
  <2>1. o # NoOp
    BY DEF OpId, NoOp
  <2> QED
    BY <1>1, <1>2, <1>5, <2>1, QueueEmpty
       DEF Nowhere, Wait, InChan, Pend, Todo, Hand
<1>7. OwnInv'
  <2>1. \A o \in OpId : IF o \in HeldOps THEN Nowhere(o)' ELSE Stays(o)
    BY <1>6, HeldIsAll DEF Stays, Nowhere
  <2> QED
    BY <1>1, <2>1, HeldIsAll, OwnDestroy DEF Inv, Owners
<1>8. ChanShape'
  <2>1. Attached' = {} /\ QDistinct(chans')
    BY <1>1, QueueEmpty DEF Attached
  <2> QED
    BY <1>2, <1>5, <2>1 DEF ChanShape
<1>9. FrameShape'
  BY DEF FrameShape
<1> QED
  BY <1>3, <1>4, <1>7, <1>8, <1>9 DEF Owners

-----------------------------------------------------------------------------
(* Steps that move no op *)

\* Nothing moves; the handler that runs, if it changes, takes no op out of its
\* place.
LEMMA OwnersSame ==
    ASSUME Inv, Owners, SamePlaces, FrameShape',
           UNCHANGED <<hs, dtors, frees, nops, chans>>,
           \A c \in Chan : \/ sock'[c] = sock[c]
                           \/ c \in Attached /\ sock'[c] \in {"up", "hup", "shut"},
           UNCHANGED frame \/ (Calm /\ Calm')
    PROVE  Owners'
<1>1. Filed' /\ NoTwice' /\ OwnInv'
  BY OwnSame DEF Owners
<1>2. ChanShape'
  BY ChanSame DEF Inv, Owners, SamePlaces, Calm, Detached, Flushing
<1> QED
  BY <1>1, <1>2 DEF Owners

\* bt_att_attach_fd: a channel nobody has used is attached.
LEMMA OwnersAttach ==
    ASSUME Inv, Owners, NEW c \in Chan, NEW m, AttachFd(c, m)
    PROVE  Owners'
<1> USE DEF attVars, queues, opVars, chanCfg, peer, history
<1>1. /\ SamePlaces /\ UNCHANGED <<hs, dtors, frees, nops, frame>>
      /\ sock[c] = "unused" /\ sock' = [sock EXCEPT ![c] = "up"]
      /\ chans' = Cons(c, chans)
  BY DEF AttachFd, SamePlaces
<1>2. chans \in Seq(Chan) /\ QDistinct(chans) /\ sock \in [Chan -> SockState]
  BY DEF Inv, TypeOK, Owners, ChanShape
<1>3. c \notin Attached
  BY <1>1 DEF Owners, ChanShape
<1>4. QDistinct(chans') /\ Attached' = Attached \cup {c}
  BY <1>1, <1>2, <1>3, QueueMoves DEF Attached
<1>5. Filed' /\ NoTwice' /\ OwnInv'
  BY <1>1, OwnSame DEF Owners
<1>6. Flushing => frame.c # c
  BY <1>1 DEF Owners, ChanShape
<1>7. /\ Flushing' <=> Flushing
      /\ \A d \in Chan : Leaving(d)' <=> Leaving(d)
  BY <1>1 DEF Flushing, Leaving
<1>8. ChanShape'
  <2>1. \A d \in Chan : d # c => sock'[d] = sock[d]
    BY <1>1, <1>2
  <2>2. sock'[c] = "up"
    BY <1>1, <1>2
  <2>3. Flushing' => frame'.c \notin Attached' /\ sock'[frame'.c] # "unused"
    BY <1>1, <1>4, <1>6, <1>7, <2>1, FrameFields
       DEF Owners, ChanShape, Flushing, Inv
  <2> QED
    BY <1>1, <1>4, <1>7, <2>1, <2>2, <2>3, AttachedType
       DEF Owners, ChanShape, SamePlaces, Inv
<1>9. FrameShape'
  BY <1>1, <1>4 DEF Owners, FrameShape, SamePlaces, Flushing
<1> QED
  BY <1>5, <1>8, <1>9 DEF Owners

-----------------------------------------------------------------------------
(* Pending ops *)

\* A pending op is in no other place.
LEMMA PendOnly ==
    ASSUME Inv, Owners, NEW c \in Chan
    PROVE  /\ pendingReq[c] # NoOp =>
                  /\ pendingReq[c] \in OpId /\ info[pendingReq[c]].type = "REQ"
                  /\ ~Nowhere(pendingReq[c])
                  /\ ~Wait(pendingReq[c]) /\ ~InChan(pendingReq[c])
                  /\ ~Todo(pendingReq[c]) /\ ~Hand(pendingReq[c])
                  /\ \A d \in Chan : /\ pendingInd[d] # pendingReq[c]
                                     /\ pendingReq[d] = pendingReq[c] => d = c
           /\ pendingInd[c] # NoOp =>
                  /\ pendingInd[c] \in OpId /\ info[pendingInd[c]].type = "IND"
                  /\ ~Nowhere(pendingInd[c])
                  /\ ~Wait(pendingInd[c]) /\ ~InChan(pendingInd[c])
                  /\ ~Todo(pendingInd[c]) /\ ~Hand(pendingInd[c])
                  /\ \A d \in Chan : /\ pendingReq[d] # pendingInd[c]
                                     /\ pendingInd[d] = pendingInd[c] => d = c
<1>1. \A o \in OpId : Pend(o) => /\ ~Nowhere(o) /\ ~Wait(o) /\ ~InChan(o)
                                 /\ ~Todo(o) /\ ~Hand(o)
  BY DEF Owners, OwnInv, OnePlace, Alone, Nowhere
<1>2. /\ pendingReq[c] # NoOp => pendingReq[c] \in OpId /\ Pend(pendingReq[c])
      /\ pendingInd[c] # NoOp => pendingInd[c] \in OpId /\ Pend(pendingInd[c])
  BY DEF Inv, TypeOK, Pend
<1>3. \A d \in Chan : /\ pendingReq[d] # NoOp => info[pendingReq[d]].type = "REQ"
                      /\ pendingInd[d] # NoOp => info[pendingInd[d]].type = "IND"
  BY DEF Owners, Filed
<1>4. \A d \in Chan :
          /\ pendingReq[c] # NoOp => /\ pendingInd[d] # pendingReq[c]
                                     /\ pendingReq[d] = pendingReq[c] => d = c
          /\ pendingInd[c] # NoOp => /\ pendingReq[d] # pendingInd[c]
                                     /\ pendingInd[d] = pendingInd[c] => d = c
  BY <1>3 DEF Owners, NoTwice
<1> QED
  BY <1>1, <1>2, <1>3, <1>4

\* The security retry of handle_error_rsp: from pending_req to the head of the
\* queue.
LEMMA OwnersRetry ==
    ASSUME Inv, Owners, NEW c \in Chan, NEW e, RspRetry(c, e), c \in Attached,
           frame.k = "idle",
           UNCHANGED <<indQ, wrQ, cq, pendingInd, info, nops, chans, dtors, frees>>
    PROVE  Owners'
<1>1. /\ UNCHANGED <<hs, sock, frame>> /\ pendingReq[c] # NoOp
      /\ reqQ' = Cons(pendingReq[c], reqQ)
      /\ pendingReq' = [pendingReq EXCEPT ![c] = NoOp]
  BY DEF RspRetry
<1>2. PICK x \in OpId :
          /\ x = pendingReq[c] /\ info[x].type = "REQ" /\ ~Nowhere(x)
          /\ ~Wait(x) /\ ~InChan(x) /\ ~Todo(x) /\ ~Hand(x)
          /\ \A d \in Chan : pendingInd[d] # x /\ (pendingReq[d] = x => d = c)
  BY <1>1, PendOnly
<1>3. reqQ \in Seq(OpId) /\ QDistinct(reqQ) /\ x \notin ToSet(reqQ)
  BY <1>2 DEF Inv, TypeOK, Owners, NoTwice, Wait
<1>4. QDistinct(reqQ') /\ ToSet(reqQ') = ToSet(reqQ) \cup {x}
  BY <1>1, <1>2, <1>3, QueueMoves
<1>5. \A d \in Chan : pendingReq'[d] = IF d = c THEN NoOp ELSE pendingReq[d]
  BY <1>1 DEF Inv, TypeOK
<1>6. Filed'
  BY <1>2, <1>4, <1>5 DEF Owners, Filed
<1>7. NoTwice'
  BY <1>1, <1>4, <1>5 DEF Owners, NoTwice, QDistinct
<1>8. \A o \in OpId : o # x => Stays(o)
  <2>1. \A o \in OpId : o # NoOp
    BY DEF OpId, NoOp
  <2> QED
    BY <1>1, <1>2, <1>4, <1>5, <2>1
       DEF Stays, Wait, InChan, Pend, Todo, Hand, Detached
<1>9. ~Nowhere(x) /\ InOne(x)'
  <2>1. x # NoOp
    BY DEF OpId, NoOp
  <2>2. Wait(x)' /\ ~Pend(x)'
    BY <1>2, <1>4, <1>5, <2>1 DEF Wait, Pend
  <2>3. ~InChan(x)' /\ ~Todo(x)' /\ ~Hand(x)'
    BY <1>1, <1>2 DEF InChan, Todo, Hand, Detached
  <2> QED
    BY <1>2, <2>2, <2>3 DEF InOne, Nowhere, Alone
<1>10. OwnInv'
  BY <1>1, <1>8, <1>9, OwnMove DEF Owners
<1>11. ChanShape'
  <2>1. Attached' = Attached /\ \A d \in Chan \ Attached : pendingReq'[d] = pendingReq[d]
    BY <1>5 DEF Attached
  <2> QED
    BY <1>1, <2>1, AttachedType
       DEF Owners, ChanShape, QDistinct, Leaving, Flushing, Inv
<1>12. FrameShape'
  BY <1>1 DEF Owners, FrameShape, Flushing
<1> QED
  BY <1>6, <1>7, <1>10, <1>11, <1>12 DEF Owners

\* The op whose callback has returned is destroyed and its slot is free.
LEMMA OwnersAnswered ==
    ASSUME Inv, Owners, NEW c \in Chan, frame.c = c, frame.k \in {"rsp", "conf"},
           DestroyPending(frame.op), frame' = ExitFrame,
           UNCHANGED <<reqQ, indQ, wrQ, cq, info, nops, chans, sock>>,
           IF frame.k = "rsp"
           THEN /\ pendingReq' = [pendingReq EXCEPT ![c] = NoOp]
                /\ UNCHANGED pendingInd
           ELSE /\ pendingInd' = [pendingInd EXCEPT ![c] = NoOp]
                /\ UNCHANGED pendingReq
    PROVE  Owners'
<1>1. /\ frame.op # NoOp /\ ~Flushing /\ ~Detached /\ frame.todo = <<>>
      /\ frame.op = IF frame.k = "rsp" THEN pendingReq[c] ELSE pendingInd[c]
  BY DEF Owners, FrameShape, Flushing, Detached
<1>2. PICK x \in OpId :
          /\ x = frame.op /\ ~Nowhere(x)
          /\ ~Wait(x) /\ ~InChan(x)
          /\ \A d \in Chan : d # c => pendingInd[d] # x /\ pendingReq[d] # x
          /\ frame.k = "rsp" => pendingInd[c] # x
          /\ frame.k = "conf" => pendingReq[c] # x
  BY <1>1, PendOnly
<1>3. \A d \in Chan :
          /\ pendingReq'[d] = IF d = c /\ frame.k = "rsp" THEN NoOp ELSE pendingReq[d]
          /\ pendingInd'[d] = IF d = c /\ frame.k = "conf" THEN NoOp ELSE pendingInd[d]
  BY DEF Inv, TypeOK
<1>4. frame'.k = "exit" /\ frame'.todo = <<>> /\ ~Detached' /\ ~Flushing'
  BY DEF ExitFrame, IdleFrame, Detached, Flushing
<1>5. Filed'
  BY <1>3 DEF Owners, Filed
<1>6. NoTwice'
  BY <1>3, <1>4, QueueEmpty DEF Owners, NoTwice, QDistinct
<1>7. \A o \in OpId : o # NoOp
  BY DEF OpId, NoOp
<1>8. \A o \in OpId : o # x => Stays(o)
  BY <1>1, <1>2, <1>3, <1>4, <1>7
     DEF Stays, Wait, InChan, Pend, Todo, Hand
<1>9. Nowhere(x)'
  BY <1>2, <1>3, <1>4, <1>7, QueueEmpty DEF Nowhere, Wait, InChan, Pend, Todo, Hand
<1>10. OwnInv'
  BY <1>2, <1>8, <1>9, OwnEnd DEF Inv, Owners
<1>11. ChanShape'
  <2>1. Attached' = Attached /\ \A d \in Chan : ~Leaving(d) /\ ~Leaving(d)'
    BY <1>1, <1>4 DEF Attached, Leaving
  <2> QED
    BY <1>1, <1>3, <1>4, <2>1, AttachedType
       DEF Owners, ChanShape, QDistinct, Inv
<1>12. FrameShape'
  BY <1>4 DEF FrameShape
<1> QED
  BY <1>5, <1>6, <1>10, <1>11, <1>12 DEF Owners

\* timeout_cb takes the op out of its slot and calls it back.
LEMMA OwnersTimeout ==
    ASSUME Inv, Owners, NEW c \in Chan, NEW x \in OpId, Timeout(c, x)
    PROVE  Owners'
<1> USE DEF attVars, queues, opVars, chanCfg, peer, history
<1>1. /\ UNCHANGED <<reqQ, indQ, wrQ, cq, info, nops, chans, sock, hs, dtors,
                     frees>>
      /\ frame.k = "idle" /\ frame' = CallFrame("timeout", c, x, HasCallback(x))
      /\ x = pendingReq[c] \/ x = pendingInd[c]
  BY DEF Timeout, Idle
<1>2. /\ x # NoOp /\ ~Nowhere(x) /\ ~Wait(x) /\ ~InChan(x)
      /\ \A d \in Chan : d # c => pendingInd[d] # x /\ pendingReq[d] # x
      /\ pendingReq[c] # pendingInd[c]
  <2>1. x # NoOp
    BY DEF OpId, NoOp
  <2> QED
    BY <1>1, <2>1, PendOnly
<1>3. \A d \in Chan :
          /\ pendingReq'[d] = IF d = c /\ pendingReq[c] = x THEN NoOp
                              ELSE pendingReq[d]
          /\ pendingInd'[d] = IF d = c /\ pendingReq[c] # x THEN NoOp
                              ELSE pendingInd[d]
  BY DEF Timeout, Inv, TypeOK
<1>4. /\ frame'.k = "timeout" /\ frame'.todo = <<>> /\ frame'.op = x
      /\ frame'.c = c /\ Detached' /\ ~Flushing'
  BY <1>1 DEF CallFrame, Detached, Flushing
<1>5. ~Detached /\ ~Flushing /\ frame.todo = <<>>
  BY <1>1 DEF Detached, Flushing, Owners, FrameShape
<1>6. Filed'
  BY <1>1, <1>3 DEF Owners, Filed
<1>7. NoTwice'
  BY <1>1, <1>3, <1>4, QueueEmpty DEF Owners, NoTwice, QDistinct
<1>8. \A o \in OpId : o # NoOp
  BY DEF OpId, NoOp
<1>9. \A o \in OpId : o # x => Stays(o)
  BY <1>1, <1>2, <1>3, <1>4, <1>5, <1>8
     DEF Stays, Wait, InChan, Pend, Todo, Hand
<1>10. InOne(x)'
  BY <1>1, <1>2, <1>3, <1>4, QueueEmpty
     DEF InOne, Nowhere, Alone, Wait, InChan, Pend, Todo, Hand
<1>11. OwnInv'
  BY <1>1, <1>2, <1>9, <1>10, OwnMove DEF Owners
<1>12. c \in Attached /\ Attached' = Attached
  BY <1>1, <1>2, <1>5 DEF Owners, ChanShape, Leaving, Attached
<1>13. ChanShape'
  <2>1. \A d \in Chan : ~Leaving(d) /\ ~Leaving(d)'
    BY <1>4, <1>5 DEF Leaving
  <2> QED
    BY <1>1, <1>3, <1>4, <1>12, <2>1, AttachedType
       DEF Owners, ChanShape, QDistinct, Inv
<1>14. FrameShape'
  BY <1>2, <1>4, <1>12 DEF FrameShape
<1> QED
  BY <1>6, <1>7, <1>11, <1>13, <1>14 DEF Owners

-----------------------------------------------------------------------------
(* Handlers that hold an op of their own *)

\* The callback of an op that was taken out of its place has returned, and the
\* op is destroyed.
LEMMA OwnersReturn ==
    ASSUME Inv, Owners, Detached, frame.op # NoOp, Destroy({frame.op}),
           SamePlaces, UNCHANGED <<nops, chans>>, FrameShape',
           frame'.todo = frame.todo, frame'.op = NoOp,
           \A c \in Chan : \/ sock'[c] = sock[c]
                           \/ c \in Attached /\ sock'[c] \in {"up", "hup", "shut"},
           IF Flushing THEN frame'.k = frame.k /\ frame'.c = frame.c
           ELSE frame'.k = "idle"
    PROVE  Owners'
<1>1. PICK x \in OpId : x = frame.op
  BY FrameFields DEF Inv
<1>2. \A o \in OpId : o # NoOp
  BY DEF OpId, NoOp
<1>3. \A o \in OpId : (Hand(o) <=> o = x) /\ ~Hand(o)'
  BY <1>1, <1>2 DEF Hand
<1>4. \A o \in OpId : /\ Wait(o)' <=> Wait(o)
                      /\ InChan(o)' <=> InChan(o)
                      /\ Pend(o)' <=> Pend(o)
                      /\ Todo(o)' <=> Todo(o)
  BY DEF SamePlaces, Wait, InChan, Pend, Todo
<1>5. /\ ~Nowhere(x) /\ Nowhere(x)'
      /\ \A o \in OpId : o # x => Stays(o)
  BY <1>3, <1>4 DEF Owners, OwnInv, OnePlace, Alone, Nowhere, Stays
<1>6. OwnInv'
  BY <1>1, <1>5, OwnDestroy DEF Inv, Owners
<1>7. Filed' /\ NoTwice'
  BY DEF Owners, Filed, NoTwice, SamePlaces, QDistinct
<1>8. ChanShape'
  <2>1. Attached' = Attached
    BY DEF Attached
  <2>2. Flushing' <=> Flushing
    BY DEF Flushing
  <2>3. \A d \in Chan : Leaving(d)' <=> Leaving(d)
    BY <2>2 DEF Leaving, Flushing
  <2>4. Flushing' => frame'.c \notin Attached /\ sock'[frame'.c] # "unused"
    BY <2>2, FrameFields DEF Owners, ChanShape, Flushing, Inv
  <2> QED
    BY <2>1, <2>2, <2>3, <2>4, AttachedType
       DEF Owners, ChanShape, SamePlaces, Leaving, QDistinct, Inv
<1> QED
  BY <1>6, <1>7, <1>8 DEF Owners

-----------------------------------------------------------------------------
(* can_write_data *)

\* pick_next_send_op takes one op off one queue, and a request or an
\* indication only if none is pending on the channel.
LEMMA Popped ==
    ASSUME Inv, Owners, NEW c \in Chan, PickSource(c) # "none", PopPicked(c)
    PROVE  \E x \in OpId :
               /\ x = Head(PickedQueue(c)) /\ (Wait(x) \/ InChan(x))
               /\ Shrunk
               /\ ToSet(reqQ') = ToSet(reqQ) \ {x}
               /\ ToSet(indQ') = ToSet(indQ) \ {x}
               /\ ToSet(wrQ') = ToSet(wrQ) \ {x}
               /\ \A d \in Chan : /\ ToSet(cq'[d]) = ToSet(cq[d]) \ {x}
                                  /\ d # c => cq'[d] = cq[d]
               /\ info[x].type = "REQ" => pendingReq[c] = NoOp
               /\ info[x].type = "IND" => pendingInd[c] = NoOp
<1>1. /\ reqQ \in Seq(OpId) /\ indQ \in Seq(OpId) /\ wrQ \in Seq(OpId)
      /\ cq \in [Chan -> Seq(OpId)] /\ \A d \in Chan : cq[d] \in Seq(OpId)
      /\ QDistinct(reqQ) /\ QDistinct(indQ) /\ QDistinct(wrQ)
      /\ \A d \in Chan : QDistinct(cq[d])
  BY DEF Inv, TypeOK, Owners, NoTwice
<1>2. PICK x \in OpId : x = Head(PickedQueue(c))
  BY PickedType DEF Inv
<1>3. /\ ToSet(reqQ) \cap ToSet(indQ) = {} /\ ToSet(reqQ) \cap ToSet(wrQ) = {}
      /\ ToSet(indQ) \cap ToSet(wrQ) = {}
      /\ \A d, f \in Chan : d # f => ToSet(cq[d]) \cap ToSet(cq[f]) = {}
      /\ \A d \in Chan : /\ ToSet(cq[d]) \cap ToSet(reqQ) = {}
                         /\ ToSet(cq[d]) \cap ToSet(indQ) = {}
  BY DEF Owners, Filed
<1>4. \A d \in Chan : ToSet(cq[d]) \cap ToSet(wrQ) = {}
  BY PlaceType DEF Owners, OwnInv, OnePlace, Alone, Wait, InChan, Inv
<1>5. CASE PickSource(c) = "chan"
  <2>1. /\ cq[c] # <<>> /\ x = Head(cq[c]) /\ UNCHANGED <<reqQ, indQ, wrQ>>
        /\ \A d \in Chan : cq'[d] = IF d = c THEN Tail(cq[c]) ELSE cq[d]
    BY <1>1, <1>2, <1>5 DEF PickSource, PickedQueue, PopPicked
  <2>2. /\ x \in ToSet(cq[c]) /\ ToSet(cq'[c]) = ToSet(cq[c]) \ {x}
        /\ QDistinct(cq'[c])
    BY <1>1, <2>1, QueueMoves
  <2>3. info[x].type = "RSP"
    BY <2>2 DEF Owners, Filed
  <2>4. /\ x \notin ToSet(reqQ) /\ x \notin ToSet(indQ) /\ x \notin ToSet(wrQ)
        /\ \A d \in Chan : d # c => x \notin ToSet(cq[d])
    BY <1>3, <1>4, <2>2
  <2>5. Shrunk /\ InChan(x)
    BY <1>1, <2>1, <2>2 DEF Shrunk, InChan
  <2> QED
    BY <1>2, <2>1, <2>2, <2>3, <2>4, <2>5
<1>6. CASE PickSource(c) = "write"
  <2>1. /\ wrQ # <<>> /\ x = Head(wrQ) /\ UNCHANGED <<reqQ, indQ, cq>>
        /\ wrQ' = Tail(wrQ)
    BY <1>1, <1>2, <1>6 DEF PickSource, PickedQueue, PopPicked, Fits
  <2>2. x \in ToSet(wrQ) /\ ToSet(wrQ') = ToSet(wrQ) \ {x} /\ QDistinct(wrQ')
    BY <1>1, <2>1, QueueMoves
  <2>3. info[x].type \notin {"REQ", "IND"}
    BY <2>2 DEF Owners, Filed
  <2>4. /\ x \notin ToSet(reqQ) /\ x \notin ToSet(indQ)
        /\ \A d \in Chan : x \notin ToSet(cq[d])
    BY <1>3, <1>4, <2>2
  <2>5. Shrunk /\ Wait(x)
    BY <1>1, <2>1, <2>2 DEF Shrunk, Wait
  <2> QED
    BY <1>2, <2>1, <2>2, <2>3, <2>4, <2>5
<1>7. CASE PickSource(c) = "req"
  <2>1. /\ reqQ # <<>> /\ x = Head(reqQ) /\ UNCHANGED <<wrQ, indQ, cq>>
        /\ reqQ' = Tail(reqQ) /\ pendingReq[c] = NoOp
    BY <1>1, <1>2, <1>7 DEF PickSource, PickedQueue, PopPicked, Fits
  <2>2. x \in ToSet(reqQ) /\ ToSet(reqQ') = ToSet(reqQ) \ {x} /\ QDistinct(reqQ')
    BY <1>1, <2>1, QueueMoves
  <2>3. info[x].type = "REQ"
    BY <2>2 DEF Owners, Filed
  <2>4. /\ x \notin ToSet(indQ) /\ x \notin ToSet(wrQ)
        /\ \A d \in Chan : x \notin ToSet(cq[d])
    BY <1>3, <1>4, <2>2
  <2>5. Shrunk /\ Wait(x)
    BY <1>1, <2>1, <2>2 DEF Shrunk, Wait
  <2> QED
    BY <1>2, <2>1, <2>2, <2>3, <2>4, <2>5
<1>8. CASE PickSource(c) = "ind"
  <2>1. /\ indQ # <<>> /\ x = Head(indQ) /\ UNCHANGED <<wrQ, reqQ, cq>>
        /\ indQ' = Tail(indQ) /\ pendingInd[c] = NoOp
    BY <1>1, <1>2, <1>8 DEF PickSource, PickedQueue, PopPicked, Fits
  <2>2. x \in ToSet(indQ) /\ ToSet(indQ') = ToSet(indQ) \ {x} /\ QDistinct(indQ')
    BY <1>1, <2>1, QueueMoves
  <2>3. info[x].type = "IND"
    BY <2>2 DEF Owners, Filed
  <2>4. /\ x \notin ToSet(reqQ) /\ x \notin ToSet(wrQ)
        /\ \A d \in Chan : x \notin ToSet(cq[d])
    BY <1>3, <1>4, <2>2
  <2>5. Shrunk /\ Wait(x)
    BY <1>1, <2>1, <2>2 DEF Shrunk, Wait
  <2> QED
    BY <1>2, <2>1, <2>2, <2>3, <2>4, <2>5
<1> QED
  BY <1>5, <1>6, <1>7, <1>8 DEF PickSource

\* What can_write_data does with the op it has taken: a request or an
\* indication fills the slot, which was free, and its timer starts.
Written(c, out, x) ==
    /\ x = Head(PickedQueue(c)) /\ (Wait(x) \/ InChan(x))
    /\ Shrunk
    /\ ToSet(reqQ') = ToSet(reqQ) \ {x}
    /\ ToSet(indQ') = ToSet(indQ) \ {x}
    /\ ToSet(wrQ') = ToSet(wrQ) \ {x}
    /\ \A d \in Chan : /\ ToSet(cq'[d]) = ToSet(cq[d]) \ {x}
                       /\ d # c => cq'[d] = cq[d]
    /\ info[x].type = "REQ" => pendingReq[c] = NoOp
    /\ info[x].type = "IND" => pendingInd[c] = NoOp
    /\ \A d \in Chan :
        /\ pendingReq'[d] = IF d = c /\ info[x].type = "REQ" THEN x
                            ELSE pendingReq[d]
        /\ pendingInd'[d] = IF d = c /\ info[x].type = "IND" THEN x
                            ELSE pendingInd[d]
    /\ Destroy(IF info[x].type \in {"REQ", "IND"} THEN {} ELSE {x})
    /\ armed' = IF info[x].type \in {"REQ", "IND"}
                THEN armed \cup {x} ELSE armed
    /\ owed' = IF out = "sent" /\ info[x].type \in {"REQ", "IND"}
               THEN [owed EXCEPT ![c] = @ \cup {x}] ELSE owed

\* can_write_data writes some op of its channel so.
LEMMA WriteEffect ==
    ASSUME Inv, Owners, NEW c \in Chan, NEW out, WritePdu(c, out)
    PROVE  \E x \in OpId : Written(c, out, x)
<1> USE DEF attVars, queues, opVars, chanCfg, peer, history
<1>1. frame.k = "idle" /\ PickSource(c) # "none" /\ PopPicked(c)
  BY DEF WritePdu, Idle
<1>2. PICK x \in OpId :
          /\ x = Head(PickedQueue(c)) /\ (Wait(x) \/ InChan(x))
          /\ Shrunk
          /\ ToSet(reqQ') = ToSet(reqQ) \ {x}
          /\ ToSet(indQ') = ToSet(indQ) \ {x}
          /\ ToSet(wrQ') = ToSet(wrQ) \ {x}
          /\ \A d \in Chan : /\ ToSet(cq'[d]) = ToSet(cq[d]) \ {x}
                             /\ d # c => cq'[d] = cq[d]
          /\ info[x].type = "REQ" => pendingReq[c] = NoOp
          /\ info[x].type = "IND" => pendingInd[c] = NoOp
  BY <1>1, Popped
<1>3. \A d \in Chan :
          /\ pendingReq'[d] = IF d = c /\ info[x].type = "REQ" THEN x
                              ELSE pendingReq[d]
          /\ pendingInd'[d] = IF d = c /\ info[x].type = "IND" THEN x
                              ELSE pendingInd[d]
  BY <1>2 DEF WritePdu, Inv, TypeOK
<1>4. Destroy(IF info[x].type \in {"REQ", "IND"} THEN {} ELSE {x})
  BY <1>2 DEF WritePdu
<1>5. armed' = IF info[x].type \in {"REQ", "IND"}
               THEN armed \cup {x} ELSE armed
  BY <1>2 DEF WritePdu
<1>6. owed' = IF out = "sent" /\ info[x].type \in {"REQ", "IND"}
              THEN [owed EXCEPT ![c] = @ \cup {x}] ELSE owed
  BY <1>2 DEF WritePdu
<1> QED
  BY <1>2, <1>3, <1>4, <1>5, <1>6 DEF Written

\* The op is pending when it is a request or an indication, and destroyed
\* otherwise.
LEMMA OwnersWrite ==
    ASSUME Inv, Owners, NEW c \in Chan, NEW out, WritePdu(c, out)
    PROVE  Owners'
<1> USE DEF attVars, queues, opVars, chanCfg, peer, history
<1>1. /\ UNCHANGED <<info, nops, chans, sock, frame>> /\ frame.k = "idle"
      /\ PickSource(c) # "none" /\ PopPicked(c) /\ c \in Attached
  BY DEF WritePdu, Idle
<1>0. PICK x \in OpId : Written(c, out, x)
  BY WriteEffect
<1>2. /\ x = Head(PickedQueue(c)) /\ (Wait(x) \/ InChan(x))
      /\ Shrunk
      /\ ToSet(reqQ') = ToSet(reqQ) \ {x}
      /\ ToSet(indQ') = ToSet(indQ) \ {x}
      /\ ToSet(wrQ') = ToSet(wrQ) \ {x}
      /\ \A d \in Chan : /\ ToSet(cq'[d]) = ToSet(cq[d]) \ {x}
                         /\ d # c => cq'[d] = cq[d]
      /\ info[x].type = "REQ" => pendingReq[c] = NoOp
      /\ info[x].type = "IND" => pendingInd[c] = NoOp
  BY <1>0 DEF Written
<1>3. \A d \in Chan :
          /\ pendingReq'[d] = IF d = c /\ info[x].type = "REQ" THEN x
                              ELSE pendingReq[d]
          /\ pendingInd'[d] = IF d = c /\ info[x].type = "IND" THEN x
                              ELSE pendingInd[d]
  BY <1>0 DEF Written
<1>4. Destroy(IF info[x].type \in {"REQ", "IND"} THEN {} ELSE {x})
  BY <1>0 DEF Written
<1>5. ~Detached /\ ~Flushing /\ frame.todo = <<>>
  BY <1>1 DEF Detached, Flushing, Owners, FrameShape
<1>6. x # NoOp /\ ~Nowhere(x) /\ ~Pend(x) /\ ~Todo(x) /\ ~Hand(x)
  BY <1>2 DEF OpId, NoOp, Owners, OwnInv, OnePlace, Alone, Nowhere
<1>7. Filed'
  BY <1>1, <1>2, <1>3 DEF Owners, Filed, Shrunk
<1>8. NoTwice'
  BY <1>1, <1>2, <1>3, <1>6 DEF Owners, NoTwice, Shrunk, QDistinct, Pend
<1>9. \A o \in OpId : o # x => Stays(o)
  <2>1. \A o \in OpId : o # NoOp
    BY DEF OpId, NoOp
  <2> QED
    BY <1>1, <1>2, <1>3, <2>1
       DEF Stays, Wait, InChan, Pend, Todo, Hand, Detached
<1>10. ~Wait(x)' /\ ~InChan(x)' /\ ~Todo(x)' /\ ~Hand(x)'
  BY <1>1, <1>2, <1>6 DEF Wait, InChan, Todo, Hand, Detached
<1>11. Pend(x)' <=> info[x].type \in {"REQ", "IND"}
  BY <1>3, <1>6 DEF Pend
<1>12. OwnInv'
  <2>1. CASE info[x].type \in {"REQ", "IND"}
    <3>1. UNCHANGED <<hs, dtors, frees>>
      BY <1>4, <2>1 DEF Destroy, Plus, Inv, TypeOK
    <3>2. InOne(x)'
      BY <1>10, <1>11, <2>1 DEF InOne, Nowhere, Alone
    <3> QED
      BY <1>1, <1>6, <1>9, <3>1, <3>2, OwnMove DEF Owners
  <2>2. CASE info[x].type \notin {"REQ", "IND"}
    <3>1. Nowhere(x)'
      BY <1>10, <1>11, <2>2 DEF Nowhere
    <3>2. Destroy({x})
      BY <1>4, <2>2
    <3> QED
      BY <1>1, <1>6, <1>9, <3>1, <3>2, OwnDestroy DEF Inv, Owners
  <2> QED
    BY <2>1, <2>2
<1>13. ChanShape'
  <2>1. Attached' = Attached /\ \A d \in Chan : ~Leaving(d) /\ ~Leaving(d)'
    BY <1>1, <1>5 DEF Attached, Leaving, Flushing
  <2> QED
    BY <1>1, <1>2, <1>3, <1>5, <2>1, AttachedType
       DEF Owners, ChanShape, QDistinct, Flushing, Inv
<1>14. FrameShape'
  BY <1>1 DEF Owners, FrameShape, Flushing
<1> QED
  BY <1>7, <1>8, <1>12, <1>13, <1>14 DEF Owners

\* writev returned 0: the op is in the hands of the handler.
LEMMA OwnersZero ==
    ASSUME Inv, Owners, NEW c \in Chan, WriteZero(c)
    PROVE  Owners'
<1> USE DEF attVars, queues, opVars, chanCfg, peer, history
<1>1. /\ UNCHANGED <<info, nops, chans, sock, pendingReq, pendingInd, hs, dtors,
                     frees>>
      /\ frame.k = "idle"
      /\ PickSource(c) # "none" /\ PopPicked(c) /\ c \in Attached
  BY DEF WriteZero, Idle
<1>2. PICK x \in OpId :
          /\ x = Head(PickedQueue(c)) /\ (Wait(x) \/ InChan(x))
          /\ Shrunk
          /\ ToSet(reqQ') = ToSet(reqQ) \ {x}
          /\ ToSet(indQ') = ToSet(indQ) \ {x}
          /\ ToSet(wrQ') = ToSet(wrQ) \ {x}
          /\ \A d \in Chan : /\ ToSet(cq'[d]) = ToSet(cq[d]) \ {x}
                             /\ d # c => cq'[d] = cq[d]
  BY <1>1, Popped
<1>3. ~Detached /\ ~Flushing /\ frame.todo = <<>>
  BY <1>1 DEF Detached, Flushing, Owners, FrameShape
<1>4. /\ frame'.k = "zero" /\ frame'.todo = <<>> /\ frame'.op = x
      /\ Detached' /\ ~Flushing'
  BY <1>2 DEF WriteZero, CallFrame, Detached, Flushing
<1>5. x # NoOp /\ ~Nowhere(x) /\ ~Pend(x)
  BY <1>2 DEF OpId, NoOp, Owners, OwnInv, OnePlace, Alone, Nowhere
<1>6. Filed' /\ NoTwice'
  BY <1>1, <1>2, <1>4, ShrunkFiled, QueueEmpty DEF Owners
<1>7. \A o \in OpId : o # x => Stays(o)
  BY <1>1, <1>2, <1>3, <1>4 DEF Stays, Wait, InChan, Pend, Todo, Hand
<1>8. InOne(x)'
  BY <1>1, <1>2, <1>4, <1>5, QueueEmpty
     DEF InOne, Nowhere, Alone, Wait, InChan, Pend, Todo, Hand
<1>9. OwnInv'
  BY <1>1, <1>5, <1>7, <1>8, OwnMove DEF Owners
<1>10. ChanShape'
  <2>1. Attached' = Attached /\ \A d \in Chan : ~Leaving(d) /\ ~Leaving(d)'
    BY <1>1, <1>3, <1>4 DEF Attached, Leaving
  <2> QED
    BY <1>1, <1>2, <1>4, <2>1, AttachedType DEF Owners, ChanShape, QDistinct, Inv
<1>11. FrameShape'
  BY <1>4, <1>5 DEF FrameShape
<1> QED
  BY <1>6, <1>9, <1>10, <1>11 DEF Owners

-----------------------------------------------------------------------------
(* disconnect_cb *)

\* A shared queue becomes the list of the flush.
LEMMA OwnTake ==
    ASSUME Inv, Owners, NEW T, frame.todo = <<>>, frame.op = NoOp,
           frame'.op = NoOp, ToSet(frame'.todo) = T,
           \A o \in OpId : Wait(o)' <=> Wait(o) /\ o \notin T,
           \A o \in T : Wait(o),
           UNCHANGED <<cq, pendingReq, pendingInd, hs, dtors, frees, nops>>
    PROVE  OwnInv'
<1>1. \A o \in OpId : o # NoOp
  BY DEF OpId, NoOp
<1>2. ASSUME NEW o \in OpId
      PROVE  Stays(o) \/ (~Nowhere(o) /\ InOne(o)')
  <2>1. ~Todo(o) /\ (Todo(o)' <=> o \in T) /\ ~Hand(o) /\ ~Hand(o)'
    BY <1>1, QueueEmpty DEF Todo, Hand
  <2>2. /\ InChan(o)' <=> InChan(o)
        /\ Pend(o)' <=> Pend(o)
    BY DEF InChan, Pend
  <2> QED
    BY <2>1, <2>2
       DEF Stays, InOne, Nowhere, Alone, Owners, OwnInv, OnePlace
<1> QED
  BY <1>2, OwnMove DEF Owners

\* The channel is detached, and the requests are the first to be flushed.
LEMMA OwnersDisconnect ==
    ASSUME Inv, Owners, NEW c \in Chan, Disconnect(c)
    PROVE  Owners'
<1> USE DEF attVars, queues, opVars, chanCfg, peer, history
<1>1. /\ UNCHANGED <<indQ, wrQ, cq, pendingReq, pendingInd, hs, dtors, frees,
                     nops, info, sock>>
      /\ reqQ' = <<>> /\ frame.k = "idle" /\ sock[c] \in {"hup", "shut"}
  BY DEF Disconnect, Idle
<1>2. /\ frame'.k = "dreq" /\ frame'.c = c /\ frame'.op = NoOp
      /\ frame'.todo = reqQ /\ Flushing'
  BY DEF Disconnect, Flushing
<1>3. PICK i \in 1..Len(chans) : chans[i] = c /\ chans' = RemoveAt(chans, i)
  BY DEF Disconnect
<1>4. chans \in Seq(Chan) /\ QDistinct(chans)
  BY DEF Inv, TypeOK, Owners, ChanShape
<1>5. QDistinct(chans') /\ Attached' = Attached \ {c} /\ c \in Attached
  BY <1>3, <1>4, QueueMoves DEF Attached
<1>6. frame.todo = <<>> /\ frame.op = NoOp /\ ~Flushing
  BY <1>1 DEF Owners, FrameShape, Flushing, Inv, FrameOp
<1>7. Filed' /\ NoTwice'
  <2>1. Shrunk /\ QDistinct(frame'.todo)
    BY <1>1, <1>2, QueueEmpty DEF Shrunk, Owners, NoTwice
  <2> QED
    BY <1>1, <2>1, ShrunkFiled DEF Owners
<1>8. OwnInv'
  <2>1. /\ \A o \in OpId : Wait(o)' <=> Wait(o) /\ o \notin ToSet(reqQ)
        /\ \A o \in ToSet(reqQ) : Wait(o)
    BY <1>1, QueueEmpty DEF Wait, Owners, Filed
  <2>2. ToSet(frame'.todo) = ToSet(reqQ)
    BY <1>2
  <2> QED
    BY <1>1, <1>2, <1>6, <2>1, <2>2, OwnTake
<1>9. ChanShape'
  <2>1. \A d \in Chan : (Leaving(d)' <=> d = c) /\ ~Leaving(d)
    BY <1>2, <1>6 DEF Leaving
  <2> QED
    BY <1>1, <1>2, <1>5, <2>1, AttachedType DEF Owners, ChanShape, Inv
<1>10. FrameShape'
  BY <1>2 DEF FrameShape
<1> QED
  BY <1>7, <1>8, <1>9, <1>10 DEF Owners

\* The flush goes on with the next list; the channel stays on its way out.
LEMMA ChanLeaving ==
    ASSUME Inv, Owners, Flushing, Flushing', frame'.c = frame.c,
           UNCHANGED <<chans, cq, sock>>,
           \A c \in Chan : c # frame.c => UNCHANGED <<pendingReq[c], pendingInd[c]>>,
           frame'.k = "dpend" => /\ pendingReq'[frame.c] = NoOp
                                 /\ pendingInd'[frame.c] = NoOp
    PROVE  ChanShape' /\ (frame'.k \in {"dreq", "dind", "dwrite", "dpend"}
                              => FrameShape')
<1>1. Attached' = Attached /\ \A d \in Chan : Leaving(d)' <=> Leaving(d)
  BY DEF Attached, Leaving
<1>2. \A d \in Chan : Leaving(d) <=> d = frame.c
  BY DEF Leaving
<1>3. ChanShape'
  BY <1>1, <1>2, AttachedType DEF Owners, ChanShape, QDistinct, Inv
<1>4. frame'.k \in {"dreq", "dind", "dwrite", "dpend"} => FrameShape'
  BY DEF FrameShape
<1> QED
  BY <1>3, <1>4

\* The indications are flushed.
LEMMA OwnersFlushInd ==
    ASSUME Inv, Owners, FlushInd
    PROVE  Owners'
<1> USE DEF attVars, queues, opVars, chanCfg, peer, history
<1>1. /\ UNCHANGED <<reqQ, wrQ, cq, pendingReq, pendingInd, hs, dtors, frees,
                     nops, info, sock, chans>>
      /\ indQ' = <<>> /\ frame.k = "dreq" /\ frame.op = NoOp /\ frame.todo = <<>>
  BY DEF FlushInd, FlushDone
<1>2. /\ frame'.k = "dind" /\ frame'.c = frame.c /\ frame'.op = NoOp
      /\ frame'.todo = indQ
  BY <1>1 DEF FlushInd, Inv, TypeOK, Frame
<1>3. Flushing /\ Flushing'
  BY <1>1, <1>2 DEF Flushing
<1>4. Filed' /\ NoTwice'
  <2>1. Shrunk /\ QDistinct(frame'.todo)
    BY <1>1, <1>2, QueueEmpty DEF Shrunk, Owners, NoTwice
  <2> QED
    BY <1>1, <2>1, ShrunkFiled DEF Owners
<1>5. OwnInv'
  <2>1. /\ \A o \in OpId : Wait(o)' <=> Wait(o) /\ o \notin ToSet(indQ)
        /\ \A o \in ToSet(indQ) : Wait(o)
    BY <1>1, QueueEmpty DEF Wait, Owners, Filed
  <2>2. ToSet(frame'.todo) = ToSet(indQ)
    BY <1>2
  <2> QED
    BY <1>1, <1>2, <2>1, <2>2, OwnTake
<1>6. ChanShape' /\ FrameShape'
  BY <1>1, <1>2, <1>3, ChanLeaving
<1> QED
  BY <1>4, <1>5, <1>6 DEF Owners

\* The PDUs ready to send are flushed.
LEMMA OwnersFlushWrite ==
    ASSUME Inv, Owners, FlushWrite
    PROVE  Owners'
<1> USE DEF attVars, queues, opVars, chanCfg, peer, history
<1>1. /\ UNCHANGED <<reqQ, indQ, cq, pendingReq, pendingInd, hs, dtors, frees,
                     nops, info, sock, chans>>
      /\ wrQ' = <<>> /\ frame.k = "dind" /\ frame.op = NoOp /\ frame.todo = <<>>
  BY DEF FlushWrite, FlushDone
<1>2. /\ frame'.k = "dwrite" /\ frame'.c = frame.c /\ frame'.op = NoOp
      /\ frame'.todo = wrQ
  BY <1>1 DEF FlushWrite, Inv, TypeOK, Frame
<1>3. Flushing /\ Flushing'
  BY <1>1, <1>2 DEF Flushing
<1>4. Filed' /\ NoTwice'
  <2>1. Shrunk /\ QDistinct(frame'.todo)
    BY <1>1, <1>2, QueueEmpty DEF Shrunk, Owners, NoTwice
  <2> QED
    BY <1>1, <2>1, ShrunkFiled DEF Owners
<1>5. OwnInv'
  <2>1. /\ \A o \in OpId : Wait(o)' <=> Wait(o) /\ o \notin ToSet(wrQ)
        /\ \A o \in ToSet(wrQ) : Wait(o)
    BY <1>1, QueueEmpty DEF Wait, Owners, Filed
  <2>2. ToSet(frame'.todo) = ToSet(wrQ)
    BY <1>2
  <2> QED
    BY <1>1, <1>2, <2>1, <2>2, OwnTake
<1>6. ChanShape' /\ FrameShape'
  BY <1>1, <1>2, <1>3, ChanLeaving
<1> QED
  BY <1>4, <1>5, <1>6 DEF Owners

\* The list of the two pending ops.
LEMMA SinglesList ==
    ASSUME NEW a \in OpId \cup {NoOp}, NEW b \in OpId \cup {NoOp},
           a = b => a = NoOp
    PROVE  /\ QDistinct(Single(a) \o Single(b))
           /\ ToSet(Single(a) \o Single(b)) = {a, b} \ {NoOp}
<1>1. CASE a = NoOp /\ b = NoOp
  <2>1. Single(a) \o Single(b) = <<>>
    BY <1>1 DEF Single
  <2> QED
    BY <1>1, <2>1, QueueEmpty
<1>2. CASE a # NoOp /\ b = NoOp
  <2>1. Single(a) \o Single(b) = <<a>>
    BY <1>2 DEF Single
  <2> QED
    BY <1>2, <2>1 DEF QDistinct, ToSet
<1>3. CASE a = NoOp /\ b # NoOp
  <2>1. Single(a) \o Single(b) = <<b>>
    BY <1>3 DEF Single
  <2> QED
    BY <1>3, <2>1 DEF QDistinct, ToSet
<1>4. CASE a # NoOp /\ b # NoOp
  <2> DEFINE s == Single(a) \o Single(b)
  <2>1. Single(a) = <<a>> /\ Single(b) = <<b>> /\ a \in OpId /\ b \in OpId
    BY <1>4 DEF Single
  <2>2. Len(s) = 2 /\ s[1] = a /\ s[2] = b
    BY <2>1
  <2> HIDE DEF s
  <2>3. QDistinct(s) /\ ToSet(s) = {a, b}
    BY <1>4, <2>2 DEF QDistinct, ToSet
  <2> QED
    BY <1>4, <2>3 DEF s
<1> QED
  BY <1>1, <1>2, <1>3, <1>4

\* Then the two pending ops.
LEMMA OwnersFlushPending ==
    ASSUME Inv, Owners, FlushPending
    PROVE  Owners'
<1> USE DEF attVars, queues, opVars, chanCfg, peer, history
<1>1. PICK c \in Chan : c = frame.c
  BY FrameFields DEF FlushPending, FlushDone, Inv
<1>2. /\ UNCHANGED <<reqQ, indQ, wrQ, cq, hs, dtors, frees, nops, info, sock,
                     chans>>
      /\ frame.k = "dwrite" /\ frame.op = NoOp /\ frame.todo = <<>>
  BY DEF FlushPending, FlushDone
<1>3. \A d \in Chan :
          /\ pendingReq'[d] = IF d = c THEN NoOp ELSE pendingReq[d]
          /\ pendingInd'[d] = IF d = c THEN NoOp ELSE pendingInd[d]
  BY <1>1 DEF FlushPending, Inv, TypeOK
<1>4. /\ frame'.k = "dpend" /\ frame'.c = c /\ frame'.op = NoOp
      /\ frame'.todo = Single(pendingReq[c]) \o Single(pendingInd[c])
  BY <1>1, <1>2 DEF FlushPending, Inv, TypeOK, Frame
<1>5. /\ pendingReq[c] \in OpId \cup {NoOp} /\ pendingInd[c] \in OpId \cup {NoOp}
      /\ pendingReq[c] = pendingInd[c] => pendingReq[c] = NoOp
  BY PendOnly DEF Inv, TypeOK
<1>6. /\ QDistinct(frame'.todo)
      /\ ToSet(frame'.todo) = {pendingReq[c], pendingInd[c]} \ {NoOp}
  BY <1>4, <1>5, SinglesList
<1>7. Filed'
  BY <1>2, <1>3 DEF Owners, Filed
<1>8. NoTwice'
  BY <1>2, <1>3, <1>6 DEF Owners, NoTwice, QDistinct
<1>9. \A o \in OpId : o # NoOp
  BY DEF OpId, NoOp
<1>10. ASSUME NEW o \in OpId
       PROVE  Stays(o) \/ (~Nowhere(o) /\ InOne(o)')
  <2>1. /\ Wait(o)' <=> Wait(o)
        /\ InChan(o)' <=> InChan(o)
        /\ ~Todo(o) /\ ~Hand(o) /\ ~Hand(o)'
    BY <1>2, <1>4, <1>9, QueueEmpty DEF Wait, InChan, Todo, Hand
  <2>2. Todo(o)' <=> o = pendingReq[c] \/ o = pendingInd[c]
    BY <1>6, <1>9 DEF Todo
  <2>3. CASE Todo(o)'
    <3>1. Pend(o) /\ ~Nowhere(o) /\ ~Wait(o) /\ ~InChan(o)
      BY <2>2, <2>3 DEF Pend, Nowhere, Owners, OwnInv, OnePlace, Alone
    <3>2. ~Pend(o)'
      BY <1>3, <1>9, <2>2, <2>3, PendOnly DEF Pend
    <3> QED
      BY <2>1, <2>3, <3>1, <3>2 DEF InOne, Nowhere, Alone
  <2>4. CASE ~Todo(o)'
    <3>1. Pend(o)' <=> Pend(o)
      BY <1>3, <1>9, <2>2, <2>4 DEF Pend
    <3> QED
      BY <2>1, <2>4, <3>1 DEF Stays
  <2> QED
    BY <2>3, <2>4
<1>11. OwnInv'
  BY <1>2, <1>10, OwnMove DEF Owners
<1>12. ChanShape' /\ FrameShape'
  BY <1>1, <1>2, <1>3, <1>4, ChanLeaving DEF Flushing
<1> QED
  BY <1>7, <1>8, <1>11, <1>12 DEF Owners

\* The next op of the list is in the hands of disc_att_send_op.
LEMMA OwnersFlushCall ==
    ASSUME Inv, Owners, FlushCall
    PROVE  Owners'
<1> USE DEF attVars, queues, opVars, chanCfg, peer, history
<1>1. /\ SamePlaces /\ UNCHANGED <<hs, dtors, frees, nops, sock, chans>>
      /\ Flushing /\ frame.op = NoOp /\ frame.todo # <<>>
  BY DEF FlushCall, SamePlaces
<1>2. frame.todo \in Seq(OpId) /\ QDistinct(frame.todo)
  BY FrameFields DEF Inv, Owners, NoTwice
<1>3. PICK x \in OpId : x = Head(frame.todo)
  BY <1>1, <1>2
<1>4. /\ frame'.k = frame.k /\ frame'.c = frame.c /\ frame'.op = x
      /\ frame'.todo = Tail(frame.todo)
  BY <1>3 DEF FlushCall, Inv, TypeOK, Frame
<1>5. /\ x \in ToSet(frame.todo) /\ QDistinct(frame'.todo)
      /\ ToSet(frame'.todo) = ToSet(frame.todo) \ {x}
  BY <1>1, <1>2, <1>3, <1>4, QueueMoves
<1>6. Flushing' /\ Detached' /\ Detached
  BY <1>1, <1>4 DEF Flushing, Detached
<1>7. Filed' /\ NoTwice'
  BY <1>1, <1>5 DEF Owners, Filed, NoTwice, SamePlaces, QDistinct
<1>8. \A o \in OpId : o # NoOp
  BY DEF OpId, NoOp
<1>9. \A o \in OpId : /\ Wait(o)' <=> Wait(o)
                      /\ InChan(o)' <=> InChan(o)
                      /\ Pend(o)' <=> Pend(o)
                      /\ Todo(o)' <=> Todo(o) /\ o # x
                      /\ ~Hand(o)
                      /\ Hand(o)' <=> o = x
  BY <1>1, <1>4, <1>5, <1>6, <1>8
     DEF SamePlaces, Wait, InChan, Pend, Todo, Hand
<1>10. /\ \A o \in OpId : o # x => Stays(o)
       /\ ~Nowhere(x) /\ InOne(x)'
  BY <1>5, <1>9
     DEF Stays, InOne, Nowhere, Alone, Owners, OwnInv, OnePlace, Todo
<1>11. OwnInv'
  BY <1>1, <1>10, OwnMove DEF Owners
<1>12. ChanShape' /\ FrameShape'
  <2>1. frame'.k = "dpend" => /\ pendingReq'[frame.c] = NoOp
                              /\ pendingInd'[frame.c] = NoOp
    BY <1>1, <1>4, FrameFields
       DEF SamePlaces, Owners, ChanShape, Leaving, Flushing, Inv
  <2> QED
    BY <1>1, <1>4, <1>6, <2>1, ChanLeaving DEF SamePlaces, Flushing
<1> QED
  BY <1>7, <1>11, <1>12 DEF Owners

\* bt_att_chan_free drops what is queued on the channel.
LEMMA OwnersChanFree ==
    ASSUME Inv, Owners, ChanFree
    PROVE  Owners'
<1> USE DEF attVars, queues, opVars, chanCfg, peer, history
<1>1. PICK c \in Chan : c = frame.c
  BY FrameFields DEF ChanFree, FlushDone, Inv
<1>2. /\ UNCHANGED <<reqQ, indQ, wrQ, pendingReq, pendingInd, nops, info, chans>>
      /\ frame.k = "dpend" /\ frame.op = NoOp /\ frame.todo = <<>>
      /\ Destroy(ToSet(cq[c]))
  BY <1>1 DEF ChanFree, FlushDone
<1>3. \A d \in Chan : /\ cq'[d] = IF d = c THEN <<>> ELSE cq[d]
                      /\ sock'[d] = IF d = c THEN "freed" ELSE sock[d]
  BY <1>1 DEF ChanFree, Inv, TypeOK
<1>4. frame'.k \in {"dhand", "idle"} /\ frame'.todo = <<>> /\ frame'.op = NoOp
  BY DEF ChanFree, CallFrame, IdleFrame
<1>5. ~Detached' /\ ~Flushing' /\ Flushing
  BY <1>2, <1>4 DEF Detached, Flushing
<1>6. Filed' /\ NoTwice'
  <2>1. Shrunk
    BY <1>2, <1>3, QueueEmpty DEF Shrunk, Owners, NoTwice
  <2> QED
    BY <1>2, <1>4, <2>1, ShrunkFiled, QueueEmpty DEF Owners
<1>7. \A o \in OpId : o # NoOp
  BY DEF OpId, NoOp
<1>8. \A o \in OpId : /\ Wait(o)' <=> Wait(o)
                      /\ Pend(o)' <=> Pend(o)
                      /\ ~Todo(o) /\ ~Todo(o)' /\ ~Hand(o) /\ ~Hand(o)'
  BY <1>2, <1>4, <1>7, QueueEmpty DEF Wait, Pend, Todo, Hand
<1>9. \A o \in OpId : /\ o \in ToSet(cq[c]) => InChan(o) /\ ~InChan(o)'
                      /\ o \notin ToSet(cq[c]) => (InChan(o)' <=> InChan(o))
  BY <1>3, QueueEmpty DEF InChan, Owners, Filed
<1>10. ASSUME NEW o \in OpId
       PROVE  /\ o \in ToSet(cq[c]) => ~Nowhere(o)
              /\ IF o \in ToSet(cq[c]) THEN Nowhere(o)' ELSE Stays(o)
  BY <1>8, <1>9 DEF Nowhere, Stays, Alone, Owners, OwnInv, OnePlace
<1>11. OwnInv'
  BY <1>2, <1>10, OwnDestroy DEF Inv, Owners
<1>12. ChanShape'
  <2>1. Attached' = Attached /\ c \notin Attached
    BY <1>1, <1>2, <1>5 DEF Attached, Owners, ChanShape
  <2>2. \A d \in Chan : (Leaving(d) <=> d = c) /\ ~Leaving(d)'
    BY <1>1, <1>5 DEF Leaving
  <2> QED
    BY <1>2, <1>3, <1>5, <2>1, <2>2, AttachedType
       DEF Owners, ChanShape, QDistinct, Inv
<1>13. FrameShape'
  BY <1>4 DEF FrameShape
<1> QED
  BY <1>6, <1>11, <1>12, <1>13 DEF Owners

-----------------------------------------------------------------------------
(* The invariant and the theorems *)

\* Every step keeps the ops in their places.
LEMMA OwnersStep ==
    ASSUME Inv, Owners, Next
    PROVE  Owners'
<1> USE DEF attVars, queues, opVars, chanCfg, peer, history
<1>1. ASSUME NEW t \in ClientTypes, NEW oc \in Opcode, NEW len \in Lens,
             Send(t, oc, len)
      PROVE  Owners'
  BY <1>1, OwnersSend DEF Send
<1>2. ASSUME NEW c \in Chan, NEW len \in Lens, ChanSendRsp(c, len)
      PROVE  Owners'
  BY <1>2, OwnersChanSend
<1>3. ASSUME NEW id \in 1..MaxOp, Cancel(id)
      PROVE  Owners'
  BY <1>3, OwnersCancel
<1>4. ASSUME CancelAll
      PROVE  Owners'
  BY <1>4, OwnersCancelAll
<1>5. ASSUME NEW m \in Mtus, SetMtu(m)
      PROVE  Owners'
  BY <1>5, OwnersSame DEF SetMtu, SamePlaces, Owners, FrameShape, Flushing,
     Attached
<1>6. ASSUME NEW l \in ClientLevels, SetSecurity(l)
      PROVE  Owners'
  BY <1>6, OwnersSame DEF SetSecurity, SamePlaces, Owners, FrameShape, Flushing,
     Attached
<1>7. ASSUME NEW c \in Chan, NEW m \in Mtus, AttachFd(c, m)
      PROVE  Owners'
  BY <1>7, OwnersAttach
<1>8. ASSUME ClientUnref
      PROVE  Owners'
  <2>1. CASE frame.k = "idle"
    <3>1. Free /\ frame'.k = "idle" /\ frame'.todo = <<>>
      BY <1>8, <2>1 DEF ClientUnref, Owners, FrameShape, Flushing
    <3> QED
      BY <2>1, <3>1, OwnersFree
  <2>2. CASE frame.k # "idle"
    BY <1>8, <2>2, OwnersSame DEF ClientUnref, SamePlaces, Owners, FrameShape,
       Flushing, Attached
  <2> QED
    BY <2>1, <2>2
<1>9. ASSUME NEW c \in Chan, NEW o \in OpId, NEW e \in Ecode,
             PeerAnswers(c, o, e)
      PROVE  Owners'
  <2>1. /\ UNCHANGED <<indQ, wrQ, cq, pendingInd, info, nops, chans, dtors, frees>>
        /\ c \in Attached /\ frame.k = "idle"
    BY <1>9 DEF PeerAnswers, HandleRsp, Readable, Idle
  <2>2. Calm
    BY <2>1 DEF Calm, Owners, FrameShape, Flushing, Detached
  <2>3. ASSUME RspUnexpected(c)
        PROVE  Owners'
    <3>1. /\ SamePlaces /\ UNCHANGED <<hs, frame>>
          /\ \A d \in Chan : sock'[d] = IF d = c THEN "shut" ELSE sock[d]
      BY <2>1, <2>3 DEF RspUnexpected, Shutdown, SamePlaces, Inv, TypeOK
    <3>2. FrameShape'
      BY <2>1, <3>1 DEF Owners, FrameShape, Flushing
    <3> QED
      BY <2>1, <3>1, <3>2, OwnersSame
  <2>4. ASSUME RspRetry(c, e)
        PROVE  Owners'
    BY <2>1, <2>4, OwnersRetry
  <2>5. ASSUME NEW q, RspDeliver(c, q, e)
        PROVE  Owners'
    <3>1. /\ SamePlaces /\ UNCHANGED <<hs, sock>> /\ pendingReq[c] # NoOp
          /\ frame'.k = "rsp" /\ frame'.c = c /\ frame'.op = pendingReq[c]
          /\ frame'.todo = <<>>
      BY <2>1, <2>5 DEF RspDeliver, SamePlaces, CallFrame
    <3>2. FrameShape' /\ Calm'
      BY <3>1 DEF FrameShape, SamePlaces, Calm, Detached
    <3> QED
      BY <2>1, <2>2, <3>1, <3>2, OwnersSame
  <2> QED
    BY <1>9, <2>3, <2>4, <2>5 DEF PeerAnswers, HandleRsp
<1>10. ASSUME NEW c \in Chan, NEW oc \in Opcode \cup {NoOpcode}, NEW e \in Ecode,
             RogueRsp(c, oc, e)
      PROVE  Owners'
  <2>1. /\ UNCHANGED <<indQ, wrQ, cq, pendingInd, info, nops, chans, dtors, frees>>
        /\ c \in Attached /\ frame.k = "idle"
    BY <1>10 DEF RogueRsp, HandleRsp, Readable, Idle
  <2>2. Calm
    BY <2>1 DEF Calm, Owners, FrameShape, Flushing, Detached
  <2>3. ASSUME RspUnexpected(c)
        PROVE  Owners'
    <3>1. /\ SamePlaces /\ UNCHANGED <<hs, frame>>
          /\ \A d \in Chan : sock'[d] = IF d = c THEN "shut" ELSE sock[d]
      BY <2>1, <2>3 DEF RspUnexpected, Shutdown, SamePlaces, Inv, TypeOK
    <3>2. FrameShape'
      BY <2>1, <3>1 DEF Owners, FrameShape, Flushing
    <3> QED
      BY <2>1, <3>1, <3>2, OwnersSame
  <2>4. ASSUME RspRetry(c, e)
        PROVE  Owners'
    BY <2>1, <2>4, OwnersRetry
  <2>5. ASSUME NEW q, RspDeliver(c, q, e)
        PROVE  Owners'
    <3>1. /\ SamePlaces /\ UNCHANGED <<hs, sock>> /\ pendingReq[c] # NoOp
          /\ frame'.k = "rsp" /\ frame'.c = c /\ frame'.op = pendingReq[c]
          /\ frame'.todo = <<>>
      BY <2>1, <2>5 DEF RspDeliver, SamePlaces, CallFrame
    <3>2. FrameShape' /\ Calm'
      BY <3>1 DEF FrameShape, SamePlaces, Calm, Detached
    <3> QED
      BY <2>1, <2>2, <3>1, <3>2, OwnersSame
  <2> QED
    BY <1>10, <2>3, <2>4, <2>5 DEF RogueRsp, HandleRsp
<1>11. ASSUME NEW c \in Chan, NEW o \in OpId, PeerConfirms(c, o)
      PROVE  Owners'
  <2>1. /\ SamePlaces /\ UNCHANGED <<hs, dtors, frees, nops, chans>>
        /\ c \in Attached /\ frame.k = "idle"
    BY <1>11 DEF PeerConfirms, HandleConf, Readable, Idle, SamePlaces
  <2>2. Calm
    BY <2>1 DEF Calm, Owners, FrameShape, Flushing, Detached
  <2>3. ASSUME Shutdown(c), UNCHANGED frame
        PROVE  Owners'
    <3>1. \A d \in Chan : sock'[d] = IF d = c THEN "shut" ELSE sock[d]
      BY <2>3 DEF Shutdown, Inv, TypeOK
    <3>2. FrameShape'
      BY <2>1, <2>3 DEF Owners, FrameShape, Flushing
    <3> QED
      BY <2>1, <2>3, <3>1, <3>2, OwnersSame
  <2>4. ASSUME pendingInd[c] # NoOp, UNCHANGED sock,
               frame' = CallFrame("conf", c, pendingInd[c],
                                  HasCallback(pendingInd[c]))
        PROVE  Owners'
    <3>1. /\ frame'.k = "conf" /\ frame'.c = c /\ frame'.op = pendingInd[c]
          /\ frame'.todo = <<>>
      BY <2>4 DEF CallFrame
    <3>2. FrameShape' /\ Calm'
      BY <2>1, <2>4, <3>1 DEF FrameShape, SamePlaces, Calm, Detached
    <3> QED
      BY <2>1, <2>2, <2>4, <3>1, <3>2, OwnersSame
  <2> QED
    BY <1>11, <2>3, <2>4 DEF PeerConfirms, HandleConf
<1>12. ASSUME NEW c \in Chan, NEW empty \in BOOLEAN, RogueConf(c, empty)
      PROVE  Owners'
  <2>1. /\ SamePlaces /\ UNCHANGED <<hs, dtors, frees, nops, chans>>
        /\ c \in Attached /\ frame.k = "idle"
    BY <1>12 DEF RogueConf, HandleConf, Readable, Idle, SamePlaces
  <2>2. Calm
    BY <2>1 DEF Calm, Owners, FrameShape, Flushing, Detached
  <2>3. ASSUME Shutdown(c), UNCHANGED frame
        PROVE  Owners'
    <3>1. \A d \in Chan : sock'[d] = IF d = c THEN "shut" ELSE sock[d]
      BY <2>3 DEF Shutdown, Inv, TypeOK
    <3>2. FrameShape'
      BY <2>1, <2>3 DEF Owners, FrameShape, Flushing
    <3> QED
      BY <2>1, <2>3, <3>1, <3>2, OwnersSame
  <2>4. ASSUME pendingInd[c] # NoOp, UNCHANGED sock,
               frame' = CallFrame("conf", c, pendingInd[c],
                                  HasCallback(pendingInd[c]))
        PROVE  Owners'
    <3>1. /\ frame'.k = "conf" /\ frame'.c = c /\ frame'.op = pendingInd[c]
          /\ frame'.todo = <<>>
      BY <2>4 DEF CallFrame
    <3>2. FrameShape' /\ Calm'
      BY <2>1, <2>4, <3>1 DEF FrameShape, SamePlaces, Calm, Detached
    <3> QED
      BY <2>1, <2>2, <2>4, <3>1, <3>2, OwnersSame
  <2> QED
    BY <1>12, <2>3, <2>4 DEF RogueConf, HandleConf
<1>13. ASSUME NEW c \in Chan, PeerRequestTwice(c)
      PROVE  Owners'
  <2>1. /\ SamePlaces /\ UNCHANGED <<hs, dtors, frees, nops, chans, frame>>
        /\ c \in Attached
        /\ \A d \in Chan : sock'[d] = IF d = c THEN "shut" ELSE sock[d]
    BY <1>13 DEF PeerRequestTwice, Readable, Shutdown, SamePlaces, Inv, TypeOK
  <2>2. FrameShape'
    BY <2>1 DEF Owners, FrameShape, Flushing, Attached, SamePlaces
  <2> QED
    BY <2>1, <2>2, OwnersSame
<1>14. ASSUME NEW c \in Chan, ReadError(c)
      PROVE  Owners'
  BY <1>14, OwnersSame DEF ReadError, SamePlaces, Owners, FrameShape, Flushing,
     Attached
<1>15. ASSUME NEW c \in Chan, PeerHangup(c)
      PROVE  Owners'
  <2>1. /\ SamePlaces /\ UNCHANGED <<hs, dtors, frees, nops, chans, frame>>
        /\ frame.k = "idle" /\ sock[c] = "up"
        /\ \A d \in Chan : sock'[d] = IF d = c THEN "hup" ELSE sock[d]
    BY <1>15 DEF PeerHangup, Idle, SamePlaces, Inv, TypeOK
  <2>2. FrameShape'
    BY <2>1 DEF Owners, FrameShape, Flushing, Attached, SamePlaces
  <2>3. c \in Attached
    BY <2>1 DEF Owners, ChanShape, Leaving, Flushing
  <2> QED
    BY <2>1, <2>2, <2>3, OwnersSame
<1>16. ASSUME NEW c \in Chan, NEW t \in PeerTypes, PeerSendsHandled(c, t)
      PROVE  Owners'
  <2>1. /\ SamePlaces /\ UNCHANGED <<hs, dtors, frees, nops, chans, sock>>
        /\ frame.k = "idle" /\ frame'.k = "notify" /\ frame'.todo = <<>>
    BY <1>16 DEF PeerSendsHandled, Arrives, Readable, Idle, SamePlaces, CallFrame
  <2>2. FrameShape' /\ Calm /\ Calm'
    BY <2>1 DEF Owners, FrameShape, Flushing, Calm, Detached
  <2> QED
    BY <2>1, <2>2, OwnersSame
<1>17. ASSUME NEW c \in Chan, NEW t \in PeerTypes, PeerSendsUnhandled(c, t)
      PROVE  Owners'
  BY <1>17, OwnersSend DEF PeerSendsUnhandled
<1>18. ASSUME NEW c \in Chan, WriteNone(c)
      PROVE  Owners'
  BY <1>18, OwnersSame DEF WriteNone, SamePlaces, Owners, FrameShape, Flushing,
     Attached
<1>19. ASSUME NEW c \in Chan, NEW out \in {"sent", "failed"}, WritePdu(c, out)
      PROVE  Owners'
  BY <1>19, OwnersWrite
<1>20. ASSUME NEW c \in Chan, WriteZero(c)
      PROVE  Owners'
  BY <1>20, OwnersZero
<1>21. ASSUME NEW c \in Chan, NEW o \in OpId, Timeout(c, o)
      PROVE  Owners'
  BY <1>21, OwnersTimeout
<1>22. ASSUME NEW c \in Chan, WatchError(c)
      PROVE  Owners'
  BY <1>22, OwnersSame DEF WatchError, SamePlaces, Owners, FrameShape, Flushing,
     Attached
<1>23. ASSUME NEW c \in Chan, Disconnect(c)
      PROVE  Owners'
  BY <1>23, OwnersDisconnect
<1>24. ASSUME NEW c \in Chan, ReturnRsp(c)
      PROVE  Owners'
  BY <1>24, OwnersAnswered DEF ReturnRsp
<1>25. ASSUME NEW c \in Chan, ReturnConf(c)
      PROVE  Owners'
  BY <1>25, OwnersAnswered DEF ReturnConf
<1>26. ASSUME ReturnZero
      PROVE  Owners'
  <2>1. /\ SamePlaces /\ UNCHANGED <<nops, chans, sock>> /\ Destroy({frame.op})
        /\ frame.k = "zero" /\ frame'.k = "idle" /\ frame'.todo = <<>>
        /\ frame'.op = NoOp
    BY <1>26 DEF ReturnZero, SamePlaces, IdleFrame
  <2>2. /\ frame.op # NoOp /\ frame.todo = <<>> /\ Detached /\ ~Flushing
        /\ FrameShape'
    BY <2>1 DEF Owners, FrameShape, Detached, Flushing
  <2> QED
    BY <2>1, <2>2, OwnersReturn
<1>27. ASSUME ReturnNotify
      PROVE  Owners'
  <2>1. /\ SamePlaces /\ UNCHANGED <<hs, dtors, frees, nops, chans, sock>>
        /\ frame.k \in {"notify", "dhand"}
        /\ frame'.k = "exit" /\ frame'.todo = <<>>
    BY <1>27 DEF ReturnNotify, SamePlaces, ExitFrame, IdleFrame
  <2>2. FrameShape' /\ Calm /\ Calm'
    BY <2>1 DEF Owners, FrameShape, Flushing, Calm, Detached
  <2> QED
    BY <2>1, <2>2, OwnersSame
<1>28. ASSUME Exit
      PROVE  Owners'
  <2>1. /\ frame.k = "exit" /\ frame'.k = "idle" /\ frame'.todo = <<>>
    BY <1>28 DEF Exit, IdleFrame
  <2>2. CASE clientRef
    <3>1. SamePlaces /\ UNCHANGED <<hs, dtors, frees, nops, chans, sock>>
      BY <1>28, <2>2 DEF Exit, SamePlaces
    <3>2. FrameShape' /\ Calm /\ Calm'
      BY <2>1 DEF Owners, FrameShape, Flushing, Calm, Detached
    <3> QED
      BY <3>1, <3>2, OwnersSame
  <2>3. CASE ~clientRef
    BY <1>28, <2>1, <2>3, OwnersFree DEF Exit
  <2> QED
    BY <2>2, <2>3
<1>29. ASSUME ReturnTimeout
      PROVE  Owners'
  <2>1. /\ SamePlaces /\ UNCHANGED <<nops, chans>> /\ Destroy({frame.op})
        /\ frame.k = "timeout" /\ frame'.k = "idle" /\ frame'.todo = <<>>
        /\ frame'.op = NoOp
        /\ \A d \in Chan : sock'[d] = IF d = frame.c THEN "shut" ELSE sock[d]
    BY <1>29 DEF ReturnTimeout, SamePlaces, IdleFrame, Shutdown, Inv, TypeOK
  <2>2. /\ frame.op # NoOp /\ frame.todo = <<>> /\ Detached /\ ~Flushing
        /\ FrameShape' /\ frame.c \in Attached
    BY <2>1 DEF Owners, FrameShape, Detached, Flushing
  <2> QED
    BY <2>1, <2>2, OwnersReturn
<1>30. ASSUME FlushCall
      PROVE  Owners'
  BY <1>30, OwnersFlushCall
<1>31. ASSUME ReturnFlush
      PROVE  Owners'
  <2>1. /\ SamePlaces /\ UNCHANGED <<nops, chans, sock>> /\ Destroy({frame.op})
        /\ Flushing /\ frame.op # NoOp
        /\ frame'.k = frame.k /\ frame'.c = frame.c
        /\ frame'.todo = frame.todo /\ frame'.op = NoOp
    BY <1>31 DEF ReturnFlush, SamePlaces, Inv, TypeOK, Frame
  <2>2. Detached /\ FrameShape'
    BY <2>1 DEF FrameShape, Detached, Flushing
  <2> QED
    BY <2>1, <2>2, OwnersReturn
<1>32. ASSUME FlushInd
      PROVE  Owners'
  BY <1>32, OwnersFlushInd
<1>33. ASSUME FlushWrite
      PROVE  Owners'
  BY <1>33, OwnersFlushWrite
<1>34. ASSUME FlushPending
      PROVE  Owners'
  BY <1>34, OwnersFlushPending
<1>35. ASSUME ChanFree
      PROVE  Owners'
  BY <1>35, OwnersChanFree
<1>36. ASSUME ReturnDisconnect
      PROVE  Owners'
  <2>1. /\ SamePlaces /\ UNCHANGED <<hs, dtors, frees, nops, chans, sock>>
        /\ frame.k \in {"notify", "dhand"}
        /\ frame'.k = "exit" /\ frame'.todo = <<>>
    BY <1>36 DEF ReturnDisconnect, SamePlaces, ExitFrame, IdleFrame
  <2>2. FrameShape' /\ Calm /\ Calm'
    BY <2>1 DEF Owners, FrameShape, Flushing, Calm, Detached
  <2> QED
    BY <2>1, <2>2, OwnersSame
<1> QED
  BY <1>1, <1>2, <1>3, <1>4, <1>5, <1>6, <1>7, <1>8, <1>9, <1>10, <1>11,
     <1>12, <1>13, <1>14, <1>15, <1>16, <1>17, <1>18, <1>19, <1>20, <1>21,
     <1>22, <1>23, <1>24, <1>25, <1>26, <1>27, <1>28, <1>29, <1>30, <1>31,
     <1>32, <1>33, <1>34, <1>35, <1>36 DEF Next, Client, Environment, Loop,
     Return


\* A new bearer has no op.
LEMMA OwnersInit == Init => Owners
<1> SUFFICES ASSUME Init
             PROVE  Owners
  OBVIOUS
<1>1. /\ reqQ = <<>> /\ indQ = <<>> /\ wrQ = <<>> /\ chans = <<Original>>
      /\ frame.k = "idle" /\ frame.todo = <<>> /\ nops = 0 /\ hs = {}
      /\ \A c \in Chan : /\ cq[c] = <<>> /\ pendingReq[c] = NoOp
                         /\ pendingInd[c] = NoOp
                         /\ sock[c] = IF c = Original THEN "up" ELSE "unused"
      /\ \A o \in OpId : frees[o] = 0
  BY DEF Init, IdleFrame
<1>2. ~Flushing /\ ~Detached
  BY <1>1 DEF Flushing, Detached
<1>3. Attached = {Original} /\ QDistinct(chans)
  BY <1>1 DEF Attached, ToSet, QDistinct
<1>4. Filed /\ NoTwice
  BY <1>1, QueueEmpty DEF Filed, NoTwice
<1>5. ChanShape
  BY <1>1, <1>2, <1>3, ChanAssumption DEF ChanShape, Leaving
<1>6. FrameShape
  BY <1>1 DEF FrameShape
<1>7. ASSUME NEW o \in OpId PROVE OnePlace(o)
  <2>1. o # NoOp /\ o > 0
    BY DEF OpId, NoOp
  <2>2. Nowhere(o)
    BY <1>1, <1>2, <2>1, QueueEmpty DEF Nowhere, Wait, InChan, Pend, Todo, Hand
  <2>3. ~Live(o) /\ Counted(o)
    BY <1>1, <2>1 DEF Live, Counted, OpId
  <2> QED
    BY <2>2, <2>3 DEF OnePlace, Nowhere, Alone
<1> QED
  BY <1>4, <1>5, <1>6, <1>7 DEF Owners, OwnInv

\* The invariant holds always.
LEMMA OwnersAlways == Spec => [](Inv /\ Owners)
<1>1. ASSUME Inv, Owners, UNCHANGED vars
      PROVE  Owners'
  <2>1. /\ SamePlaces /\ UNCHANGED <<hs, dtors, frees, nops, chans, sock, frame>>
    BY <1>1 DEF vars, attVars, queues, opVars, history, SamePlaces
  <2>2. FrameShape'
    BY <1>1, <2>1 DEF Owners, FrameShape, Flushing, Attached, SamePlaces
  <2> QED
    BY <1>1, <2>1, <2>2, OwnersSame
<1>2. Inv /\ Owners /\ [Next]_vars => (Inv /\ Owners)'
  BY <1>1, InvStep, OwnersStep
<1>3. Init => Inv /\ Owners
  BY InvInit, OwnersInit
<1> QED
  BY <1>2, <1>3, PTL DEF Spec

\* Every op that was created and not freed is in exactly one place, a freed
\* one in none, and it is freed once, after its destroy handler has run: no
\* leak, no dangling pointer and no double ownership in the hand-over between
\* the queues, the pending slots, the flush of disconnect_cb and bt_att_free.
THEOREM OwnedOnceCorrect == Spec => []OwnedOnce
<1>1. ASSUME Inv, Owners
      PROVE  OwnedOnce
  <2> SUFFICES ASSUME NEW o \in OpId
               PROVE  /\ Live(o) <=> Places(o) # {}
                      /\ \A p, q \in Places(o) : p = q
                      /\ frees[o] <= 1
                      /\ frees[o] = 1 => dtors[o] >= 1
    BY DEF OwnedOnce
  <2>1. OnePlace(o)
    BY <1>1 DEF Owners, OwnInv
  <2>2. frees[o] <= 1 /\ (frees[o] = 1 => dtors[o] >= 1)
    <3>1. o \in Nat /\ nops \in Nat
      BY <1>1 DEF Inv, TypeOK, OpId
    <3> QED
      BY <2>1, <3>1 DEF OnePlace, Counted
  <2> DEFINE At(q, l, c, p) == \E i \in 1..Len(q) : q[i] = o /\ p = <<l, c, i>>
             R(p) == At(reqQ, "req", NoChan, p)
             I(p) == At(indQ, "ind", NoChan, p)
             W(p) == At(wrQ, "write", NoChan, p)
             T(p) == At(frame.todo, "todo", NoChan, p)
             C(p) == \E c \in Chan : At(cq[c], "chan", c, p)
             P(p) == \E c \in Chan : pendingReq[c] = o /\ p = <<"preq", c, 0>>
             N(p) == \E c \in Chan : pendingInd[c] = o /\ p = <<"pind", c, 0>>
             H(p) == Hand(o) /\ p = <<"frame", NoChan, 0>>
  <2>3. \A p : p \in Places(o) <=>
                   R(p) \/ I(p) \/ W(p) \/ T(p) \/ C(p) \/ P(p) \/ N(p) \/ H(p)
    <3> DEFINE F == IF Detached /\ frame.op = o THEN {<<"frame", NoChan, 0>>}
                    ELSE {}
    <3>1. \A p : /\ p \in PlacesIn(reqQ, "req", NoChan, o) <=> R(p)
                 /\ p \in PlacesIn(indQ, "ind", NoChan, o) <=> I(p)
                 /\ p \in PlacesIn(wrQ, "write", NoChan, o) <=> W(p)
                 /\ p \in PlacesIn(frame.todo, "todo", NoChan, o) <=> T(p)
      BY Zenon DEF PlacesIn
    <3>2. \A p : p \in ChanPlaces(o) <=> C(p)
      <4>1. \A p : (\E c \in Chan : p \in PlacesIn(cq[c], "chan", c, o)) <=> C(p)
        BY Zenon DEF PlacesIn
      <4> QED
        BY <4>1 DEF ChanPlaces
    <3>3. \A p : /\ p \in SlotsOf(pendingReq, "preq", o) <=> P(p)
                 /\ p \in SlotsOf(pendingInd, "pind", o) <=> N(p)
      BY Zenon DEF SlotsOf
    <3>4. \A p : p \in F <=> H(p)
      BY Zenon DEF Hand
    <3>5. \A p : p \in Places(o) <=>
                    \/ p \in PlacesIn(reqQ, "req", NoChan, o)
                    \/ p \in PlacesIn(indQ, "ind", NoChan, o)
                    \/ p \in PlacesIn(wrQ, "write", NoChan, o)
                    \/ p \in PlacesIn(frame.todo, "todo", NoChan, o)
                    \/ p \in ChanPlaces(o)
                    \/ p \in SlotsOf(pendingReq, "preq", o)
                    \/ p \in SlotsOf(pendingInd, "pind", o)
                    \/ p \in F
      BY DEF Places
    <3> HIDE DEF F
    <3> HIDE DEF R, I, W, T, C, P, N, H
    <3> QED
      BY <3>1, <3>2, <3>3, <3>4, <3>5, Zenon
  <2>4. ASSUME NEW q \in Seq(OpId), QDistinct(q), NEW l, NEW c
        PROVE  /\ (\E p : At(q, l, c, p)) <=> o \in ToSet(q)
               /\ \A p, r : At(q, l, c, p) /\ At(q, l, c, r) => p = r
    <3>1. o \in ToSet(q) <=> \E i \in 1..Len(q) : q[i] = o
      BY DEF ToSet
    <3> QED
      BY <2>4, <3>1 DEF QDistinct
  <2> HIDE DEF At
  <2>5. /\ \A q \in {reqQ, indQ, wrQ, frame.todo} : q \in Seq(OpId) /\ QDistinct(q)
        /\ \A c \in Chan : cq[c] \in Seq(OpId) /\ QDistinct(cq[c])
    BY <1>1, ShrunkQueues, FrameFields DEF Inv, Owners, NoTwice
  <2>6. /\ (\E p : R(p)) <=> o \in ToSet(reqQ)
        /\ (\E p : I(p)) <=> o \in ToSet(indQ)
        /\ (\E p : W(p)) <=> o \in ToSet(wrQ)
        /\ (\E p : T(p)) <=> Todo(o)
        /\ (\E p : C(p)) <=> InChan(o)
    <3>1. /\ (\E p : R(p)) <=> o \in ToSet(reqQ)
          /\ (\E p : I(p)) <=> o \in ToSet(indQ)
      BY <2>4, <2>5
    <3>2. /\ (\E p : W(p)) <=> o \in ToSet(wrQ)
          /\ (\E p : T(p)) <=> Todo(o)
      BY <2>4, <2>5 DEF Todo
    <3>3. (\E p : C(p)) <=> \E c \in Chan : o \in ToSet(cq[c])
      <4>1. \A c \in Chan :
                (\E p : At(cq[c], "chan", c, p)) <=> o \in ToSet(cq[c])
        BY <2>4, <2>5
      <4> QED
        BY <4>1
    <3> QED
      BY <3>1, <3>2, <3>3 DEF InChan
  <2>7. /\ (\E p : P(p) \/ N(p)) <=> Pend(o)
        /\ (\E p : H(p)) <=> Hand(o)
    BY DEF Pend
  <2>8. /\ \A p, r : R(p) /\ R(r) => p = r
        /\ \A p, r : I(p) /\ I(r) => p = r
        /\ \A p, r : W(p) /\ W(r) => p = r
        /\ \A p, r : T(p) /\ T(r) => p = r
    BY <2>4, <2>5
  <2>9. \A p, r : C(p) /\ C(r) => p = r
    <3> SUFFICES ASSUME NEW p, NEW r, NEW c \in Chan, NEW d \in Chan,
                        At(cq[c], "chan", c, p), At(cq[d], "chan", d, r)
                 PROVE  p = r
      OBVIOUS
    <3>1. o \in ToSet(cq[c]) /\ o \in ToSet(cq[d])
      BY <2>4, <2>5
    <3>2. c = d
      BY <1>1, <3>1 DEF Owners, Filed
    <3> QED
      BY <2>4, <2>5, <3>2
  <2>10. /\ \A p, r : (P(p) \/ N(p)) /\ (P(r) \/ N(r)) => p = r
         /\ \A p, r : H(p) /\ H(r) => p = r
    <3>1. o # NoOp
      BY DEF OpId, NoOp
    <3> QED
      BY <1>1, <3>1, PendOnly
  <2>11. /\ ToSet(reqQ) \cap ToSet(indQ) = {}
         /\ ToSet(reqQ) \cap ToSet(wrQ) = {}
         /\ ToSet(indQ) \cap ToSet(wrQ) = {}
    BY <1>1, ShrunkQueues
  <2> HIDE DEF R, I, W, T, C, P, N, H
  <2>12. ~Nowhere(o) <=> Places(o) # {}
    <3>1. Places(o) # {} <=> \E p : p \in Places(o)
      OBVIOUS
    <3> QED
      BY <2>3, <2>6, <2>7, <3>1 DEF Nowhere, Wait
  <2>13. \A p, r \in Places(o) : p = r
    BY <2>1, <2>3, <2>6, <2>7, <2>8, <2>9, <2>10, <2>11 DEF OnePlace, Alone, Wait
  <2> QED
    BY <2>1, <2>2, <2>12, <2>13 DEF OnePlace
<1> QED
  BY <1>1, OwnersAlways, PTL


-----------------------------------------------------------------------------
(* The timers *)

\* A timer runs for the ops that are pending, and for those that were when
\* disconnect_cb took them.
Timed ==
    \A o \in OpId : o \in armed <=>
        Pend(o) \/ (frame.k = "dpend" /\ (o = frame.op \/ Todo(o)))

\* Neither the timers nor what is pending changes.
LEMMA TimedSame ==
    ASSUME Timed, UNCHANGED <<armed, pendingReq, pendingInd>>,
           UNCHANGED frame \/ (frame.k # "dpend" /\ frame'.k # "dpend")
    PROVE  Timed'
  BY DEF Timed, Pend, Todo, OpId

\* A slot is cleared and the timer of its op with it.
LEMMA TimedCleared ==
    ASSUME Inv, Owners, Timed, NEW c \in Chan,
           frame.k # "dpend", frame'.k # "dpend",
           \/ /\ pendingReq[c] # NoOp /\ armed' = armed \ {pendingReq[c]}
              /\ pendingReq' = [pendingReq EXCEPT ![c] = NoOp]
              /\ UNCHANGED pendingInd
           \/ /\ pendingInd[c] # NoOp /\ armed' = armed \ {pendingInd[c]}
              /\ pendingInd' = [pendingInd EXCEPT ![c] = NoOp]
              /\ UNCHANGED pendingReq
    PROVE  Timed'
<1>1. PICK x \in {pendingReq[c], pendingInd[c]} :
          /\ x # NoOp /\ armed' = armed \ {x}
          /\ \A d \in Chan :
                 /\ pendingReq'[d] = IF d = c /\ x = pendingReq[c] THEN NoOp
                                     ELSE pendingReq[d]
                 /\ pendingInd'[d] = IF d = c /\ x = pendingInd[c] THEN NoOp
                                     ELSE pendingInd[d]
  BY PendOnly DEF Inv, TypeOK
<1>2. \A o \in OpId : o # NoOp
  BY DEF OpId, NoOp
<1>3. \A o \in OpId : Pend(o)' <=> Pend(o) /\ o # x
  BY <1>1, <1>2, PendOnly DEF Pend
<1> QED
  BY <1>1, <1>3 DEF Timed

\* bt_att_free stops every timer.
LEMMA TimedFree ==
    ASSUME Inv, Owners, Timed, Free, frame.k \in {"idle", "exit"},
           frame'.k = "idle"
    PROVE  Timed'
<1>1. \A c \in Chan : pendingReq'[c] = NoOp /\ pendingInd'[c] = NoOp
  BY HeldIsAll DEF Free
<1>2. \A o \in OpId : ~Pend(o)'
  BY <1>1 DEF Pend, OpId, NoOp
<1>3. \A o \in OpId : o \in armed => o \in HeldOps
  BY HeldIsAll DEF Timed, Nowhere
<1> QED
  BY <1>2, <1>3 DEF Timed, Free

\* The op taken by can_write_data waits for an answer, and is timed.
LEMMA TimedWrite ==
    ASSUME Inv, Owners, Timed, NEW c \in Chan, NEW out, WritePdu(c, out)
    PROVE  Timed'
<1> USE DEF attVars, queues, opVars, chanCfg, peer, history
<1>1. /\ PickSource(c) # "none" /\ PopPicked(c)
      /\ frame.k = "idle" /\ frame' = frame
  BY DEF WritePdu, Idle
<1>2. PICK x \in OpId : Written(c, out, x)
  BY WriteEffect
<1>3. \A o \in OpId : Pend(o)' <=>
          Pend(o) \/ (o = x /\ info[x].type \in {"REQ", "IND"})
  <2>1. \A o \in OpId : o # NoOp
    BY DEF OpId, NoOp
  <2> QED
    BY <1>2, <2>1 DEF Pend, Written
<1> QED
  BY <1>1, <1>2, <1>3 DEF Timed, Written

\* Every step keeps a timer running for exactly the ops that need one.
LEMMA TimedStep ==
    ASSUME Inv, Owners, Timed, Next
    PROVE  Timed'
<1> USE DEF attVars, queues, opVars, chanCfg, peer, history
<1>1. ASSUME NEW t \in ClientTypes, NEW oc \in Opcode, NEW len \in Lens,
             Send(t, oc, len)
      PROVE  Timed'
  BY <1>1, TimedSame DEF Send
<1>2. ASSUME NEW c \in Chan, NEW len \in Lens, ChanSendRsp(c, len)
      PROVE  Timed'
  BY <1>2, TimedSame DEF ChanSendRsp
<1>3. ASSUME NEW id \in 1..MaxOp, Cancel(id)
      PROVE  Timed'
  BY <1>3, TimedSame DEF Cancel, CancelPending, CancelQueued
<1>4. ASSUME CancelAll
      PROVE  Timed'
  BY <1>4, TimedSame DEF CancelAll
<1>5. ASSUME NEW m \in Mtus, SetMtu(m)
      PROVE  Timed'
  BY <1>5, TimedSame DEF SetMtu
<1>6. ASSUME NEW l \in ClientLevels, SetSecurity(l)
      PROVE  Timed'
  BY <1>6, TimedSame DEF SetSecurity
<1>7. ASSUME NEW c \in Chan, NEW m \in Mtus, AttachFd(c, m)
      PROVE  Timed'
  BY <1>7, TimedSame DEF AttachFd
<1>8. ASSUME ClientUnref
      PROVE  Timed'
  <2>1. CASE frame.k = "idle"
    BY <1>8, <2>1, TimedFree DEF ClientUnref
  <2>2. CASE frame.k # "idle"
    BY <1>8, <2>2, TimedSame DEF ClientUnref
  <2> QED
    BY <2>1, <2>2
<1>9. ASSUME NEW c \in Chan, NEW o \in OpId, NEW e \in Ecode,
             PeerAnswers(c, o, e)
      PROVE  Timed'
  <2>1. frame.k = "idle" /\ UNCHANGED pendingInd
    BY <1>9 DEF PeerAnswers, HandleRsp, Readable, Idle
  <2>2. ASSUME RspUnexpected(c)
        PROVE  Timed'
    BY <2>1, <2>2, TimedSame DEF RspUnexpected
  <2>3. ASSUME RspRetry(c, e)
        PROVE  Timed'
    BY <2>1, <2>3, TimedCleared DEF RspRetry
  <2>4. ASSUME NEW q, RspDeliver(c, q, e)
        PROVE  Timed'
    BY <2>1, <2>4, TimedSame DEF RspDeliver, CallFrame
  <2> QED
    BY <1>9, <2>2, <2>3, <2>4 DEF PeerAnswers, HandleRsp
<1>10. ASSUME NEW c \in Chan, NEW oc \in Opcode \cup {NoOpcode}, NEW e \in Ecode,
             RogueRsp(c, oc, e)
      PROVE  Timed'
  <2>1. frame.k = "idle" /\ UNCHANGED pendingInd
    BY <1>10 DEF RogueRsp, HandleRsp, Readable, Idle
  <2>2. ASSUME RspUnexpected(c)
        PROVE  Timed'
    BY <2>1, <2>2, TimedSame DEF RspUnexpected
  <2>3. ASSUME RspRetry(c, e)
        PROVE  Timed'
    BY <2>1, <2>3, TimedCleared DEF RspRetry
  <2>4. ASSUME NEW q, RspDeliver(c, q, e)
        PROVE  Timed'
    BY <2>1, <2>4, TimedSame DEF RspDeliver, CallFrame
  <2> QED
    BY <1>10, <2>2, <2>3, <2>4 DEF RogueRsp, HandleRsp
<1>11. ASSUME NEW c \in Chan, NEW o \in OpId, PeerConfirms(c, o)
      PROVE  Timed'
  BY <1>11, TimedSame DEF PeerConfirms, HandleConf, Readable, Idle, CallFrame
<1>12. ASSUME NEW c \in Chan, NEW empty \in BOOLEAN, RogueConf(c, empty)
      PROVE  Timed'
  BY <1>12, TimedSame DEF RogueConf, HandleConf, Readable, Idle, CallFrame
<1>13. ASSUME NEW c \in Chan, PeerRequestTwice(c)
      PROVE  Timed'
  BY <1>13, TimedSame DEF PeerRequestTwice
<1>14. ASSUME NEW c \in Chan, ReadError(c)
      PROVE  Timed'
  BY <1>14, TimedSame DEF ReadError
<1>15. ASSUME NEW c \in Chan, PeerHangup(c)
      PROVE  Timed'
  BY <1>15, TimedSame DEF PeerHangup
<1>16. ASSUME NEW c \in Chan, NEW t \in PeerTypes, PeerSendsHandled(c, t)
      PROVE  Timed'
  BY <1>16, TimedSame DEF PeerSendsHandled, Arrives, Readable, Idle, CallFrame
<1>17. ASSUME NEW c \in Chan, NEW t \in PeerTypes, PeerSendsUnhandled(c, t)
      PROVE  Timed'
  BY <1>17, TimedSame DEF PeerSendsUnhandled
<1>18. ASSUME NEW c \in Chan, WriteNone(c)
      PROVE  Timed'
  BY <1>18, TimedSame DEF WriteNone
<1>19. ASSUME NEW c \in Chan, NEW out \in {"sent", "failed"}, WritePdu(c, out)
      PROVE  Timed'
  BY <1>19, TimedWrite
<1>20. ASSUME NEW c \in Chan, WriteZero(c)
      PROVE  Timed'
  BY <1>20, TimedSame DEF WriteZero, Idle, CallFrame
<1>21. ASSUME NEW c \in Chan, NEW o \in OpId, Timeout(c, o)
      PROVE  Timed'
  <2>1. /\ frame.k = "idle" /\ frame'.k = "timeout" /\ armed' = armed \ {o}
        /\ o = pendingReq[c] \/ o = pendingInd[c]
    BY <1>21 DEF Timeout, Idle, CallFrame
  <2>2. \A d \in Chan :
            /\ pendingReq'[d] = IF d = c /\ pendingReq[c] = o THEN NoOp
                                ELSE pendingReq[d]
            /\ pendingInd'[d] = IF d = c /\ pendingReq[c] # o THEN NoOp
                                ELSE pendingInd[d]
    BY <1>21 DEF Timeout, Inv, TypeOK
  <2>3. \A x \in OpId : Pend(x)' <=> Pend(x) /\ x # o
    <3>1. \A x \in OpId : x # NoOp
      BY DEF OpId, NoOp
    <3> QED
      BY <2>1, <2>2, <3>1, PendOnly DEF Pend
  <2> QED
    BY <2>1, <2>3 DEF Timed
<1>22. ASSUME NEW c \in Chan, WatchError(c)
      PROVE  Timed'
  BY <1>22, TimedSame DEF WatchError
<1>23. ASSUME NEW c \in Chan, Disconnect(c)
      PROVE  Timed'
  BY <1>23, TimedSame DEF Disconnect, Idle
<1>24. ASSUME NEW c \in Chan, ReturnRsp(c)
      PROVE  Timed'
  <2>1. frame.op = pendingReq[c] /\ frame.op # NoOp /\ frame.k = "rsp"
    BY <1>24 DEF ReturnRsp, Owners, FrameShape
  <2> QED
    BY <1>24, <2>1, TimedCleared DEF ReturnRsp, ExitFrame, IdleFrame
<1>25. ASSUME NEW c \in Chan, ReturnConf(c)
      PROVE  Timed'
  <2>1. frame.op = pendingInd[c] /\ frame.op # NoOp /\ frame.k = "conf"
    BY <1>25 DEF ReturnConf, Owners, FrameShape
  <2> QED
    BY <1>25, <2>1, TimedCleared DEF ReturnConf, ExitFrame, IdleFrame
<1>26. ASSUME ReturnZero
      PROVE  Timed'
  BY <1>26, TimedSame DEF ReturnZero, IdleFrame
<1>27. ASSUME ReturnNotify
      PROVE  Timed'
  BY <1>27, TimedSame DEF ReturnNotify, ExitFrame, IdleFrame
<1>28. ASSUME Exit
      PROVE  Timed'
  <2>1. frame.k = "exit" /\ frame'.k = "idle"
    BY <1>28 DEF Exit, IdleFrame
  <2>2. CASE clientRef
    BY <1>28, <2>1, <2>2, TimedSame DEF Exit
  <2>3. CASE ~clientRef
    BY <1>28, <2>1, <2>3, TimedFree DEF Exit
  <2> QED
    BY <2>2, <2>3
<1>29. ASSUME ReturnTimeout
      PROVE  Timed'
  BY <1>29, TimedSame DEF ReturnTimeout, IdleFrame
<1>30. ASSUME FlushCall
      PROVE  Timed'
  <2>1. /\ UNCHANGED <<armed, pendingReq, pendingInd>>
        /\ frame.op = NoOp /\ frame.todo # <<>>
        /\ frame'.k = frame.k /\ frame'.op = Head(frame.todo)
        /\ frame'.todo = Tail(frame.todo)
    BY <1>30 DEF FlushCall, Inv, TypeOK, Frame
  <2>2. /\ Head(frame.todo) \in ToSet(frame.todo)
        /\ ToSet(frame'.todo) = ToSet(frame.todo) \ {Head(frame.todo)}
    BY <2>1, FrameFields, QueueMoves DEF Inv, Owners, NoTwice
  <2>3. \A o \in OpId : /\ o # NoOp
                        /\ Pend(o)' <=> Pend(o)
                        /\ o = frame'.op \/ Todo(o)' <=> Todo(o)
    BY <2>1, <2>2 DEF OpId, NoOp, Pend, Todo
  <2> QED
    BY <2>1, <2>3 DEF Timed
<1>31. ASSUME ReturnFlush
      PROVE  Timed'
  <2>1. /\ UNCHANGED <<pendingReq, pendingInd>> /\ armed' = armed \ {frame.op}
        /\ Flushing /\ frame.op # NoOp
        /\ frame'.k = frame.k /\ frame'.op = NoOp /\ frame'.todo = frame.todo
    BY <1>31 DEF ReturnFlush, Inv, TypeOK, Frame
  <2>2. \A o \in OpId : /\ o # NoOp
                        /\ Pend(o)' <=> Pend(o)
                        /\ Todo(o)' <=> Todo(o)
    BY <2>1 DEF OpId, NoOp, Pend, Todo
  <2>3. \A o \in OpId : o = frame.op => ~Pend(o) /\ ~Todo(o)
    BY <2>1 DEF Hand, Detached, Flushing, Owners, OwnInv, OnePlace, Alone
  <2> QED
    BY <2>1, <2>2, <2>3 DEF Timed
<1>32. ASSUME FlushInd
      PROVE  Timed'
  <2>1. frame.k = "dreq" /\ frame'.k = "dind"
    BY <1>32 DEF FlushInd, FlushDone, Inv, TypeOK, Frame
  <2> QED
    BY <1>32, <2>1, TimedSame DEF FlushInd
<1>33. ASSUME FlushWrite
      PROVE  Timed'
  <2>1. frame.k = "dind" /\ frame'.k = "dwrite"
    BY <1>33 DEF FlushWrite, FlushDone, Inv, TypeOK, Frame
  <2> QED
    BY <1>33, <2>1, TimedSame DEF FlushWrite
<1>34. ASSUME FlushPending
      PROVE  Timed'
  <2>1. PICK c \in Chan : c = frame.c
    BY <1>34, FrameFields DEF FlushPending, FlushDone, Inv
  <2>2. /\ frame.k = "dwrite" /\ frame'.k = "dpend" /\ frame'.op = NoOp
        /\ frame'.todo = Single(pendingReq[c]) \o Single(pendingInd[c])
        /\ UNCHANGED armed
    BY <1>34, <2>1 DEF FlushPending, FlushDone, Inv, TypeOK, Frame
  <2>3. \A d \in Chan :
            /\ pendingReq'[d] = IF d = c THEN NoOp ELSE pendingReq[d]
            /\ pendingInd'[d] = IF d = c THEN NoOp ELSE pendingInd[d]
    BY <1>34, <2>1 DEF FlushPending, Inv, TypeOK
  <2>4. ToSet(frame'.todo) = {pendingReq[c], pendingInd[c]} \ {NoOp}
    <3>1. /\ pendingReq[c] \in OpId \cup {NoOp}
          /\ pendingInd[c] \in OpId \cup {NoOp}
          /\ pendingReq[c] = pendingInd[c] => pendingReq[c] = NoOp
      BY PendOnly DEF Inv, TypeOK
    <3> QED
      BY <2>2, <3>1, SinglesList
  <2>5. \A o \in OpId : o # NoOp /\ (Pend(o) <=> Pend(o)' \/ Todo(o)')
    <3>1. \A o \in OpId : o # NoOp
      BY DEF OpId, NoOp
    <3> QED
      BY <2>3, <2>4, <3>1 DEF Pend, Todo
  <2> QED
    BY <2>2, <2>5 DEF Timed
<1>35. ASSUME ChanFree
      PROVE  Timed'
  <2>1. /\ UNCHANGED <<armed, pendingReq, pendingInd>>
        /\ frame.k = "dpend" /\ frame.op = NoOp /\ frame.todo = <<>>
        /\ frame'.k # "dpend"
    BY <1>35 DEF ChanFree, FlushDone, CallFrame, IdleFrame
  <2>2. \A o \in OpId : /\ o # NoOp /\ ~Todo(o)
                        /\ Pend(o)' <=> Pend(o)
    BY <2>1, QueueEmpty DEF OpId, NoOp, Pend, Todo
  <2> QED
    BY <2>1, <2>2 DEF Timed
<1>36. ASSUME ReturnDisconnect
      PROVE  Timed'
  BY <1>36, TimedSame DEF ReturnDisconnect, ExitFrame, IdleFrame
<1> QED
  BY <1>1, <1>2, <1>3, <1>4, <1>5, <1>6, <1>7, <1>8, <1>9, <1>10, <1>11,
     <1>12, <1>13, <1>14, <1>15, <1>16, <1>17, <1>18, <1>19, <1>20, <1>21,
     <1>22, <1>23, <1>24, <1>25, <1>26, <1>27, <1>28, <1>29, <1>30, <1>31,
     <1>32, <1>33, <1>34, <1>35, <1>36 DEF Next, Client, Environment, Loop,
     Return

\* A timer runs for exactly the ops that wait for an answer: none waits forever,
\* and none fires for an op that was answered, retried or freed.
THEOREM TimerIffPendingCorrect == Spec => []TimerIffPending
<1>1. Init => Timed
  BY DEF Init, Timed, Pend, IdleFrame, OpId, NoOp
<1>2. Inv /\ Owners /\ Timed /\ [Next]_vars => Timed'
  <2>1. ASSUME Timed, UNCHANGED vars
        PROVE  Timed'
    BY <2>1, TimedSame DEF vars
  <2> QED
    BY <2>1, TimedStep
<1>3. Inv /\ Timed => TimerIffPending
  <2> SUFFICES ASSUME Inv, Timed
               PROVE  TimerIffPending
    OBVIOUS
  <2>1. armed \subseteq OpId
    BY DEF Inv, TypeOK
  <2>2. \A o \in OpId : Pend(o) <=> \E c \in Chan : o \in {pendingReq[c], pendingInd[c]}
    BY DEF Pend
  <2> QED
    BY <2>1, <2>2 DEF Timed, TimerIffPending, Todo
<1> QED
  BY <1>1, <1>2, <1>3, OwnersAlways, PTL DEF Spec


-----------------------------------------------------------------------------
(* The sequential protocol, with a peer that keeps to it *)

\* The op a handler is about to take out of its slot is answered.
Answered(c, o) == frame.k \in {"rsp", "conf"} /\ frame.c = c /\ frame.op = o

\* The peer owes an answer for pending ops only, and for none that is being
\* answered; also after it hung up, for what it sent before is still read.
\* A channel that was shut down, or is about to be, may be out of step.
OwesOn(c) ==
    /\ sock[c] = "unused" => owed[c] = {}
    /\ /\ c \in Attached /\ sock[c] \in {"up", "hup"}
       /\ ~(frame.k = "timeout" /\ frame.c = c)
       => \A o \in owed[c] : /\ o = pendingReq[c] \/ o = pendingInd[c]
                             /\ ~Answered(c, o)

Owes == \A c \in Chan : OwesOn(c)

\* A channel the step does not use, or takes down.
LEMMA OwesKept ==
    ASSUME NEW d \in Chan, OwesOn(d), owed'[d] = owed[d],
           pendingReq'[d] = pendingReq[d], pendingInd'[d] = pendingInd[d],
           d \in Attached' => d \in Attached,
           \/ sock'[d] = sock[d]
           \/ sock'[d] \in {"shut", "freed"}
           \/ sock[d] = "up" /\ sock'[d] = "hup",
           frame.k = "timeout" /\ frame.c = d
               => UNCHANGED frame \/ sock'[d] \notin {"up", "hup"},
           UNCHANGED frame \/ frame'.k \notin {"rsp", "conf"} \/ frame'.c # d
    PROVE  OwesOn(d)'
  BY DEF OwesOn, Answered

\* Nothing that matters to any channel changes.
LEMMA OwesSame ==
    ASSUME Owes, UNCHANGED <<owed, pendingReq, pendingInd, chans, sock>>,
           \/ UNCHANGED frame
           \/ frame.k # "timeout" /\ frame'.k \notin {"rsp", "conf"}
    PROVE  Owes'
<1>1. Attached' = Attached
  BY DEF Attached
<1>2. SUFFICES ASSUME NEW d \in Chan
               PROVE  OwesOn(d)'
  BY DEF Owes
<1> QED
  BY <1>1, OwesKept DEF Owes

\* A channel is shut down.
LEMMA OwesShut ==
    ASSUME Inv, Owes, NEW c \in Chan, Shutdown(c),
           UNCHANGED <<pendingReq, pendingInd, chans>>,
           \A d \in Chan : d # c => owed'[d] = owed[d],
           \/ UNCHANGED frame
           \/ /\ frame.k = "timeout" => frame.c = c
              /\ frame'.k \notin {"rsp", "conf"}
    PROVE  Owes'
<1>1. Attached' = Attached /\ \A d \in Chan :
          sock'[d] = IF d = c THEN "shut" ELSE sock[d]
  BY DEF Attached, Shutdown, Inv, TypeOK
<1>2. OwesOn(c)'
  BY <1>1 DEF OwesOn
<1>3. ASSUME NEW d \in Chan, d # c
      PROVE  OwesOn(d)'
  BY <1>1, <1>3, OwesKept DEF Owes
<1> QED
  BY <1>2, <1>3 DEF Owes

\* What the peer answers is what is pending.
LEMMA AnswersPending ==
    ASSUME Inv, Owners, Owes, NEW c \in Chan, Readable(c), NEW o \in owed[c]
    PROVE  /\ frame.k = "idle" /\ o \in OpId
           /\ info[o].type = "REQ" => o = pendingReq[c]
           /\ info[o].type = "IND" => o = pendingInd[c]
<1>1. frame.k = "idle" /\ o \in OpId
  BY DEF Readable, Idle, Inv, TypeOK
<1>2. o = pendingReq[c] \/ o = pendingInd[c]
  BY <1>1 DEF Readable, Owes, OwesOn
<1>3. o # NoOp
  BY <1>1 DEF OpId, NoOp
<1> QED
  BY <1>1, <1>2, <1>3 DEF Owners, Filed

\* A response: the request is put back, or its callback is called.
LEMMA OwesAnswered ==
    ASSUME Inv, Owners, Owes, NEW c \in Chan, NEW o \in OpId, NEW e,
           PeerAnswers(c, o, e)
    PROVE  Owes'
<1> USE DEF attVars, queues, opVars, chanCfg, peer, history
<1>1. /\ Readable(c) /\ frame.k = "idle" /\ o = pendingReq[c] /\ o # NoOp
  BY AnswersPending DEF PeerAnswers, OpId, NoOp
<1>2. /\ UNCHANGED <<chans, pendingInd>> /\ Attached' = Attached
      /\ \A d \in Chan : owed'[d] = IF d = c THEN owed[c] \ {o} ELSE owed[d]
  BY DEF PeerAnswers, HandleRsp, Attached, Inv, TypeOK
<1>3. sock[c] \in {"up", "hup"} /\ \A x \in owed'[c] : x = pendingInd[c] /\ x # o
  BY <1>1, <1>2 DEF Readable, Owes, OwesOn
<1>4. ASSUME RspRetry(c, e)
      PROVE  Owes'
  <2>1. /\ UNCHANGED <<sock, frame>>
        /\ \A d \in Chan : d # c => pendingReq'[d] = pendingReq[d]
    BY <1>4 DEF RspRetry, Inv, TypeOK
  <2>2. OwesOn(c)'
    BY <1>1, <1>2, <1>3, <2>1 DEF OwesOn, Answered
  <2>3. ASSUME NEW d \in Chan, d # c
        PROVE  OwesOn(d)'
    BY <1>2, <2>1, <2>3, OwesKept DEF Owes
  <2> QED
    BY <2>2, <2>3 DEF Owes
<1>5. ASSUME NEW oc, RspDeliver(c, oc, e)
      PROVE  Owes'
  <2>1. /\ UNCHANGED <<sock, pendingReq>>
        /\ frame'.k = "rsp" /\ frame'.c = c /\ frame'.op = o
    BY <1>1, <1>5 DEF RspDeliver, CallFrame
  <2>2. OwesOn(c)'
    BY <1>1, <1>2, <1>3, <2>1 DEF OwesOn, Answered
  <2>3. ASSUME NEW d \in Chan, d # c
        PROVE  OwesOn(d)'
    BY <1>1, <1>2, <2>1, <2>3, OwesKept DEF Owes
  <2> QED
    BY <2>2, <2>3 DEF Owes
<1>6. ~RspUnexpected(c)
  BY <1>1 DEF RspUnexpected
<1> QED
  BY <1>4, <1>5, <1>6 DEF PeerAnswers, HandleRsp

\* A confirmation: the callback is called.
LEMMA OwesConfirmed ==
    ASSUME Inv, Owners, Owes, NEW c \in Chan, NEW o \in OpId,
           PeerConfirms(c, o)
    PROVE  Owes'
<1> USE DEF attVars, queues, opVars, chanCfg, peer, history
<1>1. /\ Readable(c) /\ frame.k = "idle" /\ o = pendingInd[c] /\ o # NoOp
  BY AnswersPending DEF PeerConfirms, OpId, NoOp
<1>2. /\ UNCHANGED <<chans, pendingReq, pendingInd>> /\ Attached' = Attached
      /\ \A d \in Chan : owed'[d] = IF d = c THEN owed[c] \ {o} ELSE owed[d]
  BY DEF PeerConfirms, HandleConf, Attached, Inv, TypeOK
<1>3. sock[c] \in {"up", "hup"} /\ \A x \in owed'[c] : x = pendingReq[c] /\ x # o
  BY <1>1, <1>2 DEF Readable, Owes, OwesOn
<1>4. /\ UNCHANGED sock /\ frame'.k = "conf" /\ frame'.c = c /\ frame'.op = o
  BY <1>1 DEF PeerConfirms, HandleConf, CallFrame
<1>5. OwesOn(c)'
  BY <1>1, <1>2, <1>3, <1>4 DEF OwesOn, Answered
<1>6. ASSUME NEW d \in Chan, d # c
      PROVE  OwesOn(d)'
  BY <1>1, <1>2, <1>4, <1>6, OwesKept DEF Owes
<1> QED
  BY <1>5, <1>6 DEF Owes

\* The callback has returned: the slot it came from is cleared.
LEMMA OwesReturn ==
    ASSUME Inv, Owners, Owes, NEW c \in Chan, frame.c = c,
           \/ /\ frame.k = "rsp" /\ UNCHANGED pendingInd
              /\ pendingReq' = [pendingReq EXCEPT ![c] = NoOp]
           \/ /\ frame.k = "conf" /\ UNCHANGED pendingReq
              /\ pendingInd' = [pendingInd EXCEPT ![c] = NoOp],
           UNCHANGED <<owed, sock, chans>>, frame' = ExitFrame
    PROVE  Owes'
<1>1. /\ frame'.k = "exit" /\ Attached' = Attached
      /\ \A d \in Chan : d # c => /\ pendingReq'[d] = pendingReq[d]
                                  /\ pendingInd'[d] = pendingInd[d]
  BY DEF ExitFrame, IdleFrame, Attached, Inv, TypeOK
<1>2. OwesOn(c)'
  <2>1. CASE frame.k = "rsp"
    <3>1. frame.op = pendingReq[c] /\ pendingInd' = pendingInd
      BY <2>1 DEF Owners, FrameShape
    <3> QED
      BY <1>1, <2>1, <3>1 DEF Owes, OwesOn, Answered
  <2>2. CASE frame.k = "conf"
    <3>1. frame.op = pendingInd[c] /\ pendingReq' = pendingReq
      BY <2>2 DEF Owners, FrameShape
    <3> QED
      BY <1>1, <2>2, <3>1 DEF Owes, OwesOn, Answered
  <2> QED
    BY <2>1, <2>2
<1>3. ASSUME NEW d \in Chan, d # c
      PROVE  OwesOn(d)'
  BY <1>1, <1>3, OwesKept DEF Owes
<1> QED
  BY <1>2, <1>3 DEF Owes

\* A PDU is written; only then may the peer owe an answer for it.
LEMMA OwesWrite ==
    ASSUME Inv, Owners, Owes, NEW c \in Chan, NEW out, WritePdu(c, out)
    PROVE  Owes'
<1> USE DEF attVars, queues, opVars, chanCfg, peer, history
<1>1. /\ UNCHANGED <<chans, sock, frame>> /\ frame.k = "idle"
      /\ Attached' = Attached /\ c \in Attached /\ sock[c] \in {"up", "hup"}
  BY DEF WritePdu, Idle, Attached
<1>2. PICK x \in OpId : Written(c, out, x)
  BY WriteEffect
<1>3. \A d \in Chan : d # c => /\ pendingReq'[d] = pendingReq[d]
                               /\ pendingInd'[d] = pendingInd[d]
                               /\ owed'[d] = owed[d]
  BY <1>2 DEF Written, Inv, TypeOK
<1>4. \A o \in owed'[c] : o = pendingReq'[c] \/ o = pendingInd'[c]
  <2>1. \A o \in owed[c] : o \in OpId /\ (o = pendingReq[c] \/ o = pendingInd[c])
    BY <1>1 DEF Owes, OwesOn, Inv, TypeOK
  <2>2. \A o \in OpId : o # NoOp
    BY DEF OpId, NoOp
  <2>3. \A o \in owed[c] : o = pendingReq'[c] \/ o = pendingInd'[c]
    BY <1>2, <2>1, <2>2 DEF Written
  <2>4. \A o \in owed'[c] : o \in owed[c] \/ (o = x /\ info[x].type \in {"REQ", "IND"})
    BY <1>2 DEF Written, Inv, TypeOK
  <2>5. info[x].type \in {"REQ", "IND"} => x = pendingReq'[c] \/ x = pendingInd'[c]
    BY <1>2 DEF Written
  <2> QED
    BY <2>3, <2>4, <2>5
<1>5. OwesOn(c)'
  BY <1>1, <1>4 DEF OwesOn, Answered
<1>6. ASSUME NEW d \in Chan, d # c
      PROVE  OwesOn(d)'
  BY <1>1, <1>3, <1>6, OwesKept DEF Owes
<1> QED
  BY <1>5, <1>6 DEF Owes

\* bt_att_free leaves no channel attached.
LEMMA OwesFree ==
    ASSUME Inv, Owners, Owes, Free, frame.k \in {"idle", "exit"},
           frame'.k = "idle"
    PROVE  Owes'
<1> USE DEF peer
<1>1. Attached' = {} /\ UNCHANGED owed
  BY QueueEmpty DEF Free, Attached
<1>2. \A d \in Chan : sock'[d] = "unused" => sock[d] = "unused"
  BY DEF Free
<1> QED
  BY <1>1, <1>2 DEF Owes, OwesOn

\* Every step of a bearer whose peer keeps to the protocol keeps it sequential.
LEMMA OwesStep ==
    ASSUME ~Rogue, Inv, Owners, Owes, Next
    PROVE  Owes'
<1> USE DEF attVars, queues, opVars, chanCfg, peer, history
<1>1. ASSUME NEW t \in ClientTypes, NEW oc \in Opcode, NEW len \in Lens,
             Send(t, oc, len)
      PROVE  Owes'
  BY <1>1, OwesSame DEF Send
<1>2. ASSUME NEW c \in Chan, NEW len \in Lens, ChanSendRsp(c, len)
      PROVE  Owes'
  BY <1>2, OwesSame DEF ChanSendRsp
<1>3. ASSUME NEW id \in 1..MaxOp, Cancel(id)
      PROVE  Owes'
  BY <1>3, OwesSame DEF Cancel
<1>4. ASSUME CancelAll
      PROVE  Owes'
  BY <1>4, OwesSame DEF CancelAll
<1>5. ASSUME NEW m \in Mtus, SetMtu(m)
      PROVE  Owes'
  BY <1>5, OwesSame DEF SetMtu
<1>6. ASSUME NEW l \in ClientLevels, SetSecurity(l)
      PROVE  Owes'
  BY <1>6, OwesSame DEF SetSecurity
<1>7. ASSUME NEW c \in Chan, NEW m \in Mtus, AttachFd(c, m)
      PROVE  Owes'
  <2>1. /\ sock[c] = "unused" /\ UNCHANGED <<owed, pendingReq, pendingInd, frame>>
        /\ \A d \in Chan : d # c => sock'[d] = sock[d]
        /\ sock'[c] = "up"
    BY <1>7 DEF AttachFd, Inv, TypeOK
  <2>2. \A d \in Attached' : d \in Attached \/ d = c
    <3>1. chans' = Cons(c, chans) /\ chans \in Seq(Chan) /\ QDistinct(chans)
      BY <1>7 DEF AttachFd, Inv, TypeOK, Owners, ChanShape
    <3>2. c \notin Attached
      BY <2>1 DEF Owners, ChanShape
    <3> QED
      BY <3>1, <3>2, QueueMoves DEF Attached
  <2>3. owed[c] = {}
    BY <2>1 DEF Owes, OwesOn
  <2>4. OwesOn(c)'
    BY <2>1, <2>3 DEF OwesOn
  <2>5. ASSUME NEW d \in Chan, d # c
        PROVE  OwesOn(d)'
    BY <2>1, <2>2, <2>5, OwesKept DEF Owes
  <2> QED
    BY <2>4, <2>5 DEF Owes
<1>8. ASSUME ClientUnref
      PROVE  Owes'
  <2>1. CASE frame.k = "idle"
    BY <1>8, <2>1, OwesFree DEF ClientUnref
  <2>2. CASE frame.k # "idle"
    BY <1>8, <2>2, OwesSame DEF ClientUnref
  <2> QED
    BY <2>1, <2>2
<1>9. ASSUME NEW c \in Chan, NEW o \in OpId, NEW e \in Ecode,
             PeerAnswers(c, o, e)
      PROVE  Owes'
  BY <1>9, OwesAnswered
<1>10. ASSUME NEW c \in Chan, NEW oc \in Opcode \cup {NoOpcode}, NEW e \in Ecode,
             RogueRsp(c, oc, e)
      PROVE  Owes'
  BY <1>10 DEF RogueRsp
<1>11. ASSUME NEW c \in Chan, NEW o \in OpId, PeerConfirms(c, o)
      PROVE  Owes'
  BY <1>11, OwesConfirmed
<1>12. ASSUME NEW c \in Chan, NEW empty \in BOOLEAN, RogueConf(c, empty)
      PROVE  Owes'
  BY <1>12 DEF RogueConf
<1>13. ASSUME NEW c \in Chan, PeerRequestTwice(c)
      PROVE  Owes'
  BY <1>13, OwesShut DEF PeerRequestTwice
<1>14. ASSUME NEW c \in Chan, ReadError(c)
      PROVE  Owes'
  BY <1>14, OwesSame DEF ReadError
<1>15. ASSUME NEW c \in Chan, PeerHangup(c)
      PROVE  Owes'
  <2>1. /\ UNCHANGED <<owed, pendingReq, pendingInd, chans, frame>>
        /\ Attached' = Attached
        /\ \A d \in Chan : sock'[d] = sock[d] \/ (sock[d] = "up" /\ sock'[d] = "hup")
    BY <1>15 DEF PeerHangup, Attached, Inv, TypeOK
  <2>2. ASSUME NEW d \in Chan
        PROVE  OwesOn(d)'
    BY <2>1, OwesKept DEF Owes
  <2> QED
    BY <2>2 DEF Owes
<1>16. ASSUME NEW c \in Chan, NEW t \in PeerTypes, PeerSendsHandled(c, t)
      PROVE  Owes'
  BY <1>16, OwesSame DEF PeerSendsHandled, Arrives, Readable, Idle, CallFrame
<1>17. ASSUME NEW c \in Chan, NEW t \in PeerTypes, PeerSendsUnhandled(c, t)
      PROVE  Owes'
  BY <1>17, OwesSame DEF PeerSendsUnhandled
<1>18. ASSUME NEW c \in Chan, WriteNone(c)
      PROVE  Owes'
  BY <1>18, OwesSame DEF WriteNone
<1>19. ASSUME NEW c \in Chan, NEW out \in {"sent", "failed"}, WritePdu(c, out)
      PROVE  Owes'
  BY <1>19, OwesWrite
<1>20. ASSUME NEW c \in Chan, WriteZero(c)
      PROVE  Owes'
  BY <1>20, OwesSame DEF WriteZero, Idle, CallFrame
<1>21. ASSUME NEW c \in Chan, NEW o \in OpId, Timeout(c, o)
      PROVE  Owes'
  <2>1. /\ UNCHANGED <<owed, chans, sock>> /\ Attached' = Attached
        /\ frame.k = "idle" /\ frame'.k = "timeout" /\ frame'.c = c
        /\ \A d \in Chan : d # c => /\ pendingReq'[d] = pendingReq[d]
                                    /\ pendingInd'[d] = pendingInd[d]
    BY <1>21 DEF Timeout, Idle, CallFrame, Attached, Inv, TypeOK
  <2>2. OwesOn(c)'
    BY <2>1 DEF Owes, OwesOn
  <2>3. ASSUME NEW d \in Chan, d # c
        PROVE  OwesOn(d)'
    BY <2>1, <2>3, OwesKept DEF Owes
  <2> QED
    BY <2>2, <2>3 DEF Owes
<1>22. ASSUME NEW c \in Chan, WatchError(c)
      PROVE  Owes'
  BY <1>22, OwesSame DEF WatchError
<1>23. ASSUME NEW c \in Chan, Disconnect(c)
      PROVE  Owes'
  <2>1. /\ UNCHANGED <<owed, pendingReq, pendingInd, sock>>
        /\ frame.k = "idle" /\ frame'.k = "dreq"
    BY <1>23 DEF Disconnect, Idle
  <2>2. \A d \in Attached' : d \in Attached
    <3>1. PICK i \in 1..Len(chans) : chans' = RemoveAt(chans, i)
      BY <1>23 DEF Disconnect
    <3>2. chans \in Seq(Chan) /\ QDistinct(chans)
      BY DEF Inv, TypeOK, Owners, ChanShape
    <3> QED
      BY <3>1, <3>2, QueueMoves DEF Attached
  <2>3. ASSUME NEW d \in Chan
        PROVE  OwesOn(d)'
    BY <2>1, <2>2, OwesKept DEF Owes
  <2> QED
    BY <2>3 DEF Owes
<1>24. ASSUME NEW c \in Chan, ReturnRsp(c)
      PROVE  Owes'
  BY <1>24, OwesReturn DEF ReturnRsp
<1>25. ASSUME NEW c \in Chan, ReturnConf(c)
      PROVE  Owes'
  BY <1>25, OwesReturn DEF ReturnConf
<1>26. ASSUME ReturnZero
      PROVE  Owes'
  BY <1>26, OwesSame DEF ReturnZero, IdleFrame
<1>27. ASSUME ReturnNotify
      PROVE  Owes'
  BY <1>27, OwesSame DEF ReturnNotify, ExitFrame, IdleFrame
<1>28. ASSUME Exit
      PROVE  Owes'
  <2>1. frame.k = "exit" /\ frame'.k = "idle"
    BY <1>28 DEF Exit, IdleFrame
  <2>2. CASE clientRef
    BY <1>28, <2>1, <2>2, OwesSame DEF Exit
  <2>3. CASE ~clientRef
    BY <1>28, <2>1, <2>3, OwesFree DEF Exit
  <2> QED
    BY <2>2, <2>3
<1>29. ASSUME ReturnTimeout
      PROVE  Owes'
  <2>1. PICK c \in Chan : c = frame.c
    BY <1>29, FrameFields DEF ReturnTimeout, Inv
  <2> QED
    BY <1>29, <2>1, OwesShut DEF ReturnTimeout, IdleFrame
<1>30. ASSUME FlushCall
      PROVE  Owes'
  <2>1. Flushing /\ frame'.k = frame.k
    BY <1>30 DEF FlushCall, Inv, TypeOK, Frame
  <2> QED
    BY <1>30, <2>1, OwesSame DEF FlushCall, Flushing
<1>31. ASSUME ReturnFlush
      PROVE  Owes'
  <2>1. Flushing /\ frame'.k = frame.k
    BY <1>31 DEF ReturnFlush, Inv, TypeOK, Frame
  <2> QED
    BY <1>31, <2>1, OwesSame DEF ReturnFlush, Flushing
<1>32. ASSUME FlushInd
      PROVE  Owes'
  <2>1. frame.k # "timeout" /\ frame'.k = "dind"
    BY <1>32 DEF FlushInd, FlushDone, Inv, TypeOK, Frame
  <2> QED
    BY <1>32, <2>1, OwesSame DEF FlushInd
<1>33. ASSUME FlushWrite
      PROVE  Owes'
  <2>1. frame.k # "timeout" /\ frame'.k = "dwrite"
    BY <1>33 DEF FlushWrite, FlushDone, Inv, TypeOK, Frame
  <2> QED
    BY <1>33, <2>1, OwesSame DEF FlushWrite
<1>34. ASSUME FlushPending
      PROVE  Owes'
  <2>1. PICK c \in Chan : c = frame.c
    BY <1>34, FrameFields DEF FlushPending, FlushDone, Inv
  <2>2. /\ UNCHANGED <<owed, chans, sock>> /\ Attached' = Attached
        /\ frame.k = "dwrite" /\ frame'.k = "dpend"
        /\ \A d \in Chan : d # c => /\ pendingReq'[d] = pendingReq[d]
                                    /\ pendingInd'[d] = pendingInd[d]
    BY <1>34, <2>1 DEF FlushPending, FlushDone, Attached, Inv, TypeOK, Frame
  <2>3. c \notin Attached
    BY <2>1, <2>2 DEF Owners, ChanShape, Flushing
  <2>4. OwesOn(c)'
    BY <2>2, <2>3 DEF Owes, OwesOn
  <2>5. ASSUME NEW d \in Chan, d # c
        PROVE  OwesOn(d)'
    BY <2>2, <2>5, OwesKept DEF Owes
  <2> QED
    BY <2>4, <2>5 DEF Owes
<1>35. ASSUME ChanFree
      PROVE  Owes'
  <2>1. PICK c \in Chan : c = frame.c
    BY <1>35, FrameFields DEF ChanFree, FlushDone, Inv
  <2>2. /\ UNCHANGED <<owed, chans, pendingReq, pendingInd>> /\ Attached' = Attached
        /\ frame.k = "dpend" /\ frame'.k \in {"dhand", "idle"}
        /\ \A d \in Chan : sock'[d] = sock[d] \/ sock'[d] = "freed"
    BY <1>35, <2>1 DEF ChanFree, FlushDone, CallFrame, IdleFrame, Attached, Inv, TypeOK
  <2>3. ASSUME NEW d \in Chan
        PROVE  OwesOn(d)'
    BY <2>2, OwesKept DEF Owes
  <2> QED
    BY <2>3 DEF Owes
<1>36. ASSUME ReturnDisconnect
      PROVE  Owes'
  BY <1>36, OwesSame DEF ReturnDisconnect, ExitFrame, IdleFrame
<1> QED
  BY <1>1, <1>2, <1>3, <1>4, <1>5, <1>6, <1>7, <1>8, <1>9, <1>10, <1>11,
     <1>12, <1>13, <1>14, <1>15, <1>16, <1>17, <1>18, <1>19, <1>20, <1>21,
     <1>22, <1>23, <1>24, <1>25, <1>26, <1>27, <1>28, <1>29, <1>30, <1>31,
     <1>32, <1>33, <1>34, <1>35, <1>36 DEF Next, Client, Environment, Loop,
     Return


\* The peer owes answers only as above, in every state.
LEMMA OwesAlways ==
    ASSUME ~Rogue
    PROVE  Spec => [](Inv /\ Owners /\ Owes)
<1>1. Init => Owes
  BY DEF Init, Owes, OwesOn
<1>2. Inv /\ Owners /\ Owes /\ [Next]_vars => Owes'
  <2>1. ASSUME Owes, UNCHANGED vars
        PROVE  Owes'
    BY <2>1, OwesSame DEF vars, attVars, peer
  <2> QED
    BY <2>1, OwesStep
<1> QED
  BY <1>1, <1>2, OwnersAlways, PTL DEF Spec

\* On a channel that is up the peer has nothing left to answer but what is
\* pending there, over every timeout, retry and cancellation: no request is
\* sent while the answer to an earlier one is still to come.
THEOREM OwedIsPendingCorrect ==
    ASSUME ~Rogue
    PROVE  Spec => []OwedIsPending
<1>1. Inv /\ Owes => OwedIsPending
  BY AttachedType DEF Inv, Owes, OwesOn, OwedIsPending
<1> QED
  BY <1>1, OwesAlways, PTL

\* A callback reports an error, or nothing.
LEMMA ServedError ==
    ASSUME Inv, OkMeansServed, NEW o, Invoke(o, "error"), UNCHANGED served
    PROVE  OkMeansServed'
  BY DEF Inv, TypeOK, OkMeansServed, Invoke, OpId

\* Nothing is reported.
LEMMA ServedSame ==
    ASSUME OkMeansServed, UNCHANGED status, served \subseteq served'
    PROVE  OkMeansServed'
  BY DEF OkMeansServed, OpId

\* What a response does to the results.
LEMMA ServedResponse ==
    ASSUME Inv, OkMeansServed, NEW c \in Chan, NEW oc, NEW e,
           HandleRsp(c, oc, e), served \subseteq served',
           e = "ok" => pendingReq[c] \in served'
    PROVE  OkMeansServed'
<1>1. ASSUME RspUnexpected(c) \/ RspRetry(c, e)
      PROVE  OkMeansServed'
  BY <1>1, ServedSame DEF RspUnexpected, RspRetry
<1>2. ASSUME RspDeliver(c, oc, e)
      PROVE  OkMeansServed'
  BY <1>2 DEF RspDeliver, Invoke, Inv, TypeOK, OkMeansServed, OpId
<1> QED
  BY <1>1, <1>2 DEF HandleRsp

\* Every step reports success only for what the peer carried out.
LEMMA ServedStep ==
    ASSUME ~Rogue, Inv, Owners, Owes, OkMeansServed, Next
    PROVE  OkMeansServed'
<1> USE DEF attVars, queues, opVars, chanCfg, peer, history
<1>1. ASSUME NEW t \in ClientTypes, NEW oc \in Opcode, NEW len \in Lens,
             Send(t, oc, len)
      PROVE  OkMeansServed'
  BY <1>1, ServedSame DEF Send
<1>2. ASSUME NEW c \in Chan, NEW len \in Lens, ChanSendRsp(c, len)
      PROVE  OkMeansServed'
  BY <1>2, ServedSame DEF ChanSendRsp
<1>3. ASSUME NEW id \in 1..MaxOp, Cancel(id)
      PROVE  OkMeansServed'
  BY <1>3, ServedSame DEF Cancel
<1>4. ASSUME CancelAll
      PROVE  OkMeansServed'
  BY <1>4, ServedSame DEF CancelAll
<1>5. ASSUME NEW m \in Mtus, SetMtu(m)
      PROVE  OkMeansServed'
  BY <1>5, ServedSame DEF SetMtu
<1>6. ASSUME NEW l \in ClientLevels, SetSecurity(l)
      PROVE  OkMeansServed'
  BY <1>6, ServedSame DEF SetSecurity
<1>7. ASSUME NEW c \in Chan, NEW m \in Mtus, AttachFd(c, m)
      PROVE  OkMeansServed'
  BY <1>7, ServedSame DEF AttachFd
<1>8. ASSUME ClientUnref
      PROVE  OkMeansServed'
  BY <1>8, ServedSame DEF ClientUnref, Free
<1>9. ASSUME NEW c \in Chan, NEW o \in OpId, NEW e \in Ecode,
             PeerAnswers(c, o, e)
      PROVE  OkMeansServed'
  <2>1. e = "ok" => o = pendingReq[c] /\ o \in served'
    BY <1>9, AnswersPending DEF PeerAnswers
  <2> QED
    BY <1>9, <2>1, ServedResponse DEF PeerAnswers
<1>10. ASSUME NEW c \in Chan, NEW oc \in Opcode \cup {NoOpcode}, NEW e \in Ecode,
             RogueRsp(c, oc, e)
      PROVE  OkMeansServed'
  BY <1>10 DEF RogueRsp
<1>11. ASSUME NEW c \in Chan, NEW o \in OpId, PeerConfirms(c, o)
      PROVE  OkMeansServed'
  <2>1. o = pendingInd[c] /\ served' = served \cup {o} /\ HandleConf(c, TRUE)
    BY <1>11, AnswersPending DEF PeerConfirms
  <2> QED
    BY <2>1 DEF HandleConf, Invoke, Inv, TypeOK, OkMeansServed, OpId
<1>12. ASSUME NEW c \in Chan, NEW empty \in BOOLEAN, RogueConf(c, empty)
      PROVE  OkMeansServed'
  BY <1>12 DEF RogueConf
<1>13. ASSUME NEW c \in Chan, PeerRequestTwice(c)
      PROVE  OkMeansServed'
  BY <1>13, ServedSame DEF PeerRequestTwice
<1>14. ASSUME NEW c \in Chan, ReadError(c)
      PROVE  OkMeansServed'
  BY <1>14, ServedSame DEF ReadError
<1>15. ASSUME NEW c \in Chan, PeerHangup(c)
      PROVE  OkMeansServed'
  BY <1>15, ServedSame DEF PeerHangup
<1>16. ASSUME NEW c \in Chan, NEW t \in PeerTypes, PeerSendsHandled(c, t)
      PROVE  OkMeansServed'
  BY <1>16, ServedSame DEF PeerSendsHandled
<1>17. ASSUME NEW c \in Chan, NEW t \in PeerTypes, PeerSendsUnhandled(c, t)
      PROVE  OkMeansServed'
  BY <1>17, ServedSame DEF PeerSendsUnhandled
<1>18. ASSUME NEW c \in Chan, WriteNone(c)
      PROVE  OkMeansServed'
  BY <1>18, ServedSame DEF WriteNone
<1>19. ASSUME NEW c \in Chan, NEW out \in {"sent", "failed"}, WritePdu(c, out)
      PROVE  OkMeansServed'
  BY <1>19, ServedSame DEF WritePdu
<1>20. ASSUME NEW c \in Chan, WriteZero(c)
      PROVE  OkMeansServed'
  BY <1>20, ServedError DEF WriteZero
<1>21. ASSUME NEW c \in Chan, NEW o \in OpId, Timeout(c, o)
      PROVE  OkMeansServed'
  BY <1>21, ServedError DEF Timeout
<1>22. ASSUME NEW c \in Chan, WatchError(c)
      PROVE  OkMeansServed'
  BY <1>22, ServedSame DEF WatchError
<1>23. ASSUME NEW c \in Chan, Disconnect(c)
      PROVE  OkMeansServed'
  BY <1>23, ServedSame DEF Disconnect
<1>24. ASSUME NEW c \in Chan, ReturnRsp(c)
      PROVE  OkMeansServed'
  BY <1>24, ServedSame DEF ReturnRsp
<1>25. ASSUME NEW c \in Chan, ReturnConf(c)
      PROVE  OkMeansServed'
  BY <1>25, ServedSame DEF ReturnConf
<1>26. ASSUME ReturnZero
      PROVE  OkMeansServed'
  BY <1>26, ServedSame DEF ReturnZero
<1>27. ASSUME ReturnNotify
      PROVE  OkMeansServed'
  BY <1>27, ServedSame DEF ReturnNotify
<1>28. ASSUME Exit
      PROVE  OkMeansServed'
  BY <1>28, ServedSame DEF Exit, Free
<1>29. ASSUME ReturnTimeout
      PROVE  OkMeansServed'
  BY <1>29, ServedSame DEF ReturnTimeout
<1>30. ASSUME FlushCall
      PROVE  OkMeansServed'
  BY <1>30, ServedError DEF FlushCall
<1>31. ASSUME ReturnFlush
      PROVE  OkMeansServed'
  BY <1>31, ServedSame DEF ReturnFlush
<1>32. ASSUME FlushInd
      PROVE  OkMeansServed'
  BY <1>32, ServedSame DEF FlushInd
<1>33. ASSUME FlushWrite
      PROVE  OkMeansServed'
  BY <1>33, ServedSame DEF FlushWrite
<1>34. ASSUME FlushPending
      PROVE  OkMeansServed'
  BY <1>34, ServedSame DEF FlushPending
<1>35. ASSUME ChanFree
      PROVE  OkMeansServed'
  BY <1>35, ServedSame DEF ChanFree
<1>36. ASSUME ReturnDisconnect
      PROVE  OkMeansServed'
  BY <1>36, ServedSame DEF ReturnDisconnect
<1> QED
  BY <1>1, <1>2, <1>3, <1>4, <1>5, <1>6, <1>7, <1>8, <1>9, <1>10, <1>11,
     <1>12, <1>13, <1>14, <1>15, <1>16, <1>17, <1>18, <1>19, <1>20, <1>21,
     <1>22, <1>23, <1>24, <1>25, <1>26, <1>27, <1>28, <1>29, <1>30, <1>31,
     <1>32, <1>33, <1>34, <1>35, <1>36 DEF Next, Client, Environment, Loop,
     Return

\* A callback that reports success belongs to an op the peer has carried out:
\* no answer is taken for another request's, over every timeout and retry.
THEOREM OkMeansServedCorrect ==
    ASSUME ~Rogue
    PROVE  Spec => []OkMeansServed
<1>1. Init => OkMeansServed
  BY DEF Init, OkMeansServed
<1>2. Inv /\ Owners /\ Owes /\ OkMeansServed /\ [Next]_vars => OkMeansServed'
  <2>1. ASSUME OkMeansServed, UNCHANGED vars
        PROVE  OkMeansServed'
    BY <2>1, ServedSame DEF vars, history, peer
  <2> QED
    BY <2>1, ServedStep
<1> QED
  BY <1>1, <1>2, OwesAlways, PTL DEF Spec


-----------------------------------------------------------------------------
(* The bearer implements AttService *)

\* A live op has its handlers or was cancelled, a callback that was called is
\* on record, and a handler that runs holds the bearer.
Told ==
    /\ \A o \in OpId : Live(o) => o \in hs \/ o \in cancelled
    /\ frame.op # NoOp /\ HasCallback(frame.op) => calls[frame.op] # 0
    /\ frame.k # "idle" => alive

\* What a step of the bearer has to be.
Promise == Told' /\ [Service!Next]_(Service!vars)

\* The step leaves the frame's op in the frame, or takes it out.
Carries == frame'.op = frame.op \/ frame'.op = NoOp

Expects(o) == o <= nops /\ info[o].type \in {"REQ", "IND"}

\* The ops of S come to phase p, and the others stay in theirs.
Come(S, p) == \A o \in OpId : PhaseOf(o)' = IF o \in S THEN p ELSE PhaseOf(o)

\* That is what AttService calls a move.
LEMMA MoveOf ==
    ASSUME NEW S, NEW p, Come(S, p)
    PROVE  Service!Move(S, p)
  BY DEF Come, Service!Move

\* The phase of an op, before and after a step.
LEMMA PhaseIs ==
    ASSUME Inv, Inv', NEW o \in OpId
    PROVE  /\ PhaseOf(o) =
                  IF o > nops THEN "new"
                  ELSE IF o \in hs
                       THEN IF calls[o] = 0 THEN "open" ELSE "told"
                       ELSE IF o \in cancelled THEN "cancelled" ELSE "done"
           /\ PhaseOf(o)' =
                  IF o > nops' THEN "new"
                  ELSE IF o \in hs'
                       THEN IF calls'[o] = 0 THEN "open" ELSE "told"
                       ELSE IF o \in cancelled' THEN "cancelled" ELSE "done"
<1>1. nops \in Int /\ nops' \in Int /\ o \in Int
  BY DEF Inv, TypeOK, OpId
<1>2. /\ o > nops <=> ~(o <= nops)
      /\ o > nops' <=> ~(o <= nops')
  BY <1>1
<1> QED
  BY <1>2 DEF PhaseOf

\* What a handler works on was created.
LEMMA FrameKnown ==
    ASSUME Inv, Owners, frame.op # NoOp
    PROVE  frame.op \in OpId /\ frame.op <= nops
<1>1. frame.op \in OpId
  BY FrameFields DEF Inv
<1>2. CASE Detached
  BY <1>1, <1>2 DEF Hand, Nowhere, Live, Owners, OwnInv, OnePlace
<1>3. CASE ~Detached
  <2>1. frame.k \in {"rsp", "conf"} /\ frame.c \in Chan
    BY <1>3, FrameFields DEF Detached, Inv, FrameOp, TypeOK, Frame, FrameKind
  <2>2. Pend(frame.op)
    BY <2>1 DEF Pend, Owners, FrameShape
  <2> QED
    BY <1>1, <2>2 DEF Nowhere, Live, Owners, OwnInv, OnePlace
<1> QED
  BY <1>2, <1>3

\* An op that is somewhere has its handlers or was cancelled.
LEMMA PlacedTold ==
    ASSUME Owners, Told, NEW o \in OpId, ~Nowhere(o)
    PROVE  o <= nops /\ (o \in hs \/ o \in cancelled)
  BY DEF Told, Live, Owners, OwnInv, OnePlace

\* The client sees nothing of the step.
LEMMA PromiseNone ==
    ASSUME Told, alive, Carries,
           UNCHANGED <<alive, info, nops, hs, calls, cancelled, frees>>
    PROVE  Promise
<1>1. \A o \in OpId : PhaseOf(o)' = PhaseOf(o)
  BY DEF PhaseOf
<1>2. \A o \in OpId : Expects(o)' = Expects(o)
  BY DEF Expects
<1>3. UNCHANGED Service!vars
  BY <1>1, <1>2 DEF Service!vars, Expects
<1>4. Told'
  BY DEF Told, Live, HasCallback, Carries, OpId
<1> QED
  BY <1>3, <1>4 DEF Promise

\* An op is accepted.
LEMMA PromiseAccept ==
    ASSUME Inv, Inv', Owners, Told, alive, UNCHANGED frame,
           NEW t, NEW oc, NEW len, NEW id, NEW ans,
           CreateOp(t, oc, len, id, ans),
           UNCHANGED <<alive, calls, cancelled, frees>>
    PROVE  Promise
<1>1. PICK n \in OpId : n = nops + 1
  BY DEF CreateOp, Inv, TypeOK, OpId
<1>2. /\ nops' = n /\ hs' = hs \cup {n} /\ nops \in Nat
      /\ \A o \in OpId : o # n => info'[o] = info[o]
  BY <1>1 DEF CreateOp, Inv, TypeOK
<1>3. calls[n] = 0 /\ n \notin hs
  BY <1>1, <1>2 DEF Inv, HandlerInv, HandlerOK, OpId
<1>4. Come({n}, "open") /\ PhaseOf(n) = "new"
  <2>1. \A o \in OpId : o # n => (o > nops' <=> o > nops)
    BY <1>1, <1>2 DEF OpId
  <2>2. n > nops /\ ~(n > nops')
    BY <1>1, <1>2 DEF OpId
  <2> QED
    BY <1>2, <1>3, <2>1, <2>2, PhaseIs DEF Come
<1>5. \A o \in OpId : o # n => Expects(o)' = Expects(o)
  <2>1. \A o \in OpId : o # n => (o <= nops' <=> o <= nops)
    BY <1>1, <1>2 DEF OpId
  <2> QED
    BY <1>2, <2>1 DEF Expects
<1>6. PICK e \in BOOLEAN : e = Expects(n)'
  BY DEF Expects
<1>7. Service!Accept(n, e)
  <2>1. Service!Move({n}, "open")
    BY <1>4, MoveOf
  <2> QED
    BY <1>4, <1>5, <1>6, <2>1 DEF Service!Accept, Expects
<1>8. Told'
  <2>1. \A o \in OpId : Live(o)' => o \in hs' \/ o \in cancelled'
    <3>1. \A o \in OpId : Live(o)' => Live(o) \/ o = n
      BY <1>1, <1>2 DEF Live, OpId
    <3> QED
      BY <1>2, <3>1 DEF Told
  <2>2. frame.op # NoOp => frame.op # n /\ frame.op \in OpId
    BY <1>1, <1>2, FrameKnown DEF OpId
  <2>3. frame.op # NoOp /\ HasCallback(frame.op)' => HasCallback(frame.op)
    BY <1>2, <2>2 DEF HasCallback
  <2> QED
    BY <2>1, <2>3 DEF Told, HasCallback
<1> QED
  BY <1>7, <1>8 DEF Promise, Service!Next

\* A callback counts once.
LEMMA InvokeCalls ==
    ASSUME TypeOK, NEW o, NEW r, Invoke(o, r), NEW x \in OpId
    PROVE  calls'[x] = IF x = o /\ HasCallback(o) THEN calls[x] + 1 ELSE calls[x]
<1>1. calls[x] + 0 = calls[x]
  BY DEF TypeOK
<1> QED
  BY <1>1 DEF Invoke, Plus

\* A counter that was not 0 does not come to be.
LEMMA PlusZero ==
    ASSUME NEW f \in [OpId -> Nat], NEW S, NEW x \in OpId, Plus(f, S)[x] = 0
    PROVE  f[x] = 0
  BY DEF Plus

\* A callback is called, if the op has one: no other one is running.
LEMMA PromiseTell ==
    ASSUME Inv, Inv', Told, alive, NEW o \in OpId, NEW r, Invoke(o, r),
           frame.op = NoOp, frame'.op = o,
           UNCHANGED <<alive, info, nops, hs, cancelled, frees>>
    PROVE  Promise
<1>1. \A x \in OpId : calls'[x] = IF x = o /\ HasCallback(o) THEN calls[x] + 1
                                  ELSE calls[x]
  BY InvokeCalls DEF Inv
<1>2. \A x \in OpId : x \in hs => calls[x] = 0 /\ x <= nops
  BY DEF Inv, HandlerInv, HandlerOK, OpId, NoOp
<1>3. \A x \in OpId : calls[x] \in Nat
  BY DEF Inv, TypeOK
<1>4. \A x \in OpId : Expects(x)' = Expects(x)
  BY DEF Expects
<1>5. Told'
  <2>1. HasCallback(o)' => calls'[o] # 0
    BY <1>1, <1>3 DEF HasCallback
  <2> QED
    BY <2>1 DEF Told, Live, OpId
<1>6. CASE HasCallback(o)
  <2>1. o \in hs /\ Expects(o)
    BY <1>2, <1>6 DEF HasCallback, Expects
  <2>2. o <= nops /\ ~(o > nops)
    BY <2>1 DEF Expects, OpId, Inv, TypeOK
  <2>3. \A x \in OpId : x # o => calls'[x] = calls[x]
    BY <1>1
  <2>4. calls'[o] # 0 /\ calls[o] = 0
    BY <1>1, <1>2, <1>3, <1>6, <2>1
  <2>5. Come({o}, "told") /\ PhaseOf(o) = "open"
    BY <2>1, <2>2, <2>3, <2>4, PhaseIs DEF Come
  <2>6. \A x \in OpId : PhaseOf(x) # "told"
    BY <1>2, PhaseIs
  <2>7. Service!Move({o}, "told")
    BY <2>5, MoveOf
  <2>8. Service!Tell(o)
    BY <1>4, <2>1, <2>5, <2>6, <2>7 DEF Service!Tell, Expects
  <2> QED
    BY <1>5, <2>8 DEF Promise, Service!Next
<1>7. CASE ~HasCallback(o)
  <2>1. calls' = calls
    BY <1>1, <1>7 DEF Inv, TypeOK
  <2>2. \A x \in OpId : PhaseOf(x)' = PhaseOf(x)
    BY <2>1 DEF PhaseOf
  <2>3. UNCHANGED Service!vars
    BY <1>4, <2>2 DEF Service!vars, Expects
  <2> QED
    BY <1>5, <2>3 DEF Promise
<1> QED
  BY <1>6, <1>7

\* Ops are destroyed that were told, or have nothing to be told.
LEMMA PromiseFinish ==
    ASSUME Inv, Inv', Told, alive, Carries, NEW S, Destroy(S),
           UNCHANGED <<alive, info, nops, calls, cancelled>>,
           \A o \in S : HasCallback(o) => calls[o] # 0
    PROVE  Promise
<1> DEFINE T == S \cap hs
<1>1. T \in SUBSET OpId /\ hs' = hs \ S /\ hs \subseteq OpId
  BY DEF Destroy, Inv, TypeOK
<1>2. \A o \in OpId : /\ calls[o] \in Nat
                      /\ o \in hs => o <= nops /\ ~(o > nops) /\ o \notin cancelled
                      /\ frees'[o] = IF o \in S THEN frees[o] + 1 ELSE frees[o]
                      /\ frees[o] \in Nat
  <2>1. /\ calls \in [OpId -> Nat] /\ frees \in [OpId -> Nat] /\ nops \in Nat
        /\ \A o \in OpId : o \in Nat
    BY DEF Inv, TypeOK, OpId
  <2>2. \A o \in OpId : o \in hs => o <= nops /\ ~(o > nops) /\ o \notin cancelled
    BY <2>1 DEF Inv, HandlerInv, HandlerOK
  <2>3. \A o \in OpId : frees'[o] = IF o \in S THEN frees[o] + 1 ELSE frees[o]
    BY <2>1 DEF Destroy, Plus
  <2> QED
    BY <2>1, <2>2, <2>3
<1>3. \A o \in OpId : o \in T => PhaseOf(o) = "told" \/ (PhaseOf(o) = "open" /\ ~Expects(o))
  <2>1. SUFFICES ASSUME NEW o \in OpId, o \in T
                 PROVE  PhaseOf(o) = "told" \/ (PhaseOf(o) = "open" /\ ~Expects(o))
    OBVIOUS
  <2>2. PhaseOf(o) = IF calls[o] = 0 THEN "open" ELSE "told"
    BY <1>2, <2>1, PhaseIs
  <2>3. Expects(o) => calls[o] # 0
    BY <2>1 DEF Expects, HasCallback
  <2> QED
    BY <2>2, <2>3
<1>4. Come(T, "done")
  <2>1. SUFFICES ASSUME NEW o \in OpId
                 PROVE  PhaseOf(o)' = IF o \in T THEN "done" ELSE PhaseOf(o)
    BY DEF Come
  <2>2. CASE o \in T
    BY <1>1, <1>2, <2>2, PhaseIs
  <2>3. CASE o \notin T
    <3>1. o \in hs' <=> o \in hs
      BY <1>1, <2>3
    <3> QED
      BY <2>3, <3>1, PhaseIs
  <2> QED
    BY <2>2, <2>3
<1>5. \A o \in OpId : Expects(o)' = Expects(o)
  BY DEF Expects
<1>6. Service!Move(T, "done")
  BY <1>4, MoveOf
<1>7. Service!Finish(T)
  BY <1>1, <1>3, <1>5, <1>6 DEF Service!Finish, Expects
<1>8. Told'
  <2>1. \A o \in OpId : Live(o)' => Live(o) /\ o \notin S
    BY <1>2 DEF Live
  <2>2. \A o : HasCallback(o)' => HasCallback(o)
    BY <1>1 DEF HasCallback
  <2> QED
    BY <1>1, <2>1, <2>2 DEF Told, Carries
<1> HIDE DEF T
<1> QED
  BY <1>1, <1>7, <1>8 DEF Promise, Service!Next

\* Ops that are queued or pending are cancelled.
LEMMA PromiseWithdraw ==
    ASSUME Inv, Inv', Told, alive, Carries, NEW S,
           hs' = hs \ S, cancelled' = cancelled \cup S,
           UNCHANGED <<alive, info, nops, calls>>,
           \A o \in OpId : frees'[o] = 0 => frees[o] = 0,
           \A o \in S : o \in hs \/ o \in cancelled
    PROVE  Promise
<1> DEFINE T == S \cap hs
<1>1. T \in SUBSET OpId
  BY DEF Inv, TypeOK
<1>2. \A o \in OpId : o \in hs => o <= nops /\ ~(o > nops)
  BY DEF Inv, TypeOK, HandlerInv, HandlerOK, OpId
<1>3. \A o \in OpId : o \in T => PhaseOf(o) \in {"open", "told"}
  BY <1>2, PhaseIs
<1>4. Come(T, "cancelled")
  <2>1. SUFFICES ASSUME NEW o \in OpId
                 PROVE  PhaseOf(o)' = IF o \in T THEN "cancelled" ELSE PhaseOf(o)
    BY DEF Come
  <2>2. CASE o \in T
    BY <1>2, <2>2, PhaseIs
  <2>3. CASE o \notin T
    <3>1. (o \in hs' <=> o \in hs) /\ (o \notin hs => (o \in cancelled' <=> o \in cancelled))
      BY <2>3
    <3> QED
      BY <2>3, <3>1, PhaseIs
  <2> QED
    BY <2>2, <2>3
<1>5. \A o \in OpId : Expects(o)' = Expects(o)
  BY DEF Expects
<1>6. Service!Move(T, "cancelled")
  BY <1>4, MoveOf
<1>7. Service!Withdraw(T)
  BY <1>1, <1>3, <1>5, <1>6 DEF Service!Withdraw, Expects
<1>8. Told'
  BY DEF Told, Live, HasCallback, Carries
<1> HIDE DEF T
<1> QED
  BY <1>1, <1>7, <1>8 DEF Promise, Service!Next

\* The op whose callback has returned is destroyed, or cancelled by its own
\* destroy handler.
LEMMA PromiseEnd ==
    ASSUME Inv, Inv', Told, alive, Carries, frame.op # NoOp,
           DestroyPending(frame.op), UNCHANGED <<alive, info, nops, calls>>
    PROVE  Promise
<1>1. CASE Destroy({frame.op}) /\ UNCHANGED cancelled
  <2>1. \A o \in {frame.op} : HasCallback(o) => calls[o] # 0
    BY DEF Told
  <2> QED
    BY <1>1, <2>1, PromiseFinish
<1>2. CASE /\ frame.op \in hs /\ hs' = hs \ {frame.op}
           /\ cancelled' = cancelled \cup {frame.op}
           /\ frees' = Plus(frees, {frame.op})
  <2>1. \A x \in OpId : frees'[x] = 0 => frees[x] = 0
    BY <1>2, PlusZero DEF Inv, TypeOK
  <2> QED
    BY <1>2, <2>1, PromiseWithdraw
<1> QED
  BY <1>1, <1>2, EndsPending DEF Inv

\* The bearer is released: no callback runs, and every op goes.
LEMMA PromiseRelease ==
    ASSUME Inv, Inv', Owners, Told, alive, Free, frame.k \in {"idle", "exit"},
           frame'.k = "idle", frame'.op = NoOp
    PROVE  Promise
<1> USE DEF opVars
<1>1. /\ Destroy(HeldOps) /\ alive' = FALSE
      /\ UNCHANGED <<info, nops, calls, cancelled>>
  BY DEF Free
<1>2. \A o \in OpId : /\ o \in hs => /\ o \in HeldOps /\ o \notin cancelled
                                     /\ o <= nops /\ ~(o > nops) /\ calls[o] = 0
                      /\ frees[o] \in Nat
                      /\ frees'[o] = IF o \in HeldOps THEN frees[o] + 1 ELSE frees[o]
  <2>1. frame.op = NoOp
    BY DEF Inv, FrameOp
  <2>2. \A o \in OpId : o \in hs => o <= nops /\ ~(o > nops) /\ calls[o] = 0 /\ o \notin cancelled
    BY <2>1 DEF Inv, TypeOK, HandlerInv, HandlerOK, OpId, NoOp
  <2>3. \A o \in OpId : o \in hs => Live(o)
    BY <2>2 DEF Owners, OwnInv, OnePlace, Counted, Live
  <2>4. \A o \in OpId : o \in hs => o \in HeldOps
    BY <2>3, HeldIsAll DEF Owners, OwnInv, OnePlace
  <2> QED
    BY <1>1, <2>2, <2>4 DEF Destroy, Plus, Inv, TypeOK
<1>3. \A o \in OpId : o \notin hs'
  BY <1>1, <1>2 DEF Destroy
<1>4. \A o \in OpId : PhaseOf(o) # "told"
  BY <1>2, PhaseIs
<1>5. Come({o \in OpId : PhaseOf(o) = "open"}, "done")
  <2>1. SUFFICES ASSUME NEW o \in OpId
                 PROVE  PhaseOf(o)' = IF PhaseOf(o) = "open" THEN "done" ELSE PhaseOf(o)
    BY DEF Come
  <2>2. CASE o \in hs
    BY <1>1, <1>2, <1>3, <2>2, PhaseIs
  <2>3. CASE o \notin hs
    BY <1>1, <1>3, <2>3, PhaseIs
  <2> QED
    BY <2>2, <2>3
<1>6. Service!Move({o \in OpId : PhaseOf(o) = "open"}, "done")
  BY <1>5, MoveOf
<1>7. \A o \in OpId : Expects(o)' = Expects(o)
  BY <1>1 DEF Expects
<1>8. Service!Release
  BY <1>1, <1>4, <1>6, <1>7 DEF Service!Release, Expects
<1>9. Told'
  <2>1. \A o \in OpId : Live(o)' => Live(o) /\ o \notin HeldOps
    BY <1>1, <1>2 DEF Live
  <2>2. \A o \in OpId : Live(o) => o \in HeldOps
    BY HeldIsAll DEF Owners, OwnInv, OnePlace
  <2> QED
    BY <2>1, <2>2 DEF Told
<1> QED
  BY <1>8, <1>9 DEF Promise, Service!Next

\* can_write_data ends the ops that wait for no answer.
LEMMA PromiseWrite ==
    ASSUME Inv, Inv', Owners, Told, NEW c \in Chan, NEW out, WritePdu(c, out)
    PROVE  Promise
<1> USE DEF attVars, queues, opVars, chanCfg, peer, history
<1>1. alive /\ UNCHANGED <<alive, info, nops, calls, cancelled, frame>>
  BY DEF WritePdu, Idle
<1>2. PICK x \in OpId : Written(c, out, x)
  BY WriteEffect
<1>3. PICK S \in SUBSET {x} : /\ Destroy(S)
                              /\ x \in S => info[x].type \notin {"REQ", "IND"}
  BY <1>2 DEF Written
<1>4. \A o \in S : ~HasCallback(o)
  BY <1>3 DEF HasCallback
<1> QED
  BY <1>1, <1>3, <1>4, PromiseFinish DEF Carries

\* Every step of the bearer is one of AttService, or none the client sees.
LEMMA PromiseStep ==
    ASSUME Inv, Inv', Owners, Told, Next
    PROVE  Promise
<1> USE DEF attVars, queues, opVars, chanCfg, peer, history
<1>1. ASSUME NEW t \in ClientTypes, NEW oc \in Opcode, NEW len \in Lens,
             Send(t, oc, len)
      PROVE  Promise
  BY <1>1, PromiseAccept DEF Send, SendOp, ClientRuns
<1>2. ASSUME NEW c \in Chan, NEW len \in Lens, ChanSendRsp(c, len)
      PROVE  Promise
  BY <1>2, PromiseAccept DEF ChanSendRsp, ClientRuns
<1>3. ASSUME NEW id \in 1..MaxOp, Cancel(id)
      PROVE  Promise
  <2>1. alive /\ UNCHANGED <<alive, info, nops, calls, frame>>
    BY <1>3 DEF Cancel, ClientRuns
  <2>2. ASSUME NEW o \in OpId, CancelPending(o), Pend(o)
        PROVE  Promise
    <3>1. o \in hs \/ o \in cancelled
      BY <2>2, PlacedTold DEF Nowhere
    <3> QED
      BY <2>1, <2>2, <3>1, PromiseWithdraw DEF CancelPending, RunDestroy, Carries
  <2>3. ASSUME NEW o \in OpId, CancelQueued(o), Wait(o)
        PROVE  Promise
    <3>1. o \in hs \/ o \in cancelled
      BY <2>3, PlacedTold DEF Nowhere
    <3>2. \A x \in OpId : frees'[x] = 0 => frees[x] = 0
      BY <2>3, PlusZero DEF CancelQueued, Destroy, Inv, TypeOK
    <3> QED
      BY <2>1, <2>3, <3>1, <3>2, PromiseWithdraw DEF CancelQueued, Destroy, Carries
  <2>4. ASSUME NEW c \in Attached, NEW o \in OpId,
               o \in {pendingReq[c], pendingInd[c]}, CancelPending(o)
        PROVE  Promise
    BY <2>2, <2>4, AttachedType DEF Pend, Inv
  <2>5. ASSUME NEW q \in {reqQ, indQ, wrQ}, NEW i \in 1..Len(q),
               CancelQueued(q[i])
        PROVE  Promise
    <3>1. q \in Seq(OpId)
      BY DEF Inv, TypeOK
    <3>2. q[i] \in OpId /\ q[i] \in ToSet(q)
      BY <3>1 DEF ToSet
    <3> QED
      BY <2>3, <2>5, <3>2 DEF Wait
  <2> QED
    BY <1>3, <2>4, <2>5 DEF Cancel
<1>4. ASSUME CancelAll
      PROVE  Promise
  <2> DEFINE S == QueuedOps \cup PendingOps
  <2>1. /\ alive /\ UNCHANGED <<alive, info, nops, calls, frame>>
        /\ hs' = hs \ S /\ cancelled' = cancelled \cup S
    BY <1>4 DEF CancelAll, ClientRuns, RunDestroy
  <2>2. \A x \in OpId : frees'[x] = 0 => frees[x] = 0
    BY <1>4, PlusZero DEF CancelAll, Inv, TypeOK
  <2>3. \A o \in S : o \in OpId /\ (Wait(o) \/ Pend(o))
    <3>1. Attached \subseteq Chan
      BY AttachedType DEF Inv
    <3>2. \A o \in QueuedOps : o \in OpId /\ Wait(o)
      BY HeldType DEF QueuedOps, Wait, Inv
    <3>3. \A o \in PendingOps : o \in OpId /\ Pend(o)
      BY <3>1, HeldType DEF PendingOps, Pend, Inv
    <3> QED
      BY <3>2, <3>3
  <2>4. \A o \in S : o \in hs \/ o \in cancelled
    BY <2>3, PlacedTold DEF Nowhere
  <2> HIDE DEF S
  <2> QED
    BY <2>1, <2>2, <2>4, PromiseWithdraw DEF Carries
<1>5. ASSUME NEW m \in Mtus, SetMtu(m)
      PROVE  Promise
  BY <1>5, PromiseNone DEF Carries, SetMtu, ClientRuns
<1>6. ASSUME NEW l \in ClientLevels, SetSecurity(l)
      PROVE  Promise
  BY <1>6, PromiseNone DEF Carries, SetSecurity, ClientRuns
<1>7. ASSUME NEW c \in Chan, NEW m \in Mtus, AttachFd(c, m)
      PROVE  Promise
  BY <1>7, PromiseNone DEF Carries, AttachFd, ClientRuns
<1>8. ASSUME ClientUnref
      PROVE  Promise
  <2>1. alive
    BY <1>8 DEF ClientUnref, ClientRuns
  <2>2. CASE frame.k = "idle"
    <3>1. frame.op = NoOp
      BY <2>2 DEF Inv, FrameOp
    <3> QED
      BY <1>8, <2>1, <2>2, <3>1, PromiseRelease DEF ClientUnref
  <2>3. CASE frame.k # "idle"
    BY <1>8, <2>1, <2>3, PromiseNone DEF ClientUnref, Carries
  <2> QED
    BY <2>2, <2>3
<1>9. ASSUME NEW c \in Chan, NEW o \in OpId, NEW e \in Ecode,
             PeerAnswers(c, o, e)
      PROVE  Promise
  <2>1. /\ alive /\ frame.op = NoOp
        /\ UNCHANGED <<alive, info, nops, cancelled, frees>>
    BY <1>9 DEF PeerAnswers, HandleRsp, Readable, Idle, Inv, FrameOp
  <2>2. ASSUME RspUnexpected(c) \/ RspRetry(c, e)
        PROVE  Promise
    BY <2>1, <2>2, PromiseNone DEF RspUnexpected, RspRetry, Carries
  <2>3. ASSUME NEW q, RspDeliver(c, q, e)
        PROVE  Promise
    <3>1. PICK x \in OpId : x = pendingReq[c]
      BY <2>3 DEF RspDeliver, Inv, TypeOK
    <3> QED
      BY <2>1, <2>3, <3>1, PromiseTell DEF RspDeliver, CallFrame
  <2> QED
    BY <1>9, <2>2, <2>3 DEF PeerAnswers, HandleRsp
<1>10. ASSUME NEW c \in Chan, NEW oc \in Opcode \cup {NoOpcode}, NEW e \in Ecode,
             RogueRsp(c, oc, e)
      PROVE  Promise
  <2>1. /\ alive /\ frame.op = NoOp
        /\ UNCHANGED <<alive, info, nops, cancelled, frees>>
    BY <1>10 DEF RogueRsp, HandleRsp, Readable, Idle, Inv, FrameOp
  <2>2. ASSUME RspUnexpected(c) \/ RspRetry(c, e)
        PROVE  Promise
    BY <2>1, <2>2, PromiseNone DEF RspUnexpected, RspRetry, Carries
  <2>3. ASSUME NEW q, RspDeliver(c, q, e)
        PROVE  Promise
    <3>1. PICK x \in OpId : x = pendingReq[c]
      BY <2>3 DEF RspDeliver, Inv, TypeOK
    <3> QED
      BY <2>1, <2>3, <3>1, PromiseTell DEF RspDeliver, CallFrame
  <2> QED
    BY <1>10, <2>2, <2>3 DEF RogueRsp, HandleRsp
<1>11. ASSUME NEW c \in Chan, NEW o \in OpId, PeerConfirms(c, o)
      PROVE  Promise
  <2>1. /\ alive /\ frame.op = NoOp /\ HandleConf(c, TRUE)
        /\ UNCHANGED <<alive, info, nops, hs, cancelled, frees>>
    BY <1>11 DEF PeerConfirms, HandleConf, Readable, Idle, Inv, FrameOp
  <2>2. CASE UNCHANGED <<frame, calls>>
    BY <2>1, <2>2, PromiseNone DEF Carries
  <2>3. CASE pendingInd[c] # NoOp /\ Invoke(pendingInd[c], "ok") /\ frame'.op = pendingInd[c]
    <3>1. PICK x \in OpId : x = pendingInd[c]
      BY <2>3 DEF Inv, TypeOK
    <3> QED
      BY <2>1, <2>3, <3>1, PromiseTell
  <2> QED
    BY <2>1, <2>2, <2>3 DEF HandleConf, CallFrame
<1>12. ASSUME NEW c \in Chan, NEW empty \in BOOLEAN, RogueConf(c, empty)
      PROVE  Promise
  <2>1. /\ alive /\ frame.op = NoOp /\ HandleConf(c, empty)
        /\ UNCHANGED <<alive, info, nops, hs, cancelled, frees>>
    BY <1>12 DEF RogueConf, HandleConf, Readable, Idle, Inv, FrameOp
  <2>2. CASE UNCHANGED <<frame, calls>>
    BY <2>1, <2>2, PromiseNone DEF Carries
  <2>3. CASE pendingInd[c] # NoOp /\ Invoke(pendingInd[c], "ok") /\ frame'.op = pendingInd[c]
    <3>1. PICK x \in OpId : x = pendingInd[c]
      BY <2>3 DEF Inv, TypeOK
    <3> QED
      BY <2>1, <2>3, <3>1, PromiseTell
  <2> QED
    BY <2>1, <2>2, <2>3 DEF HandleConf, CallFrame
<1>13. ASSUME NEW c \in Chan, PeerRequestTwice(c)
      PROVE  Promise
  BY <1>13, PromiseNone DEF Carries, PeerRequestTwice, Readable, Idle
<1>14. ASSUME NEW c \in Chan, ReadError(c)
      PROVE  Promise
  BY <1>14, PromiseNone DEF Carries, ReadError, Readable, Idle
<1>15. ASSUME NEW c \in Chan, PeerHangup(c)
      PROVE  Promise
  BY <1>15, PromiseNone DEF Carries, PeerHangup, Idle
<1>16. ASSUME NEW c \in Chan, NEW t \in PeerTypes, PeerSendsHandled(c, t)
      PROVE  Promise
  BY <1>16, PromiseNone DEF Carries, PeerSendsHandled, Arrives, Readable, Idle, CallFrame
<1>17. ASSUME NEW c \in Chan, NEW t \in PeerTypes, PeerSendsUnhandled(c, t)
      PROVE  Promise
  BY <1>17, PromiseAccept DEF PeerSendsUnhandled, Arrives, Readable, Idle, SendOp
<1>18. ASSUME NEW c \in Chan, WriteNone(c)
      PROVE  Promise
  BY <1>18, PromiseNone DEF Carries, WriteNone, Idle
<1>19. ASSUME NEW c \in Chan, NEW out \in {"sent", "failed"}, WritePdu(c, out)
      PROVE  Promise
  BY <1>19, PromiseWrite
<1>20. ASSUME NEW c \in Chan, WriteZero(c)
      PROVE  Promise
  <2>1. /\ alive /\ frame.op = NoOp /\ PickSource(c) # "none" /\ PopPicked(c)
    BY <1>20 DEF WriteZero, Idle, Inv, FrameOp
  <2>2. PICK x \in OpId : x = Head(PickedQueue(c))
    BY <2>1, Popped
  <2> QED
    BY <1>20, <2>1, <2>2, PromiseTell DEF WriteZero, CallFrame
<1>21. ASSUME NEW c \in Chan, NEW o \in OpId, Timeout(c, o)
      PROVE  Promise
  <2>1. alive /\ frame.op = NoOp
    BY <1>21 DEF Timeout, Idle, Inv, FrameOp
  <2> QED
    BY <1>21, <2>1, PromiseTell DEF Timeout, CallFrame
<1>22. ASSUME NEW c \in Chan, WatchError(c)
      PROVE  Promise
  BY <1>22, PromiseNone DEF Carries, WatchError, Idle
<1>23. ASSUME NEW c \in Chan, Disconnect(c)
      PROVE  Promise
  BY <1>23, PromiseNone DEF Carries, Disconnect, Idle
<1>24. ASSUME NEW c \in Chan, ReturnRsp(c)
      PROVE  Promise
  <2>1. alive /\ frame.op # NoOp /\ frame'.op = NoOp
    BY <1>24 DEF ReturnRsp, ExitFrame, IdleFrame, Told, Owners, FrameShape
  <2>2. /\ DestroyPending(frame.op)
        /\ UNCHANGED <<alive, info, nops, calls>>
    BY <1>24 DEF ReturnRsp
  <2> QED
    BY <2>1, <2>2, PromiseEnd DEF Carries
<1>25. ASSUME NEW c \in Chan, ReturnConf(c)
      PROVE  Promise
  <2>1. alive /\ frame.op # NoOp /\ frame'.op = NoOp
    BY <1>25 DEF ReturnConf, ExitFrame, IdleFrame, Told, Owners, FrameShape
  <2>2. /\ DestroyPending(frame.op)
        /\ UNCHANGED <<alive, info, nops, calls>>
    BY <1>25 DEF ReturnConf
  <2> QED
    BY <2>1, <2>2, PromiseEnd DEF Carries
<1>26. ASSUME ReturnZero
      PROVE  Promise
  <2>1. alive /\ frame.op # NoOp /\ frame'.op = NoOp
    BY <1>26 DEF ReturnZero, IdleFrame, Told, Owners, FrameShape
  <2>2. /\ Destroy({frame.op})
        /\ UNCHANGED <<alive, info, nops, calls, cancelled>>
    BY <1>26 DEF ReturnZero
  <2>3. \A o \in {frame.op} : HasCallback(o) => calls[o] # 0
    BY <2>1 DEF Told
  <2> QED
    BY <2>1, <2>2, <2>3, PromiseFinish DEF Carries
<1>27. ASSUME ReturnNotify
      PROVE  Promise
  <2>1. alive /\ frame'.op = NoOp
    BY <1>27 DEF ReturnNotify, ExitFrame, IdleFrame, Told
  <2> QED
    BY <1>27, <2>1, PromiseNone DEF ReturnNotify, Carries
<1>28. ASSUME Exit
      PROVE  Promise
  <2>1. frame.k = "exit" /\ frame'.k = "idle" /\ frame'.op = NoOp /\ alive
    BY <1>28 DEF Exit, IdleFrame, Told
  <2>2. CASE clientRef
    BY <1>28, <2>1, <2>2, PromiseNone DEF Exit, Carries
  <2>3. CASE ~clientRef
    BY <1>28, <2>1, <2>3, PromiseRelease DEF Exit
  <2> QED
    BY <2>2, <2>3
<1>29. ASSUME ReturnTimeout
      PROVE  Promise
  <2>1. alive /\ frame.op # NoOp /\ frame'.op = NoOp
    BY <1>29 DEF ReturnTimeout, IdleFrame, Told, Owners, FrameShape
  <2>2. /\ Destroy({frame.op})
        /\ UNCHANGED <<alive, info, nops, calls, cancelled>>
    BY <1>29 DEF ReturnTimeout
  <2>3. \A o \in {frame.op} : HasCallback(o) => calls[o] # 0
    BY <2>1 DEF Told
  <2> QED
    BY <2>1, <2>2, <2>3, PromiseFinish DEF Carries
<1>30. ASSUME FlushCall
      PROVE  Promise
  <2>1. /\ alive /\ frame.op = NoOp /\ frame.todo # <<>>
        /\ frame'.op = Head(frame.todo)
    BY <1>30 DEF FlushCall, Flushing, Told, Inv, TypeOK, Frame
  <2>2. PICK x \in OpId : x = Head(frame.todo)
    BY <2>1, FrameFields DEF Inv
  <2> QED
    BY <1>30, <2>1, <2>2, PromiseTell DEF FlushCall
<1>31. ASSUME ReturnFlush
      PROVE  Promise
  <2>1. alive /\ frame.op # NoOp /\ frame'.op = NoOp
    BY <1>31 DEF ReturnFlush, Flushing, Inv, TypeOK, Frame, Told
  <2>2. /\ Destroy({frame.op})
        /\ UNCHANGED <<alive, info, nops, calls, cancelled>>
    BY <1>31 DEF ReturnFlush
  <2>3. \A o \in {frame.op} : HasCallback(o) => calls[o] # 0
    BY <2>1 DEF Told
  <2> QED
    BY <2>1, <2>2, <2>3, PromiseFinish DEF Carries
<1>32. ASSUME FlushInd
      PROVE  Promise
  <2>1. alive /\ frame'.op = frame.op
    BY <1>32 DEF FlushInd, FlushDone, Told, Inv, TypeOK, Frame
  <2> QED
    BY <1>32, <2>1, PromiseNone DEF FlushInd, Carries
<1>33. ASSUME FlushWrite
      PROVE  Promise
  <2>1. alive /\ frame'.op = frame.op
    BY <1>33 DEF FlushWrite, FlushDone, Told, Inv, TypeOK, Frame
  <2> QED
    BY <1>33, <2>1, PromiseNone DEF FlushWrite, Carries
<1>34. ASSUME FlushPending
      PROVE  Promise
  <2>1. alive /\ frame'.op = frame.op
    BY <1>34 DEF FlushPending, FlushDone, Told, Inv, TypeOK, Frame
  <2> QED
    BY <1>34, <2>1, PromiseNone DEF FlushPending, Carries
<1>35. ASSUME ChanFree
      PROVE  Promise
  <2>1. PICK c \in Chan : c = frame.c
    BY <1>35, FrameFields DEF ChanFree, FlushDone, Inv
  <2>2. /\ alive /\ frame'.op = NoOp /\ Destroy(ToSet(cq[c]))
        /\ UNCHANGED <<alive, info, nops, calls, cancelled>>
    BY <1>35, <2>1 DEF ChanFree, FlushDone, CallFrame, IdleFrame, Told
  <2>3. \A o \in ToSet(cq[c]) : ~HasCallback(o)
    BY DEF Owners, Filed, HasCallback
  <2> QED
    BY <2>2, <2>3, PromiseFinish DEF Carries
<1>36. ASSUME ReturnDisconnect
      PROVE  Promise
  <2>1. alive /\ frame'.op = NoOp
    BY <1>36 DEF ReturnDisconnect, ExitFrame, IdleFrame, Told
  <2> QED
    BY <1>36, <2>1, PromiseNone DEF ReturnDisconnect, Carries
<1> QED
  BY <1>1, <1>2, <1>3, <1>4, <1>5, <1>6, <1>7, <1>8, <1>9, <1>10, <1>11,
     <1>12, <1>13, <1>14, <1>15, <1>16, <1>17, <1>18, <1>19, <1>20, <1>21,
     <1>22, <1>23, <1>24, <1>25, <1>26, <1>27, <1>28, <1>29, <1>30, <1>31,
     <1>32, <1>33, <1>34, <1>35, <1>36 DEF Next, Client, Environment, Loop,
     Return

\* The bearer keeps the promise AttService states: every step is one of its
\* steps or is not seen by the client, for every number of channels and ops.
THEOREM KeepsPromiseCorrect == Spec => KeepsPromise
<1>1. Init => Told /\ Service!Init
  <2> SUFFICES ASSUME Init
               PROVE  Told /\ Service!Init
    OBVIOUS
  <2>1. nops = 0 /\ frame.op = NoOp /\ frame.k = "idle" /\ alive = TRUE
    BY DEF Init, IdleFrame
  <2>2. \A o \in OpId : ~(o <= nops) /\ o > nops
    BY <2>1 DEF OpId
  <2>3. \A o \in OpId : PhaseOf(o) = "new"
    BY <2>2 DEF PhaseOf
  <2> QED
    BY <2>1, <2>2, <2>3 DEF Told, Live, Service!Init
<1>2. /\ Inv /\ Inv' /\ Owners /\ Told /\ [Next]_vars
      => Told' /\ [Service!Next]_(Service!vars)
  <2>1. ASSUME Told, UNCHANGED vars
        PROVE  Told' /\ UNCHANGED Service!vars
    <3>1. \A o \in OpId : PhaseOf(o)' = PhaseOf(o)
      BY <2>1 DEF PhaseOf, vars, opVars, history
    <3>2. \A o \in OpId : Expects(o)' = Expects(o)
      BY <2>1 DEF Expects, vars, opVars
    <3>3. UNCHANGED Service!vars
      BY <2>1, <3>1, <3>2 DEF Service!vars, Expects, vars, attVars
    <3>4. Told'
      BY <2>1 DEF Told, Live, HasCallback, vars, attVars, opVars, history, OpId
    <3> QED
      BY <3>3, <3>4
  <2> QED
    BY <2>1, PromiseStep DEF Promise
<1> QED
  BY <1>1, <1>2, OwnersAlways, PTL DEF Spec, KeepsPromise, Service!Spec

-----------------------------------------------------------------------------
(* The write watches, with channels that have the MTU of the bearer *)

\* All attached channels have the MTU of the bearer.
SameMtu == \A c \in Attached : cmtu[c] = mtu

\* A PDU was accepted only if it fits the biggest MTU, which never shrinks.
Fitting == \A o \in OpId : o <= nops => info[o].len <= mtu

\* timeout_cb works on c, and will shut it down.
TimedOut(c) == frame.k = "timeout" /\ frame.c = c

AllUp == \A c \in Attached : sock[c] = "up"

\* The channels that will take a request when they are next written to.
Ready == {c \in Attached : sock[c] = "up" /\ c \in writer /\ pendingReq[c] = NoOp}

\* A channel is woken for whatever it can send but requests,
Woken ==
    \A c \in Attached :
        /\ sock[c] = "up" /\ ~TimedOut(c)
        /\ \/ cq[c] # <<>> \/ wrQ # <<>>
           \/ pendingInd[c] = NoOp /\ indQ # <<>>
        => c \in writer

\* and while one that could take a request sleeps, there are as many others
\* awake as there are requests.
Enough ==
    \A c \in Attached :
        AllUp /\ ~TimedOut(c) /\ pendingReq[c] = NoOp /\ c \notin writer
            /\ reqQ # <<>> => Len(reqQ) <= Cardinality(Ready)

\* A list has finitely many members.
LEMMA ListFinite ==
    ASSUME NEW S, NEW s \in Seq(S), NEW T, T \subseteq ToSet(s)
    PROVE  IsFiniteSet(T) /\ Cardinality(T) \in Nat
<1>1. \A c \in ToSet(s) : \E i \in 1..Len(s) : s[i] = c
  BY DEF ToSet
<1>2. \A i \in 1..Len(s) : s[i] \in ToSet(s)
  BY DEF ToSet
<1>3. s \in Seq(ToSet(s))
  BY <1>2
<1>4. IsFiniteSet(ToSet(s))
  BY <1>1, <1>3 DEF IsFiniteSet
<1>5. IsFiniteSet(T)
  BY <1>4, FS_Subset
<1> QED
  BY <1>5, FS_CardinalityType

\* The channels that are ready can be counted, before and after a step.
LEMMA ReadyFinite ==
    ASSUME TypeOK, TypeOK'
    PROVE  /\ IsFiniteSet(Ready) /\ Cardinality(Ready) \in Nat
           /\ IsFiniteSet(Ready') /\ Cardinality(Ready') \in Nat
<1>1. chans \in Seq(Chan) /\ chans' \in Seq(Chan)
  BY DEF TypeOK
<1>2. Ready \subseteq ToSet(chans) /\ Ready' \subseteq ToSet(chans')
  BY DEF Ready, Attached
<1> QED
  BY <1>1, <1>2, ListFinite

\* What a step does to a channel that it does not wake: nothing that would give
\* the channel more to do, unless it goes down.
Left(d) ==
    /\ d \in Attached
    /\ sock'[d] = "up" => sock[d] = "up" /\ (d \in writer' <=> d \in writer)
    /\ sock'[d] = "up" /\ ~TimedOut(d)' =>
           /\ ~TimedOut(d)
           /\ pendingReq'[d] = NoOp => pendingReq[d] = NoOp
           /\ pendingInd'[d] = NoOp => pendingInd[d] = NoOp
           /\ cq'[d] # <<>> => cq[d] # <<>>

\* The shared queues but the one of requests get nothing.
Less == (wrQ' # <<>> => wrQ # <<>>) /\ (indQ' # <<>> => indQ # <<>>)

\* A step that only takes something to send away, or a channel.
LEMMA WakeQuiet ==
    ASSUME TypeOK, TypeOK', Woken, Enough, Less,
           \A d \in Attached' :
               Left(d) /\ (pendingReq[d] = NoOp => pendingReq'[d] = NoOp),
           \/ reqQ' = <<>>
           \/ Attached' = Attached /\ Len(reqQ') <= Len(reqQ)
    PROVE  Woken' /\ Enough'
<1>1. Woken'
  BY DEF Woken, Left, Less
<1>2. ASSUME NEW c \in Attached', AllUp', ~TimedOut(c)', pendingReq'[c] = NoOp,
             c \notin writer', reqQ' # <<>>
      PROVE  Len(reqQ') <= Cardinality(Ready')
  <2>1. Attached' = Attached /\ Len(reqQ') <= Len(reqQ)
    BY <1>2
  <2>2. \A d \in Attached : sock'[d] = "up" /\ sock[d] = "up"
    BY <1>2, <2>1 DEF AllUp, Left
  <2>3. Ready \in SUBSET Ready'
    BY <2>1, <2>2 DEF Ready, Left
  <2>4. /\ IsFiniteSet(Ready') /\ Cardinality(Ready') \in Nat
        /\ Cardinality(Ready) \in Nat
    BY ReadyFinite
  <2>5. Cardinality(Ready) <= Cardinality(Ready')
    BY <2>3, <2>4, FS_Subset
  <2>6. Len(reqQ) \in Nat /\ Len(reqQ') \in Nat
    BY DEF TypeOK
  <2>7. reqQ # <<>>
    <3>1. Len(reqQ') # 0
      BY <1>2 DEF TypeOK
    <3> QED
      BY <2>1, <2>6, <3>1
  <2>8. Len(reqQ) <= Cardinality(Ready)
    BY <1>2, <2>1, <2>2, <2>7 DEF Enough, AllUp, Left
  <2> QED
    BY <2>1, <2>4, <2>5, <2>6, <2>8
<1> QED
  BY <1>1, <1>2 DEF Enough

\* wakeup_writer: nobody sleeps who has something to do.
LEMMA WakeEvery ==
    ASSUME WakeAll, UNCHANGED chans
    PROVE  Woken' /\ Enough'
<1>1. \A c \in Attached' : Work(c)' => c \in writer'
  BY DEF WakeAll, Attached
<1> QED
  BY <1>1 DEF Woken, Enough, Work

\* wakeup_chan_writer: c does not sleep if it has something to do, and the
\* others have no more than before.
LEMMA WakeOne ==
    ASSUME TypeOK, TypeOK', Woken, Enough, NEW c \in Chan, WakeChan(c), Less,
           Attached' = Attached \cup {c}, UNCHANGED reqQ,
           \A d \in Attached' \ {c} : Left(d),
           \A d \in Attached : pendingReq[d] = NoOp => pendingReq'[d] = NoOp,
           \A d \in Attached : sock'[d] = sock[d]
    PROVE  Woken' /\ Enough'
<1>1. Work(c)' => c \in writer'
  BY DEF WakeChan
<1>2. writer \subseteq writer'
  BY DEF WakeChan
<1>3. ASSUME NEW d \in Attached', sock'[d] = "up", ~TimedOut(d)',
             cq'[d] # <<>> \/ wrQ' # <<>> \/ (pendingInd'[d] = NoOp /\ indQ' # <<>>)
      PROVE  d \in writer'
  <2>1. CASE d = c
    BY <1>1, <1>3, <2>1 DEF Work
  <2>2. CASE d # c
    BY <1>3, <2>2 DEF Woken, Left, Less
  <2> QED
    BY <2>1, <2>2
<1>4. ASSUME NEW d \in Attached', AllUp', ~TimedOut(d)', pendingReq'[d] = NoOp,
             d \notin writer', reqQ' # <<>>
      PROVE  Len(reqQ') <= Cardinality(Ready')
  <2>1. d # c
    BY <1>1, <1>4 DEF Work
  <2>2. \A x \in Attached : sock'[x] = "up" /\ sock[x] = "up"
    BY <1>4 DEF AllUp
  <2>3. Ready \in SUBSET Ready'
    BY <1>2, <2>2 DEF Ready
  <2>4. /\ IsFiniteSet(Ready') /\ Cardinality(Ready') \in Nat
        /\ Cardinality(Ready) \in Nat
    BY ReadyFinite
  <2>5. Cardinality(Ready) <= Cardinality(Ready')
    BY <2>3, <2>4, FS_Subset
  <2>6. Len(reqQ) <= Cardinality(Ready)
    BY <1>2, <1>4, <2>1, <2>2 DEF Enough, AllUp, Left
  <2>7. Len(reqQ) \in Nat
    BY DEF TypeOK
  <2> QED
    BY <2>4, <2>5, <2>6, <2>7
<1> QED
  BY <1>3, <1>4 DEF Woken, Enough

\* handle_error_rsp puts the request of c back and wakes c: one more request,
\* and one more channel that will take one.
LEMMA WakeRetry ==
    ASSUME TypeOK, TypeOK', Woken, Enough, NEW c \in Attached, WakeChan(c), Less,
           UNCHANGED <<chans, sock, frame, cq, pendingInd>>,
           pendingReq[c] # NoOp, reqQ' = Cons(pendingReq[c], reqQ),
           pendingReq' = [pendingReq EXCEPT ![c] = NoOp]
    PROVE  Woken' /\ Enough'
<1>0. Attached' = Attached /\ c \in Chan
  BY AttachedType DEF Attached, TypeOK
<1>1. /\ pendingReq'[c] = NoOp
      /\ \A d \in Chan : d # c => pendingReq'[d] = pendingReq[d]
  BY <1>0 DEF TypeOK
<1>2. Len(reqQ') = Len(reqQ) + 1 /\ reqQ' # <<>> /\ Len(reqQ) \in Nat
  BY <1>0 DEF TypeOK, Cons
<1>3. c \in writer' /\ writer \subseteq writer'
  BY <1>1, <1>2 DEF WakeChan, Work
<1>4. Woken'
  BY <1>0, <1>3 DEF Woken, Less, TimedOut
<1>5. ASSUME NEW d \in Attached', AllUp', ~TimedOut(d)', pendingReq'[d] = NoOp,
             d \notin writer', reqQ' # <<>>
      PROVE  Len(reqQ') <= Cardinality(Ready')
  <2>1. d # c /\ d \in Attached /\ d \in Chan
    BY <1>0, <1>3, <1>5, AttachedType DEF TypeOK
  <2>2. AllUp
    BY <1>0, <1>5 DEF AllUp
  <2>3. Ready \cup {c} \in SUBSET Ready' /\ c \notin Ready
    BY <1>0, <1>1, <1>3, <2>2, AttachedType DEF Ready, AllUp, TypeOK
  <2>4. /\ IsFiniteSet(Ready') /\ Cardinality(Ready') \in Nat
        /\ IsFiniteSet(Ready) /\ Cardinality(Ready) \in Nat
    BY ReadyFinite
  <2>5. Cardinality(Ready \cup {c}) <= Cardinality(Ready')
    BY <2>3, <2>4, FS_Subset
  <2>6. Cardinality(Ready \cup {c}) = Cardinality(Ready) + 1
    BY <2>3, <2>4, FS_AddElement
  <2>7. reqQ # <<>> => Len(reqQ) <= Cardinality(Ready)
    BY <1>1, <1>3, <1>5, <2>1, <2>2 DEF Enough, TimedOut
  <2>8. reqQ = <<>> => Len(reqQ) = 0
    OBVIOUS
  <2> QED
    BY <1>2, <2>4, <2>5, <2>6, <2>7, <2>8
<1> QED
  BY <1>4, <1>5 DEF Enough

\* Every PDU that waits fits every channel,
LEMMA FitsAll ==
    ASSUME Inv, SameMtu, Fitting, NEW c \in Attached, NEW q \in {wrQ, reqQ, indQ}
    PROVE  Fits(q, c) <=> q # <<>>
<1>1. q \in Seq(OpId) /\ AtMost(q, nops)
  BY DEF Inv, TypeOK, KnownOps
<1>2. ASSUME q # <<>>
      PROVE  info[Head(q)].len <= cmtu[c]
  <2>1. Head(q) \in OpId /\ Head(q) = q[1] /\ 1 \in 1..Len(q)
    BY <1>1, <1>2
  <2>2. Head(q) <= nops
    BY <1>1, <2>1 DEF AtMost
  <2> QED
    BY <2>1, <2>2 DEF Fitting, SameMtu
<1> QED
  BY <1>2 DEF Fits

\* so a channel finds something to send if and only if there is something.
LEMMA PickedWork ==
    ASSUME Inv, SameMtu, Fitting, NEW c \in Attached
    PROVE  PickSource(c) # "none" <=> Work(c)
<1>1. /\ Fits(wrQ, c) <=> wrQ # <<>>
      /\ Fits(reqQ, c) <=> reqQ # <<>>
      /\ Fits(indQ, c) <=> indQ # <<>>
  BY FitsAll
<1> QED
  BY <1>1 DEF PickSource, Work

\* can_write_data finds nothing and removes the watch.
LEMMA WakeNone ==
    ASSUME Inv, TypeOK', SameMtu, Fitting, Woken, Enough, NEW c \in Chan, WriteNone(c)
    PROVE  Woken' /\ Enough'
<1> USE DEF attVars, queues, opVars, chanCfg, peer, history
<1>1. /\ UNCHANGED <<chans, sock, frame, cq, pendingReq, pendingInd, reqQ, indQ, wrQ>>
      /\ writer' = writer \ {c} /\ c \in Attached
  BY DEF WriteNone
<1>2. ~Work(c)
  BY <1>1, PickedWork DEF WriteNone
<1>3. Attached' = Attached
  BY <1>1 DEF Attached
<1>4. Woken'
  BY <1>1, <1>2, <1>3 DEF Woken, TimedOut, Work
<1>5. ASSUME NEW d \in Attached', AllUp', ~TimedOut(d)', pendingReq'[d] = NoOp,
             d \notin writer', reqQ' # <<>>
      PROVE  Len(reqQ') <= Cardinality(Ready')
  <2>1. pendingReq[c] # NoOp
    BY <1>1, <1>2, <1>5 DEF Work
  <2>2. Ready' = Ready
    BY <1>1, <1>3, <2>1 DEF Ready
  <2>3. d # c /\ d \notin writer
    BY <1>1, <1>5, <2>1
  <2> QED
    BY <1>1, <1>3, <1>5, <2>2, <2>3 DEF Enough, AllUp, TimedOut
<1> QED
  BY <1>4, <1>5 DEF Enough

\* What pick_next_send_op takes from a queue leaves less to send.
LEMMA PoppedLess ==
    ASSUME TypeOK, NEW c \in Chan, PickSource(c) # "none", PopPicked(c)
    PROVE  /\ Less /\ \A d \in Chan : cq'[d] # <<>> => cq[d] # <<>>
           /\ PickSource(c) # "req" => UNCHANGED reqQ
           /\ PickSource(c) = "req" => /\ reqQ # <<>> /\ pendingReq[c] = NoOp
                                       /\ reqQ' = Tail(reqQ)
<1>1. /\ PickSource(c) = "write" => wrQ # <<>>
      /\ PickSource(c) = "ind" => indQ # <<>>
      /\ PickSource(c) = "req" => reqQ # <<>> /\ pendingReq[c] = NoOp
      /\ PickSource(c) = "chan" => cq[c] # <<>>
  BY DEF PickSource, Fits
<1>2. Less
  BY <1>1 DEF Less, PopPicked
<1>3. \A d \in Chan : cq'[d] # <<>> => cq[d] # <<>>
  BY <1>1 DEF PopPicked, TypeOK
<1> QED
  BY <1>1, <1>2, <1>3 DEF PopPicked

\* can_write_data sends something: a request less, and a channel less that
\* will take one, or neither.
LEMMA WakeWrite ==
    ASSUME Inv, TypeOK', Owners, Woken, Enough, NEW c \in Chan, NEW out, WritePdu(c, out)
    PROVE  Woken' /\ Enough'
<1> USE DEF attVars, queues, opVars, chanCfg, peer, history
<1>1. /\ UNCHANGED <<chans, sock, frame, writer, info>> /\ c \in Attached /\ c \in writer
      /\ PickSource(c) # "none" /\ PopPicked(c) /\ frame.k = "idle"
  BY DEF WritePdu, Idle
<1>2. /\ Less /\ \A d \in Chan : cq'[d] # <<>> => cq[d] # <<>>
      /\ PickSource(c) # "req" => UNCHANGED reqQ
      /\ PickSource(c) = "req" => /\ reqQ # <<>> /\ pendingReq[c] = NoOp
                                  /\ reqQ' = Tail(reqQ)
  BY <1>1, PoppedLess DEF Inv
<1>3. PICK x \in OpId : Written(c, out, x)
  BY WriteEffect
<1>4. /\ info[x].type = "REQ" => pendingReq[c] = NoOp
      /\ info[x].type = "IND" => pendingInd[c] = NoOp
      /\ \A d \in Chan :
            /\ pendingReq'[d] = IF d = c /\ info[x].type = "REQ" THEN x
                                ELSE pendingReq[d]
            /\ pendingInd'[d] = IF d = c /\ info[x].type = "IND" THEN x
                                ELSE pendingInd[d]
      /\ x # NoOp
  BY <1>3 DEF Written, OpId, NoOp
<1>5. info[x].type = "REQ" <=> PickSource(c) = "req"
  <2>1. x = Head(PickedQueue(c))
    BY <1>3 DEF Written
  <2>2. PickSource(c) \in {"chan", "write", "req", "ind"}
    BY <1>1 DEF PickSource
  <2>3. CASE PickSource(c) = "req"
    <3>1. x = Head(reqQ) /\ reqQ # <<>> /\ reqQ \in Seq(OpId)
      BY <1>2, <2>1, <2>3 DEF PickedQueue, Inv, TypeOK
    <3>2. x \in ToSet(reqQ)
      BY <3>1, QueueMoves DEF Owners, NoTwice
    <3> QED
      BY <2>3, <3>2 DEF Owners, Filed
  <2>4. CASE PickSource(c) # "req"
    <3>0. /\ PickSource(c) = "chan" => cq[c] # <<>> /\ x = Head(cq[c])
          /\ PickSource(c) = "write" => wrQ # <<>> /\ x = Head(wrQ)
          /\ PickSource(c) = "ind" => indQ # <<>> /\ x = Head(indQ)
      <4>1. /\ PickSource(c) = "chan" => cq[c] # <<>>
            /\ PickSource(c) = "write" => wrQ # <<>>
            /\ PickSource(c) = "ind" => indQ # <<>>
        BY DEF PickSource, Fits
      <4> QED
        BY <2>1, <4>1 DEF PickedQueue
    <3>1. PICK q \in {cq[c], wrQ, indQ} : q # <<>> /\ x = Head(q)
      BY <2>2, <2>4, <3>0
    <3>2. q \in Seq(OpId) /\ QDistinct(q)
      BY <3>1, ShrunkQueues
    <3>3. x \in ToSet(q)
      BY <3>1, <3>2, QueueMoves
    <3>4. info[x].type # "REQ"
      BY <3>3 DEF Owners, Filed
    <3> QED
      BY <2>4, <3>4
  <2> QED
    BY <2>3, <2>4
<1>6. Attached' = Attached /\ Attached \subseteq Chan
  BY <1>1, AttachedType DEF Attached, Inv
<1>7. ASSUME NEW d \in Attached'
      PROVE  Left(d)
  BY <1>1, <1>2, <1>4, <1>6 DEF Left, TimedOut
<1>8. CASE PickSource(c) # "req"
  <2>1. \A d \in Attached' : pendingReq[d] = NoOp => pendingReq'[d] = NoOp
    BY <1>4, <1>5, <1>6, <1>8
  <2>2. Len(reqQ') <= Len(reqQ)
    BY <1>2, <1>8 DEF Inv, TypeOK
  <2> QED
    BY <1>2, <1>6, <1>7, <2>1, <2>2, WakeQuiet DEF Inv
<1>9. CASE PickSource(c) = "req"
  <2>1. Woken'
    BY <1>2, <1>6, <1>7 DEF Woken, Left, Less
  <2>2. ASSUME NEW d \in Attached', AllUp', ~TimedOut(d)', pendingReq'[d] = NoOp,
               d \notin writer', reqQ' # <<>>
        PROVE  Len(reqQ') <= Cardinality(Ready')
    <3>1. /\ IsFiniteSet(Ready) /\ Cardinality(Ready) \in Nat
          /\ IsFiniteSet(Ready') /\ Cardinality(Ready') \in Nat
      BY ReadyFinite DEF Inv
    <3>2. Ready' = Ready \ {c} /\ c \in Ready
      BY <1>1, <1>2, <1>4, <1>5, <1>6, <1>9, <2>2 DEF Ready, AllUp
    <3>3. Cardinality(Ready') = Cardinality(Ready) - 1
      BY <3>1, <3>2, FS_RemoveElement
    <3>4. Len(reqQ') = Len(reqQ) - 1 /\ Len(reqQ) \in Nat
      <4>1. reqQ \in Seq(OpId) /\ reqQ # <<>> /\ reqQ' = Tail(reqQ)
        BY <1>2, <1>9 DEF Inv, TypeOK
      <4> QED
        BY <4>1
    <3>5. Len(reqQ) <= Cardinality(Ready)
      BY <1>1, <1>2, <1>6, <1>7, <1>9, <2>2 DEF Enough, AllUp, Left
    <3> QED
      BY <3>1, <3>3, <3>4, <3>5
  <2> QED
    BY <2>1, <2>2 DEF Enough
<1> QED
  BY <1>8, <1>9

\* Nothing of this changes, and timeout_cb does not end.
LEMMA WakeSame ==
    ASSUME Woken, Enough, UNCHANGED frame \/ frame.k # "timeout",
           UNCHANGED <<chans, writer, sock, cq, pendingReq, pendingInd, reqQ, indQ, wrQ>>
    PROVE  Woken' /\ Enough'
<1>1. Attached' = Attached /\ \A c \in Attached : TimedOut(c) => TimedOut(c)'
  BY DEF Attached, TimedOut
<1>2. Ready' = Ready /\ AllUp' = AllUp
  BY <1>1 DEF Ready, AllUp
<1> QED
  BY <1>1, <1>2 DEF Woken, Enough

\* A channel goes down: disconnect_cb will flush the queues.
LEMMA WakeDown ==
    ASSUME Inv, TypeOK', Woken, Enough, NEW c \in Chan, NEW s,
           sock' = [sock EXCEPT ![c] = s], s # "up",
           frame' = frame \/ TimedOut(c) \/ frame.k # "timeout",
           UNCHANGED <<chans, writer, cq, pendingReq, pendingInd, reqQ, indQ, wrQ>>
    PROVE  Woken' /\ Enough'
<1>1. Attached' = Attached /\ Attached \subseteq Chan
  BY AttachedType DEF Attached, Inv
<1>2. /\ sock'[c] = s
      /\ \A d \in Chan : d # c => sock'[d] = sock[d]
  BY DEF Inv, TypeOK
<1>3. \A d \in Attached' : Left(d)
  BY <1>1, <1>2 DEF Left, TimedOut
<1>4. Less
  BY DEF Less
<1>5. Len(reqQ') <= Len(reqQ)
  BY DEF Inv, TypeOK
<1> QED
  BY <1>1, <1>3, <1>4, <1>5, WakeQuiet DEF Inv

\* bt_att_free leaves no channel.
LEMMA WakeFree ==
    ASSUME Free
    PROVE  Woken' /\ Enough'
<1>1. Attached' = {}
  BY QueueEmpty DEF Free, Attached
<1> QED
  BY <1>1 DEF Woken, Enough

\* A channel whose request or indication was answered is still attached.
LEMMA AnsweredAttached ==
    ASSUME Inv, Owners, NEW c \in Chan, frame.k \in {"rsp", "conf"}, frame.c = c
    PROVE  c \in Attached
<1>1. ~Leaving(c)
  BY DEF Leaving, Flushing
<1>2. frame.op # NoOp /\ frame.op \in {pendingReq[c], pendingInd[c]}
  BY DEF Owners, FrameShape
<1> QED
  BY <1>1, <1>2 DEF Owners, ChanShape

\* Every step leaves enough channels awake.
LEMMA WakeStep ==
    ASSUME Inv, Owners, TypeOK', SameMtu, Fitting, Woken, Enough, Next
    PROVE  Woken' /\ Enough'
<1> USE DEF attVars, queues, opVars, chanCfg, peer, history
<1>1. ASSUME NEW t \in ClientTypes, NEW oc \in Opcode, NEW len \in Lens,
             Send(t, oc, len)
      PROVE  Woken' /\ Enough'
  BY <1>1, WakeEvery DEF Send
<1>2. ASSUME NEW c \in Chan, NEW len \in Lens, ChanSendRsp(c, len)
      PROVE  Woken' /\ Enough'
  <2>1. /\ WakeChan(c) /\ c \in Attached
        /\ UNCHANGED <<chans, sock, frame, reqQ, indQ, wrQ, pendingReq, pendingInd>>
        /\ cq' = [cq EXCEPT ![c] = Append(@, nops + 1)]
    BY <1>2 DEF ChanSendRsp
  <2>2. \A d \in Chan : d # c => cq'[d] = cq[d] /\ (d \in writer' <=> d \in writer)
    BY <2>1 DEF WakeChan, Inv, TypeOK
  <2>3. Attached' = Attached \cup {c} /\ Attached' \subseteq Chan
    BY <2>1, AttachedType DEF Attached, Inv
  <2>4. Less /\ \A d \in Attached' \ {c} : Left(d)
    BY <2>1, <2>2, <2>3 DEF Less, Left, TimedOut
  <2> QED
    BY <2>1, <2>3, <2>4, WakeOne DEF Inv
<1>3. ASSUME NEW id \in 1..MaxOp, Cancel(id)
      PROVE  Woken' /\ Enough'
  <2>1. UNCHANGED <<chans, sock, frame, pendingReq, pendingInd>>
    BY <1>3 DEF Cancel
  <2>2. CASE WakeAll
    BY <2>1, <2>2, WakeEvery
  <2>3. ASSUME NEW o, CancelPending(o)
        PROVE  Woken' /\ Enough'
    BY <2>1, <2>3, WakeSame DEF CancelPending
  <2> QED
    BY <1>3, <2>2, <2>3 DEF Cancel
<1>4. ASSUME CancelAll
      PROVE  Woken' /\ Enough'
  <2>1. /\ UNCHANGED <<chans, sock, frame, writer, cq, pendingReq, pendingInd>>
        /\ reqQ' = <<>> /\ indQ' = <<>> /\ wrQ' = <<>>
    BY <1>4 DEF CancelAll
  <2>2. Attached' = Attached /\ Less
    BY <2>1 DEF Attached, Less
  <2>3. \A d \in Attached' : Left(d)
    BY <2>1, <2>2 DEF Left, TimedOut
  <2> QED
    BY <2>1, <2>2, <2>3, WakeQuiet DEF Inv
<1>5. ASSUME NEW m \in Mtus, SetMtu(m)
      PROVE  Woken' /\ Enough'
  BY <1>5, WakeSame DEF SetMtu
<1>6. ASSUME NEW l \in ClientLevels, SetSecurity(l)
      PROVE  Woken' /\ Enough'
  BY <1>6, WakeSame DEF SetSecurity
<1>7. ASSUME NEW c \in Chan, NEW m \in Mtus, AttachFd(c, m)
      PROVE  Woken' /\ Enough'
  <2>1. /\ WakeChan(c) /\ sock[c] = "unused" /\ chans' = Cons(c, chans)
        /\ sock' = [sock EXCEPT ![c] = "up"]
        /\ UNCHANGED <<frame, cq, reqQ, indQ, wrQ, pendingReq, pendingInd>>
    BY <1>7 DEF AttachFd
  <2>2. c \notin Attached
    BY <2>1 DEF Owners, ChanShape
  <2>3. chans \in Seq(Chan) /\ QDistinct(chans)
    BY DEF Inv, TypeOK, Owners, ChanShape
  <2>4. Attached' = Attached \cup {c} /\ Attached \subseteq Chan
    BY <2>1, <2>2, <2>3, QueueMoves, AttachedType DEF Attached, Inv
  <2>5. \A d \in Chan : d # c => sock'[d] = sock[d] /\ (d \in writer' <=> d \in writer)
    BY <2>1 DEF WakeChan, Inv, TypeOK
  <2>6. Less /\ \A d \in Attached' \ {c} : Left(d)
    BY <2>1, <2>4, <2>5 DEF Less, Left, TimedOut
  <2> QED
    BY <2>1, <2>2, <2>4, <2>5, <2>6, WakeOne DEF Inv
<1>8. ASSUME ClientUnref
      PROVE  Woken' /\ Enough'
  <2>1. CASE frame.k = "idle"
    BY <1>8, <2>1, WakeFree DEF ClientUnref
  <2>2. CASE frame.k # "idle"
    BY <1>8, <2>2, WakeSame DEF ClientUnref
  <2> QED
    BY <2>1, <2>2
<1>9. ASSUME NEW c \in Chan, NEW o \in OpId, NEW e \in Ecode,
             PeerAnswers(c, o, e)
      PROVE  Woken' /\ Enough'
  <2>1. frame.k = "idle" /\ c \in Attached
        /\ UNCHANGED <<chans, indQ, wrQ, cq, pendingInd>>
    BY <1>9 DEF PeerAnswers, HandleRsp, Readable, Idle
  <2>2. ASSUME RspUnexpected(c)
        PROVE  Woken' /\ Enough'
    BY <2>1, <2>2, WakeDown DEF RspUnexpected, Shutdown
  <2>3. ASSUME RspRetry(c, e)
        PROVE  Woken' /\ Enough'
    <3>1. Less
      BY <2>1 DEF Less
    <3> QED
      BY <2>1, <2>3, <3>1, WakeRetry DEF RspRetry, Inv
  <2>4. ASSUME NEW q, RspDeliver(c, q, e)
        PROVE  Woken' /\ Enough'
    BY <2>1, <2>4, WakeSame DEF RspDeliver
  <2> QED
    BY <1>9, <2>2, <2>3, <2>4 DEF PeerAnswers, HandleRsp
<1>10. ASSUME NEW c \in Chan, NEW oc \in Opcode \cup {NoOpcode}, NEW e \in Ecode,
             RogueRsp(c, oc, e)
      PROVE  Woken' /\ Enough'
  <2>1. frame.k = "idle" /\ c \in Attached
        /\ UNCHANGED <<chans, indQ, wrQ, cq, pendingInd>>
    BY <1>10 DEF RogueRsp, HandleRsp, Readable, Idle
  <2>2. ASSUME RspUnexpected(c)
        PROVE  Woken' /\ Enough'
    BY <2>1, <2>2, WakeDown DEF RspUnexpected, Shutdown
  <2>3. ASSUME RspRetry(c, e)
        PROVE  Woken' /\ Enough'
    <3>1. Less
      BY <2>1 DEF Less
    <3> QED
      BY <2>1, <2>3, <3>1, WakeRetry DEF RspRetry, Inv
  <2>4. ASSUME NEW q, RspDeliver(c, q, e)
        PROVE  Woken' /\ Enough'
    BY <2>1, <2>4, WakeSame DEF RspDeliver
  <2> QED
    BY <1>10, <2>2, <2>3, <2>4 DEF RogueRsp, HandleRsp
<1>11. ASSUME NEW c \in Chan, NEW o \in OpId, PeerConfirms(c, o)
      PROVE  Woken' /\ Enough'
  <2>1. frame.k = "idle"
        /\ UNCHANGED <<chans, writer, cq, pendingReq, pendingInd, reqQ, indQ, wrQ>>
    BY <1>11 DEF PeerConfirms, HandleConf, Readable, Idle
  <2>2. CASE Shutdown(c)
    BY <2>1, <2>2, WakeDown DEF Shutdown
  <2>3. CASE UNCHANGED sock
    BY <2>1, <2>3, WakeSame
  <2> QED
    BY <1>11, <2>2, <2>3 DEF PeerConfirms, HandleConf
<1>12. ASSUME NEW c \in Chan, NEW empty \in BOOLEAN, RogueConf(c, empty)
      PROVE  Woken' /\ Enough'
  <2>1. frame.k = "idle"
        /\ UNCHANGED <<chans, writer, cq, pendingReq, pendingInd, reqQ, indQ, wrQ>>
    BY <1>12 DEF RogueConf, HandleConf, Readable, Idle
  <2>2. CASE Shutdown(c)
    BY <2>1, <2>2, WakeDown DEF Shutdown
  <2>3. CASE UNCHANGED sock
    BY <2>1, <2>3, WakeSame
  <2> QED
    BY <1>12, <2>2, <2>3 DEF RogueConf, HandleConf
<1>13. ASSUME NEW c \in Chan, PeerRequestTwice(c)
      PROVE  Woken' /\ Enough'
  BY <1>13, WakeDown DEF PeerRequestTwice, Shutdown
<1>14. ASSUME NEW c \in Chan, ReadError(c)
      PROVE  Woken' /\ Enough'
  BY <1>14, WakeSame DEF ReadError
<1>15. ASSUME NEW c \in Chan, PeerHangup(c)
      PROVE  Woken' /\ Enough'
  BY <1>15, WakeDown DEF PeerHangup
<1>16. ASSUME NEW c \in Chan, NEW t \in PeerTypes, PeerSendsHandled(c, t)
      PROVE  Woken' /\ Enough'
  BY <1>16, WakeSame DEF PeerSendsHandled, Arrives, Readable, Idle
<1>17. ASSUME NEW c \in Chan, NEW t \in PeerTypes, PeerSendsUnhandled(c, t)
      PROVE  Woken' /\ Enough'
  BY <1>17, WakeEvery DEF PeerSendsUnhandled
<1>18. ASSUME NEW c \in Chan, WriteNone(c)
      PROVE  Woken' /\ Enough'
  BY <1>18, WakeNone
<1>19. ASSUME NEW c \in Chan, NEW out \in {"sent", "failed"}, WritePdu(c, out)
      PROVE  Woken' /\ Enough'
  BY <1>19, WakeWrite
<1>20. ASSUME NEW c \in Chan, WriteZero(c)
      PROVE  Woken' /\ Enough'
  <2>1. /\ UNCHANGED <<chans, sock, writer, pendingReq, pendingInd>>
        /\ frame.k = "idle" /\ PickSource(c) # "none" /\ PopPicked(c)
    BY <1>20 DEF WriteZero, Idle
  <2>2. /\ Less /\ \A d \in Chan : cq'[d] # <<>> => cq[d] # <<>>
        /\ PickSource(c) # "req" => UNCHANGED reqQ
        /\ PickSource(c) = "req" => /\ reqQ # <<>> /\ pendingReq[c] = NoOp
                                    /\ reqQ' = Tail(reqQ)
    BY <2>1, PoppedLess DEF Inv
  <2>3. Len(reqQ') <= Len(reqQ)
    <3>1. reqQ \in Seq(OpId)
      BY DEF Inv, TypeOK
    <3> QED
      BY <2>2, <3>1
  <2>4. Attached' = Attached /\ Attached \subseteq Chan
    BY <2>1, AttachedType DEF Attached, Inv
  <2>5. \A d \in Attached' : Left(d)
    BY <2>1, <2>2, <2>4 DEF Left, TimedOut
  <2> QED
    BY <2>1, <2>2, <2>3, <2>4, <2>5, WakeQuiet DEF Inv
<1>21. ASSUME NEW c \in Chan, NEW o \in OpId, Timeout(c, o)
      PROVE  Woken' /\ Enough'
  <2>1. /\ UNCHANGED <<chans, sock, writer, cq, reqQ, indQ, wrQ>>
        /\ frame.k = "idle" /\ frame'.k = "timeout" /\ frame'.c = c
    BY <1>21 DEF Timeout, Idle, CallFrame
  <2>2. \A d \in Chan :
            /\ d # c => pendingReq'[d] = pendingReq[d] /\ pendingInd'[d] = pendingInd[d]
            /\ pendingReq[d] = NoOp => pendingReq'[d] = NoOp
    BY <1>21 DEF Timeout, Inv, TypeOK
  <2>3. Attached' = Attached /\ Attached \subseteq Chan /\ Less
    BY <2>1, AttachedType DEF Attached, Inv, Less
  <2>4. \A d \in Attached' : Left(d)
    BY <2>1, <2>2, <2>3 DEF Left, TimedOut
  <2>5. Len(reqQ') <= Len(reqQ)
    BY <2>1 DEF Inv, TypeOK
  <2> QED
    BY <2>2, <2>3, <2>4, <2>5, WakeQuiet DEF Inv
<1>22. ASSUME NEW c \in Chan, WatchError(c)
      PROVE  Woken' /\ Enough'
  <2>1. /\ UNCHANGED <<chans, sock, frame, cq, reqQ, indQ, wrQ, pendingReq, pendingInd>>
        /\ sock[c] # "up" /\ writer' = writer \ {c}
    BY <1>22 DEF WatchError
  <2>2. Attached' = Attached /\ Less
    BY <2>1 DEF Attached, Less
  <2>3. \A d \in Attached' : Left(d)
    BY <2>1, <2>2 DEF Left, TimedOut
  <2>4. Len(reqQ') <= Len(reqQ)
    BY <2>1 DEF Inv, TypeOK
  <2> QED
    BY <2>1, <2>2, <2>3, <2>4, WakeQuiet DEF Inv
<1>23. ASSUME NEW c \in Chan, Disconnect(c)
      PROVE  Woken' /\ Enough'
  <2>1. /\ UNCHANGED <<sock, writer, cq, indQ, wrQ, pendingReq, pendingInd>>
        /\ frame.k = "idle" /\ reqQ' = <<>>
    BY <1>23 DEF Disconnect, Idle
  <2>2. PICK i \in 1..Len(chans) : chans[i] = c /\ chans' = RemoveAt(chans, i)
    BY <1>23 DEF Disconnect
  <2>3. chans \in Seq(Chan) /\ QDistinct(chans)
    BY DEF Inv, TypeOK, Owners, ChanShape
  <2>4. Attached' = Attached \ {c} /\ Less
    BY <2>1, <2>2, <2>3, QueueMoves DEF Attached, Less
  <2>5. \A d \in Attached' : Left(d)
    BY <2>1, <2>4 DEF Left, TimedOut
  <2> QED
    BY <2>1, <2>4, <2>5, WakeQuiet DEF Inv
<1>24. ASSUME NEW c \in Chan, ReturnRsp(c)
      PROVE  Woken' /\ Enough'
  <2>1. /\ WakeChan(c) /\ frame.k = "rsp" /\ frame.c = c
        /\ UNCHANGED <<chans, sock, cq, reqQ, indQ, wrQ, pendingInd>>
        /\ pendingReq' = [pendingReq EXCEPT ![c] = NoOp]
    BY <1>24 DEF ReturnRsp
  <2>2. \A d \in Chan : /\ d # c => pendingReq'[d] = pendingReq[d]
                        /\ d # c => (d \in writer' <=> d \in writer)
                        /\ pendingReq[d] = NoOp => pendingReq'[d] = NoOp
    BY <2>1 DEF WakeChan, Inv, TypeOK
  <2>3. c \in Attached
    BY <2>1, AnsweredAttached
  <2>4. Attached' = Attached \cup {c} /\ Attached \subseteq Chan
    BY <2>1, <2>3, AttachedType DEF Attached, Inv
  <2>5. ASSUME NEW d \in Attached' \ {c}
        PROVE  Left(d)
    <3>1. d \in Attached /\ d \in Chan /\ d # c
      BY <2>4
    <3>2. /\ sock'[d] = sock[d] /\ cq'[d] = cq[d] /\ ~TimedOut(d)
          /\ pendingReq'[d] = pendingReq[d] /\ pendingInd'[d] = pendingInd[d]
      BY <2>1, <2>2, <3>1 DEF TimedOut
    <3>3. d \in writer' <=> d \in writer
      BY <2>2, <3>1
    <3> QED
      BY <3>1, <3>2, <3>3 DEF Left
  <2>6. Less
    BY <2>1 DEF Less
  <2> QED
    BY <2>1, <2>2, <2>4, <2>5, <2>6, WakeOne DEF Inv
<1>25. ASSUME NEW c \in Chan, ReturnConf(c)
      PROVE  Woken' /\ Enough'
  <2>1. /\ WakeChan(c) /\ frame.k = "conf" /\ frame.c = c
        /\ UNCHANGED <<chans, sock, cq, reqQ, indQ, wrQ, pendingReq>>
        /\ pendingInd' = [pendingInd EXCEPT ![c] = NoOp]
    BY <1>25 DEF ReturnConf
  <2>2. \A d \in Chan : /\ d # c => pendingInd'[d] = pendingInd[d]
                        /\ d # c => (d \in writer' <=> d \in writer)
    BY <2>1 DEF WakeChan, Inv, TypeOK
  <2>3. c \in Attached
    BY <2>1, AnsweredAttached
  <2>4. Attached' = Attached \cup {c} /\ Attached \subseteq Chan
    BY <2>1, <2>3, AttachedType DEF Attached, Inv
  <2>5. ASSUME NEW d \in Attached' \ {c}
        PROVE  Left(d)
    <3>1. d \in Attached /\ d \in Chan /\ d # c
      BY <2>4
    <3> QED
      BY <2>1, <2>2, <3>1 DEF Left, TimedOut
  <2>6. Less
    BY <2>1 DEF Less
  <2> QED
    BY <2>1, <2>4, <2>5, <2>6, WakeOne DEF Inv
<1>26. ASSUME ReturnZero
      PROVE  Woken' /\ Enough'
  BY <1>26, WakeSame DEF ReturnZero
<1>27. ASSUME ReturnNotify
      PROVE  Woken' /\ Enough'
  BY <1>27, WakeSame DEF ReturnNotify
<1>28. ASSUME Exit
      PROVE  Woken' /\ Enough'
  <2>1. CASE clientRef
    BY <1>28, <2>1, WakeSame DEF Exit
  <2>2. CASE ~clientRef
    BY <1>28, <2>2, WakeFree DEF Exit
  <2> QED
    BY <2>1, <2>2
<1>29. ASSUME ReturnTimeout
      PROVE  Woken' /\ Enough'
  <2>1. PICK c \in Chan : c = frame.c
    BY <1>29, FrameFields DEF ReturnTimeout, Inv
  <2> QED
    BY <1>29, <2>1, WakeDown DEF ReturnTimeout, Shutdown, TimedOut
<1>30. ASSUME FlushCall
      PROVE  Woken' /\ Enough'
  BY <1>30, WakeSame DEF FlushCall, Flushing
<1>31. ASSUME ReturnFlush
      PROVE  Woken' /\ Enough'
  BY <1>31, WakeSame DEF ReturnFlush, Flushing
<1>32. ASSUME FlushInd
      PROVE  Woken' /\ Enough'
  <2>1. /\ UNCHANGED <<chans, sock, writer, cq, reqQ, wrQ, pendingReq, pendingInd>>
        /\ frame.k = "dreq" /\ indQ' = <<>>
    BY <1>32 DEF FlushInd, FlushDone
  <2>2. Attached' = Attached /\ Less /\ Len(reqQ') <= Len(reqQ)
    BY <2>1 DEF Attached, Less, Inv, TypeOK
  <2>3. \A d \in Attached' : Left(d)
    BY <2>1, <2>2 DEF Left, TimedOut
  <2> QED
    BY <2>1, <2>2, <2>3, WakeQuiet DEF Inv
<1>33. ASSUME FlushWrite
      PROVE  Woken' /\ Enough'
  <2>1. /\ UNCHANGED <<chans, sock, writer, cq, reqQ, indQ, pendingReq, pendingInd>>
        /\ frame.k = "dind" /\ wrQ' = <<>>
    BY <1>33 DEF FlushWrite, FlushDone
  <2>2. Attached' = Attached /\ Less /\ Len(reqQ') <= Len(reqQ)
    BY <2>1 DEF Attached, Less, Inv, TypeOK
  <2>3. \A d \in Attached' : Left(d)
    BY <2>1, <2>2 DEF Left, TimedOut
  <2> QED
    BY <2>1, <2>2, <2>3, WakeQuiet DEF Inv
<1>34. ASSUME FlushPending
      PROVE  Woken' /\ Enough'
  <2>1. /\ UNCHANGED <<chans, sock, writer, cq, reqQ, indQ, wrQ>>
        /\ frame.k = "dwrite" /\ frame.c \notin Attached
    BY <1>34 DEF FlushPending, FlushDone, Owners, ChanShape, Flushing
  <2>2. Attached' = Attached /\ Attached \subseteq Chan /\ Less
    BY <2>1, AttachedType DEF Attached, Less, Inv
  <2>5. Len(reqQ') <= Len(reqQ)
    BY <2>1 DEF Inv, TypeOK
  <2>3. \A d \in Attached : pendingReq'[d] = pendingReq[d] /\ pendingInd'[d] = pendingInd[d]
    BY <1>34, <2>1, <2>2 DEF FlushPending, Inv, TypeOK
  <2>4. \A d \in Attached' : Left(d)
    BY <2>1, <2>2, <2>3 DEF Left, TimedOut
  <2> QED
    BY <2>2, <2>3, <2>4, <2>5, WakeQuiet DEF Inv
<1>35. ASSUME ChanFree
      PROVE  Woken' /\ Enough'
  <2>1. /\ UNCHANGED <<chans, reqQ, indQ, wrQ, pendingReq, pendingInd>>
        /\ frame.k = "dpend" /\ frame.c \notin Attached
        /\ writer' = writer \ {frame.c}
    BY <1>35 DEF ChanFree, FlushDone, Owners, ChanShape, Flushing
  <2>2. Attached' = Attached /\ Attached \subseteq Chan /\ Less
    BY <2>1, AttachedType DEF Attached, Less, Inv
  <2>5. Len(reqQ') <= Len(reqQ)
    BY <2>1 DEF Inv, TypeOK
  <2>3. \A d \in Attached : cq'[d] = cq[d] /\ sock'[d] = sock[d]
    BY <1>35, <2>1, <2>2 DEF ChanFree, Inv, TypeOK
  <2>4. \A d \in Attached' : Left(d)
    BY <2>1, <2>2, <2>3 DEF Left, TimedOut
  <2> QED
    BY <2>1, <2>2, <2>4, <2>5, WakeQuiet DEF Inv
<1>36. ASSUME ReturnDisconnect
      PROVE  Woken' /\ Enough'
  BY <1>36, WakeSame DEF ReturnDisconnect
<1> QED
  BY <1>1, <1>2, <1>3, <1>4, <1>5, <1>6, <1>7, <1>8, <1>9, <1>10, <1>11,
     <1>12, <1>13, <1>14, <1>15, <1>16, <1>17, <1>18, <1>19, <1>20, <1>21,
     <1>22, <1>23, <1>24, <1>25, <1>26, <1>27, <1>28, <1>29, <1>30, <1>31,
     <1>32, <1>33, <1>34, <1>35, <1>36 DEF Next, Client, Environment, Loop,
     Return

-----------------------------------------------------------------------------
(* The MTUs *)

\* A step that accepts no PDU, attaches no channel and changes no MTU.
Untouched ==
    /\ UNCHANGED <<info, nops, mtu, cmtu, setMtus>> /\ Attached' \subseteq Attached
    /\ sock[Original] # "unused" => sock'[Original] # "unused"

\* A step that accepts a PDU.
Creates ==
    /\ UNCHANGED <<mtu, cmtu, setMtus, chans, sock>> /\ Attached # {}
    /\ \E t, oc, len, id, ans : CreateOp(t, oc, len, id, ans)

\* The kinds of steps that matter here.
MtuMove ==
    \/ Untouched \/ Creates
    \/ \E m \in Mtus : SetMtu(m)
    \/ \E c \in Chan, m \in Mtus : AttachFd(c, m)

\* A list of channels that is not empty has a member.
LEMMA SomeAttached ==
    ASSUME TypeOK, chans # <<>>
    PROVE  Attached # {}
<1>1. chans \in Seq(Chan)
  BY DEF TypeOK
<1>2. 1 \in DOMAIN chans
  BY <1>1
<1>3. chans[1] \in Attached
  BY <1>2 DEF Attached, ToSet
<1> QED
  BY <1>3

\* Only a socket changes, and not back to one that was never used.
LEMMA MtuStill ==
    ASSUME TypeOK, UNCHANGED <<info, nops, mtu, cmtu, setMtus, chans>>,
           \/ UNCHANGED sock
           \/ \E c \in Chan, s \in {"hup", "shut", "freed"} :
                  sock' = [sock EXCEPT ![c] = s]
    PROVE  MtuMove
<1>1. Attached' = Attached
  BY DEF Attached
<1>2. sock[Original] # "unused" => sock'[Original] # "unused"
  BY ChanAssumption DEF TypeOK
<1> QED
  BY <1>1, <1>2 DEF MtuMove, Untouched

\* bt_att_free.
LEMMA MtuFree ==
    ASSUME TypeOK, Free
    PROVE  MtuMove
<1> USE DEF opVars, chanCfg
<1>1. Attached' = {} /\ UNCHANGED <<info, nops, mtu, cmtu, setMtus>>
  BY QueueEmpty DEF Free, Attached
<1>2. sock[Original] # "unused" => sock'[Original] # "unused"
  BY ChanAssumption DEF Free, TypeOK
<1> QED
  BY <1>1, <1>2 DEF MtuMove, Untouched

\* Every step is of one of these kinds.
LEMMA MtuStep ==
    ASSUME Inv, Owners, Next
    PROVE  MtuMove
<1> USE DEF attVars, queues, opVars, chanCfg, peer, history
<1>0. TypeOK
  BY DEF Inv
<1>1. ASSUME NEW t \in ClientTypes, NEW oc \in Opcode, NEW len \in Lens,
             Send(t, oc, len)
      PROVE  MtuMove
  <2>1. /\ chans # <<>> /\ UNCHANGED <<mtu, cmtu, setMtus, chans, sock>>
        /\ \E ty, op, l, id, ans : CreateOp(ty, op, l, id, ans)
    BY <1>1 DEF Send, SendOp
  <2>2. Attached # {}
    BY <2>1, SomeAttached DEF Inv
  <2> QED
    BY <2>1, <2>2 DEF Creates, MtuMove
<1>2. ASSUME NEW c \in Chan, NEW len \in Lens, ChanSendRsp(c, len)
      PROVE  MtuMove
  <2>1. /\ c \in Attached /\ UNCHANGED <<mtu, cmtu, setMtus, chans, sock>>
        /\ \E ty, op, l, id, ans : CreateOp(ty, op, l, id, ans)
    BY <1>2 DEF ChanSendRsp
  <2> QED
    BY <2>1 DEF Creates, MtuMove
<1>3. ASSUME NEW id \in 1..MaxOp, Cancel(id)
      PROVE  MtuMove
  BY <1>3, <1>0, MtuStill DEF Cancel
<1>4. ASSUME CancelAll
      PROVE  MtuMove
  BY <1>4, <1>0, MtuStill DEF CancelAll
<1>5. ASSUME NEW m \in Mtus, SetMtu(m)
      PROVE  MtuMove
  BY <1>5 DEF MtuMove
<1>6. ASSUME NEW l \in ClientLevels, SetSecurity(l)
      PROVE  MtuMove
  BY <1>6, <1>0, MtuStill DEF SetSecurity
<1>7. ASSUME NEW c \in Chan, NEW m \in Mtus, AttachFd(c, m)
      PROVE  MtuMove
  BY <1>7 DEF MtuMove
<1>8. ASSUME ClientUnref
      PROVE  MtuMove
  <2>1. CASE Free
    BY <1>8, <2>1, <1>0, MtuFree DEF ClientUnref
  <2>2. CASE UNCHANGED <<info, nops, mtu, cmtu, setMtus, chans, sock>>
    BY <2>2, <1>0, MtuStill
  <2> QED
    BY <1>8, <2>1, <2>2 DEF ClientUnref
<1>9. ASSUME NEW c \in Chan, NEW o \in OpId, NEW e \in Ecode,
             PeerAnswers(c, o, e)
      PROVE  MtuMove
  <2>1. UNCHANGED <<info, nops, mtu, cmtu, setMtus, chans>>
    BY <1>9 DEF PeerAnswers, HandleRsp, RspUnexpected, RspRetry, RspDeliver
  <2>2. UNCHANGED sock \/ Shutdown(c)
    BY <1>9 DEF PeerAnswers, HandleRsp, RspUnexpected, RspRetry, RspDeliver
  <2> QED
    BY <2>1, <2>2, <1>0, MtuStill DEF Shutdown
<1>10. ASSUME NEW c \in Chan, NEW oc \in Opcode \cup {NoOpcode}, NEW e \in Ecode,
             RogueRsp(c, oc, e)
      PROVE  MtuMove
  <2>1. UNCHANGED <<info, nops, mtu, cmtu, setMtus, chans>>
    BY <1>10 DEF RogueRsp, HandleRsp, RspUnexpected, RspRetry, RspDeliver
  <2>2. UNCHANGED sock \/ Shutdown(c)
    BY <1>10 DEF RogueRsp, HandleRsp, RspUnexpected, RspRetry, RspDeliver
  <2> QED
    BY <2>1, <2>2, <1>0, MtuStill DEF Shutdown
<1>11. ASSUME NEW c \in Chan, NEW o \in OpId, PeerConfirms(c, o)
      PROVE  MtuMove
  <2>1. UNCHANGED <<info, nops, mtu, cmtu, setMtus, chans>>
    BY <1>11 DEF PeerConfirms, HandleConf
  <2>2. UNCHANGED sock \/ Shutdown(c)
    BY <1>11 DEF PeerConfirms, HandleConf
  <2> QED
    BY <2>1, <2>2, <1>0, MtuStill DEF Shutdown
<1>12. ASSUME NEW c \in Chan, NEW empty \in BOOLEAN, RogueConf(c, empty)
      PROVE  MtuMove
  <2>1. UNCHANGED <<info, nops, mtu, cmtu, setMtus, chans>>
    BY <1>12 DEF RogueConf, HandleConf
  <2>2. UNCHANGED sock \/ Shutdown(c)
    BY <1>12 DEF RogueConf, HandleConf
  <2> QED
    BY <2>1, <2>2, <1>0, MtuStill DEF Shutdown
<1>13. ASSUME NEW c \in Chan, PeerRequestTwice(c)
      PROVE  MtuMove
  <2>1. UNCHANGED <<info, nops, mtu, cmtu, setMtus, chans>>
    BY <1>13 DEF PeerRequestTwice
  <2>2. UNCHANGED sock \/ Shutdown(c)
    BY <1>13 DEF PeerRequestTwice
  <2> QED
    BY <2>1, <2>2, <1>0, MtuStill DEF Shutdown
<1>14. ASSUME NEW c \in Chan, ReadError(c)
      PROVE  MtuMove
  BY <1>14, <1>0, MtuStill DEF ReadError
<1>15. ASSUME NEW c \in Chan, PeerHangup(c)
      PROVE  MtuMove
  BY <1>15, <1>0, MtuStill DEF PeerHangup
<1>16. ASSUME NEW c \in Chan, NEW t \in PeerTypes, PeerSendsHandled(c, t)
      PROVE  MtuMove
  BY <1>16, <1>0, MtuStill DEF PeerSendsHandled
<1>17. ASSUME NEW c \in Chan, NEW t \in PeerTypes, PeerSendsUnhandled(c, t)
      PROVE  MtuMove
  <2>1. /\ chans # <<>> /\ UNCHANGED <<mtu, cmtu, setMtus, chans, sock>>
        /\ \E ty, op, l, id, ans : CreateOp(ty, op, l, id, ans)
    BY <1>17 DEF PeerSendsUnhandled, SendOp
  <2>2. Attached # {}
    BY <2>1, SomeAttached DEF Inv
  <2> QED
    BY <2>1, <2>2 DEF Creates, MtuMove
<1>18. ASSUME NEW c \in Chan, WriteNone(c)
      PROVE  MtuMove
  BY <1>18, <1>0, MtuStill DEF WriteNone
<1>19. ASSUME NEW c \in Chan, NEW out \in {"sent", "failed"}, WritePdu(c, out)
      PROVE  MtuMove
  BY <1>19, <1>0, MtuStill DEF WritePdu
<1>20. ASSUME NEW c \in Chan, WriteZero(c)
      PROVE  MtuMove
  BY <1>20, <1>0, MtuStill DEF WriteZero
<1>21. ASSUME NEW c \in Chan, NEW o \in OpId, Timeout(c, o)
      PROVE  MtuMove
  BY <1>21, <1>0, MtuStill DEF Timeout
<1>22. ASSUME NEW c \in Chan, WatchError(c)
      PROVE  MtuMove
  BY <1>22, <1>0, MtuStill DEF WatchError
<1>23. ASSUME NEW c \in Chan, Disconnect(c)
      PROVE  MtuMove
  <2>1. UNCHANGED <<info, nops, mtu, cmtu, setMtus, sock>>
    BY <1>23 DEF Disconnect
  <2>2. PICK i \in 1..Len(chans) : chans' = RemoveAt(chans, i)
    BY <1>23 DEF Disconnect
  <2>3. Attached' \subseteq Attached
    BY <2>2, QueueMoves DEF Attached, Inv, TypeOK, Owners, ChanShape
  <2> QED
    BY <2>1, <2>3 DEF Untouched, MtuMove
<1>24. ASSUME NEW c \in Chan, ReturnRsp(c)
      PROVE  MtuMove
  BY <1>24, <1>0, MtuStill DEF ReturnRsp
<1>25. ASSUME NEW c \in Chan, ReturnConf(c)
      PROVE  MtuMove
  BY <1>25, <1>0, MtuStill DEF ReturnConf
<1>26. ASSUME ReturnZero
      PROVE  MtuMove
  BY <1>26, <1>0, MtuStill DEF ReturnZero
<1>27. ASSUME ReturnNotify
      PROVE  MtuMove
  BY <1>27, <1>0, MtuStill DEF ReturnNotify
<1>28. ASSUME Exit
      PROVE  MtuMove
  <2>1. CASE Free
    BY <1>28, <2>1, <1>0, MtuFree DEF Exit
  <2>2. CASE UNCHANGED <<info, nops, mtu, cmtu, setMtus, chans, sock>>
    BY <2>2, <1>0, MtuStill
  <2> QED
    BY <1>28, <2>1, <2>2 DEF Exit
<1>29. ASSUME ReturnTimeout
      PROVE  MtuMove
  <2>1. PICK c \in Chan : c = frame.c
    BY <1>29, FrameFields DEF ReturnTimeout, Inv
  <2> QED
    BY <1>29, <2>1, <1>0, MtuStill DEF ReturnTimeout, Shutdown
<1>30. ASSUME FlushCall
      PROVE  MtuMove
  BY <1>30, <1>0, MtuStill DEF FlushCall
<1>31. ASSUME ReturnFlush
      PROVE  MtuMove
  BY <1>31, <1>0, MtuStill DEF ReturnFlush
<1>32. ASSUME FlushInd
      PROVE  MtuMove
  BY <1>32, <1>0, MtuStill DEF FlushInd
<1>33. ASSUME FlushWrite
      PROVE  MtuMove
  BY <1>33, <1>0, MtuStill DEF FlushWrite
<1>34. ASSUME FlushPending
      PROVE  MtuMove
  BY <1>34, <1>0, MtuStill DEF FlushPending
<1>35. ASSUME ChanFree
      PROVE  MtuMove
  <2>1. PICK c \in Chan : c = frame.c
    BY <1>35, FrameFields DEF ChanFree, FlushDone, Inv
  <2> QED
    BY <1>35, <2>1, <1>0, MtuStill DEF ChanFree
<1>36. ASSUME ReturnDisconnect
      PROVE  MtuMove
  BY <1>36, <1>0, MtuStill DEF ReturnDisconnect
<1> QED
  BY <1>1, <1>2, <1>3, <1>4, <1>5, <1>6, <1>7, <1>8, <1>9, <1>10, <1>11,
     <1>12, <1>13, <1>14, <1>15, <1>16, <1>17, <1>18, <1>19, <1>20, <1>21,
     <1>22, <1>23, <1>24, <1>25, <1>26, <1>27, <1>28, <1>29, <1>30, <1>31,
     <1>32, <1>33, <1>34, <1>35, <1>36 DEF Next, Client, Environment, Loop,
     Return

\* What is accepted fits the biggest MTU, which never shrinks.
LEMMA FittingStep ==
    ASSUME Inv, Inv', Fitting, MtuMove
    PROVE  Fitting'
<1> USE DEF attVars, queues, opVars, chanCfg, peer, history
<1>0. /\ mtu \in Nat /\ mtu' \in Nat /\ nops \in Nat
      /\ \A o \in OpId : o \in Nat /\ info[o].len \in Nat
  <2>1. mtu \in Nat /\ nops \in Nat /\ info \in [OpId -> OpInfo]
    BY DEF Inv, TypeOK
  <2>2. mtu' \in Nat
    BY DEF Inv, TypeOK
  <2>3. \A o \in OpId : o \in Nat
    BY DEF OpId
  <2>4. \A o \in OpId : info[o].len \in Nat
    BY <2>1 DEF OpInfo
  <2> QED
    BY <2>1, <2>2, <2>3, <2>4
<1>1. CASE UNCHANGED <<info, nops>> /\ mtu <= mtu'
  <2>1. ASSUME NEW o \in OpId, o <= nops'
        PROVE  info'[o].len <= mtu'
    BY <1>0, <1>1, <2>1 DEF Fitting
  <2> QED
    BY <2>1 DEF Fitting
<1>2. CASE Creates
  <2>1. PICK t, oc, len, id, ans : CreateOp(t, oc, len, id, ans)
    BY <1>2 DEF Creates
  <2>2. /\ UNCHANGED mtu /\ nops' = nops + 1 /\ len <= mtu
        /\ info'[nops + 1].len = len
        /\ \A o \in OpId : o # nops + 1 => info'[o] = info[o]
    BY <1>0, <1>2, <2>1, BoundAssumption DEF Creates, CreateOp, Inv, TypeOK, OpId
  <2>3. ASSUME NEW o \in OpId, o <= nops'
        PROVE  info'[o].len <= mtu'
    BY <1>0, <2>2, <2>3 DEF Fitting
  <2> QED
    BY <2>3 DEF Fitting
<1>3. CASE Untouched
  BY <1>0, <1>1, <1>3 DEF Untouched
<1>4. ASSUME NEW m \in Mtus, SetMtu(m)
      PROVE  Fitting'
  <2>1. m \in Nat
    BY MtuAssumption
  <2>2. UNCHANGED <<info, nops>> /\ mtu <= mtu'
    BY <1>0, <1>4, <2>1 DEF SetMtu
  <2> QED
    BY <1>1, <2>2
<1>5. ASSUME NEW c \in Chan, NEW m \in Mtus, AttachFd(c, m)
      PROVE  Fitting'
  <2>1. m \in Nat
    BY MtuAssumption
  <2>2. UNCHANGED <<info, nops>> /\ mtu <= mtu'
    BY <1>0, <1>5, <2>1 DEF AttachFd
  <2> QED
    BY <1>1, <2>2
<1> QED
  BY <1>2, <1>3, <1>4, <1>5 DEF MtuMove

\* The invariant behind the wakeups, as long as the channels have one MTU.
WakeInv == Fitting /\ Woken /\ Enough

\* It holds of a new bearer, which has nothing to send,
LEMMA WakeInvInit == Init => WakeInv
<1> SUFFICES ASSUME Init
             PROVE  WakeInv
  OBVIOUS
<1>1. Fitting
  BY DEF Init, Fitting, OpId
<1>2. /\ reqQ = <<>> /\ indQ = <<>> /\ wrQ = <<>> /\ TypeOK
      /\ \A c \in Chan : cq[c] = <<>>
  BY TypeInit DEF Init
<1>3. Woken /\ Enough
  BY <1>2, AttachedType DEF Woken, Enough
<1> QED
  BY <1>1, <1>3 DEF WakeInv

\* and every step keeps it.
LEMMA WakeInvStep ==
    ASSUME Inv, Owners, Inv', SameMtu, WakeInv, [Next]_vars
    PROVE  WakeInv'
<1>1. CASE Next
  BY <1>1, MtuStep, FittingStep, WakeStep DEF WakeInv, Inv
<1>2. CASE UNCHANGED vars
  <2>1. UNCHANGED <<info, nops, mtu>>
    BY <1>2 DEF vars, attVars, opVars
  <2>2. UNCHANGED <<frame, chans, writer, sock, cq, pendingReq, pendingInd, reqQ, indQ, wrQ>>
    BY <1>2 DEF vars, attVars, queues
  <2>3. Woken' /\ Enough'
    BY <2>2, WakeSame DEF WakeInv
  <2>4. Fitting'
    BY <2>1 DEF WakeInv, Fitting
  <2> QED
    BY <2>3, <2>4 DEF WakeInv
<1> QED
  BY <1>1, <1>2

\* No wakeup is lost as long as all channels have the bearer's MTU: whenever
\* a channel could send something, one that can is woken, or one is going
\* down and its disconnect_cb will flush the queues.  A retried request wakes
\* only the channel it failed on, so it may be another channel than the one
\* that could send; that there is one is a count of channels and requests.
THEOREM NoLostWakeupCorrect == Spec /\ []SameMtu => []NoLostWakeup
<1>1. ASSUME Inv, SameMtu, WakeInv
      PROVE  NoLostWakeup
  <2> SUFFICES ASSUME Idle, NEW c \in Attached, CanSend(c)
               PROVE  \E d \in Attached : (d \in writer /\ CanSend(d)) \/ sock[d] # "up"
    BY DEF NoLostWakeup
  <2>1. \A d \in Attached : ~TimedOut(d) /\ (PickSource(d) # "none" <=> Work(d))
    BY <1>1, PickedWork DEF WakeInv, Idle, TimedOut
  <2>2. CASE ~AllUp \/ c \in writer
    BY <2>2 DEF AllUp
  <2>3. CASE AllUp /\ c \notin writer
    <3>1. sock[c] = "up" /\ Work(c)
      BY <2>1, <2>3 DEF CanSend
    <3>2. pendingReq[c] = NoOp /\ reqQ # <<>>
      BY <1>1, <2>1, <2>3, <3>1 DEF WakeInv, Woken, Work
    <3>3. Len(reqQ) <= Cardinality(Ready)
      BY <1>1, <2>1, <2>3, <3>2 DEF WakeInv, Enough
    <3>4. Len(reqQ) \in Nat /\ Len(reqQ) # 0
      BY <1>1, <3>2 DEF Inv, TypeOK
    <3>5. Ready # {}
      BY <3>3, <3>4, FS_EmptySet
    <3>6. PICK d \in Attached : sock[d] = "up" /\ d \in writer /\ pendingReq[d] = NoOp
      BY <3>5 DEF Ready
    <3>7. Work(d)
      BY <3>2, <3>6 DEF Work
    <3> QED
      BY <2>1, <3>6, <3>7 DEF CanSend
  <2> QED
    BY <2>2, <2>3
<1>2. Inv /\ Owners /\ Inv' /\ SameMtu /\ WakeInv /\ [Next]_vars => WakeInv'
  BY WakeInvStep
<1> QED
  BY <1>1, <1>2, WakeInvInit, OwnersAlways, PTL DEF Spec

-----------------------------------------------------------------------------
(* When the channels have one MTU *)

\* No other MTU than the default one is ever given, or there is one channel,
\* whose MTU is set once.
OneMtu ==
    \/ Mtus \subseteq {DefaultMtu}
    \/ Chan = {Original} /\ MaxSetMtu <= 1

\* The default MTU stays,
DefaultStays == mtu = DefaultMtu /\ \A c \in Chan : cmtu[c] = DefaultMtu

\* or the bearer's MTU is that of its channel, and the default until it is set.
OriginalOnly ==
    /\ mtu = cmtu[Original] /\ (setMtus = 0 => mtu = DefaultMtu)
    /\ sock[Original] # "unused"

\* bt_att_set_mtu works on a channel, the last of the list.
LEMMA LastChan ==
    ASSUME TypeOK, chans # <<>>
    PROVE  Last(chans) \in Chan
<1>1. chans \in Seq(Chan)
  BY DEF TypeOK
<1>2. Len(chans) \in 1..Len(chans)
  BY <1>1
<1> QED
  BY <1>1, <1>2 DEF Last

\* With no other MTU to be given, every step keeps the default one.
LEMMA DefaultStep ==
    ASSUME Inv, Owners, DefaultStays, [Next]_vars, Mtus \subseteq {DefaultMtu}
    PROVE  DefaultStays'
<1> USE DEF attVars, queues, opVars, chanCfg, peer, history
<1>0. mtu \in Nat /\ cmtu \in [Chan -> Nat] /\ TypeOK
  BY DEF Inv, TypeOK
<1>1. CASE UNCHANGED <<mtu, cmtu>>
  BY <1>1 DEF DefaultStays
<1>2. ASSUME NEW m \in Mtus, SetMtu(m)
      PROVE  DefaultStays'
  <2>1. m = DefaultMtu
    OBVIOUS
  <2>2. Last(chans) \in Chan
    BY <1>0, <1>2, LastChan DEF SetMtu
  <2>3. mtu' = mtu /\ cmtu' = [cmtu EXCEPT ![Last(chans)] = m]
    BY <1>0, <1>2, <2>1 DEF SetMtu, DefaultStays
  <2> QED
    BY <1>0, <2>1, <2>2, <2>3 DEF DefaultStays
<1>3. ASSUME NEW c \in Chan, NEW m \in Mtus, AttachFd(c, m)
      PROVE  DefaultStays'
  <2>1. m = DefaultMtu
    OBVIOUS
  <2>2. mtu' = mtu /\ cmtu' = [cmtu EXCEPT ![c] = m]
    BY <1>0, <1>3, <2>1 DEF AttachFd, DefaultStays
  <2> QED
    BY <1>0, <2>1, <2>2 DEF DefaultStays
<1>4. CASE Next
  BY <1>1, <1>2, <1>3, <1>4, MtuStep DEF MtuMove, Untouched, Creates
<1>5. CASE UNCHANGED vars
  BY <1>1, <1>5 DEF vars
<1> QED
  BY <1>4, <1>5

\* With one channel, bt_att_set_mtu sets its MTU and the bearer's, once.
LEMMA OriginalStep ==
    ASSUME Inv, Owners, OriginalOnly, [Next]_vars, Chan = {Original}, MaxSetMtu <= 1
    PROVE  OriginalOnly'
<1> USE DEF attVars, queues, opVars, chanCfg, peer, history
<1>0. /\ mtu \in Nat /\ cmtu \in [Chan -> Nat] /\ setMtus \in Nat /\ TypeOK
      /\ MaxSetMtu \in Nat
  BY BoundAssumption DEF Inv, TypeOK
<1>1. ASSUME UNCHANGED <<mtu, cmtu, setMtus>>, sock'[Original] # "unused"
      PROVE  OriginalOnly'
  BY <1>1 DEF OriginalOnly
<1>2. ASSUME NEW m \in Mtus, SetMtu(m)
      PROVE  OriginalOnly'
  <2>1. m \in Nat /\ DefaultMtu \in Nat /\ m >= DefaultMtu
    BY MtuAssumption
  <2>2. Last(chans) = Original
    BY <1>0, <1>2, LastChan DEF SetMtu
  <2>3. setMtus = 0 /\ setMtus' = 1
    BY <1>0, <1>2 DEF SetMtu
  <2>4. mtu' = m
    BY <1>2, <2>1, <2>3 DEF SetMtu, OriginalOnly
  <2>5. cmtu'[Original] = m
    BY <1>0, <1>2, <2>2 DEF SetMtu
  <2>6. sock' = sock
    BY <1>2 DEF SetMtu
  <2> QED
    BY <2>3, <2>4, <2>5, <2>6 DEF OriginalOnly
<1>3. ASSUME NEW c \in Chan, NEW m \in Mtus, AttachFd(c, m)
      PROVE  OriginalOnly'
  BY <1>3 DEF AttachFd, OriginalOnly
<1>4. CASE Next
  BY <1>1, <1>2, <1>3, <1>4, MtuStep DEF MtuMove, Untouched, Creates, OriginalOnly
<1>5. CASE UNCHANGED vars
  BY <1>1, <1>5 DEF vars, OriginalOnly
<1> QED
  BY <1>4, <1>5

\* In both cases the channels have the MTU of the bearer.
LEMMA OneMtuSame ==
    ASSUME OneMtu
    PROVE  Spec => []SameMtu
<1>1. Inv /\ DefaultStays => SameMtu
  BY AttachedType DEF Inv, DefaultStays, SameMtu
<1>2. ASSUME Chan = {Original}
      PROVE  Inv /\ OriginalOnly => SameMtu
  BY <1>2, AttachedType DEF Inv, OriginalOnly, SameMtu
<1>3. Init => DefaultStays
  BY DEF Init, DefaultStays
<1>4. Init => OriginalOnly
  BY ChanAssumption DEF Init, OriginalOnly
<1>5. CASE Mtus \subseteq {DefaultMtu}
  <2>1. Inv /\ Owners /\ DefaultStays /\ [Next]_vars => DefaultStays'
    BY <1>5, DefaultStep
  <2> QED
    BY <1>1, <1>3, <2>1, OwnersAlways, PTL DEF Spec
<1>6. CASE Chan = {Original} /\ MaxSetMtu <= 1
  <2>1. Inv /\ Owners /\ OriginalOnly /\ [Next]_vars => OriginalOnly'
    BY <1>6, OriginalStep
  <2>2. Inv /\ OriginalOnly => SameMtu
    BY <1>2, <1>6
  <2> QED
    BY <1>4, <2>1, <2>2, OwnersAlways, PTL DEF Spec
<1> QED
  BY <1>5, <1>6 DEF OneMtu

\* So a bearer with one MTU, or with one channel whose MTU is set once, loses
\* no wakeup.
THEOREM OneMtuCorrect ==
    ASSUME OneMtu
    PROVE  Spec => []NoLostWakeup
<1>1. Spec => []SameMtu
  BY OneMtuSame
<1> QED
  BY <1>1, NoLostWakeupCorrect, PTL
=============================================================================
