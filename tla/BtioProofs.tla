----------------------------- MODULE BtioProofs -----------------------------
(* No socket is left behind by btio, every attempt is told its own fate,     *)
(* once, and a call that succeeds has put in force what it was asked for:    *)
(* for every number of sockets, every list of options the client may give,   *)
(* and whichever kernel.                                                     *)
EXTENDS Btio, TLAPS, FiniteSetTheorems, WellFoundedInduction

-----------------------------------------------------------------------------
(* The invariant *)

Fields == {"type", "le", "link", "err", "opt", "src", "dst"}
Link   == {"none", "connecting", "listening", "up", "deferred", "failed", "hup"}

\* The kernel's record of a socket, but for the options in force.
SockOK(s) == DOMAIN s = Fields /\ s.link \in Link /\ s.err \in BOOLEAN

TypeOK ==
    /\ nc \in 0..MaxConn
    /\ chan \in [Conn -> [fd : Fd, held : BOOLEAN, auto : BOOLEAN]]
    /\ watch \in [Conn -> {"none", "connect", "server", "accept"}]
    /\ owner \in [Fd -> Conn \cup {None}]
    /\ gone \in [Conn -> Nat]
    /\ DOMAIN told = Conn /\ DOMAIN sock = Conn
    /\ \A c \in Conn : SockOK(sock[c])
    /\ reused \in BOOLEAN

\* A socket that was not made yet has nothing.
Fresh ==
    \A c \in Conn : c > nc =>
        /\ watch[c] = "none" /\ told[c] = <<>> /\ gone[c] = 0
        /\ ~chan[c].held /\ ~chan[c].auto

\* An open socket has a channel with its number, which is closed with it and
\* which somebody holds.
Owned(f) ==
    owner[f] # None =>
        /\ owner[f] <= nc /\ chan[owner[f]].fd = f /\ chan[owner[f]].auto
        /\ chan[owner[f]].held \/ watch[owner[f]] # "none"

\* A watch that is on has neither reported nor ended.
OnceOK(c) ==
    /\ gone[c] <= 1
    /\ watch[c] # "none" => told[c] = <<>> /\ gone[c] = 0

\* The number of a watched channel is that of its socket, or free.
MineOK(c) == watch[c] # "none" => owner[chan[c].fd] \in {None, c}

\* Errors are those of attempts that failed or links that were lost; that of
\* an attempt stays until it is reported.
ErrOK(c) ==
    /\ sock[c].err => sock[c].link \in {"failed", "hup"}
    /\ watch[c] = "server" /\ Open(c) => sock[c].link = "listening"

FailOK(c) == sock[c].link = "failed" /\ told[c] = <<>> => sock[c].err

\* What ToldOwnFate says of one attempt.
FateOK(c) ==
    told[c] # <<>> =>
        /\ Len(told[c]) = 1 /\ told[c][1].of = c
        /\ IF told[c][1].ok THEN told[c][1].link \in {"up", "hup"}
           ELSE told[c][1].link \in {"failed", "hup"}

BInv == /\ TypeOK /\ Fresh
        /\ \A f \in Fd : Owned(f)
        /\ \A c \in Conn : OnceOK(c) /\ ErrOK(c)
        /\ ~reused => \A c \in Conn : MineOK(c) /\ FailOK(c) /\ FateOK(c)

-----------------------------------------------------------------------------
(* Numbers *)

\* A set of numbers has a smallest one.
LEMMA Smallest ==
    ASSUME NEW S \in SUBSET Nat, S # {}
    PROVE  \E x \in S : \A y \in S : x <= y
<1>1. PICK x \in S : \A y \in S : ~ (<<y, x>> \in OpToRel(<, Nat))
  BY NatLessThanWellFounded, WFMin
<1>2. \A y \in S : ~(y < x)
  BY <1>1 DEF OpToRel
<1> QED
  BY <1>2

\* While sockets can be made there is a number for the next: those in use are
\* fewer than the sockets made.
LEMMA NewFdFree ==
    ASSUME TypeOK, \A f \in Fd : Owned(f), nc < MaxConn
    PROVE  NewFd \in Fd /\ owner[NewFd] = None
<1>1. nc \in Nat /\ MaxConn \in Nat
  BY ConnAssumption DEF TypeOK
<1>2. \E f \in Fd : owner[f] = None
  <2> SUFFICES ASSUME \A f \in Fd : owner[f] # None
               PROVE  FALSE
    OBVIOUS
  <2>1. owner \in [Fd -> 1..nc]
    BY <1>1 DEF TypeOK, Owned, Conn, Fd
  <2>2. /\ IsFiniteSet(Fd) /\ IsFiniteSet(1..nc)
        /\ Cardinality(1..nc) < Cardinality(Fd)
    <3>1. \A n \in Nat : IsFiniteSet(1..n) /\ Cardinality(1..n) = n
      <4> SUFFICES ASSUME NEW n \in Nat
                   PROVE  IsFiniteSet(1..n) /\ Cardinality(1..n) = n
        OBVIOUS
      <4>1. /\ IsFiniteSet(1..n)
            /\ Cardinality(1..n) = IF 1 > n THEN 0 ELSE n - 1 + 1
        BY FS_Interval
      <4> QED
        BY <4>1
    <3> QED
      BY <1>1, <3>1 DEF Fd
  <2>3. PICK f, g \in Fd : f # g /\ owner[f] = owner[g]
    BY <2>1, <2>2, FS_PigeonHole
  <2> QED
    BY <2>3 DEF Owned
<1>3. {f \in Fd : owner[f] = None} \in SUBSET Nat
  BY <1>1 DEF Fd
<1>4. PICK f \in {f \in Fd : owner[f] = None} :
          \A g \in {h \in Fd : owner[h] = None} : f <= g
  BY <1>2, <1>3, Smallest
<1>5. f \in Fd /\ owner[f] = None /\ \A g \in 1..(f - 1) : owner[g] # None
  <2>1. ASSUME NEW g \in 1..(f - 1) PROVE owner[g] # None
    <3>1. g \in Fd /\ ~(f <= g)
      BY <1>1, <1>4 DEF Fd
    <3> QED
      BY <1>4, <3>1
  <2> QED
    BY <1>4, <2>1
<1> QED
  BY <1>5 DEF NewFd

-----------------------------------------------------------------------------
(* What the helpers do *)

\* The socket a channel has under its number is closed.
LEMMA CloseFacts ==
    ASSUME TypeOK, NEW c \in Conn, NEW ss, DOMAIN ss = Conn,
           \A d \in Conn : SockOK(ss[d]), Close(c, ss)
    PROVE  /\ owner' \in [Fd -> Conn \cup {None}]
           /\ owner'[chan[c].fd] = None
           /\ \A f \in Fd : f # chan[c].fd => owner'[f] = owner[f]
           /\ DOMAIN sock' = Conn /\ \A d \in Conn : SockOK(sock'[d])
           /\ sock'[c].link = "none" /\ ~sock'[c].err
           /\ \A d \in Conn : d # c => sock'[d] = ss[d]
<1>1. chan[c].fd \in Fd
  BY DEF TypeOK
<1>2. SockOK(NoSock) /\ NoSock.link = "none" /\ ~NoSock.err
  BY DEF SockOK, NoSock, Fields, Link
<1> QED
  BY <1>1, <1>2 DEF Close, TypeOK

\* Socket c is made as s, with a channel under the number g that is watched
\* as w.
MadeAt(c, w, s, g) ==
    /\ nc' = c /\ owner[g] = None
    /\ chan' \in [Conn -> [fd : Fd, held : BOOLEAN, auto : BOOLEAN]]
    /\ chan'[c].fd = g /\ chan'[c].held /\ chan'[c].auto
    /\ \A d \in Conn : d # c => chan'[d] = chan[d]
    /\ watch' = [watch EXCEPT ![c] = w]
    /\ owner' = [owner EXCEPT ![g] = c]
    /\ DOMAIN sock' = Conn /\ \A d \in Conn : SockOK(sock'[d])
    /\ sock'[c] = s /\ \A d \in Conn : d # c => sock'[d] = sock[d]
    /\ reused' \in BOOLEAN
    /\ ~reused' => /\ ~reused
                   /\ \A d \in Conn : watch[d] # "none" => chan[d].fd # g

\* A new channel has a number of its own.
LEMMA NewChannelFacts ==
    ASSUME TypeOK, \A f \in Fd : Owned(f), NEW c \in Conn, c = nc + 1,
           NEW w \in {"none", "connect", "server"}, NEW s, SockOK(s),
           NewChannel(c, TRUE, w, s)
    PROVE  \E g \in Fd : MadeAt(c, w, s, g)
<1>1. nc < MaxConn
  BY ConnAssumption DEF TypeOK, Conn
<1>2. PICK g \in Fd : g = NewFd /\ owner[g] = None
  BY <1>1, NewFdFree
<1>3. /\ nc' = c
      /\ chan' = [chan EXCEPT ![c] = [fd |-> g, held |-> TRUE, auto |-> TRUE]]
      /\ watch' = [watch EXCEPT ![c] = w]
      /\ owner' = [owner EXCEPT ![g] = c]
      /\ sock' = [sock EXCEPT ![c] = s]
  BY <1>2 DEF NewChannel
<1>4. reused' = (reused \/ \E d \in Conn : watch[d] # "none" /\ chan[d].fd = g)
  BY <1>2 DEF NewChannel
<1>5. /\ reused' \in BOOLEAN
      /\ ~reused' => /\ ~reused
                     /\ \A d \in Conn : watch[d] # "none" => chan[d].fd # g
  BY <1>4, Zenon DEF TypeOK
<1>6. /\ chan' \in [Conn -> [fd : Fd, held : BOOLEAN, auto : BOOLEAN]]
      /\ chan'[c].fd = g /\ chan'[c].held /\ chan'[c].auto
      /\ \A d \in Conn : d # c => chan'[d] = chan[d]
  BY <1>3 DEF TypeOK
<1>7. /\ DOMAIN sock' = Conn /\ \A d \in Conn : SockOK(sock'[d])
      /\ sock'[c] = s /\ \A d \in Conn : d # c => sock'[d] = sock[d]
  BY <1>3 DEF TypeOK
<1> QED
  BY <1>2, <1>3, <1>5, <1>6, <1>7 DEF MadeAt

\* A socket is made, and its channel given to the client.
LEMMA NewChannelStep ==
    ASSUME BInv, NEW c \in Conn, c = nc + 1,
           NEW w \in {"none", "connect", "server"}, NEW s, SockOK(s),
           NewChannel(c, TRUE, w, s), UNCHANGED gone,
           ~s.err, s.link # "failed", w = "server" => s.link = "listening",
           \/ UNCHANGED told
           \/ /\ w = "none"
              /\ told' = [told EXCEPT ![c] =
                             <<[of |-> c, ok |-> TRUE, link |-> "up"]>>]
    PROVE  BInv'
<1>a. PICK g \in Fd : MadeAt(c, w, s, g)
  BY NewChannelFacts DEF BInv
<1>1. /\ nc' = c /\ owner[g] = None
      /\ chan' \in [Conn -> [fd : Fd, held : BOOLEAN, auto : BOOLEAN]]
      /\ chan'[c].fd = g /\ chan'[c].held /\ chan'[c].auto
      /\ \A d \in Conn : d # c => chan'[d] = chan[d]
      /\ watch' = [watch EXCEPT ![c] = w]
      /\ owner' = [owner EXCEPT ![g] = c]
      /\ DOMAIN sock' = Conn /\ \A d \in Conn : SockOK(sock'[d])
      /\ sock'[c] = s /\ \A d \in Conn : d # c => sock'[d] = sock[d]
      /\ reused' \in BOOLEAN
      /\ ~reused' => /\ ~reused
                     /\ \A d \in Conn : watch[d] # "none" => chan[d].fd # g
  BY <1>a DEF MadeAt
<1>2. /\ watch[c] = "none" /\ told[c] = <<>> /\ gone[c] = 0 /\ nc \in Nat /\ c > nc
  BY DEF BInv, Fresh, TypeOK
<1>3. \A d \in Conn : d # c => told'[d] = told[d]
  BY DEF BInv, TypeOK
<1>4. TypeOK'
  BY <1>1 DEF BInv, TypeOK, Conn
<1>5. Fresh'
  BY <1>1, <1>2, <1>3 DEF BInv, Fresh, TypeOK, Conn
<1>6. ASSUME NEW f \in Fd PROVE Owned(f)'
  <2>1. CASE f = g
    BY <1>1, <2>1 DEF BInv, TypeOK, Owned, Conn
  <2>2. CASE f # g
    <3>1. owner'[f] = owner[f] /\ (owner[f] # None => owner[f] # c)
      BY <1>1, <1>2, <2>2 DEF BInv, TypeOK, Owned
    <3>2. CASE owner[f] = None
      BY <3>1, <3>2 DEF Owned
    <3>3. CASE owner[f] # None
      <4>a. owner[f] \in Conn /\ owner[f] # c /\ owner[f] <= nc
        <5>1. Owned(f) /\ owner[f] \in Conn \cup {None}
          BY DEF BInv, TypeOK
        <5> QED
          BY <3>1, <3>3, <5>1 DEF Owned
      <4>1. PICK d \in Conn : d = owner[f] /\ d # c /\ d <= nc
        BY <4>a
      <4>2. chan'[d] = chan[d] /\ watch'[d] = watch[d] /\ d <= nc'
        BY <1>1, <1>2, <4>1 DEF BInv, TypeOK, Conn
      <4> QED
        BY <3>1, <4>1, <4>2 DEF BInv, Owned
    <3> QED
      BY <3>2, <3>3
  <2> QED
    BY <2>1, <2>2
<1>7. ASSUME NEW d \in Conn PROVE OnceOK(d)'
  BY <1>1, <1>2, <1>3 DEF BInv, TypeOK, OnceOK
<1>8. ASSUME NEW d \in Conn PROVE ErrOK(d)'
  <2>1. CASE d = c
    BY <1>1, <2>1 DEF BInv, TypeOK, ErrOK
  <2>2. CASE d # c
    <3>1. Open(d)' => Open(d)
      BY <1>1, <2>2 DEF BInv, TypeOK, Open
    <3> QED
      BY <1>1, <2>2, <3>1 DEF BInv, TypeOK, ErrOK
  <2> QED
    BY <2>1, <2>2
<1>9. ASSUME ~reused', NEW d \in Conn PROVE MineOK(d)' /\ FailOK(d)' /\ FateOK(d)'
  <2>1. CASE d = c
    <3>1. MineOK(d)' /\ FailOK(d)'
      BY <1>1, <2>1 DEF BInv, TypeOK, MineOK, FailOK
    <3>2. told'[c] \in {<<>>, <<[of |-> c, ok |-> TRUE, link |-> "up"]>>}
      BY <1>2 DEF BInv, TypeOK
    <3> QED
      BY <2>1, <3>1, <3>2 DEF FateOK
  <2>2. CASE d # c
    <3>1. MineOK(d) /\ FailOK(d) /\ FateOK(d)
      BY <1>1, <1>9 DEF BInv
    <3>2. MineOK(d)'
      BY <1>1, <1>9, <2>2, <3>1 DEF BInv, TypeOK, MineOK
    <3>3. FailOK(d)' /\ FateOK(d)'
      BY <1>1, <1>3, <2>2, <3>1 DEF FailOK, FateOK
    <3> QED
      BY <3>2, <3>3
  <2> QED
    BY <2>1, <2>2
<1> QED
  BY <1>4, <1>5, <1>6, <1>7, <1>8, <1>9 DEF BInv

\* The watch of c ends after a report r of the fate of its own socket, or
\* without one.
LEMMA EndWatchStep ==
    ASSUME BInv, NEW c \in Conn, watch[c] # "none", NEW ss, DOMAIN ss = Conn,
           \A d \in Conn : /\ SockOK(ss[d]) /\ ss[d].link = sock[d].link
                           /\ ss[d].err => sock[d].err,
           EndWatch(c, ss), UNCHANGED <<nc, reused>>,
           \/ UNCHANGED told /\ ss = sock
           \/ \E r : /\ told' = [told EXCEPT ![c] = Append(@, r)]
                     /\ ~reused =>
                            /\ r.of = c
                            /\ IF r.ok THEN r.link \in {"up", "hup"}
                               ELSE r.link \in {"failed", "hup"}
                            /\ \A d \in Conn : d # c => ss[d] = sock[d]
    PROVE  BInv'
<1>1. /\ watch' = [watch EXCEPT ![c] = "none"]
      /\ gone' = [gone EXCEPT ![c] = gone[c] + 1]
      /\ told[c] = <<>> /\ gone[c] = 0
      /\ \A d \in Conn : d # c => told'[d] = told[d]
      /\ DOMAIN told' = Conn
  BY DEF EndWatch, BInv, TypeOK, OnceOK
<1>2. /\ chan' \in [Conn -> [fd : Fd, held : BOOLEAN, auto : BOOLEAN]]
      /\ \A d \in Conn : /\ chan'[d].fd = chan[d].fd
                         /\ chan'[d].held = chan[d].held
                         /\ d # c => chan'[d] = chan[d]
      /\ owner' \in [Fd -> Conn \cup {None}]
      /\ \A f \in Fd : owner'[f] \in {None, owner[f]}
      /\ owner'[chan[c].fd] = c => chan[c].held /\ chan'[c] = chan[c]
      /\ DOMAIN sock' = Conn
      /\ \A d \in Conn : SockOK(sock'[d]) /\ (d # c => sock'[d] = ss[d])
      /\ sock'[c] = ss[c] \/ (sock'[c].link = "none" /\ ~sock'[c].err)
  <2>0. chan[c].fd \in Fd /\ chan[c] \in [fd : Fd, held : BOOLEAN, auto : BOOLEAN]
    BY DEF BInv, TypeOK
  <2>1. CASE ~chan[c].held /\ chan[c].auto
    <3>1. Close(c, ss) /\ chan' = [chan EXCEPT ![c].auto = FALSE]
      BY <2>1 DEF EndWatch
    <3>2. /\ owner' \in [Fd -> Conn \cup {None}]
          /\ owner'[chan[c].fd] = None
          /\ \A f \in Fd : f # chan[c].fd => owner'[f] = owner[f]
          /\ DOMAIN sock' = Conn /\ \A d \in Conn : SockOK(sock'[d])
          /\ sock'[c].link = "none" /\ ~sock'[c].err
          /\ \A d \in Conn : d # c => sock'[d] = ss[d]
      BY <3>1, CloseFacts DEF BInv
    <3>3. None # c
      BY DEF None, Conn
    <3>4. /\ chan' \in [Conn -> [fd : Fd, held : BOOLEAN, auto : BOOLEAN]]
          /\ \A d \in Conn : /\ chan'[d].fd = chan[d].fd
                             /\ chan'[d].held = chan[d].held
                             /\ d # c => chan'[d] = chan[d]
      BY <2>0, <3>1 DEF BInv, TypeOK
    <3> QED
      BY <3>2, <3>3, <3>4
  <2>2. CASE ~(~chan[c].held /\ chan[c].auto)
    <3>1. sock' = ss /\ UNCHANGED <<owner, chan>>
      BY <2>2 DEF EndWatch
    <3>2. owner[chan[c].fd] = c => chan[c].auto
      BY <2>0 DEF BInv, Owned, None, Conn
    <3>3. owner'[chan[c].fd] = c => chan[c].held /\ chan'[c] = chan[c]
      BY <2>2, <3>1, <3>2
    <3>4. /\ chan' \in [Conn -> [fd : Fd, held : BOOLEAN, auto : BOOLEAN]]
          /\ owner' \in [Fd -> Conn \cup {None}]
      BY <3>1 DEF BInv, TypeOK
    <3>5. /\ DOMAIN sock' = Conn /\ sock'[c] = ss[c]
          /\ \A d \in Conn : SockOK(sock'[d]) /\ sock'[d] = ss[d]
      BY <3>1
    <3>6. /\ \A f \in Fd : owner'[f] \in {None, owner[f]}
          /\ \A d \in Conn : /\ chan'[d].fd = chan[d].fd
                             /\ chan'[d].held = chan[d].held
                             /\ d # c => chan'[d] = chan[d]
      BY <3>1
    <3> QED
      BY <3>3, <3>4, <3>5, <3>6
  <2> QED
    BY <2>1, <2>2
<1>3. TypeOK'
  <2>1. /\ watch' \in [Conn -> {"none", "connect", "server", "accept"}]
        /\ gone' \in [Conn -> Nat]
    BY <1>1 DEF BInv, TypeOK
  <2>2. nc' \in 0..MaxConn /\ reused' \in BOOLEAN
    BY DEF BInv, TypeOK
  <2> QED
    BY <1>1, <1>2, <2>1, <2>2 DEF TypeOK
<1>4. Fresh'
  <2>1. ~(c > nc)
    BY DEF BInv, Fresh
  <2> QED
    BY <1>1, <1>2, <2>1 DEF BInv, Fresh, TypeOK
<1>5. ASSUME NEW f \in Fd PROVE Owned(f)'
  <2>1. CASE owner'[f] = None
    BY <2>1 DEF Owned
  <2>2. CASE owner'[f] # None
    <3>1. /\ owner'[f] = owner[f] /\ Owned(f) /\ owner[f] \in Conn \cup {None}
      BY <1>2, <2>2 DEF BInv, TypeOK
    <3>2. PICK d \in Conn : /\ d = owner[f] /\ d <= nc /\ chan[d].fd = f
                            /\ chan[d].auto
                            /\ chan[d].held \/ watch[d] # "none"
      BY <2>2, <3>1 DEF Owned
    <3>3. CASE d = c
      BY <1>2, <3>1, <3>2, <3>3 DEF Owned
    <3>4. CASE d # c
      BY <1>1, <1>2, <3>1, <3>2, <3>4 DEF Owned, BInv, TypeOK
    <3> QED
      BY <3>3, <3>4
  <2> QED
    BY <2>1, <2>2
<1>6. ASSUME NEW d \in Conn PROVE OnceOK(d)'
  BY <1>1 DEF BInv, TypeOK, OnceOK
<1>7. ASSUME NEW d \in Conn PROVE ErrOK(d)'
  <2>1. /\ sock'[d].err => sock[d].err
        /\ sock'[d].link = sock[d].link \/ (~sock'[d].err /\ d = c)
    <3>1. \/ sock'[d] = ss[d]
          \/ d = c /\ ~sock'[d].err
      BY <1>2
    <3>2. ss[d].link = sock[d].link /\ (ss[d].err => sock[d].err)
      OBVIOUS
    <3>3. CASE sock'[d] = ss[d]
      BY <3>2, <3>3
    <3>4. CASE d = c /\ ~sock'[d].err
      BY <3>4
    <3> QED
      BY <3>1, <3>3, <3>4
  <2>2. watch'[d] = "server" => d # c /\ watch[d] = "server"
    BY <1>1 DEF BInv, TypeOK
  <2>3. Open(d)' => Open(d)
    BY <1>2 DEF Open, BInv, TypeOK, None, Conn
  <2> QED
    BY <2>1, <2>2, <2>3 DEF BInv, ErrOK
<1>8. ASSUME ~reused, NEW d \in Conn PROVE MineOK(d)' /\ FailOK(d)' /\ FateOK(d)'
  <2>1. MineOK(d) /\ FailOK(d) /\ FateOK(d)
    BY <1>8 DEF BInv
  <2>2. MineOK(d)'
    BY <1>1, <1>2, <2>1 DEF MineOK, BInv, TypeOK
  <2>3. CASE d # c
    <3>1. sock'[d] = sock[d] /\ told'[d] = told[d]
      BY <1>1, <1>2, <1>8, <2>3
    <3> QED
      BY <2>1, <2>2, <3>1 DEF FailOK, FateOK
  <2>4. CASE d = c /\ UNCHANGED told /\ ss = sock
    <3>1. sock'[c] = sock[c] \/ sock'[c].link = "none"
      BY <1>2, <2>4
    <3> QED
      BY <1>1, <2>1, <2>2, <2>4, <3>1 DEF FailOK, FateOK
  <2>5. ASSUME NEW r, told' = [told EXCEPT ![c] = Append(told[c], r)],
               r.of = c,
               IF r.ok THEN r.link \in {"up", "hup"} ELSE r.link \in {"failed", "hup"},
               d = c
        PROVE  FailOK(d)' /\ FateOK(d)'
    <3>1. told'[d] = <<r>>
      BY <1>1, <2>5 DEF BInv, TypeOK
    <3>2. <<r>> # <<>> /\ Len(<<r>>) = 1 /\ <<r>>[1] = r
      OBVIOUS
    <3>3. told'[d] # <<>> /\ Len(told'[d]) = 1 /\ told'[d][1] = r
      BY <3>1, <3>2
    <3> QED
      BY <2>5, <3>3 DEF FailOK, FateOK
  <2> QED
    BY <1>8, <2>2, <2>3, <2>4, <2>5
<1> QED
  BY <1>3, <1>4, <1>5, <1>6, <1>7, <1>8 DEF BInv

\* Only what the kernel knows of c changes.
LEMMA SockStep ==
    ASSUME BInv, NEW c \in Conn, NEW s, SockOK(s), sock' = [sock EXCEPT ![c] = s],
           UNCHANGED <<nc, chan, watch, owner, told, gone, reused>>,
           s.err => s.link \in {"failed", "hup"},
           watch[c] = "server" /\ Open(c) => s.link = "listening",
           FailOK(c) => (s.link = "failed" /\ told[c] = <<>> => s.err)
    PROVE  BInv'
<1>1. sock'[c] = s /\ \A d \in Conn : d # c => sock'[d] = sock[d]
  BY DEF BInv, TypeOK
<1>2. TypeOK'
  BY <1>1 DEF BInv, TypeOK
<1>3. Fresh' /\ \A f \in Fd : Owned(f)'
  BY DEF BInv, Fresh, Owned
<1>4. ASSUME NEW d \in Conn PROVE OnceOK(d)' /\ ErrOK(d)'
  <2>1. Open(d)' <=> Open(d)
    BY DEF Open
  <2> QED
    BY <1>1, <2>1 DEF BInv, OnceOK, ErrOK
<1>5. ASSUME ~reused, NEW d \in Conn PROVE MineOK(d)' /\ FailOK(d)' /\ FateOK(d)'
  <2>1. MineOK(d) /\ FailOK(d) /\ FateOK(d)
    BY <1>5 DEF BInv
  <2>2. MineOK(d)' /\ FateOK(d)'
    BY <2>1 DEF MineOK, FateOK
  <2>3. FailOK(d)'
    BY <1>1, <2>1 DEF FailOK
  <2> QED
    BY <2>2, <2>3
<1> QED
  BY <1>2, <1>3, <1>4, <1>5 DEF BInv

-----------------------------------------------------------------------------
(* Every step *)

\* Nothing of the invariant's changes.
LEMMA BSame ==
    ASSUME BInv, UNCHANGED <<nc, chan, watch, owner, sock, told, gone, reused>>
    PROVE  BInv'
  BY DEF BInv, TypeOK, Fresh, Owned, OnceOK, ErrOK, Open, MineOK, FailOK, FateOK

\* bt_io_connect and bt_io_listen fail and leave nothing, or make a socket.
LEMMA MakeStep ==
    ASSUME BInv, NEW list, NEW server \in BOOLEAN,
           NEW w \in {"connect", "server"}, NEW link \in {"connecting", "listening"},
           w = "server" => link = "listening", Make(list, server, w, link)
    PROVE  BInv'
<1>1. CASE UNCHANGED <<nc, chan, watch, kernel, reused>>
  BY <1>1, BSame DEF Make, kernel
<1>2. CASE ~UNCHANGED <<nc, chan, watch, kernel, reused>>
  <2>1. PICK c \in Conn : c = nc + 1
    BY ConnAssumption DEF Make, Conn, BInv, TypeOK
  <2>2. PICK t, le, opt, src, dst :
            NewChannel(c, TRUE, w, [type |-> t, le |-> le, link |-> link,
                                    err |-> FALSE, opt |-> opt, src |-> src,
                                    dst |-> dst])
    BY <1>2, <2>1 DEF Make, Abandon, kernel
  <2> DEFINE s == [type |-> t, le |-> le, link |-> link, err |-> FALSE,
                   opt |-> opt, src |-> src, dst |-> dst]
  <2>3. SockOK(s) /\ ~s.err /\ s.link = link
    BY DEF SockOK, Fields, Link
  <2>4. NewChannel(c, TRUE, w, s) /\ UNCHANGED <<told, gone>>
    BY <2>2 DEF Make
  <2> HIDE DEF s
  <2> QED
    BY <2>1, <2>3, <2>4, NewChannelStep
<1> QED
  BY <1>1, <1>2

\* bt_io_set changes options only.
LEMMA SetStep ==
    ASSUME BInv, NEW c \in Conn, NEW list, bt_io_set(c, list)
    PROVE  BInv'
<1>1. CASE UNCHANGED sock
  BY <1>1, BSame DEF bt_io_set, history
<1>2. CASE ~UNCHANGED sock
  <2>1. PICK o : sock' = [sock EXCEPT ![c] = [sock[c] EXCEPT !.opt = o]]
    BY <1>2 DEF bt_io_set
  <2> DEFINE s == [sock[c] EXCEPT !.opt = o]
  <2>2. SockOK(sock[c]) /\ ErrOK(c)
    BY DEF BInv, TypeOK
  <2>3. SockOK(s) /\ s.link = sock[c].link /\ s.err = sock[c].err
    BY <2>2 DEF SockOK, Fields
  <2>4. sock' = [sock EXCEPT ![c] = s]
    BY <2>1
  <2> HIDE DEF s
  <2>5. UNCHANGED <<nc, chan, watch, owner, told, gone, reused>>
    BY DEF bt_io_set, history
  <2> QED
    BY <2>2, <2>3, <2>4, <2>5, SockStep DEF ErrOK, FailOK
<1> QED
  BY <1>1, <1>2

\* The kernel ends an attempt.
LEMMA SettleStep ==
    ASSUME BInv, NEW c \in Conn, NEW ok \in BOOLEAN, Settle(c, ok)
    PROVE  BInv'
<1> DEFINE s == [sock[c] EXCEPT !.link = IF ok THEN "up" ELSE "failed", !.err = ~ok]
<1>1. SockOK(sock[c]) /\ ErrOK(c) /\ sock[c].link = "connecting" /\ Open(c)
  BY DEF BInv, TypeOK, Settle
<1>2. /\ SockOK(s) /\ s.link = (IF ok THEN "up" ELSE "failed") /\ s.err = ~ok
  BY <1>1 DEF SockOK, Fields, Link
<1>3. sock' = [sock EXCEPT ![c] = s]
  BY <1>1 DEF Settle
<1> HIDE DEF s
<1>4. /\ s.err => s.link \in {"failed", "hup"}
      /\ s.link = "failed" => s.err
  BY <1>2
<1>5. UNCHANGED <<nc, chan, watch, owner, told, gone, reused>>
  BY DEF Settle, history
<1> QED
  BY <1>1, <1>2, <1>3, <1>4, <1>5, SockStep DEF ErrOK

\* The peer hangs up.
LEMMA HangUpStep ==
    ASSUME BInv, NEW c \in Conn, NEW err \in BOOLEAN, HangUp(c, err)
    PROVE  BInv'
<1> DEFINE s == [sock[c] EXCEPT !.link = "hup", !.err = err]
<1>1. SockOK(sock[c]) /\ ErrOK(c) /\ sock[c].link \in {"up", "deferred"} /\ Open(c)
  BY DEF BInv, TypeOK, HangUp
<1>2. SockOK(s) /\ s.link = "hup" /\ s.err = err
  BY <1>1 DEF SockOK, Fields, Link
<1>3. sock' = [sock EXCEPT ![c] = s]
  BY <1>1 DEF HangUp
<1> HIDE DEF s
<1>4. UNCHANGED <<nc, chan, watch, owner, told, gone, reused>>
  BY DEF HangUp, history
<1> QED
  BY <1>1, <1>2, <1>3, <1>4, SockStep DEF ErrOK

\* bt_io_accept watches the connection, or fails and leaves it as it was.
LEMMA AcceptStep ==
    ASSUME BInv, NEW c \in Conn, bt_io_accept(c)
    PROVE  BInv'
<1>1. CASE UNCHANGED <<watch, sock>>
  BY <1>1, BSame DEF bt_io_accept, history
<1>2. CASE ~UNCHANGED <<watch, sock>>
  <2> DEFINE s == [sock[c] EXCEPT !.link = IF sock[c].link = "deferred"
                                          THEN "connecting" ELSE sock[c].link]
  <2>1. /\ SockOK(sock[c]) /\ ErrOK(c) /\ Open(c) /\ chan[c].held
        /\ watch[c] = "none" /\ gone[c] = 0 /\ told[c] = <<>>
        /\ watch' = [watch EXCEPT ![c] = "accept"]
        /\ UNCHANGED <<nc, chan, owner, told, gone, reused>>
    BY <1>2 DEF bt_io_accept, history, BInv, TypeOK
  <2>2. /\ SockOK(s) /\ s.err = sock[c].err
        /\ s.link = sock[c].link \/ (sock[c].link = "deferred" /\ s.link = "connecting")
    BY <2>1 DEF SockOK, Fields, Link
  <2>3. sock' = [sock EXCEPT ![c] = s]
    BY <1>2 DEF bt_io_accept
  <2> HIDE DEF s
  <2>4. sock'[c] = s /\ \A d \in Conn : d # c => sock'[d] = sock[d]
    BY <2>3 DEF BInv, TypeOK
  <2>5. watch'[c] = "accept" /\ \A d \in Conn : d # c => watch'[d] = watch[d]
    BY <2>1 DEF BInv, TypeOK
  <2>6. TypeOK'
    BY <2>1, <2>2, <2>3, <2>4 DEF BInv, TypeOK
  <2>7. c <= nc
    BY <2>1 DEF BInv, TypeOK, Owned, Open, None, Conn
  <2>8. Fresh'
    BY <2>1, <2>5, <2>7 DEF BInv, Fresh, TypeOK, Conn
  <2>9. \A f \in Fd : Owned(f)'
    BY <2>1, <2>5 DEF BInv, TypeOK, Owned
  <2>10. ASSUME NEW d \in Conn PROVE OnceOK(d)' /\ ErrOK(d)'
    <3>1. Open(d)' <=> Open(d)
      BY <2>1 DEF Open
    <3> QED
      BY <2>1, <2>2, <2>4, <2>5, <3>1 DEF BInv, OnceOK, ErrOK
  <2>11. ASSUME ~reused, NEW d \in Conn
         PROVE  MineOK(d)' /\ FailOK(d)' /\ FateOK(d)'
    <3>1. MineOK(d) /\ FailOK(d) /\ FateOK(d)
      BY <2>11 DEF BInv
    <3>2. FateOK(d)'
      BY <2>1, <3>1 DEF FateOK
    <3>3. MineOK(d)'
      BY <2>1, <2>5, <3>1 DEF MineOK, Open
    <3>4. FailOK(d)'
      BY <2>1, <2>2, <2>4, <3>1 DEF FailOK
    <3> QED
      BY <3>2, <3>3, <3>4
  <2> QED
    BY <2>1, <2>6, <2>8, <2>9, <2>10, <2>11 DEF BInv
<1> QED
  BY <1>1, <1>2

\* connect_cb and accept_cb: the socket's error is read, and the client told.
LEMMA ReportStep ==
    ASSUME BInv, NEW c \in Conn, watch[c] # "none", Report(c),
           UNCHANGED <<nc, reused>>
    PROVE  BInv'
<1>1. CASE check_nval(c)
  <2>1. UNCHANGED told /\ EndWatch(c, sock)
    BY <1>1 DEF Report
  <2> QED
    BY <2>1, EndWatchStep DEF BInv, TypeOK
<1>2. CASE ~check_nval(c)
  <2>1. PICK s \in Conn : s = owner[chan[c].fd]
    BY <1>2 DEF check_nval, BInv, TypeOK
  <2> DEFINE ss == [sock EXCEPT ![s].err = FALSE]
             r == [of |-> s, ok |-> ~sock[s].err, link |-> sock[s].link]
  <2>2. s # None
    BY DEF None, Conn
  <2>3. /\ sock[s].link \in {"up", "failed", "hup"}
        /\ told' = [told EXCEPT ![c] = Append(told[c], r)]
        /\ EndWatch(c, ss)
    BY <1>2, <2>1, <2>2 DEF Report
  <2>4. \A d \in Conn : SockOK(sock[d])
    BY DEF BInv, TypeOK
  <2>5. /\ DOMAIN ss = Conn /\ \A d \in Conn : d # s => ss[d] = sock[d]
        /\ SockOK(ss[s]) /\ ss[s].link = sock[s].link /\ ~ss[s].err
    BY <2>4 DEF SockOK, Fields, BInv, TypeOK
  <2>6. r.of = s /\ r.ok = ~sock[s].err /\ r.link = sock[s].link
    OBVIOUS
  <2> HIDE DEF ss, r
  <2>7. ASSUME ~reused
        PROVE  /\ s = c
               /\ IF r.ok THEN r.link \in {"up", "hup"} ELSE r.link \in {"failed", "hup"}
    <3>1. s = c
      BY <2>1, <2>2, <2>7 DEF BInv, MineOK
    <3>2. /\ ErrOK(c) /\ FailOK(c) /\ told[c] = <<>>
      BY <2>7 DEF BInv, OnceOK
    <3> QED
      BY <2>3, <2>6, <3>1, <3>2 DEF ErrOK, FailOK
  <2>8. \A d \in Conn : /\ SockOK(ss[d]) /\ ss[d].link = sock[d].link
                        /\ ss[d].err => sock[d].err
    BY <2>4, <2>5
  <2> QED
    BY <2>3, <2>5, <2>6, <2>7, <2>8, EndWatchStep
<1> QED
  BY <1>1, <1>2

\* A server's watch makes the channel of a new connection.
LEMMA ServerStep ==
    ASSUME BInv, NEW c \in Conn, server_cb(c)
    PROVE  BInv'
<1>1. PICK n \in Conn : n = nc + 1
  BY ConnAssumption DEF server_cb, Conn, BInv, TypeOK
<1>2. PICK link \in {"up", "deferred"} :
          NewChannel(n, TRUE, "none", [sock[c] EXCEPT !.link = link])
  BY <1>1 DEF server_cb
<1> DEFINE s == [sock[c] EXCEPT !.link = link]
<1>3. SockOK(sock[c]) /\ ErrOK(c) /\ watch[c] = "server" /\ Open(c)
  BY DEF BInv, TypeOK, server_cb
<1>4. SockOK(s) /\ s.link = link /\ s.err = sock[c].err
  BY <1>3 DEF SockOK, Fields, Link
<1>5. ~sock[c].err
  BY <1>3 DEF ErrOK
<1>6. NewChannel(n, TRUE, "none", s)
  BY <1>2
<1> HIDE DEF s
<1>7. /\ UNCHANGED gone
      /\ \/ UNCHANGED told
         \/ told' = [told EXCEPT ![n] = <<[of |-> n, ok |-> TRUE, link |-> "up"]>>]
  BY <1>1 DEF server_cb
<1> QED
  BY <1>1, <1>4, <1>5, <1>6, <1>7, NewChannelStep

\* The client closes a channel or gives it back.
LEMMA ReleaseStep ==
    ASSUME BInv, NEW c \in Conn, Shutdown(c) \/ Unref(c)
    PROVE  BInv'
<1>1. /\ UNCHANGED <<nc, watch, told, gone, reused>>
      /\ chan[c].held
  BY DEF Shutdown, Unref, history
<1>2. /\ chan' \in [Conn -> [fd : Fd, held : BOOLEAN, auto : BOOLEAN]]
      /\ \A d \in Conn : chan'[d].fd = chan[d].fd /\ (d # c => chan'[d] = chan[d])
      /\ owner' \in [Fd -> Conn \cup {None}]
      /\ \A f \in Fd : owner'[f] \in {None, owner[f]}
      /\ owner'[chan[c].fd] = c
             => chan'[c].auto /\ watch[c] # "none" /\ sock'[c] = sock[c]
      /\ DOMAIN sock' = Conn
      /\ \A d \in Conn : SockOK(sock'[d]) /\ (d # c => sock'[d] = sock[d])
      /\ sock'[c] = sock[c] \/ (sock'[c].link = "none" /\ ~sock'[c].err)
  <2>0. /\ chan[c].fd \in Fd /\ chan[c] \in [fd : Fd, held : BOOLEAN, auto : BOOLEAN]
        /\ DOMAIN sock = Conn /\ (\A d \in Conn : SockOK(sock[d])) /\ None # c
    BY DEF BInv, TypeOK, None, Conn
  <2>1. CASE Close(c, sock)
    <3>1. \/ chan' = [chan EXCEPT ![c].auto = FALSE]
          \/ chan' = [chan EXCEPT ![c].held = FALSE, ![c].auto = FALSE]
          \/ chan' = [chan EXCEPT ![c].held = FALSE]
      BY DEF Shutdown, Unref
    <3>2. /\ owner' \in [Fd -> Conn \cup {None}]
          /\ owner'[chan[c].fd] = None
          /\ \A f \in Fd : f # chan[c].fd => owner'[f] = owner[f]
          /\ DOMAIN sock' = Conn /\ \A d \in Conn : SockOK(sock'[d])
          /\ sock'[c].link = "none" /\ ~sock'[c].err
          /\ \A d \in Conn : d # c => sock'[d] = sock[d]
      BY <2>0, <2>1, CloseFacts DEF BInv
    <3>3. /\ chan' \in [Conn -> [fd : Fd, held : BOOLEAN, auto : BOOLEAN]]
          /\ \A d \in Conn : chan'[d].fd = chan[d].fd /\ (d # c => chan'[d] = chan[d])
      <4>1. CASE chan' = [chan EXCEPT ![c].auto = FALSE]
        BY <2>0, <4>1 DEF BInv, TypeOK
      <4>2. CASE chan' = [chan EXCEPT ![c].held = FALSE, ![c].auto = FALSE]
        <5> DEFINE mid == [chan EXCEPT ![c].held = FALSE]
        <5>1. chan' = [mid EXCEPT ![c].auto = FALSE]
          BY <4>2
        <5>2. /\ mid \in [Conn -> [fd : Fd, held : BOOLEAN, auto : BOOLEAN]]
              /\ \A d \in Conn : /\ mid[d].fd = chan[d].fd
                                 /\ d # c => mid[d] = chan[d]
          BY <2>0 DEF BInv, TypeOK
        <5> HIDE DEF mid
        <5> QED
          BY <5>1, <5>2
      <4>3. CASE chan' = [chan EXCEPT ![c].held = FALSE]
        BY <2>0, <4>3 DEF BInv, TypeOK
      <4> QED
        BY <3>1, <4>1, <4>2, <4>3
    <3> QED
      BY <2>0, <3>2, <3>3
  <2>2. CASE ~Close(c, sock)
    <3>1. /\ ~(watch[c] = "none" /\ chan[c].auto)
          /\ chan' = [chan EXCEPT ![c].held = FALSE]
          /\ UNCHANGED <<owner, sock>>
      BY <2>2 DEF Shutdown, Unref, kernel
    <3>2. owner[chan[c].fd] = c => chan[c].auto
      BY <2>0 DEF BInv, Owned
    <3>3. /\ chan' \in [Conn -> [fd : Fd, held : BOOLEAN, auto : BOOLEAN]]
          /\ \A d \in Conn : chan'[d].fd = chan[d].fd /\ (d # c => chan'[d] = chan[d])
          /\ chan'[c].auto = chan[c].auto
      BY <2>0, <3>1 DEF BInv, TypeOK
    <3>4. owner'[chan[c].fd] = c
              => chan'[c].auto /\ watch[c] # "none" /\ sock'[c] = sock[c]
      BY <3>1, <3>2, <3>3
    <3>5. owner' \in [Fd -> Conn \cup {None}]
      BY <3>1 DEF BInv, TypeOK
    <3> QED
      BY <2>0, <3>1, <3>3, <3>4, <3>5
  <2> QED
    BY <2>1, <2>2
<1>3. TypeOK'
  BY <1>1, <1>2 DEF BInv, TypeOK
<1>4. Fresh'
  <2>1. ~(c > nc)
    BY <1>1 DEF BInv, Fresh
  <2> QED
    BY <1>1, <1>2, <2>1 DEF BInv, Fresh, TypeOK
<1>5. ASSUME NEW f \in Fd PROVE Owned(f)'
  <2>1. CASE owner'[f] = None
    BY <2>1 DEF Owned
  <2>2. CASE owner'[f] # None
    <3>1. /\ owner'[f] = owner[f] /\ Owned(f) /\ owner[f] \in Conn \cup {None}
      BY <1>2, <2>2 DEF BInv, TypeOK
    <3>2. PICK d \in Conn : /\ d = owner[f] /\ d <= nc /\ chan[d].fd = f
                            /\ chan[d].auto
                            /\ chan[d].held \/ watch[d] # "none"
      BY <2>2, <3>1 DEF Owned
    <3>3. CASE d = c
      BY <1>1, <1>2, <3>1, <3>2, <3>3 DEF Owned
    <3>4. CASE d # c
      BY <1>1, <1>2, <3>1, <3>2, <3>4 DEF Owned
    <3> QED
      BY <3>3, <3>4
  <2> QED
    BY <2>1, <2>2
<1>6. ASSUME NEW d \in Conn PROVE OnceOK(d)'
  BY <1>1 DEF BInv, OnceOK
<1>7. ASSUME NEW d \in Conn PROVE ErrOK(d)'
  <2>1. Open(d)' => Open(d)
    BY <1>2 DEF Open, BInv, TypeOK, None, Conn
  <2>2. Open(d)' /\ watch[d] = "server" => sock'[d] = sock[d]
    BY <1>2 DEF Open
  <2>3. sock'[d] = sock[d] \/ ~sock'[d].err
    BY <1>2
  <2> QED
    BY <1>1, <2>1, <2>2, <2>3 DEF BInv, ErrOK
<1>8. ASSUME ~reused, NEW d \in Conn PROVE MineOK(d)' /\ FailOK(d)' /\ FateOK(d)'
  <2>1. MineOK(d) /\ FailOK(d) /\ FateOK(d)
    BY <1>8 DEF BInv
  <2>2. MineOK(d)'
    BY <1>1, <1>2, <2>1 DEF MineOK, BInv, TypeOK
  <2>3. sock'[d] = sock[d] \/ sock'[d].link = "none"
    BY <1>2
  <2>4. FailOK(d)' /\ FateOK(d)'
    BY <1>1, <2>1, <2>3 DEF FailOK, FateOK
  <2> QED
    BY <2>2, <2>4
<1> QED
  BY <1>1, <1>3, <1>4, <1>5, <1>6, <1>7, <1>8 DEF BInv

\* Every call, every watch and every step of the kernel preserves the invariant.
LEMMA BInvStep ==
    ASSUME BInv, Next
    PROVE  BInv'
<1>1. ASSUME NEW list \in OptLists, bt_io_connect(list) PROVE BInv'
  BY <1>1, MakeStep DEF bt_io_connect
<1>2. ASSUME NEW list \in OptLists, NEW conf \in BOOLEAN, bt_io_listen(list, conf)
      PROVE  BInv'
  BY <1>2, MakeStep DEF bt_io_listen
<1>3. ASSUME NEW list \in OptLists, NEW c \in Conn, bt_io_set(c, list) PROVE BInv'
  BY <1>3, SetStep
<1>4. ASSUME NEW c \in Conn, NEW k \in GetOpts, bt_io_get(c, k) PROVE BInv'
  BY <1>4, BSame DEF bt_io_get, kernel, history
<1>5. ASSUME NEW c \in Conn, bt_io_accept(c) PROVE BInv'
  BY <1>5, AcceptStep
<1>6. ASSUME NEW c \in Conn, connect_cb(c) \/ accept_cb(c) PROVE BInv'
  BY <1>6, ReportStep DEF connect_cb, accept_cb
<1>7. ASSUME NEW c \in Conn, server_cb(c) PROVE BInv'
  BY <1>7, ServerStep
<1>8. ASSUME NEW c \in Conn, server_cb_end(c) PROVE BInv'
  <2>1. /\ watch[c] # "none" /\ EndWatch(c, sock)
        /\ UNCHANGED told /\ UNCHANGED <<nc, reused>>
    BY <1>8 DEF server_cb_end
  <2> QED
    BY <2>1, EndWatchStep DEF BInv, TypeOK
<1>9. ASSUME NEW c \in Conn, NEW b \in BOOLEAN, Settle(c, b) \/ HangUp(c, b)
      PROVE  BInv'
  BY <1>9, SettleStep, HangUpStep
<1>10. ASSUME NEW c \in Conn, Shutdown(c) \/ Unref(c) PROVE BInv'
  BY <1>10, ReleaseStep
<1> QED
  BY <1>1, <1>2, <1>3, <1>4, <1>5, <1>6, <1>7, <1>8, <1>9, <1>10 DEF Next

-----------------------------------------------------------------------------
(* The theorems *)

\* At first there is no socket.
LEMMA BInvInit ==
    ASSUME Init
    PROVE  BInv
<1>1. SockOK(NoSock) /\ NoSock.link = "none" /\ ~NoSock.err
  BY DEF SockOK, NoSock, Fields, Link
<1>2. TypeOK
  <2>1. Conn = {} \/ 1 \in Fd
    BY ConnAssumption DEF Conn, Fd
  <2>2. chan \in [Conn -> [fd : Fd, held : BOOLEAN, auto : BOOLEAN]]
    BY <2>1 DEF Init
  <2>3. nc \in 0..MaxConn
    <3>1. nc = 0
      BY DEF Init
    <3> QED
      BY <3>1, ConnAssumption
  <2>6. reused \in BOOLEAN
    BY Zenon DEF Init
  <2>4. /\ watch \in [Conn -> {"none", "connect", "server", "accept"}]
        /\ owner \in [Fd -> Conn \cup {None}] /\ gone \in [Conn -> Nat]
    BY DEF Init
  <2>5. /\ DOMAIN told = Conn /\ DOMAIN sock = Conn
        /\ \A c \in Conn : SockOK(sock[c])
    BY <1>1 DEF Init
  <2> QED
    BY <2>2, <2>3, <2>4, <2>5, <2>6 DEF TypeOK
<1>3. Fresh /\ \A f \in Fd : Owned(f)
  BY DEF Init, Fresh, Owned
<1>4. \A c \in Conn : /\ OnceOK(c) /\ ErrOK(c)
                      /\ MineOK(c) /\ FailOK(c) /\ FateOK(c)
  BY <1>1 DEF Init, OnceOK, ErrOK, MineOK, FailOK, FateOK
<1> QED
  BY <1>2, <1>3, <1>4 DEF BInv

\* The invariant of the channels and their sockets holds in every state.
THEOREM BInvCorrect == Spec => []BInv
<1>1. BInv /\ [Next]_vars => BInv'
  <2>1. ASSUME BInv, UNCHANGED vars PROVE BInv'
    BY <2>1, BSame DEF vars, kernel, history
  <2> QED
    BY <2>1, BInvStep
<1> QED
  BY BInvInit, <1>1, PTL DEF Spec

\* No socket is left behind: an open one has a channel under its own number
\* that the client or a watch holds, whatever fails in bt_io_connect,
\* bt_io_listen or bt_io_accept and however close, unref and the end of a
\* watch are ordered; and a watch ends once.
THEOREM NoOrphanCorrect == Spec => []NoOrphan
<1>1. ASSUME BInv PROVE NoOrphan
  <2>1. \A f \in Fd : owner[f] # None =>
            /\ owner[f] <= nc /\ chan[owner[f]].fd = f
            /\ chan[owner[f]].held \/ watch[owner[f]] # "none"
    BY <1>1 DEF BInv, Owned
  <2>2. \A c \in Conn : gone[c] <= IF watch[c] = "none" THEN 1 ELSE 0
    BY <1>1 DEF BInv, OnceOK
  <2> QED
    BY <2>1, <2>2 DEF NoOrphan
<1> QED
  BY <1>1, BInvCorrect, PTL

\* The client's connect function is called at most once for an attempt, with
\* the fate of its own socket, unless the number of a watched channel was given
\* to another.
THEOREM ToldOwnFateCorrect == Spec => []ToldOwnFate
<1>1. ASSUME BInv PROVE ToldOwnFate
  BY <1>1 DEF BInv, FateOK, ToldOwnFate
<1> QED
  BY <1>1, BInvCorrect, PTL
-----------------------------------------------------------------------------
(* Lists of steps *)

\* The steps of a list are those in S.
Lists(s, S) == s \in Seq(S) /\ S = {s[i] : i \in 1..Len(s)}

\* A list put together from two has the steps of both.
LEMMA ListsJoin ==
    ASSUME NEW s, NEW t, NEW S, NEW T, Lists(s, S), Lists(t, T)
    PROVE  Lists(s \o t, S \cup T)
<1>1. s \in Seq(S \cup T) /\ t \in Seq(S \cup T)
  BY DEF Lists
<1> DEFINE r == s \o t
<1>2. /\ r \in Seq(S \cup T) /\ Len(r) = Len(s) + Len(t)
      /\ \A i \in 1..Len(s) : r[i] = s[i]
      /\ \A i \in 1..Len(t) : r[Len(s) + i] = t[i]
  BY <1>1
<1>3. Len(s) \in Nat /\ Len(t) \in Nat
  BY <1>1
<1> HIDE DEF r
<1>4. ASSUME NEW x \in S \cup T PROVE x \in {r[i] : i \in 1..Len(r)}
  <2>1. CASE x \in S
    <3>1. PICK i \in 1..Len(s) : x = s[i]
      BY <2>1 DEF Lists
    <3> QED
      BY <1>2, <1>3, <3>1
  <2>2. CASE x \in T
    <3>1. PICK i \in 1..Len(t) : x = t[i]
      BY <2>2 DEF Lists
    <3>2. Len(s) + i \in 1..Len(r) /\ r[Len(s) + i] = x
      BY <1>2, <1>3, <3>1
    <3> QED
      BY <3>2
  <2> QED
    BY <2>1, <2>2
<1>5. ASSUME NEW i \in 1..Len(r) PROVE r[i] \in S \cup T
  BY <1>2
<1>6. Lists(r, S \cup T)
  BY <1>2, <1>4, <1>5 DEF Lists
<1> QED
  BY <1>6 DEF r

\* A list of one step, and of none.
LEMMA ListsOne ==
    ASSUME NEW x
    PROVE  Lists(<<x>>, {x})
<1>1. <<x>> \in Seq({x}) /\ Len(<<x>>) = 1 /\ <<x>>[1] = x
  OBVIOUS
<1>2. {<<x>>[i] : i \in 1..Len(<<x>>)} = {x}
  BY <1>1
<1> QED
  BY <1>1, <1>2 DEF Lists

LEMMA ListsNone == Lists(<< >>, {})
<1>1. << >> \in Seq({}) /\ Len(<< >>) = 0
  OBVIOUS
<1>2. {<< >>[i] : i \in 1..Len(<< >>)} = {}
  BY <1>1
<1> QED
  BY <1>1, <1>2 DEF Lists

\* The last step that sets an option is one that does, and none after it does.
LEMMA LatestFacts ==
    ASSUME NEW steps, NEW n \in Nat, NEW k
    PROVE  LET m == Latest(steps, n, k) IN
           /\ m \in 0..n
           /\ m # 0 => k \in DOMAIN steps[m].set
           /\ \A i \in 1..n : k \in DOMAIN steps[i].set => i <= m
<1> DEFINE S == {0} \cup {i \in 1..n : k \in DOMAIN steps[i].set}
           T == {n - i : i \in S}
<1>1. S \subseteq 0..n
  OBVIOUS
<1>2. T \in SUBSET Nat /\ T # {}
  BY <1>1
<1>3. PICK x \in T : \A y \in T : x <= y
  BY <1>2, Smallest
<1>4. PICK m \in S : x = n - m
  OBVIOUS
<1>5. \A i \in S : m >= i
  <2> SUFFICES ASSUME NEW i \in S PROVE m >= i
    OBVIOUS
  <2>1. n - m <= n - i
    BY <1>3, <1>4
  <2> QED
    BY <1>1, <2>1
<1>6. /\ Max(S) \in S /\ \A i \in S : Max(S) >= i
  BY <1>5 DEF Max
<1>7. Latest(steps, n, k) = Max(S)
  BY DEF Latest
<1> HIDE DEF T
<1>8. \A i \in 1..n : k \in DOMAIN steps[i].set => i \in S
  OBVIOUS
<1>9. \A i \in S : i # 0 => k \in DOMAIN steps[i].set
  OBVIOUS
<1> HIDE DEF S
<1>10. Max(S) \in 0..n
  BY <1>1, <1>6
<1>11. \A i \in 1..n : k \in DOMAIN steps[i].set => i <= Max(S)
  BY <1>6, <1>8, <1>10
<1> QED
  BY <1>6, <1>7, <1>9, <1>10, <1>11

\* An option that a step of the list sets has its value from one that does.
LEMMA LatestOne ==
    ASSUME NEW steps, NEW S, Lists(steps, S), NEW k, \E x \in S : k \in DOMAIN x.set
    PROVE  LET m == Latest(steps, Len(steps), k) IN
           m \in 1..Len(steps) /\ steps[m] \in S /\ k \in DOMAIN steps[m].set
<1>1. Len(steps) \in Nat /\ \A i \in 1..Len(steps) : steps[i] \in S
  BY DEF Lists
<1>2. PICK i \in 1..Len(steps) : k \in DOMAIN steps[i].set
  BY DEF Lists
<1>3. PICK m : m = Latest(steps, Len(steps), k)
  OBVIOUS
<1>4. /\ m \in 0..Len(steps) /\ i <= m
      /\ m # 0 => k \in DOMAIN steps[m].set
  BY <1>1, <1>2, <1>3, LatestFacts
<1>5. m \in 1..Len(steps) /\ k \in DOMAIN steps[m].set
  BY <1>1, <1>2, <1>4
<1> QED
  BY <1>1, <1>3, <1>5

\* One that no step sets is not in any.
LEMMA LatestNone ==
    ASSUME NEW steps, NEW S, Lists(steps, S), NEW k,
           \A s \in S : k \notin DOMAIN s.set
    PROVE  Latest(steps, Len(steps), k) = 0
<1>1. Len(steps) \in Nat /\ \A i \in 1..Len(steps) : steps[i] \in S
  BY DEF Lists
<1>2. PICK m : m = Latest(steps, Len(steps), k)
  OBVIOUS
<1>3. m \in 0..Len(steps) /\ (m # 0 => k \in DOMAIN steps[m].set)
  BY <1>1, <1>2, LatestFacts
<1>4. m = 0 \/ m \in 1..Len(steps)
  BY <1>1, <1>3
<1> QED
  BY <1>1, <1>2, <1>3, <1>4
-----------------------------------------------------------------------------
(* What the three kinds of sockets set *)

\* What OptsAssumption says of the options of one call.
Parsed(o) == /\ o.type \in {"L2CAP", "RFCOMM", "SCO"} /\ o.le \in BOOLEAN
             /\ o.master \in {Unset, 0, 1} /\ o.priority \in Nat
             /\ "MASTER" \in o.given => o.master # Unset
             /\ "FLUSHABLE" \in o.given => o.flushable # Unset

\* The steps of set_sec_level, of set_master, of one option and of the first part
\* of l2cap_set, and all steps of one kind of socket, as sets.
SecSteps(o) ==
    IF o.sec = 0 THEN {}
    ELSE IF o.sec \notin 1..3 THEN {Refusal(TRUE)}
    ELSE IF OldKernel THEN {Step([lm |-> lm_map(o.sec)])} ELSE {Step([sec |-> o.sec])}

MasterSteps(o) == IF o.master # Unset THEN {Step([master |-> o.master])} ELSE {}

OneStep(b, o, k) == IF b THEN {Step(Pick(o, {k}))} ELSE {}

MtuSteps(o) ==
    LET given == {n \in {"imtu", "omtu", "mode"} : o[n] # 0} IN
    IF given = {} THEN {}
    ELSE IF ~o.le THEN {Step(Pick(o, given))}
    ELSE IF o.imtu = 0 THEN {Refusal(FALSE)}
    ELSE {Step(Pick(o, {"imtu"}))} \cup OneStep(o.mode # 0, o, "mode")

SetSteps(type, o) ==
    IF type = "L2CAP"
    THEN MtuSteps(o) \cup MasterSteps(o)
         \cup OneStep(o.flushable # Unset, o, "flushable")
         \cup OneStep(o.priority > 0, o, "priority") \cup SecSteps(o)
    ELSE IF type = "RFCOMM" THEN SecSteps(o) \cup MasterSteps(o)
    ELSE OneStep(o.mtu # 0, o, "mtu") \cup OneStep(o.voice # 0, o, "voice")

\* The steps of each part.
LEMMA PartSteps ==
    ASSUME NEW o
    PROVE  /\ Lists(When(o.sec # 0, set_sec_level(o.sec)), SecSteps(o))
           /\ Lists(set_master(o), MasterSteps(o))
           /\ Lists(l2cap_mtu(o), MtuSteps(o))
<1>1. Lists(When(o.sec # 0, set_sec_level(o.sec)), SecSteps(o))
  BY ListsOne, ListsNone DEF When, set_sec_level, SecSteps
<1>2. Lists(set_master(o), MasterSteps(o))
  BY ListsOne, ListsNone DEF When, set_master, MasterSteps
<1>3. Lists(l2cap_mtu(o), MtuSteps(o))
  <2> DEFINE given == {n \in {"imtu", "omtu", "mode"} : o[n] # 0}
  <2>1. CASE given = {}
    BY <2>1, ListsNone DEF l2cap_mtu, MtuSteps
  <2>2. CASE given # {} /\ ~o.le
    BY <2>2, ListsOne DEF l2cap_mtu, MtuSteps
  <2>3. CASE given # {} /\ o.le /\ o.imtu = 0
    BY <2>3, ListsOne DEF l2cap_mtu, MtuSteps
  <2>4. CASE given # {} /\ o.le /\ o.imtu # 0
    <3>1. Lists(<<Step(Pick(o, {"imtu"}))>>, {Step(Pick(o, {"imtu"}))})
      BY ListsOne
    <3>2. Lists(When(o.mode # 0, <<Step(Pick(o, {"mode"}))>>),
                OneStep(o.mode # 0, o, "mode"))
      BY ListsOne, ListsNone DEF When, OneStep
    <3>3. Lists(<<Step(Pick(o, {"imtu"}))>> \o When(o.mode # 0, <<Step(Pick(o, {"mode"}))>>),
                {Step(Pick(o, {"imtu"}))} \cup OneStep(o.mode # 0, o, "mode"))
      BY <3>1, <3>2, ListsJoin
    <3> QED
      BY <2>4, <3>3 DEF l2cap_mtu, MtuSteps
  <2> QED
    BY <2>1, <2>2, <2>3, <2>4
<1> QED
  BY <1>1, <1>2, <1>3

\* l2cap_set, rfcomm_set and sco_set make the steps in SetSteps.
LEMMA SetStepsFacts ==
    ASSUME NEW o, NEW type \in {"L2CAP", "RFCOMM", "SCO"}
    PROVE  Lists(set_steps(type, o), SetSteps(type, o))
<1>1. CASE type = "L2CAP"
  <2> DEFINE f == When(o.flushable # Unset, <<Step(Pick(o, {"flushable"}))>>)
             p == When(o.priority > 0, <<Step(Pick(o, {"priority"}))>>)
             s == When(o.sec # 0, set_sec_level(o.sec))
             F == OneStep(o.flushable # Unset, o, "flushable")
             P == OneStep(o.priority > 0, o, "priority")
  <2>1. Lists(l2cap_mtu(o), MtuSteps(o)) /\ Lists(set_master(o), MasterSteps(o))
    BY PartSteps
  <2>2. Lists(f, F) /\ Lists(p, P)
    BY ListsOne, ListsNone DEF When, OneStep
  <2>3. Lists(s, SecSteps(o))
    BY PartSteps
  <2>4. set_steps(type, o) = l2cap_mtu(o) \o set_master(o) \o f \o p \o s
    BY <1>1 DEF set_steps, l2cap_set
  <2>5. SetSteps(type, o) = MtuSteps(o) \cup MasterSteps(o) \cup F \cup P \cup SecSteps(o)
    BY <1>1 DEF SetSteps
  <2> HIDE DEF f, p, s, F, P
  <2>6. Lists(l2cap_mtu(o) \o set_master(o), MtuSteps(o) \cup MasterSteps(o))
    BY <2>1, ListsJoin
  <2>7. Lists(l2cap_mtu(o) \o set_master(o) \o f, MtuSteps(o) \cup MasterSteps(o) \cup F)
    BY <2>2, <2>6, ListsJoin
  <2>8. Lists(l2cap_mtu(o) \o set_master(o) \o f \o p,
              MtuSteps(o) \cup MasterSteps(o) \cup F \cup P)
    BY <2>2, <2>7, ListsJoin
  <2>9. Lists(l2cap_mtu(o) \o set_master(o) \o f \o p \o s,
              MtuSteps(o) \cup MasterSteps(o) \cup F \cup P \cup SecSteps(o))
    BY <2>8, <2>3, ListsJoin
  <2> QED
    BY <2>4, <2>5, <2>9
<1>2. CASE type = "RFCOMM"
  <2>1. Lists(When(o.sec # 0, set_sec_level(o.sec)) \o set_master(o),
              SecSteps(o) \cup MasterSteps(o))
    BY PartSteps, ListsJoin
  <2> QED
    BY <1>2, <2>1 DEF set_steps, rfcomm_set, SetSteps
<1>3. CASE type = "SCO"
  <2>1. /\ Lists(When(o.mtu # 0, <<Step(Pick(o, {"mtu"}))>>), OneStep(o.mtu # 0, o, "mtu"))
        /\ Lists(When(o.voice # 0, <<Step(Pick(o, {"voice"}))>>),
                 OneStep(o.voice # 0, o, "voice"))
    BY ListsOne, ListsNone DEF When, OneStep
  <2>2. Lists(When(o.mtu # 0, <<Step(Pick(o, {"mtu"}))>>)
                 \o When(o.voice # 0, <<Step(Pick(o, {"voice"}))>>),
              OneStep(o.mtu # 0, o, "mtu") \cup OneStep(o.voice # 0, o, "voice"))
    BY <2>1, ListsJoin
  <2> QED
    BY <1>3, <2>2 DEF set_steps, sco_set, SetSteps
<1> QED
  BY <1>1, <1>2, <1>3

\* If all steps succeed, none of them is one that cannot.
LEMMA AllCan ==
    ASSUME NEW steps, NEW S, Lists(steps, S), May(steps, Len(steps))
    PROVE  \A s \in S : s.can
  BY DEF Lists, May

\* A failure that says nothing is that of the MTU or mode of an LE socket.
LEMMA SaysFacts ==
    ASSUME NEW o, NEW type \in {"L2CAP", "RFCOMM", "SCO"},
           NEW n \in 0..Len(set_steps(type, o)), ~Says(set_steps(type, o), n)
    PROVE  /\ n < Len(set_steps(type, o))
           /\ o.le /\ o.imtu = 0
<1> DEFINE steps == set_steps(type, o)
<1>1. Lists(steps, SetSteps(type, o))
  BY SetStepsFacts
<1>2. n < Len(steps) /\ ~steps[n + 1].says
  BY DEF Says
<1>3. Len(steps) \in Nat
  BY <1>1 DEF Lists
<1>4. PICK x \in SetSteps(type, o) : x = steps[n + 1]
  <2>1. n + 1 \in 1..Len(steps)
    BY <1>2, <1>3
  <2> QED
    BY <1>1, <2>1 DEF Lists
<1> HIDE DEF steps
<1>5. x \in MtuSteps(o)
  BY <1>2, <1>4 DEF SetSteps, MasterSteps, SecSteps, OneStep, Step, Refusal
<1>6. o.le /\ o.imtu = 0
  <2> DEFINE given == {k \in {"imtu", "omtu", "mode"} : o[k] # 0}
  <2>1. ~x.says
    BY <1>2, <1>4
  <2>2. given # {}
    BY <1>5 DEF MtuSteps
  <2>3. o.le
    <3>1. SUFFICES ASSUME ~o.le PROVE FALSE
      OBVIOUS
    <3>2. x \in {Step(Pick(o, given))}
      BY <1>5, <2>2, <3>1 DEF MtuSteps
    <3> QED
      BY <2>1, <3>2 DEF Step
  <2>4. o.imtu = 0
    <3>1. SUFFICES ASSUME o.imtu # 0 PROVE FALSE
      OBVIOUS
    <3>2. x \in {Step(Pick(o, {"imtu"}))} \cup OneStep(o.mode # 0, o, "mode")
      BY <1>5, <2>2, <2>3, <3>1 DEF MtuSteps
    <3> QED
      BY <2>1, <3>2 DEF Step, OneStep
  <2> QED
    BY <2>3, <2>4
<1> QED
  BY <1>2, <1>6 DEF steps
-----------------------------------------------------------------------------
(* What is in force after a call *)

\* A step sets an option to its value in o, or the flags of a security level.
LEMMA StepValues ==
    ASSUME NEW o, NEW type, NEW s \in SetSteps(type, o), NEW k \in DOMAIN s.set
    PROVE  IF k = "lm" THEN OldKernel /\ o.sec \in 1..3 /\ s.set[k] = lm_map(o.sec)
           ELSE s.set[k] = o[k]
<1>1. CASE s \in MasterSteps(o)
  BY <1>1 DEF MasterSteps, Step
<1>2. CASE s \in SecSteps(o)
  <2>1. o.sec # 0
    BY <1>2 DEF SecSteps
  <2>2. CASE o.sec \notin 1..3
    BY <1>2, <2>1, <2>2 DEF SecSteps, Refusal
  <2>3. CASE o.sec \in 1..3 /\ OldKernel
    <3>1. s = Step([lm |-> lm_map(o.sec)])
      BY <1>2, <2>1, <2>3 DEF SecSteps
    <3> QED
      BY <2>3, <3>1 DEF Step
  <2>4. CASE o.sec \in 1..3 /\ ~OldKernel
    <3>1. s = Step([sec |-> o.sec])
      BY <1>2, <2>1, <2>4 DEF SecSteps
    <3> QED
      BY <3>1 DEF Step
  <2> QED
    BY <2>2, <2>3, <2>4
<1>3. CASE s \in MtuSteps(o)
  <2> DEFINE given == {n \in {"imtu", "omtu", "mode"} : o[n] # 0}
  <2>1. given # {}
    BY <1>3 DEF MtuSteps
  <2>2. \/ s = Refusal(FALSE)
        \/ \E A \in SUBSET {"imtu", "omtu", "mode"} : s = Step(Pick(o, A))
    <3>1. CASE ~o.le
      BY <1>3, <2>1, <3>1 DEF MtuSteps
    <3>2. CASE o.le /\ o.imtu = 0
      BY <1>3, <2>1, <3>2 DEF MtuSteps
    <3>3. CASE o.le /\ o.imtu # 0
      BY <1>3, <2>1, <3>3 DEF MtuSteps, OneStep
    <3> QED
      BY <3>1, <3>2, <3>3
  <2>3. CASE s = Refusal(FALSE)
    BY <2>3 DEF Refusal
  <2>4. CASE \E A \in SUBSET {"imtu", "omtu", "mode"} : s = Step(Pick(o, A))
    BY <2>4 DEF Step, Pick
  <2> QED
    BY <2>2, <2>3, <2>4
<1>4. ASSUME NEW b, NEW n \in {"flushable", "priority", "mtu", "voice"},
             s \in OneStep(b, o, n)
      PROVE  s.set[k] = o[k] /\ k # "lm"
  <2>1. s = Step(Pick(o, {n}))
    BY <1>4 DEF OneStep
  <2> QED
    BY <2>1 DEF Step, Pick
<1> QED
  BY <1>1, <1>2, <1>3, <1>4 DEF SetSteps

\* The name under which the kernel has option k.
Name(k) == CASE k = "SEC_LEVEL" -> IF OldKernel THEN "lm" ELSE "sec"
             [] k = "MASTER"    -> "master"
             [] k = "IMTU"      -> "imtu"
             [] k = "OMTU"      -> "omtu"
             [] k = "MODE"      -> "mode"
             [] k = "FLUSHABLE" -> "flushable"
             [] k = "PRIORITY"  -> "priority"
             [] k = "MTU"       -> "mtu"

\* p is an option of o with a value that the code does not take for nothing, and
\* a socket of this kind has it under a name of its own.
Wanted(o, type, p) ==
    /\ p[1] \in Gets(type) \ (IF type = "SCO" THEN {"IMTU", "OMTU"} ELSE {})
    /\ p[2] # (IF p[1] \in {"MASTER", "FLUSHABLE"} THEN Unset ELSE 0)
    /\ p \in {<<"SEC_LEVEL", o.sec>>, <<"MASTER", o.master>>, <<"IMTU", o.imtu>>,
              <<"OMTU", o.omtu>>, <<"MODE", o.mode>>, <<"FLUSHABLE", o.flushable>>,
              <<"PRIORITY", o.priority>>, <<"MTU", o.mtu>>}

\* What was asked for and is not dropped is wanted, or it is the MTU of a SCO
\* socket by the name of a direction.
LEMMA AskedWanted ==
    ASSUME NEW o, Parsed(o), NEW type \in {"L2CAP", "RFCOMM", "SCO"},
           NEW p \in Asked(o, type), p[1] \notin Dropped(o, type)
    PROVE  \/ Wanted(o, type, p)
           \/ /\ type = "SCO" /\ o.mtu # 0
              /\ p \in {<<"IMTU", o.mtu>>, <<"OMTU", o.mtu>>}
<1>1. p \in OptValues(o) /\ p[1] \in o.given /\ p[1] \in Gets(type)
  BY DEF Asked
<1>2. p[1] \in {"MASTER", "FLUSHABLE"} => p[2] # Unset
  BY <1>1 DEF OptValues, Parsed
<1>3. p[1] \notin {"MASTER", "FLUSHABLE"} => p[2] # 0
  BY <1>1 DEF Dropped
<1>4. CASE type = "SCO" /\ p[1] \in {"IMTU", "OMTU"}
  <2>1. /\ p[1] = "IMTU" => o.imtu = o.mtu
        /\ p[1] = "OMTU" => o.omtu = o.mtu
    BY <1>4 DEF Dropped
  <2>2. p \in {<<"IMTU", o.imtu>>, <<"OMTU", o.omtu>>}
    BY <1>1, <1>4 DEF OptValues
  <2> QED
    BY <1>3, <1>4, <2>1, <2>2
<1>5. CASE ~(type = "SCO" /\ p[1] \in {"IMTU", "OMTU"})
  BY <1>1, <1>2, <1>3, <1>5 DEF Wanted, OptValues
<1> QED
  BY <1>4, <1>5

\* Of the options that are wanted, each is set by a step, but for those that
\* are dropped, when no step is one that cannot succeed.
LEMMA HasStep ==
    ASSUME NEW o, Parsed(o), NEW type \in {"L2CAP", "RFCOMM", "SCO"},
           \A s \in SetSteps(type, o) : s.can,
           NEW p, Wanted(o, type, p), p[1] \notin Dropped(o, type)
    PROVE  \E x \in SetSteps(type, o) : Name(p[1]) \in DOMAIN x.set
<1>1. /\ p[1] \in Gets(type) \ (IF type = "SCO" THEN {"IMTU", "OMTU"} ELSE {})
      /\ p[2] # (IF p[1] \in {"MASTER", "FLUSHABLE"} THEN Unset ELSE 0)
      /\ p \in {<<"SEC_LEVEL", o.sec>>, <<"MASTER", o.master>>, <<"IMTU", o.imtu>>,
                <<"OMTU", o.omtu>>, <<"MODE", o.mode>>, <<"FLUSHABLE", o.flushable>>,
                <<"PRIORITY", o.priority>>, <<"MTU", o.mtu>>}
  BY DEF Wanted
<1>2. ~Refusal(TRUE).can /\ ~Refusal(FALSE).can
  BY DEF Refusal
<1>3. CASE p = <<"SEC_LEVEL", o.sec>>
  <2>1. type # "SCO" /\ o.sec # 0
    BY <1>1, <1>3 DEF Gets, ScoGets
  <2>2. SecSteps(o) \subseteq SetSteps(type, o)
    BY <2>1 DEF SetSteps
  <2>3. o.sec \in 1..3
    BY <1>2, <2>1, <2>2 DEF SecSteps
  <2>4. CASE OldKernel
    <3>1. Step([lm |-> lm_map(o.sec)]) \in SetSteps(type, o)
      BY <2>1, <2>2, <2>3, <2>4 DEF SecSteps
    <3> QED
      BY <1>3, <2>4, <3>1 DEF Step, Name
  <2>5. CASE ~OldKernel
    <3>1. Step([sec |-> o.sec]) \in SetSteps(type, o)
      BY <2>1, <2>2, <2>3, <2>5 DEF SecSteps
    <3> QED
      BY <1>3, <2>5, <3>1 DEF Step, Name
  <2> QED
    BY <2>4, <2>5
<1>4. CASE p = <<"MASTER", o.master>>
  <2>1. type # "SCO" /\ o.master # Unset
    BY <1>1, <1>4 DEF Gets, ScoGets
  <2>2. Step([master |-> o.master]) \in SetSteps(type, o)
    BY <2>1 DEF SetSteps, MasterSteps
  <2> QED
    BY <1>4, <2>2 DEF Step, Name
<1>5. CASE p \in {<<"IMTU", o.imtu>>, <<"OMTU", o.omtu>>, <<"MODE", o.mode>>}
  <2> DEFINE given == {n \in {"imtu", "omtu", "mode"} : o[n] # 0}
  <2>1. type = "L2CAP"
    BY <1>1, <1>5 DEF Gets, ScoGets, RfcommGets
  <2>2. MtuSteps(o) \subseteq SetSteps(type, o)
    BY <2>1 DEF SetSteps
  <2>3. Name(p[1]) \in given /\ (o.le => Name(p[1]) # "omtu")
    <3>1. CASE p = <<"IMTU", o.imtu>>
      BY <1>1, <3>1 DEF Name
    <3>2. CASE p = <<"OMTU", o.omtu>>
      <4>1. ~o.le
        BY <2>1, <3>2 DEF Dropped
      <4> QED
        BY <1>1, <3>2, <4>1 DEF Name
    <3>3. CASE p = <<"MODE", o.mode>>
      BY <1>1, <3>3 DEF Name
    <3> QED
      BY <1>5, <3>1, <3>2, <3>3
  <2>4. CASE ~o.le
    <3>1. Step(Pick(o, given)) \in SetSteps(type, o)
      BY <2>2, <2>3, <2>4 DEF MtuSteps
    <3> QED
      BY <2>3, <3>1 DEF Step, Pick
  <2>5. CASE o.le
    <3>1. o.imtu # 0
      BY <1>2, <2>2, <2>3, <2>5 DEF MtuSteps
    <3>2. /\ Step(Pick(o, {"imtu"})) \in SetSteps(type, o)
          /\ o.mode # 0 => Step(Pick(o, {"mode"})) \in SetSteps(type, o)
      BY <2>2, <2>3, <2>5, <3>1 DEF MtuSteps, OneStep
    <3>3. Name(p[1]) = "imtu" \/ (Name(p[1]) = "mode" /\ o.mode # 0)
      BY <2>3, <2>5
    <3> QED
      BY <3>2, <3>3 DEF Step, Pick
  <2> QED
    BY <2>4, <2>5 DEF Parsed
<1>6. CASE p \in {<<"FLUSHABLE", o.flushable>>, <<"PRIORITY", o.priority>>}
  <2>1. type = "L2CAP"
    BY <1>1, <1>6 DEF Gets, ScoGets, RfcommGets
  <2>2. /\ p[1] = "FLUSHABLE" => o.flushable # Unset
        /\ p[1] = "PRIORITY" => o.priority > 0
    BY <1>1, <1>6 DEF Parsed
  <2>3. /\ p[1] = "FLUSHABLE" => Step(Pick(o, {"flushable"})) \in SetSteps(type, o)
        /\ p[1] = "PRIORITY" => Step(Pick(o, {"priority"})) \in SetSteps(type, o)
    BY <2>1, <2>2 DEF SetSteps, OneStep
  <2> QED
    BY <1>6, <2>3 DEF Step, Pick, Name
<1>7. CASE p = <<"MTU", o.mtu>>
  <2>1. type = "SCO" /\ o.mtu # 0
    BY <1>1, <1>7 DEF Gets, L2capGets, RfcommGets
  <2>2. Step(Pick(o, {"mtu"})) \in SetSteps(type, o)
    BY <2>1 DEF SetSteps, OneStep
  <2> QED
    BY <1>7, <2>2 DEF Step, Pick, Name
<1> QED
  BY <1>1, <1>3, <1>4, <1>5, <1>6, <1>7

\* The options in force, one by one,
LEMMA AfterValue ==
    ASSUME NEW opt, NEW steps, NEW n, NEW k \in DOMAIN opt, k # "lm"
    PROVE  After(opt, steps, n)[k] =
               IF Latest(steps, n, k) = 0 THEN opt[k]
               ELSE steps[Latest(steps, n, k)].set[k]
  BY DEF After

\* and the flags, without and with the master flag that was set last.
FlagsBefore(opt, steps, n) ==
    IF Latest(steps, n, "lm") = 0 THEN opt.lm ELSE steps[Latest(steps, n, "lm")].set.lm

Flags(opt, steps, n) ==
    IF Latest(steps, n, "master") <= Latest(steps, n, "lm")
    THEN FlagsBefore(opt, steps, n)
    ELSE IF steps[Latest(steps, n, "master")].set.master = 1
         THEN FlagsBefore(opt, steps, n) \cup {"MASTER"}
         ELSE FlagsBefore(opt, steps, n) \ {"MASTER"}

LEMMA AfterFlags ==
    ASSUME NEW opt, NEW steps, NEW n, "lm" \in DOMAIN opt
    PROVE  After(opt, steps, n).lm = Flags(opt, steps, n)
  BY DEF After, Flags, FlagsBefore

\* The master flag says nothing of the security level.
LEMMA FlagsLevel ==
    ASSUME NEW n \in 1..3, NEW lm,
           lm \in {lm_map(n), lm_map(n) \cup {"MASTER"}, lm_map(n) \ {"MASTER"}}
    PROVE  get_lm(lm) = n
<1>1. CASE n = 1
  BY <1>1 DEF lm_map, get_lm
<1>2. CASE n = 2
  BY <1>2 DEF lm_map, get_lm
<1>3. CASE n = 3
  BY <1>3 DEF lm_map, get_lm
<1> QED
  BY <1>1, <1>2, <1>3

\* Setting the master flag is the last thing done to the flags, if the
\* security level is not to be set after it.
LEMMA MasterLast ==
    ASSUME NEW o, Parsed(o), NEW type \in {"L2CAP", "RFCOMM"}, o.master # Unset,
           ~(type = "L2CAP" /\ OldKernel /\ o.sec # 0),
           \A s \in SetSteps(type, o) : s.can
    PROVE  LET steps == set_steps(type, o)
               by(k) == Latest(steps, Len(steps), k)
           IN by("master") > by("lm") /\ steps[by("master")].set.master = o.master
<1> DEFINE steps == set_steps(type, o)
           S == SetSteps(type, o)
           m == Latest(steps, Len(steps), "master")
           l == Latest(steps, Len(steps), "lm")
<1>1. Lists(steps, S)
  BY SetStepsFacts
<1>2. Step([master |-> o.master]) \in S
  BY DEF SetSteps, MasterSteps
<1>3. m \in 1..Len(steps) /\ steps[m].set["master"] = o.master
  <2>1. "master" \in DOMAIN Step([master |-> o.master]).set
    BY DEF Step
  <2> HIDE DEF steps
  <2>2. m \in 1..Len(steps) /\ steps[m] \in S /\ "master" \in DOMAIN steps[m].set
    BY <1>1, <1>2, <2>1, LatestOne
  <2> QED
    BY <2>2, StepValues
<1>4. CASE ~OldKernel \/ o.sec = 0
  <2>1. \A s \in S : "lm" \notin DOMAIN s.set
    <3> SUFFICES ASSUME NEW s \in S, "lm" \in DOMAIN s.set
                 PROVE  FALSE
      OBVIOUS
    <3>1. OldKernel /\ o.sec \in 1..3
      BY StepValues
    <3> QED
      BY <1>4, <3>1
  <2>2. l = 0
    <3> HIDE DEF steps, S
    <3> QED
      BY <1>1, <2>1, LatestNone
  <2> HIDE DEF steps, m, l
  <2>3. m > l
    BY <1>3, <2>2
  <2> QED
    BY <1>3, <2>3 DEF steps, m, l
<1>5. CASE OldKernel /\ o.sec # 0
  <2>1. type = "RFCOMM"
    BY <1>5
  <2>2. o.sec \in 1..3
    <3>1. SecSteps(o) \subseteq S
      BY <2>1 DEF SetSteps
    <3>2. ~Refusal(TRUE).can
      BY DEF Refusal
    <3> QED
      BY <1>5, <3>1, <3>2 DEF SecSteps
  <2>3. steps = <<Step([lm |-> lm_map(o.sec)])>> \o <<Step([master |-> o.master])>>
    BY <1>5, <2>1, <2>2 DEF set_steps, rfcomm_set, When, set_sec_level, set_master
  <2>4. Len(steps) = 2 /\ steps[2] = Step([master |-> o.master])
    BY <2>3
  <2>5. "master" \in DOMAIN steps[2].set /\ "lm" \notin DOMAIN steps[2].set
    BY <2>4 DEF Step
  <2> HIDE DEF steps
  <2>6. \A i \in 1..2 : "master" \in DOMAIN steps[i].set => i <= m
    BY <2>4, LatestFacts
  <2>7. l \in 0..2 /\ (l # 0 => "lm" \in DOMAIN steps[l].set)
    BY <2>4, LatestFacts
  <2>8. l # 2
    BY <2>5, <2>7
  <2> HIDE DEF m, l
  <2>9. m > l
    BY <1>3, <2>4, <2>5, <2>6, <2>7, <2>8
  <2> QED
    BY <1>3, <2>9 DEF steps, m, l
<1> QED
  BY <1>4, <1>5

\* What is read of each option.
LEMMA ValueFacts ==
    ASSUME NEW s
    PROVE  /\ s.type = "SCO" => /\ Value(s, "MTU") = s.opt.mtu
                                  /\ Value(s, "IMTU") = s.opt.mtu
                                  /\ Value(s, "OMTU") = s.opt.mtu
           /\ s.type # "SCO" =>
                  /\ OldKernel => Value(s, "SEC_LEVEL") = get_lm(s.opt.lm)
                  /\ ~OldKernel => Value(s, "SEC_LEVEL") = s.opt.sec
                  /\ Value(s, "MASTER") = IF "MASTER" \in s.opt.lm THEN 1 ELSE 0
                  /\ Value(s, "IMTU") = s.opt.imtu
                  /\ Value(s, "OMTU") = s.opt.omtu
                  /\ Value(s, "MODE") = s.opt.mode
                  /\ Value(s, "FLUSHABLE") = s.opt.flushable
                  /\ Value(s, "PRIORITY") = s.opt.priority
<1>1. ASSUME s.type # "SCO", OldKernel PROVE Value(s, "SEC_LEVEL") = get_lm(s.opt.lm)
  BY <1>1 DEF Value
<1>2. ASSUME s.type # "SCO", ~OldKernel PROVE Value(s, "SEC_LEVEL") = s.opt.sec
  BY <1>2 DEF Value
<1>3. ASSUME s.type # "SCO"
      PROVE  Value(s, "MASTER") = IF "MASTER" \in s.opt.lm THEN 1 ELSE 0
  BY <1>3 DEF Value
<1>4. ASSUME s.type = "SCO"
      PROVE  /\ Value(s, "MTU") = s.opt.mtu
             /\ Value(s, "IMTU") = s.opt.mtu
             /\ Value(s, "OMTU") = s.opt.mtu
  BY <1>4 DEF Value
<1>5. ASSUME s.type # "SCO"
      PROVE  /\ Value(s, "IMTU") = s.opt.imtu
             /\ Value(s, "OMTU") = s.opt.omtu
             /\ Value(s, "MODE") = s.opt.mode
             /\ Value(s, "FLUSHABLE") = s.opt.flushable
             /\ Value(s, "PRIORITY") = s.opt.priority
  BY <1>5 DEF Value
<1> QED
  BY <1>1, <1>2, <1>3, <1>4, <1>5

\* Each option that is wanted is read back, but for those that are dropped.
LEMMA WantedInForce ==
    ASSUME NEW o, Parsed(o), NEW s, s.type \in {"L2CAP", "RFCOMM", "SCO"},
           NEW opt, DOMAIN opt = DOMAIN NewOpt,
           LET steps == set_steps(s.type, o) IN
               May(steps, Len(steps)) /\ s.opt = After(opt, steps, Len(steps)),
           NEW p, Wanted(o, s.type, p), p[1] \notin Dropped(o, s.type)
    PROVE  Value(s, p[1]) = p[2]
<1> DEFINE steps == set_steps(s.type, o)
           S == SetSteps(s.type, o)
           k == Name(p[1])
           by(n) == Latest(steps, Len(steps), n)
<1>1. Lists(steps, S) /\ \A x \in S : x.can
  BY SetStepsFacts, AllCan
<1>2. PICK x \in S : k \in DOMAIN x.set
  BY <1>1, HasStep
<1>3. /\ p[1] \in Gets(s.type) \ (IF s.type = "SCO" THEN {"IMTU", "OMTU"} ELSE {})
      /\ p[2] # (IF p[1] \in {"MASTER", "FLUSHABLE"} THEN Unset ELSE 0)
      /\ p \in {<<"SEC_LEVEL", o.sec>>, <<"MASTER", o.master>>, <<"IMTU", o.imtu>>,
                <<"OMTU", o.omtu>>, <<"MODE", o.mode>>, <<"FLUSHABLE", o.flushable>>,
                <<"PRIORITY", o.priority>>, <<"MTU", o.mtu>>}
  BY DEF Wanted
<1>4. ASSUME k \notin {"lm", "master"}, k \in DOMAIN NewOpt
      PROVE  s.opt[k] = o[k]
  <2>1. k \in DOMAIN opt
    BY <1>4
  <2>2. by(k) \in 1..Len(steps) /\ steps[by(k)].set[k] = o[k]
    <3> HIDE DEF steps, k
    <3>1. by(k) \in 1..Len(steps) /\ steps[by(k)] \in S /\ k \in DOMAIN steps[by(k)].set
      BY <1>1, <1>2, LatestOne
    <3> QED
      BY <1>4, <3>1, StepValues
  <2>3. Len(steps) \in Nat
    BY <1>1 DEF Lists
  <2>4. "lm" \in DOMAIN opt
    BY DEF NewOpt
  <2>5. s.opt = After(opt, steps, Len(steps))
    OBVIOUS
  <2> HIDE DEF steps, k
  <2>6. After(opt, steps, Len(steps))[k] = IF by(k) = 0 THEN opt[k] ELSE steps[by(k)].set[k]
    BY <1>4, <2>1, AfterValue
  <2> QED
    BY <2>2, <2>3, <2>5, <2>6
<1>5. "lm" \in DOMAIN opt
  BY DEF NewOpt
<1>6. s.opt.lm = Flags(opt, steps, Len(steps))
  BY <1>5, AfterFlags
<1>7. CASE p = <<"SEC_LEVEL", o.sec>>
  <2>1. p[1] = "SEC_LEVEL" /\ p[2] = o.sec /\ s.type # "SCO"
    BY <1>3, <1>7 DEF Gets, ScoGets
  <2>2. CASE OldKernel
    <3>1. k = "lm"
      BY <2>1, <2>2 DEF Name
    <3>2. by("lm") \in 1..Len(steps) /\ steps[by("lm")] \in S
          /\ "lm" \in DOMAIN steps[by("lm")].set
      <4>1. x \in S /\ "lm" \in DOMAIN x.set
        BY <1>2, <3>1
      <4> HIDE DEF steps
      <4> QED
        BY <1>1, <4>1, LatestOne
    <3>3. o.sec \in 1..3 /\ steps[by("lm")].set["lm"] = lm_map(o.sec)
      BY <3>2, StepValues
    <3>4. Len(steps) \in Nat
      BY <1>1 DEF Lists
    <3> HIDE DEF steps
    <3>5. by("lm") # 0 /\ steps[by("lm")].set.lm = lm_map(o.sec)
      BY <3>2, <3>3, <3>4
    <3>6. s.opt.lm \in {lm_map(o.sec), lm_map(o.sec) \cup {"MASTER"},
                        lm_map(o.sec) \ {"MASTER"}}
      BY <1>6, <3>5 DEF Flags, FlagsBefore
    <3>7. get_lm(s.opt.lm) = o.sec
      BY <3>3, <3>6, FlagsLevel
    <3> QED
      BY <2>1, <2>2, <3>7, ValueFacts
  <2>3. CASE ~OldKernel
    <3>1. k = "sec"
      BY <2>1, <2>3 DEF Name
    <3>2. s.opt.sec = o.sec
      BY <1>4, <3>1 DEF NewOpt
    <3> QED
      BY <2>1, <2>3, <3>2, ValueFacts
  <2> QED
    BY <2>2, <2>3
<1>8. CASE p = <<"MASTER", o.master>>
  <2>1. p[1] = "MASTER" /\ p[2] = o.master /\ o.master \in {0, 1}
    BY <1>3, <1>8 DEF Parsed
  <2>2. s.type \in {"L2CAP", "RFCOMM"}
    BY <1>3, <2>1 DEF Gets, ScoGets
  <2>3. ~(s.type = "L2CAP" /\ OldKernel /\ o.sec # 0)
    BY <2>1 DEF Dropped
  <2>4. by("master") > by("lm") /\ steps[by("master")].set.master = o.master
    BY <1>1, <1>3, <2>1, <2>2, <2>3, MasterLast
  <2>5. by("master") \in Int /\ by("lm") \in Int
    <3>1. Len(steps) \in Nat
      BY <1>1 DEF Lists
    <3> HIDE DEF steps
    <3>2. by("master") \in 0..Len(steps)
      BY <3>1, LatestFacts
    <3>3. by("lm") \in 0..Len(steps)
      BY <3>1, LatestFacts
    <3> QED
      BY <3>1, <3>2, <3>3
  <2> HIDE DEF steps
  <2>6. "MASTER" \in s.opt.lm <=> o.master = 1
    BY <1>6, <2>4, <2>5 DEF Flags
  <2>7. Value(s, "MASTER") = IF "MASTER" \in s.opt.lm THEN 1 ELSE 0
    BY <2>2, ValueFacts
  <2> QED
    BY <2>1, <2>6, <2>7
<1>9. CASE p = <<"MTU", o.mtu>>
  <2>1. p[1] = "MTU" /\ p[2] = o.mtu /\ k = "mtu"
    BY <1>9 DEF Name
  <2>2. s.type = "SCO"
    BY <1>3, <2>1 DEF Gets, L2capGets, RfcommGets
  <2>3. s.opt.mtu = o.mtu
    BY <1>4, <2>1 DEF NewOpt
  <2> QED
    BY <2>1, <2>2, <2>3, ValueFacts
<1>10. CASE p \in {<<"IMTU", o.imtu>>, <<"OMTU", o.omtu>>, <<"MODE", o.mode>>,
                   <<"FLUSHABLE", o.flushable>>, <<"PRIORITY", o.priority>>}
  <2>1. s.type # "SCO"
    BY <1>3, <1>10 DEF Gets, ScoGets
  <2>2. CASE p = <<"IMTU", o.imtu>>
    <3>1. p[1] = "IMTU" /\ p[2] = o.imtu /\ k = "imtu"
      BY <2>2 DEF Name
    <3>2. s.opt.imtu = o.imtu
      BY <1>4, <3>1 DEF NewOpt
    <3> QED
      BY <2>1, <3>1, <3>2, ValueFacts
  <2>3. CASE p = <<"OMTU", o.omtu>>
    <3>1. p[1] = "OMTU" /\ p[2] = o.omtu /\ k = "omtu"
      BY <2>3 DEF Name
    <3>2. s.opt.omtu = o.omtu
      BY <1>4, <3>1 DEF NewOpt
    <3> QED
      BY <2>1, <3>1, <3>2, ValueFacts
  <2>4. CASE p = <<"MODE", o.mode>>
    <3>1. p[1] = "MODE" /\ p[2] = o.mode /\ k = "mode"
      BY <2>4 DEF Name
    <3>2. s.opt.mode = o.mode
      BY <1>4, <3>1 DEF NewOpt
    <3> QED
      BY <2>1, <3>1, <3>2, ValueFacts
  <2>5. CASE p = <<"FLUSHABLE", o.flushable>>
    <3>1. p[1] = "FLUSHABLE" /\ p[2] = o.flushable /\ k = "flushable"
      BY <2>5 DEF Name
    <3>2. s.opt.flushable = o.flushable
      BY <1>4, <3>1 DEF NewOpt
    <3> QED
      BY <2>1, <3>1, <3>2, ValueFacts
  <2>6. CASE p = <<"PRIORITY", o.priority>>
    <3>1. p[1] = "PRIORITY" /\ p[2] = o.priority /\ k = "priority"
      BY <2>6 DEF Name
    <3>2. s.opt.priority = o.priority
      BY <1>4, <3>1 DEF NewOpt
    <3> QED
      BY <2>1, <3>1, <3>2, ValueFacts
  <2> QED
    BY <1>10, <2>2, <2>3, <2>4, <2>5, <2>6
<1> QED
  BY <1>3, <1>7, <1>8, <1>9, <1>10

\* Each option that was asked for is read back, but for those that are dropped.
LEMMA InForce ==
    ASSUME NEW o, Parsed(o), NEW s, s.type \in {"L2CAP", "RFCOMM", "SCO"},
           NEW opt, DOMAIN opt = DOMAIN NewOpt,
           LET steps == set_steps(s.type, o) IN
               May(steps, Len(steps)) /\ s.opt = After(opt, steps, Len(steps)),
           NEW p \in Asked(o, s.type), p[1] \notin Dropped(o, s.type)
    PROVE  Value(s, p[1]) = p[2]
<1>1. CASE Wanted(o, s.type, p)
  BY <1>1, WantedInForce
<1>2. CASE /\ s.type = "SCO" /\ o.mtu # 0
           /\ p \in {<<"IMTU", o.mtu>>, <<"OMTU", o.mtu>>}
  <2> DEFINE q == <<"MTU", o.mtu>>
  <2>1. Wanted(o, s.type, q)
    BY <1>2 DEF Wanted, Gets, ScoGets
  <2>2. q[1] \notin Dropped(o, s.type)
    BY <1>2 DEF Dropped, OptValues
  <2>3. Value(s, q[1]) = q[2]
    BY <2>1, <2>2, WantedInForce
  <2>4. Value(s, "MTU") = s.opt.mtu /\ Value(s, p[1]) = s.opt.mtu /\ p[2] = o.mtu
    BY <1>2, ValueFacts
  <2> QED
    BY <2>3, <2>4
<1> QED
  BY <1>1, <1>2, AskedWanted

-----------------------------------------------------------------------------
(* Every call puts in force what it was asked for *)

\* The kernel keeps every option of every socket, and an open one is of one of
\* the three kinds.
KindOK ==
    \A c \in Conn : /\ DOMAIN sock[c].opt = DOMAIN NewOpt
                    /\ Open(c) => sock[c].type \in {"L2CAP", "RFCOMM", "SCO"}

\* A list of steps forgets no option.
LEMMA AfterDomain ==
    ASSUME NEW opt, NEW steps, NEW n
    PROVE  DOMAIN After(opt, steps, n) = DOMAIN opt
  BY DEF After

\* Nothing is asked for by default.
LEMMA NothingAsked ==
    ASSUME NEW type
    PROVE  Asked(Defaults, type) = {}
  BY DEF Asked, Defaults, Unset

\* A callback, the kernel and the client's own steps ask for nothing; nor do
\* bt_io_get and bt_io_accept.
LEMMA AskedNothing ==
    ASSUME call'.asked = Defaults,
           ~call'.ok /\ ~call'.said => call'.get = "KEY_SIZE"
    PROVE  AsAsked'
  BY NothingAsked DEF AsAsked

\* A call that set options, of socket c, and what is in force then; or one that
\* failed, at a step or before.
LEMMA AskedSteps ==
    ASSUME NEW o, Parsed(o), NEW c, NEW opt, DOMAIN opt = DOMAIN NewOpt,
           NEW type \in {"L2CAP", "RFCOMM", "SCO"},
           NEW n \in 0..Len(set_steps(type, o)), May(set_steps(type, o), n),
           call'.asked = o, call'.conn \in {c, None},
           call'.ok => /\ n = Len(set_steps(type, o))
                       /\ sock'[c].type = type
                       /\ sock'[c].opt = After(opt, set_steps(type, o), n),
           ~call'.ok => (call'.said <=> Says(set_steps(type, o), n))
    PROVE  AsAsked'
<1>1. ASSUME call'.ok, call'.conn # None, NEW p \in Asked(o, sock'[call'.conn].type),
             p[1] \notin Dropped(o, sock'[call'.conn].type)
      PROVE  Value(sock'[call'.conn], p[1]) = p[2]
  <2>1. PICK s : s = sock'[c]
    OBVIOUS
  <2>2. /\ s.type = type /\ call'.conn = c
        /\ May(set_steps(type, o), Len(set_steps(type, o)))
        /\ s.opt = After(opt, set_steps(type, o), Len(set_steps(type, o)))
    BY <1>1, <2>1
  <2>3. p \in Asked(o, s.type) /\ p[1] \notin Dropped(o, s.type)
    BY <1>1, <2>1, <2>2
  <2>4. Value(s, p[1]) = p[2]
    BY <2>2, <2>3, InForce
  <2> QED
    BY <2>1, <2>2, <2>4
<1>2. ASSUME ~call'.ok, ~call'.said
      PROVE  o.le /\ o.imtu = 0
  BY <1>2, SaysFacts
<1> QED
  BY <1>1, <1>2 DEF AsAsked

\* bt_io_connect and bt_io_listen.
LEMMA MakeAsked ==
    ASSUME BInv, KindOK, NEW list \in OptLists, NEW server \in BOOLEAN,
           NEW w \in {"connect", "server"}, NEW link \in {"connecting", "listening"},
           Make(list, server, w, link)
    PROVE  KindOK' /\ AsAsked'
<1> DEFINE o == Options[list]
           c == nc + 1
           steps == set_steps(o.type, o)
<1>1. Parsed(o)
  BY OptsAssumption DEF Parsed
<1>2. c \in Conn /\ c # None
  BY ConnAssumption DEF Make, Conn, BInv, TypeOK, None
<1>3. CASE /\ Returns(FALSE, TRUE, o, None, "none")
           /\ UNCHANGED <<nc, chan, watch, kernel, reused>>
  <2>1. KindOK'
    BY <1>3 DEF KindOK, Open, kernel
  <2>2. AsAsked'
    BY <1>3 DEF AsAsked, Returns
  <2> QED
    BY <2>1, <2>2
<1>4. ASSUME NEW n \in 0..Len(steps), May(steps, n),
             Returns(FALSE, Says(steps, n), o, None, "none"),
             Abandon(c), UNCHANGED <<nc, chan, watch, sock, reused>>
      PROVE  KindOK' /\ AsAsked'
  <2>1. KindOK'
    BY <1>4 DEF KindOK, Open, Abandon
  <2>2. /\ call'.asked = o /\ call'.conn = None /\ ~call'.ok
        /\ call'.said <=> Says(steps, n)
    BY <1>4 DEF Returns
  <2>3. o.type \in {"L2CAP", "RFCOMM", "SCO"} /\ DOMAIN NewOpt = DOMAIN NewOpt
    BY <1>1 DEF Parsed
  <2> HIDE DEF o, c
  <2>4. AsAsked'
    BY <1>1, <1>4, <2>2, <2>3, AskedSteps
  <2> QED
    BY <2>1, <2>4
<1>5. ASSUME May(steps, Len(steps)), Returns(TRUE, FALSE, o, c, "none"),
             NEW s, s.type = o.type, s.opt = After(NewOpt, steps, Len(steps)),
             SockOK(s), NewChannel(c, TRUE, w, s)
      PROVE  KindOK' /\ AsAsked'
  <2>1. PICK g \in Fd : MadeAt(c, w, s, g)
    BY <1>2, <1>5, NewChannelFacts DEF BInv
  <2>2. /\ owner' = [owner EXCEPT ![g] = c]
        /\ sock'[c] = s /\ \A d \in Conn : d # c => sock'[d] = sock[d]
        /\ \A d \in Conn : d # c => chan'[d] = chan[d]
    BY <2>1 DEF MadeAt
  <2>3. /\ o.type \in {"L2CAP", "RFCOMM", "SCO"}
        /\ DOMAIN s.opt = DOMAIN NewOpt
    BY <1>1, <1>5, AfterDomain DEF Parsed
  <2>4. ASSUME NEW d \in Conn, d # c PROVE Open(d)' => Open(d)
    BY <2>2, <2>4 DEF Open, BInv, TypeOK
  <2>5. KindOK'
    BY <1>5, <2>2, <2>3, <2>4 DEF KindOK
  <2>6. Len(steps) \in 0..Len(steps)
    BY <2>3, SetStepsFacts DEF Lists
  <2>7. call'.asked = o /\ call'.conn = c /\ call'.ok
    BY <1>5 DEF Returns
  <2> HIDE DEF o, c
  <2>8. AsAsked'
    BY <1>1, <1>5, <2>2, <2>3, <2>6, <2>7, AskedSteps
  <2> QED
    BY <2>5, <2>8
<1>6. ASSUME NEW le, NEW src, NEW dst
      PROVE  SockOK([type |-> o.type, le |-> le, link |-> link, err |-> FALSE,
                     opt |-> After(NewOpt, steps, Len(steps)),
                     src |-> src, dst |-> dst])
  BY DEF SockOK, Fields, Link
<1> QED
  BY <1>3, <1>4, <1>5, <1>6 DEF Make

\* bt_io_set, on a socket of the kind that the kernel knows.
LEMMA SetAsked ==
    ASSUME BInv, KindOK, NEW c \in Conn, NEW list \in OptLists, bt_io_set(c, list)
    PROVE  KindOK' /\ AsAsked'
<1> DEFINE o == Options[list]
           steps == set_steps(sock[c].type, o)
<1>1. Parsed(o)
  BY OptsAssumption DEF Parsed
<1>2. /\ sock[c].type \in {"L2CAP", "RFCOMM", "SCO"}
      /\ DOMAIN sock[c].opt = DOMAIN NewOpt
  BY DEF bt_io_set, KindOK
<1>3. UNCHANGED <<chan, owner>>
  BY DEF bt_io_set
<1>4. CASE Returns(FALSE, TRUE, o, c, "none") /\ UNCHANGED sock
  <2>1. KindOK'
    BY <1>3, <1>4 DEF KindOK, Open
  <2>2. AsAsked'
    BY <1>4 DEF AsAsked, Returns
  <2> QED
    BY <2>1, <2>2
<1>5. ASSUME NEW n \in 0..Len(steps), May(steps, n),
             Returns(n = Len(steps), Says(steps, n), o, c, "none"),
             sock' = [sock EXCEPT ![c].opt = After(@, steps, n)]
      PROVE  KindOK' /\ AsAsked'
  <2> DEFINE opt == After(sock[c].opt, steps, n)
  <2>1. DOMAIN opt = DOMAIN NewOpt
    BY <1>2, AfterDomain
  <2>2. sock' = [sock EXCEPT ![c].opt = opt]
    BY <1>5
  <2> HIDE DEF opt
  <2>3. DOMAIN sock = Conn /\ SockOK(sock[c])
    BY DEF BInv, TypeOK
  <2>4. /\ sock'[c].type = sock[c].type /\ sock'[c].opt = opt
        /\ \A d \in Conn : d # c => sock'[d] = sock[d]
    BY <2>2, <2>3 DEF SockOK, Fields
  <2>5. KindOK'
    BY <1>2, <1>3, <2>1, <2>4 DEF KindOK, Open
  <2>6. /\ call'.asked = o /\ call'.conn = c /\ (call'.ok <=> n = Len(steps))
        /\ call'.said <=> Says(steps, n)
    BY <1>5 DEF Returns
  <2>7. sock'[c].opt = After(sock[c].opt, steps, n)
    BY <2>4 DEF opt
  <2>8. PICK type, old : type = sock[c].type /\ old = sock[c].opt
    OBVIOUS
  <2> HIDE DEF o
  <2>9. /\ n \in 0..Len(set_steps(type, o)) /\ May(set_steps(type, o), n)
        /\ type \in {"L2CAP", "RFCOMM", "SCO"} /\ DOMAIN old = DOMAIN NewOpt
        /\ call'.conn \in {c, None}
    BY <1>2, <1>5, <2>6, <2>8
  <2>10. call'.ok => /\ n = Len(set_steps(type, o))
                     /\ sock'[c].type = type
                     /\ sock'[c].opt = After(old, set_steps(type, o), n)
    BY <2>4, <2>6, <2>7, <2>8
  <2>11. ~call'.ok => (call'.said <=> Says(set_steps(type, o), n))
    BY <2>6, <2>8
  <2>12. AsAsked'
    BY <1>1, <2>6, <2>9, <2>10, <2>11, AskedSteps
  <2> QED
    BY <2>5, <2>12
<1> QED
  BY <1>4, <1>5 DEF bt_io_set

\* The other steps open no socket and leave its kind and options, or close it.
LEMMA KindKept ==
    ASSUME KindOK,
           \A d \in Conn :
               /\ Open(d)' => Open(d) /\ sock'[d].type = sock[d].type
               /\ sock'[d].opt \in {sock[d].opt, NewOpt}
    PROVE  KindOK'
  BY DEF KindOK

\* The end of a watch may close its socket.
LEMMA EndWatchKind ==
    ASSUME BInv, KindOK, NEW c \in Conn, NEW ss, DOMAIN ss = Conn,
           \A d \in Conn : ss[d].type = sock[d].type /\ ss[d].opt = sock[d].opt,
           EndWatch(c, ss)
    PROVE  KindOK'
<1>1. chan[c].fd \in Fd /\ None # c /\ DOMAIN chan = Conn
      /\ DOMAIN owner = Fd /\ \A d \in Conn : chan[d].fd \in Fd /\ None # d
  BY DEF BInv, TypeOK, None, Conn
<1>2. CASE Close(c, ss) /\ chan' = [chan EXCEPT ![c].auto = FALSE]
  <2>1. \A d \in Conn : chan'[d].fd = chan[d].fd
    BY <1>2 DEF BInv, TypeOK
  <2>2. /\ owner' = [owner EXCEPT ![chan[c].fd] = None]
        /\ sock' = [ss EXCEPT ![c] = NoSock]
    BY <1>2 DEF Close
  <2>3. ASSUME NEW d \in Conn
        PROVE  /\ Open(d)' => Open(d) /\ d # c
               /\ d # c => sock'[d] = ss[d]
    BY <1>1, <2>1, <2>2 DEF Open
  <2>4. sock'[c] = NoSock /\ NoSock.opt = NewOpt
    BY <2>2 DEF NoSock
  <2> QED
    BY <2>3, <2>4, KindKept
<1>3. CASE sock' = ss /\ UNCHANGED <<owner, chan>>
  BY <1>3, KindKept DEF Open
<1> QED
  BY <1>2, <1>3 DEF EndWatch

\* The client closes a channel or gives it back.
LEMMA ReleaseKind ==
    ASSUME BInv, KindOK, NEW c \in Conn, Shutdown(c) \/ Unref(c)
    PROVE  KindOK'
<1>1. chan[c].fd \in Fd /\ \A d \in Conn : chan[d].fd \in Fd /\ None # d
  BY DEF BInv, TypeOK, None, Conn
<1>2. DOMAIN chan = Conn /\ DOMAIN owner = Fd /\ DOMAIN sock = Conn
  BY DEF BInv, TypeOK
<1>3. \A d \in Conn : chan'[d].fd = chan[d].fd
  <2>1. CASE chan' = [chan EXCEPT ![c].auto = FALSE]
    BY <2>1 DEF BInv, TypeOK
  <2>2. CASE chan' = [chan EXCEPT ![c].held = FALSE, ![c].auto = FALSE]
    <3>1. PICK mid : mid = [chan EXCEPT ![c].held = FALSE]
      OBVIOUS
    <3>2. chan' = [mid EXCEPT ![c].auto = FALSE]
      BY <2>2, <3>1
    <3>3. DOMAIN mid = Conn /\ \A d \in Conn : mid[d].fd = chan[d].fd
      BY <1>2, <3>1 DEF BInv, TypeOK
    <3>4. "fd" \in DOMAIN mid[c]
      BY <3>1 DEF BInv, TypeOK
    <3> QED
      BY <3>2, <3>3, <3>4
  <2>3. CASE chan' = [chan EXCEPT ![c].held = FALSE]
    BY <2>3 DEF BInv, TypeOK
  <2> QED
    BY <2>1, <2>2, <2>3 DEF Shutdown, Unref
<1>4. CASE Close(c, sock)
  <2>1. /\ owner' = [owner EXCEPT ![chan[c].fd] = None]
        /\ sock' = [sock EXCEPT ![c] = NoSock]
    BY <1>4 DEF Close
  <2>2. ASSUME NEW d \in Conn
        PROVE  /\ Open(d)' => Open(d) /\ d # c
               /\ d # c => sock'[d] = sock[d]
    BY <1>1, <1>2, <1>3, <2>1 DEF Open
  <2>3. sock'[c] = NoSock /\ NoSock.opt = NewOpt
    BY <1>2, <2>1 DEF NoSock
  <2> QED
    BY <2>2, <2>3, KindKept
<1>5. CASE UNCHANGED kernel
  <2>1. UNCHANGED <<owner, sock>>
    BY <1>5 DEF kernel
  <2> QED
    BY <1>3, <2>1, KindKept DEF Open
<1> QED
  BY <1>4, <1>5 DEF Shutdown, Unref

\* connect_cb and accept_cb.
LEMMA ReportKind ==
    ASSUME BInv, KindOK, NEW c \in Conn, Report(c)
    PROVE  KindOK'
<1>0. DOMAIN sock = Conn
  BY DEF BInv, TypeOK
<1>1. CASE EndWatch(c, sock)
  BY <1>0, <1>1, EndWatchKind
<1>2. ASSUME NEW s \in Conn, EndWatch(c, [sock EXCEPT ![s].err = FALSE])
      PROVE  KindOK'
  <2> DEFINE ss == [sock EXCEPT ![s].err = FALSE]
  <2>1. SockOK(sock[s])
    BY DEF BInv, TypeOK
  <2>2. /\ DOMAIN ss = Conn
        /\ \A d \in Conn : ss[d].type = sock[d].type /\ ss[d].opt = sock[d].opt
    BY <1>0, <2>1 DEF SockOK, Fields
  <2> HIDE DEF ss
  <2> QED
    BY <1>2, <2>2, EndWatchKind DEF ss
<1>3. owner[chan[c].fd] \in Conn \cup {None}
  BY DEF BInv, TypeOK
<1> QED
  BY <1>1, <1>2, <1>3 DEF Report

\* The socket of a new connection is of the server's kind.
LEMMA ServerKind ==
    ASSUME BInv, KindOK, NEW c \in Conn, server_cb(c)
    PROVE  KindOK'
<1>1. PICK n \in Conn : n = nc + 1
  BY ConnAssumption DEF server_cb, Conn, BInv, TypeOK
<1>2. PICK link \in {"up", "deferred"} :
          NewChannel(n, TRUE, "none", [sock[c] EXCEPT !.link = link])
  BY <1>1 DEF server_cb
<1> DEFINE s == [sock[c] EXCEPT !.link = link]
<1>3. SockOK(sock[c]) /\ Open(c)
  BY DEF BInv, TypeOK, server_cb
<1>4. SockOK(s) /\ s.type = sock[c].type /\ s.opt = sock[c].opt
  BY <1>3 DEF SockOK, Fields, Link
<1>5. NewChannel(n, TRUE, "none", s)
  BY <1>2
<1> HIDE DEF s
<1>6. PICK g \in Fd : MadeAt(n, "none", s, g)
  BY <1>1, <1>4, <1>5, NewChannelFacts DEF BInv
<1>7. /\ owner' = [owner EXCEPT ![g] = n]
      /\ sock'[n] = s /\ \A d \in Conn : d # n => sock'[d] = sock[d]
      /\ \A d \in Conn : d # n => chan'[d] = chan[d]
  BY <1>6 DEF MadeAt
<1>8. ASSUME NEW d \in Conn, d # n PROVE Open(d)' => Open(d)
  BY <1>7, <1>8 DEF Open, BInv, TypeOK
<1>9. /\ s.type \in {"L2CAP", "RFCOMM", "SCO"} /\ DOMAIN s.opt = DOMAIN NewOpt
  BY <1>3, <1>4 DEF KindOK
<1> QED
  BY <1>7, <1>8, <1>9 DEF KindOK

\* A step that changes the link of one socket only.
LEMMA LinkKind ==
    ASSUME BInv, KindOK, NEW c \in Conn, UNCHANGED <<chan, owner>>,
           \/ UNCHANGED sock
           \/ \E l, e : sock' = [sock EXCEPT ![c].link = l, ![c].err = e]
           \/ \E l : sock' = [sock EXCEPT ![c].link = l]
    PROVE  KindOK'
<1>1. DOMAIN sock = Conn /\ SockOK(sock[c])
  BY DEF BInv, TypeOK
<1>2. \A d \in Conn : sock'[d].type = sock[d].type /\ sock'[d].opt = sock[d].opt
  <2>1. CASE UNCHANGED sock
    BY <2>1
  <2>2. ASSUME NEW l, NEW e, sock' = [sock EXCEPT ![c].link = l, ![c].err = e]
        PROVE  sock'[c].type = sock[c].type /\ sock'[c].opt = sock[c].opt
               /\ \A d \in Conn : d # c => sock'[d] = sock[d]
    <3>1. sock' = [sock EXCEPT ![c] = [sock[c] EXCEPT !.link = l, !.err = e]]
      BY <2>2
    <3> QED
      BY <1>1, <3>1 DEF SockOK, Fields
  <2>3. ASSUME NEW l, sock' = [sock EXCEPT ![c].link = l]
        PROVE  sock'[c].type = sock[c].type /\ sock'[c].opt = sock[c].opt
               /\ \A d \in Conn : d # c => sock'[d] = sock[d]
    BY <1>1, <2>3 DEF SockOK, Fields
  <2> QED
    BY <2>1, <2>2, <2>3
<1> QED
  BY <1>2, KindKept DEF Open

\* Steps that return nothing to the client.
LEMMA NoCallAsked ==
    ASSUME NoCall
    PROVE  AsAsked'
  BY AskedNothing DEF NoCall, Returns

LEMMA AskedStep ==
    ASSUME BInv, KindOK, Next
    PROVE  KindOK' /\ AsAsked'
<1>1. ASSUME NEW list \in OptLists, bt_io_connect(list) PROVE KindOK' /\ AsAsked'
  BY <1>1, MakeAsked DEF bt_io_connect
<1>2. ASSUME NEW list \in OptLists, NEW conf \in BOOLEAN, bt_io_listen(list, conf)
      PROVE  KindOK' /\ AsAsked'
  BY <1>2, MakeAsked DEF bt_io_listen
<1>3. ASSUME NEW list \in OptLists, NEW c \in Conn, bt_io_set(c, list)
      PROVE  KindOK' /\ AsAsked'
  BY <1>3, SetAsked
<1>4. ASSUME NEW c \in Conn, NEW k \in GetOpts, bt_io_get(c, k)
      PROVE  KindOK' /\ AsAsked'
  <2>1. KindOK'
    BY <1>4 DEF bt_io_get, kernel, KindOK, Open
  <2>2. \/ Returns(TRUE, FALSE, Defaults, c, k)
        \/ Returns(FALSE, k # "KEY_SIZE", Defaults, c, k)
        \/ Returns(FALSE, TRUE, Defaults, c, k)
    BY <1>4 DEF bt_io_get
  <2>3. /\ call'.asked = Defaults /\ call'.get = k
        /\ call'.ok \/ call'.said \/ k = "KEY_SIZE"
    <3>1. CASE Returns(TRUE, FALSE, Defaults, c, k) \/ Returns(FALSE, TRUE, Defaults, c, k)
      BY <3>1 DEF Returns
    <3>2. CASE Returns(FALSE, k # "KEY_SIZE", Defaults, c, k)
      <4>1. /\ call'.asked = Defaults /\ call'.get = k
            /\ call'.said = (k # "KEY_SIZE")
        BY <3>2 DEF Returns
      <4>2. CASE k = "KEY_SIZE"
        BY <4>1, <4>2
      <4>3. CASE k # "KEY_SIZE"
        <5>1. (k # "KEY_SIZE") = TRUE
          BY <4>3
        <5>2. call'.said = TRUE
          BY <4>1, <5>1
        <5> QED
          BY <4>1, <5>2
      <4> QED
        BY <4>2, <4>3
    <3> QED
      BY <2>2, <3>1, <3>2
  <2>4. AsAsked'
    BY <2>3, AskedNothing
  <2> QED
    BY <2>1, <2>4
<1>5. ASSUME NEW c \in Conn, bt_io_accept(c) PROVE KindOK' /\ AsAsked'
  <2>1. KindOK'
    BY <1>5, LinkKind DEF bt_io_accept
  <2>2. AsAsked'
    BY <1>5, AskedNothing DEF bt_io_accept, Returns
  <2> QED
    BY <2>1, <2>2
<1>6. ASSUME NEW c \in Conn, connect_cb(c) \/ accept_cb(c)
      PROVE  KindOK' /\ AsAsked'
  BY <1>6, ReportKind, NoCallAsked DEF connect_cb, accept_cb
<1>7. ASSUME NEW c \in Conn, server_cb(c) PROVE KindOK' /\ AsAsked'
  BY <1>7, ServerKind, NoCallAsked DEF server_cb
<1>8. ASSUME NEW c \in Conn, server_cb_end(c) PROVE KindOK' /\ AsAsked'
  <2>1. EndWatch(c, sock) /\ NoCall /\ DOMAIN sock = Conn
    BY <1>8 DEF server_cb_end, BInv, TypeOK
  <2> QED
    BY <2>1, EndWatchKind, NoCallAsked
<1>9. ASSUME NEW c \in Conn, NEW b \in BOOLEAN, Settle(c, b) \/ HangUp(c, b)
      PROVE  KindOK' /\ AsAsked'
  BY <1>9, LinkKind, NoCallAsked DEF Settle, HangUp
<1>10. ASSUME NEW c \in Conn, Shutdown(c) \/ Unref(c) PROVE KindOK' /\ AsAsked'
  BY <1>10, ReleaseKind, NoCallAsked DEF Shutdown, Unref
<1> QED
  BY <1>1, <1>2, <1>3, <1>4, <1>5, <1>6, <1>7, <1>8, <1>9, <1>10 DEF Next

\* A call of bt_io_connect, bt_io_listen or bt_io_set that returns success has
\* put in force everything it was asked for, in whatever order the client gave
\* it and whichever kernel, so that bt_io_get reads it back, but for what the
\* code drops without a word; and a call that fails sets the GError, but for
\* the MTU or mode of an LE socket without an incoming MTU and the key size.
THEOREM AsAskedCorrect == Spec => []AsAsked
<1>1. Init => KindOK /\ AsAsked
  <2>1. ASSUME Init PROVE KindOK
    <3>1. \A c \in Conn : sock[c] = NoSock
      BY <2>1 DEF Init
    <3>2. \A c \in Conn : ~Open(c)
      <4> SUFFICES ASSUME NEW c \in Conn PROVE ~Open(c)
        OBVIOUS
      <4>1. chan[c].fd = 1 /\ 1 \in Fd /\ c # None
        BY <2>1, ConnAssumption DEF Init, Conn, Fd, None
      <4> QED
        BY <2>1, <4>1 DEF Init, Open
    <3> QED
      BY <3>1, <3>2 DEF KindOK, NoSock
  <2>2. ASSUME Init PROVE AsAsked
    BY <2>2 DEF Init, AsAsked
  <2> QED
    BY <2>1, <2>2
<1>2. BInv /\ (KindOK /\ AsAsked) /\ [Next]_vars => (KindOK /\ AsAsked)'
  <2>1. ASSUME KindOK, AsAsked, UNCHANGED vars PROVE KindOK' /\ AsAsked'
    <3>1. KindOK'
      BY <2>1 DEF vars, kernel, KindOK, Open
    <3>2. AsAsked'
      BY <2>1 DEF vars, kernel, AsAsked
    <3> QED
      BY <3>1, <3>2
  <2> QED
    BY <2>1, AskedStep
<1> QED
  BY <1>1, <1>2, BInvCorrect, PTL DEF Spec
=============================================================================
