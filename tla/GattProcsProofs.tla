-------------------------- MODULE GattProcsProofs --------------------------
(* Proofs about the GATT procedures, for any number of reads, writes and    *)
(* searches on one bearer, any MTUs, any value and any declarations of the  *)
(* server.                                                                  *)
EXTENDS GattProcs, TLAPS, SequenceTheorems, FiniteSetTheorems,
        WellFoundedInduction

-----------------------------------------------------------------------------
(* The invariant *)

\* A byte of a value, with the one who wrote it.
Byte == (Writers \cup {"server"}) \X Nat

Req == [p : Procs \cup {"client"},
        op : {"read", "blob", "write", "prep", "reliable", "execute", "cancel",
              "include", "resolve", "mtu"},
        arg : Nat, part : Seq(Byte)]

Prepared == [off : Nat, part : Seq(Byte)]

TypeOK ==
    /\ up \in BOOLEAN /\ mtu \in {Mtu, ServerMtu}
    /\ reqs \in Seq(Req) /\ cmds \in SUBSET Writers
    /\ value \in Seq(Byte) /\ prep \in Seq(Prepared)
    /\ st \in [Procs -> ProcState]
    /\ got \in [Readers -> Seq(Byte)] /\ seen \in [Readers -> Seq(Byte)]
    /\ data \in [Writers -> Seq(Byte)] /\ offset \in [Writers -> Nat]
    /\ start \in [Finders -> Nat] /\ err \in [Finders -> BOOLEAN]
    /\ includes \in [Finders -> Seq(DOMAIN Decls)]
    /\ touched \in SUBSET Readers /\ hit \in SUBSET Readers
    /\ mixed \in SUBSET Writers

\* The requests each kind of procedure makes.
Fitting(q) ==
    /\ q.p \in Readers => q.op \in {"read", "blob"}
    /\ q.p \in Writers => q.op \in {"write", "prep", "reliable", "execute", "cancel"}
    /\ q.p \in Finders => q.op \in {"include", "resolve"}
    /\ q.p = "client" => q.op = "mtu"
    /\ q.op = "resolve" => q.arg \in DOMAIN Decls

AllFitting == \A i \in 1..Len(reqs) : Fitting(reqs[i])

\* Only a procedure that runs has requests in the queue.
Busy(p) == \A i \in 1..Len(reqs) : reqs[i].p = p => st[p] = "run"

\* p has one request at most.
Unique(p) == \A i, j \in 1..Len(reqs) : reqs[i].p = p /\ reqs[j].p = p => i = j

\* The read r has the bytes up to the offset it asks for next.
ReadInv(r) ==
    /\ st[r] = "run" /\ r \notin touched => value = seen[r]
    /\ \A i \in 1..Len(reqs) :
           reqs[i].p = r /\ reqs[i].op = "blob" /\ r \notin touched =>
               /\ reqs[i].arg <= Len(value)
               /\ got[r] = SubSeq(value, 1, reqs[i].arg)
    /\ st[r] = "ok" /\ r \notin touched =>
           /\ IsPrefix(got[r], seen[r])
           /\ r \notin hit => got[r] = seen[r]

\* The searches f has under way, and the reads of a UUID.
Includes(f, q) == q.p = f /\ q.op = "include"
Resolves(f, q) == q.p = f /\ q.op = "resolve"

Searching(f) == \E i \in 1..Len(reqs) : Includes(f, reqs[i])

\* The declaration d is in the list of f, or waits for its UUID.
Has(f, d)   == \E i \in 1..Len(includes[f]) : includes[f][i] = d
Wants(f, d) == \E i \in 1..Len(reqs) : Resolves(f, reqs[i]) /\ reqs[i].arg = d

\* f searches on from start_handle, in one request.
SearchInv(f) ==
    /\ \A i \in 1..Len(reqs) : Includes(f, reqs[i]) => reqs[i].arg = start[f]
    /\ \A i, j \in 1..Len(reqs) : Includes(f, reqs[i]) /\ Includes(f, reqs[j]) => i = j

\* Nothing is found twice, and what is found or waits for its UUID are the
\* declarations below start_handle, or all of them once the search is over.
FoundInv(f) ==
    /\ \A i, j \in 1..Len(reqs) :
           Resolves(f, reqs[i]) /\ Resolves(f, reqs[j]) /\ reqs[i].arg = reqs[j].arg
               => i = j
    /\ \A i, j \in 1..Len(includes[f]) : includes[f][i] = includes[f][j] => i = j
    /\ \A d \in DOMAIN Decls : ~(Has(f, d) /\ Wants(f, d))
    /\ st[f] \in {"run", "ok"} =>
           \A d \in DOMAIN Decls :
               Has(f, d) \/ Wants(f, d) <=> (Searching(f) => d < start[f])

FindInv(f) ==
    /\ SearchInv(f)
    /\ st[f] = "new" => start[f] = 1 /\ ~err[f] /\ includes[f] = <<>>
    /\ st[f] = "ok" => ~err[f]
    /\ ~err[f] => FoundInv(f)

-----------------------------------------------------------------------------
(* The invariant of the writes *)

\* The bytes of s are all of w's, or none is.
Of(w, s) == \A k \in 1..Len(s) : s[k][1] = w
Free(w, s) == \A k \in 1..Len(s) : s[k][1] # w
FreePrep(w) == \A j \in 1..Len(prep) : Free(w, prep[j].part)

\* No other write was a success.
NoneOk(w) == \A x \in Writers : x # w => st[x] # "ok"

\* Where the bytes of w may be.
TraceInv(w) ==
    /\ Of(w, data[w])
    /\ \A i \in 1..Len(reqs) : reqs[i].p = w => Of(w, reqs[i].part)
    /\ w \in cmds => st[w] = "sent"
    /\ st[w] = "new" => Free(w, value) /\ FreePrep(w)
    /\ Running(w) /\ up /\ w \notin mixed => Free(w, value)
    /\ st[w] = "failed" /\ up /\ w \notin mixed /\ NoneOk(w) => Free(w, value)

Covers(e, i) == e.off < i /\ i <= e.off + Len(e.part)

\* The first n bytes of d are what the execution of q makes of them.
Covered(q, d, n) ==
    \A i \in 1..n : \E j \in 1..Len(q) :
        /\ Covers(q[j], i) /\ q[j].part[i - q[j].off] = d[i]
        /\ \A k \in 1..Len(q) : k > j => ~ Covers(q[k], i)

\* What the request q of the write w carries, and what the server holds
\* prepared by then.
WriteReqInv(w, q) ==
    /\ q.op = "write" => q.part = data[w]
    /\ q.op = "reliable" => q.part = data[w] /\ q.arg = 0
    /\ q.op = "prep" =>
           /\ q.arg = offset[w] /\ q.arg + Len(q.part) <= Len(data[w])
           /\ \A k \in 1..Len(q.part) : q.part[k] = data[w][q.arg + k]
           /\ up /\ w \notin mixed => Covered(prep, data[w], offset[w])
    /\ q.op = "execute" /\ up /\ w \notin mixed =>
           Covered(prep, data[w], Len(data[w]))

\* The server holds what w has sent so far, above anything older.
ApplyInv(w) ==
    /\ st[w] = "new" => offset[w] = 0
    /\ \A i \in 1..Len(reqs) : reqs[i].p = w => WriteReqInv(w, reqs[i])
    /\ st[w] = "prepared" /\ up /\ w \notin mixed =>
           Covered(prep, data[w], Len(data[w]))

\* Writes that run together are mixed.
Rivals == \A w, x \in Writers : w # x /\ Running(w) /\ Running(x) => w \in mixed

-----------------------------------------------------------------------------
(* Numbers and sequences *)

\* A set of numbers has a smallest one.
LEMMA Smallest ==
    ASSUME NEW S \in SUBSET Nat, S # {}
    PROVE  \E x \in S : \A y \in S : x <= y
<1>1. PICK x \in S : \A y \in S : ~ (<<y, x>> \in OpToRel(<, Nat))
  BY NatLessThanWellFounded, WFMin
<1>2. \A y \in S : ~(y < x)
  BY <1>1 DEF OpToRel
<1> QED
  BY <1>2

\* A set of numbers that has a bound has a greatest one, which Max returns.
LEMMA MaxOfBounded ==
    ASSUME NEW S \in SUBSET Nat, S # {}, NEW b \in Nat, \A x \in S : x <= b
    PROVE  Max(S) \in S /\ \A x \in S : x <= Max(S)
<1> DEFINE B == {n \in Nat : \A x \in S : x <= n}
<1>1. B \in SUBSET Nat /\ B # {}
  OBVIOUS
<1>2. PICK m \in B : \A n \in B : m <= n
  BY <1>1, Smallest
<1>3. m \in Nat /\ \A x \in S : x <= m
  OBVIOUS
<1>4. m \in S
  <2> SUFFICES ASSUME m \notin S PROVE FALSE
    OBVIOUS
  <2>1. \A x \in S : x \in Nat /\ x < m
    BY <1>3
  <2>4. m # 0 /\ m - 1 \in Nat
    <3>1. PICK x \in S : TRUE
      OBVIOUS
    <3>2. x \in Nat /\ x < m
      BY <2>1
    <3>3. m \in Nat
      BY <1>3
    <3> QED
      BY <3>2, <3>3
  <2>2. m - 1 \in Nat /\ \A x \in S : x <= m - 1
    BY <2>1, <2>4, <1>3
  <2>3. m - 1 \in B
    BY <2>2
  <2> QED
    BY <2>3, <1>2, <1>3
<1>5. \E x \in S : \A y \in S : x >= y
  BY <1>3, <1>4
<1>6. Max(S) \in S /\ \A y \in S : Max(S) >= y
  BY <1>5 DEF Max
<1> QED
  BY <1>6

\* Finitely many numbers have a bound.
LEMMA Bounded ==
    ASSUME NEW n \in Nat, NEW f \in [1..n -> Nat]
    PROVE  \E b \in Nat : \A i \in 1..n : f[i] <= b
<1> DEFINE Bad == {m \in 0..n : ~ \E b \in Nat : \A i \in 1..m : f[i] <= b}
<1>0. ASSUME Bad # {} PROVE FALSE
 <2>1. Bad \in SUBSET Nat
   OBVIOUS
 <2>2. PICK m \in Bad : \A k \in Bad : m <= k
   BY <1>0, <2>1, Smallest
 <2>3. m \in Nat /\ m <= n /\ ~ \E b \in Nat : \A i \in 1..m : f[i] <= b
   OBVIOUS
 <2>4. m # 0
   <3>1. \A i \in 1..0 : f[i] <= 0
     OBVIOUS
   <3> QED
     BY <3>1, <2>3
 <2>5. m - 1 \in 0..n /\ m \in 1..n /\ ~(m <= m - 1)
   BY <2>3, <2>4
 <2>6. PICK b \in Nat : \A i \in 1..(m - 1) : f[i] <= b
   BY <2>2, <2>5
 <2>7. PICK c \in Nat : c = f[m]
   BY <2>5
 <2>8. \A i \in 1..m : f[i] \in Nat /\ (i \in 1..(m - 1) \/ i = m)
   BY <2>5
 <2>9. \A i \in 1..m : f[i] <= b + c
   BY <2>6, <2>7, <2>8
 <2> QED
   BY <2>3, <2>9
<1>1. n \notin Bad
  BY <1>0
<1> QED
  BY <1>1

\* The queue without its first request and with more behind.
LEMMA TailCat ==
    ASSUME NEW S, NEW s \in Seq(S), s # <<>>, NEW m \in Seq(S)
    PROVE  LET t == Tail(s) \o m IN
           /\ t \in Seq(S) /\ Len(t) = Len(s) - 1 + Len(m)
           /\ \A i \in 1..Len(t) : i <= Len(s) - 1 =>
                  i + 1 \in 2..Len(s) /\ t[i] = s[i + 1]
           /\ \A i \in 1..Len(t) : i > Len(s) - 1 =>
                  i - (Len(s) - 1) \in 1..Len(m) /\ t[i] = m[i - (Len(s) - 1)]
           /\ \A i \in 2..Len(s) : i - 1 \in 1..Len(t) /\ t[i - 1] = s[i]
           /\ \A k \in 1..Len(m) : Len(s) - 1 + k \in 1..Len(t) /\ t[Len(s) - 1 + k] = m[k]
<1>1. /\ Tail(s) \in Seq(S) /\ Len(Tail(s)) = Len(s) - 1
      /\ \A i \in 1..(Len(s) - 1) : Tail(s)[i] = s[i + 1]
  BY HeadTailProperties
<1>2. /\ Tail(s) \o m \in Seq(S) /\ Len(Tail(s) \o m) = Len(s) - 1 + Len(m)
      /\ \A i \in 1..(Len(s) - 1 + Len(m)) : (Tail(s) \o m)[i] =
             IF i <= Len(s) - 1 THEN Tail(s)[i] ELSE m[i - (Len(s) - 1)]
  BY <1>1, ConcatProperties
<1>3. PICK t \in Seq(S) : t = Tail(s) \o m
  BY <1>2
<1>4. PICK u \in Seq(S) : u = Tail(s)
  BY <1>1
<1>5. Len(s) \in Nat \ {0} /\ Len(m) \in Nat
  BY EmptySeq
<1>6. PICK a \in Nat : a = Len(s) - 1
  BY <1>5
<1>7. PICK b \in Nat : b = Len(m)
  BY <1>5
<1>8. /\ Len(t) = a + b /\ Len(s) = a + 1
      /\ \A i \in 1..(a + b) : t[i] = IF i <= a THEN u[i] ELSE m[i - a]
      /\ \A i \in 1..a : u[i] = s[i + 1]
  BY <1>1, <1>2, <1>3, <1>4, <1>5, <1>6, <1>7
<1>9. /\ \A i \in 1..(a + b) : i <= a => i + 1 \in 2..(a + 1) /\ t[i] = s[i + 1]
      /\ \A i \in 1..(a + b) : i > a => i - a \in 1..b /\ t[i] = m[i - a]
  BY <1>8
<1>10. \A i \in 2..(a + 1) : i - 1 \in 1..(a + b) /\ t[i - 1] = s[i]
  <2> TAKE i \in 2..(a + 1)
  <2>1. i - 1 \in 1..(a + b) /\ i - 1 <= a /\ (i - 1) + 1 = i
    OBVIOUS
  <2> QED
    BY <2>1, <1>9
<1>11. \A k \in 1..b : a + k \in 1..(a + b) /\ t[a + k] = m[k]
  <2> TAKE k \in 1..b
  <2>1. a + k \in 1..(a + b) /\ a + k > a /\ (a + k) - a = k
    OBVIOUS
  <2> QED
    BY <2>1, <1>9
<1> QED
  BY <1>3, <1>6, <1>7, <1>8, <1>9, <1>10, <1>11

\* An append at the end of the queue.
LEMMA AppendAt ==
    ASSUME NEW S, NEW s \in Seq(S), NEW q \in S
    PROVE  LET t == Append(s, q) IN
           /\ t \in Seq(S) /\ Len(t) = Len(s) + 1 /\ t[Len(s) + 1] = q
           /\ \A i \in 1..Len(s) : i \in 1..Len(t) /\ t[i] = s[i]
           /\ \A i \in 1..Len(t) : i \in 1..Len(s) \/ i = Len(s) + 1
  OBVIOUS

\* Slices of a value.
LEMMA SliceFacts ==
    ASSUME NEW S, NEW v \in Seq(S), NEW o \in Nat, NEW n \in Nat
    PROVE  /\ Slice(v, o, n) \in Seq(S)
           /\ Len(Slice(v, o, n)) =
                  IF o >= Len(v) THEN 0 ELSE IF o + n <= Len(v) THEN n ELSE Len(v) - o
           /\ \A i \in 1..Len(Slice(v, o, n)) :
                  o + i \in 1..Len(v) /\ Slice(v, o, n)[i] = v[o + i]
<1>1. PICK e \in Nat : e = Least(o + n, Len(v))
  BY DEF Least
<1>2. /\ e <= Len(v) /\ e <= o + n
      /\ o >= Len(v) => e <= o
      /\ o < Len(v) => e = IF o + n <= Len(v) THEN o + n ELSE Len(v)
  BY <1>1 DEF Least
<1>3. \A i \in (o + 1)..e : i \in 1..Len(v) /\ v[i] \in S
  BY <1>2
<1>4. o + 1 \in Int /\ e \in Int
  OBVIOUS
<1>5. /\ SubSeq(v, o + 1, e) \in Seq(S)
      /\ Len(SubSeq(v, o + 1, e)) = IF o + 1 <= e THEN e - (o + 1) + 1 ELSE 0
      /\ \A i \in 1..(e - (o + 1) + 1) : SubSeq(v, o + 1, e)[i] = v[o + 1 + i - 1]
  BY <1>3, <1>4, SubSeqProperties
<1>6. PICK t \in Seq(S) : t = Slice(v, o, n)
  BY <1>5, <1>1 DEF Slice
<1>7. t = SubSeq(v, o + 1, e)
  BY <1>1, <1>6 DEF Slice
<1>8. PICK l \in Nat : l = Len(v)
  OBVIOUS
<1>9. /\ Len(t) = IF o < e THEN e - o ELSE 0
      /\ \A i \in 1..(e - o) : t[i] = v[o + i]
  <2>1. e - (o + 1) + 1 = e - o /\ \A i \in 1..(e - o) : o + 1 + i - 1 = o + i
    OBVIOUS
  <2>2. \A i \in 1..(e - o) : t[i] = v[o + 1 + i - 1]
    BY <1>5, <1>7, <2>1
  <2>3. \A i \in 1..(e - o) : t[i] = v[o + i]
    BY <2>1, <2>2
  <2>4. Len(t) = IF o + 1 <= e THEN e - o ELSE 0
    BY <1>5, <1>7, <2>1
  <2> QED
    BY <2>3, <2>4
<1>10. Len(t) = IF o >= l THEN 0 ELSE IF o + n <= l THEN n ELSE l - o
  BY <1>2, <1>8, <1>9
<1>11. \A i \in 1..Len(t) : o + i \in 1..l /\ t[i] = v[o + i]
  BY <1>2, <1>8, <1>9
<1> QED
  BY <1>6, <1>8, <1>10, <1>11

-----------------------------------------------------------------------------
(* What the server makes of the writes it holds prepared *)

\* The prepared writes of q that cover byte i, and the last of them.
Over(q, i) == {j \in 1..Len(q) : Covers(q[j], i)}

Ends(q, v) == {Len(v)} \cup {q[j].off + Len(q[j].part) : j \in 1..Len(q)}

\* Apply in terms of the above.
LEMMA ApplyIs ==
    ASSUME NEW q, NEW v
    PROVE  Apply(q, v) =
               [i \in 1..Max(Ends(q, v)) |->
                   IF Over(q, i) = {} THEN v[i]
                   ELSE q[Max(Over(q, i))].part[i - q[Max(Over(q, i))].off]]
  BY DEF Apply, Over, Ends, Covers

\* The elements of the queue of prepared writes.
LEMMA PreparedElem ==
    ASSUME NEW q \in Seq(Prepared), NEW j \in 1..Len(q)
    PROVE  /\ q[j] \in Prepared /\ q[j].off \in Nat /\ q[j].part \in Seq(Byte)
           /\ Len(q[j].part) \in Nat /\ q[j].off + Len(q[j].part) \in Nat
<1>1. q[j] \in Prepared
  OBVIOUS
<1>2. q[j].off \in Nat /\ q[j].part \in Seq(Byte)
  BY <1>1 DEF Prepared
<1> QED
  BY <1>1, <1>2

\* The value after an execution ends where the value did or where a prepared
\* write ends, whichever is last.
LEMMA EndsMax ==
    ASSUME NEW q \in Seq(Prepared), NEW v \in Seq(Byte)
    PROVE  /\ Max(Ends(q, v)) \in Nat /\ Max(Ends(q, v)) \in Ends(q, v)
           /\ Len(v) <= Max(Ends(q, v))
           /\ \A j \in 1..Len(q) : q[j].off + Len(q[j].part) <= Max(Ends(q, v))
<1> DEFINE f == [j \in 1..Len(q) |-> q[j].off + Len(q[j].part)]
<1>1. Len(q) \in Nat /\ f \in [1..Len(q) -> Nat]
  BY PreparedElem
<1>2. PICK b \in Nat : \A j \in 1..Len(q) : f[j] <= b
  <2> HIDE DEF f
  <2> QED
    BY <1>1, Bounded
<1>3. \A j \in 1..Len(q) : q[j].off + Len(q[j].part) \in Nat /\ q[j].off + Len(q[j].part) <= b
  BY <1>2, PreparedElem
<1>4. Len(v) \in Nat
  OBVIOUS
<1>5. Ends(q, v) \in SUBSET Nat /\ Ends(q, v) # {} /\ Len(v) \in Ends(q, v)
  BY <1>3, <1>4 DEF Ends
<1>6. \A x \in Ends(q, v) : x <= b + Len(v)
  <2> TAKE x \in Ends(q, v)
  <2>1. CASE x = Len(v)
    BY <2>1, <1>4
  <2>2. CASE \E j \in 1..Len(q) : x = q[j].off + Len(q[j].part)
    <3>1. x \in Nat /\ x <= b
      BY <2>2, <1>3
    <3> QED
      BY <3>1, <1>4
  <2> QED
    BY <2>1, <2>2 DEF Ends
<1>7. b + Len(v) \in Nat
  BY <1>4
<1>8. Max(Ends(q, v)) \in Ends(q, v) /\ \A x \in Ends(q, v) : x <= Max(Ends(q, v))
  BY <1>5, <1>6, <1>7, MaxOfBounded
<1>9. \A j \in 1..Len(q) : q[j].off + Len(q[j].part) \in Ends(q, v)
  BY DEF Ends
<1> QED
  BY <1>5, <1>8, <1>9

\* The last prepared write that covers a byte.
LEMMA OverMax ==
    ASSUME NEW q \in Seq(Prepared), NEW i \in Nat, Over(q, i) # {}
    PROVE  /\ Max(Over(q, i)) \in 1..Len(q) /\ Covers(q[Max(Over(q, i))], i)
           /\ \A j \in Over(q, i) : j <= Max(Over(q, i))
<1>1. Len(q) \in Nat
  OBVIOUS
<1>2. Over(q, i) \in SUBSET Nat /\ \A x \in Over(q, i) : x <= Len(q)
  BY <1>1 DEF Over
<1>3. Max(Over(q, i)) \in Over(q, i) /\ \A j \in Over(q, i) : j <= Max(Over(q, i))
  BY <1>1, <1>2, MaxOfBounded
<1> QED
  BY <1>3 DEF Over

\* A byte after the execution of q comes from the value before or from a
\* prepared write.
FromBefore(q, v, i, x) ==
    \/ i \in 1..Len(v) /\ x = v[i]
    \/ \E j \in 1..Len(q) : \E k \in 1..Len(q[j].part) : x = q[j].part[k]

\* The execution of q makes a value of v.
LEMMA ApplyType ==
    ASSUME NEW q \in Seq(Prepared), NEW v \in Seq(Byte), Whole(q, v)
    PROVE  /\ Apply(q, v) \in Seq(Byte)
           /\ \A i \in 1..Len(Apply(q, v)) : FromBefore(q, v, i, Apply(q, v)[i])
<1>1. PICK n \in Nat : n = Max(Ends(q, v))
  BY EndsMax
<1>2. PICK l \in Nat : l = Len(v)
  OBVIOUS
<1> DEFINE F(i) == IF Over(q, i) = {} THEN v[i]
                   ELSE q[Max(Over(q, i))].part[i - q[Max(Over(q, i))].off]
<1>3. \A i \in 1..n : F(i) \in Byte /\ FromBefore(q, v, i, F(i))
  <2> SUFFICES ASSUME NEW i \in 1..n
               PROVE  F(i) \in Byte /\ FromBefore(q, v, i, F(i))
    OBVIOUS
  <2>1. CASE Over(q, i) = {}
    <3>1. F(i) = v[i]
      BY <2>1
    <3>2. i <= l
      <4> SUFFICES ASSUME ~(i <= l) PROVE FALSE
        OBVIOUS
      <4>1. n \in Ends(q, v)
        BY <1>1, EndsMax
      <4>2. n # l
        OBVIOUS
      <4>3. PICK j \in 1..Len(q) : n = q[j].off + Len(q[j].part)
        BY <4>1, <4>2, <1>2 DEF Ends
      <4>4. PICK a \in Nat : a = q[j].off
        BY PreparedElem
      <4>5. ~ Covers(q[j], i)
        BY <2>1 DEF Over
      <4>6. i <= a
        BY <4>3, <4>4, <4>5 DEF Covers
      <4>7. i \in (l + 1)..a
        BY <4>6
      <4>8. \E k \in 1..Len(q) : Covers(q[k], i)
        BY <4>4, <4>7, <1>2 DEF Whole, Covers
      <4> QED
        BY <4>8, <2>1 DEF Over
    <3>3. i \in 1..Len(v)
      BY <3>2, <1>2
    <3>4. v[i] \in Byte
      BY <3>3
    <3> HIDE DEF F
    <3> QED
      BY <3>1, <3>3, <3>4 DEF FromBefore
  <2>2. CASE Over(q, i) # {}
    <3>1. i \in Nat
      OBVIOUS
    <3>2. PICK m \in 1..Len(q) : m = Max(Over(q, i)) /\ Covers(q[m], i)
      BY <2>2, <3>1, OverMax
    <3>3. F(i) = q[m].part[i - q[m].off]
      BY <2>2, <3>2
    <3>4. q[m].off \in Nat /\ q[m].part \in Seq(Byte) /\ Len(q[m].part) \in Nat
      BY PreparedElem
    <3>5. i - q[m].off \in 1..Len(q[m].part)
      BY <3>2, <3>4, <3>1 DEF Covers
    <3>6. q[m].part[i - q[m].off] \in Byte
      BY <3>4, <3>5
    <3> HIDE DEF F
    <3> QED
      BY <3>3, <3>5, <3>6 DEF FromBefore
  <2> QED
    BY <2>1, <2>2
<1>4. Apply(q, v) = [i \in 1..n |-> F(i)]
  BY <1>1, ApplyIs
<1> HIDE DEF F
<1>5. [i \in 1..n |-> F(i)] \in [1..n -> Byte]
  BY <1>3
<1>6. Apply(q, v) \in Seq(Byte) /\ Len(Apply(q, v)) = n
  BY <1>4, <1>5
<1> QED
  BY <1>3, <1>4, <1>6

\* What q covers comes out as it was prepared.
LEMMA ApplyCovered ==
    ASSUME NEW q \in Seq(Prepared), NEW v \in Seq(Byte), Whole(q, v),
           NEW d \in Seq(Byte), Covered(q, d, Len(d))
    PROVE  IsPrefix(d, Apply(q, v))
<1>1. PICK n \in Nat : n = Max(Ends(q, v))
  BY EndsMax
<1>2. PICK l \in Nat : l = Len(d)
  OBVIOUS
<1>3. PICK t \in Seq(Byte) : t = Apply(q, v)
  BY ApplyType
<1>4. /\ DOMAIN t = 1..n
      /\ \A i \in 1..n : t[i] = IF Over(q, i) = {} THEN v[i]
             ELSE q[Max(Over(q, i))].part[i - q[Max(Over(q, i))].off]
  BY <1>1, <1>3, ApplyIs
<1>5. Len(t) = n
  BY <1>4
<1>6. \A i \in 1..l : i \in 1..n /\ t[i] = d[i]
  <2> TAKE i \in 1..l
  <2>1. PICK j \in 1..Len(q) :
           /\ Covers(q[j], i) /\ q[j].part[i - q[j].off] = d[i]
           /\ \A k \in 1..Len(q) : k > j => ~ Covers(q[k], i)
    BY <1>2 DEF Covered
  <2>2. j \in Over(q, i)
    BY <2>1 DEF Over
  <2>3. i \in Nat /\ Over(q, i) # {}
    BY <2>2
  <2>4. PICK m \in 1..Len(q) : /\ m = Max(Over(q, i)) /\ Covers(q[m], i)
                               /\ j <= m
    BY <2>2, <2>3, OverMax
  <2>5. m = j
    BY <2>1, <2>4
  <2>6. q[j].off + Len(q[j].part) <= n /\ q[j].off + Len(q[j].part) \in Nat
    BY <1>1, EndsMax, PreparedElem
  <2>7. i <= n
    BY <2>1, <2>3, <2>6 DEF Covers
  <2>8. i \in 1..n
    BY <2>7
  <2> QED
    BY <2>8, <2>1, <2>3, <2>4, <2>5, <1>4
<1>7. l <= n
  <2>1. CASE l = 0
    BY <2>1
  <2>2. CASE l # 0
    <3>1. l \in 1..l
      BY <2>2
    <3> QED
      BY <3>1, <1>6
  <2> QED
    BY <2>1, <2>2
<1>8. SubSeq(d, 1, l) = d
  BY <1>2, SubSeqFull
<1>9. SubSeq(t, 1, l) = d
  <2>1. \A i \in 1..l : t[i] \in Byte
    BY <1>5, <1>6
  <2>2. 1 \in Int /\ l \in Int
    OBVIOUS
  <2>3. /\ SubSeq(t, 1, l) \in Seq(Byte)
        /\ Len(SubSeq(t, 1, l)) = IF 1 <= l THEN l - 1 + 1 ELSE 0
        /\ \A i \in 1..(l - 1 + 1) : SubSeq(t, 1, l)[i] = t[1 + i - 1]
    BY <2>1, <2>2, SubSeqProperties
  <2>4. PICK u \in Seq(Byte) : u = SubSeq(t, 1, l)
    BY <2>3
  <2>5. l - 1 + 1 = l /\ \A i \in 1..l : 1 + i - 1 = i
    OBVIOUS
  <2>6. Len(u) = l /\ \A i \in 1..l : u[i] = t[i]
    BY <2>3, <2>4, <2>5
  <2>7. u = d
    BY <2>6, <1>2, <1>6, SeqEqual
  <2> QED
    BY <2>4, <2>7
<1> QED
  BY <1>2, <1>3, <1>5, <1>7, <1>8, <1>9 DEF IsPrefix

-----------------------------------------------------------------------------
(* Types *)

\* A request with the fields of one.
LEMMA RequestType ==
    ASSUME NEW p \in Procs \cup {"client"},
           NEW op \in {"read", "blob", "write", "prep", "reliable", "execute",
                       "cancel", "include", "resolve", "mtu"},
           NEW arg \in Nat, NEW part \in Seq(Byte)
    PROVE  /\ Request(p, op, arg, part) \in Req
           /\ Request(p, op, arg, part).p = p /\ Request(p, op, arg, part).op = op
           /\ Request(p, op, arg, part).arg = arg
           /\ Request(p, op, arg, part).part = part
  BY DEF Request, Req

\* A request that carries no bytes.
LEMMA BareRequest ==
    ASSUME NEW p \in Procs \cup {"client"},
           NEW op \in {"read", "blob", "write", "prep", "reliable", "execute",
                       "cancel", "include", "resolve", "mtu"},
           NEW arg \in Nat
    PROVE  /\ Request(p, op, arg, <<>>) \in Req
           /\ Request(p, op, arg, <<>>).p = p /\ Request(p, op, arg, <<>>).op = op
           /\ Request(p, op, arg, <<>>).arg = arg
           /\ Request(p, op, arg, <<>>).part = <<>>
<1>1. <<>> \in Seq(Byte)
  OBVIOUS
<1> QED
  BY <1>1 DEF Request, Req

\* The client's Exchange MTU.
LEMMA MtuRequest ==
    \E q \in Req : /\ q = Request("client", "mtu", 0, <<>>)
                    /\ q.p = "client" /\ q.op = "mtu" /\ q.part = <<>>
<1>1. "client" \in Procs \cup {"client"} /\ 0 \in Nat
  OBVIOUS
<1>2. PICK q : q = Request("client", "mtu", 0, <<>>)
  OBVIOUS
<1>3. q \in Req /\ q.p = "client" /\ q.op = "mtu" /\ q.part = <<>>
  BY <1>1, <1>2, BareRequest
<1> QED
  BY <1>2, <1>3

\* The bytes a writer sends.
LEMMA BytesType ==
    ASSUME NEW w \in Writers \cup {"server"}, NEW n \in Nat
    PROVE  /\ Bytes(w, n) \in Seq(Byte) /\ Len(Bytes(w, n)) = n
           /\ \A i \in 1..n : Bytes(w, n)[i][1] = w
<1>1. [i \in 1..n |-> <<w, i>>] \in [1..n -> Byte]
  BY DEF Byte
<1>2. Bytes(w, n) \in Seq(Byte) /\ Len(Bytes(w, n)) = n
  BY <1>1 DEF Bytes
<1> QED
  BY <1>2 DEF Bytes

\* The MTU leaves room for a byte of a prepared write.
LEMMA MtuFacts ==
    ASSUME TypeOK
    PROVE  mtu \in Nat /\ mtu > 5 /\ mtu - 1 \in Nat /\ mtu - 3 \in Nat /\ mtu - 5 \in Nat
  BY MtuAssumption DEF TypeOK

\* The elements of the queue.
LEMMA ReqElem ==
    ASSUME TypeOK, NEW i \in 1..Len(reqs)
    PROVE  /\ reqs[i] \in Req /\ reqs[i].p \in Procs \cup {"client"}
           /\ reqs[i].arg \in Nat /\ reqs[i].part \in Seq(Byte)
<1>1. reqs \in Seq(Req)
  BY DEF TypeOK
<1>2. reqs[i] \in Req
  BY <1>1
<1> QED
  BY <1>2 DEF Req

\* The first request of the queue and the others.
LEMMA HeadReq ==
    ASSUME TypeOK, reqs # <<>>
    PROVE  /\ Head(reqs) = reqs[1] /\ 1 \in 1..Len(reqs)
           /\ Head(reqs) \in Req /\ Head(reqs).p \in Procs \cup {"client"}
           /\ Head(reqs).arg \in Nat /\ Head(reqs).part \in Seq(Byte)
           /\ Tail(reqs) \in Seq(Req)
<1>1. reqs \in Seq(Req)
  BY DEF TypeOK
<1>2. 1 \in 1..Len(reqs) /\ Head(reqs) = reqs[1] /\ Tail(reqs) \in Seq(Req)
  BY <1>1
<1> QED
  BY <1>2, ReqElem

\* The server keeps a value and a queue of prepared writes.
LEMMA ServedType ==
    ASSUME TypeOK, NEW q \in Req
    PROVE  Served(q).value \in Seq(Byte) /\ Served(q).prep \in Seq(Prepared)
<1>1. /\ q.arg \in Nat /\ q.part \in Seq(Byte)
      /\ q.op \in {"read", "blob", "write", "prep", "reliable", "execute",
                   "cancel", "include", "resolve", "mtu"}
  BY DEF Req
<1>2. value \in Seq(Byte) /\ prep \in Seq(Prepared)
  BY DEF TypeOK
<1>3. Whole(prep, value) => Apply(prep, value) \in Seq(Byte)
  BY <1>2, ApplyType
<1>4. [off |-> q.arg, part |-> q.part] \in Prepared
  BY <1>1 DEF Prepared
<1>5. Append(prep, [off |-> q.arg, part |-> q.part]) \in Seq(Prepared)
  BY <1>2, <1>4
<1>6. <<>> \in Seq(Prepared)
  OBVIOUS
<1> QED
  BY <1>1, <1>2, <1>3, <1>5, <1>6 DEF Served

\* The history of the reads that met a change.
LEMMA TouchType ==
    ASSUME TypeOK, NEW v, Touch(v)
    PROVE  touched' \in SUBSET Readers /\ touched \subseteq touched'
  BY DEF TypeOK, Touch

\* An answer leaves a value and a queue of prepared writes.
LEMMA AnswerType ==
    ASSUME TypeOK, NEW op, NEW r, Answer(op, r)
    PROVE  /\ value' \in Seq(Byte) /\ prep' \in Seq(Prepared)
           /\ touched' \in SUBSET Readers /\ touched \subseteq touched'
           /\ up' = up /\ reqs # <<>> /\ Head(reqs).op = op
           /\ Tail(reqs) \in Seq(Req)
           /\ r = "ok" => up
<1>1. /\ reqs # <<>> /\ Head(reqs).op = op /\ up' = up /\ (r = "ok" => up)
      /\ LET s == IF ~up THEN [value |-> value, prep |-> prep]
                  ELSE IF r = "ok" THEN Served(Head(reqs)) ELSE Refused(Head(reqs))
         IN value' = s.value /\ prep' = s.prep /\ Touch(s.value)
  BY DEF Answer
<1>2. Head(reqs) \in Req /\ Tail(reqs) \in Seq(Req)
  BY <1>1, HeadReq
<1>3. Served(Head(reqs)).value \in Seq(Byte) /\ Served(Head(reqs)).prep \in Seq(Prepared)
  BY <1>2, ServedType
<1>4. value \in Seq(Byte) /\ prep \in Seq(Prepared)
  BY DEF TypeOK
<1>5. Refused(Head(reqs)).value \in Seq(Byte) /\ Refused(Head(reqs)).prep \in Seq(Prepared)
  BY <1>4 DEF Refused
<1>6. value' \in Seq(Byte) /\ prep' \in Seq(Prepared)
  BY <1>1, <1>3, <1>4, <1>5
<1>7. \E v : Touch(v)
  BY <1>1
<1> QED
  BY <1>1, <1>2, <1>6, <1>7, TouchType

\* The types of a start.
LEMMA ReadCharType ==
    ASSUME TypeOK, NEW r \in Readers, ReadChar(r)
    PROVE  TypeOK'
<1>1. Request(r, "read", 0, <<>>) \in Req
  BY BareRequest DEF Procs
<1>2. reqs' \in Seq(Req)
  BY <1>1 DEF TypeOK, ReadChar
<1> QED
  BY <1>2 DEF TypeOK, ReadChar, client, server, ProcState, Procs

\* A prepared write is a request, and carries bytes of its value from the
\* offset on.
LEMMA PrepareRequestType ==
    ASSUME NEW w \in Writers, NEW d \in Seq(Byte), NEW o \in Nat, NEW m \in Nat, m > 5
    PROVE  LET q == PrepareRequest(w, d, o, m) IN
           /\ q \in Req /\ q.p = w /\ q.op = "prep" /\ q.arg = o
           /\ q.part = Slice(d, o, m - 5)
<1>1. m - 5 \in Nat
  OBVIOUS
<1>2. Slice(d, o, m - 5) \in Seq(Byte)
  BY <1>1, SliceFacts
<1>3. w \in Procs \cup {"client"}
  BY DEF Procs
<1>4. PICK q : q = Request(w, "prep", o, Slice(d, o, m - 5))
  OBVIOUS
<1>5. /\ q \in Req /\ q.p = w /\ q.op = "prep" /\ q.arg = o
      /\ q.part = Slice(d, o, m - 5)
  BY <1>2, <1>3, <1>4 DEF Request, Req
<1>6. PrepareRequest(w, d, o, m) = q
  BY <1>4 DEF PrepareRequest
<1> QED
  BY <1>5, <1>6

\* The types after the start of a write.
LEMMA StartWriteType ==
    ASSUME TypeOK, NEW w \in Writers, NEW d \in Seq(Byte), StartWrite(w, d)
    PROVE  /\ data' \in [Writers -> Seq(Byte)] /\ mixed' \in SUBSET Writers
           /\ mixed \subseteq mixed'
  BY DEF TypeOK, StartWrite

\* The types after gatt_write_char.
LEMMA WriteCharType ==
    ASSUME TypeOK, NEW w \in Writers, NEW n \in WriteLens, WriteChar(w, n)
    PROVE  TypeOK'
<1>1. n \in Nat /\ Bytes(w, n) \in Seq(Byte) /\ mtu \in Nat /\ mtu > 5
  BY BytesType, LengthAssumption, MtuFacts
<1>2. Request(w, "write", 0, Bytes(w, n)) \in Req
  BY <1>1, RequestType DEF Procs
<1>3. PrepareRequest(w, Bytes(w, n), 0, mtu) \in Req
  BY <1>1, PrepareRequestType
<1>4. data' \in [Writers -> Seq(Byte)] /\ mixed' \in SUBSET Writers
  BY <1>1, StartWriteType DEF WriteChar
<1>5. reqs' \in Seq(Req)
  BY <1>2, <1>3 DEF TypeOK, WriteChar
<1> QED
  BY <1>4, <1>5 DEF TypeOK, WriteChar, server, ProcState, Procs

\* The types after gatt_reliable_write_char.
LEMMA ReliableWriteCharType ==
    ASSUME TypeOK, NEW w \in Writers, NEW n \in WriteLens, ReliableWriteChar(w, n)
    PROVE  TypeOK'
<1>1. n \in Nat /\ Bytes(w, n) \in Seq(Byte) /\ mtu - 5 \in Nat
  BY BytesType, LengthAssumption, MtuFacts
<1>2. Slice(Bytes(w, n), 0, mtu - 5) \in Seq(Byte)
  BY <1>1, SliceFacts
<1>3. Request(w, "reliable", 0, Slice(Bytes(w, n), 0, mtu - 5)) \in Req
  BY <1>2, RequestType DEF Procs
<1>4. data' \in [Writers -> Seq(Byte)] /\ mixed' \in SUBSET Writers
  BY <1>2, StartWriteType DEF ReliableWriteChar
<1>5. reqs' \in Seq(Req)
  BY <1>3 DEF TypeOK, ReliableWriteChar
<1> QED
  BY <1>4, <1>5 DEF TypeOK, ReliableWriteChar, server, ProcState, Procs

\* The types after gatt_execute_write.
LEMMA ExecuteWriteType ==
    ASSUME TypeOK, NEW w \in Writers, NEW op \in {"execute", "cancel"}, ExecuteWrite(w, op)
    PROVE  TypeOK'
<1>1. Request(w, op, 0, <<>>) \in Req
  BY BareRequest DEF Procs
<1>2. reqs' \in Seq(Req)
  BY <1>1 DEF TypeOK, ExecuteWrite
<1> QED
  BY <1>2 DEF TypeOK, ExecuteWrite, client, server, history, ProcState, Procs

\* The types after gatt_write_cmd.
LEMMA WriteCmdType ==
    ASSUME TypeOK, NEW w \in Writers, NEW n \in WriteLens, WriteCmd(w, n)
    PROVE  TypeOK'
<1>1. n \in Nat /\ Bytes(w, n) \in Seq(Byte) /\ mtu - 3 \in Nat
  BY BytesType, LengthAssumption, MtuFacts
<1>2. Slice(Bytes(w, n), 0, mtu - 3) \in Seq(Byte)
  BY <1>1, SliceFacts
<1> QED
  BY <1>2 DEF TypeOK, WriteCmd, server, history, ProcState, Procs

\* The types after gatt_find_included.
LEMMA FindIncludedType ==
    ASSUME TypeOK, NEW f \in Finders, FindIncluded(f)
    PROVE  TypeOK'
<1>1. Request(f, "include", 1, <<>>) \in Req
  BY BareRequest DEF Procs
<1>2. reqs' \in Seq(Req)
  BY <1>1 DEF TypeOK, FindIncluded
<1> QED
  BY <1>2 DEF TypeOK, FindIncluded, client, server, history, ProcState, Procs

\* The types after gatt_exchange_mtu.
LEMMA ExchangeMtuType ==
    ASSUME TypeOK, ExchangeMtu
    PROVE  TypeOK'
<1>1. Request("client", "mtu", 0, <<>>) \in Req
  BY MtuRequest
<1>2. reqs' \in Seq(Req)
  BY <1>1 DEF TypeOK, ExchangeMtu
<1> QED
  BY <1>2 DEF TypeOK, ExchangeMtu, client, server, history

\* A procedure ends in a state.
LEMMA FailureType == ASSUME TypeOK PROVE Failure \in {"failed", "lost"}
  BY DEF Failure

\* The types after read_char_helper.
LEMMA ReadCharHelperType ==
    ASSUME TypeOK, NEW r \in Readers, NEW res \in {"ok", "error"}, ReadCharHelper(r, res)
    PROVE  TypeOK'
<1>1. Answer("read", res)
  BY DEF ReadCharHelper
<1>2. /\ value' \in Seq(Byte) /\ prep' \in Seq(Prepared) /\ touched' \in SUBSET Readers
      /\ up' = up /\ Tail(reqs) \in Seq(Req)
  BY <1>1, AnswerType
<1>3. value \in Seq(Byte) /\ mtu - 1 \in Nat
  BY MtuFacts DEF TypeOK
<1>4. PICK v \in Seq(Byte) : v = Slice(value, 0, mtu - 1)
  BY <1>3, SliceFacts
<1>5. Request(r, "blob", Len(v), <<>>) \in Req
  BY BareRequest DEF Procs
<1>6. got' \in [Readers -> Seq(Byte)]
  BY <1>4 DEF TypeOK, ReadCharHelper
<1>7. reqs' \in Seq(Req)
  BY <1>2, <1>4, <1>5 DEF ReadCharHelper
<1>8. st' \in [Procs -> ProcState]
  BY FailureType DEF TypeOK, ReadCharHelper, ProcState
<1> QED
  BY <1>2, <1>6, <1>7, <1>8 DEF TypeOK, ReadCharHelper

\* The types after read_blob_helper.
LEMMA ReadBlobHelperType ==
    ASSUME TypeOK, NEW r \in Readers, NEW res \in {"ok", "error"}, ReadBlobHelper(r, res)
    PROVE  TypeOK'
<1>1. Answer("blob", res)
  BY DEF ReadBlobHelper
<1>2. /\ value' \in Seq(Byte) /\ prep' \in Seq(Prepared) /\ touched' \in SUBSET Readers
      /\ up' = up /\ reqs # <<>> /\ Tail(reqs) \in Seq(Req)
  BY <1>1, AnswerType
<1>3. value \in Seq(Byte) /\ mtu - 1 \in Nat
  BY MtuFacts DEF TypeOK
<1>4. PICK o \in Nat : o = Head(reqs).arg
  BY <1>2, HeadReq
<1>5. <<>> \in Seq(Byte)
  OBVIOUS
<1>6. PICK v \in Seq(Byte) : v = IF res = "ok" THEN Slice(value, o, mtu - 1) ELSE <<>>
  BY <1>3, <1>5, SliceFacts
<1>7. o + Len(v) \in Nat
  OBVIOUS
<1>8. Request(r, "blob", o + Len(v), <<>>) \in Req
  BY <1>7, BareRequest DEF Procs
<1>9. got' = [got EXCEPT ![r] = @ \o v]
  BY <1>4, <1>6 DEF ReadBlobHelper
<1>10. got \in [Readers -> Seq(Byte)]
  BY DEF TypeOK
<1>11. got[r] \o v \in Seq(Byte)
  BY <1>10, ConcatProperties
<1>12. got' \in [Readers -> Seq(Byte)]
  BY <1>9, <1>10, <1>11
<1>13. reqs' \in Seq(Req)
  BY <1>2, <1>4, <1>6, <1>8 DEF ReadBlobHelper
<1>14. st' \in [Procs -> ProcState]
  BY DEF TypeOK, ReadBlobHelper, ProcState
<1>15. hit' \in SUBSET Readers
  BY DEF TypeOK, ReadBlobHelper
<1> QED
  BY <1>2, <1>12, <1>13, <1>14, <1>15 DEF TypeOK, ReadBlobHelper

\* The types after the answer to a Write Request.
LEMMA WriteDoneType ==
    ASSUME TypeOK, NEW w \in Writers, NEW res \in {"ok", "error"}, WriteDone(w, res)
    PROVE  TypeOK'
<1>1. Answer("write", res)
  BY DEF WriteDone
<1>2. /\ value' \in Seq(Byte) /\ prep' \in Seq(Prepared) /\ touched' \in SUBSET Readers
      /\ up' = up /\ Tail(reqs) \in Seq(Req)
  BY <1>1, AnswerType
<1>3. st' \in [Procs -> ProcState]
  BY FailureType DEF TypeOK, WriteDone, ProcState
<1> QED
  BY <1>2, <1>3 DEF TypeOK, WriteDone, client

\* The types after prepare_write_cb.
LEMMA PrepareWriteCbType ==
    ASSUME TypeOK, NEW w \in Writers, NEW res \in {"ok", "error"}, PrepareWriteCb(w, res)
    PROVE  TypeOK'
<1>1. Answer("prep", res)
  BY DEF PrepareWriteCb
<1>2. /\ value' \in Seq(Byte) /\ prep' \in Seq(Prepared) /\ touched' \in SUBSET Readers
      /\ up' = up /\ reqs # <<>> /\ Tail(reqs) \in Seq(Req)
  BY <1>1, AnswerType
<1>3. Head(reqs).part \in Seq(Byte)
  BY <1>2, HeadReq
<1>4. offset \in [Writers -> Nat] /\ data \in [Writers -> Seq(Byte)]
  BY DEF TypeOK
<1>5. PICK o \in Nat : o = offset[w] + Len(Head(reqs).part)
  BY <1>3, <1>4
<1>6. offset' \in [Writers -> Nat]
  BY <1>4, <1>5 DEF PrepareWriteCb
<1>7. Request(w, "execute", 0, <<>>) \in Req
  BY BareRequest DEF Procs
<1>8. PrepareRequest(w, data[w], o, mtu) \in Req
  BY <1>4, MtuFacts, PrepareRequestType
<1>9. Tail(reqs) \in Seq(Req)
  BY <1>2
<1>10. reqs' = IF res # "ok" THEN Tail(reqs)
               ELSE Append(Tail(reqs), IF o = Len(data[w])
                                       THEN Request(w, "execute", 0, <<>>)
                                       ELSE PrepareRequest(w, data[w], o, mtu))
  BY <1>5 DEF PrepareWriteCb
<1>11. reqs' \in Seq(Req)
  BY <1>2, <1>7, <1>8, <1>9, <1>10
<1>12. st' \in [Procs -> ProcState]
  BY FailureType DEF TypeOK, PrepareWriteCb, ProcState
<1> QED
  BY <1>2, <1>6, <1>11, <1>12 DEF TypeOK, PrepareWriteCb

\* The types after the answer to a reliable write.
LEMMA ReliableDoneType ==
    ASSUME TypeOK, NEW w \in Writers, NEW res \in {"ok", "error"}, ReliableDone(w, res)
    PROVE  TypeOK'
<1>1. Answer("reliable", res)
  BY DEF ReliableDone
<1>2. /\ value' \in Seq(Byte) /\ prep' \in Seq(Prepared) /\ touched' \in SUBSET Readers
      /\ up' = up /\ reqs # <<>> /\ Tail(reqs) \in Seq(Req)
  BY <1>1, AnswerType
<1>4. reqs' \in Seq(Req)
  BY <1>2 DEF ReliableDone
<1>5. st' \in [Procs -> ProcState]
  BY FailureType DEF TypeOK, ReliableDone, ProcState
<1> QED
  BY <1>2, <1>4, <1>5 DEF TypeOK, ReliableDone, client

\* The types after the answer to an Execute Write.
LEMMA ExecuteDoneType ==
    ASSUME TypeOK, NEW w \in Writers, NEW op, NEW res \in {"ok", "error"},
           ExecuteDone(w, op, res)
    PROVE  TypeOK'
<1>1. Answer(op, res)
  BY DEF ExecuteDone
<1>2. /\ value' \in Seq(Byte) /\ prep' \in Seq(Prepared) /\ touched' \in SUBSET Readers
      /\ up' = up /\ Tail(reqs) \in Seq(Req)
  BY <1>1, AnswerType
<1>3. st' \in [Procs -> ProcState]
  BY DEF TypeOK, ExecuteDone, ProcState
<1> QED
  BY <1>2, <1>3 DEF TypeOK, ExecuteDone, client

\* The types after the answer to Exchange MTU.
LEMMA MtuDoneType ==
    ASSUME TypeOK, NEW res \in {"ok", "error"}, MtuDone(res)
    PROVE  TypeOK'
<1>1. Answer("mtu", res)
  BY DEF MtuDone
<1>2. /\ value' \in Seq(Byte) /\ prep' \in Seq(Prepared) /\ touched' \in SUBSET Readers
      /\ up' = up /\ Tail(reqs) \in Seq(Req)
  BY <1>1, AnswerType
<1> QED
  BY <1>2 DEF TypeOK, MtuDone

\* The types after a write command that arrives.
LEMMA TakeCmdType ==
    ASSUME TypeOK, NEW w \in Writers, TakeCmd(w)
    PROVE  TypeOK'
<1>1. touched' \in SUBSET Readers
  BY TouchType DEF TakeCmd
<1> QED
  BY <1>1 DEF TypeOK, TakeCmd, client

\* The types after the loss of the link.
LEMMA HangUpType ==
    ASSUME TypeOK, NEW done \in BOOLEAN, HangUp(done)
    PROVE  TypeOK'
<1>1. touched' \in SUBSET Readers
  BY TouchType DEF HangUp
<1>2. value \in Seq(Byte) /\ <<>> \in Seq(Prepared)
  BY DEF TypeOK
<1>3. reqs # <<>> => Served(Head(reqs)).value \in Seq(Byte)
  BY HeadReq, ServedType
<1>4. value' \in Seq(Byte)
  BY <1>2, <1>3 DEF HangUp
<1> QED
  BY <1>1, <1>2, <1>4 DEF TypeOK, HangUp, client

\* The handles of the declarations are numbers.
LEMMA DeclFacts ==
    /\ EndHandle \in Nat /\ MaxList \in Nat \ {0}
    /\ \A d \in DOMAIN Decls : d \in Nat /\ 1 <= d /\ d <= EndHandle
<1>1. EndHandle \in Nat /\ MaxList \in Nat \ {0} /\ DOMAIN Decls \subseteq 1..EndHandle
  BY DeclAssumption
<1> QED
  BY <1>1

\* The lists a search may be answered with.
IsList(list) == list \in Seq(DOMAIN Decls) /\ list # <<>>

\* The handles of a list.
LEMMA ListFacts ==
    ASSUME NEW list, IsList(list)
    PROVE  /\ Len(list) \in Nat /\ Len(list) \in 1..Len(list) /\ 1 \in 1..Len(list)
           /\ \A i \in 1..Len(list) : list[i] \in DOMAIN Decls /\ list[i] \in Nat
           /\ list[Len(list)] \in Nat /\ list[Len(list)] \in DOMAIN Decls
<1>1. Len(list) \in Nat \ {0}
  BY EmptySeq DEF IsList
<1>2. Len(list) \in 1..Len(list) /\ 1 \in 1..Len(list)
  BY <1>1
<1>3. \A i \in 1..Len(list) : list[i] \in DOMAIN Decls
  BY ElementOfSeq DEF IsList
<1> QED
  BY <1>1, <1>2, <1>3, DeclFacts

\* Those of a correct server, and those of one that goes back.
LEMMA ListsFacts ==
    ASSUME NEW h \in Nat, NEW list \in Lists(h)
    PROVE  /\ IsList(list)
           /\ \A i \in 1..Len(list) : list[i] >= h /\ Decls[list[i]] = Decls[list[1]]
           /\ \A i, j \in 1..Len(list) : i < j => list[i] < list[j]
           /\ \A d \in DOMAIN Decls : h <= d /\ d <= list[Len(list)] =>
                  \E i \in 1..Len(list) : list[i] = d
<1>1. PICK m \in 0..MaxList : list \in [1..m -> DeclsFrom(h)]
  BY DEF Lists, SeqOf
<1>2. m \in Nat
  BY DeclFacts
<1>3. list \in Seq(DeclsFrom(h)) /\ Len(list) = m /\ DOMAIN list = 1..m
  BY <1>1, <1>2
<1>4. list \in Seq(DOMAIN Decls) /\ \A i \in 1..m : list[i] \in DeclsFrom(h)
  BY <1>1, <1>2, <1>3 DEF DeclsFrom
<1>5. /\ list # <<>>
      /\ \A i \in 1..Len(list) : Decls[list[i]] = Decls[list[1]]
      /\ \A i, j \in 1..Len(list) : i < j => list[i] < list[j]
      /\ \A d \in DeclsFrom(h) : d <= list[Len(list)] => d \in ToSet(list)
  BY DEF Lists
<1>6. \A i \in 1..Len(list) : list[i] >= h
  BY <1>3, <1>4 DEF DeclsFrom
<1>7. ASSUME NEW d \in DOMAIN Decls, h <= d, d <= list[Len(list)]
      PROVE  \E i \in 1..Len(list) : list[i] = d
  <2>1. d \in Nat
    BY DeclFacts
  <2>2. d \in DeclsFrom(h)
    BY <1>7, <2>1 DEF DeclsFrom
  <2>3. d \in ToSet(list)
    BY <2>2, <1>5, <1>7
  <2> QED
    BY <2>3, <1>3 DEF ToSet
<1> QED
  BY <1>4, <1>5, <1>6, <1>7 DEF IsList

\* A list of one handle.
LEMMA BackList ==
    ASSUME NEW h \in DOMAIN Decls
    PROVE  IsList(<<h>>) /\ Len(<<h>>) = 1 /\ <<h>>[1] = h
  BY DEF IsList

\* The reads a list leads to, and the find after it.
ReadsOf(f, list) ==
    IF Decls[list[1]] = 6
    THEN [i \in 1..Len(list) |-> Request(f, "resolve", list[i], <<>>)] ELSE <<>>

FindOf(f, list) ==
    IF ~(list[Len(list)] < start[f]) /\ MoreToFind(list[Len(list)])
    THEN <<Request(f, "include", list[Len(list)] + 1, <<>>)>> ELSE <<>>

\* find_included_cb in terms of the above.
LEMMA FindIncludedCbIs ==
    ASSUME NEW f, NEW list, FindIncludedCb(f, list)
    PROVE  /\ Answer("include", "ok") /\ Head(reqs).p = f
           /\ includes' = IF Decls[list[1]] = 6 THEN includes
                          ELSE [includes EXCEPT ![f] = @ \o list]
           /\ start' = IF list[Len(list)] < start[f] THEN start
                       ELSE [start EXCEPT ![f] = list[Len(list)] + 1]
           /\ EndFind(f, ReadsOf(f, list) \o FindOf(f, list), list[Len(list)] < start[f])
           /\ UNCHANGED <<cmds, mtu, got, data, offset, seen, hit, mixed>>
           /\ UNCHANGED <<cast, up>>
  BY DEF FindIncludedCb, ReadsOf, FindOf, Answer

\* One read for every entry of a list without UUIDs.
LEMMA ReadsOfFacts ==
    ASSUME NEW f \in Finders, NEW list, IsList(list)
    PROVE  /\ ReadsOf(f, list) \in Seq(Req)
           /\ Decls[list[1]] # 6 => Len(ReadsOf(f, list)) = 0
           /\ Decls[list[1]] = 6 => Len(ReadsOf(f, list)) = Len(list)
           /\ \A k \in 1..Len(ReadsOf(f, list)) :
                  /\ ReadsOf(f, list)[k].p = f /\ ReadsOf(f, list)[k].op = "resolve"
                  /\ ReadsOf(f, list)[k].arg = list[k] /\ ReadsOf(f, list)[k].part = <<>>
<1>1. PICK n \in Nat : n = Len(list)
  BY ListFacts
<1>2. \A i \in 1..n : list[i] \in Nat
  BY <1>1, ListFacts
<1>3. f \in Procs \cup {"client"}
  BY DEF Procs
<1>4. \A i \in 1..n : /\ Request(f, "resolve", list[i], <<>>) \in Req
                      /\ Request(f, "resolve", list[i], <<>>).p = f
                      /\ Request(f, "resolve", list[i], <<>>).op = "resolve"
                      /\ Request(f, "resolve", list[i], <<>>).arg = list[i]
                      /\ Request(f, "resolve", list[i], <<>>).part = <<>>
  BY <1>2, <1>3, BareRequest
<1>5. PICK t : t = [i \in 1..n |-> Request(f, "resolve", list[i], <<>>)]
  OBVIOUS
<1>6. t \in [1..n -> Req]
  BY <1>4, <1>5
<1>7. t \in Seq(Req) /\ Len(t) = n
  BY <1>6
<1>8. \A k \in 1..n : /\ t[k].p = f /\ t[k].op = "resolve"
                      /\ t[k].arg = list[k] /\ t[k].part = <<>>
  BY <1>4, <1>5
<1>9. CASE Decls[list[1]] = 6
  <2>1. ReadsOf(f, list) = t
    BY <1>9, <1>1, <1>5 DEF ReadsOf
  <2> QED
    BY <2>1, <1>1, <1>7, <1>8, <1>9
<1>10. CASE Decls[list[1]] # 6
  <2>1. ReadsOf(f, list) = <<>>
    BY <1>10 DEF ReadsOf
  <2> QED
    BY <2>1, <1>10
<1> QED
  BY <1>9, <1>10

\* At most one find comes after a list.
LEMMA FindOfFacts ==
    ASSUME TypeOK, NEW f \in Finders, NEW list, IsList(list)
    PROVE  /\ FindOf(f, list) \in Seq(Req) /\ Len(FindOf(f, list)) \in {0, 1}
           /\ Len(FindOf(f, list)) = 1 <=>
                  ~(list[Len(list)] < start[f]) /\ MoreToFind(list[Len(list)])
           /\ \A k \in 1..Len(FindOf(f, list)) :
                  /\ FindOf(f, list)[k].p = f /\ FindOf(f, list)[k].op = "include"
                  /\ FindOf(f, list)[k].arg = list[Len(list)] + 1
                  /\ FindOf(f, list)[k].part = <<>>
<1>1. PICK l \in Nat : l = list[Len(list)]
  BY ListFacts
<1>2. PICK q : q = Request(f, "include", l + 1, <<>>)
  OBVIOUS
<1>3. l + 1 \in Nat /\ f \in Procs \cup {"client"}
  BY DEF Procs
<1>4. q \in Req /\ q.p = f /\ q.op = "include" /\ q.arg = l + 1 /\ q.part = <<>>
  BY <1>2, <1>3, BareRequest
<1>5. FindOf(f, list) = IF ~(l < start[f]) /\ MoreToFind(l) THEN <<q>> ELSE <<>>
  BY <1>1, <1>2 DEF FindOf
<1>6. CASE ~(l < start[f]) /\ MoreToFind(l)
  <2>1. FindOf(f, list) = <<q>>
    BY <1>5, <1>6
  <2> QED
    BY <2>1, <1>1, <1>4, <1>6
<1>7. CASE ~(~(l < start[f]) /\ MoreToFind(l))
  <2>1. FindOf(f, list) = <<>>
    BY <1>5, <1>7
  <2> QED
    BY <2>1, <1>1, <1>7
<1> QED
  BY <1>6, <1>7

\* What a list adds to the queue, its elements one by one.
MoreOf(f, list) == ReadsOf(f, list) \o FindOf(f, list)

\* The requests that a list leads to.
LEMMA MoreOfFacts ==
    ASSUME TypeOK, NEW f \in Finders, NEW list, IsList(list)
    PROVE  LET m == MoreOf(f, list)
               a == Len(ReadsOf(f, list)) IN
           /\ m \in Seq(Req) /\ Len(m) = a + Len(FindOf(f, list))
           /\ a \in Nat /\ Len(FindOf(f, list)) \in {0, 1}
           /\ \A k \in 1..Len(m) : m[k].p = f /\ m[k].part = <<>>
           /\ \A k \in 1..Len(m) : k <= a => m[k].op = "resolve" /\ m[k].arg = list[k]
           /\ \A k \in 1..Len(m) : k > a =>
                  k = a + 1 /\ m[k].op = "include" /\ m[k].arg = list[Len(list)] + 1
<1>1. PICK s \in Seq(Req) : s = ReadsOf(f, list)
  BY ReadsOfFacts
<1>2. PICK t \in Seq(Req) : t = FindOf(f, list)
  BY FindOfFacts
<1>3. PICK m \in Seq(Req) : m = s \o t
  BY ConcatProperties
<1>4. PICK a \in Nat : a = Len(s)
  OBVIOUS
<1>5. Len(t) \in {0, 1}
  BY <1>2, FindOfFacts
<1>6. PICK b \in {0, 1} : b = Len(t)
  BY <1>5
<1>7. Len(m) = a + b /\ \A k \in 1..(a + b) : m[k] = IF k <= a THEN s[k] ELSE t[k - a]
  BY <1>3, <1>4, <1>6, ConcatProperties
<1>8. \A k \in 1..a : s[k].p = f /\ s[k].op = "resolve" /\ s[k].arg = list[k] /\ s[k].part = <<>>
  BY <1>1, <1>4, ReadsOfFacts
<1>9. \A k \in 1..b : /\ t[k].p = f /\ t[k].op = "include" /\ t[k].part = <<>>
                      /\ t[k].arg = list[Len(list)] + 1
  BY <1>2, <1>6, FindOfFacts
<1>10. \A k \in 1..(a + b) : \/ k \in 1..a
                             \/ k > a /\ k = a + 1 /\ k - a \in 1..b
  <2>1. CASE b = 0
    BY <2>1
  <2>2. CASE b = 1
    BY <2>2
  <2> QED
    BY <2>1, <2>2
<1>11. \A k \in 1..(a + b) : m[k].p = f /\ m[k].part = <<>>
  BY <1>7, <1>8, <1>9, <1>10
<1>12. \A k \in 1..(a + b) : k <= a => m[k].op = "resolve" /\ m[k].arg = list[k]
  BY <1>7, <1>8
<1>13. \A k \in 1..(a + b) : k > a =>
           k = a + 1 /\ m[k].op = "include" /\ m[k].arg = list[Len(list)] + 1
  BY <1>7, <1>9, <1>10
<1> QED
  BY <1>1, <1>2, <1>3, <1>4, <1>6, <1>7, <1>11, <1>12, <1>13 DEF MoreOf

\* The types after the end of a search's callback.
LEMMA EndFindType ==
    ASSUME TypeOK, NEW f \in Finders, NEW more \in Seq(Req), NEW e,
           reqs # <<>>, EndFind(f, more, e)
    PROVE  /\ reqs' \in Seq(Req) /\ err' \in [Finders -> BOOLEAN]
           /\ st' \in [Procs -> ProcState]
<1>1. Tail(reqs) \in Seq(Req)
  BY HeadReq
<1>2. reqs' \in Seq(Req)
  BY <1>1, ConcatProperties DEF EndFind
<1>3. err' \in [Finders -> BOOLEAN]
  BY Zenon DEF TypeOK, EndFind
<1>4. st' \in [Procs -> ProcState]
  BY FailureType DEF TypeOK, EndFind, ProcState
<1> QED
  BY <1>2, <1>3, <1>4

\* The types after find_included_cb with a list.
LEMMA FindIncludedCbType ==
    ASSUME TypeOK, NEW f \in Finders, NEW list, IsList(list), FindIncludedCb(f, list)
    PROVE  TypeOK'
<1>1. Answer("include", "ok")
  BY FindIncludedCbIs
<1>2. /\ value' \in Seq(Byte) /\ prep' \in Seq(Prepared) /\ touched' \in SUBSET Readers
      /\ up' = up /\ reqs # <<>> /\ Tail(reqs) \in Seq(Req)
  BY <1>1, AnswerType
<1>3. PICK l \in Nat : l = list[Len(list)]
  BY ListFacts
<1>4. PICK more \in Seq(Req) : more = ReadsOf(f, list) \o FindOf(f, list)
  BY MoreOfFacts DEF MoreOf
<1>6. EndFind(f, more, list[Len(list)] < start[f])
  BY <1>4, FindIncludedCbIs
<1>7. /\ reqs' \in Seq(Req) /\ err' \in [Finders -> BOOLEAN]
      /\ st' \in [Procs -> ProcState]
  BY <1>2, <1>6, EndFindType
<1>8. start \in [Finders -> Nat] /\ includes \in [Finders -> Seq(DOMAIN Decls)]
  BY DEF TypeOK
<1>9. start' = IF l < start[f] THEN start ELSE [start EXCEPT ![f] = l + 1]
  BY <1>3, FindIncludedCbIs
<1>10. start' \in [Finders -> Nat]
  BY <1>8, <1>9
<1>11. includes[f] \o list \in Seq(DOMAIN Decls)
  BY <1>8, ConcatProperties DEF IsList
<1>14. includes' = IF Decls[list[1]] = 6 THEN includes
                   ELSE [includes EXCEPT ![f] = @ \o list]
  BY FindIncludedCbIs
<1>12. includes' \in [Finders -> Seq(DOMAIN Decls)]
  BY <1>8, <1>11, <1>14
<1>13. UNCHANGED <<cmds, mtu, got, data, offset, seen, hit, mixed>>
  BY FindIncludedCbIs
<1> QED
  BY <1>2, <1>7, <1>10, <1>12, <1>13 DEF TypeOK

\* The types after find_included_cb with a status.
LEMMA FindIncludedEndType ==
    ASSUME TypeOK, NEW f \in Finders, NEW res \in {"not found", "error"},
           FindIncludedEnd(f, res)
    PROVE  TypeOK'
<1>1. PICK r : Answer("include", r)
  BY DEF FindIncludedEnd
<1>2. /\ value' \in Seq(Byte) /\ prep' \in Seq(Prepared) /\ touched' \in SUBSET Readers
      /\ up' = up /\ reqs # <<>> /\ Tail(reqs) \in Seq(Req)
  BY <1>1, AnswerType
<1>6. <<>> \in Seq(Req)
  BY EmptySeq
<1>4. EndFind(f, <<>>, res # "not found")
  BY DEF FindIncludedEnd
<1>5. /\ reqs' \in Seq(Req) /\ err' \in [Finders -> BOOLEAN]
      /\ st' \in [Procs -> ProcState]
  BY <1>2, <1>4, <1>6, EndFindType
<1> QED
  BY <1>2, <1>5 DEF TypeOK, FindIncludedEnd

\* The types after resolve_included_uuid_cb.
LEMMA ResolveIncludedCbType ==
    ASSUME TypeOK, NEW f \in Finders, NEW res \in {"ok", "error"},
           ResolveIncludedCb(f, res), AllFitting
    PROVE  TypeOK'
<1>1. Answer("resolve", res)
  BY DEF ResolveIncludedCb
<1>2. /\ value' \in Seq(Byte) /\ prep' \in Seq(Prepared) /\ touched' \in SUBSET Readers
      /\ up' = up /\ reqs # <<>> /\ Tail(reqs) \in Seq(Req)
  BY <1>1, AnswerType
<1>9. <<>> \in Seq(Req)
  BY EmptySeq
<1>4. EndFind(f, <<>>, res # "ok")
  BY DEF ResolveIncludedCb
<1>5. /\ reqs' \in Seq(Req) /\ err' \in [Finders -> BOOLEAN]
      /\ st' \in [Procs -> ProcState]
  BY <1>2, <1>4, <1>9, EndFindType
<1>6. includes \in [Finders -> Seq(DOMAIN Decls)]
  BY DEF TypeOK
<1>10. Head(reqs).arg \in DOMAIN Decls
  <2>1. Head(reqs).op = "resolve"
    BY <1>1 DEF Answer
  <2> QED
    BY <1>2, <2>1, HeadReq DEF AllFitting, Fitting
<1>7. Append(includes[f], Head(reqs).arg) \in Seq(DOMAIN Decls)
  BY <1>6, <1>10
<1>8. includes' \in [Finders -> Seq(DOMAIN Decls)]
  BY <1>6, <1>7 DEF ResolveIncludedCb
<1> QED
  BY <1>2, <1>5, <1>8 DEF TypeOK, ResolveIncludedCb

-----------------------------------------------------------------------------
(* A step of one procedure leaves the others alone *)

\* A step leaves the requests of p in the queue as they are: it may take the
\* first request of the queue, so that the others move up.
Fewer(p) ==
    \E k \in {0, 1} :
        /\ \A i \in 1..Len(reqs') : reqs'[i].p = p =>
               i + k \in 1..Len(reqs) /\ reqs'[i] = reqs[i + k]
        /\ \A i \in 1..Len(reqs) : reqs[i].p = p =>
               i - k \in 1..Len(reqs') /\ reqs'[i - k] = reqs[i]

\* A step leaves the state of p as it is.
Idle(p) ==
    /\ st'[p] = st[p]
    /\ p \in Readers => /\ got'[p] = got[p] /\ seen'[p] = seen[p]
                        /\ p \in hit' <=> p \in hit
    /\ p \in Writers => data'[p] = data[p] /\ offset'[p] = offset[p]
    /\ p \in Finders => /\ start'[p] = start[p] /\ err'[p] = err[p]
                        /\ includes'[p] = includes[p]

Alone(p) == Fewer(p) /\ Idle(p)

\* The requests of p stay: the queue does not change,
LEMMA FewerSame ==
    ASSUME TypeOK, reqs' = reqs, NEW p
    PROVE  Fewer(p)
<1>1. PICK n \in Nat : n = Len(reqs)
  BY DEF TypeOK
<1>2. \A i \in 1..n : i + 0 = i /\ i - 0 = i
  OBVIOUS
<1> QED
  BY <1>1, <1>2 DEF Fewer

\* it grows by a request of another,
LEMMA FewerAppend ==
    ASSUME TypeOK, NEW q \in Req, reqs' = Append(reqs, q), NEW p, q.p # p
    PROVE  Fewer(p)
<1>1. reqs \in Seq(Req)
  BY DEF TypeOK
<1>2. PICK n \in Nat : n = Len(reqs)
  BY <1>1
<1>3. Len(reqs') = n + 1 /\ reqs'[n + 1] = q /\ \A i \in 1..n : reqs'[i] = reqs[i]
  BY <1>1, <1>2, AppendAt
<1>4. \A i \in 1..(n + 1) : (i \in 1..n /\ i + 0 = i) \/ i = n + 1
  OBVIOUS
<1>5. \A i \in 1..Len(reqs') : reqs'[i].p = p =>
          i + 0 \in 1..Len(reqs) /\ reqs'[i] = reqs[i + 0]
  BY <1>2, <1>3, <1>4
<1>6. \A i \in 1..n : i - 0 = i /\ i \in 1..(n + 1)
  OBVIOUS
<1>7. \A i \in 1..Len(reqs) : i - 0 \in 1..Len(reqs') /\ reqs'[i - 0] = reqs[i]
  BY <1>2, <1>3, <1>6
<1> QED
  BY <1>5, <1>7 DEF Fewer

\* its head is answered, with more requests of others,
LEMMA FewerTailCat ==
    ASSUME TypeOK, reqs # <<>>, NEW more \in Seq(Req), reqs' = Tail(reqs) \o more,
           NEW p, Head(reqs).p # p, \A k \in 1..Len(more) : more[k].p # p
    PROVE  Fewer(p)
<1>1. reqs \in Seq(Req) /\ Head(reqs) = reqs[1]
  BY HeadReq DEF TypeOK
<1>2. /\ \A i \in 1..Len(reqs') : i <= Len(reqs) - 1 =>
             i + 1 \in 2..Len(reqs) /\ reqs'[i] = reqs[i + 1]
      /\ \A i \in 1..Len(reqs') : i > Len(reqs) - 1 =>
             i - (Len(reqs) - 1) \in 1..Len(more) /\ reqs'[i] = more[i - (Len(reqs) - 1)]
      /\ \A i \in 2..Len(reqs) : i - 1 \in 1..Len(reqs') /\ reqs'[i - 1] = reqs[i]
      /\ Len(reqs) \in Nat /\ Len(reqs') \in Nat
  BY <1>1, TailCat
<1>3. PICK n \in Nat : n = Len(reqs)
  BY <1>2
<1>4. PICK m \in Nat : m = Len(reqs')
  BY <1>2
<1>5. \A i \in 1..m : i <= n - 1 \/ i > n - 1
  OBVIOUS
<1>6. \A i \in 2..n : i \in 1..n
  OBVIOUS
<1>7. \A i \in 1..m : reqs'[i].p = p => i + 1 \in 1..n /\ reqs'[i] = reqs[i + 1]
  BY <1>2, <1>3, <1>4, <1>5, <1>6
<1>8. \A i \in 1..n : i = 1 \/ i \in 2..n
  OBVIOUS
<1>9. \A i \in 1..n : reqs[i].p = p => i - 1 \in 1..m /\ reqs'[i - 1] = reqs[i]
  BY <1>1, <1>2, <1>3, <1>4, <1>8
<1> QED
  BY <1>3, <1>4, <1>7, <1>9 DEF Fewer

\* A queue that only loses its first request, or gets one more behind.
LEMMA TailForms ==
    ASSUME TypeOK, reqs # <<>>
    PROVE  /\ Tail(reqs) = Tail(reqs) \o <<>>
           /\ \A q \in Req : /\ Append(Tail(reqs), q) = Tail(reqs) \o <<q>>
                             /\ <<q>> \in Seq(Req) /\ Len(<<q>>) = 1 /\ <<q>>[1] = q
           /\ <<>> \in Seq(Req) /\ Len(<<>>) = 0
<1>1. Tail(reqs) \in Seq(Req)
  BY HeadReq
<1>2. Tail(reqs) = Tail(reqs) \o <<>>
  BY <1>1, ConcatEmptySeq
<1>3. \A q \in Req : Append(Tail(reqs), q) = Tail(reqs) \o <<q>>
  BY <1>1
<1>4. \A q \in Req : <<q>> \in Seq(Req) /\ Len(<<q>>) = 1 /\ <<q>>[1] = q
  OBVIOUS
<1> QED
  BY <1>2, <1>3, <1>4, EmptySeq

\* with none,
LEMMA FewerTail ==
    ASSUME TypeOK, reqs # <<>>, reqs' = Tail(reqs), NEW p, Head(reqs).p # p
    PROVE  Fewer(p)
<1>1. reqs' = Tail(reqs) \o <<>> /\ <<>> \in Seq(Req) /\ Len(<<>>) = 0
  BY TailForms
<1>2. \A k \in 1..0 : <<>>[k].p # p
  OBVIOUS
<1>3. PICK more \in Seq(Req) : more = <<>>
  BY <1>1
<1>4. reqs' = Tail(reqs) \o more /\ \A k \in 1..Len(more) : more[k].p # p
  BY <1>1, <1>2, <1>3
<1> QED
  BY <1>4, FewerTailCat

\* or with one.
LEMMA FewerTailAppend ==
    ASSUME TypeOK, reqs # <<>>, NEW q \in Req, reqs' = Append(Tail(reqs), q),
           NEW p, q.p # p, Head(reqs).p # p
    PROVE  Fewer(p)
<1>1. /\ reqs' = Tail(reqs) \o <<q>>
      /\ <<q>> \in Seq(Req) /\ Len(<<q>>) = 1 /\ <<q>>[1] = q
  BY TailForms
<1>2. PICK more \in Seq(Req) : more = <<q>>
  BY <1>1
<1>3. reqs' = Tail(reqs) \o more /\ \A k \in 1..Len(more) : more[k].p # p
  BY <1>1, <1>2
<1> QED
  BY <1>3, FewerTailCat

\* The classes of procedures have nothing in common.
LEMMA Classes ==
    /\ \A r \in Readers : r \notin Writers /\ r \notin Finders /\ r \in Procs /\ r # "client"
    /\ \A w \in Writers : w \notin Readers /\ w \notin Finders /\ w \in Procs /\ w # "client"
    /\ \A f \in Finders : f \notin Readers /\ f \notin Writers /\ f \in Procs /\ f # "client"
    /\ \A p \in Procs : p # "client" /\ (p \in Readers \/ p \in Writers \/ p \in Finders)
  BY ProcAssumption DEF Procs

\* No other procedure notices gatt_read_char.
LEMMA ReadCharOthers ==
    ASSUME TypeOK, NEW r \in Readers, ReadChar(r), NEW p \in Procs, p # r
    PROVE  Alone(p)
<1>1. PICK q \in Req : q = Request(r, "read", 0, <<>>) /\ q.p = r
  BY BareRequest, Classes
<1>2. Fewer(p)
  BY <1>1, FewerAppend DEF ReadChar
<1>3. Idle(p)
  BY Classes DEF TypeOK, ReadChar, client, Idle
<1> QED
  BY <1>2, <1>3 DEF Alone

\* No other procedure notices gatt_write_char.
LEMMA WriteCharOthers ==
    ASSUME TypeOK, NEW w \in Writers, NEW n \in WriteLens, WriteChar(w, n),
           NEW p \in Procs, p # w
    PROVE  Alone(p)
<1>1. n \in Nat /\ Bytes(w, n) \in Seq(Byte) /\ mtu \in Nat /\ mtu > 5
  BY BytesType, LengthAssumption, MtuFacts
<1>2. Request(w, "write", 0, Bytes(w, n)) \in Req /\ Request(w, "write", 0, Bytes(w, n)).p = w
  BY <1>1, Classes, RequestType
<1>3. PrepareRequest(w, Bytes(w, n), 0, mtu) \in Req
      /\ PrepareRequest(w, Bytes(w, n), 0, mtu).p = w
  BY <1>1, PrepareRequestType
<1>4. Fewer(p)
  BY <1>2, <1>3, FewerAppend DEF WriteChar
<1>5. Idle(p)
  BY Classes DEF TypeOK, WriteChar, StartWrite, Idle
<1> QED
  BY <1>4, <1>5 DEF Alone

\* No other procedure notices gatt_reliable_write_char.
LEMMA ReliableWriteCharOthers ==
    ASSUME TypeOK, NEW w \in Writers, NEW n \in WriteLens, ReliableWriteChar(w, n),
           NEW p \in Procs, p # w
    PROVE  Alone(p)
<1>1. n \in Nat /\ Bytes(w, n) \in Seq(Byte) /\ mtu - 5 \in Nat
  BY BytesType, LengthAssumption, MtuFacts
<1>2. PICK d \in Seq(Byte) : d = Slice(Bytes(w, n), 0, mtu - 5)
  BY <1>1, SliceFacts
<1>3. Request(w, "reliable", 0, d) \in Req /\ Request(w, "reliable", 0, d).p = w
  BY Classes, RequestType
<1>4. Fewer(p)
  BY <1>2, <1>3, FewerAppend DEF ReliableWriteChar
<1>5. Idle(p)
  BY Classes DEF TypeOK, ReliableWriteChar, StartWrite, Idle
<1> QED
  BY <1>4, <1>5 DEF Alone

\* No other procedure notices gatt_execute_write.
LEMMA ExecuteWriteOthers ==
    ASSUME TypeOK, NEW w \in Writers, NEW op \in {"execute", "cancel"},
           ExecuteWrite(w, op), NEW p \in Procs, p # w
    PROVE  Alone(p)
<1>1. PICK q \in Req : q = Request(w, op, 0, <<>>) /\ q.p = w
  BY BareRequest, Classes
<1>2. Fewer(p)
  BY <1>1, FewerAppend DEF ExecuteWrite
<1>3. Idle(p)
  BY Classes DEF TypeOK, ExecuteWrite, client, history, Idle
<1> QED
  BY <1>2, <1>3 DEF Alone

\* No other procedure notices gatt_write_cmd.
LEMMA WriteCmdOthers ==
    ASSUME TypeOK, NEW w \in Writers, NEW n \in WriteLens, WriteCmd(w, n),
           NEW p \in Procs, p # w
    PROVE  Alone(p)
<1>1. Fewer(p)
  BY FewerSame DEF WriteCmd
<1>2. Idle(p)
  BY Classes DEF TypeOK, WriteCmd, history, Idle
<1> QED
  BY <1>1, <1>2 DEF Alone

\* No other procedure notices gatt_find_included.
LEMMA FindIncludedOthers ==
    ASSUME TypeOK, NEW f \in Finders, FindIncluded(f), NEW p \in Procs, p # f
    PROVE  Alone(p)
<1>1. PICK q \in Req : q = Request(f, "include", 1, <<>>) /\ q.p = f
  BY BareRequest, Classes
<1>2. Fewer(p)
  BY <1>1, FewerAppend DEF FindIncluded
<1>3. Idle(p)
  BY Classes DEF TypeOK, FindIncluded, client, history, Idle
<1> QED
  BY <1>2, <1>3 DEF Alone

\* No other procedure notices gatt_exchange_mtu.
LEMMA ExchangeMtuOthers ==
    ASSUME TypeOK, ExchangeMtu, NEW p \in Procs
    PROVE  Alone(p)
<1>1. PICK q \in Req : q = Request("client", "mtu", 0, <<>>) /\ q.p = "client"
  BY MtuRequest
<1>2. Fewer(p)
  BY <1>1, Classes, FewerAppend DEF ExchangeMtu
<1>3. Idle(p)
  BY DEF ExchangeMtu, client, history, Idle
<1> QED
  BY <1>2, <1>3 DEF Alone

\* No other procedure notices read_char_helper.
LEMMA ReadCharHelperOthers ==
    ASSUME TypeOK, NEW r \in Readers, NEW res \in {"ok", "error"}, ReadCharHelper(r, res),
           NEW p \in Procs, p # r
    PROVE  Alone(p)
<1>1. Answer("read", res) /\ Head(reqs).p = r
  BY DEF ReadCharHelper
<1>2. reqs # <<>> /\ Head(reqs).p # p
  BY <1>1, AnswerType
<1>3. value \in Seq(Byte) /\ mtu - 1 \in Nat
  BY MtuFacts DEF TypeOK
<1>4. PICK v \in Seq(Byte) : v = Slice(value, 0, mtu - 1)
  BY <1>3, SliceFacts
<1>5. PICK q \in Req : q = Request(r, "blob", Len(v), <<>>) /\ q.p = r
  BY BareRequest, Classes
<1>6. reqs' = Append(Tail(reqs), q) \/ reqs' = Tail(reqs)
  BY <1>4, <1>5 DEF ReadCharHelper
<1>7. Fewer(p)
  BY <1>2, <1>5, <1>6, FewerTail, FewerTailAppend
<1>8. Idle(p)
  BY Classes DEF TypeOK, ReadCharHelper, Idle
<1> QED
  BY <1>7, <1>8 DEF Alone

\* No other procedure notices read_blob_helper.
LEMMA ReadBlobHelperOthers ==
    ASSUME TypeOK, NEW r \in Readers, NEW res \in {"ok", "error"}, ReadBlobHelper(r, res),
           NEW p \in Procs, p # r
    PROVE  Alone(p)
<1>1. Answer("blob", res) /\ Head(reqs).p = r
  BY DEF ReadBlobHelper
<1>2. reqs # <<>> /\ Head(reqs).p # p
  BY <1>1, AnswerType
<1>3. value \in Seq(Byte) /\ mtu - 1 \in Nat /\ <<>> \in Seq(Byte)
  BY MtuFacts, EmptySeq DEF TypeOK
<1>4. PICK o \in Nat : o = Head(reqs).arg
  BY <1>2, HeadReq
<1>5. PICK v \in Seq(Byte) : v = IF res = "ok" THEN Slice(value, o, mtu - 1) ELSE <<>>
  BY <1>3, SliceFacts
<1>6. o + Len(v) \in Nat
  OBVIOUS
<1>7. PICK q \in Req : q = Request(r, "blob", o + Len(v), <<>>) /\ q.p = r
  BY <1>6, BareRequest, Classes
<1>8. reqs' = Append(Tail(reqs), q) \/ reqs' = Tail(reqs)
  BY <1>4, <1>5, <1>7 DEF ReadBlobHelper
<1>9. Fewer(p)
  BY <1>2, <1>7, <1>8, FewerTail, FewerTailAppend
<1>10. Idle(p)
  BY Classes DEF TypeOK, ReadBlobHelper, Idle
<1> QED
  BY <1>9, <1>10 DEF Alone

\* No other procedure notices the answer to a Write Request.
LEMMA WriteDoneOthers ==
    ASSUME TypeOK, NEW w \in Writers, NEW res \in {"ok", "error"}, WriteDone(w, res),
           NEW p \in Procs, p # w
    PROVE  Alone(p)
<1>1. reqs # <<>> /\ Head(reqs).p # p
  BY AnswerType DEF WriteDone
<1>2. Fewer(p)
  BY <1>1, FewerTail DEF WriteDone
<1>3. Idle(p)
  BY Classes DEF TypeOK, WriteDone, client, Idle
<1> QED
  BY <1>2, <1>3 DEF Alone

\* No other procedure notices prepare_write_cb.
LEMMA PrepareWriteCbOthers ==
    ASSUME TypeOK, NEW w \in Writers, NEW res \in {"ok", "error"}, PrepareWriteCb(w, res),
           NEW p \in Procs, p # w
    PROVE  Alone(p)
<1>1. reqs # <<>> /\ Head(reqs).p # p
  BY AnswerType DEF PrepareWriteCb
<1>2. Head(reqs).part \in Seq(Byte)
  BY <1>1, HeadReq
<1>3. offset \in [Writers -> Nat] /\ data \in [Writers -> Seq(Byte)]
  BY DEF TypeOK
<1>4. PICK o \in Nat : o = offset[w] + Len(Head(reqs).part)
  BY <1>2, <1>3
<1>5. Request(w, "execute", 0, <<>>) \in Req /\ Request(w, "execute", 0, <<>>).p = w
  BY BareRequest, Classes
<1>6. PrepareRequest(w, data[w], o, mtu) \in Req /\ PrepareRequest(w, data[w], o, mtu).p = w
  BY <1>3, MtuFacts, PrepareRequestType
<1>7. reqs' = IF res # "ok" THEN Tail(reqs)
               ELSE Append(Tail(reqs), IF o = Len(data[w])
                                       THEN Request(w, "execute", 0, <<>>)
                                       ELSE PrepareRequest(w, data[w], o, mtu))
  BY <1>4 DEF PrepareWriteCb
<1>8. PICK q \in Req : q.p = w /\ (reqs' = Tail(reqs) \/ reqs' = Append(Tail(reqs), q))
  BY <1>5, <1>6, <1>7
<1>9. Fewer(p)
  BY <1>1, <1>8, FewerTail, FewerTailAppend
<1>10. Idle(p)
  BY Classes DEF TypeOK, PrepareWriteCb, Idle
<1> QED
  BY <1>9, <1>10 DEF Alone

\* No other procedure notices the answer to a reliable write.
LEMMA ReliableDoneOthers ==
    ASSUME TypeOK, NEW w \in Writers, NEW res \in {"ok", "error"}, ReliableDone(w, res),
           NEW p \in Procs, p # w
    PROVE  Alone(p)
<1>1. reqs # <<>> /\ Head(reqs).p # p
  BY AnswerType DEF ReliableDone
<1>2. reqs' = Tail(reqs)
  BY DEF ReliableDone
<1>3. Fewer(p)
  BY <1>1, <1>2, FewerTail
<1>4. Idle(p)
  BY Classes DEF TypeOK, ReliableDone, client, Idle
<1> QED
  BY <1>3, <1>4 DEF Alone

\* No other procedure notices the answer to an Execute Write.
LEMMA ExecuteDoneOthers ==
    ASSUME TypeOK, NEW w \in Writers, NEW op, NEW res \in {"ok", "error"},
           ExecuteDone(w, op, res), NEW p \in Procs, p # w
    PROVE  Alone(p)
<1>1. reqs # <<>> /\ Head(reqs).p # p
  BY AnswerType DEF ExecuteDone
<1>2. Fewer(p)
  BY <1>1, FewerTail DEF ExecuteDone
<1>3. Idle(p)
  BY Classes DEF TypeOK, ExecuteDone, client, Idle
<1> QED
  BY <1>2, <1>3 DEF Alone

\* No other procedure notices the answer to Exchange MTU.
LEMMA MtuDoneOthers ==
    ASSUME TypeOK, AllFitting, NEW res, MtuDone(res), NEW p \in Procs
    PROVE  Alone(p)
<1>4. reqs # <<>> /\ Head(reqs).op = "mtu"
  BY AnswerType DEF MtuDone
<1>5. Fitting(Head(reqs))
  BY <1>4, HeadReq DEF AllFitting
<1>1. reqs # <<>> /\ Head(reqs).p # p
  BY <1>4, <1>5, Classes DEF Fitting
<1>2. Fewer(p)
  BY <1>1, FewerTail DEF MtuDone
<1>3. Idle(p)
  BY DEF MtuDone, Idle
<1> QED
  BY <1>2, <1>3 DEF Alone

\* No other procedure notices a write command that arrives.
LEMMA TakeCmdOthers ==
    ASSUME TypeOK, NEW w, TakeCmd(w), NEW p \in Procs
    PROVE  Alone(p)
<1>1. Fewer(p)
  BY FewerSame DEF TakeCmd
<1>2. Idle(p)
  BY DEF TakeCmd, client, Idle
<1> QED
  BY <1>1, <1>2 DEF Alone

\* No other procedure notices the loss of the link.
LEMMA HangUpOthers ==
    ASSUME TypeOK, NEW done, HangUp(done), NEW p \in Procs
    PROVE  Alone(p)
<1>1. Fewer(p)
  BY FewerSame DEF HangUp
<1>2. Idle(p)
  BY DEF HangUp, client, Idle
<1> QED
  BY <1>1, <1>2 DEF Alone

\* No other procedure notices the end of a search's callback.
LEMMA EndFindOthers ==
    ASSUME TypeOK, reqs # <<>>, NEW f \in Finders, Head(reqs).p = f, NEW more \in Seq(Req),
           \A k \in 1..Len(more) : more[k].p = f, NEW e, EndFind(f, more, e),
           NEW p \in Procs, p # f
    PROVE  Fewer(p) /\ st'[p] = st[p] /\ (p \in Finders => err'[p] = err[p])
<1>1. Fewer(p)
  BY FewerTailCat DEF EndFind
<1> QED
  BY <1>1 DEF TypeOK, EndFind

\* No other procedure notices find_included_cb with a list.
LEMMA FindIncludedCbOthers ==
    ASSUME TypeOK, NEW f \in Finders, NEW list, IsList(list), FindIncludedCb(f, list),
           NEW p \in Procs, p # f
    PROVE  Alone(p)
<1>1. reqs # <<>> /\ Head(reqs).p = f
  BY AnswerType, FindIncludedCbIs
<1>2. PICK more \in Seq(Req) : /\ more = MoreOf(f, list)
                               /\ \A k \in 1..Len(more) : more[k].p = f
  BY MoreOfFacts
<1>3. EndFind(f, more, list[Len(list)] < start[f])
  BY <1>2, FindIncludedCbIs DEF MoreOf
<1>4. Fewer(p) /\ st'[p] = st[p] /\ (p \in Finders => err'[p] = err[p])
  BY <1>1, <1>2, <1>3, EndFindOthers
<1>5. /\ includes' = IF Decls[list[1]] = 6 THEN includes
                     ELSE [includes EXCEPT ![f] = @ \o list]
      /\ start' = IF list[Len(list)] < start[f] THEN start
                  ELSE [start EXCEPT ![f] = list[Len(list)] + 1]
      /\ UNCHANGED <<got, data, offset, seen, hit>>
  BY FindIncludedCbIs
<1>6. p \in Finders => start'[p] = start[p] /\ includes'[p] = includes[p]
  BY <1>5 DEF TypeOK
<1>7. Idle(p)
  BY <1>4, <1>5, <1>6 DEF Idle
<1> QED
  BY <1>4, <1>7 DEF Alone

\* No other procedure notices find_included_cb with a status.
LEMMA FindIncludedEndOthers ==
    ASSUME TypeOK, NEW f \in Finders, NEW res, FindIncludedEnd(f, res),
           NEW p \in Procs, p # f
    PROVE  Alone(p)
<1>1. reqs # <<>> /\ Head(reqs).p = f
  BY AnswerType DEF FindIncludedEnd
<1>2. <<>> \in Seq(Req) /\ \A k \in 1..Len(<<>>) : <<>>[k].p = f
  BY EmptySeq
<1>3. EndFind(f, <<>>, res # "not found")
  BY DEF FindIncludedEnd
<1>4. Fewer(p) /\ st'[p] = st[p] /\ (p \in Finders => err'[p] = err[p])
  BY <1>1, <1>2, <1>3, EndFindOthers
<1>5. Idle(p)
  BY <1>4 DEF FindIncludedEnd, Idle
<1> QED
  BY <1>4, <1>5 DEF Alone

\* No other procedure notices resolve_included_uuid_cb.
LEMMA ResolveIncludedCbOthers ==
    ASSUME TypeOK, NEW f \in Finders, NEW res, ResolveIncludedCb(f, res),
           NEW p \in Procs, p # f
    PROVE  Alone(p)
<1>1. reqs # <<>> /\ Head(reqs).p = f
  BY AnswerType DEF ResolveIncludedCb
<1>2. <<>> \in Seq(Req) /\ \A k \in 1..Len(<<>>) : <<>>[k].p = f
  BY EmptySeq
<1>3. EndFind(f, <<>>, res # "ok")
  BY DEF ResolveIncludedCb
<1>4. Fewer(p) /\ st'[p] = st[p] /\ (p \in Finders => err'[p] = err[p])
  BY <1>1, <1>2, <1>3, EndFindOthers
<1>5. Idle(p)
  BY <1>4 DEF TypeOK, ResolveIncludedCb, Idle
<1> QED
  BY <1>4, <1>5 DEF Alone

-----------------------------------------------------------------------------
(* The queue: who has requests in it, and which *)

Absent(p) == \A i \in 1..Len(reqs) : reqs[i].p # p

\* The only request of p is q, the last of the queue.
Sole(p, q) == \A i \in 1..Len(reqs) : reqs[i].p = p => i = Len(reqs) /\ reqs[i] = q

\* The part of the invariant that the others rest on.
QueueInv ==
    /\ TypeOK /\ AllFitting
    /\ \A p \in Procs : Busy(p)
    /\ \A p \in Readers \cup Writers : Unique(p)
    /\ ~up => prep = <<>>

\* The requests stay fitting when the queue grows,
LEMMA FitAppend ==
    ASSUME TypeOK, AllFitting, NEW q \in Req, Fitting(q), reqs' = Append(reqs, q)
    PROVE  AllFitting'
<1>1. reqs \in Seq(Req)
  BY DEF TypeOK
<1>2. PICK n \in Nat : n = Len(reqs)
  BY <1>1
<1>3. Len(reqs') = n + 1 /\ reqs'[n + 1] = q /\ \A i \in 1..n : reqs'[i] = reqs[i]
  BY <1>1, <1>2, AppendAt
<1>4. \A i \in 1..(n + 1) : i \in 1..n \/ i = n + 1
  OBVIOUS
<1>5. \A i \in 1..(n + 1) : Fitting(reqs'[i])
  BY <1>2, <1>3, <1>4 DEF AllFitting
<1> QED
  BY <1>3, <1>5 DEF AllFitting, Fitting

\* when its head is answered with more,
LEMMA FitTailCat ==
    ASSUME TypeOK, AllFitting, reqs # <<>>, NEW more \in Seq(Req),
           reqs' = Tail(reqs) \o more, \A k \in 1..Len(more) : Fitting(more[k])
    PROVE  AllFitting'
<1>1. reqs \in Seq(Req)
  BY DEF TypeOK
<1>2. /\ \A i \in 1..Len(reqs') : i <= Len(reqs) - 1 =>
             i + 1 \in 2..Len(reqs) /\ reqs'[i] = reqs[i + 1]
      /\ \A i \in 1..Len(reqs') : i > Len(reqs) - 1 =>
             i - (Len(reqs) - 1) \in 1..Len(more) /\ reqs'[i] = more[i - (Len(reqs) - 1)]
      /\ Len(reqs) \in Nat /\ Len(reqs') \in Nat
  BY <1>1, TailCat
<1>3. PICK n \in Nat : n = Len(reqs)
  BY <1>2
<1>4. PICK m \in Nat : m = Len(reqs')
  BY <1>2
<1>5. \A i \in 1..m : i <= n - 1 \/ i > n - 1
  OBVIOUS
<1>6. \A i \in 2..n : i \in 1..n /\ Fitting(reqs[i])
  BY <1>3 DEF AllFitting
<1>7. \A i \in 1..m : Fitting(reqs'[i])
  BY <1>2, <1>3, <1>4, <1>5, <1>6
<1> QED
  BY <1>4, <1>7 DEF AllFitting, Fitting

\* with none,
LEMMA FitTail ==
    ASSUME TypeOK, AllFitting, reqs # <<>>, reqs' = Tail(reqs)
    PROVE  AllFitting'
<1>1. reqs' = Tail(reqs) \o <<>> /\ <<>> \in Seq(Req) /\ Len(<<>>) = 0
  BY TailForms
<1>2. PICK more \in Seq(Req) : more = <<>>
  BY <1>1
<1>3. reqs' = Tail(reqs) \o more /\ \A k \in 1..Len(more) : Fitting(more[k])
  BY <1>1, <1>2
<1> QED
  BY <1>3, FitTailCat

\* or with one.
LEMMA FitTailAppend ==
    ASSUME TypeOK, AllFitting, reqs # <<>>, NEW q \in Req, Fitting(q),
           reqs' = Append(Tail(reqs), q)
    PROVE  AllFitting'
<1>1. /\ reqs' = Tail(reqs) \o <<q>>
      /\ <<q>> \in Seq(Req) /\ Len(<<q>>) = 1 /\ <<q>>[1] = q
  BY TailForms
<1>2. PICK more \in Seq(Req) : more = <<q>>
  BY <1>1
<1>3. reqs' = Tail(reqs) \o more /\ \A k \in 1..Len(more) : Fitting(more[k])
  BY <1>1, <1>2
<1> QED
  BY <1>3, FitTailCat

\* The requests of p after p has added one to none.
LEMMA OwnAppend ==
    ASSUME TypeOK, NEW q \in Req, reqs' = Append(reqs, q),
           NEW p, q.p = p, Busy(p), st[p] # "run"
    PROVE  Sole(p, q)' /\ Absent(p) /\ Unique(p)'
<1>1. reqs \in Seq(Req)
  BY DEF TypeOK
<1>2. PICK n \in Nat : n = Len(reqs)
  BY <1>1
<1>3. Len(reqs') = n + 1 /\ reqs'[n + 1] = q /\ \A i \in 1..n : reqs'[i] = reqs[i]
  BY <1>1, <1>2, AppendAt
<1>4. \A i \in 1..n : reqs[i].p # p
  BY <1>2 DEF Busy
<1>5. \A i \in 1..(n + 1) : i \in 1..n \/ i = n + 1
  OBVIOUS
<1>6. \A i \in 1..(n + 1) : reqs'[i].p = p => i = n + 1 /\ reqs'[i] = q
  BY <1>3, <1>4, <1>5
<1> QED
  BY <1>2, <1>3, <1>4, <1>6 DEF Sole, Absent, Unique

\* After p's only request was answered the rest of the queue is not p's.
LEMMA OwnRest ==
    ASSUME TypeOK, reqs # <<>>, NEW p, Head(reqs).p = p, Unique(p)
    PROVE  \A i \in 2..Len(reqs) : reqs[i].p # p
<1>1. Head(reqs) = reqs[1] /\ 1 \in 1..Len(reqs) /\ Len(reqs) \in Nat
  BY HeadReq DEF TypeOK
<1>2. \A i \in 2..Len(reqs) : i \in 1..Len(reqs) /\ i # 1
  BY <1>1
<1> QED
  BY <1>1, <1>2 DEF Unique

\* After the answer to the only request of p the queue has the new ones of p,
LEMMA OwnTailCat ==
    ASSUME TypeOK, reqs # <<>>, NEW p, Head(reqs).p = p, Unique(p),
           NEW more \in Seq(Req), reqs' = Tail(reqs) \o more
    PROVE  /\ \A i \in 1..Len(reqs') : reqs'[i].p = p =>
                  /\ i > Len(reqs) - 1 /\ i - (Len(reqs) - 1) \in 1..Len(more)
                  /\ reqs'[i] = more[i - (Len(reqs) - 1)]
           /\ Len(reqs') = Len(reqs) - 1 + Len(more)
           /\ Len(reqs) \in Nat
<1>1. reqs \in Seq(Req)
  BY DEF TypeOK
<1>2. /\ \A i \in 1..Len(reqs') : i <= Len(reqs) - 1 =>
             i + 1 \in 2..Len(reqs) /\ reqs'[i] = reqs[i + 1]
      /\ \A i \in 1..Len(reqs') : i > Len(reqs) - 1 =>
             i - (Len(reqs) - 1) \in 1..Len(more) /\ reqs'[i] = more[i - (Len(reqs) - 1)]
      /\ Len(reqs') = Len(reqs) - 1 + Len(more)
      /\ Len(reqs) \in Nat /\ Len(reqs') \in Nat
  BY <1>1, TailCat
<1>3. \A i \in 2..Len(reqs) : reqs[i].p # p
  BY OwnRest
<1>4. \A i \in 1..Len(reqs') : i <= Len(reqs) - 1 \/ i > Len(reqs) - 1
  BY <1>2
<1> QED
  BY <1>2, <1>3, <1>4

\* none of them,
LEMMA OwnTail ==
    ASSUME TypeOK, reqs # <<>>, NEW p, Head(reqs).p = p, Unique(p), reqs' = Tail(reqs)
    PROVE  Absent(p)' /\ Unique(p)'
<1>1. reqs' = Tail(reqs) \o <<>> /\ <<>> \in Seq(Req) /\ Len(<<>>) = 0
  BY TailForms
<1>2. PICK more \in Seq(Req) : more = <<>>
  BY <1>1
<1>3. \A k \in 1..Len(more) : FALSE
  BY <1>1, <1>2
<1>4. \A i \in 1..Len(reqs') : reqs'[i].p # p
  BY <1>1, <1>2, <1>3, OwnTailCat
<1> QED
  BY <1>4 DEF Absent, Unique

\* one,
LEMMA OwnTailAppend ==
    ASSUME TypeOK, reqs # <<>>, NEW p, Head(reqs).p = p, Unique(p),
           NEW q \in Req, reqs' = Append(Tail(reqs), q)
    PROVE  Sole(p, q)' /\ Unique(p)' /\ (q.p # p => Absent(p)')
<1>1. /\ reqs' = Tail(reqs) \o <<q>>
      /\ <<q>> \in Seq(Req) /\ Len(<<q>>) = 1 /\ <<q>>[1] = q
  BY TailForms
<1>2. PICK more \in Seq(Req) : more = <<q>>
  BY <1>1
<1>3. PICK n \in Nat : n = Len(reqs)
  BY DEF TypeOK
<1>4. /\ \A i \in 1..Len(reqs') : reqs'[i].p = p =>
                  /\ i - (n - 1) \in 1..1 /\ reqs'[i] = more[i - (n - 1)]
      /\ Len(reqs') = n - 1 + 1
  BY <1>1, <1>2, <1>3, OwnTailCat
<1>5. \A i \in Int : i - (n - 1) \in 1..1 => i - (n - 1) = 1 /\ i = n
  OBVIOUS
<1>6. Len(reqs') = n
  BY <1>4
<1>7. \A i \in 1..Len(reqs') : reqs'[i].p = p => i = n /\ reqs'[i] = q
  BY <1>1, <1>2, <1>4, <1>5
<1> QED
  BY <1>6, <1>7 DEF Sole, Unique, Absent

\* What holds of the requests of p holds after a step that leaves p alone.
LEMMA AloneKeeps ==
    ASSUME NEW p, Alone(p), TypeOK, TypeOK'
    PROVE  (Busy(p) => Busy(p)') /\ (Unique(p) => Unique(p)')
<1>1. PICK k \in {0, 1} : \A i \in 1..Len(reqs') : reqs'[i].p = p =>
          i + k \in 1..Len(reqs) /\ reqs'[i] = reqs[i + k]
  BY DEF Alone, Fewer
<1>2. Busy(p) => Busy(p)'
  BY <1>1 DEF Busy, Alone, Idle
<1>3. ASSUME Unique(p) PROVE Unique(p)'
  <2>1. Len(reqs') \in Nat
    BY DEF TypeOK
  <2>2. \A i, j \in 1..Len(reqs') : reqs'[i].p = p /\ reqs'[j].p = p => i + k = j + k
    BY <1>1, <1>3 DEF Unique
  <2>3. \A i, j \in 1..Len(reqs') : i + k = j + k => i = j
    BY <2>1
  <2>4. \A i, j \in 1..Len(reqs') : reqs'[i].p = p /\ reqs'[j].p = p => i = j
    BY <2>2, <2>3
  <2> QED
    BY <2>4 DEF Unique
<1> QED
  BY <1>2, <1>3

\* The steps of each kind of procedure, and those of nobody.
OwnRead(r) ==
    \/ ReadChar(r)
    \/ \E res \in {"ok", "error"} : ReadCharHelper(r, res) \/ ReadBlobHelper(r, res)

OwnWrite(w) ==
    \/ \E n \in WriteLens : WriteChar(w, n) \/ ReliableWriteChar(w, n) \/ WriteCmd(w, n)
    \/ \E op \in {"execute", "cancel"} : ExecuteWrite(w, op)
    \/ \E res \in {"ok", "error"} :
           \/ WriteDone(w, res) \/ PrepareWriteCb(w, res) \/ ReliableDone(w, res)
           \/ \E op \in {"execute", "cancel"} : ExecuteDone(w, op, res)

\* The list is one that a search may be answered with.
Answered(f, list) ==
    \/ reqs # <<>> /\ list \in Lists(Head(reqs).arg)
    \/ \E h \in DOMAIN Decls : h < start[f] /\ list = <<h>>

OwnFind(f) ==
    \/ FindIncluded(f)
    \/ \E list : IsList(list) /\ Answered(f, list) /\ FindIncludedCb(f, list)
    \/ \E res \in {"not found", "error"} : FindIncludedEnd(f, res)
    \/ \E res \in {"ok", "error"} : ResolveIncludedCb(f, res)

Common ==
    \/ ExchangeMtu
    \/ \E res \in {"ok", "error"} : MtuDone(res)
    \/ \E w \in Writers : TakeCmd(w)
    \/ \E done \in BOOLEAN : HangUp(done)

\* Every step is one of these.
LEMMA StepKinds ==
    ASSUME TypeOK, Next
    PROVE  \/ \E r \in Readers : OwnRead(r)
           \/ \E w \in Writers : OwnWrite(w)
           \/ \E f \in Finders : OwnFind(f)
           \/ Common
<1>1. CASE Client
  BY <1>1 DEF Client, OwnRead, OwnWrite, OwnFind, Common
<1>2. CASE Callback
  BY <1>2 DEF Callback, OwnRead, OwnWrite, OwnFind, Common
<1>3. CASE FindCallback
  <2>1. PICK f \in Finders :
        \/ \E list \in IF reqs = <<>> THEN {} ELSE Lists(Head(reqs).arg) :
               FindIncludedCb(f, list)
        \/ \E h \in DOMAIN Decls : h < start[f] /\ FindIncludedCb(f, <<h>>)
        \/ \E res \in {"not found", "error"} : FindIncludedEnd(f, res)
    BY <1>3 DEF FindCallback
  <2>2. CASE \E list \in IF reqs = <<>> THEN {} ELSE Lists(Head(reqs).arg) :
               FindIncludedCb(f, list)
    <3>1. PICK list : reqs # <<>> /\ list \in Lists(Head(reqs).arg) /\ FindIncludedCb(f, list)
      BY <2>2
    <3>2. IsList(list)
      BY <3>1, HeadReq, ListsFacts
    <3>3. OwnFind(f)
      BY <3>1, <3>2 DEF OwnFind, Answered
    <3> QED
      BY <3>3
  <2>3. CASE \E h \in DOMAIN Decls : h < start[f] /\ FindIncludedCb(f, <<h>>)
    <3>1. PICK h \in DOMAIN Decls : h < start[f] /\ FindIncludedCb(f, <<h>>)
      BY <2>3
    <3>2. PICK list : list = <<h>>
      OBVIOUS
    <3>3. IsList(list) /\ Answered(f, list) /\ FindIncludedCb(f, list)
      BY <3>1, <3>2, BackList DEF Answered
    <3>4. OwnFind(f)
      BY <3>3 DEF OwnFind
    <3> QED
      BY <3>4
  <2>4. CASE \E res \in {"not found", "error"} : FindIncludedEnd(f, res)
    BY <2>4 DEF OwnFind
  <2> QED
    BY <2>1, <2>2, <2>3, <2>4
<1>4. CASE (\E w \in Writers : TakeCmd(w)) \/ (\E done \in BOOLEAN : HangUp(done))
  BY <1>4 DEF Common
<1> QED
  BY <1>1, <1>2, <1>3, <1>4 DEF Next

\* Each of them leaves all others alone.
LEMMA OwnOthers ==
    ASSUME TypeOK, AllFitting, NEW p \in Procs
    PROVE  /\ \A r \in Readers : OwnRead(r) /\ p # r => Alone(p)
           /\ \A w \in Writers : OwnWrite(w) /\ p # w => Alone(p)
           /\ \A f \in Finders : OwnFind(f) /\ p # f => Alone(p)
           /\ Common => Alone(p)
<1>1. \A r \in Readers : OwnRead(r) /\ p # r => Alone(p)
  BY ReadCharOthers, ReadCharHelperOthers, ReadBlobHelperOthers DEF OwnRead
<1>2. \A w \in Writers : OwnWrite(w) /\ p # w => Alone(p)
  BY WriteCharOthers, ReliableWriteCharOthers, WriteCmdOthers, ExecuteWriteOthers,
     WriteDoneOthers, PrepareWriteCbOthers, ReliableDoneOthers, ExecuteDoneOthers
     DEF OwnWrite
<1>3. \A f \in Finders : OwnFind(f) /\ p # f => Alone(p)
  BY FindIncludedOthers, FindIncludedCbOthers, FindIncludedEndOthers,
     ResolveIncludedCbOthers DEF OwnFind
<1>4. Common => Alone(p)
  BY ExchangeMtuOthers, MtuDoneOthers, TakeCmdOthers, HangUpOthers
     DEF Common
<1> QED
  BY <1>1, <1>2, <1>3, <1>4

\* A procedure is left alone by every step but its own.
LEMMA AloneOrOwn ==
    ASSUME TypeOK, AllFitting, Next, NEW p \in Procs
    PROVE  \/ Alone(p)
           \/ p \in Readers /\ OwnRead(p)
           \/ p \in Writers /\ OwnWrite(p)
           \/ p \in Finders /\ OwnFind(p)
  BY StepKinds, OwnOthers

\* The types after a step.
LEMMA TypeStep ==
    ASSUME TypeOK, AllFitting, Next
    PROVE  TypeOK'
<1>1. CASE \E r \in Readers : OwnRead(r)
  BY <1>1, ReadCharType, ReadCharHelperType, ReadBlobHelperType DEF OwnRead
<1>2. CASE \E w \in Writers : OwnWrite(w)
  BY <1>2, WriteCharType, ReliableWriteCharType, WriteCmdType, ExecuteWriteType,
     WriteDoneType, PrepareWriteCbType, ReliableDoneType, ExecuteDoneType DEF OwnWrite
<1>3. CASE \E f \in Finders : OwnFind(f)
  BY <1>3, FindIncludedType, FindIncludedCbType, FindIncludedEndType,
     ResolveIncludedCbType DEF OwnFind
<1>4. CASE Common
  BY <1>4, ExchangeMtuType, MtuDoneType, TakeCmdType, HangUpType
     DEF Common
<1> QED
  BY <1>1, <1>2, <1>3, <1>4, StepKinds

\* What a read does to the queue.
LEMMA ReadQueue ==
    ASSUME QueueInv, NEW r \in Readers, OwnRead(r)
    PROVE  AllFitting' /\ Busy(r)' /\ Unique(r)'
<1>1. TypeOK /\ AllFitting /\ Busy(r) /\ Unique(r) /\ r \in Procs
  BY Classes DEF QueueInv
<1>2. ASSUME ReadChar(r) PROVE AllFitting' /\ Busy(r)' /\ Unique(r)'
  <2>1. PICK q \in Req : q = Request(r, "read", 0, <<>>) /\ q.p = r /\ q.op = "read"
    BY <1>1, BareRequest
  <2>2. Fitting(q)
    BY <2>1, Classes DEF Fitting
  <2>3. reqs' = Append(reqs, q) /\ st[r] # "run" /\ st'[r] = "run"
    BY <1>1, <1>2, <2>1 DEF ReadChar, Starts, TypeOK
  <2>4. AllFitting'
    BY <1>1, <2>2, <2>3, FitAppend
  <2>5. Unique(r)'
    BY <1>1, <2>1, <2>3, OwnAppend
  <2> QED
    BY <2>3, <2>4, <2>5 DEF Busy
<1>3. ASSUME NEW q \in Req, q.p = r, q.op = "blob", reqs # <<>>, Head(reqs).p = r,
             \/ reqs' = Tail(reqs)
             \/ reqs' = Append(Tail(reqs), q) /\ st'[r] = "run"
      PROVE  AllFitting' /\ Busy(r)' /\ Unique(r)'
  <2>1. Fitting(q)
    BY <1>3, Classes DEF Fitting
  <2>2. CASE reqs' = Tail(reqs)
    <3>1. AllFitting' /\ Absent(r)' /\ Unique(r)'
      BY <1>1, <1>3, <2>2, FitTail, OwnTail
    <3> QED
      BY <3>1 DEF Absent, Busy
  <2>3. CASE reqs' = Append(Tail(reqs), q) /\ st'[r] = "run"
    <3>1. AllFitting' /\ Unique(r)'
      BY <1>1, <1>3, <2>1, <2>3, FitTailAppend, OwnTailAppend
    <3> QED
      BY <3>1, <2>3 DEF Busy
  <2> QED
    BY <1>3, <2>2, <2>3
<1>4. ASSUME NEW res \in {"ok", "error"}, ReadCharHelper(r, res)
      PROVE  AllFitting' /\ Busy(r)' /\ Unique(r)'
  <2>1. reqs # <<>> /\ Head(reqs).p = r
    BY <1>1, <1>4, AnswerType DEF ReadCharHelper
  <2>2. value \in Seq(Byte) /\ mtu - 1 \in Nat
    BY <1>1, MtuFacts DEF TypeOK
  <2>3. PICK v \in Seq(Byte) : v = Slice(value, 0, mtu - 1)
    BY <2>2, SliceFacts
  <2>4. PICK q \in Req : q = Request(r, "blob", Len(v), <<>>) /\ q.p = r /\ q.op = "blob"
    BY <1>1, BareRequest
  <2>5. \/ reqs' = Tail(reqs)
        \/ reqs' = Append(Tail(reqs), q) /\ st'[r] = "run"
    BY <1>1, <1>4, <2>3, <2>4 DEF ReadCharHelper, TypeOK
  <2> QED
    BY <1>3, <2>1, <2>4, <2>5
<1>5. ASSUME NEW res \in {"ok", "error"}, ReadBlobHelper(r, res)
      PROVE  AllFitting' /\ Busy(r)' /\ Unique(r)'
  <2>1. reqs # <<>> /\ Head(reqs).p = r
    BY <1>1, <1>5, AnswerType DEF ReadBlobHelper
  <2>2. value \in Seq(Byte) /\ mtu - 1 \in Nat /\ <<>> \in Seq(Byte)
    BY <1>1, MtuFacts, EmptySeq DEF TypeOK
  <2>3. PICK o \in Nat : o = Head(reqs).arg
    BY <1>1, <2>1, HeadReq
  <2>4. PICK v \in Seq(Byte) : v = IF res = "ok" THEN Slice(value, o, mtu - 1) ELSE <<>>
    BY <2>2, SliceFacts
  <2>5. o + Len(v) \in Nat
    OBVIOUS
  <2>6. PICK q \in Req : q = Request(r, "blob", o + Len(v), <<>>) /\ q.p = r /\ q.op = "blob"
    BY <1>1, <2>5, BareRequest
  <2>7. \/ reqs' = Tail(reqs)
        \/ reqs' = Append(Tail(reqs), q) /\ st'[r] = "run"
    BY <1>1, <1>5, <2>3, <2>4, <2>6 DEF ReadBlobHelper, TypeOK
  <2> QED
    BY <1>3, <2>1, <2>6, <2>7
<1> QED
  BY <1>2, <1>4, <1>5 DEF OwnRead

\* What a write does to the queue.
LEMMA WriteQueue ==
    ASSUME QueueInv, NEW w \in Writers, OwnWrite(w)
    PROVE  AllFitting' /\ Busy(w)' /\ Unique(w)'
<1>1. TypeOK /\ AllFitting /\ Busy(w) /\ Unique(w) /\ w \in Procs /\ w \in Procs \cup {"client"}
  BY Classes DEF QueueInv
<1>2. ASSUME NEW q \in Req, q.p = w,
             q.op \in {"write", "prep", "reliable", "execute", "cancel"},
             reqs' = Append(reqs, q), st[w] # "run", st'[w] = "run"
      PROVE  AllFitting' /\ Busy(w)' /\ Unique(w)'
  <2>1. Fitting(q)
    BY <1>2, Classes DEF Fitting
  <2>2. AllFitting'
    BY <1>1, <1>2, <2>1, FitAppend
  <2>3. Unique(w)'
    BY <1>1, <1>2, OwnAppend
  <2> QED
    BY <1>2, <2>2, <2>3 DEF Busy
<1>3. ASSUME reqs # <<>>, Head(reqs).p = w,
             reqs' = Tail(reqs)
      PROVE  AllFitting' /\ Busy(w)' /\ Unique(w)'
  <2>1. AllFitting' /\ Absent(w)' /\ Unique(w)'
    BY <1>1, <1>3, FitTail, OwnTail
  <2> QED
    BY <2>1 DEF Absent, Busy
<1>4. ASSUME NEW n \in WriteLens, WriteChar(w, n)
      PROVE  AllFitting' /\ Busy(w)' /\ Unique(w)'
  <2>1. n \in Nat /\ Bytes(w, n) \in Seq(Byte) /\ mtu \in Nat /\ mtu > 5
    BY <1>1, BytesType, LengthAssumption, MtuFacts
  <2>2. PICK a \in Req : /\ a = Request(w, "write", 0, Bytes(w, n))
                         /\ a.p = w /\ a.op = "write"
    BY <1>1, <2>1, RequestType
  <2>3. PICK b \in Req : /\ b = PrepareRequest(w, Bytes(w, n), 0, mtu)
                         /\ b.p = w /\ b.op = "prep"
    BY <2>1, PrepareRequestType
  <2>4. reqs' = Append(reqs, a) \/ reqs' = Append(reqs, b)
    BY <1>4, <2>2, <2>3 DEF WriteChar
  <2>5. st[w] # "run" /\ st'[w] = "run"
    BY <1>1, <1>4 DEF WriteChar, Starts, TypeOK
  <2> QED
    BY <1>2, <2>2, <2>3, <2>4, <2>5
<1>5. ASSUME NEW n \in WriteLens, ReliableWriteChar(w, n)
      PROVE  AllFitting' /\ Busy(w)' /\ Unique(w)'
  <2>1. n \in Nat /\ Bytes(w, n) \in Seq(Byte) /\ mtu - 5 \in Nat
    BY <1>1, BytesType, LengthAssumption, MtuFacts
  <2>2. PICK d \in Seq(Byte) : d = Slice(Bytes(w, n), 0, mtu - 5)
    BY <2>1, SliceFacts
  <2>3. PICK q \in Req : q = Request(w, "reliable", 0, d) /\ q.p = w /\ q.op = "reliable"
    BY <1>1, RequestType
  <2>4. reqs' = Append(reqs, q)
    BY <1>5, <2>2, <2>3 DEF ReliableWriteChar
  <2>5. st[w] # "run" /\ st'[w] = "run"
    BY <1>1, <1>5 DEF ReliableWriteChar, Starts, TypeOK
  <2> QED
    BY <1>2, <2>3, <2>4, <2>5
<1>6. ASSUME NEW n \in WriteLens, WriteCmd(w, n)
      PROVE  AllFitting' /\ Busy(w)' /\ Unique(w)'
  <2>1. reqs' = reqs /\ st[w] # "run"
    BY <1>6 DEF WriteCmd, Starts
  <2> QED
    BY <1>1, <2>1 DEF AllFitting, Fitting, Busy, Unique
<1>7. ASSUME NEW op \in {"execute", "cancel"}, ExecuteWrite(w, op)
      PROVE  AllFitting' /\ Busy(w)' /\ Unique(w)'
  <2>1. PICK q \in Req : q = Request(w, op, 0, <<>>) /\ q.p = w /\ q.op = op
    BY <1>1, BareRequest
  <2>2. reqs' = Append(reqs, q) /\ st[w] # "run" /\ st'[w] = "run"
    BY <1>1, <1>7, <2>1 DEF ExecuteWrite, TypeOK
  <2> QED
    BY <1>2, <2>1, <2>2
<1>8. ASSUME NEW res \in {"ok", "error"}, WriteDone(w, res)
      PROVE  AllFitting' /\ Busy(w)' /\ Unique(w)'
  <2>1. reqs # <<>> /\ Head(reqs).p = w /\ reqs' = Tail(reqs)
    BY <1>1, <1>8, AnswerType DEF WriteDone
  <2> QED
    BY <1>3, <2>1
<1>9. ASSUME NEW res \in {"ok", "error"}, ReliableDone(w, res)
      PROVE  AllFitting' /\ Busy(w)' /\ Unique(w)'
  <2>1. reqs # <<>> /\ Head(reqs).p = w /\ reqs' = Tail(reqs)
    BY <1>1, <1>9, AnswerType DEF ReliableDone
  <2> QED
    BY <1>3, <2>1
<1>10. ASSUME NEW res \in {"ok", "error"}, NEW op \in {"execute", "cancel"},
              ExecuteDone(w, op, res)
       PROVE  AllFitting' /\ Busy(w)' /\ Unique(w)'
  <2>1. reqs # <<>> /\ Head(reqs).p = w /\ reqs' = Tail(reqs)
    BY <1>1, <1>10, AnswerType DEF ExecuteDone
  <2> QED
    BY <1>3, <2>1
<1>11. ASSUME NEW res \in {"ok", "error"}, PrepareWriteCb(w, res)
       PROVE  AllFitting' /\ Busy(w)' /\ Unique(w)'
  <2>1. reqs # <<>> /\ Head(reqs).p = w
    BY <1>1, <1>11, AnswerType DEF PrepareWriteCb
  <2>2. Head(reqs).part \in Seq(Byte)
    BY <1>1, <2>1, HeadReq
  <2>3. offset \in [Writers -> Nat] /\ data \in [Writers -> Seq(Byte)]
    BY <1>1 DEF TypeOK
  <2>4. PICK o \in Nat : o = offset[w] + Len(Head(reqs).part)
    BY <2>2, <2>3
  <2>5. PICK a \in Req : /\ a = Request(w, "execute", 0, <<>>)
                         /\ a.p = w /\ a.op = "execute"
    BY <1>1, BareRequest
  <2>6. PICK b \in Req : /\ b = PrepareRequest(w, data[w], o, mtu)
                         /\ b.p = w /\ b.op = "prep"
    BY <1>1, <2>3, MtuFacts, PrepareRequestType
  <2>7. reqs' = IF res # "ok" THEN Tail(reqs)
                ELSE Append(Tail(reqs), IF o = Len(data[w]) THEN a ELSE b)
    BY <1>11, <2>4, <2>5, <2>6 DEF PrepareWriteCb
  <2>8. res = "ok" => st'[w] = "run"
    BY <1>1, <1>11 DEF PrepareWriteCb, TypeOK
  <2>9. PICK q \in Req : /\ q.p = w /\ q.op \in {"execute", "prep"}
                         /\ \/ reqs' = Tail(reqs)
                            \/ reqs' = Append(Tail(reqs), q) /\ st'[w] = "run"
    BY <2>5, <2>6, <2>7, <2>8
  <2>10. CASE reqs' = Tail(reqs)
    BY <1>3, <2>1, <2>10
  <2>11. CASE reqs' = Append(Tail(reqs), q) /\ st'[w] = "run"
    <3>1. Fitting(q)
      BY <2>9, Classes DEF Fitting
    <3>2. AllFitting' /\ Unique(w)'
      BY <1>1, <2>1, <2>9, <2>11, <3>1, FitTailAppend, OwnTailAppend
    <3> QED
      BY <3>2, <2>11 DEF Busy
  <2> QED
    BY <2>9, <2>10, <2>11
<1> QED
  BY <1>4, <1>5, <1>6, <1>7, <1>8, <1>9, <1>10, <1>11 DEF OwnWrite

\* A search ends when its last request is answered.
LEMMA EndFindBusy ==
    ASSUME TypeOK, AllFitting, NEW f \in Finders, NEW more \in Seq(Req),
           \A k \in 1..Len(more) : more[k].p = f /\ Fitting(more[k]),
           reqs # <<>>, Head(reqs).p = f, Busy(f), NEW e, EndFind(f, more, e)
    PROVE  /\ AllFitting' /\ Busy(f)'
           /\ st'[f] \in {"run", "failed", "lost", "ok"}
           /\ st'[f] = "ok" => Absent(f)' /\ ~err'[f]
<1>1. reqs' = Tail(reqs) \o more /\ reqs \in Seq(Req) /\ f \in Procs
  BY Classes DEF EndFind, TypeOK
<1>2. AllFitting'
  BY <1>1, FitTailCat
<1>3. st[f] = "run"
  BY HeadReq DEF Busy
<1>4. CASE \E i \in 2..Len(reqs) : reqs[i].p = f
  <2>1. st'[f] = "run"
    BY <1>3, <1>4 DEF EndFind
  <2> QED
    BY <1>2, <2>1 DEF Busy
<1>5. CASE ~ \E i \in 2..Len(reqs) : reqs[i].p = f
  <2>1. st' = [st EXCEPT ![f] = IF more # <<>> THEN "run"
                                ELSE IF err[f] \/ e THEN Failure ELSE "ok"]
    BY <1>5 DEF EndFind
  <2>2. CASE more # <<>>
    <3>1. st'[f] = "run"
      BY <1>1, <2>1, <2>2 DEF TypeOK
    <3> QED
      BY <1>2, <3>1 DEF Busy
  <2>3. CASE more = <<>>
    <3>1. st'[f] = IF err[f] \/ e THEN Failure ELSE "ok"
      BY <1>1, <2>1, <2>3 DEF TypeOK
    <3>2. \A i \in 1..Len(reqs') : i <= Len(reqs) - 1 /\ i + 1 \in 2..Len(reqs)
                                   /\ reqs'[i] = reqs[i + 1]
      <4>1. /\ \A i \in 1..Len(reqs') : i <= Len(reqs) - 1 =>
                   i + 1 \in 2..Len(reqs) /\ reqs'[i] = reqs[i + 1]
            /\ Len(reqs') = Len(reqs) - 1 + Len(more)
            /\ Len(reqs) \in Nat
        BY <1>1, TailCat
      <4>2. Len(more) = 0
        BY <2>3, EmptySeq
      <4> QED
        BY <4>1, <4>2
    <3>3. Absent(f)'
      BY <1>5, <3>2 DEF Absent
    <3>4. err' = [err EXCEPT ![f] = @ \/ e]
      BY DEF EndFind
    <3>5. st'[f] = "ok" => ~(err[f] \/ e)
      BY <3>1, FailureType
    <3>6. err'[f] <=> (err[f] \/ e)
      BY <3>4, Zenon DEF TypeOK
    <3>7. st'[f] \in {"run", "failed", "lost", "ok"}
      BY <3>1, FailureType
    <3> QED
      BY <1>2, <3>3, <3>5, <3>6, <3>7 DEF Busy, Absent
  <2> QED
    BY <2>2, <2>3
<1> QED
  BY <1>4, <1>5

\* What a search does to the queue.
LEMMA FindQueue ==
    ASSUME QueueInv, NEW f \in Finders, OwnFind(f)
    PROVE  AllFitting' /\ Busy(f)'
<1>1. TypeOK /\ AllFitting /\ Busy(f) /\ f \in Procs
  BY Classes DEF QueueInv
<1>2. ASSUME FindIncluded(f) PROVE AllFitting' /\ Busy(f)'
  <2>1. PICK q \in Req : q = Request(f, "include", 1, <<>>) /\ q.p = f /\ q.op = "include"
    BY <1>1, BareRequest
  <2>2. Fitting(q)
    BY <2>1, Classes DEF Fitting
  <2>3. reqs' = Append(reqs, q) /\ st'[f] = "run"
    BY <1>1, <1>2, <2>1 DEF FindIncluded, TypeOK
  <2>4. AllFitting'
    BY <1>1, <2>2, <2>3, FitAppend
  <2> QED
    BY <2>3, <2>4 DEF Busy
<1>3. <<>> \in Seq(Req) /\ \A k \in 1..Len(<<>>) : <<>>[k].p = f /\ Fitting(<<>>[k])
  BY EmptySeq
<1>4. ASSUME NEW res \in {"not found", "error"}, FindIncludedEnd(f, res)
      PROVE  AllFitting' /\ Busy(f)'
  <2>1. reqs # <<>> /\ Head(reqs).p = f /\ EndFind(f, <<>>, res # "not found")
    BY <1>1, <1>4, AnswerType DEF FindIncludedEnd
  <2> QED
    BY <1>1, <1>3, <2>1, EndFindBusy
<1>5. ASSUME NEW res \in {"ok", "error"}, ResolveIncludedCb(f, res)
      PROVE  AllFitting' /\ Busy(f)'
  <2>1. reqs # <<>> /\ Head(reqs).p = f /\ EndFind(f, <<>>, res # "ok")
    BY <1>1, <1>5, AnswerType DEF ResolveIncludedCb
  <2> QED
    BY <1>1, <1>3, <2>1, EndFindBusy
<1>6. ASSUME NEW list, IsList(list), FindIncludedCb(f, list)
      PROVE  AllFitting' /\ Busy(f)'
  <2>1. PICK more \in Seq(Req) : more = MoreOf(f, list)
    BY <1>1, <1>6, MoreOfFacts
  <2>2. \A k \in 1..Len(more) : more[k].p = f /\ Fitting(more[k])
    <3> SUFFICES ASSUME NEW k \in 1..Len(more) PROVE more[k].p = f /\ Fitting(more[k])
      OBVIOUS
    <3>1. PICK a \in Nat : a = Len(ReadsOf(f, list))
      BY <1>6, ReadsOfFacts
    <3>2. /\ more[k].p = f
          /\ k <= a => more[k].op = "resolve" /\ more[k].arg = list[k]
          /\ k > a => more[k].op = "include"
      BY <1>1, <1>6, <2>1, <3>1, MoreOfFacts
    <3>3. CASE k <= a
      <4>1. k \in 1..Len(list)
        BY <3>1, <3>3, <1>6, ReadsOfFacts
      <4>2. list[k] \in DOMAIN Decls
        BY <4>1, <1>6, ListFacts
      <4> QED
        BY <3>2, <3>3, <4>2, Classes DEF Fitting
    <3>4. CASE k > a
      BY <3>2, <3>4, Classes DEF Fitting
    <3> QED
      BY <3>1, <3>3, <3>4
  <2>3. reqs # <<>> /\ Head(reqs).p = f
    BY <1>1, <1>6, AnswerType, FindIncludedCbIs
  <2>4. EndFind(f, more, list[Len(list)] < start[f])
    BY <1>6, <2>1, FindIncludedCbIs DEF MoreOf
  <2> QED
    BY <1>1, <2>2, <2>3, <2>4, EndFindBusy
<1> QED
  BY <1>2, <1>4, <1>5, <1>6 DEF OwnFind

\* What the other steps do to the queue.
LEMMA CommonQueue ==
    ASSUME QueueInv, Common
    PROVE  AllFitting'
<1>1. TypeOK /\ AllFitting
  BY DEF QueueInv
<1>2. ASSUME ExchangeMtu PROVE AllFitting'
  <2>1. PICK q \in Req : q = Request("client", "mtu", 0, <<>>) /\ q.p = "client" /\ q.op = "mtu"
    BY MtuRequest
  <2>2. Fitting(q)
    BY <2>1, Classes DEF Fitting
  <2> QED
    BY <1>1, <1>2, <2>1, <2>2, FitAppend DEF ExchangeMtu
<1>3. ASSUME NEW res, MtuDone(res) PROVE AllFitting'
  <2>1. reqs # <<>> /\ reqs' = Tail(reqs)
    BY <1>1, <1>3, AnswerType DEF MtuDone
  <2> QED
    BY <1>1, <2>1, FitTail
<1>4. ASSUME reqs' = reqs PROVE AllFitting'
  BY <1>1, <1>4 DEF AllFitting, Fitting
<1> QED
  BY <1>2, <1>3, <1>4 DEF Common, TakeCmd, HangUp

\* What the server holds prepared is gone with the link.
LEMMA PrepDown ==
    ASSUME QueueInv, Next
    PROVE  ~up' => prep' = <<>>
<1>1. TypeOK /\ (~up => prep = <<>>)
  BY DEF QueueInv
<1>2. ASSUME NEW op, NEW r, Answer(op, r) PROVE ~up' => prep' = <<>>
  BY <1>1, <1>2 DEF Answer
<1>3. ASSUME up' = up, prep' = prep PROVE ~up' => prep' = <<>>
  BY <1>1, <1>3
<1>4. ASSUME NEW r, OwnRead(r) PROVE ~up' => prep' = <<>>
  BY <1>2, <1>3, <1>4 DEF OwnRead, ReadChar, ReadCharHelper, ReadBlobHelper, server
<1>5. ASSUME NEW w, OwnWrite(w) PROVE ~up' => prep' = <<>>
  BY <1>2, <1>3, <1>5 DEF OwnWrite, WriteChar, ReliableWriteChar, WriteCmd, ExecuteWrite,
     WriteDone, PrepareWriteCb, ReliableDone, ExecuteDone, server
<1>6. ASSUME NEW f, OwnFind(f) PROVE ~up' => prep' = <<>>
  <2>1. \A list : FindIncludedCb(f, list) => Answer("include", "ok")
    BY FindIncludedCbIs
  <2> QED
    BY <1>2, <1>3, <1>6, <2>1 DEF OwnFind, FindIncluded, FindIncludedEnd,
       ResolveIncludedCb, server
<1>7. ASSUME Common PROVE ~up' => prep' = <<>>
  BY <1>2, <1>3, <1>7 DEF Common, ExchangeMtu, MtuDone, TakeCmd, HangUp, server
<1> QED
  BY <1>1, <1>4, <1>5, <1>6, <1>7, StepKinds

\* The queue is empty at first.
LEMMA QueueInit == Init => QueueInv
<1> SUFFICES ASSUME Init PROVE QueueInv
  OBVIOUS
<1>1. value \in Seq(Byte)
  BY BytesType, LengthAssumption DEF Init
<1>2. /\ <<>> \in Seq(Byte) /\ <<>> \in Seq(Req) /\ <<>> \in Seq(Prepared)
      /\ <<>> \in Seq(DOMAIN Decls) /\ Len(<<>>) = 0
  BY EmptySeq
<1>3. TypeOK
  BY <1>1, <1>2 DEF Init, TypeOK, ProcState
<1>4. Len(reqs) = 0
  BY <1>2 DEF Init
<1> QED
  BY <1>3, <1>4 DEF QueueInv, AllFitting, Busy, Unique, Init

\* Every step keeps the queue in order.
LEMMA QueueStep == QueueInv /\ [Next]_vars => QueueInv'
<1> SUFFICES ASSUME QueueInv, [Next]_vars PROVE QueueInv'
  OBVIOUS
<1>1. CASE UNCHANGED vars
  BY <1>1 DEF QueueInv, TypeOK, AllFitting, Fitting, Busy, Unique, vars, client, server, history
<1>2. CASE Next
  <2>1. TypeOK /\ AllFitting
    BY DEF QueueInv
  <2>2. TypeOK'
    BY <1>2, <2>1, TypeStep
  <2>3. AllFitting'
    BY <1>2, <2>1, StepKinds, ReadQueue, WriteQueue, FindQueue, CommonQueue
  <2>4. \A p \in Procs : Busy(p)'
    <3> TAKE p \in Procs
    <3>1. Busy(p)
      BY DEF QueueInv
    <3> QED
      BY <1>2, <2>1, <2>2, <3>1, AloneOrOwn, AloneKeeps, ReadQueue, WriteQueue, FindQueue
  <2>5. \A p \in Readers \cup Writers : Unique(p)'
    <3> TAKE p \in Readers \cup Writers
    <3>1. Unique(p) /\ p \in Procs /\ p \notin Finders
      BY Classes DEF QueueInv
    <3> QED
      BY <1>2, <2>1, <2>2, <3>1, AloneOrOwn, AloneKeeps, ReadQueue, WriteQueue
  <2>6. ~up' => prep' = <<>>
    BY <1>2, PrepDown
  <2> QED
    BY <2>2, <2>3, <2>4, <2>5, <2>6 DEF QueueInv
<1> QED
  BY <1>1, <1>2

\* The queue holds the requests of procedures that run, and of a read or a
\* write one at most: the callbacks of gatt.c send the next request only after
\* the answer of the last one.
THEOREM QueueCorrect == Spec => []QueueInv
BY QueueInit, QueueStep, PTL DEF Spec

-----------------------------------------------------------------------------
(* Reads return the value *)

\* Prefixes of a value.
LEMMA PrefixFacts ==
    ASSUME NEW S, NEW v \in Seq(S), NEW k \in 0..Len(v)
    PROVE  /\ SubSeq(v, 1, k) \in Seq(S) /\ Len(SubSeq(v, 1, k)) = k
           /\ IsPrefix(SubSeq(v, 1, k), v)
           /\ k = Len(v) => SubSeq(v, 1, k) = v
<1>1. k \in Nat /\ k <= Len(v) /\ 1 \in Int /\ k \in Int /\ k - 1 + 1 = k
  OBVIOUS
<1>2. \A i \in 1..k : v[i] \in S
  BY <1>1
<1>3. /\ SubSeq(v, 1, k) \in Seq(S)
      /\ Len(SubSeq(v, 1, k)) = IF 1 <= k THEN k - 1 + 1 ELSE 0
  BY <1>1, <1>2, SubSeqProperties
<1>4. Len(SubSeq(v, 1, k)) = k
  BY <1>1, <1>3
<1>5. PICK u \in Seq(S) : u = SubSeq(v, 1, k)
  BY <1>3
<1>6. SubSeq(u, 1, Len(u)) = u
  BY SubSeqFull
<1>7. IsPrefix(u, v)
  BY <1>1, <1>4, <1>5, <1>6 DEF IsPrefix
<1>8. k = Len(v) => u = v
  BY <1>5, SubSeqFull
<1> QED
  BY <1>3, <1>4, <1>5, <1>7, <1>8

\* A prefix and the slice behind it make a longer prefix.
LEMMA SliceJoin ==
    ASSUME NEW S, NEW v \in Seq(S), NEW o \in 0..Len(v), NEW n \in Nat
    PROVE  LET l == Len(Slice(v, o, n)) IN
           /\ o + l \in 0..Len(v)
           /\ SubSeq(v, 1, o) \o Slice(v, o, n) = SubSeq(v, 1, o + l)
           /\ l < n => o + l = Len(v)
<1>1. PICK e \in Nat : e = Least(o + n, Len(v))
  BY DEF Least
<1>2. e \in o..Len(v) /\ (e # Len(v) => e = o + n)
  BY <1>1 DEF Least
<1>3. Slice(v, o, n) = SubSeq(v, o + 1, e)
  BY <1>1 DEF Slice
<1>4. Len(Slice(v, o, n)) = IF o >= Len(v) THEN 0 ELSE IF o + n <= Len(v) THEN n ELSE Len(v) - o
  <2>1. o \in Nat
    OBVIOUS
  <2> QED
    BY <2>1, SliceFacts
<1>5. PICK l \in Nat : l = Len(Slice(v, o, n))
  BY <1>4
<1>6. e = o + l /\ (l < n => e = Len(v))
  BY <1>1, <1>2, <1>4, <1>5 DEF Least
<1>7. 1 \in 1..(Len(v) + 1) /\ o \in (1 - 1)..Len(v)
  OBVIOUS
<1>8. SubSeq(v, 1, o) \o SubSeq(v, o + 1, e) = SubSeq(v, 1, e)
  BY <1>2, <1>7, ConcatAdjacentSubSeq
<1>9. SubSeq(v, 1, o) \o Slice(v, o, n) = SubSeq(v, 1, o + l)
  BY <1>3, <1>6, <1>8
<1>10. o + l \in 0..Len(v) /\ (l < n => o + l = Len(v))
  BY <1>2, <1>6
<1> QED
  BY <1>5, <1>9, <1>10

\* A value that changes touches every read that runs.
ValueWatched ==
    /\ touched \subseteq touched'
    /\ value' # value => \A r \in Readers : Running(r) => r \in touched'

\* Touch watches the value.
LEMMA TouchWatched ==
    ASSUME NEW v, Touch(v), value' = v
    PROVE  ValueWatched
  BY DEF Touch, ValueWatched

\* So does an answer.
LEMMA AnswerWatched ==
    ASSUME NEW op, NEW r, Answer(op, r)
    PROVE  ValueWatched
<1>1. \E v : Touch(v) /\ value' = v
  BY DEF Answer
<1> QED
  BY <1>1, TouchWatched

\* So does every step.
LEMMA ValueStep ==
    ASSUME TypeOK, Next
    PROVE  ValueWatched
<1>1. ASSUME value' = value, touched' = touched PROVE ValueWatched
  BY <1>1 DEF ValueWatched
<1>2. ASSUME NEW r, OwnRead(r) PROVE ValueWatched
  BY <1>1, <1>2, AnswerWatched DEF OwnRead, ReadChar, ReadCharHelper, ReadBlobHelper, server
<1>3. ASSUME NEW w, OwnWrite(w) PROVE ValueWatched
  BY <1>1, <1>3, AnswerWatched DEF OwnWrite, WriteChar, ReliableWriteChar, WriteCmd,
     ExecuteWrite, WriteDone, PrepareWriteCb, ReliableDone, ExecuteDone, server, history
<1>4. ASSUME NEW f, OwnFind(f) PROVE ValueWatched
  <2>1. \A list : FindIncludedCb(f, list) => Answer("include", "ok")
    BY FindIncludedCbIs
  <2> QED
    BY <1>1, <1>4, <2>1, AnswerWatched DEF OwnFind, FindIncluded, FindIncludedEnd,
       ResolveIncludedCb, server, history
<1>5. ASSUME Common PROVE ValueWatched
  BY <1>1, <1>5, AnswerWatched, TouchWatched DEF Common, ExchangeMtu, MtuDone,
     TakeCmd, HangUp, server, history
<1> QED
  BY <1>2, <1>3, <1>4, <1>5, StepKinds

\* An answer to a request that only reads changes nothing.
LEMMA AnswerQuiet ==
    ASSUME TypeOK, NEW op \in {"read", "blob", "include", "resolve", "mtu"}, NEW r, Answer(op, r)
    PROVE  value' = value /\ prep' = prep /\ touched' = touched
  BY DEF Answer, Served, Refused, Touch

\* A step that leaves a read alone keeps what is known of it.
LEMMA ReadAlone ==
    ASSUME QueueInv, QueueInv', NEW r \in Readers, ReadInv(r), Alone(r), ValueWatched
    PROVE  ReadInv(r)'
<1>1. /\ st'[r] = st[r] /\ got'[r] = got[r] /\ seen'[r] = seen[r]
      /\ r \in hit' <=> r \in hit
  BY DEF Alone, Idle
<1>2. PICK k \in {0, 1} : \A i \in 1..Len(reqs') : reqs'[i].p = r =>
          i + k \in 1..Len(reqs) /\ reqs'[i] = reqs[i + k]
  BY DEF Alone, Fewer
<1>3. r \notin touched' => r \notin touched /\ (st[r] = "run" => value' = value)
  BY DEF ValueWatched, Running
<1>4. st'[r] = "run" /\ r \notin touched' => value' = seen'[r]
  BY <1>1, <1>3 DEF ReadInv
<1>5. ASSUME NEW i \in 1..Len(reqs'), reqs'[i].p = r, reqs'[i].op = "blob", r \notin touched'
      PROVE  reqs'[i].arg <= Len(value') /\ got'[r] = SubSeq(value', 1, reqs'[i].arg)
  <2>1. PICK j \in 1..Len(reqs) : reqs'[i] = reqs[j]
    BY <1>2, <1>5
  <2>2. Busy(r)
    BY Classes DEF QueueInv
  <2>3. st[r] = "run"
    BY <1>5, <2>1, <2>2 DEF Busy
  <2> QED
    BY <1>1, <1>3, <1>5, <2>1, <2>3 DEF ReadInv
<1>6. st'[r] = "ok" /\ r \notin touched' =>
          IsPrefix(got'[r], seen'[r]) /\ (r \notin hit' => got'[r] = seen'[r])
  BY <1>1, <1>3 DEF ReadInv
<1> QED
  BY <1>4, <1>5, <1>6 DEF ReadInv

\* gatt_read_char remembers the value, for the first answer.
LEMMA ReadCharRead ==
    ASSUME QueueInv, NEW r \in Readers, ReadInv(r), ReadChar(r)
    PROVE  ReadInv(r)'
<1>1. TypeOK /\ Busy(r) /\ r \in Procs
  BY Classes DEF QueueInv
<1>2. PICK q \in Req : q = Request(r, "read", 0, <<>>) /\ q.p = r /\ q.op = "read"
  BY <1>1, BareRequest
<1>3. /\ reqs' = Append(reqs, q) /\ st[r] # "run" /\ st'[r] = "run"
      /\ value' = value /\ seen'[r] = value
  BY <1>1, <1>2 DEF ReadChar, Starts, TypeOK, server
<1>4. Sole(r, q)'
  BY <1>1, <1>2, <1>3, OwnAppend
<1> QED
  BY <1>2, <1>3, <1>4 DEF ReadInv, Sole

\* read_char_helper: the first answer is a prefix of the value, and the whole
\* of it if it does not fill the buffer.
LEMMA ReadCharHelperRead ==
    ASSUME QueueInv, NEW r \in Readers, ReadInv(r), NEW res \in {"ok", "error"},
           ReadCharHelper(r, res)
    PROVE  ReadInv(r)'
<1>1. TypeOK /\ Busy(r) /\ Unique(r) /\ r \in Procs
  BY Classes DEF QueueInv
<1>2. Answer("read", res) /\ reqs # <<>> /\ Head(reqs).p = r
  BY <1>1, AnswerType DEF ReadCharHelper
<1>3. value' = value /\ touched' = touched /\ seen' = seen
  BY <1>1, <1>2, AnswerQuiet DEF ReadCharHelper
<1>4. st[r] = "run"
  BY <1>1, <1>2, HeadReq DEF Busy
<1>5. value \in Seq(Byte) /\ mtu - 1 \in Nat /\ mtu \in Nat
  BY <1>1, MtuFacts DEF TypeOK
<1>6. PICK v \in Seq(Byte) : v = Slice(value, 0, mtu - 1)
  BY <1>5, SliceFacts
<1>7. PICK q \in Req : /\ q = Request(r, "blob", Len(v), <<>>) /\ q.p = r /\ q.op = "blob"
                       /\ q.arg = Len(v)
  BY <1>1, BareRequest
<1>8. Len(v) \in 0..Len(value) /\ v = SubSeq(value, 1, Len(v))
      /\ (Len(v) < mtu - 1 => Len(v) = Len(value))
  <2>1. 0 \in 0..Len(value)
    BY <1>5
  <2>2. /\ 0 + Len(v) \in 0..Len(value)
        /\ SubSeq(value, 1, 0) \o v = SubSeq(value, 1, 0 + Len(v))
        /\ Len(v) < mtu - 1 => 0 + Len(v) = Len(value)
    BY <1>5, <1>6, <2>1, SliceJoin
  <2>3. SubSeq(value, 1, 0) = <<>>
    BY SubSeqEmpty
  <2>4. SubSeq(value, 1, 0) \o v = v
    BY <2>3, ConcatEmptySeq
  <2>5. 0 + Len(v) = Len(v)
    OBVIOUS
  <2> QED
    BY <2>2, <2>4, <2>5
<1>9. /\ reqs' = IF res = "ok" /\ IsFull(Len(v)) THEN Append(Tail(reqs), q) ELSE Tail(reqs)
      /\ st'[r] = IF res # "ok" THEN Failure
                  ELSE IF IsFull(Len(v)) THEN "run" ELSE "ok"
      /\ res = "ok" => got'[r] = v
  BY <1>1, <1>6, <1>7 DEF ReadCharHelper, TypeOK
<1>10. r \notin touched => value = seen[r]
  BY <1>4 DEF ReadInv
<1>11. CASE res # "ok"
  <2>1. Absent(r)' /\ st'[r] \in {"failed", "lost"}
    BY <1>1, <1>2, <1>9, <1>11, OwnTail, FailureType
  <2> QED
    BY <2>1 DEF ReadInv, Absent
<1>12. CASE res = "ok" /\ IsFull(Len(v))
  <2>1. Sole(r, q)' /\ st'[r] = "run"
    BY <1>1, <1>2, <1>9, <1>12, OwnTailAppend
  <2>2. \A i \in 1..Len(reqs') : reqs'[i].p = r =>
            reqs'[i].arg <= Len(value') /\ got'[r] = SubSeq(value', 1, reqs'[i].arg)
    BY <1>3, <1>7, <1>8, <1>9, <1>12, <2>1 DEF Sole
  <2>3. r \notin touched' => value' = seen'[r]
    BY <1>3, <1>10
  <2> QED
    BY <2>1, <2>2, <2>3 DEF ReadInv
<1>13. CASE res = "ok" /\ ~IsFull(Len(v))
  <2>1. Absent(r)' /\ st'[r] = "ok"
    BY <1>1, <1>2, <1>9, <1>13, OwnTail
  <2>2. Len(v) = Len(value)
    <3>1. Len(v) \in Nat
      OBVIOUS
    <3>2. Len(v) < mtu - 1
      BY <1>5, <1>13, <3>1 DEF IsFull
    <3> QED
      BY <1>8, <3>2
  <2>3. v = value /\ IsPrefix(v, value)
    BY <1>5, <1>8, <2>2, PrefixFacts
  <2>4. r \notin touched' => got'[r] = seen'[r] /\ IsPrefix(got'[r], seen'[r])
    BY <1>3, <1>9, <1>10, <1>13, <2>3
  <2> QED
    BY <2>1, <2>4 DEF ReadInv, Absent
<1> QED
  BY <1>11, <1>12, <1>13

\* read_blob_helper: a blob goes on where the read was; the read ends with the
\* whole value, or with a prefix if an answer before the end was an error.
LEMMA ReadBlobHelperRead ==
    ASSUME QueueInv, NEW r \in Readers, ReadInv(r), NEW res \in {"ok", "error"},
           ReadBlobHelper(r, res)
    PROVE  ReadInv(r)'
<1>1. TypeOK /\ Busy(r) /\ Unique(r) /\ r \in Procs
  BY Classes DEF QueueInv
<1>2. Answer("blob", res) /\ reqs # <<>> /\ Head(reqs).p = r /\ Head(reqs).op = "blob"
  BY <1>1, AnswerType DEF ReadBlobHelper
<1>3. value' = value /\ touched' = touched /\ seen' = seen
  BY <1>1, <1>2, AnswerQuiet DEF ReadBlobHelper
<1>4. Head(reqs) = reqs[1] /\ 1 \in 1..Len(reqs)
  BY <1>1, <1>2, HeadReq
<1>5. st[r] = "run"
  BY <1>1, <1>2, <1>4 DEF Busy
<1>6. value \in Seq(Byte) /\ mtu - 1 \in Nat /\ mtu \in Nat /\ <<>> \in Seq(Byte) /\ mtu > 5
  BY <1>1, MtuFacts, EmptySeq DEF TypeOK
<1>7. PICK o \in Nat : o = Head(reqs).arg
  BY <1>1, <1>2, HeadReq
<1>8. PICK v \in Seq(Byte) : v = IF res = "ok" THEN Slice(value, o, mtu - 1) ELSE <<>>
  BY <1>6, SliceFacts
<1>9. o + Len(v) \in Nat
  OBVIOUS
<1>10. PICK q \in Req : /\ q = Request(r, "blob", o + Len(v), <<>>) /\ q.p = r
                        /\ q.op = "blob" /\ q.arg = o + Len(v)
  BY <1>1, <1>9, BareRequest
<1>11. PICK more \in BOOLEAN : more <=> v # <<>> /\ IsFull(Len(v))
  OBVIOUS
<1>12. /\ reqs' = IF more THEN Append(Tail(reqs), q) ELSE Tail(reqs)
       /\ st'[r] = IF more THEN "run" ELSE "ok"
       /\ got'[r] = got[r] \o v
       /\ (res = "error" /\ o < Len(value)) => r \in hit'
  BY <1>1, <1>7, <1>8, <1>10, <1>11 DEF ReadBlobHelper, TypeOK
<1>13. ASSUME r \notin touched
       PROVE  /\ value = seen[r] /\ o \in 0..Len(value)
              /\ o + Len(v) \in 0..Len(value)
              /\ got'[r] = SubSeq(value, 1, o + Len(v))
              /\ res = "ok" /\ Len(v) < mtu - 1 => o + Len(v) = Len(value)
              /\ res = "error" => Len(v) = 0
  <2>1. value = seen[r] /\ o <= Len(value) /\ got[r] = SubSeq(value, 1, o)
    BY <1>2, <1>4, <1>5, <1>7, <1>13 DEF ReadInv
  <2>2. o \in 0..Len(value) /\ Len(value) \in Nat
    BY <1>6, <2>1
  <2>3. CASE res = "ok"
    <3>1. /\ o + Len(v) \in 0..Len(value)
          /\ SubSeq(value, 1, o) \o v = SubSeq(value, 1, o + Len(v))
          /\ Len(v) < mtu - 1 => o + Len(v) = Len(value)
      BY <1>6, <1>8, <2>2, <2>3, SliceJoin
    <3> QED
      BY <1>12, <2>1, <2>2, <2>3, <3>1
  <2>4. CASE res # "ok"
    <3>1. v = <<>> /\ Len(v) = 0 /\ o + Len(v) = o
      BY <1>8, <2>4, EmptySeq
    <3>2. got[r] \o v = got[r]
      BY <1>1, <3>1, ConcatEmptySeq DEF TypeOK
    <3> QED
      BY <1>12, <2>1, <2>2, <2>4, <3>1, <3>2
  <2> QED
    BY <2>3, <2>4
<1>14. CASE more
  <2>1. Sole(r, q)' /\ st'[r] = "run"
    BY <1>1, <1>2, <1>12, <1>14, OwnTailAppend
  <2>2. ASSUME r \notin touched'
        PROVE  /\ value' = seen'[r]
               /\ \A i \in 1..Len(reqs') : reqs'[i].p = r =>
                      /\ reqs'[i].arg <= Len(value')
                      /\ got'[r] = SubSeq(value', 1, reqs'[i].arg)
    <3>1. /\ value = seen[r] /\ o + Len(v) <= Len(value)
          /\ got'[r] = SubSeq(value, 1, o + Len(v))
      BY <1>3, <1>6, <1>13, <2>2
    <3> QED
      BY <1>3, <1>10, <2>1, <3>1 DEF Sole
  <2> QED
    BY <2>1, <2>2 DEF ReadInv
<1>15. CASE ~more
  <2>1. Absent(r)' /\ st'[r] = "ok"
    BY <1>1, <1>2, <1>12, <1>15, OwnTail
  <2>2. ASSUME r \notin touched'
        PROVE  /\ IsPrefix(got'[r], seen'[r])
               /\ r \notin hit' => got'[r] = seen'[r]
    <3>1. /\ value = seen[r] /\ o \in 0..Len(value) /\ o + Len(v) \in 0..Len(value)
          /\ got'[r] = SubSeq(value, 1, o + Len(v))
          /\ res = "ok" /\ Len(v) < mtu - 1 => o + Len(v) = Len(value)
          /\ res = "error" => Len(v) = 0
      BY <1>3, <1>13, <2>2
    <3>2. IsPrefix(got'[r], seen'[r])
      BY <1>3, <1>6, <3>1, PrefixFacts
    <3>3. ASSUME r \notin hit' PROVE o + Len(v) = Len(value)
      <4>1. CASE res = "ok"
        <5>1. Len(v) < mtu - 1
          <6>1. CASE v = <<>>
            <7>1. Len(v) = 0
              BY <6>1, EmptySeq
            <7> QED
              BY <1>6, <7>1
          <6>2. CASE ~IsFull(Len(v))
            <7>1. Len(v) \in Nat
              OBVIOUS
            <7> QED
              BY <1>6, <6>2, <7>1 DEF IsFull
          <6> QED
            BY <1>11, <1>15, <6>1, <6>2
        <5> QED
          BY <3>1, <4>1, <5>1
      <4>2. CASE res = "error"
        <5>1. ~(o < Len(value)) /\ Len(v) = 0
          BY <1>12, <3>1, <3>3, <4>2
        <5> QED
          BY <1>6, <3>1, <5>1
      <4> QED
        BY <4>1, <4>2
    <3>4. r \notin hit' => got'[r] = value
      BY <1>6, <3>1, <3>3, PrefixFacts
    <3> QED
      BY <1>3, <3>1, <3>2, <3>4
  <2> QED
    BY <2>1, <2>2 DEF ReadInv, Absent
<1> QED
  BY <1>14, <1>15

AllReads == \A r \in Readers : ReadInv(r)

\* No read has begun at first.
LEMMA ReadInit == Init => AllReads
<1> SUFFICES ASSUME Init, NEW r \in Readers PROVE ReadInv(r)
  BY DEF AllReads
<1>1. st[r] = "new" /\ Len(reqs) = 0
  BY Classes, EmptySeq DEF Init
<1> QED
  BY <1>1 DEF ReadInv

\* Every step keeps the invariant of the reads.
LEMMA ReadStep == QueueInv /\ QueueInv' /\ AllReads /\ [Next]_vars => AllReads'
<1> SUFFICES ASSUME QueueInv, QueueInv', AllReads, [Next]_vars, NEW r \in Readers
             PROVE  ReadInv(r)'
  BY DEF AllReads
<1>1. ReadInv(r) /\ TypeOK /\ AllFitting /\ r \in Procs /\ r \notin Writers /\ r \notin Finders
  BY Classes DEF AllReads, QueueInv
<1>2. CASE UNCHANGED vars
  BY <1>1, <1>2 DEF ReadInv, vars, client, server, history
<1>3. CASE Next
  <2>1. Alone(r) \/ OwnRead(r)
    BY <1>1, <1>3, AloneOrOwn
  <2>2. ValueWatched
    BY <1>1, <1>3, ValueStep
  <2> QED
    BY <1>1, <2>1, <2>2, ReadAlone, ReadCharRead, ReadCharHelperRead, ReadBlobHelperRead
       DEF OwnRead
<1> QED
  BY <1>2, <1>3

\* A read that gatt.c reports as a success returns the value the server had
\* when it began, whole, over any number of blobs and changes of the MTU: or a
\* prefix of it if a blob before the end was refused or the link was lost, and
\* something torn only if the value changed on the way.
THEOREM ReadCorrect == Spec => []ReadExact
<1>1. AllReads => ReadExact
  BY DEF AllReads, ReadInv, ReadExact
<1>2. Spec => []QueueInv
  BY QueueCorrect
<1>3. Spec => []AllReads
  BY <1>2, ReadInit, ReadStep, PTL DEF Spec
<1> QED
  BY <1>1, <1>3, PTL

-----------------------------------------------------------------------------
(* Included services *)

\* Where the requests of the new queue come from, and where those of the old
\* one and the new ones are.
LEMMA FromTailCat ==
    ASSUME TypeOK, reqs # <<>>, NEW more \in Seq(Req), reqs' = Tail(reqs) \o more
    PROVE  /\ \A i \in 1..Len(reqs') :
                  \/ \E j \in 2..Len(reqs) : j = i + 1 /\ reqs'[i] = reqs[j]
                  \/ \E k \in 1..Len(more) : i = Len(reqs) - 1 + k /\ reqs'[i] = more[k]
           /\ \A j \in 2..Len(reqs) : j \in 1..Len(reqs) /\ \E i \in 1..Len(reqs') : reqs'[i] = reqs[j]
           /\ \A k \in 1..Len(more) : \E i \in 1..Len(reqs') : reqs'[i] = more[k]
<1>1. reqs \in Seq(Req)
  BY DEF TypeOK
<1>2. /\ Len(reqs') = Len(reqs) - 1 + Len(more)
      /\ \A i \in 1..Len(reqs') : i <= Len(reqs) - 1 =>
             i + 1 \in 2..Len(reqs) /\ reqs'[i] = reqs[i + 1]
      /\ \A i \in 1..Len(reqs') : i > Len(reqs) - 1 =>
             i - (Len(reqs) - 1) \in 1..Len(more) /\ reqs'[i] = more[i - (Len(reqs) - 1)]
      /\ \A i \in 2..Len(reqs) : i - 1 \in 1..Len(reqs') /\ reqs'[i - 1] = reqs[i]
      /\ \A k \in 1..Len(more) :
             Len(reqs) - 1 + k \in 1..Len(reqs') /\ reqs'[Len(reqs) - 1 + k] = more[k]
  BY <1>1, TailCat
<1>3. PICK n \in Nat : n = Len(reqs)
  BY <1>1
<1>4. ASSUME NEW i \in 1..Len(reqs')
      PROVE  \/ \E j \in 2..Len(reqs) : j = i + 1 /\ reqs'[i] = reqs[j]
             \/ \E k \in 1..Len(more) : i = Len(reqs) - 1 + k /\ reqs'[i] = more[k]
  <2>1. CASE i <= n - 1
    BY <1>2, <1>3, <2>1
  <2>2. CASE i > n - 1
    <3>1. PICK k \in 1..Len(more) : k = i - (n - 1) /\ reqs'[i] = more[k]
      BY <1>2, <1>3, <2>2
    <3>2. i = n - 1 + k
      BY <3>1
    <3> QED
      BY <1>3, <3>1, <3>2
  <2> QED
    BY <2>1, <2>2
<1>5. \A j \in 2..Len(reqs) : j \in 1..Len(reqs)
  BY <1>3
<1> QED
  BY <1>2, <1>4, <1>5

\* A step that leaves a search alone keeps what is known of it.
LEMMA FindAlone ==
    ASSUME TypeOK, TypeOK', NEW f \in Finders, FindInv(f), Alone(f)
    PROVE  FindInv(f)'
<1>1. /\ st'[f] = st[f] /\ start'[f] = start[f] /\ err'[f] = err[f]
      /\ includes'[f] = includes[f]
  BY DEF Alone, Idle
<1>2. PICK k \in {0, 1} :
          /\ \A i \in 1..Len(reqs') : reqs'[i].p = f =>
                 i + k \in 1..Len(reqs) /\ reqs'[i] = reqs[i + k]
          /\ \A i \in 1..Len(reqs) : reqs[i].p = f =>
                 i - k \in 1..Len(reqs') /\ reqs'[i - k] = reqs[i]
  BY DEF Alone, Fewer
<1>3. /\ \A i \in 1..Len(reqs') : Includes(f, reqs'[i]) \/ Resolves(f, reqs'[i]) =>
             i + k \in 1..Len(reqs) /\ reqs'[i] = reqs[i + k]
      /\ \A i \in 1..Len(reqs) : Includes(f, reqs[i]) \/ Resolves(f, reqs[i]) =>
             i - k \in 1..Len(reqs') /\ reqs'[i - k] = reqs[i]
  BY <1>2 DEF Includes, Resolves
<1>4. Searching(f)' <=> Searching(f)
  BY <1>3 DEF Searching
<1>5. \A d : (Wants(f, d)' <=> Wants(f, d)) /\ (Has(f, d)' <=> Has(f, d))
  <2>1. \A d : Has(f, d)' <=> Has(f, d)
    BY <1>1 DEF Has
  <2>2. \A d : Wants(f, d)' => Wants(f, d)
    BY <1>3 DEF Wants
  <2>3. \A d : Wants(f, d) => Wants(f, d)'
    BY <1>3 DEF Wants
  <2> QED
    BY <2>1, <2>2, <2>3
<1>6. \A i, j \in 1..Len(reqs') : i + k = j + k => i = j
  OBVIOUS
<1>7. SearchInv(f)'
  <2>1. \A i \in 1..Len(reqs') : Includes(f, reqs'[i]) => reqs'[i].arg = start'[f]
    BY <1>1, <1>3 DEF FindInv, SearchInv
  <2>2. ASSUME NEW i \in 1..Len(reqs'), NEW j \in 1..Len(reqs'),
               Includes(f, reqs'[i]), Includes(f, reqs'[j])
        PROVE  i = j
    <3>1. i + k = j + k
      BY <1>3, <2>2 DEF FindInv, SearchInv
    <3> QED
      BY <1>6, <3>1
  <2> QED
    BY <2>1, <2>2 DEF SearchInv
<1>8. ASSUME ~err'[f] PROVE FoundInv(f)'
  <2>1. FoundInv(f)
    BY <1>1, <1>8 DEF FindInv
  <2>2. ASSUME NEW i \in 1..Len(reqs'), NEW j \in 1..Len(reqs'),
               Resolves(f, reqs'[i]), Resolves(f, reqs'[j]), reqs'[i].arg = reqs'[j].arg
        PROVE  i = j
    <3>1. i + k = j + k
      BY <1>3, <2>1, <2>2 DEF FoundInv
    <3> QED
      BY <1>6, <3>1
  <2> QED
    BY <1>1, <1>4, <1>5, <2>1, <2>2 DEF FoundInv
<1> QED
  BY <1>1, <1>7, <1>8 DEF FindInv

\* A search begins.
LEMMA FindIncludedFound ==
    ASSUME QueueInv, NEW f \in Finders, FindInv(f), FindIncluded(f)
    PROVE  FindInv(f)'
<1>1. TypeOK /\ AllFitting /\ Busy(f) /\ f \in Procs /\ reqs \in Seq(Req)
  BY Classes DEF QueueInv, TypeOK
<1>2. PICK q \in Req : /\ q = Request(f, "include", 1, <<>>) /\ q.p = f
                       /\ q.op = "include" /\ q.arg = 1
  BY <1>1, BareRequest
<1>3. /\ reqs' = Append(reqs, q) /\ st[f] = "new" /\ st'[f] = "run"
      /\ start' = start /\ err' = err /\ includes' = includes
  BY <1>1, <1>2 DEF FindIncluded, TypeOK, Starts, client
<1>4. Sole(f, q)' /\ Unique(f)'
  BY <1>1, <1>2, <1>3, OwnAppend
<1>5. start'[f] = 1 /\ ~err'[f] /\ Len(includes'[f]) = 0
  BY <1>3, EmptySeq DEF FindInv
<1>6. \A i \in 1..Len(reqs') : reqs'[i].p = f => reqs'[i].op = "include" /\ reqs'[i].arg = 1
  BY <1>2, <1>4 DEF Sole
<1>7. SearchInv(f)'
  BY <1>4, <1>5, <1>6 DEF SearchInv, Includes, Unique
<1>8. Searching(f)'
  <2>1. Len(reqs) + 1 \in 1..Len(reqs') /\ reqs'[Len(reqs) + 1] = q
    BY <1>1, <1>3, AppendAt
  <2> QED
    BY <1>2, <2>1 DEF Searching, Includes
<1>9. \A d \in DOMAIN Decls : ~Has(f, d)' /\ ~Wants(f, d)' /\ ~(d < start'[f])
  BY <1>5, <1>6, DeclFacts DEF Has, Wants, Resolves
<1>10. FoundInv(f)'
  BY <1>5, <1>6, <1>8, <1>9 DEF FoundInv, Resolves
<1> QED
  BY <1>3, <1>7, <1>10 DEF FindInv

\* The search that was answered was the only one.
LEMMA SearchRest ==
    ASSUME TypeOK, NEW f \in Finders, SearchInv(f), reqs # <<>>,
           Head(reqs).p = f, Head(reqs).op = "include"
    PROVE  /\ Head(reqs).arg = start[f]
           /\ \A i \in 2..Len(reqs) : ~Includes(f, reqs[i])
<1>1. Head(reqs) = reqs[1] /\ 1 \in 1..Len(reqs) /\ Includes(f, reqs[1])
  BY HeadReq DEF Includes
<1>2. \A i \in 2..Len(reqs) : i \in 1..Len(reqs) /\ i # 1
  OBVIOUS
<1> QED
  BY <1>1, <1>2 DEF SearchInv

\* A search that met an error goes on with what is under way and then fails.
LEMMA FindErr ==
    ASSUME TypeOK, NEW f \in Finders, SearchInv(f), reqs # <<>>,
           NEW more \in Seq(Req), reqs' = Tail(reqs) \o more,
           \A k \in 1..Len(more) : ~Includes(f, more[k]),
           err'[f], start'[f] = start[f], st'[f] \notin {"new", "ok"}
    PROVE  FindInv(f)'
<1>1. \A i \in 1..Len(reqs') : Includes(f, reqs'[i]) =>
          \E j \in 1..Len(reqs) : j = i + 1 /\ reqs'[i] = reqs[j]
  BY FromTailCat
<1>2. \A i, j \in 1..Len(reqs') : i + 1 = j + 1 => i = j
  OBVIOUS
<1>3. SearchInv(f)'
  BY <1>1, <1>2 DEF SearchInv
<1> QED
  BY <1>3 DEF FindInv

\* What is left of the queue after an answer to f, and what f waits for.
LEMMA FindRest ==
    ASSUME TypeOK, NEW f \in Finders, reqs # <<>>,
           NEW more \in Seq(Req), reqs' = Tail(reqs) \o more
    PROVE  /\ Searching(f)' <=> \/ \E j \in 2..Len(reqs) : Includes(f, reqs[j])
                                \/ \E k \in 1..Len(more) : Includes(f, more[k])
           /\ \A d : Wants(f, d)' <=>
                  \/ \E j \in 2..Len(reqs) : Resolves(f, reqs[j]) /\ reqs[j].arg = d
                  \/ \E k \in 1..Len(more) : Resolves(f, more[k]) /\ more[k].arg = d
<1>1. Searching(f)' <=> \/ \E j \in 2..Len(reqs) : Includes(f, reqs[j])
                        \/ \E k \in 1..Len(more) : Includes(f, more[k])
  BY FromTailCat DEF Searching
<1>2. \A d : Wants(f, d)' <=>
                  \/ \E j \in 2..Len(reqs) : Resolves(f, reqs[j]) /\ reqs[j].arg = d
                  \/ \E k \in 1..Len(more) : Resolves(f, more[k]) /\ more[k].arg = d
  <2> TAKE d
  <2>1. ASSUME NEW i \in 1..Len(reqs'), Resolves(f, reqs'[i]), reqs'[i].arg = d
        PROVE  \/ \E j \in 2..Len(reqs) : Resolves(f, reqs[j]) /\ reqs[j].arg = d
               \/ \E k \in 1..Len(more) : Resolves(f, more[k]) /\ more[k].arg = d
    BY <2>1, FromTailCat
  <2>2. ASSUME NEW j \in 2..Len(reqs), Resolves(f, reqs[j]), reqs[j].arg = d
        PROVE  \E i \in 1..Len(reqs') : Resolves(f, reqs'[i]) /\ reqs'[i].arg = d
    <3>1. PICK i \in 1..Len(reqs') : reqs'[i] = reqs[j]
      BY FromTailCat
    <3> QED
      BY <2>2, <3>1
  <2>3. ASSUME NEW k \in 1..Len(more), Resolves(f, more[k]), more[k].arg = d
        PROVE  \E i \in 1..Len(reqs') : Resolves(f, reqs'[i]) /\ reqs'[i].arg = d
    <3>1. PICK i \in 1..Len(reqs') : reqs'[i] = more[k]
      BY FromTailCat
    <3> QED
      BY <2>3, <3>1
  <2> QED
    BY <2>1, <2>2, <2>3 DEF Wants
<1> QED
  BY <1>1, <1>2

\* Whether an index is the first one or a later one.
LEMMA FirstOrRest ==
    ASSUME TypeOK, reqs # <<>>
    PROVE  /\ Head(reqs) = reqs[1] /\ 1 \in 1..Len(reqs)
           /\ \A i \in 1..Len(reqs) : i = 1 \/ i \in 2..Len(reqs)
           /\ \A i \in 2..Len(reqs) : i \in 1..Len(reqs) /\ i # 1
<1>1. Head(reqs) = reqs[1] /\ 1 \in 1..Len(reqs) /\ Len(reqs) \in Nat
  BY HeadReq DEF TypeOK
<1> QED
  BY <1>1

InList(list, d) == \E k \in 1..Len(list) : list[k] = d

\* A list of the server has the declarations from where f searches up to its
\* last entry.
LEMMA InListIs ==
    ASSUME NEW h \in Nat, NEW list \in Lists(h), NEW d \in DOMAIN Decls
    PROVE  InList(list, d) <=> h <= d /\ d <= list[Len(list)]
<1>1. /\ IsList(list) /\ \A i \in 1..Len(list) : list[i] >= h
      /\ \A i, j \in 1..Len(list) : i < j => list[i] < list[j]
      /\ h <= d /\ d <= list[Len(list)] => \E i \in 1..Len(list) : list[i] = d
  BY ListsFacts
<1>2. /\ Len(list) \in Nat /\ Len(list) \in 1..Len(list)
      /\ \A i \in 1..Len(list) : list[i] \in Nat
  BY <1>1, ListFacts
<1>3. \A i \in 1..Len(list) : list[i] <= list[Len(list)]
  <2> TAKE i \in 1..Len(list)
  <2>1. i = Len(list) \/ i < Len(list)
    BY <1>2
  <2> QED
    BY <1>1, <1>2, <2>1
<1> QED
  BY <1>1, <1>2, <1>3 DEF InList

\* find_included_cb with a list of the server.
LEMMA FindListFound ==
    ASSUME QueueInv, NEW f \in Finders, FindInv(f), reqs # <<>>,
           NEW list \in Lists(Head(reqs).arg), FindIncludedCb(f, list)
    PROVE  FindInv(f)'
<1>1. TypeOK /\ AllFitting /\ Busy(f) /\ f \in Procs /\ SearchInv(f)
  BY Classes DEF QueueInv, FindInv
<1>2. /\ Answer("include", "ok") /\ Head(reqs).p = f
      /\ includes' = IF Decls[list[1]] = 6 THEN includes
                     ELSE [includes EXCEPT ![f] = @ \o list]
      /\ start' = IF list[Len(list)] < start[f] THEN start
                  ELSE [start EXCEPT ![f] = list[Len(list)] + 1]
      /\ EndFind(f, MoreOf(f, list), list[Len(list)] < start[f])
  BY FindIncludedCbIs DEF MoreOf
<1>3. Head(reqs).op = "include" /\ Head(reqs).arg \in Nat
  BY <1>1, <1>2, AnswerType, HeadReq
<1>4. PICK s \in Nat : s = start[f] /\ Head(reqs).arg = s
  BY <1>1, <1>2, <1>3, SearchRest
<1>5. \A i \in 2..Len(reqs) : ~Includes(f, reqs[i])
  BY <1>1, <1>2, <1>3, SearchRest
<1>6. /\ list \in Lists(s) /\ IsList(list) /\ \A i \in 1..Len(list) : list[i] >= s
      /\ \A i, j \in 1..Len(list) : i < j => list[i] < list[j]
  BY <1>4, ListsFacts
<1>7. /\ Len(list) \in Nat /\ Len(list) \in 1..Len(list)
      /\ \A i \in 1..Len(list) : list[i] \in DOMAIN Decls /\ list[i] \in Nat
      /\ list[Len(list)] \in Nat /\ list[Len(list)] \in DOMAIN Decls
  BY <1>6, ListFacts
<1>8. PICK last \in Nat : last = list[Len(list)]
  BY <1>7
<1>9. last >= s /\ ~(last < s)
  BY <1>6, <1>7, <1>8
<1>10. PICK more \in Seq(Req) : more = MoreOf(f, list)
  BY <1>1, <1>6, MoreOfFacts
<1>11. PICK a \in Nat : a = Len(ReadsOf(f, list))
  BY <1>6, ReadsOfFacts
<1>12. /\ Len(more) = a + Len(FindOf(f, list)) /\ Len(FindOf(f, list)) \in {0, 1}
       /\ \A k \in 1..Len(more) : more[k].p = f
       /\ \A k \in 1..Len(more) : k <= a => more[k].op = "resolve" /\ more[k].arg = list[k]
       /\ \A k \in 1..Len(more) : k > a =>
              k = a + 1 /\ more[k].op = "include" /\ more[k].arg = last + 1
  BY <1>1, <1>6, <1>8, <1>10, <1>11, MoreOfFacts
<1>13. /\ Decls[list[1]] # 6 => a = 0
       /\ Decls[list[1]] = 6 => a = Len(list)
  BY <1>6, <1>11, ReadsOfFacts
<1>14. Len(FindOf(f, list)) = 1 <=> last < EndHandle
  BY <1>1, <1>4, <1>6, <1>8, <1>9, FindOfFacts DEF MoreToFind
<1>15. start'[f] = last + 1 /\ reqs' = Tail(reqs) \o more /\ (err'[f] <=> err[f])
  <2>1. start' = [start EXCEPT ![f] = last + 1]
    BY <1>2, <1>4, <1>8, <1>9
  <2>2. start'[f] = last + 1
    BY <1>1, <2>1 DEF TypeOK
  <2>3. err' = [err EXCEPT ![f] = @ \/ list[Len(list)] < start[f]]
    BY <1>2 DEF EndFind
  <2>4. ~(list[Len(list)] < start[f])
    BY <1>4, <1>8, <1>9
  <2>5. err'[f] <=> err[f]
    BY <1>1, <2>3, <2>4, Zenon DEF TypeOK
  <2>6. reqs' = Tail(reqs) \o more
    BY <1>2, <1>10 DEF EndFind
  <2> QED
    BY <2>2, <2>5, <2>6
<1>16. \A k \in 1..Len(more) : more[k].p = f /\ Fitting(more[k])
  <2> SUFFICES ASSUME NEW k \in 1..Len(more) PROVE more[k].p = f /\ Fitting(more[k])
    OBVIOUS
  <2>1. CASE k <= a
    <3>1. k \in 1..Len(list)
      BY <1>7, <1>13, <2>1
    <3>2. more[k].p = f /\ more[k].op = "resolve" /\ more[k].arg = list[k]
          /\ list[k] \in DOMAIN Decls
      BY <1>7, <1>12, <2>1, <3>1
    <3> QED
      BY <3>2, Classes DEF Fitting
  <2>2. CASE k > a
    <3>1. more[k].p = f /\ more[k].op = "include"
      BY <1>12, <2>2
    <3> QED
      BY <3>1, Classes DEF Fitting
  <2> QED
    BY <2>1, <2>2
<1>17. /\ st'[f] \in {"run", "failed", "lost", "ok"}
       /\ st'[f] = "ok" => ~err'[f]
  BY <1>1, <1>2, <1>10, <1>16, EndFindBusy
<1>18. \A i \in 1..Len(reqs') : Includes(f, reqs'[i]) =>
           \E k \in 1..Len(more) : i = Len(reqs) - 1 + k /\ reqs'[i] = more[k] /\ k = a + 1
  <2> SUFFICES ASSUME NEW i \in 1..Len(reqs'), Includes(f, reqs'[i])
               PROVE \E k \in 1..Len(more) : i = Len(reqs) - 1 + k /\ reqs'[i] = more[k] /\ k = a + 1
    OBVIOUS
  <2>1. PICK k \in 1..Len(more) : i = Len(reqs) - 1 + k /\ reqs'[i] = more[k]
    BY <1>1, <1>5, <1>15, FromTailCat
  <2>2. more[k].op = "include"
    BY <2>1 DEF Includes
  <2>3. ~(k <= a)
    BY <1>12, <2>2
  <2>4. k \in Int /\ k > a
    BY <2>3
  <2>5. k = a + 1
    BY <1>12, <2>4
  <2> QED
    BY <2>1, <2>5
<1>19. SearchInv(f)'
  <2>1. \A i \in 1..Len(reqs') : Includes(f, reqs'[i]) => reqs'[i].arg = start'[f]
    <3> SUFFICES ASSUME NEW i \in 1..Len(reqs'), Includes(f, reqs'[i])
                 PROVE  reqs'[i].arg = last + 1
      BY <1>15
    <3>1. PICK k \in 1..Len(more) : reqs'[i] = more[k] /\ k = a + 1
      BY <1>18
    <3>2. k > a
      BY <3>1
    <3> QED
      BY <1>12, <3>1, <3>2
  <2>2. \A i, j \in 1..Len(reqs') : Includes(f, reqs'[i]) /\ Includes(f, reqs'[j]) => i = j
    BY <1>18
  <2> QED
    BY <2>1, <2>2 DEF SearchInv
<1>20. ASSUME ~err'[f] PROVE FoundInv(f)'
  <2>1. FoundInv(f) /\ st[f] = "run" /\ Searching(f)
    <3>1. Head(reqs) = reqs[1] /\ 1 \in 1..Len(reqs)
      BY <1>1, HeadReq
    <3> QED
      BY <1>1, <1>2, <1>3, <1>15, <1>20, <3>1 DEF FindInv, Busy, Searching, Includes
  <2>2. Searching(f)' <=> last < EndHandle
    <3>0. Searching(f)' <=> \/ \E j \in 2..Len(reqs) : Includes(f, reqs[j])
                            \/ \E k \in 1..Len(more) : Includes(f, more[k])
      BY <1>1, <1>15, FindRest
    <3>1. Searching(f)' <=> \E k \in 1..Len(more) : Includes(f, more[k])
      BY <1>5, <3>0
    <3>2. ASSUME last < EndHandle PROVE Includes(f, more[a + 1]) /\ a + 1 \in 1..Len(more)
      <4>0. Len(more) = a + 1
        BY <1>12, <1>14, <3>2
      <4>1. a + 1 \in 1..Len(more) /\ a + 1 > a
        BY <4>0
      <4> QED
        BY <1>12, <4>1 DEF Includes
    <3>3. ASSUME NEW k \in 1..Len(more), Includes(f, more[k]) PROVE last < EndHandle
      <4>1. more[k].op = "include"
        BY <3>3 DEF Includes
      <4>2. ~(k <= a)
        BY <1>12, <4>1
      <4>3. Len(FindOf(f, list)) = 1
        <5>1. Len(FindOf(f, list)) # 0
          BY <1>12, <4>2
        <5> QED
          BY <1>12, <5>1
      <4> QED
        BY <1>14, <4>3
    <3> QED
      BY <3>1, <3>2, <3>3
  <2>3. \A d : Wants(f, d)' <=> Wants(f, d) \/ (Decls[list[1]] = 6 /\ InList(list, d))
    <3>3. \A d : Wants(f, d)' <=>
                  \/ \E j \in 2..Len(reqs) : Resolves(f, reqs[j]) /\ reqs[j].arg = d
                  \/ \E k \in 1..Len(more) : Resolves(f, more[k]) /\ more[k].arg = d
      BY <1>1, <1>15, FindRest
    <3> TAKE d
    <3>1. Wants(f, d) <=> \E j \in 2..Len(reqs) : Resolves(f, reqs[j]) /\ reqs[j].arg = d
      <4>1. ~Resolves(f, reqs[1])
        BY <1>1, <1>3, FirstOrRest DEF Resolves
      <4> QED
        BY <1>1, <4>1, FirstOrRest DEF Wants
    <3>2. (\E k \in 1..Len(more) : Resolves(f, more[k]) /\ more[k].arg = d)
              <=> Decls[list[1]] = 6 /\ InList(list, d)
      <4>1. ASSUME NEW k \in 1..Len(more), Resolves(f, more[k]), more[k].arg = d
            PROVE  Decls[list[1]] = 6 /\ InList(list, d)
        <5>1. more[k].op = "resolve"
          BY <4>1 DEF Resolves
        <5>2. k <= a
          BY <1>12, <5>1
        <5>3. Decls[list[1]] = 6 /\ k \in 1..Len(list)
          BY <1>7, <1>13, <5>2
        <5> QED
          BY <1>12, <4>1, <5>2, <5>3 DEF InList
      <4>2. ASSUME Decls[list[1]] = 6, NEW k \in 1..Len(list), list[k] = d
            PROVE  k \in 1..Len(more) /\ Resolves(f, more[k]) /\ more[k].arg = d
        <5>1. k \in 1..Len(more) /\ k <= a
          BY <1>7, <1>12, <1>13, <4>2
        <5> QED
          BY <1>12, <4>2, <5>1 DEF Resolves
      <4> QED
        BY <4>1, <4>2 DEF InList
    <3> QED
      BY <3>1, <3>2, <3>3
  <2>4. /\ includes[f] \in Seq(DOMAIN Decls) /\ list \in Seq(DOMAIN Decls)
        /\ includes'[f] = IF Decls[list[1]] = 6 THEN includes[f] ELSE includes[f] \o list
    BY <1>1, <1>2, <1>6 DEF TypeOK, IsList
  <2>5. PICK inc \in Seq(DOMAIN Decls) : inc = includes[f]
    BY <2>4
  <2>6. PICK b \in Nat : b = Len(inc)
    BY <2>5
  <2>7. Decls[list[1]] # 6 =>
            /\ Len(includes'[f]) = b + Len(list)
            /\ \A i \in 1..(b + Len(list)) :
                   includes'[f][i] = IF i <= b THEN inc[i] ELSE list[i - b]
    BY <2>4, <2>5, <2>6, ConcatProperties
  <2>8. \A d : Has(f, d)' <=> Has(f, d) \/ (Decls[list[1]] # 6 /\ InList(list, d))
    <3> TAKE d
    <3>1. CASE Decls[list[1]] = 6
      BY <2>4, <3>1 DEF Has
    <3>2. CASE Decls[list[1]] # 6
      <4>1. ASSUME NEW i \in 1..Len(includes'[f]), includes'[f][i] = d
            PROVE  Has(f, d) \/ InList(list, d)
        <5>1. (i \in 1..b /\ i <= b) \/ (~(i <= b) /\ i - b \in 1..Len(list))
          BY <1>7, <2>7, <3>2
        <5>2. d = IF i <= b THEN inc[i] ELSE list[i - b]
          BY <2>7, <3>2, <4>1
        <5>3. CASE i \in 1..b /\ i <= b
          BY <2>5, <2>6, <5>2, <5>3 DEF Has
        <5>4. CASE ~(i <= b) /\ i - b \in 1..Len(list)
          BY <5>2, <5>4 DEF InList
        <5> QED
          BY <5>1, <5>3, <5>4
      <4>2. ASSUME NEW i \in 1..b, inc[i] = d
            PROVE  i \in 1..Len(includes'[f]) /\ includes'[f][i] = d
        BY <1>7, <2>7, <3>2, <4>2
      <4>3. ASSUME NEW k \in 1..Len(list), list[k] = d
            PROVE  b + k \in 1..Len(includes'[f]) /\ includes'[f][b + k] = d
        <5>1. b + k \in 1..(b + Len(list)) /\ ~(b + k <= b) /\ (b + k) - b = k
          BY <1>7
        <5> QED
          BY <2>7, <3>2, <4>3, <5>1
      <4> QED
        BY <2>5, <2>6, <3>2, <4>1, <4>2, <4>3 DEF Has, InList
    <3> QED
      BY <3>1, <3>2
  <2>9. \A d \in DOMAIN Decls : /\ d \in Nat /\ d <= EndHandle
                                /\ InList(list, d) <=> s <= d /\ d <= last
                                /\ (Has(f, d) \/ Wants(f, d)) <=> d < s
    BY <1>4, <1>6, <1>8, <2>1, InListIs, DeclFacts DEF FoundInv
  <2>10. \A d \in DOMAIN Decls : ~(Has(f, d)' /\ Wants(f, d)')
    <3> TAKE d \in DOMAIN Decls
    <3>1. InList(list, d) => ~Has(f, d) /\ ~Wants(f, d)
      BY <2>9
    <3>2. ~(Has(f, d) /\ Wants(f, d))
      BY <2>1 DEF FoundInv
    <3> QED
      BY <2>3, <2>8, <3>1, <3>2
  <2>11. \A d \in DOMAIN Decls :
             Has(f, d)' \/ Wants(f, d)' <=> (Searching(f)' => d < start'[f])
    <3> TAKE d \in DOMAIN Decls
    <3>1. (Has(f, d)' \/ Wants(f, d)') <=> (d < s \/ (s <= d /\ d <= last))
      BY <2>3, <2>8, <2>9
    <3>2. (last < EndHandle => d < last + 1) <=> (d < s \/ (s <= d /\ d <= last))
      BY <1>9, <2>9, DeclFacts
    <3> QED
      BY <1>15, <2>2, <3>1, <3>2
  <2>12. \A i, j \in 1..Len(list) : list[i] = list[j] => i = j
    <3> TAKE i, j \in 1..Len(list)
    <3>1. i = j \/ i < j \/ j < i
      BY <1>7
    <3> QED
      BY <1>6, <1>7, <3>1
  <2>13. \A i, j \in 1..Len(includes'[f]) : includes'[f][i] = includes'[f][j] => i = j
    <3>1. CASE Decls[list[1]] = 6
      BY <2>1, <2>4, <3>1 DEF FoundInv
    <3>2. CASE Decls[list[1]] # 6
      <4> SUFFICES ASSUME NEW i \in 1..Len(includes'[f]), NEW j \in 1..Len(includes'[f]),
                          includes'[f][i] = includes'[f][j]
                   PROVE  i = j
        OBVIOUS
      <4>1. \A k \in 1..b : inc[k] \in Nat /\ inc[k] < s
        <5> TAKE k \in 1..b
        <5>1. inc[k] \in DOMAIN Decls /\ Has(f, inc[k])
          BY <2>5, <2>6 DEF Has
        <5> QED
          BY <2>9, <5>1
      <4>2. \A k \in 1..Len(list) : list[k] \in Nat /\ ~(list[k] < s)
        BY <1>6, <1>7
      <4>3. \A k, l \in 1..b : inc[k] = inc[l] => k = l
        BY <2>1, <2>5, <2>6 DEF FoundInv
      <4>4. (i \in 1..b /\ i <= b) \/ (~(i <= b) /\ i - b \in 1..Len(list))
        BY <1>7, <2>7, <3>2
      <4>5. (j \in 1..b /\ j <= b) \/ (~(j <= b) /\ j - b \in 1..Len(list))
        BY <1>7, <2>7, <3>2
      <4>6. /\ includes'[f][i] = IF i <= b THEN inc[i] ELSE list[i - b]
            /\ includes'[f][j] = IF j <= b THEN inc[j] ELSE list[j - b]
        BY <2>7, <3>2
      <4>7. i - b = j - b => i = j
        OBVIOUS
      <4>8. CASE i \in 1..b /\ i <= b
        BY <4>1, <4>2, <4>3, <4>5, <4>6, <4>8
      <4>9. CASE ~(i <= b) /\ i - b \in 1..Len(list)
        <5>1. CASE j \in 1..b /\ j <= b
          BY <4>1, <4>2, <4>6, <4>9, <5>1
        <5>2. CASE ~(j <= b) /\ j - b \in 1..Len(list)
          BY <2>12, <4>6, <4>7, <4>9, <5>2
        <5> QED
          BY <4>5, <5>1, <5>2
      <4> QED
        BY <4>4, <4>8, <4>9
    <3> QED
      BY <3>1, <3>2
  <2>14. ASSUME NEW i \in 1..Len(reqs'), NEW j \in 1..Len(reqs'),
                Resolves(f, reqs'[i]), Resolves(f, reqs'[j]), reqs'[i].arg = reqs'[j].arg
         PROVE  i = j
    <3>1. \A x \in 1..Len(reqs') : Resolves(f, reqs'[x]) =>
              \/ \E y \in 2..Len(reqs) : y = x + 1 /\ reqs'[x] = reqs[y]
                                         /\ reqs'[x].arg < s /\ reqs'[x].arg \in Nat
              \/ \E k \in 1..Len(list) : x = Len(reqs) - 1 + k /\ reqs'[x].arg = list[k]
      <4> SUFFICES ASSUME NEW x \in 1..Len(reqs'), Resolves(f, reqs'[x])
                   PROVE \/ \E y \in 2..Len(reqs) : y = x + 1 /\ reqs'[x] = reqs[y]
                                         /\ reqs'[x].arg < s /\ reqs'[x].arg \in Nat
                         \/ \E k \in 1..Len(list) : x = Len(reqs) - 1 + k /\ reqs'[x].arg = list[k]
        OBVIOUS
      <4>1. ASSUME NEW y \in 2..Len(reqs), y = x + 1, reqs'[x] = reqs[y]
            PROVE  reqs'[x].arg < s /\ reqs'[x].arg \in Nat
        <5>1. y \in 1..Len(reqs) /\ Resolves(f, reqs[y])
          BY <1>1, <4>1, FirstOrRest
        <5>2. reqs[y].arg \in DOMAIN Decls /\ Wants(f, reqs[y].arg)
          BY <1>1, <5>1 DEF AllFitting, Fitting, Wants, Resolves
        <5> QED
          BY <2>9, <4>1, <5>2
      <4>2. ASSUME NEW k \in 1..Len(more), x = Len(reqs) - 1 + k, reqs'[x] = more[k]
            PROVE  k \in 1..Len(list) /\ reqs'[x].arg = list[k]
        <5>1. more[k].op = "resolve"
          BY <4>2 DEF Resolves
        <5>2. k <= a
          BY <1>12, <5>1
        <5>3. k \in 1..Len(list)
          BY <1>7, <1>13, <5>2
        <5> QED
          BY <1>12, <4>2, <5>2, <5>3
      <4>3. \/ \E y \in 2..Len(reqs) : y = x + 1 /\ reqs'[x] = reqs[y]
            \/ \E k \in 1..Len(more) : x = Len(reqs) - 1 + k /\ reqs'[x] = more[k]
        BY <1>1, <1>15, FromTailCat
      <4> QED
        BY <4>1, <4>2, <4>3
    <3>2. \A y, z \in 2..Len(reqs) :
              Resolves(f, reqs[y]) /\ Resolves(f, reqs[z]) /\ reqs[y].arg = reqs[z].arg => y = z
      BY <1>1, <2>1, FirstOrRest DEF FoundInv
    <3>3. \A k \in 1..Len(list) : list[k] \in Nat /\ ~(list[k] < s)
      BY <1>6, <1>7
    <3>4. CASE \E y \in 2..Len(reqs) : y = i + 1 /\ reqs'[i] = reqs[y]
                                       /\ reqs'[i].arg < s /\ reqs'[i].arg \in Nat
      <4>1. PICK y \in 2..Len(reqs) : y = i + 1 /\ reqs'[i] = reqs[y]
                                       /\ reqs'[i].arg < s /\ reqs'[i].arg \in Nat
        BY <3>4
      <4>2. PICK z \in 2..Len(reqs) : z = j + 1 /\ reqs'[j] = reqs[z]
        BY <2>14, <3>1, <3>3, <4>1
      <4>3. y = z
        BY <2>14, <3>2, <4>1, <4>2
      <4>4. i + 1 = j + 1
        BY <4>1, <4>2, <4>3
      <4> QED
        BY <4>4
    <3>5. CASE \E k \in 1..Len(list) : i = Len(reqs) - 1 + k /\ reqs'[i].arg = list[k]
      <4>1. PICK k \in 1..Len(list) : i = Len(reqs) - 1 + k /\ reqs'[i].arg = list[k]
        BY <3>5
      <4>2. PICK l \in 1..Len(list) : j = Len(reqs) - 1 + l /\ reqs'[j].arg = list[l]
        BY <2>14, <3>1, <3>3, <4>1
      <4>3. k = l
        BY <2>12, <2>14, <4>1, <4>2
      <4> QED
        BY <4>1, <4>2, <4>3
    <3> QED
      BY <2>14, <3>1, <3>4, <3>5
  <2> QED
    BY <2>10, <2>11, <2>13, <2>14 DEF FoundInv
<1> QED
  BY <1>17, <1>19, <1>20 DEF FindInv

\* find_included_cb with an entry that was not asked for is an error.
LEMMA FindBackFound ==
    ASSUME QueueInv, NEW f \in Finders, FindInv(f),
           NEW h \in DOMAIN Decls, h < start[f], FindIncludedCb(f, <<h>>)
    PROVE  FindInv(f)'
<1>1. TypeOK /\ AllFitting /\ Busy(f) /\ f \in Procs /\ SearchInv(f)
  BY Classes DEF QueueInv, FindInv
<1>2. IsList(<<h>>) /\ Len(<<h>>) = 1 /\ <<h>>[1] = h
  BY BackList
<1>3. PICK list : list = <<h>> /\ IsList(list) /\ list[Len(list)] = h
  BY <1>2
<1>4. /\ Answer("include", "ok") /\ Head(reqs).p = f /\ start' = start
      /\ EndFind(f, MoreOf(f, list), TRUE)
  <2>1. list[Len(list)] < start[f]
    BY <1>3
  <2>2. /\ Answer("include", "ok") /\ Head(reqs).p = f
        /\ start' = IF list[Len(list)] < start[f] THEN start
                    ELSE [start EXCEPT ![f] = list[Len(list)] + 1]
        /\ EndFind(f, MoreOf(f, list), list[Len(list)] < start[f])
    BY <1>3, FindIncludedCbIs DEF MoreOf
  <2>3. (list[Len(list)] < start[f]) = TRUE
    BY <2>1
  <2> QED
    BY <2>1, <2>2, <2>3
<1>5. PICK more \in Seq(Req) : more = MoreOf(f, list)
  BY <1>1, <1>3, MoreOfFacts
<1>6. \A k \in 1..Len(more) : more[k].p = f /\ more[k].op = "resolve" /\ more[k].arg \in DOMAIN Decls
  <2>1. PICK a \in Nat : a = Len(ReadsOf(f, list))
    BY <1>3, ReadsOfFacts
  <2>2. Len(FindOf(f, list)) = 0
    BY <1>1, <1>3, FindOfFacts
  <2>3. /\ Len(more) = a + Len(FindOf(f, list))
        /\ \A k \in 1..Len(more) : more[k].p = f
        /\ \A k \in 1..Len(more) : k <= a => more[k].op = "resolve" /\ more[k].arg = list[k]
    <3>1. Len(more) = a + Len(FindOf(f, list))
      BY <1>1, <1>3, <1>5, <2>1, MoreOfFacts
    <3>2. \A k \in 1..Len(more) : more[k].p = f
      BY <1>1, <1>3, <1>5, MoreOfFacts
    <3>3. \A k \in 1..Len(more) : k <= a => more[k].op = "resolve" /\ more[k].arg = list[k]
      BY <1>1, <1>3, <1>5, <2>1, MoreOfFacts
    <3> QED
      BY <3>1, <3>2, <3>3
  <2>4. \A k \in 1..Len(more) : k <= a /\ k \in 1..Len(list)
    BY <1>3, <2>1, <2>2, <2>3, ReadsOfFacts
  <2>5. \A k \in 1..Len(list) : list[k] \in DOMAIN Decls
    BY <1>3, ListFacts
  <2> QED
    BY <2>3, <2>4, <2>5
<1>7. \A k \in 1..Len(more) : Fitting(more[k]) /\ ~Includes(f, more[k])
  BY <1>6, Classes DEF Fitting, Includes
<1>8. reqs # <<>>
  BY <1>1, <1>4, AnswerType
<1>9. /\ st'[f] \in {"run", "failed", "lost", "ok"}
      /\ st'[f] = "ok" => ~err'[f]
  BY <1>1, <1>4, <1>5, <1>6, <1>7, <1>8, EndFindBusy
<1>10. err'[f]
  <2>1. err' = [err EXCEPT ![f] = @ \/ TRUE]
    BY <1>4 DEF EndFind
  <2> QED
    BY <1>1, <2>1, Zenon DEF TypeOK
<1>11. reqs' = Tail(reqs) \o more
  BY <1>4, <1>5 DEF EndFind
<1> QED
  BY <1>1, <1>4, <1>7, <1>8, <1>9, <1>10, <1>11, FindErr

\* The last answer to a search: with an error, or past the last declaration.
LEMMA EndSearch ==
    ASSUME QueueInv, NEW f \in Finders, FindInv(f), NEW e \in BOOLEAN,
           reqs # <<>>, Head(reqs).p = f, Head(reqs).op = "include",
           EndFind(f, <<>>, e), start' = start, includes' = includes,
           ~e => DeclsFrom(Head(reqs).arg) = {}
    PROVE  FindInv(f)'
<1>1. TypeOK /\ AllFitting /\ Busy(f) /\ f \in Procs /\ SearchInv(f)
  BY Classes DEF QueueInv, FindInv
<1>2. /\ reqs # <<>> /\ Head(reqs).p = f /\ EndFind(f, <<>>, e)
      /\ start' = start /\ includes' = includes /\ Head(reqs).op = "include"
      /\ ~e => DeclsFrom(Head(reqs).arg) = {}
  OBVIOUS
<1>3. PICK more \in Seq(Req) : more = <<>> /\ Len(more) = 0
  BY EmptySeq
<1>10. Len(more) = 0
  BY <1>3
<1>4. \A k \in 1..Len(more) : /\ more[k].p = f /\ Fitting(more[k])
                              /\ ~Includes(f, more[k]) /\ ~Resolves(f, more[k])
  <2>1. 1..Len(more) = {}
    BY <1>10
  <2> QED
    BY <2>1
<1>5. reqs' = Tail(reqs) \o more
  BY <1>2, <1>3 DEF EndFind
<1>6. /\ st'[f] \in {"run", "failed", "lost", "ok"}
      /\ st'[f] = "ok" => ~err'[f]
  BY <1>1, <1>2, <1>3, <1>4, EndFindBusy
<1>7. err'[f] <=> (err[f] \/ e)
  <2>1. err' = [err EXCEPT ![f] = @ \/ e]
    BY <1>2 DEF EndFind
  <2> QED
    BY <1>1, <2>1, Zenon DEF TypeOK
<1>8. CASE err'[f]
  BY <1>1, <1>2, <1>4, <1>5, <1>6, <1>8, FindErr
<1>9. CASE ~err'[f]
  <2>1. ~e /\ ~err[f] /\ FoundInv(f)
    BY <1>7, <1>9 DEF FindInv
  <2>2. /\ Head(reqs).arg = start[f] /\ start[f] \in Nat
        /\ \A i \in 2..Len(reqs) : ~Includes(f, reqs[i])
    BY <1>1, <1>2, SearchRest DEF TypeOK
  <2>3. /\ \A i \in 1..Len(reqs') : \E j \in 2..Len(reqs) : j = i + 1 /\ reqs'[i] = reqs[j]
        /\ \A j \in 2..Len(reqs) : \E i \in 1..Len(reqs') : reqs'[i] = reqs[j]
    <3>1. 1..Len(more) = {}
      BY <1>10
    <3> QED
      BY <1>1, <1>2, <1>5, <3>1, FromTailCat
  <2>4. ~Searching(f)'
    BY <2>2, <2>3 DEF Searching
  <2>5. SearchInv(f)'
    BY <2>2, <2>3 DEF SearchInv
  <2>6. \A d \in DOMAIN Decls : d < start[f]
    <3> TAKE d \in DOMAIN Decls
    <3>1. DeclsFrom(start[f]) = {}
      BY <1>2, <2>1, <2>2
    <3>2. ~(d >= start[f])
      BY <3>1 DEF DeclsFrom
    <3>3. d \in Nat /\ start[f] \in Nat
      BY <2>2, DeclFacts
    <3> QED
      BY <3>2, <3>3
  <2>7. \A d : Has(f, d)' <=> Has(f, d)
    BY <1>2 DEF Has
  <2>8. \A d : Wants(f, d)' <=> Wants(f, d)
    <3>3. \A d : Wants(f, d)' <=>
                  \/ \E j \in 2..Len(reqs) : Resolves(f, reqs[j]) /\ reqs[j].arg = d
                  \/ \E k \in 1..Len(more) : Resolves(f, more[k]) /\ more[k].arg = d
      BY <1>1, <1>2, <1>5, FindRest
    <3> TAKE d
    <3>1. ~Resolves(f, reqs[1])
      BY <1>1, <1>2, FirstOrRest DEF Resolves
    <3>2. Wants(f, d) <=> \E j \in 2..Len(reqs) : Resolves(f, reqs[j]) /\ reqs[j].arg = d
      BY <1>1, <1>2, <3>1, FirstOrRest DEF Wants
    <3> QED
      BY <1>4, <3>2, <3>3
  <2>9. st[f] = "run"
    BY <1>1, <1>2, FirstOrRest DEF Busy
  <2>10. \A d \in DOMAIN Decls : Has(f, d)' \/ Wants(f, d)'
    BY <2>1, <2>6, <2>7, <2>8, <2>9 DEF FoundInv
  <2>11. ASSUME NEW i \in 1..Len(reqs'), NEW j \in 1..Len(reqs'),
                Resolves(f, reqs'[i]), Resolves(f, reqs'[j]), reqs'[i].arg = reqs'[j].arg
         PROVE  i = j
    <3>1. PICK y \in 2..Len(reqs) : y = i + 1 /\ reqs'[i] = reqs[y]
      BY <2>3
    <3>2. PICK z \in 2..Len(reqs) : z = j + 1 /\ reqs'[j] = reqs[z]
      BY <2>3
    <3>3. y \in 1..Len(reqs) /\ z \in 1..Len(reqs)
      BY <1>1, <1>2, FirstOrRest
    <3>5. \A x1, x2 \in 1..Len(reqs) :
              Resolves(f, reqs[x1]) /\ Resolves(f, reqs[x2]) /\ reqs[x1].arg = reqs[x2].arg
                  => x1 = x2
      BY <2>1 DEF FoundInv
    <3>4. y = z
      BY <2>11, <3>1, <3>2, <3>3, <3>5
    <3> QED
      BY <3>1, <3>2, <3>4
  <2>12. \A i, j \in 1..Len(includes'[f]) : includes'[f][i] = includes'[f][j] => i = j
    BY <1>2, <2>1 DEF FoundInv
  <2>13. \A d \in DOMAIN Decls : ~(Has(f, d)' /\ Wants(f, d)')
    BY <2>1, <2>7, <2>8 DEF FoundInv
  <2>14. FoundInv(f)'
    BY <2>4, <2>10, <2>11, <2>12, <2>13 DEF FoundInv
  <2> QED
    BY <1>6, <1>9, <2>5, <2>14 DEF FindInv
<1> QED
  BY <1>8, <1>9

\* find_included_cb at the end of the search, or with an error.
LEMMA FindIncludedEndFound ==
    ASSUME QueueInv, NEW f \in Finders, FindInv(f), NEW res \in {"not found", "error"},
           FindIncludedEnd(f, res)
    PROVE  FindInv(f)'
<1>1. TypeOK
  BY DEF QueueInv
<1>2. /\ reqs # <<>> /\ Head(reqs).p = f /\ EndFind(f, <<>>, res # "not found")
      /\ start' = start /\ includes' = includes /\ Head(reqs).op = "include"
      /\ ~(res # "not found") => DeclsFrom(Head(reqs).arg) = {}
  BY <1>1, AnswerType DEF FindIncludedEnd
<1>3. (res # "not found") \in BOOLEAN
  OBVIOUS
<1> QED
  BY <1>2, <1>3, EndSearch

\* resolve_included_uuid_cb
LEMMA ResolveIncludedCbFound ==
    ASSUME QueueInv, NEW f \in Finders, FindInv(f), NEW res \in {"ok", "error"},
           ResolveIncludedCb(f, res)
    PROVE  FindInv(f)'
<1>1. TypeOK /\ AllFitting /\ Busy(f) /\ f \in Procs /\ SearchInv(f)
  BY Classes DEF QueueInv, FindInv
<1>2. /\ reqs # <<>> /\ Head(reqs).p = f /\ EndFind(f, <<>>, res # "ok")
      /\ start' = start /\ Head(reqs).op = "resolve"
      /\ includes' = IF res = "ok"
                     THEN [includes EXCEPT ![f] = Append(@, Head(reqs).arg)]
                     ELSE includes
  BY <1>1, AnswerType DEF ResolveIncludedCb
<1>3. PICK more \in Seq(Req) : more = <<>> /\ Len(more) = 0
  BY EmptySeq
<1>10. Len(more) = 0
  BY <1>3
<1>4. \A k \in 1..Len(more) : /\ more[k].p = f /\ Fitting(more[k])
                              /\ ~Includes(f, more[k]) /\ ~Resolves(f, more[k])
  <2>1. 1..Len(more) = {}
    BY <1>10
  <2> QED
    BY <2>1
<1>5. reqs' = Tail(reqs) \o more
  BY <1>2, <1>3 DEF EndFind
<1>6. /\ st'[f] \in {"run", "failed", "lost", "ok"}
      /\ st'[f] = "ok" => ~err'[f]
  BY <1>1, <1>2, <1>3, <1>4, EndFindBusy
<1>7. err'[f] <=> (err[f] \/ res # "ok")
  <2>1. err' = [err EXCEPT ![f] = @ \/ res # "ok"]
    BY <1>2 DEF EndFind
  <2> QED
    BY <1>1, <2>1, Zenon DEF TypeOK
<1>8. CASE err'[f]
  BY <1>1, <1>2, <1>4, <1>5, <1>6, <1>8, FindErr
<1>9. CASE ~err'[f]
  <2>1. res = "ok" /\ ~err[f] /\ FoundInv(f)
    BY <1>7, <1>9 DEF FindInv
  <2>2. /\ Head(reqs) = reqs[1] /\ 1 \in 1..Len(reqs) /\ Resolves(f, reqs[1])
        /\ ~Includes(f, reqs[1])
        /\ \A i \in 1..Len(reqs) : i = 1 \/ i \in 2..Len(reqs)
        /\ \A i \in 2..Len(reqs) : i \in 1..Len(reqs) /\ i # 1
    BY <1>1, <1>2, FirstOrRest DEF Resolves, Includes
  <2>3. PICK h \in DOMAIN Decls : h = Head(reqs).arg /\ Wants(f, h)
    BY <1>1, <1>2, <2>2 DEF AllFitting, Fitting, Wants
  <2>4. \A i \in 1..Len(reqs') : \E j \in 2..Len(reqs) : j = i + 1 /\ reqs'[i] = reqs[j]
    BY <1>1, <1>2, <1>4, <1>5, <1>10, FromTailCat
  <2>5. Searching(f)' <=> Searching(f)
    <3>1. Searching(f)' <=> \/ \E j \in 2..Len(reqs) : Includes(f, reqs[j])
                            \/ \E k \in 1..Len(more) : Includes(f, more[k])
      BY <1>1, <1>2, <1>5, FindRest
    <3> QED
      BY <1>4, <2>2, <3>1 DEF Searching
  <2>6. SearchInv(f)'
    <3>1. \A i, j \in 1..Len(reqs') : i + 1 = j + 1 => i = j
      OBVIOUS
    <3>2. SearchInv(f) /\ start'[f] = start[f]
      BY <1>1, <1>2 DEF FindInv
    <3>3. \A i \in 1..Len(reqs') : i + 1 \in 1..Len(reqs) /\ reqs'[i] = reqs[i + 1]
      BY <2>2, <2>4
    <3>4. \A i \in 1..Len(reqs') : Includes(f, reqs'[i]) => reqs'[i].arg = start'[f]
      BY <3>2, <3>3 DEF SearchInv
    <3>5. \A i, j \in 1..Len(reqs') : Includes(f, reqs'[i]) /\ Includes(f, reqs'[j]) => i = j
      BY <3>1, <3>2, <3>3 DEF SearchInv
    <3> QED
      BY <3>4, <3>5 DEF SearchInv, Includes
  <2>7. \A d : Wants(f, d)' <=> Wants(f, d) /\ d # h
    <3>3. \A d : Wants(f, d)' <=>
                  \/ \E j \in 2..Len(reqs) : Resolves(f, reqs[j]) /\ reqs[j].arg = d
                  \/ \E k \in 1..Len(more) : Resolves(f, more[k]) /\ more[k].arg = d
      BY <1>1, <1>2, <1>5, FindRest
    <3> TAKE d
    <3>1. \A j \in 2..Len(reqs) : Resolves(f, reqs[j]) => reqs[j].arg # h
      BY <2>1, <2>2, <2>3 DEF FoundInv
    <3>2. Wants(f, d) /\ d # h <=> \E j \in 2..Len(reqs) : Resolves(f, reqs[j]) /\ reqs[j].arg = d
      <4>1. ASSUME NEW j \in 2..Len(reqs), Resolves(f, reqs[j]), reqs[j].arg = d
            PROVE  Wants(f, d) /\ d # h
        BY <2>2, <3>1, <4>1 DEF Wants
      <4>2. ASSUME Wants(f, d), d # h
            PROVE  \E j \in 2..Len(reqs) : Resolves(f, reqs[j]) /\ reqs[j].arg = d
        BY <2>2, <2>3, <4>2 DEF Wants
      <4> QED
        BY <4>1, <4>2
    <3> QED
      BY <1>4, <3>2, <3>3
  <2>8. PICK inc \in Seq(DOMAIN Decls) : inc = includes[f]
    BY <1>1 DEF TypeOK
  <2>9. includes'[f] = Append(inc, h)
    BY <1>1, <1>2, <2>1, <2>3, <2>8 DEF TypeOK
  <2>10. PICK n \in Nat : n = Len(inc)
    BY <2>8
  <2>11. /\ Len(includes'[f]) = n + 1 /\ includes'[f][n + 1] = h
         /\ \A i \in 1..n : includes'[f][i] = inc[i]
         /\ \A i \in 1..(n + 1) : i \in 1..n \/ i = n + 1
    BY <2>8, <2>9, <2>10
  <2>12. \A d : Has(f, d)' <=> Has(f, d) \/ d = h
    <3> TAKE d
    <3>1. ASSUME NEW i \in 1..n, inc[i] = d
          PROVE  i \in 1..Len(includes'[f]) /\ includes'[f][i] = d
      BY <2>11, <3>1
    <3>2. n + 1 \in 1..Len(includes'[f]) /\ includes'[f][n + 1] = h
      BY <2>11
    <3>3. ASSUME NEW i \in 1..Len(includes'[f]), includes'[f][i] = d
          PROVE  (i \in 1..n /\ inc[i] = d) \/ d = h
      BY <2>11, <3>3
    <3> QED
      BY <2>8, <2>10, <3>1, <3>2, <3>3 DEF Has
  <2>13. st[f] = "run"
    BY <1>1, <1>2, FirstOrRest DEF Busy
  <2>14. ~Has(f, h)
    BY <2>1, <2>3 DEF FoundInv
  <2>15. \A d \in DOMAIN Decls : ~(Has(f, d)' /\ Wants(f, d)')
    BY <2>1, <2>7, <2>12 DEF FoundInv
  <2>16. \A d \in DOMAIN Decls :
             Has(f, d)' \/ Wants(f, d)' <=> (Searching(f)' => d < start'[f])
    <3> TAKE d \in DOMAIN Decls
    <3>1. Has(f, d) \/ Wants(f, d) <=> (Searching(f) => d < start[f])
      BY <2>1, <2>13 DEF FoundInv
    <3>2. Has(f, d)' \/ Wants(f, d)' <=> Has(f, d) \/ Wants(f, d)
      BY <2>3, <2>7, <2>12
    <3> QED
      BY <1>2, <2>5, <3>1, <3>2
  <2>17. \A i, j \in 1..Len(includes'[f]) : includes'[f][i] = includes'[f][j] => i = j
    <3>1. \A i \in 1..n : inc[i] # h
      BY <2>8, <2>10, <2>14 DEF Has
    <3>2. \A i, j \in 1..n : inc[i] = inc[j] => i = j
      BY <2>1, <2>8, <2>10 DEF FoundInv
    <3> QED
      BY <2>11, <3>1, <3>2
  <2>18. ASSUME NEW i \in 1..Len(reqs'), NEW j \in 1..Len(reqs'),
                Resolves(f, reqs'[i]), Resolves(f, reqs'[j]), reqs'[i].arg = reqs'[j].arg
         PROVE  i = j
    <3>1. PICK y \in 2..Len(reqs) : y = i + 1 /\ reqs'[i] = reqs[y]
      BY <2>4
    <3>2. PICK z \in 2..Len(reqs) : z = j + 1 /\ reqs'[j] = reqs[z]
      BY <2>4
    <3>3. y \in 1..Len(reqs) /\ z \in 1..Len(reqs)
      BY <2>2
    <3>4. y = z
      BY <2>1, <2>18, <3>1, <3>2, <3>3 DEF FoundInv
    <3> QED
      BY <3>1, <3>2, <3>4
  <2>19. FoundInv(f)'
    BY <2>15, <2>16, <2>17, <2>18 DEF FoundInv
  <2> QED
    BY <1>6, <1>9, <2>6, <2>19 DEF FindInv
<1> QED
  BY <1>8, <1>9

AllFinds == \A f \in Finders : FindInv(f)

\* No search has begun at first.
LEMMA FindInit == Init => AllFinds
<1> SUFFICES ASSUME Init, NEW f \in Finders PROVE FindInv(f)
  BY DEF AllFinds
<1>1. /\ st[f] = "new" /\ Len(reqs) = 0 /\ start[f] = 1 /\ ~err[f]
      /\ includes[f] = <<>> /\ Len(includes[f]) = 0
  BY Classes, EmptySeq DEF Init
<1> QED
  BY <1>1 DEF FindInv, SearchInv, FoundInv, Has, Wants

\* Every step keeps the invariant of the searches.
LEMMA FindStep == QueueInv /\ QueueInv' /\ AllFinds /\ [Next]_vars => AllFinds'
<1> SUFFICES ASSUME QueueInv, QueueInv', AllFinds, [Next]_vars, NEW f \in Finders
             PROVE  FindInv(f)'
  BY DEF AllFinds
<1>1. /\ FindInv(f) /\ TypeOK /\ AllFitting /\ f \in Procs /\ f \notin Writers
      /\ f \notin Readers /\ TypeOK'
  BY Classes DEF AllFinds, QueueInv
<1>2. CASE UNCHANGED vars
  BY <1>1, <1>2 DEF FindInv, SearchInv, FoundInv, Has, Wants, Searching, vars, client
<1>3. CASE Next
  <2>1. Alone(f) \/ OwnFind(f)
    BY <1>1, <1>3, AloneOrOwn
  <2>2. ASSUME NEW list, Answered(f, list), FindIncludedCb(f, list)
        PROVE  FindInv(f)'
    BY <1>1, <2>2, FindListFound, FindBackFound DEF Answered
  <2> QED
    BY <1>1, <2>1, <2>2, FindAlone, FindIncludedFound, FindIncludedEndFound,
       ResolveIncludedCbFound DEF OwnFind
<1> QED
  BY <1>2, <1>3

\* A search for included services that ends without an error has found every
\* declaration of the server, each one once, whatever lists the server makes
\* of them and in whatever order the reads of the UUIDs and the other
\* procedures' requests come between: the search goes on at last + 1 and its
\* end waits for every read (isd_unref).
THEOREM IncludedCorrect == Spec => []IncludedComplete
<1>1. ASSUME QueueInv, AllFinds PROVE IncludedComplete
  <2> SUFFICES ASSUME NEW f \in Finders, st[f] = "ok"
               PROVE  /\ ToSet(includes[f]) = DOMAIN Decls
                      /\ Len(includes[f]) = Cardinality(DOMAIN Decls)
    BY DEF IncludedComplete
  <2>1. FindInv(f) /\ FoundInv(f) /\ Busy(f) /\ TypeOK
    BY <1>1, Classes DEF AllFinds, FindInv, QueueInv
  <2>2. Absent(f)
    BY <2>1 DEF Busy, Absent
  <2>3. \A d \in DOMAIN Decls : ~Wants(f, d) /\ ~Searching(f)
    BY <2>2 DEF Absent, Wants, Searching, Resolves, Includes
  <2>4. \A d \in DOMAIN Decls : Has(f, d)
    BY <2>1, <2>3 DEF FoundInv
  <2>5. PICK inc \in Seq(DOMAIN Decls) : inc = includes[f]
    BY <2>1 DEF TypeOK
  <2>6. PICK n \in Nat : n = Len(inc) /\ inc \in [1..n -> DOMAIN Decls]
    BY <2>5
  <2>7. inc \in Bijection(1..n, DOMAIN Decls)
    <3>1. inc \in Injection(1..n, DOMAIN Decls)
      BY <2>1, <2>5, <2>6 DEF FoundInv, Injection, IsInjective
    <3>2. inc \in Surjection(1..n, DOMAIN Decls)
      BY <2>4, <2>5, <2>6 DEF Has, Surjection
    <3> QED
      BY <3>1, <3>2 DEF Bijection
  <2>8. Cardinality(DOMAIN Decls) = n
    BY <2>6, <2>7, FS_CountingElements DEF ExistsBijection
  <2>9. ToSet(includes[f]) = DOMAIN Decls
    BY <2>4, <2>5, <2>6 DEF Has, ToSet
  <2> QED
    BY <2>5, <2>6, <2>8, <2>9
<1>2. Spec => []QueueInv
  BY QueueCorrect
<1>3. Spec => []AllFinds
  BY <1>2, FindInit, FindStep, PTL DEF Spec
<1> QED
  BY <1>1, <1>2, <1>3, PTL

-----------------------------------------------------------------------------
(* Writing: what a step does to the queue and to the server *)

\* The queue loses its first k requests and may grow at its end.
Moved(k) ==
    /\ Len(reqs) - k \in 0..Len(reqs')
    /\ \A i \in 1..(Len(reqs) - k) : reqs'[i] = reqs[i + k]

\* A new request of a write is its own doing.
Fresh(k) ==
    \A i \in 1..Len(reqs') :
        i > Len(reqs) - k /\ reqs'[i].p \in Writers => OwnWrite(reqs'[i].p)

\* The first request is carried out and changes the value.
Written ==
    \/ Head(reqs).op = "write" /\ value' = Head(reqs).part
    \/ Head(reqs).op = "execute" /\ Whole(prep, value) /\ value' = Apply(prep, value)

\* What becomes of the prepared writes when the first request is answered.
PrepDone ==
    /\ Head(reqs).op \in {"cancel", "execute"} => prep' = <<>>
    /\ Head(reqs).op \notin {"cancel", "execute"} =>
           \/ prep' = prep
           \/ /\ up /\ Head(reqs).op \in {"prep", "reliable"}
              /\ prep' = Append(prep, [off |-> Head(reqs).arg, part |-> Head(reqs).part])

Sent == /\ Moved(0) /\ Fresh(0) /\ up' = up /\ prep' = prep
        /\ value' = value \/ \E x \in cmds : value' = data[x]
Lost == /\ Moved(0) /\ Fresh(0) /\ ~up' /\ prep' = <<>>
        /\ value' = value \/ (reqs # <<>> /\ Written)
Done == /\ reqs # <<>> /\ Moved(1) /\ Fresh(1) /\ up' = up
        /\ Head(reqs).p \in Writers => OwnWrite(Head(reqs).p)
        /\ value' = value \/ Written
        /\ PrepDone

\* Where the requests of the next queue are from.
LEMMA MovedAppend ==
    ASSUME TypeOK, NEW q \in Req, reqs' = Append(reqs, q)
    PROVE  /\ Moved(0)
           /\ \A i \in 1..Len(reqs') : i > Len(reqs) - 0 => reqs'[i] = q
<1>1. reqs \in Seq(Req)
  BY DEF TypeOK
<1>2. PICK n \in Nat : n = Len(reqs)
  BY <1>1
<1>3. /\ Len(reqs') = n + 1 /\ reqs'[n + 1] = q
      /\ \A i \in 1..n : reqs'[i] = reqs[i]
  BY <1>1, <1>2
<1>4. Moved(0)
  BY <1>2, <1>3 DEF Moved
<1>5. \A i \in 1..(n + 1) : i > n => i = n + 1
  OBVIOUS
<1> QED
  BY <1>2, <1>3, <1>4, <1>5

\* The same when the head of the queue is answered with more requests.
LEMMA MovedTailCat ==
    ASSUME TypeOK, reqs # <<>>, NEW more \in Seq(Req), reqs' = Tail(reqs) \o more
    PROVE  /\ Moved(1)
           /\ \A i \in 1..Len(reqs') : i > Len(reqs) - 1 =>
                  \E k \in 1..Len(more) : reqs'[i] = more[k]
<1>1. reqs \in Seq(Req)
  BY DEF TypeOK
<1>2. /\ reqs' \in Seq(Req) /\ Len(reqs') = Len(reqs) - 1 + Len(more)
      /\ \A i \in 1..Len(reqs') : i <= Len(reqs) - 1 => reqs'[i] = reqs[i + 1]
      /\ \A i \in 1..Len(reqs') : i > Len(reqs) - 1 =>
             i - (Len(reqs) - 1) \in 1..Len(more) /\ reqs'[i] = more[i - (Len(reqs) - 1)]
  BY <1>1, TailCat
<1>3. Len(reqs) \in Nat /\ Len(reqs) # 0 /\ Len(more) \in Nat
  BY <1>1, EmptySeq
<1>4. Len(reqs) - 1 \in 0..Len(reqs')
  BY <1>2, <1>3
<1>5. \A i \in 1..(Len(reqs) - 1) : i \in 1..Len(reqs') /\ i <= Len(reqs) - 1
  BY <1>2, <1>3
<1>6. Moved(1)
  BY <1>2, <1>4, <1>5 DEF Moved
<1> QED
  BY <1>2, <1>6

\* The answer to the first request at the server.
LEMMA AnswerDone ==
    ASSUME QueueInv, NEW op, NEW r, Answer(op, r)
    PROVE  /\ reqs # <<>> /\ up' = up /\ PrepDone
           /\ value' = value \/ Written
           /\ r # "ok" => value' = value
           /\ op \in {"prep", "reliable", "cancel"} => value' = value
           /\ r # "ok" /\ op \notin {"execute", "cancel"} => prep' = prep
           /\ r = "ok" /\ op \in {"prep", "reliable"} =>
                  prep' = Append(prep, [off |-> Head(reqs).arg, part |-> Head(reqs).part])
           /\ r = "ok" /\ op = "write" => value' = Head(reqs).part
           /\ r = "ok" /\ op = "execute" =>
                  Whole(prep, value) /\ value' = Apply(prep, value)
<1>1. /\ reqs # <<>> /\ up' = up /\ Head(reqs).op = op
      /\ r = "ok" => up /\ (op = "execute" => Whole(prep, value))
      /\ ~up => value' = value /\ prep' = prep
      /\ up /\ r = "ok" => value' = Served(Head(reqs)).value /\ prep' = Served(Head(reqs)).prep
      /\ up /\ r # "ok" => value' = Refused(Head(reqs)).value /\ prep' = Refused(Head(reqs)).prep
  BY DEF Answer
<1>2. ~up => prep = <<>>
  BY DEF QueueInv
<1>3. CASE ~up
  BY <1>1, <1>2, <1>3 DEF PrepDone
<1>4. CASE up /\ r # "ok"
  <2>1. /\ Refused(Head(reqs)).value = value
        /\ op \in {"execute", "cancel"} => Refused(Head(reqs)).prep = <<>>
        /\ op \notin {"execute", "cancel"} => Refused(Head(reqs)).prep = prep
    BY <1>1 DEF Refused
  <2> QED
    BY <1>1, <1>4, <2>1 DEF PrepDone
<1>5. CASE up /\ r = "ok"
  <2>1. CASE op = "write"
    <3>1. Served(Head(reqs)) = [value |-> Head(reqs).part, prep |-> prep]
      BY <1>1, <2>1 DEF Served
    <3> QED
      BY <1>1, <1>5, <2>1, <3>1 DEF PrepDone, Written
  <2>2. CASE op \in {"prep", "reliable"}
    <3>1. Served(Head(reqs)) =
             [value |-> value,
              prep |-> Append(prep, [off |-> Head(reqs).arg, part |-> Head(reqs).part])]
      BY <1>1, <2>2 DEF Served
    <3>2. /\ value' = value
          /\ prep' = Append(prep, [off |-> Head(reqs).arg, part |-> Head(reqs).part])
      BY <1>1, <1>5, <3>1
    <3> QED
      BY <1>1, <1>5, <2>2, <3>2 DEF PrepDone
  <2>3. CASE op = "execute"
    <3>1. Served(Head(reqs)) = [value |-> Apply(prep, value), prep |-> <<>>]
      BY <1>1, <1>5, <2>3 DEF Served
    <3>2. value' = Apply(prep, value) /\ prep' = <<>>
      BY <1>1, <1>5, <3>1
    <3> QED
      BY <1>1, <1>5, <2>3, <3>2 DEF PrepDone, Written
  <2>4. CASE op = "cancel"
    <3>1. Served(Head(reqs)) = [value |-> value, prep |-> <<>>]
      BY <1>1, <2>4 DEF Served
    <3> QED
      BY <1>1, <1>5, <2>4, <3>1 DEF PrepDone
  <2>5. CASE op \notin {"write", "prep", "reliable", "execute", "cancel"}
    <3>1. Served(Head(reqs)) = [value |-> value, prep |-> prep]
      BY <1>1, <2>5 DEF Served
    <3> QED
      BY <1>1, <1>5, <2>5, <3>1 DEF PrepDone
  <2> QED
    BY <2>1, <2>2, <2>3, <2>4, <2>5
<1> QED
  BY <1>3, <1>4, <1>5

\* A request that is sent at the end of the queue.
LEMMA SentAppend ==
    ASSUME TypeOK, NEW q \in Req, reqs' = Append(reqs, q),
           q.p \in Writers => OwnWrite(q.p), up' = up, prep' = prep, value' = value
    PROVE  Sent
  BY MovedAppend DEF Sent, Fresh

\* The first request is answered and its callback makes more of them.
LEMMA DoneTailCat ==
    ASSUME QueueInv, NEW op, NEW r, Answer(op, r),
           NEW more \in Seq(Req), reqs' = Tail(reqs) \o more,
           Head(reqs).p \in Writers => OwnWrite(Head(reqs).p),
           \A k \in 1..Len(more) : more[k].p \in Writers => OwnWrite(more[k].p)
    PROVE  Done
<1>1. TypeOK
  BY DEF QueueInv
<1>2. reqs # <<>> /\ up' = up /\ PrepDone /\ (value' = value \/ Written)
  BY AnswerDone
<1>3. /\ Moved(1)
      /\ \A i \in 1..Len(reqs') : i > Len(reqs) - 1 =>
             \E k \in 1..Len(more) : reqs'[i] = more[k]
  BY <1>1, <1>2, MovedTailCat
<1>4. Fresh(1)
  BY <1>3 DEF Fresh
<1> QED
  BY <1>2, <1>3, <1>4 DEF Done

\* The same with none,
LEMMA DoneTail ==
    ASSUME QueueInv, NEW op, NEW r, Answer(op, r), reqs' = Tail(reqs),
           Head(reqs).p \in Writers => OwnWrite(Head(reqs).p)
    PROVE  Done
<1>1. reqs # <<>> /\ TypeOK
  BY AnswerDone DEF QueueInv
<1>2. Tail(reqs) = Tail(reqs) \o <<>> /\ <<>> \in Seq(Req) /\ Len(<<>>) = 0
  BY <1>1, TailForms
<1>3. PICK more \in Seq(Req) : more = <<>> /\ Len(more) = 0
  BY <1>2
<1>4. reqs' = Tail(reqs) \o more /\ Len(more) = 0
  BY <1>2, <1>3
<1>5. \A k \in 1..Len(more) : FALSE
  BY <1>4
<1> QED
  BY <1>4, <1>5, DoneTailCat

\* or with one.
LEMMA DoneTailAppend ==
    ASSUME QueueInv, NEW op, NEW r, Answer(op, r), NEW q \in Req,
           reqs' = Append(Tail(reqs), q),
           Head(reqs).p \in Writers => OwnWrite(Head(reqs).p),
           q.p \in Writers => OwnWrite(q.p)
    PROVE  Done
<1>1. reqs # <<>> /\ TypeOK
  BY AnswerDone DEF QueueInv
<1>2. /\ Append(Tail(reqs), q) = Tail(reqs) \o <<q>>
      /\ <<q>> \in Seq(Req) /\ Len(<<q>>) = 1 /\ <<q>>[1] = q
  BY <1>1, TailForms
<1>3. PICK more \in Seq(Req) : more = <<q>> /\ Len(more) = 1 /\ more[1] = q
  BY <1>2
<1>4. reqs' = Tail(reqs) \o more
  BY <1>2, <1>3
<1>5. \A k \in 1..Len(more) : more[k] = q
  BY <1>3
<1> QED
  BY <1>4, <1>5, DoneTailCat

\* What a read does to the queue and to the server.
LEMMA ReadEffect ==
    ASSUME QueueInv, NEW r \in Readers, OwnRead(r)
    PROVE  Sent \/ Done
<1>1. TypeOK /\ r \in Procs /\ r \in Procs \cup {"client"} /\ r \notin Writers
  BY Classes DEF QueueInv
<1>2. ASSUME NEW op, NEW res, Answer(op, res), Head(reqs).p = r,
             NEW q \in Req, q.p = r, q.op = "blob",
             reqs' = Tail(reqs) \/ reqs' = Append(Tail(reqs), q)
      PROVE  Done
  BY <1>1, <1>2, DoneTail, DoneTailAppend
<1>3. ASSUME ReadChar(r) PROVE Sent
  <2>1. PICK q \in Req : q = Request(r, "read", 0, <<>>) /\ q.p = r /\ q.op = "read"
    BY <1>1, BareRequest
  <2>2. reqs' = Append(reqs, q) /\ up' = up /\ prep' = prep /\ value' = value
    BY <1>3, <2>1 DEF ReadChar, server
  <2> QED
    BY <1>1, <2>1, <2>2, SentAppend
<1>4. ASSUME NEW res \in {"ok", "error"}, ReadCharHelper(r, res) PROVE Done
  <2>1. Answer("read", res) /\ Head(reqs).p = r
    BY <1>4 DEF ReadCharHelper
  <2>2. value \in Seq(Byte) /\ mtu - 1 \in Nat /\ 0 \in Nat
    BY <1>1, MtuFacts DEF TypeOK
  <2>3. PICK v \in Seq(Byte) : v = Slice(value, 0, mtu - 1)
    BY <2>2, SliceFacts
  <2>4. PICK q \in Req : q = Request(r, "blob", Len(v), <<>>) /\ q.p = r /\ q.op = "blob"
    BY <1>1, BareRequest
  <2>5. reqs' = Tail(reqs) \/ reqs' = Append(Tail(reqs), q)
    BY <1>4, <2>3, <2>4 DEF ReadCharHelper
  <2> QED
    BY <1>2, <2>1, <2>4, <2>5
<1>5. ASSUME NEW res \in {"ok", "error"}, ReadBlobHelper(r, res) PROVE Done
  <2>1. Answer("blob", res) /\ Head(reqs).p = r /\ reqs # <<>>
    BY <1>1, <1>5, AnswerType DEF ReadBlobHelper
  <2>2. value \in Seq(Byte) /\ mtu - 1 \in Nat /\ <<>> \in Seq(Byte)
    BY <1>1, MtuFacts, EmptySeq DEF TypeOK
  <2>3. PICK o \in Nat : o = Head(reqs).arg
    BY <1>1, <2>1, HeadReq
  <2>4. PICK v \in Seq(Byte) : v = IF res = "ok" THEN Slice(value, o, mtu - 1) ELSE <<>>
    BY <2>2, SliceFacts
  <2>5. o + Len(v) \in Nat
    OBVIOUS
  <2>6. PICK q \in Req : q = Request(r, "blob", o + Len(v), <<>>) /\ q.p = r /\ q.op = "blob"
    BY <1>1, <2>5, BareRequest
  <2>7. reqs' = Tail(reqs) \/ reqs' = Append(Tail(reqs), q)
    BY <1>5, <2>3, <2>4, <2>6 DEF ReadBlobHelper
  <2> QED
    BY <1>2, <2>1, <2>6, <2>7
<1> QED
  BY <1>3, <1>4, <1>5 DEF OwnRead

\* What a write does to them.
LEMMA WriteEffect ==
    ASSUME QueueInv, NEW w \in Writers, OwnWrite(w)
    PROVE  Sent \/ Done
<1>1. TypeOK /\ w \in Procs /\ w \in Procs \cup {"client"} /\ w # "client"
  BY Classes DEF QueueInv
<1>2. ASSUME NEW q \in Req, q.p = w, reqs' = Append(reqs, q),
             up' = up, prep' = prep, value' = value
      PROVE  Sent
  BY <1>1, <1>2, SentAppend
<1>3. ASSUME NEW op, NEW res, Answer(op, res), Head(reqs).p = w,
             reqs' = Tail(reqs)
      PROVE  Done
  BY <1>3, DoneTail
<1>4. ASSUME NEW n \in WriteLens, WriteChar(w, n) PROVE Sent
  <2>1. n \in Nat /\ Bytes(w, n) \in Seq(Byte) /\ mtu \in Nat /\ mtu > 5
    BY <1>1, BytesType, LengthAssumption, MtuFacts
  <2>2. PICK a \in Req : a = Request(w, "write", 0, Bytes(w, n)) /\ a.p = w
    BY <1>1, <2>1, RequestType
  <2>3. PICK b \in Req : b = PrepareRequest(w, Bytes(w, n), 0, mtu) /\ b.p = w
    BY <2>1, PrepareRequestType
  <2>4. reqs' = Append(reqs, a) \/ reqs' = Append(reqs, b)
    BY <1>4, <2>2, <2>3 DEF WriteChar
  <2>5. up' = up /\ prep' = prep /\ value' = value
    BY <1>4 DEF WriteChar, server
  <2> QED
    BY <1>2, <2>2, <2>3, <2>4, <2>5
<1>5. ASSUME NEW n \in WriteLens, ReliableWriteChar(w, n) PROVE Sent
  <2>1. n \in Nat /\ Bytes(w, n) \in Seq(Byte) /\ mtu - 5 \in Nat
    BY <1>1, BytesType, LengthAssumption, MtuFacts
  <2>2. PICK d \in Seq(Byte) : d = Slice(Bytes(w, n), 0, mtu - 5)
    BY <2>1, SliceFacts
  <2>3. PICK q \in Req : q = Request(w, "reliable", 0, d) /\ q.p = w
    BY <1>1, RequestType
  <2>4. reqs' = Append(reqs, q) /\ up' = up /\ prep' = prep /\ value' = value
    BY <1>5, <2>2, <2>3 DEF ReliableWriteChar, server
  <2> QED
    BY <1>2, <2>3, <2>4
<1>6. ASSUME NEW n \in WriteLens, WriteCmd(w, n) PROVE Sent
  <2>1. reqs' = reqs /\ up' = up /\ prep' = prep /\ value' = value
    BY <1>6 DEF WriteCmd, server
  <2>2. reqs \in Seq(Req)
    BY <1>1 DEF TypeOK
  <2> QED
    BY <2>1, <2>2 DEF Sent, Moved, Fresh
<1>7. ASSUME NEW op \in {"execute", "cancel"}, ExecuteWrite(w, op) PROVE Sent
  <2>1. PICK q \in Req : q = Request(w, op, 0, <<>>) /\ q.p = w
    BY <1>1, BareRequest
  <2>2. reqs' = Append(reqs, q) /\ up' = up /\ prep' = prep /\ value' = value
    BY <1>7, <2>1 DEF ExecuteWrite, server
  <2> QED
    BY <1>2, <2>1, <2>2
<1>8. ASSUME NEW res \in {"ok", "error"}, WriteDone(w, res) PROVE Done
  <2>1. Answer("write", res) /\ Head(reqs).p = w /\ reqs' = Tail(reqs)
    BY <1>8 DEF WriteDone
  <2> QED
    BY <1>3, <2>1
<1>9. ASSUME NEW res \in {"ok", "error"}, ReliableDone(w, res) PROVE Done
  <2>1. Answer("reliable", res) /\ Head(reqs).p = w /\ reqs' = Tail(reqs)
    BY <1>9 DEF ReliableDone
  <2> QED
    BY <1>3, <2>1
<1>10. ASSUME NEW op \in {"execute", "cancel"}, NEW res \in {"ok", "error"},
              ExecuteDone(w, op, res)
       PROVE  Done
  <2>1. Answer(op, res) /\ Head(reqs).p = w /\ reqs' = Tail(reqs)
    BY <1>10 DEF ExecuteDone
  <2> QED
    BY <1>3, <2>1
<1>11. ASSUME NEW res \in {"ok", "error"}, PrepareWriteCb(w, res) PROVE Done
  <2>1. Answer("prep", res) /\ Head(reqs).p = w /\ reqs # <<>>
    BY <1>1, <1>11, AnswerType DEF PrepareWriteCb
  <2>2. CASE res # "ok"
    <3>1. reqs' = Tail(reqs)
      BY <1>11, <2>2 DEF PrepareWriteCb
    <3> QED
      BY <1>3, <2>1, <3>1
  <2>3. CASE res = "ok"
    <3>1. /\ data[w] \in Seq(Byte) /\ offset[w] \in Nat /\ Len(Head(reqs).part) \in Nat
          /\ mtu \in Nat /\ mtu > 5
      <4>1. data[w] \in Seq(Byte) /\ offset[w] \in Nat
        BY <1>1 DEF TypeOK
      <4>2. Head(reqs).part \in Seq(Byte)
        BY <1>1, <2>1, HeadReq
      <4>3. mtu \in Nat /\ mtu > 5
        BY <1>1, MtuFacts
      <4> QED
        BY <4>1, <4>2, <4>3
    <3>2. PICK o \in Nat : o = offset[w] + Len(Head(reqs).part)
      BY <3>1
    <3>3. PICK a \in Req : a = Request(w, "execute", 0, <<>>) /\ a.p = w
      BY <1>1, BareRequest
    <3>8. PICK d \in Seq(Byte) : d = data[w]
      BY <3>1
    <3>9. PICK b \in Req : b = PrepareRequest(w, d, o, mtu) /\ b.p = w
      BY <3>1, PrepareRequestType
    <3>4. b = PrepareRequest(w, data[w], o, mtu) /\ b.p = w
      BY <3>8, <3>9
    <3>5. reqs' = Append(Tail(reqs), a) \/ reqs' = Append(Tail(reqs), b)
      BY <1>11, <2>3, <3>2, <3>3, <3>4 DEF PrepareWriteCb
    <3>6. OwnWrite(w)
      OBVIOUS
    <3> HIDE DEF OwnWrite
    <3> QED
      BY <2>1, <3>3, <3>4, <3>5, <3>6, DoneTailAppend
  <2> QED
    BY <2>2, <2>3
<1> QED
  BY <1>4, <1>5, <1>6, <1>7, <1>8, <1>9, <1>10, <1>11 DEF OwnWrite

\* What a search does to them.
LEMMA FindEffect ==
    ASSUME QueueInv, NEW f \in Finders, OwnFind(f)
    PROVE  Sent \/ Done
<1>1. TypeOK /\ f \in Procs /\ f \in Procs \cup {"client"} /\ f # "client" /\ f \notin Writers
  BY Classes DEF QueueInv
<1>2. ASSUME NEW op, NEW res, Answer(op, res), Head(reqs).p = f,
             NEW more \in Seq(Req), \A k \in 1..Len(more) : more[k].p = f,
             NEW e, EndFind(f, more, e)
      PROVE  Done
  <2>1. reqs' = Tail(reqs) \o more
    BY <1>2 DEF EndFind
  <2>2. \A k \in 1..Len(more) : more[k].p \notin Writers
    BY <1>1, <1>2
  <2> QED
    BY <1>1, <1>2, <2>1, <2>2, DoneTailCat
<1>3. ASSUME FindIncluded(f) PROVE Sent
  <2>1. PICK q \in Req : q = Request(f, "include", 1, <<>>) /\ q.p = f
    BY <1>1, BareRequest
  <2>2. reqs' = Append(reqs, q) /\ up' = up /\ prep' = prep /\ value' = value
    BY <1>3, <2>1 DEF FindIncluded, server
  <2> QED
    BY <1>1, <2>1, <2>2, SentAppend
<1>4. <<>> \in Seq(Req) /\ \A k \in 1..Len(<<>>) : <<>>[k].p = f
  BY EmptySeq
<1>5. ASSUME NEW res, FindIncludedEnd(f, res) PROVE Done
  <2>1. \E r : Answer("include", r) /\ Head(reqs).p = f
    BY <1>5 DEF FindIncludedEnd
  <2>2. EndFind(f, <<>>, res # "not found")
    BY <1>5 DEF FindIncludedEnd
  <2> QED
    BY <1>2, <1>4, <2>1, <2>2
<1>6. ASSUME NEW res, ResolveIncludedCb(f, res) PROVE Done
  <2>1. Answer("resolve", res) /\ Head(reqs).p = f /\ EndFind(f, <<>>, res # "ok")
    BY <1>6 DEF ResolveIncludedCb
  <2> QED
    BY <1>2, <1>4, <2>1
<1>7. ASSUME NEW list, IsList(list), FindIncludedCb(f, list) PROVE Done
  <2>1. PICK more \in Seq(Req) : more = MoreOf(f, list)
    BY <1>1, <1>7, MoreOfFacts
  <2>2. \A k \in 1..Len(more) : more[k].p = f
    BY <1>1, <1>7, <2>1, MoreOfFacts
  <2>3. /\ Answer("include", "ok") /\ Head(reqs).p = f
        /\ EndFind(f, more, list[Len(list)] < start[f])
    BY <1>7, <2>1, FindIncludedCbIs DEF MoreOf
  <2> QED
    BY <1>2, <2>2, <2>3
<1> QED
  BY <1>3, <1>5, <1>6, <1>7 DEF OwnFind

\* What the other steps do to them.
LEMMA CommonEffect ==
    ASSUME QueueInv, Common
    PROVE  Sent \/ Lost \/ Done
<1>1. TypeOK /\ AllFitting /\ "client" \in Procs \cup {"client"} /\ "client" \notin Writers
      /\ reqs \in Seq(Req)
  BY Classes DEF QueueInv, TypeOK
<1>2. ASSUME ExchangeMtu PROVE Sent
  <2>1. PICK q \in Req : q = Request("client", "mtu", 0, <<>>) /\ q.p = "client" /\ q.op = "mtu"
    BY MtuRequest
  <2>2. reqs' = Append(reqs, q) /\ up' = up /\ prep' = prep /\ value' = value
    BY <1>2, <2>1 DEF ExchangeMtu, server
  <2> QED
    BY <1>1, <2>1, <2>2, SentAppend
<1>4. ASSUME NEW res, MtuDone(res) PROVE Done
  <2>1. Answer("mtu", res) /\ reqs' = Tail(reqs)
    BY <1>4 DEF MtuDone
  <2>2. reqs # <<>> /\ Head(reqs).op = "mtu"
    BY <1>1, <2>1, AnswerType
  <2>3. Head(reqs).p \notin Writers
    BY <1>1, <2>2, HeadReq DEF AllFitting, Fitting
  <2> QED
    BY <2>1, <2>3, DoneTail
<1>5. ASSUME NEW w \in Writers, TakeCmd(w) PROVE Sent
  <2>1. reqs' = reqs /\ up' = up /\ prep' = prep /\ w \in cmds /\ value' = data[w]
    BY <1>5 DEF TakeCmd
  <2> QED
    BY <1>1, <2>1 DEF Sent, Moved, Fresh
<1>6. ASSUME NEW done \in BOOLEAN, HangUp(done) PROVE Lost
  <2>1. /\ reqs' = reqs /\ ~up' /\ prep' = <<>>
        /\ value' = value \/ (reqs # <<>> /\ value' = Served(Head(reqs)).value)
    BY <1>6 DEF HangUp
  <2>2. ASSUME reqs # <<>>, value' = Served(Head(reqs)).value
        PROVE  value' = value \/ Written
    BY <2>2 DEF Served, Written
  <2> QED
    BY <1>1, <2>1, <2>2 DEF Lost, Moved, Fresh
<1> QED
  BY <1>2, <1>4, <1>5, <1>6 DEF Common

\* Every step sends, loses the link or answers the first request.
LEMMA StepEffect ==
    ASSUME QueueInv, Next
    PROVE  Sent \/ Lost \/ Done
<1>1. TypeOK
  BY DEF QueueInv
<1> QED
  BY <1>1, StepKinds, ReadEffect, WriteEffect, FindEffect, CommonEffect

\* How a write comes to run, and what it does to the others.
LEMMA StartOrRun ==
    ASSUME QueueInv, NEW w \in Writers, OwnWrite(w)
    PROVE  \/ Running(w) /\ mixed' = mixed
           \/ st[w] = "new" /\ \E d : StartWrite(w, d)
           \/ st[w] = "new" /\ st'[w] = "sent" /\ mixed' = mixed
<1>1. TypeOK /\ Busy(w) /\ w \in Procs
  BY Classes DEF QueueInv
<1>2. reqs # <<>> /\ Head(reqs).p = w => Running(w)
  BY <1>1, HeadReq DEF Busy, Running
<1>3. ASSUME NEW n \in WriteLens, WriteChar(w, n) \/ ReliableWriteChar(w, n)
      PROVE  st[w] = "new" /\ \E d : StartWrite(w, d)
  BY <1>3 DEF WriteChar, ReliableWriteChar, Starts
<1>4. ASSUME NEW n \in WriteLens, WriteCmd(w, n)
      PROVE  st[w] = "new" /\ st'[w] = "sent" /\ mixed' = mixed
  BY <1>1, <1>4 DEF WriteCmd, Starts, history, TypeOK
<1>5. ASSUME NEW op, ExecuteWrite(w, op)
      PROVE  Running(w) /\ mixed' = mixed
  BY <1>5 DEF ExecuteWrite, Running, history
<1>6. ASSUME NEW res, WriteDone(w, res) PROVE Running(w) /\ mixed' = mixed
  BY <1>1, <1>2, <1>6, AnswerType DEF WriteDone
<1>7. ASSUME NEW res, PrepareWriteCb(w, res) PROVE Running(w) /\ mixed' = mixed
  BY <1>1, <1>2, <1>7, AnswerType DEF PrepareWriteCb
<1>8. ASSUME NEW res, ReliableDone(w, res) PROVE Running(w) /\ mixed' = mixed
  BY <1>1, <1>2, <1>8, AnswerType DEF ReliableDone
<1>9. ASSUME NEW op, NEW res, ExecuteDone(w, op, res) PROVE Running(w) /\ mixed' = mixed
  BY <1>1, <1>2, <1>9, AnswerType DEF ExecuteDone
<1> QED
  BY <1>3, <1>4, <1>5, <1>6, <1>7, <1>8, <1>9 DEF OwnWrite

\* Only a step of a write mixes writes or sends a command.
LEMMA OthersUnmixed ==
    ASSUME TypeOK, Common \/ (\E r \in Readers : OwnRead(r)) \/ (\E f \in Finders : OwnFind(f))
    PROVE  mixed' = mixed /\ (cmds' \subseteq cmds)
<1>1. ASSUME Common PROVE mixed' = mixed /\ (cmds' \subseteq cmds)
  BY <1>1 DEF Common, ExchangeMtu, MtuDone, TakeCmd, HangUp, history
<1>2. ASSUME NEW r \in Readers, OwnRead(r) PROVE mixed' = mixed /\ (cmds' \subseteq cmds)
  BY <1>2 DEF OwnRead, ReadChar, ReadCharHelper, ReadBlobHelper
<1>3. ASSUME NEW f \in Finders, OwnFind(f) PROVE mixed' = mixed /\ (cmds' \subseteq cmds)
  BY <1>3, FindIncludedCbIs
     DEF OwnFind, FindIncluded, FindIncludedEnd, ResolveIncludedCb, history
<1> QED
  BY <1>1, <1>2, <1>3

\* Writes that were mixed stay so.
LEMMA MixedGrows ==
    ASSUME QueueInv, Next
    PROVE  mixed \subseteq mixed'
<1>1. TypeOK
  BY DEF QueueInv
<1>2. ASSUME NEW w \in Writers, OwnWrite(w) PROVE mixed \subseteq mixed'
  BY <1>2, StartOrRun DEF StartWrite
<1> QED
  BY <1>1, <1>2, StepKinds, OthersUnmixed

\* Two writes that run together are known to be mixed.
LEMMA RivalsStep ==
    ASSUME QueueInv, Rivals, Next
    PROVE  Rivals'
<1>1. TypeOK /\ AllFitting /\ mixed \subseteq mixed'
  BY MixedGrows DEF QueueInv
<1> SUFFICES ASSUME NEW w \in Writers, NEW x \in Writers, w # x,
                    Running(w)', Running(x)'
             PROVE  w \in mixed'
  BY DEF Rivals
<1>2. w \in Procs /\ x \in Procs
  BY Classes
<1>3. CASE OwnWrite(w)
  <2>1. st'[x] = st[x]
    BY <1>1, <1>2, <1>3, OwnOthers DEF Alone, Idle
  <2>2. Running(x)
    BY <2>1 DEF Running
  <2>3. CASE Running(w)
    BY <1>1, <2>2, <2>3 DEF Rivals
  <2>4. CASE \E d : StartWrite(w, d)
    BY <2>2, <2>4 DEF StartWrite
  <2>5. CASE st'[w] = "sent"
    BY <2>5 DEF Running
  <2> QED
    BY <1>3, <2>3, <2>4, <2>5, StartOrRun
<1>4. CASE ~OwnWrite(w)
  <2>1. st'[w] = st[w]
    BY <1>1, <1>2, <1>4, Classes, AloneOrOwn DEF Alone, Idle
  <2>2. Running(w)
    BY <2>1 DEF Running
  <2>3. CASE Running(x)
    BY <1>1, <2>2, <2>3 DEF Rivals
  <2>4. CASE ~Running(x)
    <3>1. OwnWrite(x)
      <4>1. st'[x] # st[x]
        BY <2>4 DEF Running
      <4> QED
        BY <1>1, <1>2, <4>1, Classes, AloneOrOwn DEF Alone, Idle
    <3>2. \E d : StartWrite(x, d)
      BY <2>4, <3>1, StartOrRun DEF Running
    <3> QED
      BY <2>2, <3>2 DEF StartWrite
  <2> QED
    BY <2>3, <2>4
<1> QED
  BY <1>3, <1>4

-----------------------------------------------------------------------------
(* A write that was refused *)

AllTrace == \A w \in Writers : TraceInv(w)

\* Bytes of another write.
LEMMA FreeOther ==
    ASSUME NEW x, NEW w, x # w, NEW s, Of(x, s)
    PROVE  Free(w, s)
  BY DEF Of, Free

\* An execution makes no bytes up.
LEMMA FreeApply ==
    ASSUME NEW w, NEW q \in Seq(Prepared), NEW v \in Seq(Byte), Whole(q, v),
           Free(w, v), \A j \in 1..Len(q) : Free(w, q[j].part)
    PROVE  Free(w, Apply(q, v))
<1> SUFFICES ASSUME NEW i \in 1..Len(Apply(q, v)) PROVE Apply(q, v)[i][1] # w
  BY DEF Free
<1>1. FromBefore(q, v, i, Apply(q, v)[i])
  BY ApplyType
<1> QED
  BY <1>1 DEF FromBefore, Free

\* Only writes change what the server has.
LEMMA WriterOps ==
    ASSUME QueueInv, reqs # <<>>
    PROVE  /\ Head(reqs).op \in {"write", "prep", "reliable", "execute"} =>
                  Head(reqs).p \in Writers
           /\ Head(reqs).op = "cancel" => Head(reqs).p \in Writers
           /\ Head(reqs).p \in Writers =>
                  st[Head(reqs).p] = "run" /\ Running(Head(reqs).p)
<1>1. /\ TypeOK /\ Head(reqs) = reqs[1] /\ 1 \in 1..Len(reqs)
      /\ Head(reqs).p \in Procs \cup {"client"} /\ Fitting(Head(reqs))
  BY HeadReq DEF QueueInv, AllFitting
<1>2. Head(reqs).p \in Procs => st[Head(reqs).p] = "run" /\ Running(Head(reqs).p)
  BY <1>1 DEF QueueInv, Busy, Running
<1> QED
  BY <1>1, <1>2, Classes DEF Fitting

\* The value stays free of the bytes of w if what is written is another's.
LEMMA ValueFree ==
    ASSUME QueueInv, AllTrace, NEW w \in Writers, Free(w, value), st[w] # "sent",
           \/ value' = value
           \/ \E x \in cmds : value' = data[x]
           \/ reqs # <<>> /\ Head(reqs).op = "write" /\ value' = Head(reqs).part
           \/ FreePrep(w) /\ Whole(prep, value) /\ value' = Apply(prep, value),
           reqs # <<>> => Head(reqs).p # w
    PROVE  Free(w, value')
<1>1. ASSUME NEW x \in cmds, value' = data[x] PROVE Free(w, value')
  <2>1. x \in Writers
    BY DEF QueueInv, TypeOK
  <2>2. TraceInv(x)
    BY <2>1 DEF AllTrace
  <2>3. st[x] = "sent" /\ Of(x, data[x])
    BY <2>2 DEF TraceInv
  <2> QED
    BY <1>1, <2>3, FreeOther
<1>2. ASSUME reqs # <<>>, Head(reqs).op = "write", value' = Head(reqs).part
      PROVE  Free(w, value')
  <2>1. Head(reqs).p \in Writers /\ Head(reqs) = reqs[1] /\ 1 \in 1..Len(reqs)
    BY <1>2, WriterOps, HeadReq DEF QueueInv
  <2>2. TraceInv(Head(reqs).p)
    BY <2>1 DEF AllTrace
  <2>3. Of(Head(reqs).p, Head(reqs).part)
    BY <2>1, <2>2 DEF TraceInv
  <2> QED
    BY <1>2, <2>3, FreeOther
<1>3. ASSUME FreePrep(w), Whole(prep, value), value' = Apply(prep, value)
      PROVE  Free(w, value')
  <2>1. prep \in Seq(Prepared) /\ value \in Seq(Byte)
    BY DEF QueueInv, TypeOK
  <2>2. \A j \in 1..Len(prep) : Free(w, prep[j].part)
    BY <1>3 DEF FreePrep
  <2> QED
    BY <1>3, <2>1, <2>2, FreeApply
<1> QED
  BY <1>1, <1>2, <1>3

\* So do the prepared writes.
LEMMA PrepFree ==
    ASSUME QueueInv, AllTrace, NEW w \in Writers, FreePrep(w),
           \/ prep' = prep \/ prep' = <<>>
           \/ /\ reqs # <<>> /\ Head(reqs).p # w
              /\ Head(reqs).op \in {"prep", "reliable"}
              /\ prep' = Append(prep, [off |-> Head(reqs).arg, part |-> Head(reqs).part])
    PROVE  FreePrep(w)'
<1>1. CASE prep' = prep
  BY <1>1 DEF FreePrep
<1>2. CASE prep' = <<>>
  <2>1. Len(prep') = 0
    BY <1>2, EmptySeq
  <2> QED
    BY <2>1 DEF FreePrep
<1>3. CASE /\ reqs # <<>> /\ Head(reqs).p # w
           /\ Head(reqs).op \in {"prep", "reliable"}
           /\ prep' = Append(prep, [off |-> Head(reqs).arg, part |-> Head(reqs).part])
  <2>1. Head(reqs).p \in Writers /\ Head(reqs) = reqs[1] /\ 1 \in 1..Len(reqs)
        /\ Head(reqs).arg \in Nat /\ Head(reqs).part \in Seq(Byte)
    BY <1>3, WriterOps, HeadReq DEF QueueInv
  <2>2. TraceInv(Head(reqs).p)
    BY <2>1 DEF AllTrace
  <2>3. Of(Head(reqs).p, Head(reqs).part)
    BY <2>1, <2>2 DEF TraceInv
  <2>4. Free(w, Head(reqs).part)
    BY <1>3, <2>3, FreeOther
  <2>5. PICK e \in Prepared : /\ e = [off |-> Head(reqs).arg, part |-> Head(reqs).part]
                              /\ e.part = Head(reqs).part
    BY <2>1 DEF Prepared
  <2>6. prep \in Seq(Prepared) /\ prep' = Append(prep, e)
    BY <1>3, <2>5 DEF QueueInv, TypeOK
  <2>7. \A j \in 1..Len(prep') : (j \in 1..Len(prep) /\ prep'[j] = prep[j]) \/ prep'[j] = e
    BY <2>6
  <2> QED
    BY <2>4, <2>5, <2>7 DEF FreePrep
<1> QED
  BY <1>1, <1>2, <1>3

\* A write command is its own doing.
LEMMA CmdsStep ==
    ASSUME QueueInv, Next, NEW w \in Writers, ~OwnWrite(w), w \in cmds'
    PROVE  w \in cmds
<1>1. TypeOK
  BY DEF QueueInv
<1>2. ASSUME NEW x \in Writers, OwnWrite(x) PROVE cmds' \subseteq cmds \cup {x}
  BY <1>2 DEF OwnWrite, WriteChar, ReliableWriteChar, WriteCmd, ExecuteWrite,
     WriteDone, PrepareWriteCb, ReliableDone, ExecuteDone
<1>3. CASE \E x \in Writers : OwnWrite(x)
  BY <1>2, <1>3
<1> QED
  BY <1>1, <1>3, StepKinds, OthersUnmixed

\* In a step that is not its own the requests of a write are as before.
LEMMA OldRequest ==
    ASSUME TypeOK, TypeOK', NEW k \in {0, 1}, Moved(k), Fresh(k),
           NEW w \in Writers, ~OwnWrite(w), NEW i \in 1..Len(reqs'), reqs'[i].p = w
    PROVE  /\ i \in 1..(Len(reqs) - k) /\ i + k \in 1..Len(reqs)
           /\ reqs'[i] = reqs[i + k]
<1>1. Len(reqs) \in Nat
  BY DEF TypeOK
<1>2. ~(i > Len(reqs) - k)
  BY DEF Fresh
<1>3. i \in 1..(Len(reqs) - k) /\ i + k \in 1..Len(reqs)
  BY <1>1, <1>2
<1> QED
  BY <1>3 DEF Moved

\* What the server does in a step that is not w's own.
LEMMA Elsewhere ==
    ASSUME QueueInv, Rivals, Next, NEW w \in Writers, ~OwnWrite(w)
    PROVE  \E k \in {0, 1} :
           /\ Moved(k) /\ Fresh(k) /\ (up' => up)
           /\ k = 1 => reqs # <<>> /\ Head(reqs).p # w
           /\ \/ value' = value
              \/ \E x \in cmds : value' = data[x]
              \/ reqs # <<>> /\ Written
           /\ \/ prep' = prep \/ prep' = <<>>
              \/ /\ reqs # <<>> /\ Head(reqs).p # w
                 /\ Head(reqs).op \in {"prep", "reliable"}
                 /\ prep' = Append(prep, [off |-> Head(reqs).arg, part |-> Head(reqs).part])
           /\ Running(w) /\ up' /\ w \notin mixed' =>
                  /\ value' = value \/ \E x \in cmds : value' = data[x]
                  /\ prep' = prep
<1>1. mixed \subseteq mixed'
  BY MixedGrows
<1>2. CASE Sent
  BY <1>2 DEF Sent
<1>3. CASE Lost
  BY <1>3 DEF Lost
<1>4. CASE Done
  <2>1. /\ reqs # <<>> /\ Moved(1) /\ Fresh(1) /\ up' = up /\ Head(reqs).p # w
        /\ value' = value \/ Written
    BY <1>4 DEF Done
  <2>2. PrepDone
    BY <1>4 DEF Done
  <2>3. /\ Head(reqs).op \in {"write", "prep", "reliable", "execute"} =>
               Head(reqs).p \in Writers
        /\ Head(reqs).op = "cancel" => Head(reqs).p \in Writers
        /\ Head(reqs).p \in Writers => Running(Head(reqs).p)
    BY <2>1, WriterOps
  <2>4. Running(w) /\ w \notin mixed' => Head(reqs).p \notin Writers
    BY <1>1, <2>1, <2>3 DEF Rivals
  <2>5. \/ prep' = prep \/ prep' = <<>>
        \/ /\ reqs # <<>> /\ Head(reqs).p # w
           /\ Head(reqs).op \in {"prep", "reliable"}
           /\ prep' = Append(prep, [off |-> Head(reqs).arg, part |-> Head(reqs).part])
    BY <2>1, <2>2 DEF PrepDone
  <2>7. Running(w) /\ w \notin mixed' => value' = value /\ prep' = prep
    BY <2>1, <2>2, <2>3, <2>4 DEF PrepDone, Written
  <2> QED
    BY <2>1, <2>5, <2>7
<1> QED
  BY <1>2, <1>3, <1>4, StepEffect

\* A write that was a success remains one.
LEMMA OkStays ==
    ASSUME QueueInv, Next, NEW x \in Writers, st[x] = "ok"
    PROVE  st'[x] = "ok"
<1>1. TypeOK /\ AllFitting /\ x \in Procs
  BY Classes DEF QueueInv
<1>2. ~OwnWrite(x)
  BY StartOrRun DEF Running
<1> QED
  BY <1>1, <1>2, Classes, AloneOrOwn DEF Alone, Idle

\* What is prepared is applied when a write is executed, and this is a success
\* of that write.
LEMMA ExecutedOk ==
    ASSUME QueueInv, NEW x \in Writers, OwnWrite(x), reqs # <<>>, Head(reqs).p = x,
           Head(reqs).op = "execute", Moved(1), up' = up, up, value' # value
    PROVE  st'[x] = "ok"
<1>1. TypeOK /\ x \in Procs /\ st[x] = "run" /\ st \in [Procs -> ProcState]
      /\ reqs \in Seq(Req)
  BY WriterOps, Classes DEF QueueInv, TypeOK
<1>2. ASSUME NEW n \in WriteLens, WriteChar(x, n) \/ ReliableWriteChar(x, n) \/ WriteCmd(x, n)
      PROVE  FALSE
  BY <1>1, <1>2 DEF WriteChar, ReliableWriteChar, WriteCmd, Starts
<1>3. ASSUME NEW op \in {"execute", "cancel"}, ExecuteWrite(x, op) PROVE FALSE
  BY <1>1, <1>3 DEF ExecuteWrite
<1>4. ASSUME NEW res \in {"ok", "error"},
             WriteDone(x, res) \/ PrepareWriteCb(x, res) \/ ReliableDone(x, res)
      PROVE  FALSE
  BY <1>4 DEF WriteDone, PrepareWriteCb, ReliableDone, Answer
<1>5. ASSUME NEW op \in {"execute", "cancel"}, NEW res \in {"ok", "error"},
             ExecuteDone(x, op, res)
      PROVE  st'[x] = "ok"
  <2>1. /\ Answer(op, res) /\ op = "execute"
        /\ st' = [st EXCEPT ![x] = IF ~up THEN "lost"
                                   ELSE IF op = "execute" /\ res = "ok" THEN "ok"
                                   ELSE "failed"]
    BY <1>5 DEF ExecuteDone, Answer
  <2>2. res = "ok"
    BY <2>1, AnswerDone
  <2> QED
    BY <1>1, <2>1, <2>2
<1> QED
  BY <1>2, <1>3, <1>4, <1>5 DEF OwnWrite

\* How the value changes as long as the link is up.
LEMMA ValueMoves ==
    ASSUME QueueInv, Next, up'
    PROVE  \/ value' = value
           \/ \E x \in cmds : value' = data[x]
           \/ reqs # <<>> /\ Head(reqs).op = "write" /\ value' = Head(reqs).part
           \/ \E x \in Writers : reqs # <<>> /\ Head(reqs).p = x /\ st'[x] = "ok"
<1>1. CASE Sent
  BY <1>1 DEF Sent
<1>2. CASE Lost
  BY <1>2 DEF Lost
<1>3. CASE Done
  <2>1. reqs # <<>> /\ Moved(1) /\ up' = up /\ (value' = value \/ Written)
        /\ (Head(reqs).p \in Writers => OwnWrite(Head(reqs).p))
    BY <1>3 DEF Done
  <2>2. CASE value' # value /\ Head(reqs).op = "execute"
    <3>1. PICK x \in Writers : x = Head(reqs).p
      BY <2>1, <2>2, WriterOps
    <3>2. st'[x] = "ok"
      BY <2>1, <2>2, <3>1, ExecutedOk
    <3> QED
      BY <2>1, <3>1, <3>2
  <2> QED
    BY <2>1, <2>2 DEF Written
<1> QED
  BY <1>1, <1>2, <1>3, StepEffect

\* A step of others leaves a write no trace.
LEMMA TraceAlone ==
    ASSUME QueueInv, QueueInv', Rivals, AllTrace, Next, NEW w \in Writers, ~OwnWrite(w)
    PROVE  TraceInv(w)'
<1>1. /\ TypeOK /\ TypeOK' /\ AllFitting /\ w \in Procs /\ TraceInv(w)
      /\ mixed \subseteq mixed'
  BY Classes, MixedGrows DEF QueueInv, AllTrace
<1>2. st'[w] = st[w] /\ data'[w] = data[w]
  BY <1>1, Classes, AloneOrOwn DEF Alone, Idle
<1>3. PICK k \in {0, 1} :
           /\ Moved(k) /\ Fresh(k) /\ (up' => up)
           /\ \/ value' = value
              \/ \E x \in cmds : value' = data[x]
              \/ reqs # <<>> /\ Written
           /\ \/ prep' = prep \/ prep' = <<>>
              \/ /\ reqs # <<>> /\ Head(reqs).p # w
                 /\ Head(reqs).op \in {"prep", "reliable"}
                 /\ prep' = Append(prep, [off |-> Head(reqs).arg, part |-> Head(reqs).part])
           /\ Running(w) /\ up' /\ w \notin mixed' =>
                  value' = value \/ \E x \in cmds : value' = data[x]
  BY Elsewhere
<1>4. FreePrep(w) => FreePrep(w)'
  BY <1>3, PrepFree
<1>5. st[w] # "run" => (reqs # <<>> => Head(reqs).p # w)
  BY WriterOps
<1>6. Of(w, data'[w])
  BY <1>1, <1>2 DEF TraceInv
<1>7. \A i \in 1..Len(reqs') : reqs'[i].p = w => Of(w, reqs'[i].part)
  BY <1>1, <1>3, OldRequest DEF TraceInv
<1>8. w \in cmds' => st'[w] = "sent"
  BY <1>1, <1>2, CmdsStep DEF TraceInv
<1>9. st'[w] = "new" => Free(w, value') /\ FreePrep(w)'
  <2> HAVE st'[w] = "new"
  <2>1. Free(w, value) /\ FreePrep(w) /\ st[w] # "run" /\ st[w] # "sent"
    BY <1>1, <1>2 DEF TraceInv
  <2>2. \/ value' = value
        \/ \E x \in cmds : value' = data[x]
        \/ reqs # <<>> /\ Head(reqs).op = "write" /\ value' = Head(reqs).part
        \/ FreePrep(w) /\ Whole(prep, value) /\ value' = Apply(prep, value)
    BY <1>3, <2>1 DEF Written
  <2> QED
    BY <1>4, <1>5, <2>1, <2>2, ValueFree
<1>10. Running(w)' /\ up' /\ w \notin mixed' => Free(w, value')
  <2> HAVE Running(w)' /\ up' /\ w \notin mixed'
  <2>1. Running(w) /\ up /\ w \notin mixed /\ st[w] # "sent"
    BY <1>1, <1>2, <1>3 DEF Running
  <2>2. Free(w, value)
    BY <1>1, <2>1 DEF TraceInv
  <2>3. value' = value \/ \E x \in cmds : value' = data[x]
    BY <1>3, <2>1
  <2>4. ASSUME NEW x \in cmds, value' = data[x] PROVE Free(w, value')
    <3>1. x \in Writers
      BY <1>1 DEF TypeOK
    <3>2. TraceInv(x)
      BY <3>1 DEF AllTrace
    <3>3. st[x] = "sent" /\ Of(x, data[x])
      BY <3>2 DEF TraceInv
    <3> QED
      BY <2>1, <2>4, <3>3, FreeOther
  <2> QED
    BY <2>2, <2>3, <2>4
<1>11. st'[w] = "failed" /\ up' /\ w \notin mixed' /\ NoneOk(w)' => Free(w, value')
  <2> HAVE st'[w] = "failed" /\ up' /\ w \notin mixed' /\ NoneOk(w)'
  <2>1. st[w] = "failed" /\ up /\ w \notin mixed /\ st[w] # "run" /\ st[w] # "sent"
    BY <1>1, <1>2, <1>3
  <2>2. NoneOk(w)
    BY OkStays DEF NoneOk
  <2>3. Free(w, value)
    BY <1>1, <2>1, <2>2 DEF TraceInv
  <2>4. ~ \E x \in Writers : reqs # <<>> /\ Head(reqs).p = x /\ st'[x] = "ok"
    BY <1>5, <2>1 DEF NoneOk
  <2>5. \/ value' = value
        \/ \E x \in cmds : value' = data[x]
        \/ reqs # <<>> /\ Head(reqs).op = "write" /\ value' = Head(reqs).part
    BY <2>4, ValueMoves
  <2> QED
    BY <1>5, <2>1, <2>3, <2>5, ValueFree
<1> QED
  BY <1>6, <1>7, <1>8, <1>9, <1>10, <1>11 DEF TraceInv

\* A write sends a request.
LEMMA TraceSend ==
    ASSUME QueueInv, NEW w \in Writers, TraceInv(w), st[w] \in {"new", "prepared"},
           NEW q \in Req, q.p = w, Of(w, q.part),
           reqs' = Append(reqs, q), st'[w] = "run", value' = value,
           up' = up, cmds' = cmds, mixed \subseteq mixed', Of(w, data'[w])
    PROVE  TraceInv(w)'
<1>1. TypeOK /\ Busy(w)
  BY Classes DEF QueueInv
<1>2. Sole(w, q)'
  BY <1>1, OwnAppend
<1>4. \A i \in 1..Len(reqs') : reqs'[i].p = w => Of(w, reqs'[i].part)
  BY <1>2 DEF Sole
<1>5. w \notin cmds'
  BY DEF TraceInv
<1>6. up' /\ w \notin mixed' => Free(w, value')
  BY DEF TraceInv, Running
<1> QED
  BY <1>4, <1>5, <1>6 DEF TraceInv

\* The answer to a request of a write.
LEMMA TraceAnswer ==
    ASSUME QueueInv, NEW w \in Writers, TraceInv(w), reqs # <<>>, Head(reqs).p = w,
           NEW q \in Req, Sole(w, q)', Of(w, q.part),
           up' = up, cmds' = cmds, mixed' = mixed, data'[w] = data[w],
           st'[w] \in {"run", "prepared", "failed", "ok", "lost"},
           st'[w] \in {"run", "prepared", "failed"} => value' = value,
           st'[w] = "failed" => up
    PROVE  TraceInv(w)'
<1>1. Running(w) /\ st[w] = "run"
  BY WriterOps
<1>2. w \notin cmds'
  BY <1>1 DEF TraceInv
<1>3. up /\ w \notin mixed => Free(w, value)
  BY <1>1 DEF TraceInv
<1>4. \A i \in 1..Len(reqs') : reqs'[i].p = w => Of(w, reqs'[i].part)
  BY DEF Sole
<1>5. Running(w)' /\ up' /\ w \notin mixed' => Free(w, value')
  BY <1>3 DEF Running
<1>6. st'[w] = "failed" /\ w \notin mixed' => Free(w, value')
  BY <1>3
<1>7. Of(w, data'[w])
  BY DEF TraceInv
<1> QED
  BY <1>2, <1>4, <1>5, <1>6, <1>7 DEF TraceInv

\* An empty request.
LEMMA EmptyOf ==
    ASSUME NEW w
    PROVE  Of(w, <<>>)
<1>1. Len(<<>>) = 0
  BY EmptySeq
<1> QED
  BY <1>1 DEF Of

\* A slice of a value of w.
LEMMA SliceOf ==
    ASSUME NEW w, NEW d \in Seq(Byte), Of(w, d), NEW o \in Nat, NEW n \in Nat
    PROVE  Of(w, Slice(d, o, n))
<1>1. \A i \in 1..Len(Slice(d, o, n)) :
          o + i \in 1..Len(d) /\ Slice(d, o, n)[i] = d[o + i]
  BY SliceFacts
<1>2. \A k \in 1..Len(d) : d[k][1] = w
  BY DEF Of
<1> SUFFICES ASSUME NEW i \in 1..Len(Slice(d, o, n)) PROVE Slice(d, o, n)[i][1] = w
  BY DEF Of
<1>3. PICK k \in 1..Len(d) : Slice(d, o, n)[i] = d[k]
  BY <1>1
<1> QED
  BY <1>2, <1>3

\* The answer to a request of a write that is its last.
LEMMA TraceEnd ==
    ASSUME QueueInv, NEW w \in Writers, TraceInv(w), reqs # <<>>, Head(reqs).p = w,
           Absent(w)',
           up' = up, cmds' = cmds, mixed' = mixed, data'[w] = data[w],
           st'[w] \in {"run", "prepared", "failed", "ok", "lost"},
           st'[w] \in {"run", "prepared", "failed"} => value' = value,
           st'[w] = "failed" => up
    PROVE  TraceInv(w)'
<1>1. PICK q \in Req : q.part = <<>>
  BY MtuRequest
<1>2. Of(w, q.part)
  BY <1>1, EmptyOf
<1>3. Sole(w, q)'
  BY DEF Sole, Absent
<1> QED
  BY <1>2, <1>3, TraceAnswer

\* A write's own steps.
LEMMA TraceOwn ==
    ASSUME QueueInv, QueueInv', Rivals, NEW w \in Writers, TraceInv(w), OwnWrite(w)
    PROVE  TraceInv(w)'
<1>1. TypeOK /\ Busy(w) /\ Unique(w) /\ w \in Procs /\ w \in Procs \cup {"client"}
  BY Classes DEF QueueInv
<1>2. mixed \subseteq mixed'
  BY StartOrRun DEF StartWrite
<1>3. st[w] \in ProcState /\ data \in [Writers -> Seq(Byte)]
  BY <1>1 DEF TypeOK
<1>4. ASSUME NEW n \in WriteLens, WriteChar(w, n) PROVE TraceInv(w)'
  <2>1. /\ n \in Nat /\ Bytes(w, n) \in Seq(Byte) /\ mtu \in Nat /\ mtu > 5 /\ mtu - 5 \in Nat
        /\ Len(Bytes(w, n)) = n /\ \A i \in 1..n : Bytes(w, n)[i][1] = w
    BY <1>1, BytesType, LengthAssumption, MtuFacts
  <2>2. Of(w, Bytes(w, n))
    BY <2>1 DEF Of
  <2>3. PICK a \in Req : /\ a = Request(w, "write", 0, Bytes(w, n)) /\ a.p = w
                         /\ a.part = Bytes(w, n)
    BY <1>1, <2>1, RequestType
  <2>4. PICK b \in Req : /\ b = PrepareRequest(w, Bytes(w, n), 0, mtu) /\ b.p = w
                         /\ b.part = Slice(Bytes(w, n), 0, mtu - 5)
    BY <2>1, PrepareRequestType
  <2>5. Of(w, a.part) /\ Of(w, b.part)
    <3>1. Of(w, Slice(Bytes(w, n), 0, mtu - 5))
      BY <2>1, <2>2, SliceOf
    <3> QED
      BY <2>2, <2>3, <2>4, <3>1
  <2>6. reqs' = Append(reqs, a) \/ reqs' = Append(reqs, b)
    BY <1>4, <2>3, <2>4 DEF WriteChar
  <2>7. /\ up' = up /\ prep' = prep /\ value' = value /\ cmds' = cmds
        /\ st[w] = "new" /\ st'[w] = "run" /\ data'[w] = Bytes(w, n)
    BY <1>1, <1>3, <1>4 DEF WriteChar, server, Starts, StartWrite, TypeOK
  <2> QED
    BY <1>2, <2>2, <2>3, <2>4, <2>5, <2>6, <2>7, TraceSend
<1>5. ASSUME NEW n \in WriteLens, ReliableWriteChar(w, n) PROVE TraceInv(w)'
  <2>1. /\ n \in Nat /\ Bytes(w, n) \in Seq(Byte) /\ mtu - 5 \in Nat
        /\ Len(Bytes(w, n)) = n /\ \A i \in 1..n : Bytes(w, n)[i][1] = w
    BY <1>1, BytesType, LengthAssumption, MtuFacts
  <2>2. Of(w, Bytes(w, n))
    BY <2>1 DEF Of
  <2>3. PICK d \in Seq(Byte) : d = Slice(Bytes(w, n), 0, mtu - 5)
    BY <2>1, SliceFacts
  <2>4. PICK q \in Req : q = Request(w, "reliable", 0, d) /\ q.p = w /\ q.part = d
                         /\ q.op = "reliable"
    BY <1>1, RequestType
  <2>5. Of(w, d) /\ Of(w, q.part)
    BY <2>1, <2>2, <2>3, <2>4, SliceOf
  <2>6. /\ reqs' = Append(reqs, q) /\ up' = up /\ prep' = prep /\ value' = value
        /\ cmds' = cmds /\ st[w] = "new" /\ st'[w] = "run" /\ data'[w] = d
    BY <1>1, <1>3, <1>5, <2>3, <2>4 DEF ReliableWriteChar, server, Starts, StartWrite, TypeOK
  <2> QED
    BY <1>2, <2>4, <2>5, <2>6, TraceSend
<1>6. ASSUME NEW n \in WriteLens, WriteCmd(w, n) PROVE TraceInv(w)'
  <2>1. /\ n \in Nat /\ Bytes(w, n) \in Seq(Byte) /\ mtu - 3 \in Nat
        /\ Len(Bytes(w, n)) = n /\ \A i \in 1..n : Bytes(w, n)[i][1] = w
    BY <1>1, BytesType, LengthAssumption, MtuFacts
  <2>2. Of(w, Bytes(w, n))
    BY <2>1 DEF Of
  <2>3. Of(w, Slice(Bytes(w, n), 0, mtu - 3))
    BY <2>1, <2>2, SliceOf
  <2>4. /\ reqs' = reqs /\ st[w] = "new" /\ st'[w] = "sent"
        /\ data'[w] = Slice(Bytes(w, n), 0, mtu - 3)
    BY <1>1, <1>3, <1>6 DEF WriteCmd, Starts, TypeOK
  <2>5. Absent(w)'
    BY <1>1, <2>4 DEF Busy, Absent
  <2> QED
    BY <2>3, <2>4, <2>5 DEF TraceInv, Absent, Running
<1>7. ASSUME NEW op \in {"execute", "cancel"}, ExecuteWrite(w, op) PROVE TraceInv(w)'
  <2>1. PICK q \in Req : q = Request(w, op, 0, <<>>) /\ q.p = w /\ q.op = op /\ q.part = <<>>
    BY <1>1, BareRequest
  <2>2. Of(w, q.part) /\ Of(w, data[w])
    BY <2>1, EmptyOf DEF TraceInv
  <2>3. /\ reqs' = Append(reqs, q) /\ up' = up /\ prep' = prep /\ value' = value
        /\ cmds' = cmds /\ st[w] = "prepared" /\ st'[w] = "run" /\ data'[w] = data[w]
    BY <1>1, <1>7, <2>1 DEF ExecuteWrite, server, client, TypeOK
  <2> QED
    BY <1>2, <2>1, <2>2, <2>3, TraceSend
<1>8. ASSUME NEW res \in {"ok", "error"}, WriteDone(w, res) PROVE TraceInv(w)'
  <2>1. /\ Answer("write", res) /\ Head(reqs).p = w /\ reqs' = Tail(reqs)
        /\ cmds' = cmds /\ mixed' = mixed /\ data' = data
        /\ st'[w] = IF res = "ok" THEN "ok" ELSE Failure
    BY <1>1, <1>8 DEF WriteDone, client, TypeOK
  <2>2. /\ reqs # <<>> /\ up' = up /\ Head(reqs).op = "write"
        /\ res # "ok" => value' = value
    BY <1>1, <2>1, AnswerDone, AnswerType
  <2>3. Absent(w)'
    BY <1>1, <2>1, <2>2, OwnTail
  <2>4. st'[w] = "failed" => up /\ res # "ok"
    BY <2>1 DEF Failure
  <2>7. st'[w] \in {"failed", "ok", "lost"}
    BY <2>1 DEF Failure
  <2> QED
    BY <2>1, <2>2, <2>3, <2>4, <2>7, TraceEnd
<1>9. ASSUME NEW op \in {"prep", "reliable"}, NEW res, res # "ok", Answer(op, res),
             Head(reqs).p = w, reqs' = Tail(reqs), cmds' = cmds, mixed' = mixed,
             data' = data, st'[w] = Failure
      PROVE  TraceInv(w)'
  <2>1. reqs # <<>> /\ up' = up /\ value' = value
    BY <1>9, AnswerDone
  <2>2. Absent(w)'
    BY <1>1, <1>9, <2>1, OwnTail
  <2>3. st'[w] \in {"failed", "lost"} /\ (st'[w] = "failed" => up)
    BY <1>9 DEF Failure
  <2> QED
    BY <1>9, <2>1, <2>2, <2>3, TraceEnd
<1>10. ASSUME NEW res \in {"ok", "error"}, ReliableDone(w, res) PROVE TraceInv(w)'
  <2>1. /\ Answer("reliable", res) /\ Head(reqs).p = w
        /\ cmds' = cmds /\ mixed' = mixed /\ data' = data
        /\ reqs' = Tail(reqs)
        /\ st'[w] = IF res = "ok" THEN "prepared" ELSE Failure
    BY <1>1, <1>10 DEF ReliableDone, client, TypeOK
  <2>2. CASE res # "ok"
    BY <1>9, <2>1, <2>2
  <2>3. CASE res = "ok"
    <3>1. reqs # <<>> /\ up' = up /\ value' = value
      BY <2>1, AnswerDone
    <3>2. reqs' = Tail(reqs) /\ st'[w] = "prepared"
      BY <2>1, <2>3
    <3>3. Absent(w)'
      BY <1>1, <2>1, <3>1, <3>2, OwnTail
    <3> QED
      BY <2>1, <3>1, <3>2, <3>3, TraceEnd
  <2> QED
    BY <2>2, <2>3
<1>11. ASSUME NEW op \in {"execute", "cancel"}, NEW res \in {"ok", "error"},
              ExecuteDone(w, op, res)
       PROVE  TraceInv(w)'
  <2>1. /\ Answer(op, res) /\ Head(reqs).p = w /\ reqs' = Tail(reqs)
        /\ cmds' = cmds /\ mixed' = mixed /\ data' = data
        /\ st'[w] = IF ~up THEN "lost"
                    ELSE IF op = "execute" /\ res = "ok" THEN "ok" ELSE "failed"
    BY <1>1, <1>11 DEF ExecuteDone, client, TypeOK
  <2>2. reqs # <<>> /\ up' = up /\ Head(reqs).op = op
    BY <1>1, <2>1, AnswerType
  <2>4. Absent(w)'
    BY <1>1, <2>1, <2>2, OwnTail
  <2>5. st'[w] = "failed" => value' = value /\ up
    BY <2>1, AnswerDone
  <2>6. st'[w] \in {"failed", "ok", "lost"}
    BY <2>1
  <2> QED
    BY <2>1, <2>2, <2>4, <2>5, <2>6, TraceEnd
<1>12. ASSUME NEW res \in {"ok", "error"}, PrepareWriteCb(w, res) PROVE TraceInv(w)'
  <2>1. /\ Answer("prep", res) /\ Head(reqs).p = w
        /\ cmds' = cmds /\ mixed' = mixed /\ data' = data
        /\ st'[w] = IF res = "ok" THEN "run" ELSE Failure
    BY <1>1, <1>12 DEF PrepareWriteCb, TypeOK
  <2>2. CASE res # "ok"
    <3>1. reqs' = Tail(reqs)
      BY <1>12, <2>2 DEF PrepareWriteCb
    <3> QED
      BY <1>9, <2>1, <2>2, <3>1
  <2>3. CASE res = "ok"
    <3>0. reqs # <<>> /\ up' = up /\ value' = value
      BY <2>1, AnswerDone
    <3>1. /\ data[w] \in Seq(Byte) /\ offset[w] \in Nat /\ Len(Head(reqs).part) \in Nat
          /\ mtu \in Nat /\ mtu > 5 /\ mtu - 5 \in Nat
      <4>1. Head(reqs).part \in Seq(Byte)
        BY <1>1, <3>0, HeadReq
      <4>2. data[w] \in Seq(Byte) /\ offset[w] \in Nat
        BY <1>1 DEF TypeOK
      <4>3. mtu \in Nat /\ mtu > 5 /\ mtu - 5 \in Nat
        BY <1>1, MtuFacts
      <4> QED
        BY <4>1, <4>2, <4>3
    <3>2. PICK o \in Nat : o = offset[w] + Len(Head(reqs).part)
      BY <3>1
    <3>3. PICK a \in Req : a = Request(w, "execute", 0, <<>>) /\ a.p = w /\ a.op = "execute"
                           /\ a.part = <<>>
      BY <1>1, BareRequest
    <3>8. PICK d \in Seq(Byte) : d = data[w]
      BY <3>1
    <3>9. PICK b \in Req : /\ b = PrepareRequest(w, d, o, mtu) /\ b.p = w /\ b.op = "prep"
                           /\ b.part = Slice(d, o, mtu - 5)
      BY <3>1, PrepareRequestType
    <3>4. Of(w, a.part) /\ Of(w, b.part)
      <4>1. Of(w, d)
        BY <3>8 DEF TraceInv
      <4>2. Of(w, Slice(d, o, mtu - 5))
        BY <3>1, <4>1, SliceOf
      <4> QED
        BY <3>3, <3>9, <4>2, EmptyOf
    <3>5. reqs' = Append(Tail(reqs), a) \/ reqs' = Append(Tail(reqs), b)
      BY <1>12, <2>3, <3>2, <3>3, <3>8, <3>9 DEF PrepareWriteCb
    <3>6. PICK q \in Req : reqs' = Append(Tail(reqs), q) /\ Of(w, q.part)
      BY <3>3, <3>4, <3>5, <3>9
    <3>7. Sole(w, q)'
      BY <1>1, <2>1, <3>0, <3>6, OwnTailAppend
    <3>10. st'[w] = "run"
      BY <2>1, <2>3
    <3> QED
      BY <2>1, <3>0, <3>6, <3>7, <3>10, TraceAnswer
  <2> QED
    BY <2>2, <2>3
<1> QED
  BY <1>4, <1>5, <1>6, <1>7, <1>8, <1>10, <1>11, <1>12 DEF OwnWrite

TraceAll == Rivals /\ AllTrace

\* No write has left a trace at first.
LEMMA TraceInit == Init => TraceAll
<1> SUFFICES ASSUME Init PROVE Rivals /\ AllTrace
  BY DEF TraceAll
<1>1. \A w \in Writers : st[w] = "new" /\ ~Running(w)
  BY Classes DEF Init, Running
<1>2. Rivals
  BY <1>1 DEF Rivals
<1>3. ASSUME NEW w \in Writers PROVE TraceInv(w)
  <2>1. /\ data[w] = <<>> /\ Len(reqs) = 0 /\ Len(prep) = 0 /\ cmds = {}
    BY EmptySeq DEF Init
  <2>2. Of(w, data[w]) /\ FreePrep(w)
    BY <2>1, EmptyOf DEF FreePrep
  <2>3. PICK v \in Seq(Byte) : /\ v = value /\ Len(v) = ValueLen
                               /\ \A i \in 1..ValueLen : v[i][1] = "server"
    BY BytesType, LengthAssumption DEF Init
  <2>4. w # "server" => Free(w, value)
    BY <2>3 DEF Free
  <2> QED
    BY <1>1, <2>1, <2>2, <2>4, ProcAssumption DEF TraceInv
<1> QED
  BY <1>2, <1>3 DEF AllTrace

\* Every step keeps the invariant of the traces.
LEMMA TraceStep == QueueInv /\ QueueInv' /\ TraceAll /\ [Next]_vars => TraceAll'
<1> SUFFICES ASSUME QueueInv, QueueInv', Rivals, AllTrace, [Next]_vars
             PROVE  Rivals' /\ AllTrace'
  BY DEF TraceAll
<1>1. CASE UNCHANGED vars
  <2>1. Rivals'
    BY <1>1 DEF Rivals, Running, vars, history
  <2>2. AllTrace'
    BY <1>1 DEF AllTrace, TraceInv, FreePrep, NoneOk, Running, vars, client, server, history
  <2> QED
    BY <2>1, <2>2
<1>2. CASE Next
  <2>1. Rivals'
    BY <1>2, RivalsStep
  <2>2. ASSUME NEW w \in Writers PROVE TraceInv(w)'
    <3>1. TraceInv(w)
      BY DEF AllTrace
    <3> QED
      BY <1>2, <3>1, TraceAlone, TraceOwn
  <2> QED
    BY <2>1, <2>2 DEF AllTrace
<1> QED
  BY <1>1, <1>2

\* A write that was reported as failed, or that the client dropped, leaves none
\* of its bytes in the value until another write is a success, however many
\* writes fail after it, unless another one ran at the same time: what
\* prepare_write_cb leaves in the server's queue stays there.
THEOREM RefusalCorrect == Spec => []RefusedStaysPrepared
<1>1. TraceAll => RefusedStaysPrepared
  BY DEF TraceAll, AllTrace, TraceInv, RefusedStaysPrepared, NoneOk, Free
<1>2. Spec => []QueueInv
  BY QueueCorrect
<1>3. QueueInv /\ QueueInv' /\ TraceAll /\ [Next]_vars => TraceAll'
  BY TraceStep
<1>4. Spec => []TraceAll
  BY <1>2, <1>3, TraceInit, PTL DEF Spec
<1> QED
  BY <1>1, <1>4, PTL

-----------------------------------------------------------------------------
(* A write that succeeds *)

AllApply == \A w \in Writers : ApplyInv(w)

\* Nothing is prepared yet.
LEMMA CoveredNone ==
    ASSUME NEW q, NEW d
    PROVE  Covered(q, d, 0)
  BY DEF Covered

\* The next part covers its bytes and no earlier one.
LEMMA CoveredAppend ==
    ASSUME NEW q \in Seq(Prepared), NEW d \in Seq(Byte), NEW e \in Prepared,
           Covered(q, d, e.off),
           \A k \in 1..Len(e.part) : e.part[k] = d[e.off + k]
    PROVE  Covered(Append(q, e), d, e.off + Len(e.part))
<1>1. PICK o \in Nat : o = e.off
  BY DEF Prepared
<1>2. PICK m \in Nat : m = Len(e.part)
  BY DEF Prepared
<1>3. PICK n \in Nat : n = Len(q)
  OBVIOUS
<1>4. PICK s \in Seq(Prepared) : s = Append(q, e)
  BY AppendProperties
<1>5. Len(s) = n + 1 /\ s[n + 1] = e /\ \A j \in 1..n : s[j] = q[j]
  BY <1>3, <1>4
<1>6. \A i \in Nat : Covers(e, i) <=> o < i /\ i <= o + m
  BY <1>1, <1>2 DEF Covers
<1> SUFFICES ASSUME NEW i \in 1..(o + m)
             PROVE  \E j \in 1..Len(s) :
                        /\ Covers(s[j], i) /\ s[j].part[i - s[j].off] = d[i]
                        /\ \A k \in 1..Len(s) : k > j => ~ Covers(s[k], i)
  BY <1>1, <1>2, <1>4 DEF Covered
<1>7. CASE i <= o
  <2>1. i \in 1..o
    BY <1>7
  <2>2. PICK j \in 1..n : /\ Covers(q[j], i) /\ q[j].part[i - q[j].off] = d[i]
                          /\ \A k \in 1..n : k > j => ~ Covers(q[k], i)
    BY <1>1, <1>3, <2>1 DEF Covered
  <2>3. j \in 1..Len(s) /\ s[j] = q[j]
    BY <1>5
  <2>4. \A k \in 1..(n + 1) : k \in 1..n \/ k = n + 1
    OBVIOUS
  <2>5. ~Covers(e, i)
    BY <1>6, <1>7
  <2>6. \A k \in 1..Len(s) : k > j => ~ Covers(s[k], i)
    BY <1>5, <2>2, <2>4, <2>5
  <2> QED
    BY <2>2, <2>3, <2>6
<1>8. CASE ~(i <= o)
  <2>1. i - o \in 1..m /\ o + (i - o) = i /\ Covers(e, i)
    BY <1>6, <1>8
  <2>2. e.part[i - o] = d[i]
    BY <1>1, <1>2, <2>1
  <2>3. n + 1 \in 1..Len(s) /\ s[n + 1] = e
    BY <1>5
  <2>4. \A k \in 1..Len(s) : ~(k > n + 1)
    BY <1>5
  <2> QED
    BY <1>1, <2>1, <2>2, <2>3, <2>4
<1> QED
  BY <1>7, <1>8

\* A step of others leaves what a write has prepared.
LEMMA ApplyAlone ==
    ASSUME QueueInv, QueueInv', Rivals, Next, NEW w \in Writers, ApplyInv(w), ~OwnWrite(w)
    PROVE  ApplyInv(w)'
<1>1. /\ TypeOK /\ TypeOK' /\ AllFitting /\ Busy(w) /\ w \in Procs
      /\ mixed \subseteq mixed' /\ Len(reqs) \in Nat
  <2>1. TypeOK /\ TypeOK' /\ AllFitting /\ w \in Procs
    BY Classes DEF QueueInv
  <2>2. Busy(w)
    BY <2>1 DEF QueueInv
  <2>3. mixed \subseteq mixed'
    BY MixedGrows
  <2>4. Len(reqs) \in Nat
    BY <2>1 DEF TypeOK
  <2> QED
    BY <2>1, <2>2, <2>3, <2>4
<1>2. st'[w] = st[w] /\ data'[w] = data[w] /\ offset'[w] = offset[w]
  BY <1>1, Classes, AloneOrOwn DEF Alone, Idle
<1>3. PICK k \in {0, 1} :
           /\ Moved(k) /\ Fresh(k) /\ (up' => up) /\ (k = 1 => reqs # <<>>)
           /\ Running(w) /\ up' /\ w \notin mixed' => prep' = prep
  BY Elsewhere
<1>4. \A i \in 1..Len(reqs') : reqs'[i].p = w =>
           /\ i \in 1..(Len(reqs) - k) /\ i + k \in 1..Len(reqs)
           /\ reqs'[i] = reqs[i + k] /\ Running(w) /\ WriteReqInv(w, reqs[i + k])
  <2> SUFFICES ASSUME NEW i \in 1..Len(reqs'), reqs'[i].p = w
               PROVE  /\ i \in 1..(Len(reqs) - k) /\ i + k \in 1..Len(reqs)
                      /\ reqs'[i] = reqs[i + k] /\ Running(w) /\ WriteReqInv(w, reqs[i + k])
    OBVIOUS
  <2>1. /\ i \in 1..(Len(reqs) - k) /\ i + k \in 1..Len(reqs)
        /\ reqs'[i] = reqs[i + k]
    BY <1>1, <1>3, OldRequest
  <2>2. Running(w)
    BY <1>1, <2>1 DEF Busy, Running
  <2>3. WriteReqInv(w, reqs[i + k])
    BY <2>1 DEF ApplyInv
  <2> QED
    BY <2>1, <2>2, <2>3
<1>7. ASSUME NEW i \in 1..Len(reqs'), reqs'[i].p = w
      PROVE  WriteReqInv(w, reqs[i])'
  <2>1. PICK q : q = reqs'[i] /\ q = reqs[i + k] /\ WriteReqInv(w, q) /\ q.p = w
    BY <1>4, <1>7
  <2>2. up' /\ w \notin mixed' => up /\ w \notin mixed
    BY <1>1, <1>3
  <2>3. up' /\ w \notin mixed' => prep' = prep
    BY <1>3, <1>4, <1>7
  <2>4. q.op = "prep" /\ up' /\ w \notin mixed' => Covered(prep', data'[w], offset'[w])
    BY <1>2, <2>1, <2>2, <2>3 DEF WriteReqInv
  <2>5. q.op = "execute" /\ up' /\ w \notin mixed' =>
            Covered(prep', data'[w], Len(data'[w]))
    BY <1>2, <2>1, <2>2, <2>3 DEF WriteReqInv
  <2>6. /\ q.op = "write" => q.part = data'[w]
        /\ q.op = "reliable" => q.part = data'[w] /\ q.arg = 0
        /\ q.op = "prep" => /\ q.arg = offset'[w] /\ q.arg + Len(q.part) <= Len(data'[w])
                            /\ \A l \in 1..Len(q.part) : q.part[l] = data'[w][q.arg + l]
    BY <1>2, <2>1 DEF WriteReqInv
  <2>7. WriteReqInv(w, q)'
    BY <2>4, <2>5, <2>6 DEF WriteReqInv
  <2> QED
    BY <2>1, <2>7
<1>8. ASSUME st'[w] = "prepared", up', w \notin mixed'
      PROVE  Covered(prep', data'[w], Len(data'[w]))
  <2>1. Running(w) /\ Covered(prep, data[w], Len(data[w]))
    BY <1>1, <1>2, <1>3, <1>8 DEF ApplyInv, Running
  <2> QED
    BY <1>2, <1>3, <1>8, <2>1
<1>10. st'[w] = "new" => offset'[w] = 0
  BY <1>2 DEF ApplyInv
<1> QED
  BY <1>7, <1>8, <1>10 DEF ApplyInv

\* A write begins.
LEMMA ApplyStart ==
    ASSUME QueueInv, QueueInv', NEW w \in Writers, ApplyInv(w), st[w] = "new",
           NEW q \in Req, q.p = w, reqs' = Append(reqs, q), st'[w] = "run",
           offset'[w] = offset[w], q.op \in {"write", "reliable", "prep"},
           q.op \in {"write", "reliable"} => q.part = data'[w], q.arg = 0,
           q.op = "prep" => /\ Len(q.part) <= Len(data'[w])
                            /\ \A k \in 1..Len(q.part) : q.part[k] = data'[w][k]
    PROVE  ApplyInv(w)'
<1>1. TypeOK /\ TypeOK' /\ Busy(w) /\ w # "client" /\ Len(reqs') \in Nat
  <2>1. TypeOK /\ TypeOK' /\ w # "client"
    BY Classes DEF QueueInv
  <2>2. Busy(w)
    BY Classes DEF QueueInv
  <2>3. Len(reqs') \in Nat
    BY <2>1 DEF TypeOK
  <2> QED
    BY <2>1, <2>2, <2>3
<1>2. Sole(w, q)' /\ offset'[w] = 0
  BY <1>1, OwnAppend DEF ApplyInv
<1>3. q.part \in Seq(Byte)
  BY DEF Req
<1>4. WriteReqInv(w, q)'
  <2>1. \A k \in 1..Len(q.part) : 0 + k = k
    OBVIOUS
  <2>2. 0 + Len(q.part) = Len(q.part)
    BY <1>3
  <2> QED
    BY <1>2, <2>1, <2>2, CoveredNone DEF WriteReqInv
<1>5. \A i \in 1..Len(reqs') : reqs'[i].p = w => i = Len(reqs') /\ reqs'[i] = q
  BY <1>2 DEF Sole
<1> QED
  BY <1>2, <1>4, <1>5 DEF ApplyInv

\* A write ends.
LEMMA ApplyEnd ==
    ASSUME NEW w \in Writers, Absent(w)', st'[w] \notin {"new", "prepared"}
    PROVE  ApplyInv(w)'
  BY DEF ApplyInv, Absent

\* What a write of the queue's head may count on.
LEMMA HeadApply ==
    ASSUME QueueInv, NEW w \in Writers, ApplyInv(w), reqs # <<>>, Head(reqs).p = w
    PROVE  WriteReqInv(w, Head(reqs))
<1>1. TypeOK /\ Head(reqs) = reqs[1] /\ 1 \in 1..Len(reqs)
  BY HeadReq DEF QueueInv
<1> QED
  BY <1>1 DEF ApplyInv

\* The only request of a write is its last one.
LEMMA ApplySole ==
    ASSUME NEW w \in Writers, NEW q, Sole(w, q)', WriteReqInv(w, q)', st'[w] = "run"
    PROVE  ApplyInv(w)'
<1>1. \A i \in 1..Len(reqs') : reqs'[i].p = w => reqs'[i] = q
  BY DEF Sole
<1> QED
  BY <1>1 DEF ApplyInv

\* A prepared write.
LEMMA PreparedIs ==
    ASSUME NEW o \in Nat, NEW p \in Seq(Byte)
    PROVE  LET e == [off |-> o, part |-> p] IN e \in Prepared /\ e.off = o /\ e.part = p
  BY DEF Prepared

\* The part that is prepared next lies within the value.
LEMMA SlicePart ==
    ASSUME NEW d \in Seq(Byte), NEW o \in Nat, o <= Len(d), NEW m \in Nat,
           NEW s, s = Slice(d, o, m)
    PROVE  /\ s \in Seq(Byte) /\ o + Len(s) <= Len(d)
           /\ \A k \in 1..Len(s) : s[k] = d[o + k]
<1>1. s \in Seq(Byte) /\ \A k \in 1..Len(s) : s[k] = d[o + k]
  BY SliceFacts
<1>2. PICK l \in Nat : l = Len(d)
  OBVIOUS
<1>3. PICK n \in Nat : n = Len(s)
  BY <1>1
<1>4. n = IF o >= l THEN 0 ELSE IF o + m <= l THEN m ELSE l - o
  <2>1. Len(Slice(d, o, m)) =
            IF o >= Len(d) THEN 0 ELSE IF o + m <= Len(d) THEN m ELSE Len(d) - o
    BY SliceFacts
  <2> QED
    BY <1>2, <1>3, <2>1
<1>5. o <= l
  BY <1>2
<1>6. o + n <= l
  BY <1>4, <1>5
<1> QED
  BY <1>1, <1>2, <1>3, <1>6

\* The prepared write of a request covers what it says.
LEMMA CoveredHead ==
    ASSUME QueueInv, NEW w \in Writers, ApplyInv(w), reqs # <<>>, Head(reqs).p = w,
           NEW o \in Nat, Head(reqs).arg = o, Covered(prep, data[w], o),
           \A k \in 1..Len(Head(reqs).part) : Head(reqs).part[k] = data[w][o + k],
           prep' = Append(prep, [off |-> Head(reqs).arg, part |-> Head(reqs).part])
    PROVE  Covered(prep', data[w], o + Len(Head(reqs).part))
<1>1. TypeOK /\ Head(reqs).part \in Seq(Byte)
  BY HeadReq DEF QueueInv
<1>2. PICK p \in Seq(Byte) : p = Head(reqs).part
  BY <1>1
<1>3. PICK e \in Prepared : e = [off |-> o, part |-> p] /\ e.off = o /\ e.part = p
  BY PreparedIs
<1>4. prep \in Seq(Prepared) /\ data[w] \in Seq(Byte)
  BY <1>1 DEF TypeOK
<1>5. prep' = Append(prep, e)
  BY <1>2, <1>3
<1>6. \A k \in 1..Len(e.part) : e.part[k] = data[w][e.off + k]
  BY <1>2, <1>3
<1>7. Covered(prep, data[w], e.off)
  BY <1>3
<1>8. Covered(Append(prep, e), data[w], e.off + Len(e.part))
  BY <1>4, <1>6, <1>7, CoveredAppend
<1> QED
  BY <1>2, <1>3, <1>5, <1>8

\* A write starts, in one request or in parts.
LEMMA ApplyWriteChar ==
    ASSUME QueueInv, QueueInv', NEW w \in Writers, ApplyInv(w), NEW n \in WriteLens,
           WriteChar(w, n)
    PROVE  ApplyInv(w)'
<1>1. TypeOK /\ w \in Procs /\ w \in Procs \cup {"client"}
  BY Classes DEF QueueInv
<1>2. /\ n \in Nat /\ Bytes(w, n) \in Seq(Byte) /\ mtu \in Nat /\ mtu > 5 /\ mtu - 5 \in Nat
  BY <1>1, BytesType, LengthAssumption, MtuFacts
<1>3. PICK d \in Seq(Byte) : d = Bytes(w, n)
  BY <1>2
<1>4. PICK a \in Req : /\ a = Request(w, "write", 0, d) /\ a.p = w
                       /\ a.op = "write" /\ a.arg = 0 /\ a.part = d
  BY <1>1, RequestType
<1>5. PICK b \in Req : /\ b = PrepareRequest(w, d, 0, mtu) /\ b.p = w
                       /\ b.op = "prep" /\ b.arg = 0 /\ b.part = Slice(d, 0, mtu - 5)
  BY <1>2, PrepareRequestType
<1>6. Len(b.part) <= Len(d) /\ \A k \in 1..Len(b.part) : b.part[k] = d[k]
  <2>1. PICK s : s = Slice(d, 0, mtu - 5)
    OBVIOUS
  <2>2. 0 <= Len(d) /\ Len(d) \in Nat
    OBVIOUS
  <2>3. /\ s \in Seq(Byte) /\ 0 + Len(s) <= Len(d)
        /\ \A k \in 1..Len(s) : s[k] = d[0 + k]
    BY <1>2, <2>1, <2>2, SlicePart
  <2>4. 0 + Len(s) = Len(s) /\ \A k \in 1..Len(s) : 0 + k = k
    BY <2>3
  <2> QED
    BY <1>5, <2>1, <2>3, <2>4
<1>7. reqs' = Append(reqs, a) \/ reqs' = Append(reqs, b)
  BY <1>3, <1>4, <1>5 DEF WriteChar
<1>8. /\ st[w] = "new" /\ st'[w] = "run" /\ offset'[w] = offset[w] /\ data'[w] = d
  BY <1>1, <1>3 DEF WriteChar, Starts, StartWrite, TypeOK
<1>9. CASE reqs' = Append(reqs, a)
  BY <1>4, <1>8, <1>9, ApplyStart
<1>10. CASE reqs' = Append(reqs, b)
  BY <1>5, <1>6, <1>8, <1>10, ApplyStart
<1> QED
  BY <1>7, <1>9, <1>10

\* A reliable write starts, cut to what fits in one request.
LEMMA ApplyReliableWriteChar ==
    ASSUME QueueInv, QueueInv', NEW w \in Writers, ApplyInv(w), NEW n \in WriteLens,
           ReliableWriteChar(w, n)
    PROVE  ApplyInv(w)'
<1>1. TypeOK /\ w \in Procs /\ w \in Procs \cup {"client"}
  BY Classes DEF QueueInv
<1>2. n \in Nat /\ Bytes(w, n) \in Seq(Byte) /\ mtu - 5 \in Nat
  BY <1>1, BytesType, LengthAssumption, MtuFacts
<1>3. PICK d \in Seq(Byte) : d = Slice(Bytes(w, n), 0, mtu - 5)
  BY <1>2, SliceFacts
<1>4. PICK q \in Req : /\ q = Request(w, "reliable", 0, d) /\ q.p = w
                       /\ q.op = "reliable" /\ q.arg = 0 /\ q.part = d
  BY <1>1, RequestType
<1>5. /\ reqs' = Append(reqs, q) /\ st[w] = "new" /\ st'[w] = "run"
      /\ offset'[w] = offset[w] /\ data'[w] = d
  BY <1>1, <1>3, <1>4 DEF ReliableWriteChar, Starts, StartWrite, TypeOK
<1> QED
  BY <1>4, <1>5, ApplyStart

\* The client executes or drops what it has prepared.
LEMMA ApplyExecuteWrite ==
    ASSUME QueueInv, QueueInv', NEW w \in Writers, ApplyInv(w),
           NEW op \in {"execute", "cancel"}, ExecuteWrite(w, op)
    PROVE  ApplyInv(w)'
<1>1. TypeOK /\ Busy(w) /\ w \in Procs /\ w \in Procs \cup {"client"} /\ w # "client"
  BY Classes DEF QueueInv
<1>2. PICK q \in Req : q = Request(w, op, 0, <<>>) /\ q.p = w /\ q.op = op
  BY <1>1, BareRequest
<1>3. /\ reqs' = Append(reqs, q) /\ up' = up /\ prep' = prep /\ mixed' = mixed
      /\ st[w] = "prepared" /\ st'[w] = "run" /\ data' = data
  BY <1>1, <1>2 DEF ExecuteWrite, server, client, history, TypeOK
<1>4. Sole(w, q)'
  BY <1>1, <1>2, <1>3, OwnAppend
<1>5. up /\ w \notin mixed => Covered(prep, data[w], Len(data[w]))
  BY <1>3 DEF ApplyInv
<1>6. WriteReqInv(w, q)'
  BY <1>2, <1>3, <1>5 DEF WriteReqInv
<1> QED
  BY <1>3, <1>4, <1>6, ApplySole

\* A write ends with the answer at the head of the queue.
LEMMA ApplyFailed ==
    ASSUME QueueInv, NEW w \in Writers, reqs # <<>>, Head(reqs).p = w,
           reqs' = Tail(reqs),
           st'[w] \in {"ok", "failed", "lost"}
    PROVE  ApplyInv(w)'
<1>1. TypeOK /\ Unique(w) /\ w \in Procs
  BY Classes DEF QueueInv
<1>2. Absent(w)'
  BY <1>1, OwnTail
<1> QED
  BY <1>2, ApplyEnd

\* The answer to a reliable write: the server holds all of it.
LEMMA ApplyReliableDone ==
    ASSUME QueueInv, NEW w \in Writers, ApplyInv(w),
           NEW res \in {"ok", "error"}, ReliableDone(w, res)
    PROVE  ApplyInv(w)'
<1>1. TypeOK /\ Unique(w) /\ w \in Procs
  BY Classes DEF QueueInv
<1>2. /\ Answer("reliable", res) /\ Head(reqs).p = w
      /\ mixed' = mixed /\ data' = data
      /\ reqs' = Tail(reqs)
      /\ st'[w] = IF res = "ok" THEN "prepared" ELSE Failure
  BY <1>1 DEF ReliableDone, client, TypeOK
<1>3. reqs # <<>> /\ Head(reqs).op = "reliable"
  BY <1>2 DEF Answer
<1>4. CASE res # "ok"
  <2>1. reqs' = Tail(reqs) /\ st'[w] \in {"failed", "lost"}
    BY <1>1, <1>2, <1>4, FailureType
  <2> QED
    BY <1>2, <1>3, <2>1, ApplyFailed
<1>5. CASE res = "ok"
  <2>1. reqs' = Tail(reqs) /\ st'[w] = "prepared"
    BY <1>2, <1>5
  <2>2. Absent(w)'
    BY <1>1, <1>2, <1>3, <2>1, OwnTail
  <2>3. WriteReqInv(w, Head(reqs))
    BY <1>2, <1>3, HeadApply
  <2>4. Head(reqs).part = data[w] /\ Head(reqs).arg = 0
    BY <1>3, <2>3 DEF WriteReqInv
  <2>5. prep' = Append(prep, [off |-> Head(reqs).arg, part |-> Head(reqs).part])
    BY <1>2, <1>5, AnswerDone
  <2>6. Covered(prep', data[w], Len(data[w]))
    <3>1. data[w] \in Seq(Byte)
      BY <1>1 DEF TypeOK
    <3>2. \A k \in 1..Len(data[w]) : 0 + k = k
      OBVIOUS
    <3>3. \A k \in 1..Len(Head(reqs).part) : Head(reqs).part[k] = data[w][0 + k]
      BY <2>4, <3>2
    <3>4. Covered(prep', data[w], 0 + Len(Head(reqs).part))
      <4>1. Covered(prep, data[w], 0)
        BY CoveredNone
      <4>2. PICK o \in Nat : o = 0
        OBVIOUS
      <4>3. Head(reqs).arg = o /\ Covered(prep, data[w], o)
        BY <2>4, <4>1, <4>2
      <4>4. \A k \in 1..Len(Head(reqs).part) : Head(reqs).part[k] = data[w][o + k]
        BY <3>3, <4>2
      <4>5. Covered(prep', data[w], o + Len(Head(reqs).part))
        BY <1>2, <1>3, <2>5, <4>3, <4>4, CoveredHead
      <4> QED
        BY <4>2, <4>5
    <3>5. 0 + Len(Head(reqs).part) = Len(data[w])
      BY <2>4, <3>1
    <3> QED
      BY <3>4, <3>5
  <2>9. Covered(prep', data'[w], Len(data'[w]))
    BY <1>2, <2>6
  <2> QED
    BY <2>1, <2>2, <2>9 DEF ApplyInv, Absent
<1> QED
  BY <1>4, <1>5

\* The answer to a part of a long write: the server holds what comes before
\* the next part.
LEMMA ApplyPrepareWriteCb ==
    ASSUME QueueInv, QueueInv', NEW w \in Writers, ApplyInv(w),
           NEW res \in {"ok", "error"}, PrepareWriteCb(w, res)
    PROVE  ApplyInv(w)'
<1>1. TypeOK /\ Unique(w) /\ w \in Procs /\ w \in Procs \cup {"client"} /\ w # "client"
  BY Classes DEF QueueInv
<1>2. /\ Answer("prep", res) /\ Head(reqs).p = w
      /\ mixed' = mixed /\ data' = data
      /\ st'[w] = IF res = "ok" THEN "run" ELSE Failure
  BY <1>1 DEF PrepareWriteCb, TypeOK
<1>3. reqs # <<>> /\ Head(reqs).op = "prep" /\ up' = up
  BY <1>2 DEF Answer
<1>4. CASE res # "ok"
  <2>1. reqs' = Tail(reqs)
    BY <1>4 DEF PrepareWriteCb
  <2>2. st'[w] \in {"failed", "lost"}
    BY <1>1, <1>2, <1>4, FailureType
  <2> QED
    BY <1>2, <1>3, <2>1, <2>2, ApplyFailed
<1>5. CASE res = "ok"
  <2>1. /\ data[w] \in Seq(Byte) /\ offset \in [Writers -> Nat]
        /\ mtu \in Nat /\ mtu > 5 /\ mtu - 5 \in Nat
    BY <1>1, MtuFacts DEF TypeOK
  <2>2. PICK d \in Seq(Byte) : d = data[w]
    BY <2>1
  <2>3. PICK l \in Nat : l = Len(d)
    OBVIOUS
  <2>4. PICK f \in Nat : f = offset[w]
    BY <2>1
  <2>5. PICK m \in Nat : m = Len(Head(reqs).part)
    BY <1>1, <1>3, HeadReq
  <2>6. PICK o \in Nat : o = f + m
    OBVIOUS
  <2>7. WriteReqInv(w, Head(reqs))
    BY <1>2, <1>3, HeadApply
  <2>8. /\ Head(reqs).arg = f /\ f + m <= l
        /\ \A k \in 1..Len(Head(reqs).part) : Head(reqs).part[k] = data[w][f + k]
        /\ up /\ w \notin mixed => Covered(prep, data[w], f)
    BY <1>3, <2>2, <2>3, <2>4, <2>5, <2>7 DEF WriteReqInv
  <2>9. up /\ w \notin mixed => Covered(prep', data[w], o)
    <3> HAVE up /\ w \notin mixed
    <3>1. prep' = Append(prep, [off |-> Head(reqs).arg, part |-> Head(reqs).part])
      BY <1>2, <1>5, AnswerDone
    <3>2. Covered(prep', data[w], f + Len(Head(reqs).part))
      BY <1>2, <1>3, <2>8, <3>1, CoveredHead
    <3> QED
      BY <2>5, <2>6, <3>2
  <2>10. offset'[w] = o
    <3>1. offset' = [offset EXCEPT ![w] = offset[w] + Len(Head(reqs).part)]
      BY <1>5 DEF PrepareWriteCb
    <3> QED
      BY <2>1, <2>4, <2>5, <2>6, <3>1
  <2>11. PICK a \in Req : a = Request(w, "execute", 0, <<>>) /\ a.p = w /\ a.op = "execute"
    BY <1>1, BareRequest
  <2>12. PICK b \in Req : /\ b = PrepareRequest(w, d, o, mtu) /\ b.p = w /\ b.op = "prep"
                          /\ b.arg = o /\ b.part = Slice(d, o, mtu - 5)
    BY <2>1, PrepareRequestType
  <2>13. reqs' = Append(Tail(reqs), IF o = l THEN a ELSE b)
    BY <1>5, <2>2, <2>3, <2>4, <2>5, <2>6, <2>11, <2>12 DEF PrepareWriteCb
  <2>14. o = l => WriteReqInv(w, a)'
    BY <1>2, <1>3, <2>2, <2>3, <2>9, <2>11 DEF WriteReqInv
  <2>15. WriteReqInv(w, b)'
    <3>1. o <= Len(d)
      BY <2>3, <2>6, <2>8
    <3>2. PICK s : s = Slice(d, o, mtu - 5)
      OBVIOUS
    <3>0. PICK m5 \in Nat : m5 = mtu - 5
      BY <2>1
    <3>3. /\ s \in Seq(Byte) /\ o + Len(s) <= Len(d)
          /\ \A k \in 1..Len(s) : s[k] = d[o + k]
      BY <3>0, <3>1, <3>2, SlicePart
    <3>4. /\ b.op = "prep" /\ b.arg = offset'[w] /\ b.part = s /\ data'[w] = d
      BY <1>2, <2>2, <2>10, <2>12, <3>2
    <3>5. up' /\ w \notin mixed' => Covered(prep', data'[w], offset'[w])
      BY <1>2, <1>3, <2>9, <2>10
    <3>6. /\ b.arg + Len(b.part) <= Len(data'[w])
          /\ \A k \in 1..Len(b.part) : b.part[k] = data'[w][b.arg + k]
      BY <2>10, <3>3, <3>4
    <3> QED
      BY <3>4, <3>5, <3>6 DEF WriteReqInv
  <2>16. PICK q \in Req : reqs' = Append(Tail(reqs), q) /\ q.p = w /\ WriteReqInv(w, q)'
    BY <2>11, <2>12, <2>13, <2>14, <2>15
  <2>17. Sole(w, q)'
    BY <1>1, <1>2, <1>3, <2>16, OwnTailAppend
  <2>19. st'[w] = "run"
    BY <1>2, <1>5
  <2> QED
    BY <2>16, <2>17, <2>19, ApplySole
<1> QED
  BY <1>4, <1>5

\* A step of the write itself.
LEMMA ApplyOwn ==
    ASSUME QueueInv, QueueInv', NEW w \in Writers, ApplyInv(w), OwnWrite(w)
    PROVE  ApplyInv(w)'
<1>1. TypeOK /\ Busy(w) /\ w \in Procs
  BY Classes DEF QueueInv
<1>2. ASSUME NEW n \in WriteLens, WriteCmd(w, n) PROVE ApplyInv(w)'
  <2>1. reqs' = reqs /\ st[w] = "new" /\ st'[w] = "sent"
    BY <1>1, <1>2 DEF WriteCmd, Starts, TypeOK
  <2>2. Absent(w)'
    BY <1>1, <2>1 DEF Busy, Absent
  <2> QED
    BY <2>1, <2>2, ApplyEnd
<1>3. ASSUME NEW res \in {"ok", "error"}, WriteDone(w, res) PROVE ApplyInv(w)'
  <2>1. /\ reqs # <<>> /\ Head(reqs).p = w /\ reqs' = Tail(reqs)
        /\ st'[w] = IF res = "ok" THEN "ok" ELSE Failure
    BY <1>1, <1>3 DEF WriteDone, Answer, TypeOK
  <2>2. st'[w] \in {"ok", "failed", "lost"}
    BY <1>1, <2>1, FailureType
  <2> QED
    BY <2>1, <2>2, ApplyFailed
<1>4. ASSUME NEW op \in {"execute", "cancel"}, NEW res \in {"ok", "error"},
             ExecuteDone(w, op, res)
      PROVE  ApplyInv(w)'
  <2>1. /\ reqs # <<>> /\ Head(reqs).p = w /\ reqs' = Tail(reqs)
        /\ st'[w] \in {"ok", "failed", "lost"}
    BY <1>1, <1>4 DEF ExecuteDone, Answer, TypeOK
  <2> QED
    BY <2>1, ApplyFailed
<1> QED
  BY <1>2, <1>3, <1>4, ApplyWriteChar, ApplyReliableWriteChar, ApplyExecuteWrite,
     ApplyReliableDone, ApplyPrepareWriteCb DEF OwnWrite

ApplyAll == Rivals /\ AllApply

\* No write has begun at first.
LEMMA ApplyInit == Init => ApplyAll
<1> SUFFICES ASSUME Init PROVE ApplyAll
  OBVIOUS
<1>1. reqs = <<>> /\ Len(reqs) = 0 /\ \A p \in Procs : st[p] = "new"
  BY DEF Init
<1>2. \A i \in 1..Len(reqs) : FALSE
  BY <1>1
<1>3. \A w \in Writers : w \in Procs /\ offset[w] = 0 /\ st[w] = "new"
  BY <1>1 DEF Init, Procs
<1>4. Rivals
  BY <1>3 DEF Rivals, Running
<1>5. \A w \in Writers : ApplyInv(w)
  BY <1>2, <1>3 DEF ApplyInv
<1> QED
  BY <1>4, <1>5 DEF ApplyAll, AllApply

\* Every step keeps the invariant of the writes.
LEMMA ApplyStep == QueueInv /\ QueueInv' /\ ApplyAll /\ [Next]_vars => ApplyAll'
<1> SUFFICES ASSUME QueueInv, QueueInv', Rivals, AllApply, [Next]_vars
             PROVE  Rivals' /\ AllApply'
  BY DEF ApplyAll
<1>1. CASE UNCHANGED vars
  <2>1. Rivals'
    BY <1>1 DEF Rivals, Running, vars, history
  <2>2. AllApply'
    BY <1>1 DEF AllApply, ApplyInv, WriteReqInv,
                vars, client, server, history
  <2> QED
    BY <2>1, <2>2
<1>2. CASE Next
  <2>1. Rivals'
    BY <1>2, RivalsStep
  <2>2. ASSUME NEW w \in Writers PROVE ApplyInv(w)'
    <3>1. ApplyInv(w)
      BY DEF AllApply
    <3> QED
      BY <1>2, <3>1, ApplyAlone, ApplyOwn
  <2> QED
    BY <2>1, <2>2 DEF AllApply
<1> QED
  BY <1>1, <1>2

\* What is written when a write is reported as a success.
Reported ==
    \A w \in Writers : st[w] # "ok" /\ st'[w] = "ok" /\ w \notin mixed
                           => IsPrefix(data[w], value')

\* The only steps that report a success are the answers to a whole Write Request
\* and to the execution of all parts.
LEMMA ReportedStep ==
    ASSUME QueueInv, AllApply, [Next]_vars
    PROVE  Reported
<1> SUFFICES ASSUME NEW w \in Writers, st[w] # "ok", st'[w] = "ok", w \notin mixed
             PROVE  IsPrefix(data[w], value')
  BY DEF Reported
<1>1. TypeOK /\ AllFitting /\ w \in Procs /\ ApplyInv(w)
  BY Classes DEF QueueInv, AllApply
<1>2. Next
  BY DEF vars
<1>3. OwnWrite(w)
  BY <1>1, <1>2, Classes, AloneOrOwn DEF Alone, Idle
<1>4. /\ data[w] \in Seq(Byte) /\ prep \in Seq(Prepared) /\ value \in Seq(Byte)
  BY <1>1 DEF TypeOK
<1>5. ASSUME NEW res \in {"ok", "error"}, WriteDone(w, res)
      PROVE  IsPrefix(data[w], value')
  <2>1. /\ Answer("write", res) /\ reqs # <<>> /\ Head(reqs).op = "write"
        /\ Head(reqs).p = w /\ st'[w] = IF res = "ok" THEN "ok" ELSE Failure
    BY <1>1, <1>5 DEF WriteDone, Answer, TypeOK
  <2>2. res = "ok"
    BY <1>1, <2>1, FailureType
  <2>3. value' = Head(reqs).part
    BY <2>1, <2>2, AnswerDone
  <2>4. Head(reqs).part = data[w]
    BY <1>1, <2>1, HeadApply DEF WriteReqInv
  <2>5. PICK d \in Seq(Byte) : d = data[w] /\ d = value'
    BY <1>4, <2>3, <2>4
  <2>6. Len(d) \in 0..Len(d)
    OBVIOUS
  <2>7. IsPrefix(SubSeq(d, 1, Len(d)), d) /\ SubSeq(d, 1, Len(d)) = d
    BY <2>6, PrefixFacts
  <2> QED
    BY <2>5, <2>7
<1>6. ASSUME NEW op \in {"execute", "cancel"}, NEW res \in {"ok", "error"},
             ExecuteDone(w, op, res)
      PROVE  IsPrefix(data[w], value')
  <2>1. /\ Answer(op, res) /\ reqs # <<>> /\ Head(reqs).op = op
        /\ Head(reqs).p = w /\ op = "execute" /\ res = "ok" /\ up
    BY <1>1, <1>6 DEF ExecuteDone, Answer, TypeOK
  <2>2. Whole(prep, value) /\ value' = Apply(prep, value)
    BY <2>1, AnswerDone
  <2>3. Covered(prep, data[w], Len(data[w]))
    BY <1>1, <2>1, HeadApply DEF WriteReqInv
  <2> QED
    BY <1>4, <2>2, <2>3, ApplyCovered
<1>7. ASSUME NEW n \in WriteLens, WriteChar(w, n) \/ ReliableWriteChar(w, n) \/ WriteCmd(w, n)
      PROVE  FALSE
  BY <1>1, <1>7 DEF WriteChar, ReliableWriteChar, WriteCmd, TypeOK
<1>8. ASSUME NEW op \in {"execute", "cancel"}, ExecuteWrite(w, op) PROVE FALSE
  BY <1>1, <1>8 DEF ExecuteWrite, TypeOK
<1>9. ASSUME NEW res \in {"ok", "error"}, PrepareWriteCb(w, res) \/ ReliableDone(w, res)
      PROVE  FALSE
  <2>1. st'[w] \in {"run", "prepared", Failure}
    BY <1>1, <1>9 DEF PrepareWriteCb, ReliableDone, TypeOK
  <2> QED
    BY <1>1, <2>1, FailureType
<1> QED
  BY <1>3, <1>5, <1>6, <1>7, <1>8, <1>9 DEF OwnWrite

\* When a write is reported as a success the server's value begins with all
\* that was to be written, whatever MTU exchanges, reads, searches, earlier
\* failed writes went on around it, for any lengths
\* (prepare_write_cb).  Only a write that ran at the same time may spoil it.
THEOREM WriteCorrect == Spec => WriteApplied
<1>1. Spec => []QueueInv
  BY QueueCorrect
<1>2. QueueInv /\ QueueInv' /\ ApplyAll /\ [Next]_vars => ApplyAll'
  BY ApplyStep
<1>3. Spec => []ApplyAll
  BY <1>1, <1>2, ApplyInit, PTL DEF Spec
<1>4. QueueInv /\ ApplyAll /\ [Next]_vars => [Reported]_vars
  BY ReportedStep DEF ApplyAll
<1>5. Spec => [][Reported]_vars
  BY <1>1, <1>3, <1>4, PTL DEF Spec
<1> QED
  BY <1>5 DEF WriteApplied, Reported
=============================================================================
