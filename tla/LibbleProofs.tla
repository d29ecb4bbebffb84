---------------------------- MODULE LibbleProofs ----------------------------
(* The device handle agrees with itself, tells its state and breaks its     *)
(* link: for every number of connections, requests and nested calls, until  *)
(* the client has been rash (Libble!Rash).                                  *)
EXTENDS Libble, TLAPS

-----------------------------------------------------------------------------
(* The stack *)

Frames(s) == {s[j] : j \in 1..Len(s)}

Has(k) == \E f \in Frames(stack) : f.k = k

\* What may run together with what: nothing with the report of a failed
\* bt_io_get, only finished calls with the end of an attempt, and one
\* beginning of an attempt at a time.
Compat(f, g) ==
    /\ f.k # "mtu_failed"
    /\ f.k \in {"async_failed", "connected"} => g.k = "none"
    /\ f.k = "connect" => g.k # "connect"

Excl(s) == \A j, l \in 1..Len(s) : j # l => Compat(s[j], s[l])

-----------------------------------------------------------------------------
(* The invariant *)

\* A channel that was not created yet has nothing.
Fresh == \A i \in Io : i > nio =>
             /\ sk[i] = "none" /\ att[i] = "none"
             /\ i \notin held \cup cwatch \cup dwatch \cup ref

\* The handle has a GAttrib exactly when it is connected, on its channel, and
\* holds the only reference of this kind.
Handle ==
    /\ state = "CONNECTED" <=> attrib # NoIo
    /\ state = "CONNECTED" => attrib = ioch /\ att[attrib] \in {"live", "down"}
    /\ ref = {attrib} \ {NoIo}

\* One attempt is in flight at most, on the last channel, which is the handle's
\* and has no GAttrib until connect_cb is done with it.
Attempt ==
    cwatch # {} =>
        /\ cwatch = {nio}
        /\ ~Has("connected") =>
               /\ ioch = nio /\ att[nio] = "none" /\ state # "CONNECTED"
               /\ sk[nio] \in {"connecting", "up", "error", "lost"}

\* The functions that are inside a call of the event handler, and what they
\* rely on when it returns.
FrameOK(f) ==
    /\ f.k \in {"async_failed", "mtu_failed", "connected"} => cwatch = {f.io}
    /\ f.k = "mtu_failed" => state = "CONNECTING"
    /\ f.k = "connected" => /\ state # "CONNECTING" /\ told = state
                            /\ att[f.io] # "none" \/ f.io \notin held \cup dwatch
    /\ f.k = "connect" => cwatch = {} /\ nio < MaxConn
    /\ f.k \in {"connect", "sync_failed"} => state # "CONNECTED"
    /\ f.k \in {"request", "flush"} => f.io \in Io /\ att[f.io] # "none"

FramesOK == \A f \in Frames(stack) : FrameOK(f)

\* A function of the GAttrib on channel i is running.
Serving(i) == \E f \in Frames(stack) : f.k \in {"request", "flush"} /\ f.io = i

\* An open socket belongs to the attempt in flight, to the handle's GAttrib or
\* to one that a request still holds.
Links ==
    \A i \in Io :
        /\ i \in dwatch => att[i] # "none"
        /\ att[i] = "none" /\ Open(i) => i \in cwatch
        /\ att[i] = "freed" => sk[i] = "closed"
        /\ i \notin ref /\ att[i] # "none" /\ Open(i)
               => Keeps(pend[i]) \/ Serving(i)

\* The attempt has not come to its end.
Trying == cwatch # {} \/ Has("connect") \/ Has("sync_failed")

Tells == /\ state = "CONNECTING" => Trying
         /\ told = state \/ Trying

LInv == /\ TypeOK /\ Excl(stack) /\ Fresh /\ Handle /\ Attempt /\ FramesOK
        /\ Links /\ Tells

-----------------------------------------------------------------------------
(* Calls and returns *)

\* The empty stack.
LEMMA StackEmpty == <<>> \in Seq(Frame) /\ Excl(<<>>) /\ Frames(<<>>) = {}
  BY DEF Excl, Frames

\* A function calls the event handler, on top of others it goes with.
LEMMA StackPush ==
    ASSUME NEW s \in Seq(Frame), Excl(s), NEW f \in Frame,
           \A g \in Frames(s) : Compat(f, g) /\ Compat(g, f)
    PROVE  /\ <<f>> \o s \in Seq(Frame) /\ Excl(<<f>> \o s)
           /\ Frames(<<f>> \o s) = Frames(s) \cup {f}
<1> DEFINE t == <<f>> \o s
<1>1. /\ t \in Seq(Frame) /\ Len(t) = Len(s) + 1 /\ Len(s) \in Nat
      /\ t[1] = f /\ \A j \in 1..Len(s) : t[j + 1] = s[j]
  OBVIOUS
<1> HIDE DEF t
<1>2. \A l \in 1..Len(t) : l # 1 => l - 1 \in 1..Len(s) /\ t[l] = s[l - 1]
  <2> SUFFICES ASSUME NEW l \in 1..Len(t), l # 1
               PROVE  l - 1 \in 1..Len(s) /\ t[l] = s[l - 1]
    OBVIOUS
  <2>1. l - 1 \in 1..Len(s) /\ (l - 1) + 1 = l
    BY <1>1
  <2> QED
    BY <1>1, <2>1
<1>3. Frames(t) = Frames(s) \cup {f}
  <2>1. ASSUME NEW g \in Frames(t) PROVE g \in Frames(s) \cup {f}
    BY <1>1, <1>2 DEF Frames
  <2>2. ASSUME NEW g \in Frames(s) PROVE g \in Frames(t)
    <3>1. PICK j \in 1..Len(s) : g = s[j]
      BY DEF Frames
    <3>2. j + 1 \in 1..Len(t) /\ t[j + 1] = g
      BY <1>1, <3>1
    <3> QED
      BY <3>2 DEF Frames
  <2>3. f \in Frames(t)
    <3>1. 1 \in 1..Len(t)
      BY <1>1
    <3> QED
      BY <1>1, <3>1 DEF Frames
  <2> QED
    BY <2>1, <2>2, <2>3
<1>4. Excl(t)
  <2> SUFFICES ASSUME NEW j \in 1..Len(t), NEW l \in 1..Len(t), j # l
               PROVE  Compat(t[j], t[l])
    BY DEF Excl
  <2>1. CASE j = 1
    <3>1. t[l] \in Frames(s)
      BY <1>2, <2>1 DEF Frames
    <3> QED
      BY <1>1, <2>1, <3>1
  <2>2. CASE l = 1
    <3>1. t[j] \in Frames(s)
      BY <1>2, <2>2 DEF Frames
    <3> QED
      BY <1>1, <2>2, <3>1
  <2>3. CASE j # 1 /\ l # 1
    <3>1. j - 1 # l - 1
      BY <1>1
    <3> QED
      BY <1>2, <2>3, <3>1 DEF Excl
  <2> QED
    BY <2>1, <2>2, <2>3
<1> QED
  BY <1>1, <1>3, <1>4 DEF t

\* The innermost function returns.
LEMMA StackPop ==
    ASSUME NEW s \in Seq(Frame), Excl(s), s # <<>>
    PROVE  /\ Tail(s) \in Seq(Frame) /\ Excl(Tail(s)) /\ Head(s) \in Frame
           /\ Frames(s) = Frames(Tail(s)) \cup {Head(s)}
           /\ \A g \in Frames(Tail(s)) : /\ Compat(Head(s), g)
                                         /\ Compat(g, Head(s))
<1> DEFINE t == Tail(s)
<1>1. /\ t \in Seq(Frame) /\ Len(s) \in Nat /\ Len(s) > 0 /\ Len(t) = Len(s) - 1
      /\ Head(s) = s[1] /\ \A j \in 1..Len(t) : t[j] = s[j + 1]
  OBVIOUS
<1> HIDE DEF t
<1>2. 1 \in 1..Len(s) /\ \A j \in 1..Len(t) : j + 1 \in 1..Len(s) /\ j + 1 # 1
  BY <1>1
<1>3. Head(s) \in Frame
  BY <1>1, <1>2
<1>4. Frames(s) = Frames(t) \cup {Head(s)}
  <2>1. ASSUME NEW g \in Frames(s) PROVE g \in Frames(t) \cup {Head(s)}
    <3>1. PICK j \in 1..Len(s) : g = s[j]
      BY DEF Frames
    <3>2. CASE j = 1
      BY <1>1, <3>1, <3>2
    <3>3. CASE j # 1
      <4>1. j - 1 \in 1..Len(t) /\ (j - 1) + 1 = j
        BY <1>1, <3>3
      <4>2. t[j - 1] = g
        BY <1>1, <3>1, <4>1
      <4> QED
        BY <4>1, <4>2 DEF Frames
    <3> QED
      BY <3>2, <3>3
  <2>2. ASSUME NEW g \in Frames(t) PROVE g \in Frames(s)
    BY <1>1, <1>2 DEF Frames
  <2>3. Head(s) \in Frames(s)
    BY <1>1, <1>2 DEF Frames
  <2> QED
    BY <2>1, <2>2, <2>3
<1>5. Excl(t)
  <2> SUFFICES ASSUME NEW j \in 1..Len(t), NEW l \in 1..Len(t), j # l
               PROVE  Compat(t[j], t[l])
    BY DEF Excl
  <2>1. j + 1 # l + 1
    BY <1>1
  <2> QED
    BY <1>1, <1>2, <2>1 DEF Excl
<1>6. \A g \in Frames(t) : Compat(Head(s), g) /\ Compat(g, Head(s))
  BY <1>1, <1>2 DEF Frames, Excl
<1> QED
  BY <1>1, <1>3, <1>4, <1>5, <1>6 DEF t

\* What the code's tests of the stack say of its frames.
LEMMA StackTests ==
    ASSUME stack \in Seq(Frame)
    PROVE  /\ InFlight <=> cwatch # {} \/ Has("connect")
           /\ InGAttrib <=> Has("request") \/ Has("flush")
  BY DEF InFlight, InGAttrib, Has, Frames

\* A function is dispatched and calls the event handler.
LEMMA CallIdle ==
    ASSUME TypeOK, Idle, NEW k \in Cont, NEW i \in Io \cup {NoIo}, NEW e,
           Emit(<<>>, k, i, e)
    PROVE  /\ stack' \in Seq(Frame) /\ Excl(stack') /\ Frames(stack) = {}
           /\ Frames(stack') = {[k |-> k, io |-> i]}
           /\ told' = IF e \in State THEN e ELSE told
<1>1. [k |-> k, io |-> i] \in Frame
  BY DEF Frame
<1> QED
  BY <1>1, StackEmpty, StackPush DEF Emit, Idle

\* The client's call, from inside the event handler or not, calls it again.
LEMMA CallMore ==
    ASSUME TypeOK, Excl(stack), NEW k \in Cont, NEW i \in Io \cup {NoIo}, NEW e,
           Emit(stack, k, i, e),
           \A g \in Frames(stack) : /\ Compat([k |-> k, io |-> i], g)
                                    /\ Compat(g, [k |-> k, io |-> i])
    PROVE  /\ stack' \in Seq(Frame) /\ Excl(stack')
           /\ Frames(stack') = Frames(stack) \cup {[k |-> k, io |-> i]}
           /\ told' = IF e \in State THEN e ELSE told
<1>1. [k |-> k, io |-> i] \in Frame /\ stack \in Seq(Frame)
  BY DEF Frame, TypeOK
<1> QED
  BY <1>1, StackPush DEF Emit

\* The innermost function goes on, and calls the event handler again.
LEMMA CallAgain ==
    ASSUME TypeOK, Excl(stack), NEW k0, Inside(k0),
           NEW k \in Cont, NEW i \in Io \cup {NoIo}, NEW e,
           Emit(Tail(stack), k, i, e),
           \A g \in Frames(Tail(stack)) :
               Compat(Head(stack), g) /\ Compat(g, Head(stack))
                   => /\ Compat([k |-> k, io |-> i], g)
                      /\ Compat(g, [k |-> k, io |-> i])
    PROVE  /\ stack' \in Seq(Frame) /\ Excl(stack') /\ Head(stack).k = k0
           /\ Head(stack) \in Frame
           /\ Frames(stack) = Frames(Tail(stack)) \cup {Head(stack)}
           /\ Frames(stack') = Frames(Tail(stack)) \cup {[k |-> k, io |-> i]}
           /\ \A g \in Frames(Tail(stack)) : /\ Compat(Head(stack), g)
                                             /\ Compat(g, Head(stack))
           /\ told' = IF e \in State THEN e ELSE told
<1>1. [k |-> k, io |-> i] \in Frame /\ stack \in Seq(Frame)
  BY DEF Frame, TypeOK
<1>2. stack # <<>> /\ Head(stack).k = k0
  BY DEF Inside
<1>3. /\ Tail(stack) \in Seq(Frame) /\ Excl(Tail(stack)) /\ Head(stack) \in Frame
      /\ Frames(stack) = Frames(Tail(stack)) \cup {Head(stack)}
      /\ \A g \in Frames(Tail(stack)) : /\ Compat(Head(stack), g)
                                        /\ Compat(g, Head(stack))
  BY <1>1, <1>2, StackPop
<1> QED
  BY <1>1, <1>2, <1>3, StackPush DEF Emit

\* The innermost function ends.
LEMMA Ends ==
    ASSUME TypeOK, Excl(stack), NEW k, Inside(k), stack' = Tail(stack)
    PROVE  /\ stack' \in Seq(Frame) /\ Excl(stack') /\ Head(stack).k = k
           /\ Head(stack) \in Frame
           /\ Frames(stack) = Frames(stack') \cup {Head(stack)}
           /\ \A g \in Frames(stack') : /\ Compat(Head(stack), g)
                                        /\ Compat(g, Head(stack))
<1>1. stack \in Seq(Frame) /\ stack # <<>> /\ Head(stack).k = k
  BY DEF TypeOK, Inside
<1> QED
  BY <1>1, StackPop

\* The rest of a request, or of lble_disconnect, leaves a GAttrib with what
\* waits on it, or frees it and closes its socket.
LEMMA SettleFacts ==
    ASSUME TypeOK, NEW i \in Io, NEW p \in Seq(Kind), Settle(i, p)
    PROVE  /\ pend' \in [Io -> Seq(Kind)] /\ listen' \subseteq listen
           /\ att' \in [Io -> {"none", "live", "down", "freed"}]
           /\ sk' \in [Io -> SockState]
           /\ \A j \in Io : j # i => /\ pend'[j] = pend[j] /\ att'[j] = att[j]
                                     /\ sk'[j] = sk[j]
           /\ \/ att'[i] = "freed" /\ sk'[i] = "closed"
              \/ /\ i \in ref' \/ Keeps(p)
                 /\ pend'[i] = p /\ UNCHANGED <<att, sk, listen>>
<1>1. CASE i \notin ref' /\ ~Keeps(p)
  <2>1. <<>> \in Seq(Kind)
    OBVIOUS
  <2>2. /\ att' = [att EXCEPT ![i] = "freed"] /\ sk' = [sk EXCEPT ![i] = "closed"]
        /\ pend' = [pend EXCEPT ![i] = <<>>] /\ listen' = listen \ {i}
    BY <1>1 DEF Settle
  <2> QED
    BY <2>1, <2>2 DEF TypeOK, SockState
<1>2. CASE i \in ref' \/ Keeps(p)
  <2>1. pend' = [pend EXCEPT ![i] = p] /\ UNCHANGED <<att, sk, listen>>
    BY <1>2 DEF Settle
  <2> QED
    BY <1>2, <2>1 DEF TypeOK
<1> QED
  BY <1>1, <1>2

-----------------------------------------------------------------------------
(* Every step *)

\* Every call of the client, every return of the event handler, every watch
\* and every step of the kernel preserves the invariant.
LEMMA LInvStep ==
    ASSUME LInv, ~rash', Next
    PROVE  LInv'
<1> USE DEF dev, chan, watch, gattrib, Pop, Inside
<1>0. /\ LbleConnect => ~InFlight
      /\ LbleDisconnect => ~Inside("mtu_failed")
  BY DEF Next, Rash
<1>1. ASSUME LbleListen
      PROVE  LInv'
  <2>1. /\ UNCHANGED <<stack, told>>
        /\ Frames(stack') = Frames(stack)
        /\ stack' \in Seq(Frame) /\ Excl(stack')
    BY <1>1 DEF LbleListen, LInv, TypeOK
  <2>2. TypeOK'
    BY <1>1, <2>1 DEF LbleListen, LInv, TypeOK, State, SockState
  <2>3. Fresh'
    BY <1>1, <2>1 DEF LbleListen, LInv, Fresh, TypeOK, Io
  <2>4. Handle'
    BY <1>1, <2>1 DEF LbleListen, LInv, Handle, TypeOK
  <2>5. Attempt'
    BY <1>1, <2>1 DEF LbleListen, LInv, Attempt, Has, TypeOK
  <2>6. FramesOK'
    BY <1>1, <2>1 DEF LbleListen, LInv, FramesOK, FrameOK, TypeOK
  <2>7. Links'
    BY <1>1, <2>1 DEF LbleListen, LInv, Links, Open, Serving, TypeOK
  <2>8. Tells'
    BY <1>1, <2>1 DEF LbleListen, LInv, Tells, Trying, Has
  <2> QED
    BY <2>1, <2>2, <2>3, <2>4, <2>5, <2>6, <2>7, <2>8 DEF LInv
<1>2. ASSUME NEW kind \in Kinds, LbleRequest(kind)
      PROVE  LInv'
  <2>1. /\ UNCHANGED <<stack, told>>
        /\ Frames(stack') = Frames(stack)
        /\ stack' \in Seq(Frame) /\ Excl(stack')
    BY <1>2 DEF LbleRequest, LInv, TypeOK
  <2>2. TypeOK'
    <3>1. kind \in Kind
      BY LibbleAssumption DEF Kind
    <3> QED
      BY <1>2, <3>1, <2>1 DEF LbleRequest, LInv, TypeOK
  <2>3. Fresh'
    BY <1>2, <2>1 DEF LbleRequest, LInv, Fresh, TypeOK, Io
  <2>4. Handle'
    BY <1>2, <2>1 DEF LbleRequest, LInv, Handle, TypeOK
  <2>5. Attempt'
    BY <1>2, <2>1 DEF LbleRequest, LInv, Attempt, Has, TypeOK
  <2>6. FramesOK'
    BY <1>2, <2>1 DEF LbleRequest, LInv, FramesOK, FrameOK, TypeOK
  <2>7. Links'
    BY <1>2, <2>1 DEF LbleRequest, LInv, Links, Open, Serving, Attempt, Fresh,
         Handle, TypeOK
  <2>8. Tells'
    BY <1>2, <2>1 DEF LbleRequest, LInv, Tells, Trying, Has
  <2> QED
    BY <2>1, <2>2, <2>3, <2>4, <2>5, <2>6, <2>7, <2>8 DEF LInv
<1>3. ASSUME ReturnConnect
      PROVE  LInv'
  <2>1. /\ stack' \in Seq(Frame) /\ Excl(stack') /\ Head(stack).k = "connect"
        /\ Head(stack) \in Frame
        /\ Frames(stack) = Frames(stack') \cup {Head(stack)}
        /\ \A g \in Frames(stack') : /\ Compat(Head(stack), g)
                                     /\ Compat(g, Head(stack))
        /\ told' = told
    BY <1>3, Ends DEF ReturnConnect, LInv, Pop
  <2>2. FrameOK(Head(stack))
    BY <2>1 DEF LInv, FramesOK
  <2>3. PICK n \in Io : n = nio + 1
    BY <2>1, <2>2, LibbleAssumption DEF LInv, FrameOK, TypeOK, Io
  <2>4. /\ cwatch = {} /\ n > nio /\ state # "CONNECTED"
        /\ sk[n] = "none" /\ att[n] = "none" /\ n \notin dwatch \cup ref
    BY <2>1, <2>2, <2>3 DEF LInv, FrameOK, Fresh, TypeOK, Io
  <2>5. /\ nio' = n /\ ioch' = n /\ sk' = [sk EXCEPT ![n] = "connecting"]
        /\ held' = held \cup {n} /\ cwatch' = cwatch \cup {n}
        /\ UNCHANGED <<state, attrib, dwatch, att, ref, listen, pend, broken>>
    BY <1>3, <2>3 DEF ReturnConnect, gattrib
  <2>6. /\ nio' = n /\ ioch' = n /\ sk' = [sk EXCEPT ![n] = "connecting"]
        /\ held' = held \cup {n} /\ cwatch = {} /\ cwatch' = {n} /\ n > nio
        /\ state # "CONNECTED" /\ sk[n] = "none" /\ att[n] = "none"
        /\ n \notin dwatch \cup ref
        /\ UNCHANGED <<state, attrib, dwatch, gattrib>>
    BY <2>4, <2>5 DEF gattrib
  <2>7. TypeOK'
    BY <2>1, <2>6, <2>3, LibbleAssumption DEF LInv, TypeOK, SockState, Io
  <2>8. Fresh'
    BY <2>6, <2>3 DEF LInv, Fresh, TypeOK, Io
  <2>9. Handle'
    BY <2>6 DEF LInv, Handle
  <2>10. Attempt'
    BY <2>1, <2>6, <2>3 DEF LInv, Attempt, TypeOK
  <2>11. FramesOK'
    BY <2>1, <2>6 DEF LInv, FramesOK, FrameOK, Compat
  <2>12. Links'
    <3>1. \A i \in Io : i # n => sk'[i] = sk[i] /\ (Open(i)' <=> Open(i))
      BY <2>6 DEF LInv, TypeOK, Open
    <3>2. \A i \in Io : Serving(i) => Serving(i)'
      BY <2>1 DEF Serving
    <3>3. UNCHANGED <<att, ref, pend, dwatch>>
      BY <2>6 DEF gattrib
    <3> QED
      BY <2>6, <3>1, <3>2, <3>3 DEF LInv, Links
  <2>13. Tells'
    BY <2>6 DEF Tells, Trying
  <2> QED
    BY <2>1, <2>7, <2>8, <2>9, <2>10, <2>11, <2>12, <2>13 DEF LInv
<1>4. ASSUME ReturnConnectFails
      PROVE  LInv'
  <2>1. /\ stack' \in Seq(Frame) /\ Excl(stack') /\ Head(stack).k = "connect"
        /\ Head(stack) \in Frame
        /\ Frames(stack) = Frames(Tail(stack)) \cup {Head(stack)}
        /\ Frames(stack') = Frames(Tail(stack))
                    \cup {[k |-> "sync_failed", io |-> NoIo]}
        /\ \A g \in Frames(Tail(stack)) : /\ Compat(Head(stack), g)
                                          /\ Compat(g, Head(stack))
        /\ told' = told
    BY <1>4, CallAgain DEF ReturnConnectFails, LInv, Cont, State, Compat,
         Inside
  <2>2. FrameOK(Head(stack))
    BY <2>1 DEF LInv, FramesOK
  <2>3. Has("sync_failed")'
    <3>1. /\ [k |-> "sync_failed", io |-> NoIo] \in Frames(stack')
          /\ [k |-> "sync_failed", io |-> NoIo].k = "sync_failed"
      BY <2>1
    <3> QED
      BY <3>1 DEF Has
  <2>4. state # "CONNECTED"
    BY <2>1, <2>2 DEF FrameOK
  <2>5. TypeOK'
    BY <1>4, <2>1, <2>2, <2>3, <2>4 DEF ReturnConnectFails, LInv, TypeOK,
         State, SockState
  <2>6. Fresh'
    BY <1>4, <2>1, <2>2, <2>3, <2>4 DEF ReturnConnectFails, LInv, Fresh,
         TypeOK, Io
  <2>7. Handle'
    BY <1>4, <2>4 DEF ReturnConnectFails, LInv, Handle
  <2>8. Attempt'
    BY <1>4, <2>1, <2>2, <2>3, <2>4 DEF ReturnConnectFails, LInv, Attempt,
         Has, FramesOK, FrameOK, Handle, Fresh, TypeOK
  <2>9. FramesOK'
    BY <1>4, <2>1, <2>2, <2>3, <2>4 DEF ReturnConnectFails, LInv, FramesOK,
         FrameOK, TypeOK
  <2>10. Links'
    BY <1>4, <2>1, <2>2, <2>3, <2>4 DEF ReturnConnectFails, LInv, Links, Open,
         Serving, TypeOK
  <2>11. Tells'
    BY <1>4, <2>1, <2>3 DEF ReturnConnectFails, LInv, Tells, Trying
  <2> QED
    BY <2>1, <2>5, <2>6, <2>7, <2>8, <2>9, <2>10, <2>11 DEF LInv
<1>5. ASSUME ReturnSyncFailed
      PROVE  LInv'
  <2>1. /\ stack' \in Seq(Frame) /\ Excl(stack') /\ Head(stack).k = "sync_failed"
        /\ Head(stack) \in Frame
        /\ Frames(stack) = Frames(Tail(stack)) \cup {Head(stack)}
        /\ Frames(stack') = Frames(Tail(stack))
                    \cup {[k |-> "none", io |-> NoIo]}
        /\ \A g \in Frames(Tail(stack)) : /\ Compat(Head(stack), g)
                                          /\ Compat(g, Head(stack))
        /\ told' = "DISCONNECTED"
    BY <1>5, CallAgain DEF ReturnSyncFailed, LInv, Cont, State, Compat, Inside
  <2>2. FrameOK(Head(stack))
    BY <2>1 DEF LInv, FramesOK
  <2>3. state # "CONNECTED"
    BY <2>1, <2>2 DEF FrameOK
  <2>4. TypeOK'
    BY <1>5, <2>1, <2>2, <2>3 DEF ReturnSyncFailed, LInv, TypeOK, State,
         SockState
  <2>5. Fresh'
    BY <1>5, <2>1, <2>2, <2>3 DEF ReturnSyncFailed, LInv, Fresh, TypeOK, Io
  <2>6. Handle'
    BY <1>5, <2>3 DEF ReturnSyncFailed, LInv, Handle
  <2>7. Attempt'
    BY <1>5, <2>1, <2>2, <2>3 DEF ReturnSyncFailed, LInv, Attempt, Has, TypeOK
  <2>8. FramesOK'
    BY <1>5, <2>1, <2>2, <2>3 DEF ReturnSyncFailed, LInv, FramesOK, FrameOK,
         Attempt, Handle, Has, Compat, TypeOK
  <2>9. Links'
    BY <1>5, <2>1, <2>2, <2>3 DEF ReturnSyncFailed, LInv, Links, Open,
         Serving, TypeOK
  <2>10. Tells'
    BY <1>5, <2>1, <2>2, <2>3 DEF ReturnSyncFailed, LInv, Tells, Trying, Has
  <2> QED
    BY <2>1, <2>4, <2>5, <2>6, <2>7, <2>8, <2>9, <2>10 DEF LInv
<1>6. ASSUME ReturnAsyncFailed
      PROVE  LInv'
  <2>1. Head(stack).io \in Io \cup {NoIo}
    BY <1>6, StackPop DEF ReturnAsyncFailed, LInv, TypeOK, Frame
  <2>2. /\ stack' \in Seq(Frame) /\ Excl(stack') /\ Head(stack).k = "async_failed"
        /\ Head(stack) \in Frame
        /\ Frames(stack) = Frames(Tail(stack)) \cup {Head(stack)}
        /\ Frames(stack') = Frames(Tail(stack))
                    \cup {[k |-> "connected", io |-> Head(stack).io]}
        /\ \A g \in Frames(Tail(stack)) : /\ Compat(Head(stack), g)
                                          /\ Compat(g, Head(stack))
        /\ told' = "DISCONNECTED"
    BY <1>6, <2>1, CallAgain DEF ReturnAsyncFailed, LInv, Cont, State, Compat,
         Inside
  <2>3. FrameOK(Head(stack))
    BY <2>2 DEF LInv, FramesOK
  <2>4. PICK n \in Io : n = nio /\ n = Head(stack).io /\ cwatch = {n}
    BY <2>2, <2>3 DEF LInv, FrameOK, Attempt, TypeOK
  <2>5. ~Has("connected")
    BY <2>2 DEF Has, Compat
  <2>6. /\ ioch = n /\ att[n] = "none" /\ state # "CONNECTED" /\ attrib = NoIo
        /\ ref = {} /\ n \notin dwatch /\ n # NoIo
        /\ sk[n] \in {"connecting", "up", "error", "lost"}
    BY <2>4, <2>5 DEF LInv, Attempt, Handle, Links, Io, NoIo
  <2>7. Has("connected")'
    <3>1. /\ [k |-> "connected", io |-> Head(stack).io] \in Frames(stack')
          /\ [k |-> "connected", io |-> Head(stack).io].k = "connected"
      BY <2>2
    <3> QED
      BY <3>1 DEF Has
  <2>8. /\ state' = "DISCONNECTED" /\ ioch' = NoIo /\ held' = held \ {n} /\ n = nio
        /\ cwatch' = {n} /\ Has("connected")' /\ told' = "DISCONNECTED"
        /\ UNCHANGED <<attrib, nio, sk, watch, gattrib>>
    BY <1>6, <2>2, <2>4, <2>6, <2>7 DEF ReturnAsyncFailed, watch
  <2>9. TypeOK'
    BY <2>2, <2>8 DEF LInv, TypeOK, State, NoIo
  <2>10. Fresh'
    BY <2>8 DEF LInv, Fresh
  <2>11. Handle'
    BY <2>8, <2>6 DEF LInv, Handle
  <2>12. Attempt'
    BY <2>8 DEF Attempt
  <2>13. FramesOK'
    BY <2>2, <2>8, <2>6, <2>4 DEF LInv, FramesOK, FrameOK, Compat
  <2>14. Links'
    BY <2>2, <2>8 DEF LInv, Links, Open, Serving
  <2>15. Tells'
    BY <2>8 DEF Tells
  <2> QED
    BY <2>2, <2>9, <2>10, <2>11, <2>12, <2>13, <2>14, <2>15 DEF LInv
<1>7. ASSUME ReturnMtuFailed
      PROVE  LInv'
  <2>1. Head(stack).io \in Io \cup {NoIo}
    BY <1>7, StackPop DEF ReturnMtuFailed, LInv, TypeOK, Frame
  <2>2. /\ stack' \in Seq(Frame) /\ Excl(stack') /\ Head(stack).k = "mtu_failed"
        /\ Head(stack) \in Frame
        /\ Frames(stack) = Frames(Tail(stack)) \cup {Head(stack)}
        /\ Frames(stack') = Frames(Tail(stack))
                    \cup {[k |-> "connected", io |-> Head(stack).io]}
        /\ \A g \in Frames(Tail(stack)) : /\ Compat(Head(stack), g)
                                          /\ Compat(g, Head(stack))
        /\ told' = "CONNECTED"
    BY <1>7, <2>1, CallAgain DEF ReturnMtuFailed, Established, LInv, Cont,
         State, Compat, Inside
  <2>3. FrameOK(Head(stack))
    BY <2>2 DEF LInv, FramesOK
  <2>4. PICK n \in Io : n = nio /\ n = Head(stack).io /\ cwatch = {n}
    BY <2>2, <2>3 DEF LInv, FrameOK, Attempt, TypeOK
  <2>5. ~Has("connected")
    BY <2>2 DEF Has, Compat
  <2>6. /\ ioch = n /\ att[n] = "none" /\ state # "CONNECTED" /\ attrib = NoIo
        /\ ref = {} /\ n \notin dwatch /\ n # NoIo
        /\ sk[n] \in {"connecting", "up", "error", "lost"}
    BY <2>4, <2>5 DEF LInv, Attempt, Handle, Links, Io, NoIo
  <2>7. Has("connected")'
    <3>1. /\ [k |-> "connected", io |-> Head(stack).io] \in Frames(stack')
          /\ [k |-> "connected", io |-> Head(stack).io].k = "connected"
      BY <2>2
    <3> QED
      BY <3>1 DEF Has
  <2>8. /\ state' = "CONNECTED" /\ dwatch' = dwatch \cup {n} /\ n = nio
        /\ att' = [att EXCEPT ![n] = "live"] /\ ref' = {n} /\ attrib' = n
        /\ cwatch' = {n} /\ Has("connected")' /\ told' = "CONNECTED" /\ ioch' = n
        /\ UNCHANGED <<nio, sk, held, cwatch, listen, pend>>
    BY <1>7, <2>2, <2>4, <2>6, <2>7 DEF ReturnMtuFailed, Established, watch
  <2>9. Frames(Tail(stack)) = {}
    BY <2>2 DEF Compat
  <2>10. TypeOK'
    BY <2>2, <2>8, <2>4 DEF LInv, TypeOK, State
  <2>11. Fresh'
    BY <2>8, <2>4 DEF LInv, Fresh, TypeOK, Io
  <2>12. Handle'
    BY <2>8, <2>6, <2>4 DEF LInv, Handle, TypeOK
  <2>13. Attempt'
    BY <2>8 DEF Attempt
  <2>14. FramesOK'
    BY <2>2, <2>8, <2>9, <2>4 DEF LInv, FramesOK, FrameOK, TypeOK
  <2>15. Links'
    BY <2>2, <2>8, <2>9, <2>6 DEF LInv, Links, Open, Serving, TypeOK
  <2>16. Tells'
    BY <2>8 DEF Tells
  <2> QED
    BY <2>2, <2>10, <2>11, <2>12, <2>13, <2>14, <2>15, <2>16 DEF LInv
<1>8. ASSUME ReturnConnected
      PROVE  LInv'
  <2>1. /\ stack' \in Seq(Frame) /\ Excl(stack') /\ Head(stack).k = "connected"
        /\ Head(stack) \in Frame
        /\ Frames(stack) = Frames(stack') \cup {Head(stack)}
        /\ \A g \in Frames(stack') : /\ Compat(Head(stack), g)
                                     /\ Compat(g, Head(stack))
        /\ told' = told
    BY <1>8, Ends DEF ReturnConnected, CloseUnreferenced, LInv, Pop
  <2>2. FrameOK(Head(stack))
    BY <2>1 DEF LInv, FramesOK
  <2>3. PICK n \in Io : n = Head(stack).io /\ cwatch = {n}
    BY <2>1, <2>2 DEF LInv, FrameOK, Attempt, TypeOK
  <2>4. /\ cwatch' = {} /\ UNCHANGED <<dev, nio, held, dwatch, gattrib>>
        /\ \A i \in Io : sk'[i] \in {sk[i], "closed"}
        /\ att[n] = "none" => ~Open(n)'
    BY <1>8, <2>1, <2>2, <2>3 DEF ReturnConnected, CloseUnreferenced, FrameOK,
         Open
  <2>5. TypeOK'
    BY <1>8, <2>1, <2>2, <2>3, <2>4 DEF ReturnConnected, CloseUnreferenced,
         LInv, TypeOK, State, SockState
  <2>6. Fresh'
    BY <1>8, <2>1, <2>2, <2>3, <2>4 DEF ReturnConnected, CloseUnreferenced,
         LInv, Fresh, TypeOK, Io
  <2>7. Handle'
    BY <1>8, <2>1, <2>2, <2>3, <2>4 DEF ReturnConnected, CloseUnreferenced,
         LInv, Handle, TypeOK
  <2>8. Attempt'
    BY <1>8, <2>1, <2>2, <2>3, <2>4 DEF ReturnConnected, CloseUnreferenced,
         LInv, Attempt, Has, TypeOK
  <2>9. FramesOK'
    BY <1>8, <2>1, <2>2, <2>3, <2>4 DEF ReturnConnected, CloseUnreferenced,
         LInv, FramesOK, FrameOK, Attempt, Handle, Has, Compat, TypeOK
  <2>10. Links'
    <3>1. \A i \in Io : (Open(i)' => Open(i)) /\ (sk[i] = "closed" => sk'[i] = "closed")
      BY <2>4 DEF Open
    <3>2. \A i \in Io : Serving(i) => Serving(i)'
      BY <2>1 DEF Serving
    <3>3. UNCHANGED <<att, ref, pend, dwatch>>
      BY <2>4 DEF gattrib
    <3> QED
      BY <2>3, <2>4, <3>1, <3>2, <3>3 DEF LInv, Links
  <2>11. Tells'
    BY <1>8, <2>1, <2>2, <2>3, <2>4 DEF ReturnConnected, CloseUnreferenced,
         LInv, Tells, Trying, Has, FramesOK, FrameOK, Compat
  <2> QED
    BY <2>1, <2>5, <2>6, <2>7, <2>8, <2>9, <2>10, <2>11 DEF LInv
<1>9. ASSUME ReturnWatcher
      PROVE  LInv'
  <2>1. /\ stack' \in Seq(Frame) /\ Excl(stack') /\ Head(stack).k = "watcher"
        /\ Head(stack) \in Frame
        /\ Frames(stack) = Frames(stack') \cup {Head(stack)}
        /\ \A g \in Frames(stack') : /\ Compat(Head(stack), g)
                                     /\ Compat(g, Head(stack))
        /\ told' = told
    BY <1>9, Ends DEF ReturnWatcher, CloseUnreferenced, LInv, Pop
  <2>2. TypeOK'
    BY <1>9, <2>1 DEF ReturnWatcher, CloseUnreferenced, LInv, TypeOK, State,
         SockState
  <2>3. Fresh'
    BY <1>9, <2>1 DEF ReturnWatcher, CloseUnreferenced, LInv, Fresh, TypeOK, Io
  <2>4. Handle'
    BY <1>9, <2>1 DEF ReturnWatcher, CloseUnreferenced, LInv, Handle, TypeOK
  <2>5. Attempt'
    BY <1>9, <2>1 DEF ReturnWatcher, CloseUnreferenced, LInv, Attempt, Has,
         TypeOK
  <2>6. FramesOK'
    BY <1>9, <2>1 DEF ReturnWatcher, CloseUnreferenced, LInv, FramesOK,
         FrameOK, TypeOK
  <2>7. Links'
    BY <1>9, <2>1 DEF ReturnWatcher, CloseUnreferenced, LInv, Links, Open,
         Serving, TypeOK
  <2>8. Tells'
    BY <1>9, <2>1 DEF ReturnWatcher, CloseUnreferenced, LInv, Tells, Trying,
         Has
  <2> QED
    BY <2>1, <2>2, <2>3, <2>4, <2>5, <2>6, <2>7, <2>8 DEF LInv
<1>10. ASSUME ReturnRequest
      PROVE  LInv'
  <2>1. /\ stack' \in Seq(Frame) /\ Excl(stack') /\ Head(stack).k = "request"
        /\ Head(stack) \in Frame
        /\ Frames(stack) = Frames(stack') \cup {Head(stack)}
        /\ \A g \in Frames(stack') : /\ Compat(Head(stack), g)
                                     /\ Compat(g, Head(stack))
        /\ told' = told
    BY <1>10, Ends DEF ReturnRequest, Settle, LInv, Pop
  <2>2. FrameOK(Head(stack))
    BY <2>1 DEF LInv, FramesOK
  <2>3. PICK i \in Io : i = Head(stack).io /\ att[i] # "none"
    BY <2>1, <2>2 DEF FrameOK
  <2>4. /\ Settle(i, pend[i]) /\ i \in Io /\ i <= nio /\ att[i] # "none"
        /\ UNCHANGED <<dev, nio, held, watch, ref>>
    BY <1>10, <2>1, <2>3 DEF ReturnRequest, LInv, Fresh, TypeOK, Io
  <2>5. TypeOK'
    BY <2>1, <2>4 DEF Settle, LInv, TypeOK, SockState
  <2>6. Fresh'
    BY <2>4 DEF Settle, LInv, Fresh, TypeOK, Io
  <2>7. Handle'
    BY <1>10, <2>1, <2>2, <2>3, <2>4 DEF ReturnRequest, Settle, LInv, Handle,
         TypeOK
  <2>8. Attempt'
    BY <1>10, <2>1, <2>2, <2>3, <2>4 DEF ReturnRequest, Settle, LInv, Attempt,
         Has, TypeOK
  <2>9. FramesOK'
    BY <1>10, <2>1, <2>2, <2>3, <2>4 DEF ReturnRequest, Settle, LInv,
         FramesOK, FrameOK, TypeOK
  <2>10. Links'
    BY <1>10, <2>1, <2>2, <2>3, <2>4 DEF ReturnRequest, Settle, LInv, Links,
         Open, Serving, TypeOK
  <2>11. Tells'
    BY <1>10, <2>1, <2>2, <2>3, <2>4 DEF ReturnRequest, Settle, LInv, Tells,
         Trying, Has
  <2> QED
    BY <2>1, <2>5, <2>6, <2>7, <2>8, <2>9, <2>10, <2>11 DEF LInv
<1>11. ASSUME ReturnNone
      PROVE  LInv'
  <2>1. /\ stack' \in Seq(Frame) /\ Excl(stack') /\ Head(stack).k = "none"
        /\ Head(stack) \in Frame
        /\ Frames(stack) = Frames(stack') \cup {Head(stack)}
        /\ \A g \in Frames(stack') : /\ Compat(Head(stack), g)
                                     /\ Compat(g, Head(stack))
        /\ told' = told
    BY <1>11, Ends DEF ReturnNone, LInv, Pop
  <2>2. TypeOK'
    BY <1>11, <2>1 DEF ReturnNone, LInv, TypeOK, State, SockState
  <2>3. Fresh'
    BY <1>11, <2>1 DEF ReturnNone, LInv, Fresh, TypeOK, Io
  <2>4. Handle'
    BY <1>11, <2>1 DEF ReturnNone, LInv, Handle, TypeOK
  <2>5. Attempt'
    BY <1>11, <2>1 DEF ReturnNone, LInv, Attempt, Has, TypeOK
  <2>6. FramesOK'
    BY <1>11, <2>1 DEF ReturnNone, LInv, FramesOK, FrameOK, TypeOK
  <2>7. Links'
    BY <1>11, <2>1 DEF ReturnNone, LInv, Links, Open, Serving, TypeOK
  <2>8. Tells'
    BY <1>11, <2>1 DEF ReturnNone, LInv, Tells, Trying, Has
  <2> QED
    BY <2>1, <2>2, <2>3, <2>4, <2>5, <2>6, <2>7, <2>8 DEF LInv
<1>12. ASSUME NEW i \in Io, ConnectAborted(i)
      PROVE  LInv'
  <2>1. /\ UNCHANGED <<stack, told>>
        /\ Frames(stack') = Frames(stack)
        /\ stack' \in Seq(Frame) /\ Excl(stack')
    BY <1>12 DEF ConnectAborted, LInv, TypeOK
  <2>2. Frames(stack) = {}
    BY <1>12, StackEmpty DEF ConnectAborted, Idle
  <2>3. /\ i = nio /\ cwatch = {i} /\ ioch = i /\ att[i] = "none" /\ attrib = NoIo
        /\ state # "CONNECTED" /\ ref = {} /\ i \notin dwatch
        /\ sk[i] \in {"connecting", "up", "error", "lost"}
    BY <1>12, <2>1, <2>2 DEF ConnectAborted, LInv, Attempt, Handle, Links,
         Has, NoIo, Io
  <2>4. FALSE
    BY <1>12, <2>3 DEF ConnectAborted
  <2>5. TypeOK'
    BY <1>12, <2>1, <2>2, <2>3, <2>4 DEF ConnectAborted, LInv, TypeOK, State,
         SockState
  <2>6. Fresh'
    BY <1>12, <2>1, <2>2, <2>3, <2>4 DEF ConnectAborted, LInv, Fresh, TypeOK,
         Io
  <2>7. Handle'
    BY <1>12, <2>1, <2>2, <2>3, <2>4 DEF ConnectAborted, LInv, Handle, TypeOK
  <2>8. Attempt'
    BY <1>12, <2>1, <2>2, <2>3, <2>4 DEF ConnectAborted, LInv, Attempt, Has,
         TypeOK
  <2>9. FramesOK'
    BY <2>4
  <2>10. Links'
    BY <1>12, <2>1, <2>2, <2>3, <2>4 DEF ConnectAborted, LInv, Links, Open,
         Serving, TypeOK
  <2>11. Tells'
    BY <2>4
  <2> QED
    BY <2>1, <2>5, <2>6, <2>7, <2>8, <2>9, <2>10, <2>11 DEF LInv
<1>13. ASSUME NEW i \in Io, ConnectFailed(i)
      PROVE  LInv'
  <2>1. /\ stack' \in Seq(Frame) /\ Excl(stack') /\ Frames(stack) = {}
        /\ Frames(stack') = {[k |-> "async_failed", io |-> i]}
        /\ told' = told
    BY <1>13, CallIdle DEF ConnectFailed, LInv, Cont, State
  <2>2. TypeOK'
    BY <1>13, <2>1 DEF ConnectFailed, LInv, TypeOK, State, SockState
  <2>3. Fresh'
    BY <1>13, <2>1 DEF ConnectFailed, LInv, Fresh, TypeOK, Io
  <2>4. Handle'
    BY <1>13, <2>1 DEF ConnectFailed, LInv, Handle, TypeOK
  <2>5. Attempt'
    BY <1>13, <2>1 DEF ConnectFailed, LInv, Attempt, Has, TypeOK
  <2>6. FramesOK'
    BY <1>13, <2>1 DEF ConnectFailed, LInv, FramesOK, FrameOK, Attempt,
         Handle, Has, Compat, TypeOK
  <2>7. Links'
    BY <1>13, <2>1 DEF ConnectFailed, LInv, Links, Open, Serving, TypeOK
  <2>8. Tells'
    BY <1>13, <2>1 DEF ConnectFailed, LInv, Tells, Trying, Has
  <2> QED
    BY <2>1, <2>2, <2>3, <2>4, <2>5, <2>6, <2>7, <2>8 DEF LInv
<1>14. ASSUME NEW i \in Io, ConnectUnwanted(i)
      PROVE  LInv'
  <2>1. /\ stack' \in Seq(Frame) /\ Excl(stack') /\ Frames(stack) = {}
        /\ Frames(stack') = {[k |-> "connected", io |-> i]}
        /\ told' = "DISCONNECTED"
    BY <1>14, CallIdle DEF ConnectUnwanted, LInv, Cont, State
  <2>2. Frames(stack) = {}
    BY <2>1
  <2>3. /\ i = nio /\ cwatch = {i} /\ ioch = i /\ att[i] = "none" /\ attrib = NoIo
        /\ state # "CONNECTED" /\ ref = {} /\ i \notin dwatch
        /\ sk[i] \in {"connecting", "up", "error", "lost"}
    BY <1>14, <2>1, <2>2 DEF ConnectUnwanted, LInv, Attempt, Handle, Links,
         Has, NoIo, Io
  <2>4. /\ state = "DISCONNECTED" /\ held' = held \ {i} /\ sk' = [sk EXCEPT ![i] = "closed"]
        /\ ioch' = NoIo /\ UNCHANGED <<state, attrib, nio, watch, gattrib>>
    BY <1>14, <2>3 DEF ConnectUnwanted, Io, NoIo
  <2>5. TypeOK'
    BY <1>14, <2>1, <2>2, <2>3, <2>4 DEF ConnectUnwanted, LInv, TypeOK, State,
         SockState
  <2>6. Fresh'
    BY <2>4, <2>3 DEF LInv, Fresh, TypeOK, Io
  <2>7. Handle'
    BY <1>14, <2>1, <2>2, <2>3, <2>4 DEF ConnectUnwanted, LInv, Handle, TypeOK
  <2>8. Attempt'
    BY <1>14, <2>1, <2>2, <2>3, <2>4 DEF ConnectUnwanted, LInv, Attempt, Has,
         TypeOK
  <2>9. FramesOK'
    BY <2>1, <2>4, <2>3 DEF LInv, FramesOK, FrameOK
  <2>10. Links'
    BY <1>14, <2>1, <2>2, <2>3, <2>4 DEF ConnectUnwanted, LInv, Links, Open,
         Serving, TypeOK
  <2>11. Tells'
    BY <1>14, <2>1, <2>2, <2>3, <2>4 DEF ConnectUnwanted, LInv, Tells, Trying,
         Has
  <2> QED
    BY <2>1, <2>5, <2>6, <2>7, <2>8, <2>9, <2>10, <2>11 DEF LInv
<1>15. ASSUME NEW i \in Io, Connected(i)
      PROVE  LInv'
  <2>1. /\ stack' \in Seq(Frame) /\ Excl(stack') /\ Frames(stack) = {}
        /\ Frames(stack') = {[k |-> "connected", io |-> i]}
        /\ told' = "CONNECTED"
    BY <1>15, CallIdle DEF Connected, Established, LInv, Cont, State
  <2>2. Frames(stack) = {}
    BY <2>1
  <2>3. /\ i = nio /\ cwatch = {i} /\ ioch = i /\ att[i] = "none" /\ attrib = NoIo
        /\ state # "CONNECTED" /\ ref = {} /\ i \notin dwatch
        /\ sk[i] \in {"connecting", "up", "error", "lost"}
    BY <1>15, <2>1, <2>2 DEF Connected, LInv, Attempt, Handle, Links, Has,
         NoIo, Io
  <2>4. /\ state' = "CONNECTED" /\ dwatch' = dwatch \cup {i} /\ ref' = {i} /\ attrib' = i
        /\ att' = [att EXCEPT ![i] = "live"] /\ i # NoIo
        /\ UNCHANGED <<ioch, chan, cwatch, listen, pend>>
    BY <1>15, <2>3 DEF Connected, Established, Io, NoIo
  <2>5. TypeOK'
    BY <2>1, <2>4 DEF LInv, TypeOK, State
  <2>6. Fresh'
    BY <2>4, <2>3 DEF LInv, Fresh, TypeOK, Io
  <2>7. Handle'
    BY <2>4, <2>3 DEF LInv, Handle, TypeOK
  <2>8. Attempt'
    BY <1>15, <2>1, <2>2, <2>3, <2>4 DEF Connected, Established, LInv,
         Attempt, Has, TypeOK
  <2>9. FramesOK'
    BY <2>1, <2>4, <2>3 DEF LInv, FramesOK, FrameOK, TypeOK
  <2>10. Links'
    BY <2>1, <2>4, <2>3 DEF LInv, Links, Open, Serving, TypeOK
  <2>11. Tells'
    BY <1>15, <2>1, <2>2, <2>3, <2>4 DEF Connected, Established, LInv, Tells,
         Trying, Has
  <2> QED
    BY <2>1, <2>5, <2>6, <2>7, <2>8, <2>9, <2>10, <2>11 DEF LInv
<1>16. ASSUME NEW i \in Io, ConnectedNoMtu(i)
      PROVE  LInv'
  <2>1. /\ stack' \in Seq(Frame) /\ Excl(stack') /\ Frames(stack) = {}
        /\ Frames(stack') = {[k |-> "mtu_failed", io |-> i]}
        /\ told' = told
    BY <1>16, CallIdle DEF ConnectedNoMtu, LInv, Cont, State
  <2>2. Frames(stack) = {}
    BY <2>1
  <2>3. /\ i = nio /\ cwatch = {i} /\ ioch = i /\ att[i] = "none" /\ attrib = NoIo
        /\ state # "CONNECTED" /\ ref = {} /\ i \notin dwatch
        /\ sk[i] \in {"connecting", "up", "error", "lost"}
    BY <1>16, <2>1, <2>2 DEF ConnectedNoMtu, LInv, Attempt, Handle, Links,
         Has, NoIo, Io
  <2>4. TypeOK'
    BY <1>16, <2>1, <2>2, <2>3 DEF ConnectedNoMtu, LInv, TypeOK, State,
         SockState
  <2>5. Fresh'
    BY <1>16, <2>1, <2>2, <2>3 DEF ConnectedNoMtu, LInv, Fresh, TypeOK, Io
  <2>6. Handle'
    BY <1>16, <2>1, <2>2, <2>3 DEF ConnectedNoMtu, LInv, Handle, TypeOK
  <2>7. Attempt'
    BY <1>16, <2>1, <2>2, <2>3 DEF ConnectedNoMtu, LInv, Attempt, Has, TypeOK
  <2>8. FramesOK'
    <3>1. state = "CONNECTING"
      BY <1>16, <2>3 DEF ConnectedNoMtu, LInv, TypeOK, State
    <3> QED
      BY <1>16, <3>1, <2>1, <2>3 DEF ConnectedNoMtu, FramesOK, FrameOK
  <2>9. Links'
    BY <1>16, <2>1, <2>2, <2>3 DEF ConnectedNoMtu, LInv, Links, Open, Serving,
         TypeOK
  <2>10. Tells'
    BY <1>16, <2>1, <2>2, <2>3 DEF ConnectedNoMtu, LInv, Tells, Trying, Has
  <2> QED
    BY <2>1, <2>4, <2>5, <2>6, <2>7, <2>8, <2>9, <2>10 DEF LInv
<1>17. ASSUME NEW i \in Io, WatcherDrops(i)
      PROVE  LInv'
  <2>1. /\ stack' \in Seq(Frame) /\ Excl(stack') /\ Frames(stack) = {}
        /\ Frames(stack') = {[k |-> "watcher", io |-> i]}
        /\ told' = "DISCONNECTED"
    BY <1>17, CallIdle DEF WatcherDrops, DropLink, Settle, LInv, Cont, State
  <2>2. PICK a \in Io : a = attrib /\ a # NoIo /\ ref = {a} /\ ioch = a
    BY <1>17 DEF WatcherDrops, DropLink, LInv, Handle, TypeOK
  <2>3. /\ state = "CONNECTED" /\ state' = "DISCONNECTED" /\ ref' = {} /\ attrib' = NoIo
        /\ ioch' = NoIo /\ Settle(a, pend[a]) /\ UNCHANGED <<nio, held, watch>>
        /\ a <= nio /\ att[a] \in {"live", "down"}
    BY <1>17, <2>2 DEF WatcherDrops, DropLink, LInv, Handle, Fresh, TypeOK, Io
  <2>4. /\ pend' \in [Io -> Seq(Kind)] /\ listen' \subseteq listen
        /\ att' \in [Io -> {"none", "live", "down", "freed"}]
        /\ sk' \in [Io -> SockState]
        /\ \A j \in Io : j # a => /\ pend'[j] = pend[j] /\ att'[j] = att[j]
                                  /\ sk'[j] = sk[j]
        /\ \/ att'[a] = "freed" /\ sk'[a] = "closed"
           \/ /\ Keeps(pend[a]) /\ pend'[a] = pend[a]
              /\ UNCHANGED <<att, sk, listen>>
    BY <2>3, <2>2, SettleFacts DEF LInv, TypeOK
  <2>5. TypeOK'
    BY <2>1, <2>3, <2>4 DEF LInv, TypeOK, State, NoIo
  <2>6. Fresh'
    BY <2>3, <2>4 DEF LInv, Fresh, TypeOK, Io
  <2>7. Handle'
    BY <2>3 DEF Handle
  <2>8. Attempt'
    BY <2>1, <2>3 DEF LInv, Attempt, Has
  <2>9. FramesOK'
    BY <2>1, <2>3, <2>4 DEF LInv, FramesOK, FrameOK, TypeOK
  <2>10. Links'
    BY <2>1, <2>3, <2>4, <2>2 DEF LInv, Links, Open, Serving, TypeOK
  <2>11. Tells'
    BY <2>1, <2>3 DEF Tells
  <2> QED
    BY <2>1, <2>5, <2>6, <2>7, <2>8, <2>9, <2>10, <2>11 DEF LInv
<1>18. ASSUME NEW i \in Io, WatcherSilent(i)
      PROVE  LInv'
  <2>1. /\ UNCHANGED <<stack, told>>
        /\ Frames(stack') = Frames(stack)
        /\ stack' \in Seq(Frame) /\ Excl(stack')
    BY <1>18 DEF WatcherSilent, GiveUp, CloseUnreferenced, LInv, TypeOK
  <2>2. Frames(stack) = {}
    BY <1>18, StackEmpty DEF WatcherSilent, Idle
  <2>3. TypeOK'
    BY <1>18, <2>1, <2>2 DEF WatcherSilent, GiveUp, CloseUnreferenced, LInv,
         TypeOK, State, SockState
  <2>4. Fresh'
    BY <1>18, <2>1, <2>2 DEF WatcherSilent, GiveUp, CloseUnreferenced, LInv,
         Fresh, TypeOK, Io
  <2>5. Handle'
    BY <1>18, <2>1, <2>2 DEF WatcherSilent, GiveUp, CloseUnreferenced, LInv,
         Handle, TypeOK
  <2>6. Attempt'
    BY <1>18, <2>1, <2>2 DEF WatcherSilent, GiveUp, CloseUnreferenced, LInv,
         Attempt, Has, TypeOK
  <2>7. FramesOK'
    BY <2>2, <2>1 DEF FramesOK
  <2>8. Links'
    BY <1>18, <2>1, <2>2 DEF WatcherSilent, GiveUp, CloseUnreferenced, LInv,
         Links, Open, Serving, TypeOK
  <2>9. Tells'
    BY <1>18, <2>1, <2>2 DEF WatcherSilent, GiveUp, CloseUnreferenced, LInv,
         Tells, Trying, Has
  <2> QED
    BY <2>1, <2>3, <2>4, <2>5, <2>6, <2>7, <2>8, <2>9 DEF LInv
<1>19. ASSUME NEW i \in Io, NEW e \in Event, WatcherReports(i, e)
      PROVE  LInv'
  <2>1. /\ stack' \in Seq(Frame) /\ Excl(stack') /\ Frames(stack) = {}
        /\ Frames(stack') = {[k |-> "watcher", io |-> i]}
        /\ told' = told
    BY <1>19, CallIdle DEF WatcherReports, LInv, Cont, State
  <2>2. TypeOK'
    BY <1>19, <2>1 DEF WatcherReports, LInv, TypeOK, State, SockState
  <2>3. Fresh'
    BY <1>19, <2>1 DEF WatcherReports, LInv, Fresh, TypeOK, Io
  <2>4. Handle'
    BY <1>19, <2>1 DEF WatcherReports, LInv, Handle, TypeOK
  <2>5. Attempt'
    BY <1>19, <2>1 DEF WatcherReports, LInv, Attempt, Has, TypeOK
  <2>6. FramesOK'
    BY <1>19, <2>1 DEF WatcherReports, LInv, FramesOK, FrameOK, TypeOK
  <2>7. Links'
    BY <1>19, <2>1 DEF WatcherReports, LInv, Links, Open, Serving, TypeOK
  <2>8. Tells'
    BY <1>19, <2>1 DEF WatcherReports, LInv, Tells, Trying, Has
  <2> QED
    BY <2>1, <2>2, <2>3, <2>4, <2>5, <2>6, <2>7, <2>8 DEF LInv
<1>20. ASSUME NEW i \in Io, NEW e \in Event, Answer(i, e)
      PROVE  LInv'
  <2>1. /\ stack' \in Seq(Frame) /\ Excl(stack') /\ Frames(stack) = {}
        /\ Frames(stack') = {[k |-> "request", io |-> i]}
        /\ told' = told
    <3>1. Head(pend[i]) \in Kind
      BY <1>20 DEF Answer, LInv, TypeOK
    <3>2. e \notin State
      BY <1>20, <3>1 DEF Answer, Answers, State, Kind
    <3> QED
      BY <1>20, <3>2, CallIdle DEF Answer, LInv, Cont
  <2>2. TypeOK'
    BY <1>20, <2>1 DEF Answer, Answers, LInv, TypeOK, State, SockState
  <2>3. Fresh'
    BY <1>20, <2>1 DEF Answer, Answers, LInv, Fresh, TypeOK, Io
  <2>4. Handle'
    BY <1>20, <2>1 DEF Answer, Answers, LInv, Handle, TypeOK
  <2>5. Attempt'
    BY <1>20, <2>1 DEF Answer, Answers, LInv, Attempt, Has, TypeOK
  <2>6. FramesOK'
    BY <1>20, <2>1 DEF Answer, Answers, LInv, FramesOK, FrameOK, TypeOK
  <2>7. Links'
    BY <1>20, <2>1 DEF Answer, Answers, LInv, Links, Open, Serving, TypeOK
  <2>8. Tells'
    BY <1>20, <2>1 DEF Answer, Answers, LInv, Tells, Trying, Has
  <2> QED
    BY <2>1, <2>2, <2>3, <2>4, <2>5, <2>6, <2>7, <2>8 DEF LInv
<1>21. ASSUME NEW i \in Io, AnswerSilent(i)
      PROVE  LInv'
  <2>1. /\ UNCHANGED <<stack, told>>
        /\ Frames(stack') = Frames(stack)
        /\ stack' \in Seq(Frame) /\ Excl(stack')
    BY <1>21 DEF AnswerSilent, Settle, LInv, TypeOK
  <2>2. TypeOK'
    BY <1>21, <2>1 DEF AnswerSilent, Settle, LInv, TypeOK, State, SockState
  <2>3. Fresh'
    BY <1>21, <2>1 DEF AnswerSilent, Settle, LInv, Fresh, TypeOK, Io
  <2>4. Handle'
    BY <1>21, <2>1 DEF AnswerSilent, Settle, LInv, Handle, TypeOK
  <2>5. Attempt'
    BY <1>21, <2>1 DEF AnswerSilent, Settle, LInv, Attempt, Has, TypeOK
  <2>6. FramesOK'
    BY <1>21, <2>1 DEF AnswerSilent, Settle, LInv, FramesOK, FrameOK, TypeOK
  <2>7. Links'
    BY <1>21, <2>1 DEF AnswerSilent, Settle, LInv, Links, Open, Serving, TypeOK
  <2>8. Tells'
    BY <1>21, <2>1 DEF AnswerSilent, Settle, LInv, Tells, Trying, Has
  <2> QED
    BY <2>1, <2>2, <2>3, <2>4, <2>5, <2>6, <2>7, <2>8 DEF LInv
<1>22. ASSUME NEW i \in Io, RequestTimeout(i)
      PROVE  LInv'
  <2>1. /\ stack' \in Seq(Frame) /\ Excl(stack') /\ Frames(stack) = {}
        /\ Frames(stack') = {[k |-> "request", io |-> i]}
        /\ told' = told
    BY <1>22, CallIdle DEF RequestTimeout, LInv, Cont, State
  <2>2. TypeOK'
    BY <1>22, <2>1 DEF RequestTimeout, LInv, TypeOK, State, SockState
  <2>3. Fresh'
    BY <1>22, <2>1 DEF RequestTimeout, LInv, Fresh, TypeOK, Io
  <2>4. Handle'
    BY <1>22, <2>1 DEF RequestTimeout, LInv, Handle, TypeOK
  <2>5. Attempt'
    BY <1>22, <2>1 DEF RequestTimeout, LInv, Attempt, Has, TypeOK
  <2>6. FramesOK'
    BY <1>22, <2>1 DEF RequestTimeout, LInv, FramesOK, FrameOK, TypeOK
  <2>7. Links'
    BY <1>22, <2>1 DEF RequestTimeout, LInv, Links, Open, Serving, TypeOK
  <2>8. Tells'
    BY <1>22, <2>1 DEF RequestTimeout, LInv, Tells, Trying, Has
  <2> QED
    BY <2>1, <2>2, <2>3, <2>4, <2>5, <2>6, <2>7, <2>8 DEF LInv
<1>23. ASSUME NEW i \in Io, Notify(i)
      PROVE  LInv'
  <2>1. /\ stack' \in Seq(Frame) /\ Excl(stack') /\ Frames(stack) = {}
        /\ Frames(stack') = {[k |-> "request", io |-> i]}
        /\ told' = told
    BY <1>23, CallIdle DEF Notify, LInv, Cont, State
  <2>2. TypeOK'
    BY <1>23, <2>1 DEF Notify, LInv, TypeOK, State, SockState
  <2>3. Fresh'
    BY <1>23, <2>1 DEF Notify, LInv, Fresh, TypeOK, Io
  <2>4. Handle'
    BY <1>23, <2>1 DEF Notify, LInv, Handle, TypeOK
  <2>5. Attempt'
    BY <1>23, <2>1 DEF Notify, LInv, Attempt, Has, TypeOK
  <2>6. FramesOK'
    BY <1>23, <2>1 DEF Notify, LInv, FramesOK, FrameOK, TypeOK
  <2>7. Links'
    BY <1>23, <2>1 DEF Notify, LInv, Links, Open, Serving, TypeOK
  <2>8. Tells'
    BY <1>23, <2>1 DEF Notify, LInv, Tells, Trying, Has
  <2> QED
    BY <2>1, <2>2, <2>3, <2>4, <2>5, <2>6, <2>7, <2>8 DEF LInv
<1>24. ASSUME NEW i \in Io, NEW s \in SockState, KernelConnects(i, s)
      PROVE  LInv'
  <2>1. /\ UNCHANGED <<stack, told>>
        /\ Frames(stack') = Frames(stack)
        /\ stack' \in Seq(Frame) /\ Excl(stack')
    BY <1>24 DEF KernelConnects, LInv, TypeOK
  <2>2. TypeOK'
    BY <1>24, <2>1 DEF KernelConnects, LInv, TypeOK, State, SockState
  <2>3. Fresh'
    BY <1>24, <2>1 DEF KernelConnects, LInv, Fresh, TypeOK, Io
  <2>4. Handle'
    BY <1>24, <2>1 DEF KernelConnects, LInv, Handle, TypeOK
  <2>5. Attempt'
    BY <1>24, <2>1 DEF KernelConnects, LInv, Attempt, Has, TypeOK
  <2>6. FramesOK'
    BY <1>24, <2>1 DEF KernelConnects, LInv, FramesOK, FrameOK, TypeOK
  <2>7. Links'
    BY <1>24, <2>1 DEF KernelConnects, LInv, Links, Open, Serving, TypeOK
  <2>8. Tells'
    BY <1>24, <2>1 DEF KernelConnects, LInv, Tells, Trying, Has
  <2> QED
    BY <2>1, <2>2, <2>3, <2>4, <2>5, <2>6, <2>7, <2>8 DEF LInv
<1>25. ASSUME NEW i \in Io, PeerHangup(i)
      PROVE  LInv'
  <2>1. /\ UNCHANGED <<stack, told>>
        /\ Frames(stack') = Frames(stack)
        /\ stack' \in Seq(Frame) /\ Excl(stack')
    BY <1>25 DEF PeerHangup, LInv, TypeOK
  <2>2. TypeOK'
    BY <1>25, <2>1 DEF PeerHangup, LInv, TypeOK, State, SockState
  <2>3. Fresh'
    BY <1>25, <2>1 DEF PeerHangup, LInv, Fresh, TypeOK, Io
  <2>4. Handle'
    BY <1>25, <2>1 DEF PeerHangup, LInv, Handle, TypeOK
  <2>5. Attempt'
    BY <1>25, <2>1 DEF PeerHangup, LInv, Attempt, Has, TypeOK
  <2>6. FramesOK'
    BY <1>25, <2>1 DEF PeerHangup, LInv, FramesOK, FrameOK, TypeOK
  <2>7. Links'
    BY <1>25, <2>1 DEF PeerHangup, LInv, Links, Open, Serving, TypeOK
  <2>8. Tells'
    BY <1>25, <2>1 DEF PeerHangup, LInv, Tells, Trying, Has
  <2> QED
    BY <2>1, <2>2, <2>3, <2>4, <2>5, <2>6, <2>7, <2>8 DEF LInv
<1>26. ASSUME LbleConnect
      PROVE  LInv'
  <2>1. /\ cwatch = {} /\ ~Has("connect") /\ nio < MaxConn
        /\ stack \in Seq(Frame) /\ Len(stack) \in Nat
    BY <1>0, <1>26, StackTests, LibbleAssumption DEF LbleConnect, LInv, TypeOK
  <2>2. \A g \in Frames(stack) :
            g.k \notin {"async_failed", "mtu_failed", "connected", "connect"}
    BY <2>1 DEF LInv, FramesOK, FrameOK, Has
  <2>3. \A g \in Frames(stack) : /\ Compat([k |-> "connect", io |-> NoIo], g)
                                   /\ Compat(g, [k |-> "connect", io |-> NoIo])
    BY <2>2 DEF Compat
  <2>4. /\ stack' \in Seq(Frame) /\ Excl(stack')
        /\ Frames(stack') = Frames(stack) \cup {[k |-> "connect", io |-> NoIo]}
        /\ told' = "CONNECTING"
    BY <1>26, <2>3, CallMore DEF LbleConnect, LInv, Cont, State
  <2>5. Has("connect")'
    <3>1. /\ [k |-> "connect", io |-> NoIo] \in Frames(stack')
          /\ [k |-> "connect", io |-> NoIo].k = "connect"
      BY <2>4
    <3> QED
      BY <3>1 DEF Has
  <2>6. /\ state = "DISCONNECTED" /\ state' = "CONNECTING"
        /\ UNCHANGED <<ioch, attrib, chan, watch, gattrib>>
    BY <1>26 DEF LbleConnect
  <2>7. TypeOK'
    BY <2>4, <2>6 DEF LInv, TypeOK, State
  <2>8. Fresh'
    BY <2>6 DEF LInv, Fresh
  <2>9. Handle'
    BY <2>6 DEF LInv, Handle
  <2>10. Attempt'
    BY <2>6, <2>1 DEF Attempt
  <2>11. FramesOK'
    BY <2>4, <2>6, <2>2, <2>1 DEF LInv, FramesOK, FrameOK
  <2>12. Links'
    BY <2>4, <2>6 DEF LInv, Links, Open, Serving
  <2>13. Tells'
    BY <2>5 DEF Tells, Trying
  <2> QED
    BY <2>4, <2>7, <2>8, <2>9, <2>10, <2>11, <2>12, <2>13 DEF LInv
<1>27. ASSUME LbleDisconnect, DropLink, Emit(stack, "none", NoIo, "DISCONNECTED"),
             UNCHANGED <<nio, held, watch>>
      PROVE  LInv'
  <2>1. \A g \in Frames(stack) : g.k # "mtu_failed"
    BY <1>27 DEF DropLink, LInv, FramesOK, FrameOK
  <2>2. \A g \in Frames(stack) : /\ Compat([k |-> "none", io |-> NoIo], g)
                                   /\ Compat(g, [k |-> "none", io |-> NoIo])
    BY <2>1 DEF Compat
  <2>3. /\ stack' \in Seq(Frame) /\ Excl(stack')
        /\ Frames(stack') = Frames(stack) \cup {[k |-> "none", io |-> NoIo]}
        /\ told' = "DISCONNECTED"
    BY <1>27, <2>2, CallMore DEF LInv, Cont, State
  <2>4. PICK a \in Io : a = attrib /\ a # NoIo /\ ref = {a} /\ ioch = a
    BY <1>27 DEF DropLink, LInv, Handle, TypeOK
  <2>5. /\ state = "CONNECTED" /\ state' = "DISCONNECTED" /\ ref' = {} /\ attrib' = NoIo
        /\ ioch' = NoIo /\ Settle(a, pend[a]) /\ UNCHANGED <<nio, held, watch>>
        /\ a <= nio /\ att[a] \in {"live", "down"}
    BY <1>27, <2>4 DEF DropLink, LInv, Handle, Fresh, TypeOK, Io
  <2>6. /\ pend' \in [Io -> Seq(Kind)] /\ listen' \subseteq listen
        /\ att' \in [Io -> {"none", "live", "down", "freed"}]
        /\ sk' \in [Io -> SockState]
        /\ \A j \in Io : j # a => /\ pend'[j] = pend[j] /\ att'[j] = att[j]
                                  /\ sk'[j] = sk[j]
        /\ \/ att'[a] = "freed" /\ sk'[a] = "closed"
           \/ /\ Keeps(pend[a]) /\ pend'[a] = pend[a]
              /\ UNCHANGED <<att, sk, listen>>
    BY <2>5, <2>4, SettleFacts DEF LInv, TypeOK
  <2>7. TypeOK'
    BY <2>3, <2>5, <2>6 DEF LInv, TypeOK, State, NoIo
  <2>8. Fresh'
    BY <2>5, <2>6 DEF LInv, Fresh, TypeOK, Io
  <2>9. Handle'
    BY <2>5 DEF Handle
  <2>10. Attempt'
    BY <2>3, <2>5 DEF LInv, Attempt, Has
  <2>11. FramesOK'
    BY <2>3, <2>5, <2>6 DEF LInv, FramesOK, FrameOK, TypeOK
  <2>12. Links'
    <3> SUFFICES ASSUME NEW j \in Io
                 PROVE  /\ (j \in dwatch => att[j] # "none")'
                        /\ (att[j] = "none" /\ Open(j) => j \in cwatch)'
                        /\ (att[j] = "freed" => sk[j] = "closed")'
                        /\ (j \notin ref /\ att[j] # "none" /\ Open(j)
                               => Keeps(pend[j]) \/ Serving(j))'
      BY DEF Links
    <3>1. CASE j = a
      BY <3>1, <2>5, <2>6, <2>4 DEF LInv, Links, Open, TypeOK
    <3>2. CASE j # a
      <4>1. Serving(j) => Serving(j)'
        BY <1>27, <3>2, <2>3 DEF Serving
      <4>2. att'[j] = att[j] /\ sk'[j] = sk[j] /\ pend'[j] = pend[j]
        BY <3>2, <2>5, <2>6 DEF LInv, TypeOK
      <4> QED
        BY <3>2, <4>1, <4>2, <2>5, <2>4 DEF LInv, Links, Open
    <3> QED
      BY <3>1, <3>2
  <2>13. Tells'
    BY <2>3, <2>5 DEF Tells
  <2> QED
    BY <2>3, <2>7, <2>8, <2>9, <2>10, <2>11, <2>12, <2>13 DEF LInv
<1>28. ASSUME LbleDisconnect, GiveUp,
             UNCHANGED <<ioch, attrib, chan, watch, gattrib, stack, told>>
      PROVE  LInv'
  <2>1. /\ UNCHANGED <<stack, told>>
        /\ Frames(stack') = Frames(stack)
        /\ stack' \in Seq(Frame) /\ Excl(stack')
    BY <1>28 DEF GiveUp, LInv, TypeOK
  <2>2. \A f \in Frames(stack) : f.k # "mtu_failed"
    <3>1. CASE stack = <<>>
      BY <3>1, StackEmpty
    <3>2. CASE stack # <<>>
      <4>1. Head(stack).k # "mtu_failed"
        BY <1>0, <1>28, <3>2 DEF Inside
      <4> QED
        BY <3>2, <4>1, StackPop DEF LInv, TypeOK, Compat
    <3> QED
      BY <3>1, <3>2
  <2>3. TypeOK'
    BY <1>28, <2>1, <2>2 DEF GiveUp, LInv, TypeOK, State, SockState
  <2>4. Fresh'
    BY <1>28, <2>1, <2>2 DEF GiveUp, LInv, Fresh, TypeOK, Io
  <2>5. Handle'
    BY <1>28, <2>1, <2>2 DEF GiveUp, LInv, Handle, TypeOK
  <2>6. Attempt'
    BY <1>28, <2>1, <2>2 DEF GiveUp, LInv, Attempt, Has, TypeOK
  <2>7. FramesOK'
    BY <1>28, <2>1, <2>2 DEF GiveUp, LInv, FramesOK, FrameOK
  <2>8. Links'
    BY <1>28, <2>1, <2>2 DEF GiveUp, LInv, Links, Open, Serving, TypeOK
  <2>9. Tells'
    BY <1>28, <2>1, <2>2 DEF GiveUp, LInv, Tells, Trying, Has
  <2> QED
    BY <2>1, <2>3, <2>4, <2>5, <2>6, <2>7, <2>8, <2>9 DEF LInv
<1>29. ASSUME NEW i \in Io, LinkLost(i), pend[i] # <<>>
      PROVE  LInv'
  <2>1. /\ stack' \in Seq(Frame) /\ Excl(stack') /\ Frames(stack) = {}
        /\ Frames(stack') = {[k |-> "flush", io |-> i]}
        /\ told' = told
    BY <1>29, CallIdle DEF LinkLost, Flush, LInv, Cont, State
  <2>2. Serving(i)'
    <3>1. [k |-> "flush", io |-> i] \in Frames(stack')
      BY <2>1
    <3> QED
      BY <3>1 DEF Serving
  <2>3. /\ i <= nio /\ att[i] # "none" /\ pend' \in [Io -> Seq(Kind)]
        /\ att' = [att EXCEPT ![i] = "down"] /\ UNCHANGED <<sk, listen>>
        /\ \A j \in Io : j # i => pend'[j] = pend[j]
        /\ UNCHANGED <<dev, nio, held, watch, ref>>
    <3>1. /\ Tail(pend[i]) \in Seq(Kind) /\ att[i] # "none"
      BY <1>29, <2>1 DEF LinkLost, LInv, TypeOK, FrameOK
    <3>2. i <= nio
      BY <3>1 DEF LInv, Fresh, TypeOK, Io
    <3>3. /\ pend' = [pend EXCEPT ![i] = Tail(pend[i])]
          /\ att' = [att EXCEPT ![i] = "down"] /\ UNCHANGED <<sk, listen>>
          /\ UNCHANGED <<dev, nio, held, watch, ref>>
      BY <1>29 DEF LinkLost, Flush
    <3> QED
      BY <3>1, <3>2, <3>3 DEF LInv, TypeOK
  <2>4. TypeOK'
    BY <2>1, <2>3 DEF LInv, TypeOK
  <2>5. Fresh'
    BY <2>3 DEF LInv, Fresh, TypeOK, Io
  <2>6. Handle'
    BY <2>3 DEF LInv, Handle, TypeOK
  <2>7. Attempt'
    BY <2>1, <2>3 DEF LInv, Attempt, Has, TypeOK
  <2>8. FramesOK'
    BY <2>1, <2>3 DEF LInv, FramesOK, FrameOK, Compat, TypeOK
  <2>9. Links'
    BY <2>1, <2>3, <2>2 DEF LInv, Links, Open, Serving, TypeOK
  <2>10. Tells'
    BY <2>1, <2>3 DEF LInv, Tells, Trying, Has
  <2> QED
    BY <2>1, <2>4, <2>5, <2>6, <2>7, <2>8, <2>9, <2>10 DEF LInv
<1>30. ASSUME NEW i \in Io, LinkLost(i), pend[i] = <<>>
      PROVE  LInv'
  <2>1. /\ UNCHANGED <<stack, told>>
        /\ Frames(stack') = Frames(stack)
        /\ stack' \in Seq(Frame) /\ Excl(stack')
    BY <1>30 DEF LinkLost, Flush, Idle, LInv, TypeOK
  <2>2. /\ i <= nio /\ att[i] # "none"
        /\ att' = [att EXCEPT ![i] = IF i \in ref THEN "down" ELSE "freed"]
        /\ sk' = [sk EXCEPT ![i] = "closed"] /\ listen' = listen \ {i} /\ UNCHANGED pend
        /\ UNCHANGED <<dev, nio, held, watch, ref>>
    BY <1>30 DEF LinkLost, Flush, LInv, Fresh, TypeOK, Io
  <2>3. TypeOK'
    BY <2>1, <2>2 DEF LInv, TypeOK, SockState
  <2>4. Fresh'
    BY <2>2 DEF LInv, Fresh, TypeOK, Io
  <2>5. Handle'
    BY <2>2 DEF LInv, Handle, TypeOK
  <2>6. Attempt'
    BY <2>1, <2>2 DEF LInv, Attempt, Has, TypeOK
  <2>7. FramesOK'
    BY <2>1, <2>2 DEF LInv, FramesOK, FrameOK, Compat, TypeOK
  <2>8. Links'
    BY <2>1, <2>2 DEF LInv, Links, Open, Serving, TypeOK
  <2>9. Tells'
    BY <2>1, <2>2 DEF LInv, Tells, Trying, Has
  <2> QED
    BY <2>1, <2>3, <2>4, <2>5, <2>6, <2>7, <2>8, <2>9 DEF LInv
<1>31. ASSUME ReturnFlush, NEW i \in Io, i = Head(stack).io, pend[i] # <<>>,
             i \in ref \/ Keeps(pend[i])
      PROVE  LInv'
  <2>1. /\ stack' \in Seq(Frame) /\ Excl(stack') /\ Head(stack).k = "flush"
        /\ Head(stack) \in Frame
        /\ Frames(stack) = Frames(Tail(stack)) \cup {Head(stack)}
        /\ Frames(stack') = Frames(Tail(stack))
                    \cup {[k |-> "flush", io |-> i]}
        /\ \A g \in Frames(Tail(stack)) : /\ Compat(Head(stack), g)
                                          /\ Compat(g, Head(stack))
        /\ told' = told
    BY <1>31, CallAgain DEF ReturnFlush, Flush, LInv, Cont, State, Compat,
         Inside
  <2>2. FrameOK(Head(stack))
    BY <2>1 DEF LInv, FramesOK
  <2>3. Serving(i)'
    <3>1. [k |-> "flush", io |-> i] \in Frames(stack')
      BY <2>1
    <3> QED
      BY <3>1 DEF Serving
  <2>4. /\ i <= nio /\ att[i] # "none" /\ pend' \in [Io -> Seq(Kind)]
        /\ att' = [att EXCEPT ![i] = "down"] /\ UNCHANGED <<sk, listen>>
        /\ \A j \in Io : j # i => pend'[j] = pend[j]
        /\ UNCHANGED <<dev, nio, held, watch, ref>>
    <3>1. /\ Tail(pend[i]) \in Seq(Kind) /\ att[i] # "none"
      BY <1>31, <2>1, <2>2 DEF ReturnFlush, LInv, TypeOK, FrameOK
    <3>2. i <= nio
      BY <3>1 DEF LInv, Fresh, TypeOK, Io
    <3>3. /\ pend' = [pend EXCEPT ![i] = Tail(pend[i])]
          /\ att' = [att EXCEPT ![i] = "down"] /\ UNCHANGED <<sk, listen>>
          /\ UNCHANGED <<dev, nio, held, watch, ref>>
      BY <1>31 DEF ReturnFlush, Flush
    <3> QED
      BY <3>1, <3>2, <3>3 DEF LInv, TypeOK
  <2>5. TypeOK'
    BY <2>1, <2>4 DEF LInv, TypeOK
  <2>6. Fresh'
    BY <2>4 DEF LInv, Fresh, TypeOK, Io
  <2>7. Handle'
    BY <2>4 DEF LInv, Handle, TypeOK
  <2>8. Attempt'
    BY <2>1, <2>4 DEF LInv, Attempt, Has, TypeOK
  <2>9. FramesOK'
    BY <2>1, <2>4 DEF LInv, FramesOK, FrameOK, Compat, TypeOK
  <2>10. Links'
    <3> SUFFICES ASSUME NEW j \in Io
                 PROVE  /\ (j \in dwatch => att[j] # "none")'
                        /\ (att[j] = "none" /\ Open(j) => j \in cwatch)'
                        /\ (att[j] = "freed" => sk[j] = "closed")'
                        /\ (j \notin ref /\ att[j] # "none" /\ Open(j)
                               => Keeps(pend[j]) \/ Serving(j))'
      BY DEF Links
    <3>1. CASE j = i
      BY <3>1, <2>4, <2>3 DEF LInv, Links, Open, TypeOK
    <3>2. CASE j # i
      <4>1. Serving(j) => Serving(j)'
        BY <1>31, <3>2, <2>1 DEF Serving
      <4>2. att'[j] = att[j] /\ sk'[j] = sk[j] /\ pend'[j] = pend[j]
        BY <3>2, <2>4 DEF LInv, TypeOK
      <4> QED
        BY <3>2, <4>1, <4>2, <2>4 DEF LInv, Links, Open
    <3> QED
      BY <3>1, <3>2
  <2>11. Tells'
    BY <2>1, <2>4 DEF LInv, Tells, Trying, Has
  <2> QED
    BY <2>1, <2>5, <2>6, <2>7, <2>8, <2>9, <2>10, <2>11 DEF LInv
<1>32. ASSUME ReturnFlush, NEW i \in Io, i = Head(stack).io, pend[i] = <<>>,
             i \in ref \/ Keeps(pend[i])
      PROVE  LInv'
  <2>1. /\ stack' \in Seq(Frame) /\ Excl(stack') /\ Head(stack).k = "flush"
        /\ Head(stack) \in Frame
        /\ Frames(stack) = Frames(stack') \cup {Head(stack)}
        /\ \A g \in Frames(stack') : /\ Compat(Head(stack), g)
                                     /\ Compat(g, Head(stack))
        /\ told' = told
    BY <1>32, Ends DEF ReturnFlush, Flush, LInv, Inside
  <2>2. FrameOK(Head(stack))
    BY <2>1 DEF LInv, FramesOK
  <2>3. /\ i <= nio /\ att[i] # "none"
        /\ att' = [att EXCEPT ![i] = IF i \in ref THEN "down" ELSE "freed"]
        /\ sk' = [sk EXCEPT ![i] = "closed"] /\ listen' = listen \ {i} /\ UNCHANGED pend
        /\ UNCHANGED <<dev, nio, held, watch, ref>>
    BY <1>32, <2>1, <2>2 DEF ReturnFlush, Flush, FrameOK, LInv, Fresh, TypeOK,
         Io
  <2>4. TypeOK'
    BY <2>1, <2>3 DEF LInv, TypeOK, SockState
  <2>5. Fresh'
    BY <2>3 DEF LInv, Fresh, TypeOK, Io
  <2>6. Handle'
    BY <2>3 DEF LInv, Handle, TypeOK
  <2>7. Attempt'
    BY <2>1, <2>3 DEF LInv, Attempt, Has, TypeOK
  <2>8. FramesOK'
    BY <2>1, <2>3 DEF LInv, FramesOK, FrameOK, Compat, TypeOK
  <2>9. Links'
    <3> SUFFICES ASSUME NEW j \in Io
                 PROVE  /\ (j \in dwatch => att[j] # "none")'
                        /\ (att[j] = "none" /\ Open(j) => j \in cwatch)'
                        /\ (att[j] = "freed" => sk[j] = "closed")'
                        /\ (j \notin ref /\ att[j] # "none" /\ Open(j)
                               => Keeps(pend[j]) \/ Serving(j))'
      BY DEF Links
    <3>1. CASE j = i
      BY <3>1, <2>3 DEF LInv, Links, Open, TypeOK
    <3>2. CASE j # i
      <4>1. Serving(j) => Serving(j)'
        BY <1>32, <3>2, <2>1 DEF Serving
      <4>2. att'[j] = att[j] /\ sk'[j] = sk[j] /\ pend'[j] = pend[j]
        BY <3>2, <2>3 DEF LInv, TypeOK
      <4> QED
        BY <3>2, <4>1, <4>2, <2>3 DEF LInv, Links, Open
    <3> QED
      BY <3>1, <3>2
  <2>10. Tells'
    BY <2>1, <2>3 DEF LInv, Tells, Trying, Has
  <2> QED
    BY <2>1, <2>4, <2>5, <2>6, <2>7, <2>8, <2>9, <2>10 DEF LInv
<1>36. ASSUME ReturnFlush, NEW i \in Io, i = Head(stack).io,
             ~(i \in ref \/ Keeps(pend[i]))
      PROVE  LInv'
  <2>1. /\ stack' \in Seq(Frame) /\ Excl(stack') /\ Head(stack).k = "flush"
        /\ Head(stack) \in Frame
        /\ Frames(stack) = Frames(stack') \cup {Head(stack)}
        /\ \A g \in Frames(stack') : /\ Compat(Head(stack), g)
                                     /\ Compat(g, Head(stack))
        /\ told' = told
    BY <1>36, Ends DEF ReturnFlush, LInv, Pop, Inside
  <2>2. FrameOK(Head(stack))
    BY <2>1 DEF LInv, FramesOK
  <2>3. /\ Settle(i, pend[i]) /\ i <= nio /\ att[i] # "none"
        /\ i \notin ref' /\ UNCHANGED <<dev, nio, held, watch, ref>>
    BY <1>36, <2>1, <2>2 DEF ReturnFlush, FrameOK, LInv, Fresh, TypeOK, Io
  <2>4. /\ ~Keeps(pend[i]) /\ pend' = [pend EXCEPT ![i] = <<>>]
        /\ att' = [att EXCEPT ![i] = "freed"]
        /\ sk' = [sk EXCEPT ![i] = "closed"] /\ listen' = listen \ {i}
    BY <1>36, <2>3 DEF Settle
  <2>5. TypeOK'
    BY <2>1, <2>3, <2>4 DEF LInv, TypeOK, SockState
  <2>6. Fresh'
    BY <2>3, <2>4 DEF LInv, Fresh, TypeOK, Io
  <2>7. Handle'
    BY <2>3, <2>4 DEF LInv, Handle, TypeOK
  <2>8. Attempt'
    BY <2>1, <2>3, <2>4 DEF LInv, Attempt, Has, TypeOK
  <2>9. FramesOK'
    BY <2>1, <2>3, <2>4 DEF LInv, FramesOK, FrameOK, Compat, TypeOK
  <2>10. Links'
    <3> SUFFICES ASSUME NEW j \in Io
                 PROVE  /\ (j \in dwatch => att[j] # "none")'
                        /\ (att[j] = "none" /\ Open(j) => j \in cwatch)'
                        /\ (att[j] = "freed" => sk[j] = "closed")'
                        /\ (j \notin ref /\ att[j] # "none" /\ Open(j)
                               => Keeps(pend[j]) \/ Serving(j))'
      BY DEF Links
    <3>1. CASE j = i
      BY <3>1, <2>3, <2>4 DEF LInv, Links, Open, TypeOK
    <3>2. CASE j # i
      <4>1. Serving(j) => Serving(j)'
        BY <1>36, <3>2, <2>1 DEF Serving
      <4>2. att'[j] = att[j] /\ sk'[j] = sk[j] /\ pend'[j] = pend[j]
        BY <3>2, <2>4 DEF LInv, TypeOK
      <4> QED
        BY <3>2, <4>1, <4>2, <2>3 DEF LInv, Links, Open
    <3> QED
      BY <3>1, <3>2
  <2>11. Tells'
    BY <2>1, <2>3, <2>4 DEF LInv, Tells, Trying, Has
  <2> QED
    BY <2>1, <2>5, <2>6, <2>7, <2>8, <2>9, <2>10, <2>11 DEF LInv
<1>33. ASSUME LbleDisconnect
      PROVE  LInv'
  BY <1>33, <1>27, <1>28 DEF LbleDisconnect
<1>34. ASSUME NEW i \in Io, LinkLost(i)
      PROVE  LInv'
  BY <1>34, <1>29, <1>30
<1>35. ASSUME ReturnFlush
      PROVE  LInv'
  <2>1. Head(stack).io \in Io
    BY <1>35, StackPop DEF ReturnFlush, Inside, LInv, TypeOK, FramesOK, FrameOK
  <2> QED
    BY <1>35, <2>1, <1>31, <1>32, <1>36
<1> QED
  BY <1>1, <1>2, <1>3, <1>4, <1>5, <1>6, <1>7, <1>8, <1>9, <1>10, <1>11,
     <1>12, <1>13, <1>14, <1>15, <1>16, <1>17, <1>18, <1>19, <1>20, <1>21,
     <1>22, <1>23, <1>24, <1>25, <1>26, <1>33, <1>34, <1>35
  DEF Next, Client, Return, System, ConnectWatch, ChannelWatch, AttWatch, Kernel

-----------------------------------------------------------------------------
(* The theorems *)

\* lble_newdev establishes the invariant.
LEMMA LInvInit ==
    ASSUME Init
    PROVE  LInv
<1>1. TypeOK
  BY LibbleAssumption DEF Init, TypeOK, State, SockState
<1>2. Frames(stack) = {} /\ Excl(stack)
  BY StackEmpty DEF Init
<1>3. Fresh /\ Handle /\ Attempt /\ Tells
  BY DEF Init, Fresh, Handle, Attempt, Tells
<1>4. FramesOK
  BY <1>2 DEF FramesOK
<1>5. Links
  BY DEF Init, Links, Open
<1> QED
  BY <1>1, <1>2, <1>3, <1>4, <1>5 DEF LInv

\* It is about the handle's variables only.
LEMMA LInvStutter ==
    ASSUME LInv, UNCHANGED vars
    PROVE  LInv'
  BY DEF LInv, vars, system, dev, chan, watch, gattrib, TypeOK, Fresh, Handle, Attempt,
         FramesOK, FrameOK, Has, Links, Open, Serving, Tells, Trying

\* The handle's invariant holds in every state the program reaches while the
\* client has not been rash; once rash, it stays so.
THEOREM LInvCorrect == Spec => [](rash \/ LInv)
<1>1. (rash \/ LInv) /\ [Next]_vars => (rash \/ LInv)'
  <2>1. rash /\ [Next]_vars => rash'
    BY DEF Next, vars
  <2>2. LInv /\ Next => rash' \/ LInv'
    BY LInvStep
  <2>3. LInv /\ UNCHANGED vars => LInv'
    BY LInvStutter
  <2> QED
    BY <2>1, <2>2, <2>3
<1>2. Init => LInv
  BY LInvInit
<1> QED
  BY <1>1, <1>2, PTL DEF Spec

\* While nothing runs the stack has no frame.
LEMMA IdleFacts ==
    ASSUME LInv, Idle
    PROVE  /\ \A k : ~Has(k)
           /\ \A i : ~Serving(i)
           /\ InFlight <=> cwatch # {}
<1>1. Frames(stack) = {}
  BY StackEmpty DEF Idle
<1>2. /\ \A k : ~Has(k)
      /\ \A i : ~Serving(i)
  BY <1>1 DEF Has, Serving
<1> QED
  BY <1>2, StackTests DEF LInv, TypeOK

\* While nothing runs the handle agrees with itself: a GAttrib exactly when it
\* is connected, on its own channel and not freed, and one attempt in flight,
\* on its own channel, while it is connecting.
THEOREM HandleConsistentCorrect == Spec => []HandleConsistent
<1>1. ASSUME rash \/ LInv
      PROVE  HandleConsistent
  <2> SUFFICES ASSUME Idle, ~rash
               PROVE  /\ state = "CONNECTED" <=> attrib # NoIo
                      /\ state = "CONNECTED"
                             => attrib = ioch /\ att[attrib] # "freed"
                      /\ state = "CONNECTING" => cwatch = {ioch}
    BY DEF HandleConsistent
  <2>1. /\ state = "CONNECTED" <=> attrib # NoIo
        /\ state = "CONNECTED" => attrib = ioch /\ att[attrib] # "freed"
    BY <1>1 DEF LInv, Handle
  <2>2. state = "CONNECTING" => cwatch = {ioch}
    BY <1>1, IdleFacts DEF LInv, Tells, Trying, Attempt
  <2> QED
    BY <2>1, <2>2
<1> QED
  BY <1>1, LInvCorrect, PTL

\* lble_disconnect breaks the connection: once the handle is disconnected and
\* no attempt is in flight, an open socket is held by a request that waits.
\* (Until the client is rash.)
THEOREM DisconnectBreaksLinkCorrect == Spec => []DisconnectBreaksLink
<1>1. ASSUME rash \/ LInv
      PROVE  DisconnectBreaksLink
  <2> SUFFICES ASSUME Idle, state = "DISCONNECTED", ~InFlight, ~rash,
                      NEW i \in Io, Open(i)
               PROVE  Keeps(pend[i])
    BY DEF DisconnectBreaksLink
  <2>1. cwatch = {} /\ ~Serving(i)
    BY <1>1, IdleFacts
  <2>2. i \notin ref
    BY <1>1 DEF LInv, Handle
  <2> QED
    BY <1>1, <2>1, <2>2 DEF LInv, Links
<1> QED
  BY <1>1, LInvCorrect, PTL

\* The client has been told the state it is in, but while an attempt is in
\* flight: until the client has been rash.
THEOREM ToldStateCorrect == Spec => [](rash \/ ToldState)
<1>1. ASSUME rash \/ LInv
      PROVE  rash \/ ToldState
  BY <1>1, IdleFacts DEF ToldState, LInv, Tells, Trying
<1> QED
  BY <1>1, LInvCorrect, PTL

=============================================================================
