----------------------------- MODULE AttService -----------------------------
(* What the ATT bearer promises to the client that gives it PDUs, without   *)
(* its queues, channels, timers and retries.  Every op goes its own way:    *)
(*                                                                          *)
(*      new -> open -> told -> done          open, told -> cancelled        *)
(*                                                                          *)
(* It is told of its result at most once and never after it was cancelled;  *)
(* an op that expects a result does not end untold while the bearer lives;  *)
(* no callback runs inside another one.                                     *)
CONSTANTS Op

VARIABLES up,       \* the bearer has not been released
          phase,    \* how far an op has come
          expects   \* the op has a callback that is to be told its result

vars == <<up, phase, expects>>

Phase == {"new", "open", "told", "cancelled", "done"}

TypeOK ==
    /\ up \in BOOLEAN
    /\ phase \in [Op -> Phase]
    /\ expects \in [Op -> BOOLEAN]

Init ==
    /\ up = TRUE
    /\ phase = [o \in Op |-> "new"]
    /\ expects = [o \in Op |-> FALSE]

\* The ops of S move on to phase p.
Move(S, p) == phase' = [o \in Op |-> IF o \in S THEN p ELSE phase[o]]

\* bt_att_send, bt_att_chan_send
Accept(o, e) ==
    /\ up
    /\ phase[o] = "new"
    /\ Move({o}, "open")
    /\ expects' = [expects EXCEPT ![o] = e]
    /\ UNCHANGED up

\* The op's callback is called; no other one is running.
Tell(o) ==
    /\ up
    /\ expects[o]
    /\ phase[o] = "open"
    /\ \A p \in Op : phase[p] # "told"
    /\ Move({o}, "told")
    /\ UNCHANGED <<up, expects>>

\* Ops end: they were told, or there was nothing to tell.
Finish(S) ==
    /\ up
    /\ \A o \in S : phase[o] = "told" \/ (phase[o] = "open" /\ ~expects[o])
    /\ Move(S, "done")
    /\ UNCHANGED <<up, expects>>

\* bt_att_cancel, bt_att_cancel_all
Withdraw(S) ==
    /\ up
    /\ \A o \in S : phase[o] \in {"open", "told"}
    /\ Move(S, "cancelled")
    /\ UNCHANGED <<up, expects>>

\* The last bt_att_unref.  Nobody is left to be told.
Release ==
    /\ up
    /\ \A o \in Op : phase[o] # "told"
    /\ up' = FALSE
    /\ Move({o \in Op : phase[o] = "open"}, "done")
    /\ UNCHANGED expects

Next ==
    \/ \E o \in Op, e \in BOOLEAN : Accept(o, e)
    \/ \E o \in Op : Tell(o)
    \/ \E S \in SUBSET Op : Finish(S) \/ Withdraw(S)
    \/ Release

Spec == Init /\ [][Next]_vars
=============================================================================
