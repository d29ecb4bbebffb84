------------------------------- MODULE Vecs -------------------------------
(* The tools of src/: vecs_connect, its event handler and its main loop.     *)
(*                                                                           *)
(* The signal handler runs quit() between any two instructions of the        *)
(* program, also in the middle of the quit() of the event handler, and both  *)
(* give back a reference to the loop through the same global variable.  The  *)
(* tools are built without optimisation (Makefile), so every mention of      *)
(* event_loop loads it again: a load and the call it is for are two steps.   *)
(* What the library reports is taken from lib/libble.c; the table of handles *)
(* and the output are left out.                                              *)
EXTENDS Naturals

CONSTANT MaxSig      \* bound: signals that arrive

ASSUME SigAssumption == MaxSig \in Nat

VARIABLES
    pc,         \* how far vecs_connect has come
    event_loop, \* the global variable is not NULL
    refs,       \* references to the GMainLoop; it is freed with the last
    running,    \* loop->is_running
    arg,        \* event_loop as it was loaded for the call that is next
    quits,      \* calls of quit() the event handler has still to make
    q,          \* how far the one under way has come
    lib,        \* state of the connection, as the library has told it
    discover,   \* static counter of notify_handler
    app,        \* m_connected was called
    sigs,       \* number of signals so far
    told,       \* history: "no" quit() yet, the last one was "missed", or one
                \*   was "heard"
    uaf,        \* history: the loop was used after it was freed
    pinched     \* history: a signal came where the loop cannot stand it

loopvars == <<event_loop, refs, running>>
libvars  == <<lib, discover, app>>
vars == <<pc, loopvars, arg, quits, q, libvars, sigs, told, uaf, pinched>>

\* No call of quit() is under way or due.
Calm == quits = 0 /\ q = "none"

-----------------------------------------------------------------------------
(* vecs_connect *)

\* lble_connect, which may fail at once and then reports an error and the state:
\* quit() is called twice, with no loop to find.
Connect(ok) ==
    /\ pc = "connect" /\ Calm
    /\ lib' = IF ok THEN "connecting" ELSE "down"
    /\ quits' = IF ok THEN 0 ELSE 2
    /\ told' = IF ok THEN told ELSE "missed"
    /\ pc' = "new"
    /\ UNCHANGED <<loopvars, arg, q, discover, app, sigs, uaf, pinched>>

\* g_main_loop_new, and the test of what it returned
NewLoop ==
    /\ pc = "new" /\ Calm
    /\ event_loop' = TRUE /\ refs' = 1
    /\ pc' = "test"
    /\ UNCHANGED <<running, arg, quits, q, libvars, sigs, told, uaf, pinched>>
Test ==
    /\ pc = "test"
    /\ pc' = IF event_loop THEN "load" ELSE "after"
    /\ UNCHANGED <<loopvars, arg, quits, q, libvars, sigs, told, uaf, pinched>>

\* The argument of g_main_loop_run, which refuses a NULL ...
Load ==
    /\ pc = "load"
    /\ arg' = event_loop
    /\ pc' = IF event_loop THEN "run" ELSE "after"
    /\ UNCHANGED <<loopvars, quits, q, libvars, sigs, told, uaf, pinched>>

\* ... takes a reference of its own, sets is_running ...
Run ==
    /\ pc = "run"
    /\ pc' = "entered"
    /\ uaf' = (uaf \/ refs = 0)
    /\ refs' = refs + 1
    /\ UNCHANGED <<event_loop, running, arg, quits, q, libvars, sigs, told, pinched>>
SetRunning ==
    /\ pc = "entered"
    /\ pc' = "looping"
    /\ running' = TRUE
    /\ UNCHANGED <<event_loop, refs, arg, quits, q, libvars, sigs, told, uaf, pinched>>

\* ... and gives the reference back when it is told to end, between two callbacks.
RunReturns ==
    /\ pc = "looping" /\ Calm /\ ~running
    /\ pc' = "after"
    /\ uaf' = (uaf \/ refs = 0)
    /\ refs' = IF refs = 0 THEN 0 ELSE refs - 1
    /\ UNCHANGED <<event_loop, running, arg, quits, q, libvars, sigs, told, pinched>>

\* The loop is given up if it is still there; lble_disconnect, which reports
\* that a link is down; lble_freedev and return.
After ==
    /\ pc = "after" /\ Calm
    /\ refs' = IF event_loop THEN refs - 1 ELSE refs
    /\ quits' = IF lib = "up" THEN 1 ELSE 0
    /\ lib' = "down"
    /\ pc' = "last"
    /\ UNCHANGED <<event_loop, running, arg, q, discover, app, sigs, told, uaf, pinched>>
Return ==
    /\ pc = "last" /\ Calm
    /\ pc' = "done"
    /\ UNCHANGED <<loopvars, arg, quits, q, libvars, sigs, told, uaf, pinched>>

-----------------------------------------------------------------------------
(* notify_handler *)

\* Callbacks run from the loop, one after the other.
Callback == pc = "looping" /\ running /\ Calm

\* STATE_CONNECTED: listen, and discover the handles.
Connected ==
    /\ Callback /\ lib = "connecting"
    /\ lib' = "up"
    /\ UNCHANGED <<pc, loopvars, arg, quits, q, discover, app, sigs, told, uaf, pinched>>

\* The attempt fails: ERROR_OCCURED and then STATE_DISCONNECTED.
ConnectFails ==
    /\ Callback /\ lib = "connecting"
    /\ lib' = "down" /\ quits' = 2
    /\ UNCHANGED <<pc, loopvars, arg, q, discover, app, sigs, told, uaf, pinched>>

\* EVENT_UUID without data ends the discovery of the handles, and then that of
\* the characteristics, after which the application starts.
Discovered ==
    /\ Callback /\ lib = "up" /\ discover > 0
    /\ discover' = discover - 1
    /\ app' = (discover = 1)
    /\ UNCHANGED <<pc, loopvars, arg, quits, q, lib, sigs, told, uaf, pinched>>

\* ERROR_OCCURED for a discovery, a read or a write
Error ==
    /\ Callback /\ lib = "up"
    /\ quits' = 1
    /\ UNCHANGED <<pc, loopvars, arg, q, libvars, sigs, told, uaf, pinched>>

\* STATE_DISCONNECTED, when the library notices that the link is lost
Lost ==
    /\ Callback /\ lib = "up"
    /\ lib' = "down" /\ quits' = 1
    /\ UNCHANGED <<pc, loopvars, arg, q, discover, app, sigs, told, uaf, pinched>>

-----------------------------------------------------------------------------
(* quit(), by the event handler *)

\* if (event_loop)
QuitTest ==
    /\ quits > 0 /\ q = "none"
    /\ quits' = quits - 1
    /\ q' = IF event_loop THEN "load" ELSE "none"
    /\ told' = IF event_loop THEN "heard" ELSE told
    /\ UNCHANGED <<pc, loopvars, arg, libvars, sigs, uaf, pinched>>

\* The argument of g_main_loop_quit, and of g_main_loop_unref
QuitLoad ==
    /\ q \in {"load", "reload"}
    /\ q' = IF q = "load" THEN "quit" ELSE "unref"
    /\ arg' = event_loop
    /\ UNCHANGED <<pc, loopvars, quits, libvars, sigs, told, uaf, pinched>>

\* g_main_loop_quit, which refuses a NULL if a signal has been faster
QuitQuit ==
    /\ q = "quit"
    /\ q' = "reload"
    /\ running' = (running /\ ~arg)
    /\ uaf' = (uaf \/ (arg /\ refs = 0))
    /\ UNCHANGED <<pc, event_loop, refs, arg, quits, libvars, sigs, told, pinched>>

\* g_main_loop_unref, likewise
QuitUnref ==
    /\ q = "unref"
    /\ q' = "clear"
    /\ refs' = IF arg /\ refs > 0 THEN refs - 1 ELSE refs
    /\ uaf' = (uaf \/ (arg /\ refs = 0))
    /\ UNCHANGED <<pc, event_loop, running, arg, quits, libvars, sigs, told, pinched>>

\* event_loop = NULL
QuitClear ==
    /\ q = "clear"
    /\ q' = "none"
    /\ event_loop' = FALSE
    /\ UNCHANGED <<pc, refs, running, arg, quits, libvars, sigs, told, uaf, pinched>>

\* Mutant of SigQuit: the handler does not clear the variable.
SigQuitKeeps ==
    /\ refs' = refs - 1 /\ running' = FALSE
    /\ UNCHANGED event_loop

\* Mutant of SigQuit: the reference is given back, the loop not told to end.
SigQuitUnrefs ==
    /\ refs' = refs - 1 /\ event_loop' = FALSE
    /\ UNCHANGED running

\* quit() all at once, with a loop
SigQuit == event_loop' = FALSE /\ refs' = refs - 1 /\ running' = FALSE

\* Where a signal that takes event_loop's reference leaves the program with a
\* loop it has no reference to: between a load of event_loop and what
\* g_main_loop_run or g_main_loop_unref does with the count, and before quit()
\* clears the variable.
Exposed == pc = "run" \/ (q = "unref" /\ arg) \/ q = "clear"

\* sigint: the signal is held back while it runs.  Before the loop exists quit()
\* finds nothing, and g_main_loop_run overwrites what it does to is_running
\* just before.
SigInt ==
    /\ sigs < MaxSig /\ pc # "done"
    /\ sigs' = sigs + 1
    /\ IF event_loop
       THEN /\ SigQuit
            /\ told' = IF pc = "entered" THEN "missed" ELSE "heard"
            /\ uaf' = (uaf \/ refs = 0 \/ (refs = 1 /\ pc = "looping"))
            /\ pinched' = (pinched \/ Exposed)
       ELSE /\ told' = IF pc \in {"connect", "new"} THEN "missed" ELSE told
            /\ UNCHANGED <<loopvars, uaf, pinched>>
    /\ UNCHANGED <<pc, arg, quits, q, libvars>>

-----------------------------------------------------------------------------
Init ==
    /\ pc = "connect"
    /\ event_loop = FALSE /\ refs = 0 /\ running = FALSE
    /\ arg = FALSE /\ quits = 0 /\ q = "none"
    /\ lib = "none" /\ discover = 2 /\ app = FALSE
    /\ sigs = 0
    /\ told = "no" /\ uaf = FALSE /\ pinched = FALSE

Program ==
    \/ \E ok \in BOOLEAN : Connect(ok)
    \/ NewLoop \/ Test \/ Load \/ Run \/ SetRunning \/ RunReturns \/ After \/ Return
    \/ QuitTest \/ QuitLoad \/ QuitQuit \/ QuitUnref \/ QuitClear

Next ==
    /\ ~uaf
    /\ \/ Program
       \/ Connected \/ ConnectFails \/ Discovered \/ Error \/ Lost
       \/ SigInt

\* The program does not stop by itself; the device, the link and the user may.
Spec == Init /\ [][Next]_vars /\ WF_vars(~uaf /\ Program)

-----------------------------------------------------------------------------
(* Properties *)

\* The loop is not used after its last reference went, however signals fall
\* between the steps of vecs_connect and of quit(), but for three places
\* (Exposed): after event_loop was loaded for g_main_loop_run, after it was
\* loaded for g_main_loop_unref in quit() (vecs.c:69), and before quit() clears
\* it (vecs.c:70).  A signal there takes a reference the program still counts on.
LoopOutlivesRun == uaf => pinched

\* Once quit() was called, from a signal, an error or the end of the connection,
\* vecs_connect returns, unless the call was missed: it came before the loop
\* existed, as every failure inside lble_connect does, or in g_main_loop_run
\* before is_running was set.  Then the program runs until another quit() is heard.
StopsWhenTold == told # "no" ~> (pc = "done" \/ uaf \/ told = "missed")
=============================================================================
