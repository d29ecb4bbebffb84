----------------------------- MODULE VecsProofs -----------------------------
(* The loop of vecs_connect is not used after it was freed, for any number  *)
(* of signals at any place but the three LoopOutlivesRun names.  The     *)
(* invariant accounts for every reference: the one event_loop stands for    *)
(* and the one g_main_loop_run holds.                                       *)
EXTENDS Vecs, TLAPS

-----------------------------------------------------------------------------
(* The invariant *)

\* quit() of the event handler runs only under g_main_loop_run.
OneQuit == /\ q \in {"none", "load", "quit", "reload", "unref", "clear"}
           /\ q # "none" => pc = "looping"

\* Before the loop exists, and when it has ended, nothing refers to it.
NoLoop == pc \notin {"test", "load", "run", "entered", "looping"} => ~event_loop

\* The loop is made but does not run: the one reference is event_loop's, and
\* then there is that of g_main_loop_run.
Made == /\ pc \in {"test", "load", "run", "entered"} => quits = 0
        /\ pc \in {"test", "load", "run"} => refs = IF event_loop THEN 1 ELSE 0
        /\ pc = "run" => event_loop
        /\ pc = "entered" => refs = IF event_loop THEN 2 ELSE 1

\* The loop runs: event_loop's reference goes before the variable is cleared,
\* a loop loaded for g_main_loop_unref is one the variable still stands for,
\* and the variable is not left behind when the loop has been told to end.
Running == pc = "looping" =>
               /\ refs = IF event_loop /\ q # "clear" THEN 2 ELSE 1
               /\ q = "unref" => (arg <=> event_loop)
               /\ q = "quit" => (event_loop => arg)
               /\ event_loop /\ q \in {"none", "load", "quit"} => running
               /\ ~event_loop /\ q # "none" => ~running
               /\ q \in {"reload", "unref", "clear"} => ~running

\* As long as no signal came where the loop cannot stand it.
Counted == pinched \/ (~uaf /\ OneQuit /\ NoLoop /\ Made /\ Running)

-----------------------------------------------------------------------------
(* The steps *)

\* A signal finds the loop with all its references, or comes in one of the
\* three places.
LEMMA CountedSignal ==
    ASSUME Counted, ~pinched, SigInt
    PROVE  Counted'
<1> USE DEF Counted, OneQuit, NoLoop, Made, Running, loopvars, libvars
<1>1. CASE event_loop /\ Exposed
  BY <1>1 DEF SigInt
<1>2. CASE event_loop /\ ~Exposed
  BY <1>2 DEF SigInt, SigQuit, Exposed
<1>3. CASE ~event_loop
  BY <1>3 DEF SigInt
<1> QED
  BY <1>1, <1>2, <1>3

\* Every step of the program, of the library and of a signal keeps account.
LEMMA CountedStep ==
    ASSUME Counted, [Next]_vars
    PROVE  Counted'
<1> USE DEF Counted, OneQuit, NoLoop, Made, Running, loopvars, libvars, Calm
<1>0. CASE pinched
  BY <1>0 DEF Next, Program, Connect, NewLoop, Test, Load, Run, SetRunning,
     RunReturns, After, Return, QuitTest, QuitLoad, QuitQuit, QuitUnref, QuitClear, Connected, ConnectFails,
     Discovered, Error, Lost, SigInt, vars
<1>1. CASE ~pinched
  <2>1. ASSUME NEW ok \in BOOLEAN, Connect(ok) PROVE Counted'
    BY <1>1, <2>1 DEF Connect
  <2>2. ASSUME NewLoop PROVE Counted'
    BY <1>1, <2>2 DEF NewLoop
  <2>3. ASSUME Test PROVE Counted'
    BY <1>1, <2>3 DEF Test
  <2>3a. ASSUME Load PROVE Counted'
    BY <1>1, <2>3a DEF Load
  <2>4. ASSUME Run PROVE Counted'
    <3>1. refs # 0
      BY <1>1, <2>4 DEF Run
    <3>2. ~uaf /\ uaf' = (uaf \/ refs = 0)
      BY <1>1, <2>4, Zenon DEF Run
    <3>3. ~uaf'
      BY <3>1, <3>2, Zenon
    <3> QED
      BY <1>1, <2>4, <3>3 DEF Run
  <2>4a. ASSUME SetRunning PROVE Counted'
    BY <1>1, <2>4a DEF SetRunning
  <2>5. ASSUME RunReturns PROVE Counted'
    <3>1. refs # 0
      BY <1>1, <2>5 DEF RunReturns
    <3>2. ~uaf /\ uaf' = (uaf \/ refs = 0)
      BY <1>1, <2>5, Zenon DEF RunReturns
    <3>3. ~uaf'
      BY <3>1, <3>2, Zenon
    <3> QED
      BY <1>1, <2>5, <3>3 DEF RunReturns
  <2>6. ASSUME After \/ Return PROVE Counted'
    BY <1>1, <2>6 DEF After, Return
  <2>7. ASSUME QuitTest PROVE Counted'
    BY <1>1, <2>7 DEF QuitTest
  <2>7a. ASSUME QuitLoad PROVE Counted'
    BY <1>1, <2>7a DEF QuitLoad
  <2>8. ASSUME QuitQuit PROVE Counted'
    <3>1. refs # 0
      BY <1>1, <2>8 DEF QuitQuit
    <3>2. ~uaf /\ uaf' = (uaf \/ (arg /\ refs = 0))
      BY <1>1, <2>8, Zenon DEF QuitQuit
    <3>3. ~uaf'
      BY <3>1, <3>2, Zenon
    <3>4. running' = (running /\ ~arg) /\ (event_loop => arg)
      BY <1>1, <2>8, Zenon DEF QuitQuit
    <3>5. ~running'
      BY <1>1, <2>8, <3>4 DEF QuitQuit
    <3> QED
      BY <1>1, <2>8, <3>3, <3>5 DEF QuitQuit
  <2>9. ASSUME QuitUnref PROVE Counted'
    <3>1. refs # 0
      BY <1>1, <2>9 DEF QuitUnref
    <3>2. ~uaf /\ uaf' = (uaf \/ (arg /\ refs = 0))
      BY <1>1, <2>9, Zenon DEF QuitUnref
    <3>3. ~uaf'
      BY <3>1, <3>2, Zenon
    <3> QED
      BY <1>1, <2>9, <3>3 DEF QuitUnref
  <2>10. ASSUME QuitClear PROVE Counted'
    BY <1>1, <2>10 DEF QuitClear
  <2>11. ASSUME Connected \/ ConnectFails \/ Discovered \/ Error \/ Lost
         PROVE  Counted'
    BY <1>1, <2>11
       DEF Connected, ConnectFails, Discovered, Error, Lost, Callback
  <2>12. ASSUME SigInt PROVE Counted'
    BY <1>1, <2>12, CountedSignal
  <2>13. ASSUME UNCHANGED vars PROVE Counted'
    BY <1>1, <2>13 DEF vars
  <2> QED
    BY <2>1, <2>2, <2>3, <2>3a, <2>4, <2>4a, <2>5, <2>6, <2>7, <2>7a, <2>8, <2>9, <2>10, <2>11,
       <2>12, <2>13 DEF Next, Program
<1> QED
  BY <1>0, <1>1

-----------------------------------------------------------------------------

\* However many signals fall between the steps of vecs_connect and of quit(),
\* the loop is used after its last reference went only if one of them came in
\* one of the three places: behind the load of event_loop for g_main_loop_run
\* or for g_main_loop_unref, or before quit() clears event_loop.
THEOREM LoopOutlivesRunCorrect == Spec => []LoopOutlivesRun
<1>1. Init => Counted
  BY DEF Init, Counted, OneQuit, NoLoop, Made, Running
<1>2. Counted => LoopOutlivesRun
  BY DEF Counted, LoopOutlivesRun
<1> QED
  BY <1>1, <1>2, CountedStep, PTL DEF Spec
=============================================================================
