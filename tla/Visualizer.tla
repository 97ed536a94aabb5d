------------------------------- MODULE Visualizer -------------------------------
(***************************************************************************)
(* The live visualizer: a simulation thread that runs one sample period at *)
(* a time, and the GUI thread that lets it go, shows what it did and       *)
(* handles the user.                                                       *)
(*                                                                         *)
(*   src/src/visualizer/visualizer/core.py                                 *)
(*   src/src/visualizer/model/pyviz.cc                                     *)
(*                                                                         *)
(* The lock is held by the simulation thread exactly while it runs: what   *)
(* the GUI does under the lock shares nothing else with that thread and is *)
(* one step. update_view_timeout polls the lock and runs the event loop in *)
(* between, so that other handlers, itself included, are nested in it: the *)
(* stack holds the handlers that have not returned. GLib and Gtk are       *)
(* external: a source is not dispatched again while it is being            *)
(* dispatched, nor while one of higher priority is ready.                  *)
(*                                                                         *)
(* Times are relative: lag is how far the simulation is past the time the  *)
(* view has shown, togo how far it is before target_time.                  *)
(***************************************************************************)
EXTENDS Integers, Sequences, FiniteSets

CONSTANTS
  Periods,      \* values of sample_period
  MaxUser,      \* bound: things the user does
  MaxMessages,  \* bound: pause messages of the simulation
  MaxTimers     \* bound: timeout sources at a time

ASSUME VisualizerAssumption ==
  /\ Periods \subseteq Nat \ {0} /\ 1 \in Periods
  /\ MaxUser \in Nat /\ MaxMessages \in Nat /\ MaxTimers \in Nat

VARIABLES
  sim,                \* where the simulation thread is
  go, quit,           \* the event and the flag of SimulationThread
  pause_messages,     \* messages not yet taken by the view
  raised,             \* messages the simulation has raised
  shown,              \* messages a dialog has shown
  lag, togo,
  granted,            \* the period the last view granted
  sample_period,
  stack,              \* the handlers the GUI thread is in, innermost last
  idle,               \* update_model callbacks that wait for the GUI
  live,               \* timeout sources of update_view_timeout
  timeout_id,         \* _update_timeout_id
  play,               \* the play button is active
  main_quit,          \* Gtk.main_quit was called
  user                \* things the user did

vars == <<sim, go, quit, pause_messages, raised, shown, lag, togo, granted, sample_period,
          stack, idle, live, timeout_id, play, main_quit, user>>

timerVars == <<live, timeout_id, play, sample_period>>
timeVars  == <<lag, togo, granted>>
msgVars   == <<pause_messages, raised, shown>>

NoId == 0
Ids  == 1 .. MaxTimers + 3

Frame(phase, id, messages) == [phase |-> phase, id |-> id, messages |-> messages]
Top     == stack[Len(stack)]
Pop     == SubSeq(stack, 1, Len(stack) - 1)
Goto(p) == [stack EXCEPT ![Len(stack)].phase = p]
In(p)   == stack # <<>> /\ Top.phase = p

(* The visualizer has started: the speed control's first callback has set   *)
(* a timer although the play button is not active.                          *)
Init ==
  /\ sim = "top" /\ go = FALSE /\ quit = FALSE
  /\ pause_messages = {} /\ raised = 0 /\ shown = {}
  /\ lag = 0 /\ togo = 0 /\ granted = 0 /\ sample_period = 1
  /\ stack = <<>> /\ idle = 0
  /\ live = {1} /\ timeout_id = 1
  /\ play = FALSE /\ main_quit = FALSE /\ user = 0

-----------------------------------------------------------------------------
(* The simulation thread.                                                   *)
SimGoto(from, to) == sim = from /\ sim' = to

guiVars == <<stack, timerVars, main_quit, user>>

SimTop ==
  /\ SimGoto("top", IF quit THEN "ended" ELSE "wait")
  /\ UNCHANGED <<go, quit, msgVars, timeVars, idle, guiVars>>

SimWait ==
  /\ go /\ SimGoto("wait", "clear")
  /\ UNCHANGED <<go, quit, msgVars, timeVars, idle, guiVars>>

SimClear ==
  /\ SimGoto("clear", "test")
  /\ go' = FALSE
  /\ UNCHANGED <<quit, msgVars, timeVars, idle, guiVars>>

SimTest ==
  /\ SimGoto("test", IF quit THEN "ended" ELSE "acquire")
  /\ UNCHANGED <<go, quit, msgVars, timeVars, idle, guiVars>>

SimAcquire ==
  /\ SimGoto("acquire", "running")
  /\ UNCHANGED <<go, quit, msgVars, timeVars, idle, guiVars>>

(* PyViz::SimulatorRunUntil: the simulation runs to target_time, or less    *)
(* far when the program stops it, and a pause may raise a message; at       *)
(* target_time already it does not run at all.                              *)
SimulatorRunUntil(d, n) ==
  /\ lag' = lag + d /\ togo' = togo - d
  /\ togo = 0 => n = 0

(* Defect: the list of messages is replaced, not extended. *)
RunUntilMutant ==
  /\ SimGoto("running", "top")
  /\ \E d \in 0 .. togo, n \in {0, 1} :
       /\ SimulatorRunUntil(d, n)
       /\ raised + n <= MaxMessages
       /\ raised' = raised + n
       /\ pause_messages' = raised + 1 .. raised + n
  /\ idle' = idle + 1
  /\ UNCHANGED <<go, quit, shown, granted, guiVars>>

(* SimulatorRunUntil and what follows under the lock: the messages are      *)
(* taken over and a view update is asked for.                               *)
RunUntil ==
  /\ SimGoto("running", "top")
  /\ \E d \in 0 .. togo, n \in {0, 1} :
       /\ SimulatorRunUntil(d, n)
       /\ raised + n <= MaxMessages
       /\ raised' = raised + n
       /\ pause_messages' = pause_messages \cup (raised + 1 .. raised + n)
  /\ idle' = idle + 1
  /\ UNCHANGED <<go, quit, shown, granted, guiVars>>

Busy == sim = "running"

SimStep == SimTop \/ SimWait \/ SimClear \/ SimTest \/ SimAcquire \/ RunUntil

-----------------------------------------------------------------------------
(* update_view_timeout.                                                     *)
simVars == <<sim, quit, raised>>

(* the event loop dispatches: the outer one, or one nested in a view        *)
(* update; the handlers a nested loop may still run after _quit has         *)
(* returned, before the outer loop ends, are left out                       *)
AtLoop == ~quit /\ (stack = <<>> \/ In("poll"))

FireTimer(id) ==
  /\ AtLoop /\ idle = 0
  /\ id \in live /\ \A i \in DOMAIN stack : stack[i].id # id
  /\ stack' = Append(stack, Frame("try", id, {}))
  /\ UNCHANGED <<simVars, go, pause_messages, shown, timeVars, idle, timerVars, main_quit, user>>

(* the lock is taken by someone: handle events, then try again *)
TryFails ==
  /\ In("try") /\ Busy
  /\ stack' = Goto("poll")
  /\ UNCHANGED <<simVars, go, pause_messages, shown, timeVars, idle, timerVars, main_quit, user>>

NothingPending ==
  /\ In("poll")
  /\ stack' = Goto("try")
  /\ UNCHANGED <<simVars, go, pause_messages, shown, timeVars, idle, timerVars, main_quit, user>>

(* Defect: the target moves on from the last target, not from the present. *)
ViewMutant ==
  /\ In("try") /\ ~Busy
  /\ stack' = [Goto("shown") EXCEPT ![Len(stack)].messages = pause_messages]
  /\ pause_messages' = {}
  /\ lag' = 0 /\ togo' = togo + sample_period /\ granted' = sample_period
  /\ UNCHANGED <<simVars, go, shown, idle, timerVars, main_quit, user>>

View ==
  /\ In("try") /\ ~Busy
  /\ stack' = [Goto("shown") EXCEPT ![Len(stack)].messages = pause_messages]
  /\ pause_messages' = {}
  /\ lag' = 0 /\ togo' = sample_period /\ granted' = sample_period
  /\ UNCHANGED <<simVars, go, shown, idle, timerVars, main_quit, user>>

(* Defect: the callback returns nothing, which GLib takes as False. *)
ViewReturnsMutant ==
  /\ In("shown")
  /\ stack' = Pop
  /\ shown' = shown \cup Top.messages
  /\ play' = (play /\ Top.messages = {})
  /\ live' = live \ {Top.id}
  /\ timeout_id' = IF play' THEN timeout_id ELSE NoId
  /\ go' = (go \/ play')
  /\ UNCHANGED <<simVars, pause_messages, timeVars, idle, sample_period, main_quit, user>>

(* After the lock: a message shows a dialog and releases the play button,   *)
(* whose handler removes the timer it knows of. If the button is not active *)
(* the callback forgets the timer and ends its own source; otherwise the    *)
(* simulation may go on.                                                    *)
ViewReturns ==
  /\ In("shown")
  /\ stack' = Pop
  /\ shown' = shown \cup Top.messages
  /\ play' = (play /\ Top.messages = {})
  /\ LET released == IF play /\ ~play' THEN {timeout_id} ELSE {}
         ended    == IF play' THEN {} ELSE {Top.id}
     IN live' = live \ (released \cup ended)
  /\ timeout_id' = IF play' THEN timeout_id ELSE NoId
  /\ go' = (go \/ play')
  /\ UNCHANGED <<simVars, pause_messages, timeVars, idle, sample_period, main_quit, user>>

-----------------------------------------------------------------------------
(* The other handlers. Those that take the lock hold up the GUI thread      *)
(* until the simulation is not running.                                     *)
UpdateModel ==
  /\ AtLoop /\ idle > 0
  /\ idle' = idle - 1
  /\ stack' = Append(stack, Frame("blocked", NoId, {}))
  /\ UNCHANGED <<simVars, go, pause_messages, shown, timeVars, timerVars, main_quit, user>>

BlockedReturns ==
  /\ In("blocked") /\ ~Busy
  /\ stack' = Pop
  /\ UNCHANGED <<simVars, go, pause_messages, shown, timeVars, idle, timerVars, main_quit, user>>

UserActs ==
  /\ AtLoop /\ user < MaxUser
  /\ user' = user + 1

(* a tooltip, the drag of a node, a choice of nodes, a new window *)
UserQuery ==
  /\ UserActs
  /\ stack' = Append(stack, Frame("blocked", NoId, {}))
  /\ UNCHANGED <<simVars, go, pause_messages, shown, timeVars, idle, timerVars, main_quit>>

(* an identifier GLib has not given to a source still known to anyone *)
Fresh(id) == id \notin live \cup {timeout_id} \cup {stack[i].id : i \in DOMAIN stack}

(* Defect: a timer whose identifier is known is taken to be running. *)
StartUpdateTimerMutant ==
  /\ Cardinality(live) < MaxTimers
  /\ IF timeout_id # NoId THEN UNCHANGED <<live, timeout_id>>
     ELSE \E id \in {i \in Ids : Fresh(i) /\ \A j \in Ids : Fresh(j) => i <= j} :
            live' = live \cup {id} /\ timeout_id' = id

StartUpdateTimer ==
  /\ Cardinality(live) < MaxTimers
  /\ \E id \in {i \in Ids : Fresh(i) /\ \A j \in Ids : Fresh(j) => i <= j} :
       live' = (live \ {timeout_id}) \cup {id} /\ timeout_id' = id

UserTogglesPlay ==
  /\ UserActs
  /\ play' = ~play
  /\ IF play' THEN StartUpdateTimer
     ELSE live' = live \ {timeout_id} /\ UNCHANGED timeout_id
  /\ UNCHANGED <<simVars, go, pause_messages, shown, timeVars, idle, stack, sample_period, main_quit>>

UserChangesSpeed ==
  /\ UserActs
  /\ sample_period' \in Periods
  /\ StartUpdateTimer
  /\ UNCHANGED <<simVars, go, pause_messages, shown, timeVars, idle, stack, play, main_quit>>

(* _quit, up to the flag; the user may always close the window *)
UserQuits ==
  /\ AtLoop
  /\ live' = live \ {timeout_id} /\ timeout_id' = NoId
  /\ quit' = TRUE
  /\ stack' = Append(stack, Frame("quitting", NoId, {}))
  /\ UNCHANGED <<sim, raised, go, pause_messages, shown, timeVars, idle, play, sample_period,
                 main_quit, user>>

(* Defect: the thread that waits for the go signal is not woken. *)
QuitGoMutant ==
  /\ In("quitting")
  /\ stack' = Goto("join")
  /\ UNCHANGED <<simVars, go, pause_messages, shown, timeVars, idle, timerVars, main_quit, user>>

QuitGo ==
  /\ In("quitting")
  /\ go' = TRUE
  /\ stack' = Goto("join")
  /\ UNCHANGED <<simVars, pause_messages, shown, timeVars, idle, timerVars, main_quit, user>>

Joined ==
  /\ In("join") /\ sim = "ended"
  /\ stack' = Pop
  /\ main_quit' = TRUE
  /\ UNCHANGED <<simVars, go, pause_messages, shown, timeVars, idle, timerVars, user>>

-----------------------------------------------------------------------------
ViewStep ==
  \/ \E id \in live : FireTimer(id)
  \/ TryFails \/ NothingPending \/ View \/ ViewReturns

GuiStep == ViewStep \/ UpdateModel \/ BlockedReturns \/ QuitGo \/ Joined

UserStep == UserQuery \/ UserTogglesPlay \/ UserChangesSpeed \/ UserQuits

Next == SimStep \/ GuiStep \/ UserStep

Spec == Init /\ [][Next]_vars

FairSpec == Spec /\ WF_vars(SimStep) /\ WF_vars(GuiStep)

-----------------------------------------------------------------------------
Taken == UNION {stack[i].messages : i \in DOMAIN stack}

(* Every pause message the simulation raised is shown once: until a dialog  *)
(* shows it, it is in pause_messages or with exactly one of the view        *)
(* updates that are under way, however the threads run and view updates     *)
(* are nested.                                                              *)
NoMessageLost ==
  /\ 1 .. raised = pause_messages \cup Taken \cup shown
  /\ pause_messages \cap (Taken \cup shown) = {} /\ Taken \cap shown = {}
  /\ \A i, j \in DOMAIN stack : i # j => stack[i].messages \cap stack[j].messages = {}

(* The simulation is never further than one sample period past the time the *)
(* view has shown, although go signals may be given twice or lost.          *)
SimStaysNearView == lag <= granted

(* Back in the main loop with the play button active, the timer the         *)
(* visualizer knows of is a source that exists, although handlers nested in *)
(* a view update may have removed and started timers under it.              *)
PlayKeepsTimer == (stack = <<>> /\ play /\ ~quit) => timeout_id \in live

(* As long as the play button stays active the simulation runs again and    *)
(* again: no go signal is lost for good and no lock keeps it out.           *)
PlayAdvances == <>[](play /\ ~quit) => []<>(sim = "running")

(* Closing the window, at any moment, ends the simulation thread and the    *)
(* main loop: the join does not wait for a thread that waits for the GUI.   *)
QuitCompletes == quit ~> (main_quit /\ stack = <<>> /\ sim = "ended")
=============================================================================
