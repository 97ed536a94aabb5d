---------------------------- MODULE VisualizerProofs ----------------------------
(***************************************************************************)
(* Proofs about Visualizer, for every set of sample periods and any number *)
(* of user actions, messages and timers, however deep view updates are     *)
(* nested.                                                                 *)
(***************************************************************************)
EXTENDS Visualizer, SequenceTheorems, TLAPS

Frames == [phase : {"try", "poll", "shown", "blocked", "quitting", "join"},
           id : Ids \cup {NoId}, messages : SUBSET Nat]

Types ==
  /\ stack \in Seq(Frames) /\ live \subseteq Ids
  /\ raised \in Nat /\ pause_messages \subseteq Nat /\ shown \subseteq Nat
  /\ sample_period \in Nat /\ lag \in Nat /\ togo \in Nat /\ granted \in Nat

MessagesOf(s) == UNION {s[i].messages : i \in DOMAIN s}
Apart(s)      == \A i, j \in DOMAIN s : i # j => s[i].messages \cap s[j].messages = {}

(* A view update has messages in hand only between the two places where it  *)
(* takes and shows them; View would otherwise overwrite some.               *)
InHand(s) == \A i \in DOMAIN s : s[i].phase # "shown" => s[i].messages = {}

(* What the view granted and the simulation has not used is still to go. *)
GrantInv == lag + togo <= granted

(* Also inside nested handlers, not only back in the main loop. *)
TimerInv == play /\ ~quit => timeout_id \in live

MsgInv == NoMessageLost /\ InHand(stack)

VInv == Types /\ GrantInv /\ TimerInv /\ MsgInv

-----------------------------------------------------------------------------
(* The stack of handlers: a handler begins, ends, and goes on. *)
LEMMA PushFrame ==
  ASSUME NEW s \in Seq(Frames), NEW f \in Frames, f.messages = {}
  PROVE  LET t == Append(s, f)
         IN  /\ t \in Seq(Frames) /\ MessagesOf(t) = MessagesOf(s)
             /\ Apart(s) => Apart(t)
             /\ InHand(s) => InHand(t)
<1> DEFINE t == Append(s, f)
           n == Len(s) + 1
<1>1. /\ t \in Seq(Frames) /\ DOMAIN t = 1 .. n /\ DOMAIN s = 1 .. Len(s) /\ Len(s) \in Nat
      /\ \A i \in DOMAIN s : t[i] = s[i]
      /\ t[n] = f
  OBVIOUS
<1>2. DOMAIN t = DOMAIN s \cup {n}
  BY <1>1
<1> HIDE DEF t, n
<1>3. MessagesOf(t) = MessagesOf(s)
  BY <1>1, <1>2 DEF MessagesOf
<1>4. Apart(s) => Apart(t)
  BY <1>1, <1>2 DEF Apart
<1>5. InHand(s) => InHand(t)
  BY <1>1, <1>2 DEF InHand
<1> QED BY <1>1, <1>3, <1>4, <1>5 DEF t

LEMMA PopFrame ==
  ASSUME NEW s \in Seq(Frames), s # <<>>
  PROVE  LET t == SubSeq(s, 1, Len(s) - 1)
             f == s[Len(s)]
         IN  /\ t \in Seq(Frames) /\ f \in Frames
             /\ MessagesOf(s) = MessagesOf(t) \cup f.messages
             /\ Apart(s) => Apart(t) /\ MessagesOf(t) \cap f.messages = {}
             /\ InHand(s) => InHand(t) /\ (f.phase # "shown" => f.messages = {})
<1> DEFINE t == SubSeq(s, 1, Len(s) - 1)
           n == Len(s)
<1>1. n \in Nat /\ n >= 1 /\ DOMAIN s = 1 .. n /\ s[n] \in Frames
  OBVIOUS
<1>2. t \in Seq(Frames) /\ DOMAIN t = 1 .. n - 1 /\ \A i \in 1 .. n - 1 : t[i] = s[i]
  BY <1>1
<1>3. n \notin DOMAIN t /\ DOMAIN s = DOMAIN t \cup {n} /\ \A i \in DOMAIN t : t[i] = s[i]
  BY <1>1, <1>2
<1> HIDE DEF t, n
<1>4. MessagesOf(s) = MessagesOf(t) \cup s[n].messages
  BY <1>3 DEF MessagesOf
<1>5. Apart(s) => Apart(t) /\ MessagesOf(t) \cap s[n].messages = {}
  <2> SUFFICES ASSUME Apart(s) PROVE Apart(t) /\ MessagesOf(t) \cap s[n].messages = {}
    OBVIOUS
  <2>1. Apart(t)
    BY <1>3 DEF Apart
  <2>2. ASSUME NEW i \in DOMAIN t PROVE t[i].messages \cap s[n].messages = {}
    BY <1>3 DEF Apart
  <2> QED BY <2>1, <2>2 DEF MessagesOf
<1>6. InHand(s) => InHand(t) /\ (s[n].phase # "shown" => s[n].messages = {})
  BY <1>3 DEF InHand
<1> QED BY <1>1, <1>2, <1>4, <1>5, <1>6 DEF t, n

LEMMA ChangeFrame ==
  ASSUME NEW s \in Seq(Frames), NEW t \in Seq(Frames), s # <<>>, Len(t) = Len(s),
         s[Len(s)].messages = {}, \A i \in 1 .. Len(s) - 1 : t[i] = s[i],
         NEW M, t[Len(s)].messages = M, M \cap MessagesOf(s) = {},
         t[Len(s)].phase = "shown" \/ M = {}
  PROVE  /\ MessagesOf(t) = MessagesOf(s) \cup M
         /\ Apart(s) => Apart(t)
         /\ InHand(s) => InHand(t)
<1> DEFINE n == Len(s)
           D == 1 .. n - 1
<1>1. n \in Nat /\ n >= 1 /\ DOMAIN s = 1 .. n /\ DOMAIN t = 1 .. n
  OBVIOUS
<1>2. DOMAIN s = D \cup {n} /\ DOMAIN t = D \cup {n} /\ n \notin D /\ \A i \in D : t[i] = s[i]
  BY <1>1
<1> HIDE DEF D, n
<1>3. t[n].messages = M /\ s[n].messages = {}
  BY DEF n
<1>4. MessagesOf(t) = MessagesOf(s) \cup M
  BY <1>2, <1>3 DEF MessagesOf
<1>5. Apart(s) => Apart(t)
  <2>1. \A i \in D : t[i].messages \cap M = {}
    BY <1>2 DEF MessagesOf
  <2> QED BY <1>2, <1>3, <2>1 DEF Apart
<1>6. InHand(s) => InHand(t)
  BY <1>2, <1>3 DEF InHand, n
<1> QED BY <1>4, <1>5, <1>6

-----------------------------------------------------------------------------
LEMMA Constants == Periods \subseteq Nat /\ 1 \in Periods /\ Ids \subseteq Nat /\ 1 \in Ids
  BY VisualizerAssumption DEF Ids

LEMMA TopOfStack ==
  ASSUME NEW p, In(p), stack \in Seq(Frames)
  PROVE  /\ stack # <<>> /\ Len(stack) \in Nat /\ Len(stack) >= 1
         /\ Top = stack[Len(stack)] /\ Top \in Frames /\ Top.phase = p
<1>1. stack # <<>> /\ Top.phase = p
  BY DEF In
<1> QED BY <1>1 DEF Top

(* What the steps of the GUI do to the stack. *)
Pushes    == \E f \in Frames : f.messages = {} /\ stack' = Append(stack, f)
Drops     == stack # <<>> /\ stack[Len(stack)].phase # "shown" /\ stack' = SubSeq(stack, 1, Len(stack) - 1)
Passes(M) == /\ stack # <<>> /\ stack[Len(stack)].phase # "shown"
             /\ stack' \in Seq(Frames) /\ Len(stack') = Len(stack)
             /\ \A i \in 1 .. Len(stack) - 1 : stack'[i] = stack[i]
             /\ stack'[Len(stack)].messages = M
             /\ stack'[Len(stack)].phase = "shown" \/ M = {}

LEMMA MsgInvStated ==
  MsgInv <=> /\ 1 .. raised = pause_messages \cup MessagesOf(stack) \cup shown
             /\ pause_messages \cap (MessagesOf(stack) \cup shown) = {}
             /\ MessagesOf(stack) \cap shown = {}
             /\ Apart(stack) /\ InHand(stack)
  BY DEF MsgInv, NoMessageLost, Taken, MessagesOf, Apart

LEMMA QuietMessages ==
  ASSUME MsgInv, UNCHANGED msgVars, stack \in Seq(Frames),
         Pushes \/ Drops \/ Passes({}) \/ stack' = stack
  PROVE  MsgInv' /\ stack' \in Seq(Frames)
<1>0. UNCHANGED <<pause_messages, raised, shown>>
  BY DEF msgVars
<1>1. /\ MessagesOf(stack') = MessagesOf(stack) /\ Apart(stack') /\ InHand(stack')
      /\ stack' \in Seq(Frames)
  <2>a. Apart(stack) /\ InHand(stack)
    BY MsgInvStated
  <2>1. CASE Pushes
    BY <2>a, <2>1, PushFrame DEF Pushes
  <2>2. CASE Drops
    <3>1. stack # <<>> /\ stack' = SubSeq(stack, 1, Len(stack) - 1)
          /\ stack[Len(stack)].phase # "shown"
      BY <2>2 DEF Drops
    <3>2. /\ stack' \in Seq(Frames)
          /\ MessagesOf(stack) = MessagesOf(stack') \cup stack[Len(stack)].messages
          /\ Apart(stack') /\ InHand(stack') /\ stack[Len(stack)].messages = {}
      BY <2>a, <3>1, PopFrame
    <3> QED BY <3>2
  <2>3. CASE Passes({})
    <3>1. stack[Len(stack)].messages = {}
      <4>1. stack # <<>> /\ Len(stack) \in DOMAIN stack
        BY <2>3 DEF Passes
      <4> QED BY <2>a, <2>3, <4>1 DEF Passes, InHand
    <3>2. stack' \in Seq(Frames) /\ stack # <<>> /\ Len(stack') = Len(stack)
          /\ (\A i \in 1 .. Len(stack) - 1 : stack'[i] = stack[i])
          /\ stack'[Len(stack)].messages = {}
      BY <2>3 DEF Passes
    <3>3. PICK M : M = {}
      OBVIOUS
    <3>4. stack'[Len(stack)].messages = M /\ M \cap MessagesOf(stack) = {} /\ M = {}
      BY <3>2, <3>3
    <3>5. MessagesOf(stack') = MessagesOf(stack) \cup M /\ Apart(stack') /\ InHand(stack')
      BY <2>a, <3>1, <3>2, <3>4, ChangeFrame
    <3> QED BY <3>2, <3>3, <3>5
  <2>4. CASE stack' = stack
    BY <2>a, <2>4
  <2> QED BY <2>1, <2>2, <2>3, <2>4
<1>2. /\ 1 .. raised = pause_messages \cup MessagesOf(stack) \cup shown
      /\ pause_messages \cap (MessagesOf(stack) \cup shown) = {}
      /\ MessagesOf(stack) \cap shown = {}
  BY MsgInvStated
<1>3. /\ 1 .. raised' = pause_messages' \cup MessagesOf(stack') \cup shown'
      /\ pause_messages' \cap (MessagesOf(stack') \cup shown') = {}
      /\ MessagesOf(stack') \cap shown' = {}
  BY <1>0, <1>1, <1>2
<1>4. NoMessageLost'
  BY <1>1, <1>3 DEF NoMessageLost, Taken, MessagesOf, Apart
<1> QED BY <1>1, <1>4 DEF MsgInv, InHand

LEMMA GotoFrame ==
  ASSUME NEW p, In(p), p # "shown", stack \in Seq(Frames), NEW f \in Frames,
         f.phase = "shown" \/ f.messages = {}, stack' = [stack EXCEPT ![Len(stack)] = f]
  PROVE  Passes(f.messages)
<1>1. /\ stack # <<>> /\ Len(stack) \in Nat /\ Len(stack) >= 1
      /\ stack[Len(stack)].phase = p
  BY TopOfStack
<1>2. Len(stack) \in 1 .. Len(stack)
  BY <1>1
<1>3. /\ stack' \in Seq(Frames) /\ Len(stack') = Len(stack)
      /\ \A j \in 1 .. Len(stack) : stack'[j] = IF j = Len(stack) THEN f ELSE stack[j]
  BY <1>2, ExceptSeq
<1>4. \A i \in 1 .. Len(stack) - 1 : i \in 1 .. Len(stack) /\ i # Len(stack)
  BY <1>1
<1>5. stack'[Len(stack)] = f
  BY <1>2, <1>3
<1>6. \A i \in 1 .. Len(stack) - 1 : stack'[i] = stack[i]
  BY <1>3, <1>4
<1> QED BY <1>1, <1>3, <1>5, <1>6 DEF Passes

(* the record of a handler that goes on without messages *)
LEMMA GotoQuiet ==
  ASSUME NEW p, In(p), p # "shown", stack \in Seq(Frames), InHand(stack),
         NEW q \in {"try", "poll", "blocked", "quitting", "join"}, stack' = Goto(q)
  PROVE  Passes({})
<1>1. /\ stack # <<>> /\ Len(stack) \in Nat /\ Len(stack) >= 1
      /\ stack[Len(stack)] \in Frames /\ stack[Len(stack)].phase = p
  BY TopOfStack
<1>2. Len(stack) \in DOMAIN stack
  BY <1>1
<1>3. stack[Len(stack)].messages = {}
  BY <1>1, <1>2 DEF InHand
<1>4. PICK f : f = [stack[Len(stack)] EXCEPT !.phase = q]
  OBVIOUS
<1>5. f \in Frames /\ f.messages = {}
  BY <1>1, <1>3, <1>4 DEF Frames
<1>6. stack' = [stack EXCEPT ![Len(stack)] = f]
  BY <1>4 DEF Goto
<1>7. Passes(f.messages)
  BY <1>5, <1>6, GotoFrame
<1> QED BY <1>5, <1>7

-----------------------------------------------------------------------------
LEMMA InitVInv == Init => VInv
<1> SUFFICES ASSUME Init PROVE VInv
  OBVIOUS
<1>1. Types
  BY Constants DEF Init, Types
<1>2. GrantInv /\ TimerInv
  BY DEF Init, GrantInv, TimerInv
<1>3. MsgInv
  <2>1. DOMAIN stack = {} /\ pause_messages = {} /\ shown = {} /\ 1 .. raised = {}
    BY DEF Init
  <2> QED BY <2>1 DEF MsgInv, NoMessageLost, Taken, InHand
<1> QED BY <1>1, <1>2, <1>3 DEF VInv

(* Messages are raised under the lock, taken under the lock by the one view *)
(* update that then shows them, and touched by nothing else.                *)
LEMMA NextMessages ==
  ASSUME Types, MsgInv, [Next]_vars
  PROVE  MsgInv' /\ stack' \in Seq(Frames) /\ raised' \in Nat
         /\ pause_messages' \subseteq Nat /\ shown' \subseteq Nat
<1>0. /\ stack \in Seq(Frames) /\ raised \in Nat /\ pause_messages \subseteq Nat
      /\ shown \subseteq Nat /\ live \subseteq Ids
  BY DEF Types
<1>h. Apart(stack) /\ InHand(stack)
  BY MsgInvStated
<1>1. CASE UNCHANGED msgVars /\ (Pushes \/ Drops \/ Passes({}) \/ stack' = stack)
  <2>1. MsgInv' /\ stack' \in Seq(Frames)
    BY <1>0, <1>1, QuietMessages
  <2> QED BY <1>0, <1>1, <2>1 DEF msgVars
<1>2. ASSUME \/ SimTop \/ SimWait \/ SimClear \/ SimTest \/ SimAcquire \/ UserTogglesPlay
             \/ UserChangesSpeed \/ UNCHANGED vars
      PROVE  UNCHANGED msgVars /\ stack' = stack
  BY <1>2 DEF SimTop, SimWait, SimClear, SimTest, SimAcquire, UserTogglesPlay,
              UserChangesSpeed, vars, msgVars, guiVars, simVars
<1>3. ASSUME NEW id \in live, FireTimer(id) PROVE UNCHANGED msgVars /\ Pushes
  <2>1. Frame("try", id, {}) \in Frames /\ Frame("try", id, {}).messages = {}
    BY <1>0 DEF Frame, Frames
  <2> QED BY <1>3, <2>1 DEF FireTimer, Pushes, msgVars, simVars
<1>4. ASSUME UpdateModel \/ UserQuery \/ UserQuits PROVE UNCHANGED msgVars /\ Pushes
  <2>1. /\ Frame("blocked", NoId, {}) \in Frames /\ Frame("blocked", NoId, {}).messages = {}
        /\ Frame("quitting", NoId, {}) \in Frames /\ Frame("quitting", NoId, {}).messages = {}
    BY DEF Frame, Frames
  <2> QED BY <1>4, <2>1 DEF UpdateModel, UserQuery, UserQuits, Pushes, msgVars, simVars
<1>5. ASSUME BlockedReturns \/ Joined PROVE UNCHANGED msgVars /\ Drops
  BY <1>5 DEF BlockedReturns, Joined, In, Top, Pop, Drops, msgVars, simVars
<1>6. ASSUME TryFails \/ NothingPending \/ QuitGo PROVE UNCHANGED msgVars /\ Passes({})
  <2>1. UNCHANGED msgVars
    BY <1>6 DEF TryFails, NothingPending, QuitGo, msgVars, simVars
  <2>2. ASSUME TryFails PROVE Passes({})
    BY <1>0, <1>h, <2>2, GotoQuiet DEF TryFails
  <2>3. ASSUME NothingPending PROVE Passes({})
    BY <1>0, <1>h, <2>3, GotoQuiet DEF NothingPending
  <2>4. ASSUME QuitGo PROVE Passes({})
    BY <1>0, <1>h, <2>4, GotoQuiet DEF QuitGo
  <2> QED BY <1>6, <2>1, <2>2, <2>3, <2>4
<1>7. CASE RunUntil
  <2>1. PICK n \in {0, 1} : /\ raised' = raised + n
                            /\ pause_messages' = pause_messages \cup (raised + 1 .. raised + n)
                            /\ UNCHANGED <<shown, stack>>
    BY <1>7 DEF RunUntil, SimulatorRunUntil, guiVars
  <2>2. 1 .. raised' = (1 .. raised) \cup (raised + 1 .. raised + n)
    BY <1>0, <2>1
  <2>3. (raised + 1 .. raised + n) \cap (1 .. raised) = {} /\ raised' \in Nat
        /\ (raised + 1 .. raised + n) \subseteq Nat
    BY <1>0, <2>1
  <2>4. PICK X : X = raised + 1 .. raised + n
    OBVIOUS
  <2>5. PICK R : R = 1 .. raised
    OBVIOUS
  <2>6. /\ R = pause_messages \cup MessagesOf(stack) \cup shown
        /\ pause_messages \cap (MessagesOf(stack) \cup shown) = {}
        /\ MessagesOf(stack) \cap shown = {}
    BY <2>5, MsgInvStated
  <2>7. /\ 1 .. raised' = R \cup X /\ pause_messages' = pause_messages \cup X
        /\ X \cap R = {} /\ X \subseteq Nat
    BY <2>1, <2>2, <2>3, <2>4, <2>5
  <2>8. /\ 1 .. raised' = pause_messages' \cup MessagesOf(stack) \cup shown
        /\ pause_messages' \cap (MessagesOf(stack) \cup shown) = {}
    BY <2>6, <2>7
  <2>9. MsgInv'
    BY <1>h, <2>1, <2>6, <2>8 DEF MsgInv, NoMessageLost, Taken, MessagesOf, Apart, InHand
  <2> QED BY <1>0, <2>1, <2>3, <2>7, <2>9
<1>8. CASE View
  <2>0. In("try") /\ pause_messages' = {} /\ UNCHANGED <<raised, shown>>
        /\ stack' = [Goto("shown") EXCEPT ![Len(stack)].messages = pause_messages]
    BY <1>8 DEF View, simVars
  <2>1. /\ stack # <<>> /\ Len(stack) \in Nat /\ Len(stack) >= 1
        /\ stack[Len(stack)] \in Frames /\ stack[Len(stack)].phase = "try"
    BY <1>0, <2>0, TopOfStack
  <2>2. Len(stack) \in DOMAIN stack
    BY <2>1
  <2>3. stack[Len(stack)].messages = {}
    BY <1>h, <2>1, <2>2 DEF InHand
  <2>4. PICK f : f = [stack[Len(stack)] EXCEPT !.phase = "shown", !.messages = pause_messages]
    OBVIOUS
  <2>5. f \in Frames /\ f.messages = pause_messages /\ f.phase = "shown"
    BY <1>0, <2>1, <2>4 DEF Frames
  <2>6. stack' = [stack EXCEPT ![Len(stack)] = f]
    BY <1>0, <2>0, <2>2, <2>4 DEF Goto
  <2>7. Passes(f.messages)
    BY <1>0, <2>0, <2>5, <2>6, GotoFrame
  <2>8. PICK M : M = pause_messages
    OBVIOUS
  <2>9. /\ 1 .. raised = M \cup MessagesOf(stack) \cup shown
        /\ M \cap (MessagesOf(stack) \cup shown) = {} /\ MessagesOf(stack) \cap shown = {}
    BY <2>8, MsgInvStated
  <2>10. /\ stack' \in Seq(Frames) /\ Len(stack') = Len(stack)
         /\ \A i \in 1 .. Len(stack) - 1 : stack'[i] = stack[i]
    BY <2>7 DEF Passes
  <2>11. stack'[Len(stack)].messages = M /\ M \cap MessagesOf(stack) = {}
         /\ stack'[Len(stack)].phase = "shown"
    <3>1. stack'[Len(stack)] = f
      BY <1>0, <2>2, <2>6
    <3> QED BY <2>5, <2>8, <2>9, <3>1
  <2>12. MessagesOf(stack') = MessagesOf(stack) \cup M /\ Apart(stack') /\ InHand(stack')
    BY <1>0, <1>h, <2>1, <2>3, <2>10, <2>11, ChangeFrame
  <2>13. /\ 1 .. raised' = pause_messages' \cup MessagesOf(stack') \cup shown'
         /\ pause_messages' \cap (MessagesOf(stack') \cup shown') = {}
         /\ MessagesOf(stack') \cap shown' = {}
    BY <2>0, <2>9, <2>12
  <2>14. MsgInv'
    BY <2>12, <2>13 DEF MsgInv, NoMessageLost, Taken, MessagesOf, Apart, InHand
  <2> QED BY <1>0, <2>0, <2>10, <2>14
<1>9. CASE ViewReturns
  <2>1. stack # <<>> /\ stack' = SubSeq(stack, 1, Len(stack) - 1)
        /\ shown' = shown \cup stack[Len(stack)].messages /\ UNCHANGED <<raised, pause_messages>>
    BY <1>9 DEF ViewReturns, In, Top, Pop, simVars
  <2>2. PICK M : M = stack[Len(stack)].messages
    OBVIOUS
  <2>3. /\ stack' \in Seq(Frames) /\ stack[Len(stack)] \in Frames
        /\ MessagesOf(stack) = MessagesOf(stack') \cup M
        /\ Apart(stack') /\ MessagesOf(stack') \cap M = {} /\ InHand(stack')
    BY <1>0, <1>h, <2>1, <2>2, PopFrame
  <2>4. /\ 1 .. raised = pause_messages \cup MessagesOf(stack) \cup shown
        /\ pause_messages \cap (MessagesOf(stack) \cup shown) = {}
        /\ MessagesOf(stack) \cap shown = {}
    BY MsgInvStated
  <2>5. /\ 1 .. raised' = pause_messages' \cup MessagesOf(stack') \cup shown'
        /\ pause_messages' \cap (MessagesOf(stack') \cup shown') = {}
        /\ MessagesOf(stack') \cap shown' = {}
    BY <2>1, <2>2, <2>3, <2>4
  <2>6. MsgInv'
    BY <2>3, <2>5 DEF MsgInv, NoMessageLost, Taken, MessagesOf, Apart, InHand
  <2>7. M \subseteq Nat
    BY <2>2, <2>3 DEF Frames
  <2> QED BY <1>0, <2>1, <2>2, <2>3, <2>6, <2>7
<1> QED
  BY <1>1, <1>2, <1>3, <1>4, <1>5, <1>6, <1>7, <1>8, <1>9
  DEF Next, SimStep, GuiStep, ViewStep, UserStep

(* The simulation uses up what it was granted; only a view grants more, and *)
(* it forgets what was left of the last grant.                              *)
LEMMA NextGrant ==
  ASSUME Types, GrantInv, [Next]_vars
  PROVE  GrantInv' /\ sample_period' \in Nat /\ lag' \in Nat /\ togo' \in Nat /\ granted' \in Nat
<1>0. sample_period \in Nat /\ lag \in Nat /\ togo \in Nat /\ granted \in Nat /\ lag + togo <= granted
  BY DEF Types, GrantInv
<1>1. CASE RunUntil
  <2>1. PICK d \in 0 .. togo : lag' = lag + d /\ togo' = togo - d /\ granted' = granted
                               /\ sample_period' = sample_period
    BY <1>1 DEF RunUntil, SimulatorRunUntil, guiVars, timerVars
  <2> QED BY <1>0, <2>1 DEF GrantInv
<1>2. CASE View
  <2>1. lag' = 0 /\ togo' = sample_period /\ granted' = sample_period /\ sample_period' = sample_period
    BY <1>2 DEF View, timerVars
  <2> QED BY <1>0, <2>1 DEF GrantInv
<1>3. CASE UNCHANGED timeVars /\ sample_period' \in {sample_period} \cup Periods
  <2>1. sample_period' \in Nat
    BY <1>0, <1>3, Constants
  <2> QED BY <1>0, <1>3, <2>1 DEF timeVars, GrantInv
<1>4. ASSUME SimTop \/ SimWait \/ SimClear \/ SimTest \/ SimAcquire \/ UNCHANGED vars
      PROVE  UNCHANGED timeVars /\ sample_period' = sample_period
  BY <1>4 DEF SimTop, SimWait, SimClear, SimTest, SimAcquire, guiVars, timerVars, vars, timeVars
<1>5. ASSUME NEW id \in live, FireTimer(id)
      PROVE  UNCHANGED timeVars /\ sample_period' = sample_period
  BY <1>5 DEF FireTimer, timerVars
<1>6. ASSUME \/ TryFails \/ NothingPending \/ ViewReturns \/ UpdateModel \/ BlockedReturns
             \/ QuitGo \/ Joined
      PROVE  UNCHANGED timeVars /\ sample_period' = sample_period
  BY <1>6 DEF TryFails, NothingPending, ViewReturns, UpdateModel, BlockedReturns, QuitGo,
              Joined, timerVars
<1>7. ASSUME UserStep PROVE UNCHANGED timeVars /\ sample_period' \in {sample_period} \cup Periods
  BY <1>7 DEF UserStep, UserQuery, UserTogglesPlay, UserChangesSpeed, UserQuits, timerVars
<1> QED
  BY <1>1, <1>2, <1>3, <1>4, <1>5, <1>6, <1>7 DEF Next, SimStep, GuiStep, ViewStep

(* Nothing ends the source the visualizer knows of without releasing the     *)
(* play button first, forgetting its identifier, or quitting.                *)
LEMMA NextTimer ==
  ASSUME Types, TimerInv, [Next]_vars
  PROVE  TimerInv' /\ live' \subseteq Ids
<1>0. live \subseteq Ids
  BY DEF Types
<1>1. CASE UNCHANGED <<live, timeout_id, play, quit>>
  BY <1>0, <1>1 DEF TimerInv
<1>2. ASSUME SimStep \/ UNCHANGED vars PROVE UNCHANGED <<live, timeout_id, play, quit>>
  BY <1>2 DEF SimStep, SimTop, SimWait, SimClear, SimTest, SimAcquire, RunUntil, SimulatorRunUntil, vars, guiVars,
              timerVars
<1>3. ASSUME NEW id \in live, FireTimer(id) PROVE UNCHANGED <<live, timeout_id, play, quit>>
  BY <1>3 DEF FireTimer, timerVars, simVars
<1>4. ASSUME \/ TryFails \/ NothingPending \/ View \/ UpdateModel \/ BlockedReturns \/ QuitGo
             \/ Joined \/ UserQuery
      PROVE  UNCHANGED <<live, timeout_id, play, quit>>
  BY <1>4 DEF TryFails, NothingPending, View, UpdateModel, BlockedReturns, QuitGo, Joined,
              UserQuery, timerVars, simVars
<1>5. CASE ViewReturns
  <2>1. /\ play' => play /\ live' = live /\ timeout_id' = timeout_id
        /\ quit' = quit /\ live' \subseteq live
    BY <1>5 DEF ViewReturns, simVars
  <2> QED BY <1>0, <2>1 DEF TimerInv
<1>6. ASSUME StartUpdateTimer PROVE timeout_id' \in live' /\ live' \subseteq Ids
  BY <1>0, <1>6 DEF StartUpdateTimer
<1>7. CASE UserTogglesPlay
  <2>1. CASE play'
    BY <1>6, <1>7, <2>1 DEF UserTogglesPlay, TimerInv
  <2>2. CASE ~play'
    BY <1>0, <1>7, <2>2 DEF UserTogglesPlay, TimerInv
  <2> QED BY <2>1, <2>2
<1>8. CASE UserChangesSpeed
  BY <1>6, <1>8 DEF UserChangesSpeed, TimerInv
<1>9. CASE UserQuits
  BY <1>0, <1>9 DEF UserQuits, TimerInv
<1> QED
  BY <1>1, <1>2, <1>3, <1>4, <1>5, <1>7, <1>8, <1>9 DEF Next, GuiStep, ViewStep, UserStep

-----------------------------------------------------------------------------
(* The inductive invariant holds however the simulation thread and the      *)
(* nested handlers of the GUI thread are interleaved.                       *)
THEOREM Inductive == Spec => []VInv
<1>1. VInv /\ [Next]_vars => VInv'
  BY NextMessages, NextGrant, NextTimer DEF VInv, Types
<1> QED BY <1>1, InitVInv, PTL DEF Spec

(* Every pause message is in exactly one place from the moment the          *)
(* simulation raises it until a dialog has shown it, for any depth of       *)
(* nested view updates.                                                     *)
THEOREM MessagesArrive == Spec => []NoMessageLost
<1>1. VInv => NoMessageLost
  BY DEF VInv, MsgInv
<1> QED BY <1>1, Inductive, PTL

(* The simulation is at most the last granted period past the time shown,    *)
(* whatever the periods the user chooses.                                    *)
THEOREM OnePeriodAhead == Spec => []SimStaysNearView
<1>1. VInv => SimStaysNearView
  BY DEF VInv, Types, GrantInv, SimStaysNearView
<1> QED BY <1>1, Inductive, PTL

(* With the play button active the timer the visualizer knows of exists.     *)
THEOREM TimerKept == Spec => []PlayKeepsTimer
<1>1. VInv => PlayKeepsTimer
  BY DEF VInv, TimerInv, PlayKeepsTimer
<1> QED BY <1>1, Inductive, PTL
=============================================================================
