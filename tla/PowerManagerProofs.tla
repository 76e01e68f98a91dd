------------------------- MODULE PowerManagerProofs -------------------------
(***************************************************************************)
(* Proofs about PowerManager, for all times and all lengths of a fade.     *)
(***************************************************************************)
EXTENDS PowerManager, TLAPS

\* Tuples of variables and parts of UNCHANGED, expanded in every step proof.
USE DEF vars, screenVars, fadeVars, deviceVars, historyVars, LoopUnchanged,
        LvglUnchanged

-----------------------------------------------------------------------------
(***************************************************************************)
(* Program counters.                                                       *)
(***************************************************************************)
PcTyped ==
    /\ pc \in [Task -> MainPc \union LvglPc]
    /\ pc["main"] \in MainPc /\ pc["lvgl"] \in LvglPc

\* A step of one task leaves the other where it is.
LEMMA GotoMoves ==
    ASSUME PcTyped, NEW t \in Task, NEW label, Goto(t, label),
           label \in (IF t = "main" THEN MainPc ELSE LvglPc)
    PROVE  /\ PcTyped' /\ pc'[t] = label
           /\ \A u \in Task : u # t => pc'[u] = pc[u]
  BY DEF PcTyped, Goto, Task

-----------------------------------------------------------------------------
(***************************************************************************)
(* Types, and the reference count they rest on.                            *)
(***************************************************************************)
DataTyped ==
    /\ after \in LoopPc /\ read \in {"fresh", "dim", "off"}
    /\ screenOn \in BOOLEAN /\ dim \in BOOLEAN /\ offDone \in BOOLEAN
    /\ off \in BOOLEAN /\ idle \in 0 .. IdleCap
    /\ fading \in BOOLEAN /\ cancel \in BOOLEAN /\ target \in {"dim", "dark"}
    /\ left \in 0 .. 255
    /\ timers \in [1 .. FadeSteps -> 0 .. TimerCap]
    /\ running \in BOOLEAN /\ hardware \in BOOLEAN
    /\ pending \in BOOLEAN
    /\ raced \in BOOLEAN /\ touched \in BOOLEAN /\ leftover \in BOOLEAN

\* The type of the lock's count follows from what it counts, so the two are
\* one invariant.
TypeInv == PcTyped /\ DataTyped /\ ScreenLockPaired

LEMMA TypeInvSuffices == TypeInv => TypeOK
  BY DEF TypeInv, PcTyped, DataTyped, ScreenLockPaired, TypeOK

LEMMA NoteKeepsTypes ==
    ASSUME TypeInv, NEW t \in Task, Note(t)
    PROVE  TypeInv'
<1>1. PcTyped' /\ (Releasing' <=> Releasing) /\ pc[t] \in NotePc
  <2> USE GotoMoves DEF TypeInv, LvglPc, MainPc, LoopPc, NotePc, Task, At, Releasing
  <2>1. CASE NoteFade(t)
    BY <2>1 DEF NoteFade
  <2>2. CASE NoteCancel(t)
    BY <2>2 DEF NoteCancel
  <2>3. CASE NoteScreen(t)
    BY <2>3 DEF NoteScreen
  <2>4. CASE NoteOn(t)
    BY <2>4 DEF NoteOn
  <2>5. CASE NoteResume(t)
    BY <2>5 DEF NoteResume
  <2>6. CASE NoteDraw(t)
    BY <2>6 DEF NoteDraw
  <2>7. CASE NoteTime(t)
    BY <2>7 DEF NoteTime, DataTyped
  <2> QED
    BY <2>1, <2>2, <2>3, <2>4, <2>5, <2>6, <2>7 DEF Note
<1>2. DataTyped'
  <2> USE DEF TypeInv, DataTyped
  <2>1. CASE NoteFade(t) \/ NoteCancel(t)
    <3>1. touched' \in BOOLEAN /\ cancel' \in BOOLEAN /\ fading' \in BOOLEAN
      BY <2>1 DEF NoteFade, NoteCancel
    <3>2. UNCHANGED <<after, read, screenVars, idle, target, left, timers,
                      deviceVars, pending, raced, leftover>>
      BY <2>1 DEF NoteFade, NoteCancel
    <3> QED
      BY <3>1, <3>2
  <2>4. CASE NoteScreen(t)
    <3>1. /\ screenOn' \in BOOLEAN /\ dim' \in BOOLEAN /\ offDone' \in BOOLEAN
          /\ leftover' \in BOOLEAN /\ raced' \in BOOLEAN
      BY <2>4 DEF NoteScreen
    <3>2. UNCHANGED <<after, read, idle, fadeVars, deviceVars, pending, touched>>
      BY <2>4 DEF NoteScreen
    <3> QED
      BY <3>1, <3>2
  <2>2. CASE NoteOn(t) \/ NoteResume(t) \/ NoteDraw(t)
    <3>1. off' \in BOOLEAN /\ running' \in BOOLEAN /\ hardware' \in BOOLEAN /\ pending' \in BOOLEAN
      BY <2>2 DEF NoteOn, NoteResume, NoteDraw
    <3>2. UNCHANGED <<after, read, screenVars, idle, fadeVars, historyVars>>
      BY <2>2 DEF NoteOn, NoteResume, NoteDraw
    <3> QED
      BY <3>1, <3>2
  <2>3. CASE NoteTime(t)
    <3>1. idle' \in 0 .. IdleCap
      BY <2>3, TimesAssumption DEF NoteTime, IdleCap
    <3>2. UNCHANGED <<after, read, screenVars, fadeVars, deviceVars, pending, historyVars>>
      BY <2>3 DEF NoteTime
    <3> QED
      BY <3>1, <3>2
  <2> QED
    BY <2>1, <2>2, <2>3, <2>4 DEF Note
<1>3. ScreenLockPaired'
  BY <1>1 DEF TypeInv, DataTyped, ScreenLockPaired, Note, NoteFade, NoteCancel,
     NoteScreen, NoteOn, NoteResume, NoteDraw, NoteTime
<1> QED
  BY <1>1, <1>2, <1>3 DEF TypeInv

LEMMA FadeKeepsTypes ==
    ASSUME TypeInv, FadeCancelled \/ FadeRuns \/ FadeStep \/ FadeDone \/ Gesture
    PROVE  TypeInv'
<1>1. PcTyped' /\ pc'["main"] = pc["main"]
  <2> USE GotoMoves DEF TypeInv, LvglPc, NotePc, Task
  <2>1. CASE FadeCancelled
    BY <2>1 DEF FadeCancelled, PcTyped
  <2>2. CASE FadeRuns
    BY <2>2 DEF FadeRuns
  <2>3. CASE FadeStep
    BY <2>3 DEF FadeStep
  <2>4. CASE FadeDone
    BY <2>4 DEF FadeDone
  <2>5. CASE Gesture
    BY <2>5 DEF Gesture
  <2> QED
    BY <2>1, <2>2, <2>3, <2>4, <2>5
<1>2. UNCHANGED <<after, read, screenOn, dim, idle, deviceVars, pending, raced, touched, target>>
  BY DEF FadeCancelled, FadeRuns, FadeStep, FadeDone, Gesture
<1>3. timers' \in [1 .. FadeSteps -> 0 .. TimerCap]
  <2> USE TimesAssumption DEF TypeInv, DataTyped, TimerCap
  <2>1. CASE FadeCancelled
    BY <2>1 DEF FadeCancelled
  <2>2. CASE FadeRuns
    BY <2>2 DEF FadeRuns, Cap
  <2> QED
    BY <2>1, <2>2 DEF FadeStep, FadeDone, Gesture
<1>4. left' \in 0 .. 255
  <2>1. left \in 0 .. 255
    BY DEF TypeInv, DataTyped
  <2>2. CASE FadeStep
    <3>1. left' = (left + 255) % 256
      BY <2>2 DEF FadeStep
    <3> QED
      BY <2>1, <3>1
  <2> QED
    BY <2>1, <2>2 DEF FadeCancelled, FadeRuns, FadeDone, Gesture
<1>5. fading' \in BOOLEAN /\ cancel' \in BOOLEAN
  BY DEF TypeInv, DataTyped, FadeCancelled, FadeRuns, FadeStep, FadeDone, Gesture
<1>6. offDone' \in BOOLEAN /\ leftover' \in BOOLEAN
  BY DEF TypeInv, DataTyped, FadeCancelled, FadeRuns, FadeStep, FadeDone, Gesture
<1>7. DataTyped'
  BY <1>2, <1>3, <1>4, <1>5, <1>6 DEF TypeInv, DataTyped
<1> QED
  BY <1>1, <1>2, <1>7 DEF TypeInv, ScreenLockPaired, Releasing

LEMMA LoopKeepsTypes ==
    ASSUME TypeInv, Contact \/ NoTouchBlock \/ Shake \/ ProbeWake
    PROVE  TypeInv'
<1>1. PcTyped' /\ after' \in LoopPc /\ ~Releasing /\ ~Releasing'
  <2> USE GotoMoves DEF TypeInv, DataTyped, MainPc, NotePc, LoopPc, Task, Releasing, Calls
  <2>1. CASE Contact
    BY <2>1 DEF Contact
  <2>2. CASE NoTouchBlock
    BY <2>2 DEF NoTouchBlock
  <2>3. CASE Shake
    BY <2>3 DEF Shake
  <2>4. CASE ProbeWake
    BY <2>4 DEF ProbeWake
  <2> QED
    BY <2>1, <2>2, <2>3, <2>4
<1>2. pending' \in BOOLEAN
  BY DEF TypeInv, DataTyped, Contact, NoTouchBlock, Shake, ProbeWake
<1>3. UNCHANGED <<read, screenVars, idle, fadeVars, deviceVars, historyVars>>
  BY DEF Contact, NoTouchBlock, Shake, ProbeWake
<1>4. DataTyped'
  BY <1>1, <1>2, <1>3 DEF TypeInv, DataTyped
<1> QED
  BY <1>1, <1>3, <1>4 DEF TypeInv, ScreenLockPaired

LEMMA PollKeepsTypes ==
    ASSUME TypeInv,
           PollIdle \/ PollOff \/ PollDark \/ PollFade \/ NoFade \/ PollMark \/ PollTimer
    PROVE  TypeInv'
<1>1. PcTyped' /\ ~Releasing /\ ~Releasing'
  <2> USE GotoMoves DEF TypeInv, MainPc, LoopPc, Task, Releasing
  <2>1. CASE PollIdle
    BY <2>1 DEF PollIdle
  <2>2. CASE PollOff
    BY <2>2 DEF PollOff
  <2>3. CASE PollDark
    BY <2>3 DEF PollDark
  <2>4. CASE PollFade
    BY <2>4 DEF PollFade
  <2>5. CASE NoFade
    BY <2>5 DEF NoFade
  <2>6. CASE PollMark
    BY <2>6 DEF PollMark
  <2>7. CASE PollTimer
    BY <2>7 DEF PollTimer
  <2> QED
    BY <2>1, <2>2, <2>3, <2>4, <2>5, <2>6, <2>7
<1>2. UNCHANGED <<after, idle, deviceVars, pending, raced>>
  BY DEF PollIdle, PollOff, PollDark, PollFade, NoFade, PollMark, PollTimer
<1>3. DataTyped'
  <2> USE DEF TypeInv, DataTyped
  <2>1. CASE PollIdle \/ PollOff \/ NoFade
    <3>1. touched' \in BOOLEAN
      <4>1. touched' = touched \/ touched' = (pc["lvgl"] \in NotePc)
        BY <2>1 DEF PollIdle, PollOff, NoFade
      <4>2. touched \in BOOLEAN
        OBVIOUS
      <4>3. (pc["lvgl"] \in NotePc) \in BOOLEAN
        OBVIOUS
      <4> QED
        BY <4>1, <4>2, <4>3, Zenon
    <3>3. read' \in {"fresh", "dim", "off"}
      BY <2>1 DEF PollIdle, PollOff, NoFade
    <3>2. UNCHANGED <<screenVars, fadeVars, leftover>>
      BY <2>1 DEF PollIdle, PollOff, NoFade
    <3> QED
      BY <1>2, <3>1, <3>2, <3>3
  <2>2. CASE PollDark \/ PollMark
    <3>1. screenOn' \in BOOLEAN /\ dim' \in BOOLEAN /\ offDone' \in BOOLEAN /\ leftover' \in BOOLEAN
      BY <2>2 DEF PollDark, PollMark
    <3>2. UNCHANGED <<read, fadeVars, touched>>
      BY <2>2 DEF PollDark, PollMark
    <3> QED
      BY <1>2, <3>1, <3>2
  <2>3. CASE PollFade
    <3>1. /\ cancel' \in BOOLEAN /\ fading' \in BOOLEAN /\ target' \in {"dim", "dark"}
          /\ offDone' \in BOOLEAN /\ leftover' \in BOOLEAN
      BY <2>3 DEF PollFade
    <3>2. left' \in 0 .. 255
      BY <2>3, TimesAssumption DEF PollFade
    <3>3. UNCHANGED <<read, screenOn, dim, timers, touched>>
      BY <2>3 DEF PollFade
    <3> QED
      BY <1>2, <3>1, <3>2, <3>3
  <2>4. CASE PollTimer
    <3>1. timers' \in [1 .. FadeSteps -> 0 .. TimerCap] /\ read' \in {"fresh", "dim", "off"}
      BY <2>4, TimesAssumption DEF PollTimer, Cap, TimerCap
    <3>2. UNCHANGED <<screenVars, fading, cancel, target, left, touched, leftover>>
      BY <2>4 DEF PollTimer
    <3> QED
      BY <1>2, <3>1, <3>2
  <2> QED
    BY <2>1, <2>2, <2>3, <2>4
<1> QED
  BY <1>1, <1>2, <1>3 DEF TypeInv, ScreenLockPaired

\* screen_off sets the flag, stops LVGL and gives the lock back in three steps,
\* between which the LVGL task may take it again.
LEMMA ScreenOffKeepsTypes ==
    ASSUME TypeInv, ScreenOff \/ ScreenOffStop \/ ScreenOffDevice
    PROVE  TypeInv'
<1>1. PcTyped'
  BY GotoMoves DEF TypeInv, MainPc, Task, ScreenOff, ScreenOffStop, ScreenOffDevice
<1>2. DataTyped'
  <2>1. off' \in BOOLEAN /\ running' \in BOOLEAN /\ hardware' \in BOOLEAN /\ pending' \in BOOLEAN
    BY DEF TypeInv, DataTyped, ScreenOff, ScreenOffStop, ScreenOffDevice
  <2>2. UNCHANGED <<after, read, screenVars, idle, fadeVars, historyVars>>
    BY DEF ScreenOff, ScreenOffStop, ScreenOffDevice
  <2> QED
    BY <2>1, <2>2 DEF TypeInv, DataTyped
<1>3. ScreenLockPaired'
  <2> USE GotoMoves DEF TypeInv, DataTyped, MainPc, Task, ScreenLockPaired, Releasing
  <2>1. CASE ScreenOff
    BY <2>1 DEF ScreenOff
  <2>2. CASE ScreenOffStop
    BY <2>2 DEF ScreenOffStop
  <2>3. CASE ScreenOffDevice
    BY <2>3 DEF ScreenOffDevice
  <2> QED
    BY <2>1, <2>2, <2>3
<1> QED
  BY <1>1, <1>2, <1>3 DEF TypeInv

LEMMA InitTypes == Init => TypeInv
<1> SUFFICES ASSUME Init PROVE TypeInv
  OBVIOUS
<1>1. PcTyped /\ ScreenLockPaired
  BY DEF Init, PcTyped, ScreenLockPaired, Releasing, Task, MainPc, LvglPc, LoopPc, NotePc
<1>2. timers \in [1 .. FadeSteps -> 0 .. TimerCap]
  BY TimesAssumption DEF Init, NoTimer, TimerCap
<1>3. idle \in 0 .. IdleCap
  BY TimesAssumption DEF Init, IdleCap
<1>4. DataTyped
  <2>1. /\ screenOn \in BOOLEAN /\ dim \in BOOLEAN /\ offDone \in BOOLEAN /\ off \in BOOLEAN
        /\ fading \in BOOLEAN /\ cancel \in BOOLEAN /\ running \in BOOLEAN /\ hardware \in BOOLEAN
        /\ pending \in BOOLEAN /\ raced \in BOOLEAN /\ touched \in BOOLEAN /\ leftover \in BOOLEAN
    BY DEF Init
  <2>2. after \in LoopPc /\ read \in {"fresh", "dim", "off"} /\ target \in {"dim", "dark"}
    BY DEF Init, LoopPc
  <2>3. left \in 0 .. 255
    BY DEF Init
  <2> QED
    BY <1>2, <1>3, <2>1, <2>2, <2>3 DEF DataTyped
<1> QED
  BY <1>1, <1>4 DEF TypeInv

LEMMA StepKeepsTypes == TypeInv /\ [Next]_vars => TypeInv'
<1> SUFFICES ASSUME TypeInv, [Next]_vars PROVE TypeInv'
  OBVIOUS
<1>1. CASE \E t \in Task : Note(t)
  BY <1>1, NoteKeepsTypes
<1>2. CASE FadeCancelled \/ FadeRuns \/ FadeStep \/ FadeDone \/ Gesture
  BY <1>2, FadeKeepsTypes
<1>3. CASE Contact \/ NoTouchBlock \/ Shake \/ ProbeWake
  BY <1>3, LoopKeepsTypes
<1>4. CASE PollIdle \/ PollOff \/ PollDark \/ PollFade \/ NoFade \/ PollMark \/ PollTimer
  BY <1>4, PollKeepsTypes
<1>5. CASE ScreenOff \/ ScreenOffStop \/ ScreenOffDevice
  BY <1>5, ScreenOffKeepsTypes
<1>6. CASE ProbeHit \/ Tick
  <2>1. pending' \in BOOLEAN
    BY <1>6 DEF ProbeHit, Tick, TypeInv, DataTyped
  <2>3. idle' \in 0 .. IdleCap
    <3>1. IdleCap \in Nat /\ idle \in 0 .. IdleCap
      BY TimesAssumption DEF IdleCap, TypeInv, DataTyped
    <3> QED
      BY <1>6, <3>1 DEF ProbeHit, Tick
  <2>2. UNCHANGED <<pc, after, read, screenVars, fadeVars, deviceVars, historyVars>>
    BY <1>6 DEF ProbeHit, Tick
  <2> QED
    BY <2>1, <2>2, <2>3 DEF TypeInv, PcTyped, DataTyped, ScreenLockPaired, Releasing
<1>7. CASE UNCHANGED vars
  BY <1>7 DEF TypeInv, PcTyped, DataTyped, ScreenLockPaired, Releasing
<1> QED
  BY <1>1, <1>2, <1>3, <1>4, <1>5, <1>6, <1>7 DEF Next, MainStep, LvglStep, Task

LEMMA TypeInvHolds == Spec => []TypeInv
  BY InitTypes, StepKeepsTypes, PTL DEF Spec

\* Every variable keeps its type: the fade counter stays a byte and the count
\* of the screen lock stays between none and two, for every length of a fade.
THEOREM TypeCorrect == Spec => []TypeOK
  BY TypeInvHolds, TypeInvSuffices, PTL

\* The lock that forbids light sleep is counted right whichever task lights the
\* screen, also in the middle of a screen_off of the other.
THEOREM LockIsPaired == Spec => []ScreenLockPaired
<1>1. TypeInv => ScreenLockPaired
  BY DEF TypeInv
<1> QED
  BY TypeInvHolds, <1>1, PTL

-----------------------------------------------------------------------------
(***************************************************************************)
(* The screen and what is behind it.                                       *)
(***************************************************************************)

\* Between two calls of screen_off and screen_on, and in the stages of each.
Up         == screenOn /\ running /\ hardware /\ ~off
Down       == ~screenOn /\ ~running /\ ~hardware /\ off
Declared   == ~screenOn /\ running /\ hardware /\ ~off
Stopping   == ~screenOn /\ running /\ hardware /\ off
Stopped    == ~screenOn /\ ~running /\ hardware /\ off
Lit        == screenOn /\ ~running /\ ~hardware /\ off
Resuming   == screenOn /\ ~running /\ ~hardware /\ ~off

PhaseOf(label) ==
    CASE label = "s_off"    -> Declared
      [] label = "s_stop"   -> Stopping
      [] label = "s_device" -> Stopped
      [] label = "n_on"     -> Lit
      [] label = "n_resume" -> Resuming
      [] label \in {"p_dark", "p_mark", "p_timer"} -> Up
      [] OTHER              -> Up \/ Down

\* As long as the LVGL task has not lit a screen that was being switched off,
\* the main task alone drives the phases.
PhaseInv ==
    ~raced => /\ PhaseOf(pc["main"])
              /\ pc["lvgl"] \notin {"n_on", "n_resume", "n_draw"}

LEMMA MainKeepsPhase ==
    ASSUME TypeInv, PhaseInv, MainStep \/ Contact \/ Shake
    PROVE  PhaseInv'
<1> SUFFICES ASSUME ~raced PROVE PhaseOf(pc["main"])'
  <2>1. pc'["lvgl"] = pc["lvgl"] /\ (raced => raced')
    <3> USE GotoMoves DEF TypeInv, DataTyped, MainPc, LoopPc, NotePc, Task, Calls
    <3>1. CASE Note("main")
      BY <3>1 DEF Note, NoteFade, NoteCancel, NoteScreen, NoteOn, NoteResume, NoteDraw, NoteTime
    <3>2. CASE Contact \/ NoTouchBlock \/ Shake \/ ProbeWake
      BY <3>2 DEF Contact, NoTouchBlock, Shake, ProbeWake
    <3>3. CASE PollIdle \/ PollOff \/ PollDark \/ PollFade \/ NoFade \/ PollMark \/ PollTimer
      BY <3>3 DEF PollIdle, PollOff, PollDark, PollFade, NoFade, PollMark, PollTimer
    <3>4. CASE ScreenOff \/ ScreenOffStop \/ ScreenOffDevice
      BY <3>4 DEF ScreenOff, ScreenOffStop, ScreenOffDevice
    <3> QED
      BY <3>1, <3>2, <3>3, <3>4 DEF MainStep
  <2> QED
    BY <2>1 DEF PhaseInv
<1> USE GotoMoves DEF TypeInv, PhaseInv, MainPc, LoopPc, NotePc, Task
<1>1. CASE Note("main")
  <2>1. CASE NoteFade("main") \/ NoteCancel("main")
    BY <1>1, <2>1 DEF NoteFade, NoteCancel, At, PhaseOf, Up, Down
  <2>2. CASE NoteScreen("main")
    BY <2>2 DEF NoteScreen, At, PhaseOf, Up, Down, Lit
  <2>3. CASE NoteOn("main")
    BY <2>3 DEF NoteOn, At, PhaseOf, Lit, Resuming
  <2>4. CASE NoteResume("main")
    BY <2>4 DEF NoteResume, At, PhaseOf, Resuming, Up
  <2>5. CASE NoteDraw("main")
    BY <2>5 DEF NoteDraw, At, PhaseOf, Up, Down
  <2>6. CASE NoteTime("main")
    BY <2>6 DEF NoteTime, At, PhaseOf, Up, Down, DataTyped
  <2> QED
    BY <1>1, <2>1, <2>2, <2>3, <2>4, <2>5, <2>6 DEF Note
<1>2. CASE Contact \/ NoTouchBlock \/ Shake \/ ProbeWake
  BY <1>2 DEF Contact, NoTouchBlock, Shake, ProbeWake, Calls, PhaseOf, Up, Down
<1>3. CASE PollIdle \/ PollOff \/ NoFade
  BY <1>3 DEF PollIdle, PollOff, NoFade, PhaseOf, Up, Down
<1>4. CASE PollFade \/ PollMark \/ PollTimer
  BY <1>4 DEF PollFade, PollMark, PollTimer, PhaseOf, Up, Down
<1>5. CASE PollDark
  BY <1>5 DEF PollDark, PhaseOf, Up, Declared
<1>6. CASE ScreenOff
  BY <1>6 DEF ScreenOff, PhaseOf, Declared, Stopping
<1>7. CASE ScreenOffStop \/ ScreenOffDevice
  BY <1>7 DEF ScreenOffStop, ScreenOffDevice, PhaseOf, Stopping, Stopped, Down
<1> QED
  BY <1>1, <1>2, <1>3, <1>4, <1>5, <1>6, <1>7 DEF MainStep

\* The LVGL task changes the phase only by lighting the screen, which sets
\* raced.
LEMMA OthersKeepPhase ==
    ASSUME TypeInv, PhaseInv, LvglStep \/ Gesture \/ ProbeHit \/ Tick \/ UNCHANGED vars
    PROVE  PhaseInv'
<1>1. UNCHANGED deviceVars \/ raced
  <2> USE DEF PhaseInv, At, TypeInv, DataTyped
  <2>1. CASE NoteOn("lvgl") \/ NoteResume("lvgl")
    BY <2>1 DEF NoteOn, NoteResume
  <2> QED
    BY <2>1 DEF LvglStep, Note, NoteFade, NoteCancel, NoteScreen, NoteDraw, NoteTime,
       FadeCancelled, FadeRuns, FadeStep, FadeDone, Gesture, ProbeHit, Tick
<1>2. raced' \/ screenOn' = screenOn \/ raced
  BY DEF LvglStep, Note, NoteFade, NoteCancel, NoteScreen, NoteOn, NoteResume, NoteDraw,
     NoteTime, FadeCancelled, FadeRuns, FadeStep, FadeDone, Gesture, ProbeHit, Tick
<1>3. raced => raced'
  BY DEF LvglStep, Note, NoteFade, NoteCancel, NoteScreen, NoteOn, NoteResume, NoteDraw,
     NoteTime, FadeCancelled, FadeRuns, FadeStep, FadeDone, Gesture, ProbeHit, Tick
<1>4. pc'["main"] = pc["main"]
  <2> USE GotoMoves DEF TypeInv, LvglPc, NotePc, Task
  <2>1. CASE Note("lvgl")
    BY <2>1 DEF Note, NoteFade, NoteCancel, NoteScreen, NoteOn, NoteResume, NoteDraw, NoteTime
  <2>2. CASE FadeCancelled \/ FadeRuns \/ FadeStep \/ FadeDone \/ Gesture
    BY <2>2 DEF FadeCancelled, FadeRuns, FadeStep, FadeDone, Gesture
  <2> QED
    BY <2>1, <2>2 DEF LvglStep, ProbeHit, Tick
<1>5. ~raced' => pc'["lvgl"] \notin {"n_on", "n_resume", "n_draw"}
  <2>3. ~raced' => pc["lvgl"] \notin {"n_on", "n_resume", "n_draw"}
    BY <1>3 DEF PhaseInv
  <2> USE GotoMoves DEF TypeInv, LvglPc, NotePc, Task
  <2>1. CASE Note("lvgl")
    <3>1. CASE NoteScreen("lvgl")
      <4>1. raced' \/ Goto("lvgl", "n_time")
        BY <3>1 DEF NoteScreen
      <4> QED
        BY <4>1
    <3>2. CASE NoteOn("lvgl") \/ NoteResume("lvgl") \/ NoteDraw("lvgl")
      BY <2>3, <3>2 DEF NoteOn, NoteResume, NoteDraw, At
    <3>3. CASE NoteFade("lvgl") \/ NoteCancel("lvgl") \/ NoteTime("lvgl")
      BY <3>3 DEF NoteFade, NoteCancel, NoteTime
    <3> QED
      BY <2>1, <3>1, <3>2, <3>3 DEF Note
  <2>2. CASE FadeCancelled \/ FadeRuns \/ FadeStep \/ FadeDone \/ Gesture
    BY <2>2, <2>3 DEF FadeCancelled, FadeRuns, FadeStep, FadeDone, Gesture
  <2> QED
    BY <2>1, <2>2, <2>3 DEF LvglStep, ProbeHit, Tick
<1>6. ~raced' => UNCHANGED <<screenOn, deviceVars>>
  BY <1>1, <1>2, <1>3
<1> QED
  BY <1>3, <1>4, <1>5, <1>6 DEF PhaseInv, PhaseOf, Up, Down, Declared, Stopping,
     Stopped, Lit, Resuming

LEMMA PhaseInvHolds == Spec => []PhaseInv
<1>1. Init => PhaseInv
  BY DEF Init, PhaseInv, PhaseOf, Up, Task
<1>2. TypeInv /\ PhaseInv /\ [Next]_vars => PhaseInv'
  BY MainKeepsPhase, OthersKeepPhase DEF Next
<1> QED
  BY <1>1, <1>2, TypeInvHolds, PTL DEF Spec

\* Between two rounds of the main task, a screen that counts as on has a running
\* LVGL and its hardware behind it, unless the LVGL task lit it in the middle of
\* a screen_off.
THEOREM StuckNeedsRace == Spec => []StuckOnlyByRace
<1>1. PhaseInv => StuckOnlyByRace
  BY DEF PhaseInv, PhaseOf, LoopPc, StuckOnlyByRace, OnMeansRunning, Up, Down
<1> QED
  BY PhaseInvHolds, <1>1, PTL

-----------------------------------------------------------------------------
(***************************************************************************)
(* What a screen that goes off has behind it.                              *)
(***************************************************************************)

\* note_interaction behind its screen_dim = false, where idle is still to be
\* reset.
Past == {"n_on", "n_resume", "n_draw", "n_time"}

\* It clears dim before it resets the idle time.  A poll of the other task can
\* set dim in between, for a fade it has started; but then it waits for the
\* LVGL lock, and the next fade comes after the reset.
Cleared ==
    /\ pc["main"] \in Past => ~dim
    /\ pc["lvgl"] \in Past => ~dim \/ (pc["main"] = "p_timer" /\ target = "dim")

\* The main task alone sets dim, in p_mark, so it finds it clear there and all
\* through screen_off.
Marking ==
    /\ pc["main"] = "p_mark" => ~dim /\ target = "dim"
    /\ pc["main"] \in {"s_off", "s_stop", "s_device"} => ~dim

\* A dim screen whose fade goes to dark has been idle for the off time-out.
Lapsed ==
    /\ dim /\ target = "dark" => idle > OffAfter
    /\ (pc["main"] \in {"p_off", "p_fade"} /\ read = "off" /\ dim) => idle > OffAfter

\* The flag of a finished fade-out is that of this dim phase, or left behind.
Stale ==
    /\ offDone /\ ~dim => leftover
    /\ (pc["main"] = "p_timer" /\ target = "dim" /\ offDone) => leftover
    /\ offDone /\ dim => idle > OffAfter \/ leftover

\* An interaction that can disturb the poll between its two looks is recorded.
Seen ==
    /\ (pc["main"] \in {"p_off", "p_dark"} /\ pc["lvgl"] \in NotePc \ {"n_fade"}) => touched
    /\ pc["main"] = "p_dark" => idle > OffAfter \/ touched \/ leftover

HeldInv == Cleared /\ Marking /\ Lapsed /\ Stale /\ Seen

\* A step that changes none of the flags, and the idle time only by growing it.
LEMMA IdleStepsKeepHeld ==
    ASSUME TypeInv, HeldInv, pc' = pc, idle' \in {idle, idle + 1},
           UNCHANGED <<dim, target, read, offDone, leftover, touched>>
    PROVE  HeldInv'
<1>1. idle > OffAfter => idle' > OffAfter
  <2>1. idle \in Nat /\ OffAfter \in Nat
    BY TimesAssumption DEF TypeInv, DataTyped, IdleCap
  <2> QED
    BY <2>1
<1> QED
  BY <1>1 DEF HeldInv, Cleared, Marking, Lapsed, Stale, Seen

\* Steps that move one task and leave the flags to the screen as they are.
LEMMA MainMoveKeepsHeld ==
    ASSUME HeldInv, pc'["lvgl"] = pc["lvgl"],
           UNCHANGED <<dim, target, idle, offDone, leftover>>,
           pc'["main"] \notin {"p_off", "p_dark", "p_fade", "p_mark", "p_timer",
                             "s_off", "s_stop", "s_device"},
           pc'["main"] \in Past => ~dim,
           pc["main"] # "p_timer" \/ pc["lvgl"] = "free"
    PROVE  HeldInv'
  BY DEF HeldInv, Cleared, Marking, Lapsed, Stale, Seen, Past

LEMMA LvglMoveKeepsHeld ==
    ASSUME HeldInv, pc'["main"] = pc["main"],
           UNCHANGED <<dim, target, idle, read, offDone, leftover>>,
           pc'["lvgl"] \in Past => ~dim \/ (pc["main"] = "p_timer" /\ target = "dim"),
           (pc["main"] \in {"p_off", "p_dark"} /\ pc'["lvgl"] \in NotePc \ {"n_fade"})
               => touched',
           touched => touched'
    PROVE  HeldInv'
  BY DEF HeldInv, Cleared, Marking, Lapsed, Stale, Seen

LEMMA LvglKeepsHeld ==
    ASSUME TypeInv, HeldInv, LvglStep \/ Gesture
    PROVE  HeldInv'
<1> USE GotoMoves DEF TypeInv, LvglPc, NotePc, Task
<1>1. CASE FadeCancelled \/ FadeRuns \/ FadeStep \/ Gesture
  <2>1. /\ pc'["main"] = pc["main"]
        /\ pc' = pc \/ pc'["lvgl"] \in {"free", "f_step", "f_done", "n_fade"}
    BY <1>1 DEF FadeCancelled, FadeRuns, FadeStep, Gesture
  <2>2. UNCHANGED <<dim, target, idle, read, offDone, leftover, touched>>
    BY <1>1 DEF FadeCancelled, FadeRuns, FadeStep, Gesture
  <2>3. CASE pc'["lvgl"] \in {"free", "f_step", "f_done", "n_fade"}
    BY <2>1, <2>2, <2>3, LvglMoveKeepsHeld DEF Past
  <2>4. CASE pc' = pc
    BY <2>2, <2>4, IdleStepsKeepHeld
  <2> QED
    BY <2>1, <2>3, <2>4
<1>2. CASE FadeDone
  <2>1. /\ pc'["main"] = pc["main"] /\ pc'["lvgl"] = "free"
        /\ UNCHANGED <<dim, target, idle, read, touched>>
    BY <1>2 DEF FadeDone
  <2>2. /\ offDone' => offDone \/ target = "dark"
        /\ leftover => leftover'
        /\ target = "dark" /\ ~dim => leftover'
    BY <1>2 DEF FadeDone
  <2> QED
    BY <2>1, <2>2 DEF HeldInv, Cleared, Marking, Lapsed, Stale, Seen, Past
<1>3. CASE NoteFade("lvgl")
  <2>1. /\ pc'["main"] = pc["main"] /\ pc'["lvgl"] \in {"n_cancel", "n_screen"}
        /\ touched'
    BY <1>3 DEF NoteFade
  <2>2. UNCHANGED <<dim, target, idle, read, offDone, leftover>>
    BY <1>3 DEF NoteFade
  <2> QED
    BY <2>1, <2>2, LvglMoveKeepsHeld DEF Past
<1>4. CASE NoteCancel("lvgl") \/ NoteOn("lvgl") \/ NoteResume("lvgl") \/ NoteDraw("lvgl")
  <2>1. /\ pc'["main"] = pc["main"] /\ pc["lvgl"] \in NotePc \ {"n_fade"}
        /\ pc'["lvgl"] = "n_screen" \/ (pc["lvgl"] \in Past /\ pc'["lvgl"] \in Past)
    BY <1>4 DEF NoteCancel, NoteOn, NoteResume, NoteDraw, At, Past
  <2>2. UNCHANGED <<dim, target, idle, read, offDone, leftover, touched>>
    BY <1>4 DEF NoteCancel, NoteOn, NoteResume, NoteDraw
  <2> QED
    BY <2>1, <2>2, LvglMoveKeepsHeld DEF HeldInv, Cleared, Seen, Past
<1>5. CASE NoteScreen("lvgl")
  <2>1. /\ pc'["main"] = pc["main"] /\ pc["lvgl"] = "n_screen"
        /\ ~dim' /\ (offDone' => leftover')
        /\ UNCHANGED <<target, idle, read, touched>>
    BY <1>5 DEF NoteScreen, At
  <2> QED
    BY <2>1 DEF HeldInv, Cleared, Marking, Lapsed, Stale, Seen
<1>6. CASE NoteTime("lvgl")
  <2>1. /\ pc'["main"] = pc["main"] /\ pc["lvgl"] = "n_time" /\ pc'["lvgl"] = "free"
        /\ UNCHANGED <<dim, target, offDone, leftover, read, touched>>
    BY <1>6 DEF NoteTime, At
  <2>2. ~dim \/ (pc["main"] = "p_timer" /\ target = "dim")
    BY <2>1 DEF HeldInv, Cleared, Past
  <2> QED
    BY <2>1, <2>2 DEF HeldInv, Cleared, Marking, Lapsed, Stale, Seen, Past
<1> QED
  BY <1>1, <1>2, <1>3, <1>4, <1>5, <1>6 DEF LvglStep, Note

LEMMA NoteMainKeepsHeld ==
    ASSUME TypeInv, HeldInv, Note("main")
    PROVE  HeldInv'
<1> USE GotoMoves DEF TypeInv, MainPc, LoopPc, NotePc, Task
<1>1. CASE NoteFade("main") \/ NoteCancel("main") \/ NoteOn("main")
           \/ NoteResume("main") \/ NoteDraw("main")
  <2>1. /\ pc'["lvgl"] = pc["lvgl"] /\ pc["main"] \in NotePc
        /\ \/ pc'["main"] \in {"n_cancel", "n_screen"}
           \/ pc["main"] \in Past /\ pc'["main"] \in Past
    BY <1>1 DEF NoteFade, NoteCancel, NoteOn, NoteResume, NoteDraw, At, Past
  <2>2. UNCHANGED <<dim, target, idle, offDone, leftover>>
    BY <1>1 DEF NoteFade, NoteCancel, NoteOn, NoteResume, NoteDraw
  <2> QED
    BY <2>1, <2>2, MainMoveKeepsHeld DEF HeldInv, Cleared, Past
<1>2. CASE NoteScreen("main")
  <2>1. /\ pc'["lvgl"] = pc["lvgl"] /\ pc["main"] = "n_screen"
        /\ pc'["main"] \in {"n_on", "n_time"}
        /\ ~dim' /\ (offDone' => leftover')
        /\ UNCHANGED <<target, idle, read, touched>>
    BY <1>2 DEF NoteScreen, At
  <2> QED
    BY <2>1 DEF HeldInv, Cleared, Marking, Lapsed, Stale, Seen, Past
<1>3. CASE NoteTime("main")
  <2>1. /\ pc'["lvgl"] = pc["lvgl"] /\ pc["main"] = "n_time" /\ pc'["main"] \in LoopPc
        /\ UNCHANGED <<dim, target, offDone, leftover, read, touched>>
    BY <1>3 DEF NoteTime, At, DataTyped
  <2>2. ~dim
    BY <2>1 DEF HeldInv, Cleared, Past
  <2> QED
    BY <2>1, <2>2 DEF HeldInv, Cleared, Marking, Lapsed, Stale, Seen, Past
<1> QED
  BY <1>1, <1>2, <1>3 DEF Note

LEMMA LoopKeepsHeld ==
    ASSUME TypeInv, HeldInv,
           Contact \/ NoTouchBlock \/ Shake \/ ProbeWake \/ NoFade \/ PollTimer
    PROVE  HeldInv'
<1> USE GotoMoves DEF TypeInv, MainPc, LoopPc, NotePc, Task, Calls
<1>1. /\ pc'["lvgl"] = pc["lvgl"] /\ pc'["main"] \in LoopPc \union {"n_fade"}
      /\ pc["main"] # "p_timer" \/ pc["lvgl"] = "free"
  <2>1. CASE Contact \/ NoTouchBlock \/ Shake \/ ProbeWake
    BY <2>1 DEF Contact, NoTouchBlock, Shake, ProbeWake
  <2>2. CASE NoFade \/ PollTimer
    BY <2>2 DEF NoFade, PollTimer, LvglLocked
  <2> QED
    BY <2>1, <2>2
<1>2. UNCHANGED <<dim, target, idle, offDone, leftover>>
  BY DEF Contact, NoTouchBlock, Shake, ProbeWake, NoFade, PollTimer
<1> QED
  BY <1>1, <1>2, MainMoveKeepsHeld DEF Past

LEMMA PollKeepsHeld ==
    ASSUME TypeInv, HeldInv,
           \/ PollIdle \/ PollOff \/ PollDark \/ PollFade \/ PollMark
           \/ ScreenOff \/ ScreenOffStop \/ ScreenOffDevice
    PROVE  HeldInv'
<1> USE GotoMoves DEF TypeInv, MainPc, Task
<1>1. CASE PollIdle
  <2>1. /\ pc'["lvgl"] = pc["lvgl"] /\ pc'["main"] = "p_off"
        /\ pc["main"] = "touch"
        /\ UNCHANGED <<dim, target, idle, offDone, leftover>>
    BY <1>1 DEF PollIdle
  <2>2. read' = "off" => idle > OffAfter
    BY <1>1 DEF PollIdle
  <2>3. pc'["lvgl"] \in NotePc => touched'
    BY <1>1, <2>1 DEF PollIdle
  <2> QED
    BY <2>1, <2>2, <2>3 DEF HeldInv, Cleared, Marking, Lapsed, Stale, Seen, Past
<1>2. CASE PollOff
  <2>1. /\ pc'["lvgl"] = pc["lvgl"] /\ pc["main"] = "p_off"
        /\ pc'["main"] = "p_fade" \/ (pc'["main"] = "p_dark" /\ dim /\ offDone)
        /\ UNCHANGED <<dim, target, idle, read, offDone, leftover, touched>>
    BY <1>2 DEF PollOff
  <2> QED
    BY <2>1 DEF HeldInv, Cleared, Marking, Lapsed, Stale, Seen, Past
<1>3. CASE PollDark
  <2>1. /\ pc'["lvgl"] = pc["lvgl"] /\ pc["main"] = "p_dark" /\ pc'["main"] = "s_off"
        /\ ~dim' /\ ~offDone' /\ UNCHANGED <<target, idle>>
    BY <1>3 DEF PollDark
  <2> QED
    BY <2>1 DEF HeldInv, Cleared, Marking, Lapsed, Stale, Seen, Past
<1>4. CASE ScreenOff \/ ScreenOffStop \/ ScreenOffDevice
  <2>1. /\ pc'["lvgl"] = pc["lvgl"] /\ pc["main"] \in {"s_off", "s_stop", "s_device"}
        /\ pc'["main"] \in {"s_stop", "s_device", "p_fade"}
    BY <1>4 DEF ScreenOff, ScreenOffStop, ScreenOffDevice
  <2>2. UNCHANGED <<dim, target, idle, offDone, leftover>>
    BY <1>4 DEF ScreenOff, ScreenOffStop, ScreenOffDevice
  <2> QED
    BY <2>1, <2>2 DEF HeldInv, Cleared, Marking, Lapsed, Stale, Seen, Past
<1>5. CASE PollFade
  <2>1. /\ pc'["lvgl"] = pc["lvgl"] /\ pc["main"] = "p_fade"
        /\ UNCHANGED <<dim, idle, read, touched>>
    BY <1>5 DEF PollFade
  <2>2. \/ /\ ~dim /\ target' = "dim" /\ pc'["main"] = "p_mark"
           /\ UNCHANGED <<offDone, leftover>>
        \/ /\ dim /\ read = "off" /\ target' = "dark" /\ pc'["main"] = "p_timer"
           /\ ~offDone'
    BY <1>5 DEF PollFade
  <2> QED
    BY <2>1, <2>2 DEF HeldInv, Cleared, Marking, Lapsed, Stale, Seen, Past
<1>6. CASE PollMark
  <2>1. /\ pc'["lvgl"] = pc["lvgl"] /\ pc["main"] = "p_mark" /\ pc'["main"] = "p_timer"
        /\ dim' /\ UNCHANGED <<target, idle, offDone, leftover>>
    BY <1>6 DEF PollMark
  <2> QED
    BY <2>1 DEF HeldInv, Cleared, Marking, Lapsed, Stale, Seen, Past
<1> QED
  BY <1>1, <1>2, <1>3, <1>4, <1>5, <1>6

LEMMA HeldInvHolds == Spec => []HeldInv
<1>1. Init => HeldInv
  BY DEF Init, HeldInv, Cleared, Marking, Lapsed, Stale, Seen, Past, NotePc, Task
<1>2. TypeInv /\ HeldInv /\ [Next]_vars => HeldInv'
  <2> SUFFICES ASSUME TypeInv, HeldInv, [Next]_vars PROVE HeldInv'
    OBVIOUS
  <2>1. CASE LvglStep \/ Gesture
    BY <2>1, LvglKeepsHeld
  <2>2. CASE Note("main")
    BY <2>2, NoteMainKeepsHeld
  <2>3. CASE Contact \/ NoTouchBlock \/ Shake \/ ProbeWake \/ NoFade \/ PollTimer
    BY <2>3, LoopKeepsHeld
  <2>4. CASE \/ PollIdle \/ PollOff \/ PollDark \/ PollFade \/ PollMark
             \/ ScreenOff \/ ScreenOffStop \/ ScreenOffDevice
    BY <2>4, PollKeepsHeld
  <2>5. CASE ProbeHit \/ Tick \/ UNCHANGED vars
    BY <2>5, IdleStepsKeepHeld DEF ProbeHit, Tick
  <2> QED
    BY <2>1, <2>2, <2>3, <2>4, <2>5 DEF Next, MainStep
<1> QED
  BY <1>1, <1>2, TypeInvHolds, PTL DEF Spec

\* A dim screen is held until the off time-out: what switches it off has an idle
\* time beyond it, or a poll that an interaction ran into, or the flag of a
\* fade-out that an interaction left behind (power_manager.c:339, 446-451).
THEOREM ScreenIsHeld == Spec => HeldUnlessLeftover
<1>1. TypeInv /\ HeldInv /\ [Next]_vars
         => [screenOn /\ ~screenOn' => idle > OffAfter \/ touched \/ leftover]_vars
  <2> SUFFICES ASSUME TypeInv, HeldInv, Next, screenOn, ~screenOn'
               PROVE  idle > OffAfter \/ touched \/ leftover
    OBVIOUS
  <2>1. PollDark
    BY DEF Next, MainStep, LvglStep, Note, NoteFade, NoteCancel, NoteScreen, NoteOn,
       NoteResume, NoteDraw, NoteTime, FadeCancelled, FadeRuns, FadeStep, FadeDone,
       Gesture, Contact, Shake, NoTouchBlock, ProbeWake, PollIdle, PollOff, ScreenOff,
       ScreenOffStop, ScreenOffDevice, PollFade, NoFade, PollMark, PollTimer,
       ProbeHit, Tick
  <2> QED
    BY <2>1 DEF PollDark, HeldInv, Seen
<1> QED
  BY <1>1, HeldInvHolds, TypeInvHolds, PTL DEF Spec, HeldUnlessLeftover

=============================================================================
