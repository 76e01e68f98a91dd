---------------------------- MODULE PowerManager ----------------------------
(***************************************************************************)
(* The power state of the screen (src/main/system/power_manager.c): lit,   *)
(* dimmed after some idle time, held dim, faded out and switched off, and  *)
(* lit again by an interaction.                                            *)
(*                                                                         *)
(* Two tasks share its flags without a lock.  The main task runs the poll, *)
(* takes contacts, shakes and the wake of the touch probe as interactions, *)
(* and stops and resumes LVGL.  The LVGL task steps the fades from a timer *)
(* and reports gestures as interactions; while it runs its timers it holds *)
(* the lock of the LVGL port, for which the main task waits in three       *)
(* places.  note_interaction is the same code on both tasks.               *)
(***************************************************************************)
EXTENDS Naturals

CONSTANTS
    DimAfter,   \* s_dim_after_ms, in ticks of idle time
    OffAfter,   \* s_off_after_ms
    FadeSteps   \* FADE_STEPS

ASSUME TimesAssumption ==
    /\ DimAfter \in Nat /\ OffAfter \in Nat /\ DimAfter < OffAfter
    /\ FadeSteps \in 1 .. 255

Task == {"main", "lvgl"}

VARIABLES
    pc,         \* where each task is
    after,      \* local of the main task: where note_interaction returns to
    read,       \* local of the main task: what the poll made of the idle time
    screenOn,   \* s_screen_on, and with it the mirror in gesture_detect
    dim,        \* s_screen_dim
    offDone,    \* s_off_fade_done
    off,        \* s_off
    idle,       \* age of s_last_interact, up to IdleCap
    fading,     \* s_fade_active
    cancel,     \* s_fade_cancel
    target,     \* s_fade_target: "dim", or "dark" for 0
    left,       \* s_fade_steps_left
    timers,     \* how many fade timers LVGL has for each remaining repeat count
    running,    \* the LVGL task is not suspended
    hardware,   \* panel, touch scan, codec and sensor polling are up
    lock,       \* reference count of s_screen_lock, which forbids light sleep
    pending,    \* s_wake_pending of the touch probe
    \* history
    raced,      \* the LVGL task lit a screen that was being switched off
    touched,    \* an interaction is or was under way since the poll read idle
    leftover    \* s_off_fade_done outlived the dim phase it belongs to

screenVars  == <<screenOn, dim, offDone>>
fadeVars    == <<fading, cancel, target, left, timers>>
deviceVars  == <<off, running, hardware, lock>>
historyVars == <<raced, touched, leftover>>
vars == <<pc, after, read, screenVars, idle, fadeVars, deviceVars, pending, historyVars>>

IdleCap  == OffAfter + 1
TimerCap == 3               \* per repeat count; a cancelled fade leaves its timer
Cap(n)   == IF n > TimerCap THEN TimerCap ELSE n

NoTimer == [n \in 1 .. FadeSteps |-> 0]

NotePc == {"n_fade", "n_cancel", "n_screen", "n_on", "n_resume", "n_draw", "n_time"}
LvglPc == NotePc \union {"free", "f_step", "f_done"}
LoopPc == {"touch", "shake", "probe"}
MainPc == LoopPc \union NotePc \union
          {"p_off", "p_dark", "s_off", "s_stop", "s_device", "p_fade", "p_mark", "p_timer"}

TypeOK ==
    /\ pc \in [Task -> MainPc \union LvglPc]
    /\ pc["main"] \in MainPc /\ pc["lvgl"] \in LvglPc
    /\ after \in LoopPc /\ read \in {"fresh", "dim", "off"}
    /\ screenOn \in BOOLEAN /\ dim \in BOOLEAN /\ offDone \in BOOLEAN
    /\ off \in BOOLEAN /\ idle \in 0 .. IdleCap
    /\ fading \in BOOLEAN /\ cancel \in BOOLEAN /\ target \in {"dim", "dark"}
    /\ left \in 0 .. 255
    /\ timers \in [1 .. FadeSteps -> 0 .. TimerCap]
    /\ running \in BOOLEAN /\ hardware \in BOOLEAN /\ lock \in 0 .. 2
    /\ pending \in BOOLEAN
    /\ raced \in BOOLEAN /\ touched \in BOOLEAN /\ leftover \in BOOLEAN

Init ==
    /\ pc = [main |-> "touch", lvgl |-> "free"]
    /\ after = "touch" /\ read = "fresh"
    /\ screenOn = TRUE /\ dim = FALSE /\ offDone = FALSE /\ off = FALSE
    /\ idle = 0
    /\ fading = FALSE /\ cancel = FALSE /\ target = "dim" /\ left = 0
    /\ timers = NoTimer
    /\ running = TRUE /\ hardware = TRUE /\ lock = 1 /\ pending = FALSE
    /\ raced = FALSE /\ touched = FALSE /\ leftover = FALSE

Goto(t, label) == pc' = [pc EXCEPT ![t] = label]

\* A task step: the LVGL task takes none while it is suspended.
At(t, label) == pc[t] = label /\ (t = "lvgl" => running)

\* lvgl_port_lock: recursive for the LVGL task inside its timers.
LvglLocked(t) == t = "main" => pc["lvgl"] = "free"

-----------------------------------------------------------------------------
(***************************************************************************)
(* power_manager_note_interaction, and screen_on in its middle.            *)
(***************************************************************************)
NoteFade(t) ==
    /\ At(t, "n_fade")
    /\ Goto(t, IF fading THEN "n_cancel" ELSE "n_screen")
    /\ touched' = TRUE
    /\ UNCHANGED <<after, read, screenVars, idle, fadeVars, deviceVars, pending,
                   raced, leftover>>

NoteCancel(t) ==
    /\ At(t, "n_cancel") /\ Goto(t, "n_screen")
    /\ cancel' = TRUE /\ fading' = FALSE
    /\ UNCHANGED <<after, read, screenVars, idle, target, left, timers, deviceVars,
                   pending, historyVars>>

\* The branch of a dimmed screen leaves s_off_fade_done as it is.
NoteScreen(t) ==
    /\ At(t, "n_screen")
    /\ \/ /\ ~screenOn /\ Goto(t, "n_on")
          /\ screenOn' = TRUE /\ dim' = FALSE /\ offDone' = FALSE
          /\ leftover' = FALSE /\ raced' = (raced \/ t = "lvgl")
       \/ /\ screenOn /\ Goto(t, "n_time")
          /\ dim' = FALSE /\ leftover' = offDone
          /\ UNCHANGED <<screenOn, offDone, raced>>
    /\ UNCHANGED <<after, read, idle, fadeVars, deviceVars, pending, touched>>

\* Definitions ending in _Mutant put a plausible mistake in the place of the
\* definition after them; no specification uses them.
NoteOn_Mutant(t) ==                       \* without s_off
    /\ At(t, "n_on") /\ Goto(t, "n_resume")
    /\ off' = FALSE /\ lock' = lock + 1
    /\ UNCHANGED <<after, read, screenVars, idle, fadeVars, running, hardware,
                   pending, historyVars>>

\* screen_on does nothing unless screen_off has set s_off.
NoteOn(t) ==
    /\ At(t, "n_on")
    /\ \/ ~off /\ Goto(t, "n_time") /\ UNCHANGED <<off, lock>>
       \/ off /\ Goto(t, "n_resume") /\ off' = FALSE /\ lock' = lock + 1
    /\ UNCHANGED <<after, read, screenVars, idle, fadeVars, running, hardware,
                   pending, historyVars>>

NoteResume_Mutant(t) ==                   \* the panel without its task
    /\ At(t, "n_resume") /\ Goto(t, "n_draw")
    /\ hardware' = TRUE /\ pending' = FALSE
    /\ UNCHANGED <<after, read, screenVars, idle, fadeVars, off, running, lock,
                   historyVars>>

\* The panel, lvgl_port_resume, touch_fpc_resume, the sensors and the codec.
NoteResume(t) ==
    /\ At(t, "n_resume") /\ Goto(t, "n_draw")
    /\ running' = TRUE /\ hardware' = TRUE /\ pending' = FALSE
    /\ UNCHANGED <<after, read, screenVars, idle, fadeVars, off, lock, historyVars>>

\* The animation and a full redraw, under the LVGL lock.
NoteDraw(t) ==
    /\ At(t, "n_draw") /\ LvglLocked(t) /\ Goto(t, "n_time")
    /\ UNCHANGED <<after, read, screenVars, idle, fadeVars, deviceVars, pending,
                   historyVars>>

NoteTime(t) ==
    /\ At(t, "n_time")
    /\ Goto(t, IF t = "main" THEN after ELSE "free")
    /\ idle' = 0
    /\ UNCHANGED <<after, read, screenVars, fadeVars, deviceVars, pending, historyVars>>

Note(t) ==
    \/ NoteFade(t) \/ NoteCancel(t) \/ NoteScreen(t) \/ NoteOn(t)
    \/ NoteResume(t) \/ NoteDraw(t) \/ NoteTime(t)

-----------------------------------------------------------------------------
(***************************************************************************)
(* LVGL task: fade_tick, once for every timer and step, and a gesture.     *)
(***************************************************************************)
LvglUnchanged == UNCHANGED <<after, read, screenVars, idle, target, deviceVars,
                             pending, raced, touched>>

FadeCancelled ==
    /\ At("lvgl", "free") /\ cancel
    /\ cancel' = FALSE /\ fading' = FALSE
    /\ \E n \in DOMAIN timers : timers[n] > 0 /\ timers' = [timers EXCEPT ![n] = @ - 1]
    /\ LvglUnchanged /\ UNCHANGED <<pc, left, leftover>>

\* LVGL counts the run before the callback and deletes the timer after the
\* last one.
FadeRuns ==
    /\ At("lvgl", "free") /\ ~cancel /\ Goto("lvgl", "f_step")
    /\ \E n \in DOMAIN timers :
          /\ timers[n] > 0
          /\ timers' = [k \in DOMAIN timers |->
                           IF k = n THEN timers[k] - 1
                           ELSE IF k = n - 1 THEN Cap(timers[k] + 1) ELSE timers[k]]
    /\ LvglUnchanged /\ UNCHANGED <<fading, cancel, left, leftover>>

FadeStep_Mutant ==                        \* a wider counter
    /\ At("lvgl", "f_step")
    /\ left' = (left + 65535) % 65536
    /\ fading' = (fading /\ left' # 0)
    /\ Goto("lvgl", IF left' = 0 THEN "f_done" ELSE "free")
    /\ LvglUnchanged /\ UNCHANGED <<cancel, timers, leftover>>

\* s_fade_steps_left has eight bits.
FadeStep ==
    /\ At("lvgl", "f_step")
    /\ left' = (left + 255) % 256
    /\ fading' = (fading /\ left' # 0)
    /\ Goto("lvgl", IF left' = 0 THEN "f_done" ELSE "free")
    /\ LvglUnchanged /\ UNCHANGED <<cancel, timers, leftover>>

FadeDone_Mutant ==                        \* the end of any fade counts
    /\ At("lvgl", "f_done") /\ Goto("lvgl", "free")
    /\ offDone' = TRUE
    /\ leftover' = (leftover \/ (target = "dark" /\ ~dim))
    /\ UNCHANGED <<after, read, screenOn, dim, idle, fadeVars, deviceVars,
                   pending, raced, touched>>

FadeDone ==
    /\ At("lvgl", "f_done") /\ Goto("lvgl", "free")
    /\ offDone' = (offDone \/ target = "dark")
    /\ leftover' = (leftover \/ (target = "dark" /\ ~dim))
    /\ UNCHANGED <<after, read, screenOn, dim, idle, fadeVars, deviceVars,
                   pending, raced, touched>>

\* A gesture or a stroke: the electrodes are scanned while the hardware is up.
Gesture ==
    /\ At("lvgl", "free") /\ hardware /\ Goto("lvgl", "n_fade")
    /\ LvglUnchanged /\ UNCHANGED <<fading, cancel, left, timers, leftover>>

LvglStep ==
    FadeCancelled \/ FadeRuns \/ FadeStep \/ FadeDone \/ Note("lvgl")

-----------------------------------------------------------------------------
(***************************************************************************)
(* Main task: one round of the main loop.  The touch block runs every few  *)
(* seconds only.                                                           *)
(***************************************************************************)
Calls(back) == Goto("main", "n_fade") /\ after' = back

LoopUnchanged == UNCHANGED <<screenVars, idle, fadeVars, deviceVars, raced, leftover>>

Contact ==
    /\ pc["main"] = "touch" /\ screenOn
    /\ Calls("shake")
    /\ LoopUnchanged /\ UNCHANGED <<read, pending, touched>>

NoTouchBlock ==
    /\ pc["main"] = "touch" /\ Goto("main", "shake")
    /\ LoopUnchanged /\ UNCHANGED <<after, read, pending, touched>>

\* home_interaction_poll: shakes and taps count while the screen is on; both in
\* one round are one interaction.
Shake ==
    /\ pc["main"] = "shake"
    /\ \/ screenOn /\ Calls("probe")
       \/ Goto("main", "probe") /\ UNCHANGED after
    /\ LoopUnchanged /\ UNCHANGED <<read, pending, touched>>

ProbeWake_Mutant ==                       \* the wake is taken and not noted
    /\ pc["main"] = "probe" /\ Goto("main", "touch")
    /\ pending' = (pending /\ screenOn)
    /\ LoopUnchanged /\ UNCHANGED <<after, read, touched>>

\* touch_fpc_wake_pending and power_manager_note_probe_wake.
ProbeWake ==
    /\ pc["main"] = "probe"
    /\ \/ ~screenOn /\ pending /\ pending' = FALSE /\ Calls("touch")
       \/ ~(~screenOn /\ pending) /\ Goto("main", "touch") /\ UNCHANGED <<after, pending>>
    /\ LoopUnchanged /\ UNCHANGED <<read, touched>>

-----------------------------------------------------------------------------
(***************************************************************************)
(* Main task: power_manager_poll, with screen_off in its middle.           *)
(***************************************************************************)
PollIdle ==
    /\ pc["main"] = "touch" /\ Goto("main", "p_off")
    /\ read' = IF idle > OffAfter THEN "off" ELSE IF idle > DimAfter THEN "dim" ELSE "fresh"
    /\ touched' = (pc["lvgl"] \in NotePc)
    /\ LoopUnchanged /\ UNCHANGED <<after, pending>>

PollOff ==
    /\ pc["main"] = "p_off"
    /\ Goto("main", IF screenOn /\ dim /\ offDone THEN "p_dark" ELSE "p_fade")
    /\ LoopUnchanged /\ UNCHANGED <<after, read, pending, touched>>

PollDark ==
    /\ pc["main"] = "p_dark" /\ Goto("main", "s_off")
    /\ screenOn' = FALSE /\ dim' = FALSE /\ offDone' = FALSE /\ leftover' = FALSE
    /\ UNCHANGED <<after, read, idle, fadeVars, deviceVars, pending, raced, touched>>

ScreenOff ==
    /\ pc["main"] = "s_off"
    /\ Goto("main", IF off THEN "p_fade" ELSE "s_stop")
    /\ off' = TRUE
    /\ UNCHANGED <<after, read, screenVars, idle, fadeVars, running, hardware, lock,
                   pending, historyVars>>

\* lvgl_port_stop suspends the LVGL task, under its lock.
ScreenOffStop ==
    /\ pc["main"] = "s_stop" /\ LvglLocked("main") /\ Goto("main", "s_device")
    /\ running' = FALSE
    /\ UNCHANGED <<after, read, screenVars, idle, fadeVars, off, hardware, lock,
                   pending, historyVars>>

\* The light-sleep lock, touch_fpc_pause, the sensors, the codec, the panel.
ScreenOffDevice ==
    /\ pc["main"] = "s_device" /\ Goto("main", "p_fade")
    /\ lock' = lock - 1 /\ hardware' = FALSE /\ pending' = FALSE
    /\ UNCHANGED <<after, read, screenVars, idle, fadeVars, off, running, historyVars>>

PollFade_Mutant ==                        \* the steps are not set
    /\ pc["main"] = "p_fade"
    /\ screenOn /\ ~fading
    /\ cancel' = FALSE /\ fading' = TRUE
    /\ \/ /\ ~dim /\ read # "fresh"
          /\ target' = "dim" /\ Goto("main", "p_mark")
          /\ UNCHANGED <<offDone, leftover>>
       \/ /\ dim /\ read = "off"
          /\ target' = "dark" /\ Goto("main", "p_timer")
          /\ offDone' = FALSE /\ leftover' = FALSE
    /\ UNCHANGED <<after, read, screenOn, dim, idle, left, timers, deviceVars,
                   pending, raced, touched>>

\* The dimming starts a fade, then marks the screen as dim.
PollFade ==
    /\ pc["main"] = "p_fade"
    /\ screenOn /\ ~fading
    /\ cancel' = FALSE /\ fading' = TRUE /\ left' = FadeSteps
    /\ \/ /\ ~dim /\ read # "fresh"
          /\ target' = "dim" /\ Goto("main", "p_mark")
          /\ UNCHANGED <<offDone, leftover>>
       \/ /\ dim /\ read = "off"
          /\ target' = "dark" /\ Goto("main", "p_timer")
          /\ offDone' = FALSE /\ leftover' = FALSE
    /\ UNCHANGED <<after, read, screenOn, dim, idle, timers, deviceVars, pending,
                   raced, touched>>

NoFade ==
    /\ pc["main"] = "p_fade"
    /\ \/ ~screenOn \/ fading
       \/ ~dim /\ read = "fresh"
       \/ dim /\ read # "off"
    /\ Goto("main", "shake") /\ read' = "fresh"
    /\ LoopUnchanged /\ UNCHANGED <<after, pending, touched>>

PollMark ==
    /\ pc["main"] = "p_mark" /\ Goto("main", "p_timer")
    /\ dim' = TRUE
    /\ UNCHANGED <<after, read, screenOn, offDone, idle, fadeVars, deviceVars,
                   pending, historyVars>>

\* lv_timer_create, under the LVGL lock.
PollTimer ==
    /\ pc["main"] = "p_timer" /\ LvglLocked("main") /\ Goto("main", "shake")
    /\ timers' = [timers EXCEPT ![FadeSteps] = Cap(@ + 1)]
    /\ read' = "fresh"
    /\ UNCHANGED <<after, screenVars, idle, fading, cancel, target, left, deviceVars,
                   pending, historyVars>>

MainStep ==
    \/ NoTouchBlock \/ ProbeWake \/ PollIdle \/ PollOff \/ PollDark
    \/ ScreenOff \/ ScreenOffStop \/ ScreenOffDevice
    \/ PollFade \/ NoFade \/ PollMark \/ PollTimer \/ Note("main")

-----------------------------------------------------------------------------
(***************************************************************************)
(* The touch probe and the clock (external).                               *)
(***************************************************************************)
ProbeHit ==
    /\ ~hardware /\ ~pending /\ pending' = TRUE
    /\ UNCHANGED <<pc, after, read, screenVars, idle, fadeVars, deviceVars, historyVars>>

\* A tick is longer than a fade: a timer that LVGL can run is run in it.
Tick ==
    /\ idle < IdleCap /\ idle' = idle + 1
    /\ running => timers = NoTimer /\ pc["lvgl"] = "free"
    /\ UNCHANGED <<pc, after, read, screenVars, fadeVars, deviceVars, pending,
                   historyVars>>

Next == MainStep \/ LvglStep \/ Contact \/ Shake \/ Gesture \/ ProbeHit \/ Tick

Spec == Init /\ [][Next]_vars

\* The main task goes on, an interaction not being owed to it, and its touch
\* block comes again and again; LVGL runs what is due; time passes.
Fairness ==
    /\ WF_vars(MainStep \/ Shake)
    /\ SF_vars(PollIdle)
    /\ WF_vars(LvglStep)
    /\ WF_vars(Tick)

FairSpec == Spec /\ Fairness

-----------------------------------------------------------------------------
(***************************************************************************)
(* Properties.                                                             *)
(***************************************************************************)

\* The lock that forbids light sleep is held once while the screen is up and
\* not at all when it is off, although either task may light the screen in
\* the middle of a screen_off (power_manager.c:151-159).
Releasing == pc["main"] \in {"s_stop", "s_device"}
ScreenLockPaired ==
    lock = (IF off THEN 0 ELSE 1) + (IF Releasing THEN 1 ELSE 0)

\* A screen that counts as on has a running LVGL behind it.  Both tasks are
\* meant to be safe in screen_off (power_manager.c:251-255), and are unless a
\* gesture of the LVGL task lights the screen after the poll has declared it
\* off and before LVGL is stopped.
OnMeansRunning ==
    (screenOn /\ pc["main"] \in LoopPc) => (running /\ hardware /\ ~off)
StuckOnlyByRace == raced \/ OnMeansRunning

\* The dim screen is held until the off time-out: it goes off with an idle
\* time beyond it, or in a poll that an interaction ran into
\* (power_manager.c:339, 446-451).
HeldUntilOff ==
    [][screenOn /\ ~screenOn' => idle > OffAfter \/ touched]_vars

\* That is so unless s_off_fade_done was left behind by an interaction that
\* came between the end of the fade and the poll.
HeldUnlessLeftover ==
    [][screenOn /\ ~screenOn' => idle > OffAfter \/ touched \/ leftover]_vars

\* An interaction is on its way through note_interaction.
Noting == \E t \in Task : pc[t] \in NotePc

\* A device left alone goes dark and stays so, whatever fade was cancelled
\* half-way and whatever flag was left behind.  A poll that a fade-out ends in
\* starts it once more; it takes microseconds of a second, so fades are taken
\* not to step inside polls for ever.
FadeInPoll == pc["main"] \in {"p_off", "p_fade"} /\ pc["lvgl"] \in {"f_step", "f_done"}
QuietGoesDark == (<>[](~Noting /\ ~FadeInPoll) /\ []~raced) => <>[]~screenOn

\* The probe's wake is taken: the screen is lit and LVGL runs.
ProbeLights == (pending /\ ~raced) ~> (raced \/ (screenOn /\ running))
=============================================================================
