---------------------------- MODULE GestureDetect ----------------------------
(***************************************************************************)
(* Touch input of the firmware: gesture_process of                         *)
(* src/main/drivers/touch/gesture_detect.c, which an LVGL timer calls every *)
(* 20 ms, and on_gesture_event of src/main/app/input_handler.c, which it   *)
(* calls on the spot for every gesture it recognises.                      *)
(*                                                                         *)
(* A pass runs three state machines one after the other, each on a fresh   *)
(* sample of its electrode: the left button, the right strip, the top      *)
(* strip.  The main task is not locked out of a pass: it may switch the    *)
(* mirror of the screen off in the middle of one.  It suspends the LVGL    *)
(* task between two passes only (lvgl_port_lock).                          *)
(*                                                                         *)
(* A time stamp is kept as its age in ticks, saturating past the largest   *)
(* threshold it is compared with.  esp_timer_get_time has 64 bits and      *)
(* press_start_us has 32: a stamp taken after 2^32 microseconds of uptime  *)
(* is cut, and 64-bit time minus the stamp is then at least 2^32.          *)
(***************************************************************************)
EXTENDS Integers

CONSTANTS
    TapMax,        \* 500 ms: NAV_TAP_MAX_MS and the 500 of a left tap
    DoubleWindow,  \* DOUBLE_TAP_WINDOW_US
    TripleWindow,  \* TRIPLE_TAP_WINDOW_US
    LongPress,     \* LONG_PRESS_US
    ForceReboot,   \* FORCE_REBOOT_US
    Cooldown,      \* SETTINGS_OPEN_COOLDOWN_MS
    Settle,        \* NAV_SETTLE_MS
    Repeat,        \* NAV_HOLD_INTERVAL_US
    Gaps,          \* ticks between two passes: the LVGL timer may be late
    Grips          \* the sets of electrodes touched at the same time

ASSUME ThresholdsAssumption ==
    /\ TapMax \in Nat \ {0} /\ DoubleWindow \in Nat /\ TripleWindow \in Nat
    /\ LongPress \in Nat /\ ForceReboot \in Nat
    /\ Cooldown \in Nat /\ Settle \in Nat /\ Repeat \in Nat
    /\ TapMax <= DoubleWindow /\ DoubleWindow < TripleWindow
    /\ TripleWindow < LongPress /\ LongPress < ForceReboot
    /\ Settle <= TapMax /\ Repeat <= TapMax
ASSUME GapsAssumption == Gaps \subseteq Nat \ {0}
\* Fingers may always leave.
ASSUME GripsAssumption ==
    /\ Grips \subseteq SUBSET {"left", "right", "top"} /\ {} \in Grips
    /\ \A g \in Grips : SUBSET g \subseteq Grips

VARIABLES
    \* the left button (s_gctx)
    st,        \* state
    press,     \* age of press_start_us
    cut,       \* press_start_us lost its upper bits
    tap,       \* age of last_tap_us
    taps,      \* tap_count
    \* the strips
    nav,       \* s_nav
    swipe,     \* s_swipe
    \* the page
    page,      \* s_page; menu_active is its mirror and changes with it
    opened,    \* age of s_settings_open_tick
    tapMode,   \* nav_mode_is_tap
    \* the screen
    screenOn,  \* the mirror screen_on
    running,   \* the LVGL task is not suspended
    closing,   \* the main task is in screen_off, before lvgl_port_stop
    \* the pass
    turn,      \* the machine to run next
    late,      \* the uptime has passed 2^32 microseconds
    event,     \* what the last step emitted
    routed,    \* what the menu got of it
    \* history
    touching,  \* the electrodes touched when last sampled
    held,      \* age of the left contact on this page, -1 without one
    pause,     \* age of the last left release
    streak,    \* quick taps in a row on this page, up to 3
    resumed,   \* the left finger left and came again while LVGL was suspended
    slow,      \* a press was taken for the next tap when its window was over
    kinds,     \* what the right contact was taken for on this page
    woke       \* the electrode whose touch woke the screen and still lasts

leftVars   == <<st, press, cut, tap, taps>>
pageVars   == <<page, tapMode>>
screenVars == <<screenOn, running, closing>>
leftWatch  == <<held, pause, streak, resumed, slow>>
vars == <<st, press, cut, tap, taps, nav, swipe, page, opened, tapMode, screenOn,
          running, closing, turn, late, event, routed, touching, held, pause,
          streak, resumed, slow, kinds, woke>>

Position  == {-1, 0, 1}     \* of a finger on a strip; 0 is the dead zone
Threshold == 1              \* SWIPE_THRESHOLD, NAV_SLIDE_THRESHOLD
Electrode == {"left", "right", "top"}

AgeCap == ForceReboot + 1   \* of a contact
TapCap == TripleWindow + 1  \* of a release
Older(age, d, cap) == IF age + d > cap THEN cap ELSE age + d

Menu == {"SINGLE_TAP", "NAV_UP", "NAV_DOWN", "NAV_SLIDE_UP", "NAV_SLIDE_DOWN",
         "TOP_TAP_LEFT", "TOP_TAP_RIGHT", "SWIPE_LEFT", "SWIPE_RIGHT"}
Event == Menu \union {"none", "WAKE_SCREEN", "OPEN_MENU", "CLOSE_MENU",
                      "VOICE_TRIGGER", "MUTE_TOGGLE", "FORCE_REBOOT"}

LeftTypes ==
    /\ st \in {"IDLE", "PENDING", "SINGLE", "DOUBLE", "LONG"}
    /\ press \in 0 .. AgeCap /\ cut \in BOOLEAN
    /\ tap \in 0 .. TapCap /\ taps \in 0 .. 2
NavType ==
    [tracking : BOOLEAN, settled : BOOLEAN, slid : BOOLEAN, age : 0 .. TapMax,
     pos : Position, ref : Position, dir : Position, hold : 0 .. TapMax]
SwipeType ==
    [tracking : BOOLEAN, emitted : BOOLEAN, age : 0 .. TapMax, start : Position,
     pos : Position]
ScreenTypes ==
    /\ page \in {"HOME", "SETTINGS"} /\ opened \in 0 .. Cooldown
    /\ tapMode \in BOOLEAN
    /\ screenOn \in BOOLEAN /\ running \in BOOLEAN /\ closing \in BOOLEAN
PassTypes ==
    /\ turn \in Electrode /\ late \in BOOLEAN
    /\ event \in Event /\ routed \in {"none", "CONFIRM", "BACK", "SELECT"}
WatchTypes ==
    /\ touching \in Grips
    /\ held \in -1 .. AgeCap /\ pause \in 0 .. TapCap /\ streak \in 0 .. 3
    /\ resumed \in BOOLEAN /\ slow \in BOOLEAN
    /\ kinds \in SUBSET {"slide", "hold", "tap"}
    /\ woke \in Electrode \union {"none"}

TypeOK ==
    /\ LeftTypes /\ nav \in NavType /\ swipe \in SwipeType
    /\ ScreenTypes /\ PassTypes /\ WatchTypes

\* What the next touch sets before reading it is at rest: 0, and FALSE.
NavAtRest ==
    [tracking |-> FALSE, settled |-> FALSE, slid |-> FALSE, age |-> 0,
     pos |-> 0, ref |-> 0, dir |-> 0, hold |-> 0]
SwipeAtRest ==
    [tracking |-> FALSE, emitted |-> FALSE, age |-> 0, start |-> 0, pos |-> 0]

Init ==
    /\ st = "IDLE" /\ press = 0 /\ cut = FALSE /\ tap = 0 /\ taps = 0
    /\ nav = NavAtRest /\ swipe = SwipeAtRest
    /\ page = "HOME" /\ opened = 0 /\ tapMode \in BOOLEAN
    /\ screenOn = TRUE /\ running = TRUE /\ closing = FALSE
    /\ turn = "left" /\ late = FALSE /\ event = "none" /\ routed = "none"
    /\ touching = {} /\ held = -1 /\ pause = TapCap /\ streak = 0
    /\ resumed = FALSE /\ slow = FALSE
    /\ kinds = {} /\ woke = "none"

-----------------------------------------------------------------------------
(***************************************************************************)
(* Events and pages.                                                       *)
(***************************************************************************)
Rebooting == event = "FORCE_REBOOT"    \* esp_restart does not return

\* What a gesture means to the menu in the selection mode in force.
Meaning(ev) ==
    CASE ev \in {"SINGLE_TAP", "SWIPE_LEFT"} -> "CONFIRM"
      [] ev = "SWIPE_RIGHT" -> "BACK"
      [] tapMode /\ ev \in {"NAV_UP", "NAV_DOWN"} -> "SELECT"
      [] tapMode /\ ev = "TOP_TAP_LEFT" -> "BACK"
      [] tapMode /\ ev = "TOP_TAP_RIGHT" -> "CONFIRM"
      [] ~tapMode /\ ev \in {"NAV_SLIDE_UP", "NAV_SLIDE_DOWN"} -> "SELECT"
      [] OTHER -> "none"

\* on_gesture_event, the routing to the settings page.
Routed(ev) == IF page = "SETTINGS" /\ opened = Cooldown THEN Meaning(ev) ELSE "none"

Emit(ev) == event' = ev /\ routed' = Routed(ev)
Silent   == event' = "none" /\ routed' = "none"

\* Definitions ending in _Mutant put a plausible mistake in the place of the
\* definition after them; no specification uses them.
ResetTaps_Mutant ==                       \* the press goes on on the other page
    /\ tap' = 0 /\ taps' = 0 /\ UNCHANGED <<st, press, cut>>
    /\ nav' = NavAtRest /\ swipe' = SwipeAtRest
    /\ held' = -1 /\ streak' = 0 /\ kinds' = {}
    /\ resumed' = FALSE /\ slow' = FALSE

\* gesture_reset_taps, and the history of a page with it.
ResetTaps ==
    /\ st' = "IDLE" /\ press' = 0 /\ cut' = FALSE /\ tap' = 0 /\ taps' = 0
    /\ nav' = NavAtRest /\ swipe' = SwipeAtRest
    /\ held' = -1 /\ streak' = 0 /\ kinds' = {}
    /\ resumed' = FALSE /\ slow' = FALSE

\* A machine samples its electrode.
Sampled(e, down, next) ==
    /\ turn = e /\ running /\ ~Rebooting
    /\ touching' = IF down THEN touching \union {e} ELSE touching \ {e}
    /\ touching' \in Grips
    /\ woke' = IF woke = e /\ ~down THEN "none" ELSE woke
    /\ turn' = next
    /\ UNCHANGED <<tapMode, late, running, closing>>

-----------------------------------------------------------------------------
(***************************************************************************)
(* The left button: the first machine of a pass, d ticks after the last.   *)
(***************************************************************************)
LeftSampled(down, d) ==
    /\ Sampled("left", down, "right")
    /\ pause' = IF held >= 0 /\ ~down THEN 0 ELSE Older(pause, d, TapCap)

\* How soon the next tap of a sequence of n has to follow.
Window(n) == IF n = 1 THEN DoubleWindow ELSE TripleWindow

\* No change of the page.
SamePage(down, d) ==
    /\ LeftSampled(down, d)
    /\ opened' = Older(opened, d, Cooldown)
    /\ nav' = [nav EXCEPT !.age = Older(@, d, TapMax), !.hold = Older(@, d, TapMax)]
    /\ swipe' = [swipe EXCEPT !.age = Older(@, d, TapMax)]
    /\ held' = IF ~down THEN -1 ELSE IF held = -1 THEN 0 ELSE Older(held, d, AgeCap)
    /\ streak' = IF held >= 0 /\ ~down
                 THEN IF Older(held, d, AgeCap) >= TapMax THEN 0
                      ELSE IF streak = 3 THEN 3 ELSE streak + 1
                 ELSE IF held = -1 /\ Older(pause, d, TapCap) > Window(streak) THEN 0
                 ELSE streak
    /\ resumed' = (resumed /\ down)
    /\ UNCHANGED <<page, kinds>>

\* now_us - press_start_us.  Of a cut stamp it is at least 2^32; in ms and cut
\* to 32 bits itself it is below 500 for half a second in 49 days, left out.
Pressed(d) == IF cut THEN AgeCap ELSE Older(press, d, AgeCap)

PressDown == st' = "PENDING" /\ press' = 0 /\ cut' = late

FirstPress_Mutant(d) ==                   \* keeps the taps of an older sequence
    /\ st = "IDLE" /\ SamePage(TRUE, d)
    /\ PressDown /\ slow' = FALSE
    /\ UNCHANGED <<tap, taps, screenOn>> /\ Silent

FirstPress(d) ==
    /\ st = "IDLE" /\ SamePage(TRUE, d)
    /\ PressDown /\ taps' = 0 /\ slow' = FALSE
    /\ UNCHANGED <<tap, screenOn>> /\ Silent

\* The window is looked at in a pass without a press only: a press that comes
\* in the pass that would find it over still counts.
NextPress(d) ==
    /\ st \in {"SINGLE", "DOUBLE"} /\ SamePage(TRUE, d)
    /\ PressDown /\ tap' = 0
    /\ slow' = (slow \/ Older(tap, d, TapCap) > Window(taps))
    /\ UNCHANGED <<taps, screenOn>> /\ Silent

TapAtHome_Mutant(d) ==                    \* the third tap stays counted
    /\ st = "PENDING" /\ SamePage(FALSE, d) /\ Pressed(d) < TapMax /\ page = "HOME"
    /\ tap' = 0 /\ press' = 0 /\ cut' = FALSE /\ taps' = taps + 1
    /\ st' = IF taps' = 2 THEN "DOUBLE" ELSE IF taps' > 2 THEN "IDLE" ELSE "SINGLE"
    /\ IF taps' > 2 THEN Emit("MUTE_TOGGLE") ELSE Silent
    /\ UNCHANGED <<slow, screenOn>>

\* Two taps make a double tap, three a triple tap.
TapAtHome(d) ==
    /\ st = "PENDING" /\ SamePage(FALSE, d) /\ Pressed(d) < TapMax /\ page = "HOME"
    /\ tap' = 0 /\ press' = 0 /\ cut' = FALSE
    /\ \/ taps < 2 /\ taps' = taps + 1 /\ Silent
          /\ st' = IF taps' = 2 THEN "DOUBLE" ELSE "SINGLE"
       \/ taps = 2 /\ taps' = 0 /\ st' = "IDLE" /\ Emit("MUTE_TOGGLE")
    /\ UNCHANGED <<slow, screenOn>>

\* In the menu without delay; the settings page stays open on a CONFIRM.
TapInMenu(d) ==
    /\ st = "PENDING" /\ SamePage(FALSE, d) /\ Pressed(d) < TapMax /\ page = "SETTINGS"
    /\ st' = "IDLE" /\ taps' = 0 /\ press' = 0 /\ cut' = FALSE
    /\ Emit(IF screenOn THEN "SINGLE_TAP" ELSE "WAKE_SCREEN") /\ screenOn' = TRUE
    /\ slow' = FALSE /\ UNCHANGED tap

ReleaseUnused(d) ==
    /\ \/ st = "PENDING" /\ Pressed(d) >= TapMax /\ taps' = 0
       \/ st = "LONG" /\ UNCHANGED taps
    /\ SamePage(FALSE, d) /\ st' = "IDLE" /\ press' = 0 /\ cut' = FALSE
    /\ slow' = FALSE /\ UNCHANGED <<tap, screenOn>> /\ Silent

LongBegins(d) ==
    /\ st = "PENDING" /\ SamePage(TRUE, d) /\ Pressed(d) > LongPress
    /\ st' = "LONG" /\ press' = Pressed(d)
    /\ Emit(IF screenOn THEN "VOICE_TRIGGER" ELSE "WAKE_SCREEN") /\ screenOn' = TRUE
    /\ UNCHANGED <<slow, cut, tap, taps>>

Reboot_Mutant(d) ==                       \* reboot_fired left over from another press
    /\ st = "LONG" /\ SamePage(TRUE, d) /\ Pressed(d) > ForceReboot
    /\ Silent
    /\ UNCHANGED <<slow, st, press, cut, tap, taps, screenOn>>

\* Once in a press (reboot_fired): the restart ends the run.
Reboot(d) ==
    /\ st = "LONG" /\ SamePage(TRUE, d) /\ Pressed(d) > ForceReboot
    /\ Emit("FORCE_REBOOT")
    /\ UNCHANGED <<slow, st, press, cut, tap, taps, screenOn>>

SingleOver(d) ==
    /\ st = "SINGLE" /\ SamePage(FALSE, d) /\ Older(tap, d, TapCap) > DoubleWindow
    /\ st' = "IDLE" /\ taps' = 0 /\ tap' = 0
    /\ slow' = FALSE /\ UNCHANGED <<press, cut, screenOn>> /\ Silent

DoubleWakes(d) ==
    /\ st = "DOUBLE" /\ SamePage(FALSE, d) /\ Older(tap, d, TapCap) > TripleWindow
    /\ ~screenOn /\ Emit("WAKE_SCREEN") /\ screenOn' = TRUE
    /\ st' = "IDLE" /\ taps' = 0 /\ tap' = 0
    /\ slow' = FALSE /\ UNCHANGED <<press, cut>>

\* The page changes in the middle of the pass.  DOUBLE is a state of HOME only.
OpenMenu(d) ==
    /\ st = "DOUBLE" /\ LeftSampled(FALSE, d) /\ Older(tap, d, TapCap) > TripleWindow
    /\ screenOn /\ Emit("OPEN_MENU")
    /\ page' = "SETTINGS" /\ opened' = 0 /\ ResetTaps
    /\ UNCHANGED screenOn

LeftGoesOn(d) ==
    /\ \/ st = "IDLE" /\ SamePage(FALSE, d)
          /\ UNCHANGED <<press, tap>>
       \/ st = "PENDING" /\ SamePage(TRUE, d) /\ Pressed(d) <= LongPress
          /\ press' = Pressed(d) /\ UNCHANGED tap
       \/ st = "SINGLE" /\ SamePage(FALSE, d) /\ Older(tap, d, TapCap) <= DoubleWindow
          /\ tap' = Older(tap, d, TapCap) /\ UNCHANGED press
       \/ st = "DOUBLE" /\ SamePage(FALSE, d) /\ Older(tap, d, TapCap) <= TripleWindow
          /\ tap' = Older(tap, d, TapCap) /\ UNCHANGED press
       \/ st = "LONG" /\ SamePage(TRUE, d) /\ Pressed(d) <= ForceReboot
          /\ press' = Pressed(d) /\ UNCHANGED tap
    /\ UNCHANGED <<slow, st, cut, taps, screenOn>> /\ Silent

LeftStep ==
    \E d \in Gaps :
        \/ FirstPress(d) \/ NextPress(d) \/ TapAtHome(d) \/ TapInMenu(d)
        \/ ReleaseUnused(d) \/ LongBegins(d) \/ Reboot(d) \/ SingleOver(d)
        \/ DoubleWakes(d) \/ OpenMenu(d) \/ LeftGoesOn(d)

-----------------------------------------------------------------------------
(***************************************************************************)
(* The right strip: taps, slides and held navigation.                      *)
(***************************************************************************)
RightSampled(down) ==
    /\ Sampled("right", down, "top")
    /\ UNCHANGED <<leftVars, swipe, page, opened, screenOn, leftWatch>>

NavEvent(pos) == IF pos < 0 THEN "NAV_UP" ELSE "NAV_DOWN"
Far(d) == d > Threshold \/ -d > Threshold

NavPress(pos) ==
    /\ RightSampled(TRUE) /\ ~nav.tracking
    /\ nav' = [NavAtRest EXCEPT !.tracking = TRUE, !.pos = pos]
    /\ kinds' = {} /\ Silent

\* The reference once the filter has settled.
Settling(pos) ==
    [nav EXCEPT !.pos = pos, !.settled = @ \/ nav.age >= Settle,
                !.ref = IF ~nav.settled /\ nav.age >= Settle THEN pos ELSE @]

\* One event for each threshold passed; the loops leave the last in place.
NavSlide(pos) ==
    LET n == Settling(pos)
        d == pos - n.ref
    IN  /\ RightSampled(TRUE) /\ nav.tracking
        /\ n.settled /\ screenOn /\ Far(d)
        /\ nav' = [n EXCEPT !.slid = TRUE,
                            !.ref = IF d > 0 THEN pos - Threshold ELSE pos + Threshold]
        /\ Emit(IF d > 0 THEN "NAV_SLIDE_DOWN" ELSE "NAV_SLIDE_UP")
        /\ kinds' = kinds \union {"slide"}

NavHold(pos) ==
    LET n == Settling(pos)
        due == pos # 0 /\ pos = n.dir /\ n.hold >= Repeat
    IN  /\ RightSampled(TRUE) /\ nav.tracking
        /\ n.settled /\ screenOn /\ ~Far(pos - n.ref) /\ n.age >= TapMax /\ ~n.slid
        /\ nav' = [n EXCEPT !.dir = pos, !.hold = IF due \/ pos # n.dir THEN 0 ELSE @]
        /\ \/ due /\ Emit(NavEvent(pos)) /\ kinds' = kinds \union {"hold"}
           \/ ~due /\ Silent /\ UNCHANGED kinds

NavGoesOn(pos) ==
    LET n == Settling(pos)
    IN  /\ RightSampled(TRUE) /\ nav.tracking
        /\ \/ ~n.settled \/ ~screenOn
           \/ ~Far(pos - n.ref) /\ (n.age < TapMax \/ n.slid)
        /\ nav' = n
        /\ UNCHANGED kinds /\ Silent

NavIsTap_Mutant == ~nav.slid /\ screenOn /\ nav.pos # 0     \* however long
NavIsTap == nav.age < TapMax /\ ~nav.slid /\ screenOn /\ nav.pos # 0

NavRelease ==
    /\ RightSampled(FALSE) /\ nav.tracking
    /\ nav' = NavAtRest
    /\ \/ NavIsTap /\ Emit(NavEvent(nav.pos)) /\ kinds' = kinds \union {"tap"}
       \/ ~NavIsTap /\ Silent /\ UNCHANGED kinds

NavIdle ==
    /\ RightSampled(FALSE) /\ ~nav.tracking
    /\ UNCHANGED nav /\ kinds' = {} /\ Silent

RightStep ==
    \/ \E pos \in Position : NavPress(pos) \/ NavSlide(pos) \/ NavHold(pos) \/ NavGoesOn(pos)
    \/ NavRelease \/ NavIdle

-----------------------------------------------------------------------------
(***************************************************************************)
(* The top strip: one swipe in a touch, or a tap on one half.  BACK at the *)
(* root of the menu closes the settings page from inside the pass.         *)
(***************************************************************************)
TopSampled(down) ==
    /\ Sampled("top", down, "left")
    /\ UNCHANGED <<opened, screenOn, pause>>

StaysOnPage ==
    UNCHANGED <<leftVars, nav, page, held, streak, resumed, slow, kinds>>

Closes == routed' = "BACK" /\ page' = "HOME" /\ ResetTaps

TopPress(pos) ==
    /\ TopSampled(TRUE) /\ ~swipe.tracking
    /\ swipe' = [SwipeAtRest EXCEPT !.tracking = TRUE, !.start = pos, !.pos = pos]
    /\ StaysOnPage /\ Silent

Swipe(pos) ==
    /\ TopSampled(TRUE) /\ swipe.tracking
    /\ ~swipe.emitted /\ screenOn /\ Far(pos - swipe.start)
    /\ Emit(IF pos > swipe.start THEN "SWIPE_RIGHT" ELSE "SWIPE_LEFT")
    /\ \/ swipe' = [swipe EXCEPT !.pos = pos, !.emitted = TRUE] /\ StaysOnPage
       \/ Closes

TopGoesOn(pos) ==
    /\ TopSampled(TRUE) /\ swipe.tracking
    /\ swipe.emitted \/ ~screenOn \/ ~Far(pos - swipe.start)
    /\ swipe' = [swipe EXCEPT !.pos = pos]
    /\ StaysOnPage /\ Silent

TopIsTap == swipe.age < TapMax /\ ~swipe.emitted /\ screenOn /\ swipe.pos # 0

TopTap ==
    /\ TopSampled(FALSE) /\ swipe.tracking /\ TopIsTap
    /\ Emit(IF swipe.pos < 0 THEN "TOP_TAP_LEFT" ELSE "TOP_TAP_RIGHT")
    /\ \/ swipe' = SwipeAtRest /\ StaysOnPage
       \/ Closes

TopIdle ==
    /\ TopSampled(FALSE) /\ ~(swipe.tracking /\ TopIsTap)
    /\ swipe' = SwipeAtRest
    /\ StaysOnPage /\ Silent

TopStep ==
    \/ \E pos \in Position : TopPress(pos) \/ Swipe(pos) \/ TopGoesOn(pos)
    \/ TopTap \/ TopIdle

-----------------------------------------------------------------------------
(***************************************************************************)
(* The main task (power_manager_poll, note_probe_wake) and the restart.    *)
(***************************************************************************)
InputUnchanged == UNCHANGED <<page, tapMode, late, swipe, nav, touching, streak, kinds>>

ScreenOffBegins ==
    /\ screenOn /\ running /\ ~closing /\ ~Rebooting
    /\ screenOn' = FALSE /\ closing' = TRUE
    /\ InputUnchanged /\ Silent
    /\ UNCHANGED <<leftVars, opened, running, turn, held, pause, resumed, slow, woke>>

ScreenOffEnds ==
    /\ closing /\ turn = "left" /\ ~Rebooting
    /\ running' = FALSE /\ closing' = FALSE
    /\ InputUnchanged /\ Silent
    /\ UNCHANGED <<leftVars, opened, screenOn, turn, held, pause, resumed, slow, woke>>

\* The screen stayed off for longer than any window.  A finger that was there
\* may have stayed, left, or left and come again ("again"): the machines are as
\* they were and cannot tell.
Wake ==
    /\ ~screenOn /\ ~running /\ ~closing
    /\ screenOn' = TRUE /\ running' = TRUE
    /\ press' = IF st \in {"PENDING", "LONG"} THEN AgeCap ELSE 0
    /\ tap' = IF st \in {"SINGLE", "DOUBLE"} THEN TapCap ELSE 0
    /\ nav' = [nav EXCEPT !.age = TapMax, !.hold = TapMax]
    /\ swipe' = [swipe EXCEPT !.age = TapMax]
    /\ pause' = TapCap
    /\ opened' = Cooldown
    /\ \E again \in SUBSET touching :
          /\ resumed' = (held # -1 /\ "left" \in again)
          /\ held' = IF held = -1 THEN -1 ELSE IF resumed' THEN 0 ELSE AgeCap
          /\ kinds' = IF "right" \in again THEN {} ELSE kinds
    /\ streak' = IF held = -1 THEN streak ELSE 0
    /\ woke' \in Electrode \union {"none"}
    /\ Silent
    /\ UNCHANGED <<page, tapMode, late, touching, slow, st, cut, taps, closing, turn>>

ClockPasses32Bits ==
    /\ ~late /\ ~Rebooting
    /\ late' = TRUE
    /\ Silent
    /\ UNCHANGED <<leftVars, nav, swipe, pageVars, opened, screenVars, turn, touching,
                   leftWatch, kinds, woke>>

Restart ==
    /\ Rebooting
    /\ st' = "IDLE" /\ press' = 0 /\ cut' = FALSE /\ tap' = 0 /\ taps' = 0
    /\ nav' = NavAtRest /\ swipe' = SwipeAtRest
    /\ page' = "HOME" /\ opened' = 0 /\ UNCHANGED tapMode
    /\ screenOn' = TRUE /\ running' = TRUE /\ closing' = FALSE
    /\ turn' = "left" /\ late' = FALSE /\ Silent
    /\ touching' = {} /\ held' = -1 /\ pause' = TapCap /\ streak' = 0
    /\ resumed' = FALSE /\ slow' = FALSE
    /\ kinds' = {} /\ woke' = "none"

Next ==
    \/ LeftStep \/ RightStep \/ TopStep
    \/ ScreenOffBegins \/ ScreenOffEnds \/ Wake \/ ClockPasses32Bits \/ Restart

Spec == Init /\ [][Next]_vars

\* The LVGL timer keeps firing while its task runs, and esp_restart returns
\* to the boot.  Nothing is asked of the finger or of the main task.
Fairness == WF_vars(LeftStep \/ RightStep \/ TopStep) /\ WF_vars(Restart)

FairSpec == Spec /\ Fairness

-----------------------------------------------------------------------------
(***************************************************************************)
(* Properties.                                                             *)
(***************************************************************************)

\* A voice session or a forced restart is only ever the result of a finger
\* that stayed on the button for three or for ten seconds, whatever taps, page
\* changes and late passes came before (gesture_detect.c:51-54).  The exception
\* is a finger that left and came again in a sleep that began under it: its
\* press_start_us is that of the touch before (gesture_detect.c:150, 206).
LongPressIsHeld ==
    ~resumed =>
        /\ event = "VOICE_TRIGGER" => held > LongPress
        /\ event = "FORCE_REBOOT" => held > ForceReboot

\* The same of the first 71.6 minutes after a start, the part of it that the
\* code keeps (press_start_us, gesture_detect.c:27, 126, 150, 206).
LongPressIsHeldAtFirst == ~late => LongPressIsHeld

\* The menu opens after two quick taps in a row and mute toggles after three,
\* all on this page: long presses, taps long ago and taps on the page before
\* do not count (gesture_detect.h:49-50, input_handler.c:9).  Slower taps count
\* in one case: a late pass or the first after a sleep finds a press and the
\* window over at once, and takes the press (gesture_detect.c:164, 182).
TapsAreConsecutive ==
    [][ /\ event' = "OPEN_MENU" => streak >= 2 \/ slow
        /\ event' = "MUTE_TOGGLE" => streak' = 3 \/ slow' ]_vars

\* A touch of the right strip that moved the selection by sliding or by being
\* held does not move it once more as a tap at its end (gesture_detect.c:65-67).
NoTapAfterSlideOrHold == "tap" \in kinds => kinds = {"tap"}

\* The escape hatch: while LVGL runs, no finger stays on the button of one page
\* for ever without a restart (gesture_detect.c:52-54).
EscapeHatch == []<>(held = -1 \/ ~running)

ElectrodeOf(ev) ==
    CASE ev = "SINGLE_TAP" -> "left"
      [] ev \in {"TOP_TAP_LEFT", "TOP_TAP_RIGHT", "SWIPE_LEFT", "SWIPE_RIGHT"} -> "top"
      [] OTHER -> "right"

\* The touch that wakes the screen is not also taken as an operation on the
\* page behind it (gesture_detect.c:135, 236-237).
WakeTouchNotConsumed ==
    [][routed' # "none" => woke # ElectrodeOf(event')]_vars
=============================================================================
