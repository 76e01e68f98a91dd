------------------------ MODULE GestureDetectProofs ------------------------
(***************************************************************************)
(* Theorems about GestureDetect, for all thresholds in the order of the     *)
(* source, all delays of a pass and all ways of touching the electrodes.   *)
(*                                                                         *)
(* The model keeps beside every clock of the code what really happened to  *)
(* the finger: how long the contact has lasted, how long ago it ended, how *)
(* many quick taps there were.  The inductive invariant ties the two       *)
(* together: the code's press_start_us is the age of the contact while no   *)
(* stamp is cut and no finger came again in a sleep, its tap_count is no   *)
(* more than the taps in a row while no slow press was taken, and the flags *)
(* of the right strip are the kinds of gesture seen in this touch.         *)
(***************************************************************************)
EXTENDS GestureDetect, TLAPS

\* The clock of the left button and the contact it stands for.
Contact ==
    /\ st \in {"PENDING", "LONG"} => held >= 0
    /\ st \notin {"PENDING", "LONG"} => held = -1 /\ ~resumed
    /\ st = "PENDING" /\ ~cut /\ ~resumed => press = held
    /\ st = "LONG" /\ ~cut /\ ~resumed => press <= held
    /\ resumed => cut \/ press = AgeCap
    /\ cut => late

\* The count of taps and the taps in a row.
Counted ==
    /\ st \in {"SINGLE", "DOUBLE"} => taps <= streak \/ slow
    /\ st = "PENDING" => taps <= streak \/ slow \/ press = AgeCap
    /\ st = "SINGLE" => taps = 1
    /\ st = "DOUBLE" => taps = 2
    /\ st \in {"SINGLE", "DOUBLE"} => pause = tap

\* The flags of the right strip and what its touch was taken for.
OneKind ==
    /\ NoTapAfterSlideOrHold
    /\ nav.tracking =>
        /\ "tap" \notin kinds
        /\ "slide" \in kinds => nav.slid
        /\ "hold" \in kinds => nav.age = TapMax

\* What was emitted last is about the contact as it is now.
Grounded == LongPressIsHeldAtFirst

IInv == TypeOK /\ Contact /\ Counted /\ OneKind /\ Grounded

-----------------------------------------------------------------------------
(***************************************************************************)
(* Ages.                                                                   *)
(***************************************************************************)

\* An age that is raised stays within its cap and does not shrink.
LEMMA OlderRange ==
    ASSUME NEW cap \in Nat, NEW a \in 0 .. cap, NEW d \in Nat
    PROVE  Older(a, d, cap) \in 0 .. cap /\ a <= Older(a, d, cap)
BY DEF Older

\* The older of two contacts stays the older one.
LEMMA OlderGrows ==
    ASSUME NEW cap \in Nat, NEW a \in 0 .. cap, NEW b \in 0 .. cap, NEW d \in Nat,
           a <= b
    PROVE  Older(a, d, cap) <= Older(b, d, cap)
BY DEF Older

\* The caps are above every threshold that is compared with the age.
LEMMA Caps ==
    /\ AgeCap \in Nat /\ TapCap \in Nat /\ TapMax \in Nat /\ Cooldown \in Nat
    /\ ForceReboot < AgeCap /\ TapMax < AgeCap /\ TripleWindow < TapCap
    /\ DoubleWindow < TripleWindow /\ LongPress < AgeCap
    /\ TapMax <= LongPress /\ TripleWindow \in Nat /\ LongPress \in Nat /\ ForceReboot \in Nat
    /\ LongPress < ForceReboot /\ DoubleWindow \in Nat
BY ThresholdsAssumption DEF AgeCap, TapCap

\* What the left machine takes for the age of the contact is an age.
LEMMA PressedRange ==
    ASSUME TypeOK, NEW d \in Gaps
    PROVE  /\ Pressed(d) \in 0 .. AgeCap
           /\ ~cut => Pressed(d) = Older(press, d, AgeCap)
<1>1. d \in Nat
  BY GapsAssumption
<1>2. press \in 0 .. AgeCap
  BY DEF TypeOK, LeftTypes
<1>3. Older(press, d, AgeCap) \in 0 .. AgeCap
  BY <1>1, <1>2, OlderRange, Caps
<1>4. AgeCap \in 0 .. AgeCap
  BY Caps
<1> QED
  BY <1>3, <1>4 DEF Pressed

-----------------------------------------------------------------------------
(***************************************************************************)
(* Types.                                                                  *)
(***************************************************************************)

\* Whatever is emitted is an event, and the menu gets one of its three actions.
LEMMA EmitTypes ==
    ASSUME NEW ev \in Event, Emit(ev) \/ Silent
    PROVE  event' \in Event /\ routed' \in {"none", "CONFIRM", "BACK", "SELECT"}
BY DEF Emit, Silent, Event, Routed, Meaning

\* A sample of an electrode.
LEMMA SampledTypes ==
    ASSUME TypeOK, NEW e \in Electrode, NEW down \in BOOLEAN, NEW next \in Electrode,
           Sampled(e, down, next)
    PROVE  /\ touching' \in Grips /\ woke' \in Electrode \union {"none"}
           /\ turn' \in Electrode /\ tapMode' \in BOOLEAN /\ late' \in BOOLEAN
           /\ running' \in BOOLEAN /\ closing' \in BOOLEAN
BY DEF TypeOK, ScreenTypes, PassTypes, WatchTypes, Sampled

\* A pass of the left button on the same page: all it leaves to the single
\* actions are the machine itself, the screen and the event.
LEMMA SamePageTypes ==
    ASSUME TypeOK, NEW d \in Gaps, NEW down \in BOOLEAN, SamePage(down, d)
    PROVE  /\ nav' \in NavType /\ swipe' \in SwipeType
           /\ page' \in {"HOME", "SETTINGS"} /\ opened' \in 0 .. Cooldown
           /\ tapMode' \in BOOLEAN /\ running' \in BOOLEAN /\ closing' \in BOOLEAN
           /\ turn' \in Electrode /\ late' \in BOOLEAN
           /\ touching' \in Grips /\ woke' \in Electrode \union {"none"}
           /\ held' \in -1 .. AgeCap /\ pause' \in 0 .. TapCap /\ streak' \in 0 .. 3
           /\ resumed' \in BOOLEAN /\ kinds' \in SUBSET {"slide", "hold", "tap"}
<1>1. d \in Nat
  BY GapsAssumption
<1>2. Sampled("left", down, "right") /\ "left" \in Electrode /\ "right" \in Electrode
  BY DEF SamePage, LeftSampled, Electrode
<1>3. /\ touching' \in Grips /\ woke' \in Electrode \union {"none"}
      /\ turn' \in Electrode /\ tapMode' \in BOOLEAN /\ late' \in BOOLEAN
      /\ running' \in BOOLEAN /\ closing' \in BOOLEAN
  BY <1>2, SampledTypes
<1>4. nav' \in NavType
  <2>1. Older(nav.age, d, TapMax) \in 0 .. TapMax /\ Older(nav.hold, d, TapMax) \in 0 .. TapMax
    BY <1>1, OlderRange, Caps DEF TypeOK, NavType
  <2>2. nav' = [nav EXCEPT !.age = Older(nav.age, d, TapMax), !.hold = Older(nav.hold, d, TapMax)]
    BY DEF SamePage
  <2>3. nav \in NavType
    BY DEF TypeOK
  <2> QED
    BY <2>1, <2>2, <2>3 DEF NavType
<1>5. swipe' \in SwipeType
  <2>1. Older(swipe.age, d, TapMax) \in 0 .. TapMax
    BY <1>1, OlderRange, Caps DEF TypeOK, SwipeType
  <2>2. swipe' = [swipe EXCEPT !.age = Older(swipe.age, d, TapMax)]
    BY DEF SamePage
  <2>3. swipe \in SwipeType
    BY DEF TypeOK
  <2> QED
    BY <2>1, <2>2, <2>3 DEF SwipeType
<1>6. page' \in {"HOME", "SETTINGS"} /\ opened' \in 0 .. Cooldown
  BY <1>1, OlderRange, Caps DEF SamePage, TypeOK, ScreenTypes
<1>7. held' \in -1 .. AgeCap /\ pause' \in 0 .. TapCap /\ streak' \in 0 .. 3
  <2>1. /\ held \in -1 .. AgeCap /\ pause \in 0 .. TapCap /\ streak \in 0 .. 3
    BY DEF TypeOK, WatchTypes
  <2>2. held # -1 => Older(held, d, AgeCap) \in 0 .. AgeCap
    <3>1. AgeCap \in Nat /\ (held # -1 => held \in 0 .. AgeCap)
      BY <2>1, Caps
    <3> QED
      BY <1>1, <3>1, OlderRange
  <2>3. held' \in -1 .. AgeCap
    BY <2>2, Caps DEF SamePage
  <2>4. Older(pause, d, TapCap) \in 0 .. TapCap
    <3>1. TapCap \in Nat /\ pause \in 0 .. TapCap
      BY <2>1, Caps
    <3> QED
      BY <1>1, <3>1, OlderRange
  <2>5. pause' \in 0 .. TapCap
    BY <2>4, Caps DEF SamePage, LeftSampled
  <2>6. streak' \in {0, 3, streak} \/ (streak # 3 /\ streak' = streak + 1)
    BY DEF SamePage
  <2> QED
    BY <2>1, <2>3, <2>5, <2>6
<1>8. kinds' \in SUBSET {"slide", "hold", "tap"}
  BY DEF SamePage, TypeOK, WatchTypes
<1>9. resumed' \in BOOLEAN
  BY DEF SamePage
<1> QED
  BY <1>3, <1>4, <1>5, <1>6, <1>7, <1>8, <1>9

\* A change of the page puts the left button and both strips at rest.
LEMMA ResetTypes ==
    ASSUME ResetTaps
    PROVE  /\ LeftTypes' /\ nav' \in NavType /\ swipe' \in SwipeType
           /\ held' \in -1 .. AgeCap /\ streak' \in 0 .. 3
           /\ kinds' \in SUBSET {"slide", "hold", "tap"}
           /\ resumed' \in BOOLEAN /\ slow' \in BOOLEAN
<1>1. LeftTypes'
  <2>1. st' = "IDLE" /\ press' = 0 /\ tap' = 0 /\ taps' = 0
    BY DEF ResetTaps
  <2>2. cut' \in BOOLEAN
    BY DEF ResetTaps
  <2>3. press' \in 0 .. AgeCap /\ tap' \in 0 .. TapCap /\ taps' \in 0 .. 2
    BY <2>1, Caps
  <2> QED
    BY <2>1, <2>2, <2>3 DEF LeftTypes
<1>2. nav' \in NavType /\ swipe' \in SwipeType
  BY Caps DEF ResetTaps, NavAtRest, SwipeAtRest, NavType, SwipeType, Position
<1>3. resumed' \in BOOLEAN /\ slow' \in BOOLEAN
  BY DEF ResetTaps
<1> QED
  BY <1>1, <1>2, <1>3, Caps DEF ResetTaps

-----------------------------------------------------------------------------
(***************************************************************************)
(* The left button, one fact about a pass on the same page: what the        *)
(* action does to the machine keeps its type and its tie to the contact.   *)
(***************************************************************************)

\* The contact after a sample.
LEMMA SamePageContact ==
    ASSUME TypeOK, NEW d \in Gaps, NEW down \in BOOLEAN, SamePage(down, d)
    PROVE  /\ down => held' >= 0
           /\ ~down => held' = -1
           /\ down /\ held = -1 => held' = 0
           /\ down /\ held # -1 => held' = Older(held, d, AgeCap)
           /\ resumed' = (resumed /\ down)
           /\ late' = late
BY GapsAssumption, Caps DEF SamePage, LeftSampled, Sampled, TypeOK, WatchTypes, Older

\* The taps in a row after a sample: a contact that goes on keeps them, a release that
\* ends a quick one counts one more, and a pause keeps them while it is in its window.
LEMMA SamePageStreak ==
    ASSUME TypeOK, NEW d \in Gaps, NEW down \in BOOLEAN, SamePage(down, d)
    PROVE  /\ down /\ held >= 0 => streak' = streak
           /\ ~down /\ held >= 0 =>
                /\ pause' = 0
                /\ Older(held, d, AgeCap) < TapMax =>
                     streak' = (IF streak = 3 THEN 3 ELSE streak + 1)
           /\ held = -1 =>
                /\ pause' = Older(pause, d, TapCap)
                /\ Older(pause, d, TapCap) <= Window(streak) => streak' = streak
<1>1. held \in -1 .. AgeCap /\ streak \in 0 .. 3 /\ pause \in 0 .. TapCap /\ d \in Nat
  BY GapsAssumption DEF TypeOK, WatchTypes
<1>2. held = -1 \/ held >= 0
  BY <1>1, Caps
<1>3. AgeCap \in Nat /\ TapMax \in Nat /\ Window(streak) \in Nat /\ TapCap \in Nat
  BY Caps DEF Window
<1>4. down /\ held >= 0 => streak' = streak
  BY DEF SamePage
<1>5. held >= 0 => Older(held, d, AgeCap) \in 0 .. AgeCap
  <2>1. held >= 0 => held \in 0 .. AgeCap
    BY <1>1, <1>3
  <2> QED
    BY <1>1, <1>3, <2>1, OlderRange
<1>6. Older(pause, d, TapCap) \in 0 .. TapCap
  BY <1>1, <1>3, OlderRange
<1>7. ~down /\ held >= 0 => pause' = 0
  BY DEF SamePage, LeftSampled
<1>8. held = -1 => pause' = Older(pause, d, TapCap)
  BY <1>1 DEF SamePage, LeftSampled
<1>9. ~down /\ held >= 0 /\ Older(held, d, AgeCap) < TapMax =>
        streak' = (IF streak = 3 THEN 3 ELSE streak + 1)
  BY <1>1, <1>3, <1>5 DEF SamePage
<1>10. held = -1 /\ Older(pause, d, TapCap) <= Window(streak) => streak' = streak
  BY <1>1, <1>3, <1>6 DEF SamePage
<1> QED
  BY <1>4, <1>7, <1>8, <1>9, <1>10

\* What an action of the left machine has to show when the page stays.
LeftPart ==
    /\ LeftTypes /\ slow \in BOOLEAN /\ screenOn \in BOOLEAN /\ event \in Event
    /\ routed \in {"none", "CONFIRM", "BACK", "SELECT"}
LeftTies == Contact /\ Counted /\ Grounded

\* The button is touched.
LEMMA PressKeeps ==
    ASSUME IInv, NEW d \in Gaps, FirstPress(d) \/ NextPress(d)
    PROVE  LeftPart' /\ LeftTies'
<1>1. SamePage(TRUE, d) /\ PressDown /\ Silent /\ screenOn' = screenOn
  BY DEF FirstPress, NextPress
<1>2. st \in {"IDLE", "SINGLE", "DOUBLE"} /\ held = -1 /\ ~resumed
  BY DEF FirstPress, NextPress, IInv, Contact
<1>3. held' = 0 /\ late' = late /\ ~resumed'
  BY <1>1, <1>2, SamePageContact DEF IInv
<1>4. /\ (taps' = 0 \/ (taps' = taps /\ st \in {"SINGLE", "DOUBLE"}))
      /\ (tap' = 0 \/ tap' = tap)
  <2>1. CASE FirstPress(d)
    BY <2>1 DEF FirstPress
  <2>2. CASE NextPress(d)
    BY <2>2 DEF NextPress
  <2> QED
    BY <2>1, <2>2
<1>5. LeftTypes'
  <2>1. st' = "PENDING" /\ press' = 0 /\ cut' = late
    BY <1>1 DEF PressDown
  <2>2. cut' \in BOOLEAN
    BY <2>1 DEF IInv, TypeOK, PassTypes
  <2>3. press' \in 0 .. AgeCap /\ tap' \in 0 .. TapCap /\ taps' \in 0 .. 2
    BY <2>1, <1>4, Caps DEF IInv, TypeOK, LeftTypes
  <2> QED
    BY <2>1, <2>2, <2>3 DEF LeftTypes
<1>6. LeftPart'
  <2>1. event' \in Event /\ routed' \in {"none", "CONFIRM", "BACK", "SELECT"}
    BY <1>1 DEF Silent, Event
  <2>2. slow' \in BOOLEAN
    BY DEF FirstPress, NextPress, IInv, TypeOK, WatchTypes
  <2> QED
    BY <1>1, <1>5, <2>1, <2>2 DEF LeftPart, IInv, TypeOK, ScreenTypes
<1>7. Contact'
  BY <1>1, <1>3 DEF Contact, PressDown
<1>8. Counted'
  <2>1. streak \in 0 .. 3 /\ taps \in 0 .. 2
    BY DEF IInv, TypeOK, WatchTypes, LeftTypes
  <2>2. st' = "PENDING"
    BY <1>1 DEF PressDown
  <2>3. CASE FirstPress(d)
    <3>1. taps' = 0 /\ streak' \in 0 .. 3
      BY <1>1, <2>3, SamePageTypes DEF FirstPress, IInv
    <3> QED
      BY <2>2, <3>1 DEF Counted
  <2>4. CASE NextPress(d)
    <3>1. /\ taps' = taps /\ st \in {"SINGLE", "DOUBLE"} /\ pause = tap
          /\ slow' = (slow \/ Older(tap, d, TapCap) > Window(taps))
          /\ taps <= streak \/ slow
          /\ st = "SINGLE" => taps = 1
          /\ st = "DOUBLE" => taps = 2
      BY <2>4 DEF NextPress, IInv, Counted
    <3>2. slow \/ Older(tap, d, TapCap) > Window(taps) => slow'
      BY <3>1
    <3>3. CASE slow'
      BY <2>2, <3>3 DEF Counted
    <3>4. CASE taps <= streak /\ ~(Older(tap, d, TapCap) > Window(taps))
      <4>1. d \in Nat /\ tap \in 0 .. TapCap /\ TapCap \in Nat
        BY Caps, GapsAssumption DEF IInv, TypeOK, LeftTypes
      <4>2. Older(tap, d, TapCap) \in 0 .. TapCap
        BY <4>1, OlderRange
      <4>3. Older(pause, d, TapCap) <= Window(streak)
        BY <2>1, <3>1, <3>4, <4>1, <4>2, Caps DEF Window
      <4>4. streak' = streak
        BY <1>1, <1>2, <4>3, SamePageStreak DEF IInv
      <4> QED
        BY <2>2, <3>1, <3>4, <4>4 DEF Counted
    <3> QED
      BY <3>1, <3>2, <3>3, <3>4
  <2> QED
    BY <2>3, <2>4
<1>9. Grounded'
  BY <1>1 DEF Grounded, LongPressIsHeldAtFirst, LongPressIsHeld, Silent
<1> QED
  BY <1>6, <1>7, <1>8, <1>9 DEF LeftTies

\* A release that is taken for a tap ends a touch whose stamp is its own.
LEMMA QuickIsFresh ==
    ASSUME IInv, NEW d \in Gaps, Pressed(d) < TapMax
    PROVE  ~cut /\ ~resumed /\ press # AgeCap
<1>1. press \in 0 .. AgeCap /\ d \in Nat
  BY GapsAssumption DEF IInv, TypeOK, LeftTypes
<1>2. ~cut
  BY Caps DEF Pressed
<1>3. press # AgeCap
  BY <1>1, <1>2, Caps DEF Pressed, Older
<1>4. ~resumed
  BY <1>2, <1>3 DEF IInv, Contact
<1> QED
  BY <1>2, <1>3, <1>4

\* The button is released before it is held: a tap, or nothing.
LEMMA ReleaseKeeps ==
    ASSUME IInv, NEW d \in Gaps, TapAtHome(d) \/ TapInMenu(d) \/ ReleaseUnused(d)
    PROVE  LeftPart' /\ LeftTies'
<1>1. SamePage(FALSE, d) /\ st \in {"PENDING", "LONG"} /\ held >= 0
  BY DEF TapAtHome, TapInMenu, ReleaseUnused, IInv, Contact
<1>2. held' = -1 /\ late' = late /\ pause' = 0 /\ ~resumed'
  BY <1>1, SamePageContact, SamePageStreak DEF IInv
<1>3. press' = 0 /\ cut' = FALSE
  BY DEF TapAtHome, TapInMenu, ReleaseUnused
<1>4. /\ st' \in {"IDLE", "SINGLE", "DOUBLE"}
      /\ (tap' = 0 \/ tap' = tap)
      /\ taps' \in 0 .. 2
  <2>1. taps \in 0 .. 2
    BY DEF IInv, TypeOK, LeftTypes
  <2>2. CASE TapAtHome(d)
    BY <2>1, <2>2 DEF TapAtHome
  <2>3. CASE TapInMenu(d)
    BY <2>3 DEF TapInMenu
  <2>4. CASE ReleaseUnused(d)
    BY <2>1, <2>4 DEF ReleaseUnused
  <2> QED
    BY <2>2, <2>3, <2>4
<1>5. LeftTypes'
  <2>1. cut' \in BOOLEAN
    BY <1>3
  <2>2. press' \in 0 .. AgeCap /\ tap' \in 0 .. TapCap
    BY <1>3, <1>4, Caps DEF IInv, TypeOK, LeftTypes
  <2> QED
    BY <1>4, <2>1, <2>2 DEF LeftTypes
<1>6. LeftPart'
  <2>1. Silent \/ Emit("MUTE_TOGGLE") \/ Emit("SINGLE_TAP") \/ Emit("WAKE_SCREEN")
    <3>1. CASE TapAtHome(d)
      BY <3>1 DEF TapAtHome
    <3>2. CASE TapInMenu(d)
      BY <3>2 DEF TapInMenu
    <3>3. CASE ReleaseUnused(d)
      BY <3>3 DEF ReleaseUnused
    <3> QED
      BY <3>1, <3>2, <3>3
  <2>2. event' \in Event /\ routed' \in {"none", "CONFIRM", "BACK", "SELECT"}
    <3>1. {"MUTE_TOGGLE", "SINGLE_TAP", "WAKE_SCREEN"} \subseteq Event
      BY DEF Event, Menu
    <3> QED
      BY <2>1, <3>1, EmitTypes
  <2>3. screenOn' \in BOOLEAN
    BY DEF TapAtHome, TapInMenu, ReleaseUnused, IInv, TypeOK, ScreenTypes
  <2>4. slow' \in BOOLEAN
    BY DEF TapAtHome, TapInMenu, ReleaseUnused, IInv, TypeOK, WatchTypes
  <2> QED
    BY <1>5, <2>2, <2>3, <2>4 DEF LeftPart
<1>7. Contact'
  BY <1>2, <1>3, <1>4 DEF Contact
<1>8. Counted'
  <2>1. CASE TapAtHome(d)
    <3>1. held \in 0 .. AgeCap /\ streak \in 0 .. 3 /\ taps \in 0 .. 2 /\ press \in 0 .. AgeCap
      BY <1>1, Caps DEF IInv, TypeOK, WatchTypes, LeftTypes
    <3>2. ~cut /\ ~resumed /\ press # AgeCap
      BY <1>1, <2>1, QuickIsFresh DEF TapAtHome
    <3>3. (taps <= streak \/ slow) /\ slow' = slow
      BY <2>1, <3>2 DEF IInv, Counted, TapAtHome
    <3>4. press = held /\ Pressed(d) = Older(held, d, AgeCap)
      BY <2>1, <3>2 DEF TapAtHome, IInv, Contact, Pressed
    <3>5. streak' = (IF streak = 3 THEN 3 ELSE streak + 1)
      BY <1>1, <2>1, <3>4, SamePageStreak DEF TapAtHome, IInv
    <3>6. CASE taps < 2 /\ taps' = taps + 1 /\ st' = (IF taps' = 2 THEN "DOUBLE" ELSE "SINGLE")
      <4>1. taps' <= streak' \/ slow'
        BY <3>1, <3>3, <3>5, <3>6
      <4>2. /\ tap' = 0 /\ pause' = 0 /\ st' \in {"SINGLE", "DOUBLE"}
            /\ st' = "SINGLE" => taps' = 1
            /\ st' = "DOUBLE" => taps' = 2
        BY <1>2, <2>1, <3>1, <3>6 DEF TapAtHome
      <4> QED
        BY <4>1, <4>2 DEF Counted
    <3>7. CASE st' = "IDLE"
      BY <3>7 DEF Counted
    <3> QED
      BY <2>1, <3>6, <3>7 DEF TapAtHome
  <2>2. CASE TapInMenu(d) \/ ReleaseUnused(d)
    BY <2>2 DEF TapInMenu, ReleaseUnused, Counted
  <2> QED
    BY <2>1, <2>2
<1>9. Grounded'
  <2>1. event' \notin {"VOICE_TRIGGER", "FORCE_REBOOT"}
    BY DEF TapAtHome, TapInMenu, ReleaseUnused, Emit, Silent
  <2> QED
    BY <2>1 DEF Grounded, LongPressIsHeldAtFirst, LongPressIsHeld
<1> QED
  BY <1>6, <1>7, <1>8, <1>9 DEF LeftTies

\* The button is held.
LEMMA HoldKeeps ==
    ASSUME IInv, NEW d \in Gaps, LongBegins(d) \/ Reboot(d)
    PROVE  LeftPart' /\ LeftTies'
<1>1. /\ SamePage(TRUE, d) /\ st \in {"PENDING", "LONG"} /\ held >= 0 /\ held # -1
      /\ st' = "LONG" /\ cut' = cut /\ tap' = tap /\ taps' = taps
  <2>1. /\ SamePage(TRUE, d) /\ st \in {"PENDING", "LONG"}
        /\ st' = "LONG" /\ cut' = cut /\ tap' = tap /\ taps' = taps
    <3>1. CASE LongBegins(d)
      BY <3>1 DEF LongBegins
    <3>2. CASE Reboot(d)
      BY <3>2 DEF Reboot
    <3> QED
      BY <3>1, <3>2
  <2>2. held >= 0 /\ held # -1
    BY <2>1, Caps DEF IInv, Contact
  <2> QED
    BY <2>1, <2>2
<1>2. held' = Older(held, d, AgeCap) /\ late' = late /\ resumed' = resumed
  <2>1. resumed \in BOOLEAN
    BY DEF IInv, TypeOK, WatchTypes
  <2> QED
    BY <1>1, <2>1, SamePageContact DEF IInv
<1>3. /\ Pressed(d) \in 0 .. AgeCap
      /\ ~cut => Pressed(d) = Older(press, d, AgeCap)
  BY PressedRange DEF IInv
<1>4. held \in 0 .. AgeCap /\ press \in 0 .. AgeCap /\ d \in Nat /\ AgeCap \in Nat
  BY <1>1, Caps, GapsAssumption DEF IInv, TypeOK, WatchTypes, LeftTypes
<1>5. held' \in 0 .. AgeCap /\ held <= held'
  BY <1>2, <1>4, OlderRange
<1>6. ~cut /\ ~resumed => press <= held
  BY <1>1, <1>4 DEF IInv, Contact
<1>7. ~cut /\ ~resumed => Pressed(d) <= held'
  BY <1>2, <1>3, <1>4, <1>6, OlderGrows
<1>8. press' \in 0 .. AgeCap /\ (~cut /\ ~resumed => press' <= held')
  <2>1. press' = press \/ press' = Pressed(d)
    BY DEF LongBegins, Reboot
  <2>2. ~cut /\ ~resumed => press <= held'
    BY <1>4, <1>5, <1>6
  <2> QED
    BY <2>1, <2>2, <1>3, <1>4, <1>7
<1>9. LeftPart'
  <2>1. cut' \in BOOLEAN
    BY <1>1 DEF IInv, TypeOK, LeftTypes
  <2>2. st' = "LONG" /\ tap' \in 0 .. TapCap /\ taps' \in 0 .. 2
    BY <1>1 DEF IInv, TypeOK, LeftTypes
  <2>3. LeftTypes'
    BY <2>1, <2>2, <1>8 DEF LeftTypes
  <2>4. Emit("VOICE_TRIGGER") \/ Emit("WAKE_SCREEN") \/ Emit("FORCE_REBOOT")
    BY DEF LongBegins, Reboot
  <2>5. event' \in Event /\ routed' \in {"none", "CONFIRM", "BACK", "SELECT"}
    <3>1. {"VOICE_TRIGGER", "WAKE_SCREEN", "FORCE_REBOOT"} \subseteq Event
      BY DEF Event
    <3> QED
      BY <2>4, <3>1, EmitTypes
  <2>6. screenOn' \in BOOLEAN
    BY DEF LongBegins, Reboot, IInv, TypeOK, ScreenTypes
  <2>7. slow' \in BOOLEAN
    BY DEF LongBegins, Reboot, IInv, TypeOK, WatchTypes
  <2> QED
    BY <2>3, <2>5, <2>6, <2>7 DEF LeftPart
<1>10. Contact'
  <2>1. held' >= 0
    BY <1>4, <1>5
  <2>2. cut' => late'
    BY <1>1, <1>2 DEF IInv, Contact
  <2>3. resumed' => cut' \/ press' = AgeCap
    <3>1. ~cut /\ press = AgeCap => Pressed(d) = AgeCap
      BY <1>3, <1>4 DEF Older
    <3>2. press' = press \/ press' = Pressed(d)
      BY DEF LongBegins, Reboot
    <3> QED
      BY <1>1, <1>2, <3>1, <3>2 DEF IInv, Contact
  <2> QED
    BY <1>1, <1>2, <1>8, <2>1, <2>2, <2>3 DEF Contact
<1>11. Counted'
  BY <1>1 DEF Counted
<1>12. Grounded'
  <2>1. CASE LongBegins(d)
    <3>1. event' # "FORCE_REBOOT" /\ Pressed(d) > LongPress
      BY <2>1 DEF LongBegins, Emit
    <3>2. ~late' /\ ~resumed' => held' > LongPress
      <4>1. ~late' => ~cut
        BY <1>2 DEF IInv, Contact
      <4> QED
        BY <3>1, <4>1, <1>2, <1>3, <1>4, <1>5, <1>7, Caps
    <3> QED
      BY <3>1, <3>2 DEF Grounded, LongPressIsHeldAtFirst, LongPressIsHeld
  <2>2. CASE Reboot(d)
    <3>1. event' = "FORCE_REBOOT" /\ Pressed(d) > ForceReboot
      BY <2>2 DEF Reboot, Emit
    <3>2. ~late' /\ ~resumed' => held' > ForceReboot
      <4>1. ~late' => ~cut
        BY <1>2 DEF IInv, Contact
      <4> QED
        BY <3>1, <4>1, <1>2, <1>3, <1>4, <1>5, <1>7, Caps
    <3> QED
      BY <3>1, <3>2 DEF Grounded, LongPressIsHeldAtFirst, LongPressIsHeld
  <2> QED
    BY <2>1, <2>2
<1> QED
  BY <1>9, <1>10, <1>11, <1>12 DEF LeftTies

\* The pause after a tap is over, or the button just goes on as it was.
LEMMA WaitKeeps ==
    ASSUME IInv, NEW d \in Gaps, SingleOver(d) \/ DoubleWakes(d) \/ LeftGoesOn(d)
    PROVE  LeftPart' /\ LeftTies'
<1>1. /\ cut' = cut /\ event' \notin {"VOICE_TRIGGER", "FORCE_REBOOT"}
      /\ screenOn' \in BOOLEAN /\ (Silent \/ Emit("WAKE_SCREEN"))
  <2>1. screenOn \in BOOLEAN
    BY DEF IInv, TypeOK, ScreenTypes
  <2>2. CASE SingleOver(d)
    BY <2>1, <2>2 DEF SingleOver, Silent
  <2>3. CASE DoubleWakes(d)
    BY <2>3 DEF DoubleWakes, Emit
  <2>4. CASE LeftGoesOn(d)
    BY <2>1, <2>4 DEF LeftGoesOn, Silent
  <2> QED
    BY <2>2, <2>3, <2>4
<1>2. Grounded'
  BY <1>1 DEF Grounded, LongPressIsHeldAtFirst, LongPressIsHeld
<1>3. event' \in Event /\ routed' \in {"none", "CONFIRM", "BACK", "SELECT"}
  BY <1>1, EmitTypes DEF Event
<1>4. cut' \in BOOLEAN /\ slow' \in BOOLEAN
  BY <1>1 DEF IInv, TypeOK, LeftTypes, WatchTypes, SingleOver, DoubleWakes, LeftGoesOn
<1>5. /\ st \in {"IDLE", "PENDING", "SINGLE", "DOUBLE", "LONG"} /\ press \in 0 .. AgeCap
      /\ tap \in 0 .. TapCap /\ taps \in 0 .. 2 /\ pause \in 0 .. TapCap
      /\ held \in -1 .. AgeCap /\ d \in Nat /\ AgeCap \in Nat /\ TapCap \in Nat
  BY GapsAssumption, Caps DEF IInv, TypeOK, LeftTypes, WatchTypes
<1>6. Older(tap, d, TapCap) \in 0 .. TapCap
  BY <1>5, OlderRange
<1>7. /\ Pressed(d) \in 0 .. AgeCap
      /\ ~cut => Pressed(d) = Older(press, d, AgeCap)
  BY PressedRange DEF IInv
<1>8. CASE /\ SamePage(FALSE, d) /\ st \in {"IDLE", "SINGLE", "DOUBLE"} /\ st' = "IDLE"
           /\ press' = press /\ tap' \in {0, tap} /\ taps' \in {0, taps}
  <2>1. held' = -1 /\ late' = late /\ ~resumed'
    BY <1>8, SamePageContact DEF IInv
  <2>2. LeftTypes'
    BY <1>8, <1>4, <1>5 DEF LeftTypes
  <2>3. Contact'
    BY <1>1, <1>8, <2>1 DEF Contact, IInv
  <2>4. Counted'
    BY <1>8 DEF Counted
  <2> QED
    BY <1>1, <1>2, <1>3, <1>4, <2>2, <2>3, <2>4 DEF LeftPart, LeftTies
<1>9. CASE /\ SamePage(FALSE, d) /\ st \in {"SINGLE", "DOUBLE"} /\ st' = st
           /\ Older(tap, d, TapCap) <= (IF st = "SINGLE" THEN DoubleWindow ELSE TripleWindow)
           /\ press' = press /\ tap' = Older(tap, d, TapCap) /\ taps' = taps
           /\ slow' = slow
  <2>1. held = -1 /\ held' = -1 /\ late' = late /\ ~resumed'
    BY <1>9, SamePageContact DEF IInv, Contact
  <2>2. LeftTypes'
    BY <1>9, <1>4, <1>5, <1>6 DEF LeftTypes
  <2>3. Contact'
    BY <1>1, <1>9, <2>1 DEF Contact, IInv
  <2>4. /\ pause = tap /\ (taps <= streak \/ slow)
        /\ st = "SINGLE" => taps = 1
        /\ st = "DOUBLE" => taps = 2
    BY <1>9 DEF IInv, Counted
  <2>5. pause' = tap'
    BY <1>9, <2>1, <2>4, SamePageStreak DEF IInv
  <2>6. taps' <= streak' \/ slow'
    <3>1. CASE slow
      BY <1>9, <3>1
    <3>2. CASE taps <= streak
      <4>1. streak \in 0 .. 3
        BY DEF IInv, TypeOK, WatchTypes
      <4>2. Older(pause, d, TapCap) <= Window(streak)
        BY <1>5, <1>6, <1>9, <2>4, <3>2, <4>1, Caps DEF Window
      <4>3. streak' = streak
        BY <1>9, <2>1, <4>2, SamePageStreak DEF IInv
      <4> QED
        BY <1>9, <3>2, <4>3
    <3> QED
      BY <2>4, <3>1, <3>2
  <2>7. Counted'
    BY <1>9, <2>4, <2>5, <2>6 DEF Counted
  <2> QED
    BY <1>1, <1>2, <1>3, <1>4, <2>2, <2>3, <2>7 DEF LeftPart, LeftTies
<1>10. CASE /\ SamePage(TRUE, d) /\ st \in {"PENDING", "LONG"} /\ st' = st
            /\ press' = Pressed(d) /\ tap' = tap /\ taps' = taps /\ slow' = slow
  <2>1. held >= 0 /\ held # -1 /\ (~cut /\ ~resumed => press <= held)
    BY <1>10, <1>5 DEF IInv, Contact
  <2>2. held' = Older(held, d, AgeCap) /\ late' = late /\ resumed' = resumed
    <3>1. resumed \in BOOLEAN
      BY DEF IInv, TypeOK, WatchTypes
    <3> QED
      BY <1>10, <2>1, <3>1, SamePageContact DEF IInv
  <2>3. held \in 0 .. AgeCap
    BY <1>5, <2>1
  <2>4. held' \in 0 .. AgeCap /\ (~cut /\ ~resumed => press' <= held')
    BY <1>5, <1>7, <1>10, <2>1, <2>2, <2>3, OlderRange, OlderGrows
  <2>5. st' = "PENDING" /\ ~cut /\ ~resumed => press' = held'
    BY <1>7, <1>10, <2>2 DEF IInv, Contact
  <2>6. LeftTypes'
    BY <1>4, <1>5, <1>7, <1>10 DEF LeftTypes
  <2>7. Contact'
    <3>1. held' >= 0
      BY <1>5, <2>4
    <3>2. cut' => late'
      BY <1>1, <2>2 DEF IInv, Contact
    <3>3. press = AgeCap => Pressed(d) = AgeCap
      BY <1>5, <1>7 DEF Pressed, Older
    <3>4. resumed' => cut' \/ press' = AgeCap
      BY <1>1, <1>10, <2>2, <3>3 DEF IInv, Contact
    <3> QED
      BY <1>1, <1>10, <2>2, <2>4, <2>5, <3>1, <3>2, <3>4 DEF Contact
  <2>8. streak' = streak
    BY <1>10, <2>1, SamePageStreak DEF IInv
  <2>9. Counted'
    <3>1. press = AgeCap => press' = AgeCap
      BY <1>5, <1>7, <1>10 DEF Pressed, Older
    <3> QED
      BY <1>10, <2>8, <3>1 DEF Counted, IInv
  <2> QED
    BY <1>1, <1>2, <1>3, <1>4, <2>6, <2>7, <2>9 DEF LeftPart, LeftTies
<1>11. CASE SingleOver(d)
  <2>1. /\ SamePage(FALSE, d) /\ st = "SINGLE" /\ st' = "IDLE"
        /\ press' = press /\ tap' = 0 /\ taps' = 0
    BY <1>11 DEF SingleOver
  <2> QED
    BY <1>8, <2>1
<1>12. CASE DoubleWakes(d)
  <2>1. /\ SamePage(FALSE, d) /\ st = "DOUBLE" /\ st' = "IDLE"
        /\ press' = press /\ tap' = 0 /\ taps' = 0
    BY <1>12 DEF DoubleWakes
  <2> QED
    BY <1>8, <2>1
<1>13. CASE LeftGoesOn(d)
  <2>1. st' = st /\ taps' = taps /\ slow' = slow
    BY <1>13 DEF LeftGoesOn
  <2>2. CASE st = "IDLE" /\ SamePage(FALSE, d) /\ press' = press /\ tap' = tap
    BY <1>8, <2>1, <2>2
  <2>3. CASE st = "PENDING" /\ SamePage(TRUE, d) /\ press' = Pressed(d) /\ tap' = tap
    BY <1>10, <2>1, <2>3
  <2>4. CASE /\ st = "SINGLE" /\ SamePage(FALSE, d) /\ Older(tap, d, TapCap) <= DoubleWindow
             /\ tap' = Older(tap, d, TapCap) /\ press' = press
    BY <1>9, <2>1, <2>4
  <2>5. CASE /\ st = "DOUBLE" /\ SamePage(FALSE, d) /\ Older(tap, d, TapCap) <= TripleWindow
             /\ tap' = Older(tap, d, TapCap) /\ press' = press
    BY <1>9, <2>1, <2>5
  <2>6. CASE st = "LONG" /\ SamePage(TRUE, d) /\ press' = Pressed(d) /\ tap' = tap
    BY <1>10, <2>1, <2>6
  <2> QED
    BY <1>13, <2>2, <2>3, <2>4, <2>5, <2>6 DEF LeftGoesOn
<1> QED
  BY <1>11, <1>12, <1>13

-----------------------------------------------------------------------------
(***************************************************************************)
(* Whole passes.                                                           *)
(***************************************************************************)

\* A change of the page leaves no contact, no taps and no gesture of a strip.
LEMMA ResetTies ==
    ASSUME ResetTaps, late' = late,
           event' \notin {"VOICE_TRIGGER", "FORCE_REBOOT"}
    PROVE  LeftTies' /\ OneKind'
<1>1. Contact' /\ Counted'
  BY DEF ResetTaps, Contact, Counted
<1>2. Grounded'
  BY DEF Grounded, LongPressIsHeldAtFirst, LongPressIsHeld
<1>3. OneKind'
  BY DEF ResetTaps, OneKind, NoTapAfterSlideOrHold, NavAtRest
<1> QED
  BY <1>1, <1>2, <1>3 DEF LeftTies

\* Time passes for the touch of the right strip: it is held no shorter.
LEMMA SamePageKind ==
    ASSUME IInv, NEW d \in Gaps, NEW down \in BOOLEAN, SamePage(down, d)
    PROVE  OneKind'
<1>1. nav \in NavType /\ d \in Nat /\ TapMax \in Nat
  BY GapsAssumption, Caps DEF IInv, TypeOK
<1>2. nav.age \in 0 .. TapMax
  BY <1>1 DEF NavType
<1>3. Older(nav.age, d, TapMax) \in 0 .. TapMax /\ nav.age <= Older(nav.age, d, TapMax)
  BY <1>1, <1>2, OlderRange
<1>4. /\ nav'.tracking = nav.tracking /\ nav'.slid = nav.slid
      /\ nav'.age = Older(nav.age, d, TapMax) /\ kinds' = kinds
  BY <1>1 DEF SamePage, NavType
<1>5. nav.age = TapMax => nav'.age = TapMax
  BY <1>1, <1>2, <1>3, <1>4
<1> QED
  BY <1>4, <1>5 DEF IInv, OneKind, NoTapAfterSlideOrHold

\* A pass of the left button preserves the invariant.
LEMMA LeftKeeps ==
    ASSUME IInv, LeftStep
    PROVE  IInv'
<1> PICK d \in Gaps :
        \/ FirstPress(d) \/ NextPress(d) \/ TapAtHome(d) \/ TapInMenu(d)
        \/ ReleaseUnused(d) \/ LongBegins(d) \/ Reboot(d) \/ SingleOver(d)
        \/ DoubleWakes(d) \/ OpenMenu(d) \/ LeftGoesOn(d)
  BY DEF LeftStep
<1>1. ASSUME NEW down \in BOOLEAN, SamePage(down, d), LeftPart', LeftTies'
      PROVE  IInv'
  <2>1. OneKind'
    BY <1>1, SamePageKind
  <2>2. TypeOK'
    BY <1>1, SamePageTypes DEF IInv, TypeOK, LeftPart, ScreenTypes, PassTypes, WatchTypes
  <2> QED
    BY <1>1, <2>1, <2>2 DEF IInv, LeftTies
<1>2. CASE FirstPress(d) \/ NextPress(d)
  <2>1. SamePage(TRUE, d) /\ LeftPart' /\ LeftTies'
    BY <1>2, PressKeeps DEF FirstPress, NextPress
  <2> QED
    BY <1>1, <2>1
<1>3. CASE TapAtHome(d) \/ TapInMenu(d) \/ ReleaseUnused(d)
  <2>1. SamePage(FALSE, d) /\ LeftPart' /\ LeftTies'
    BY <1>3, ReleaseKeeps DEF TapAtHome, TapInMenu, ReleaseUnused
  <2> QED
    BY <1>1, <2>1
<1>4. CASE LongBegins(d) \/ Reboot(d)
  <2>1. SamePage(TRUE, d) /\ LeftPart' /\ LeftTies'
    BY <1>4, HoldKeeps DEF LongBegins, Reboot
  <2> QED
    BY <1>1, <2>1
<1>5. CASE SingleOver(d) \/ DoubleWakes(d) \/ LeftGoesOn(d)
  <2>1. LeftPart' /\ LeftTies'
    BY <1>5, WaitKeeps
  <2>2. SamePage(TRUE, d) \/ SamePage(FALSE, d)
    BY <1>5 DEF SingleOver, DoubleWakes, LeftGoesOn
  <2> QED
    BY <1>1, <2>1, <2>2
<1>6. CASE OpenMenu(d)
  <2>1. ResetTaps /\ Sampled("left", FALSE, "right") /\ Emit("OPEN_MENU")
    BY <1>6 DEF OpenMenu, LeftSampled
  <2>2. LeftTies' /\ OneKind'
    BY <2>1, ResetTies DEF Sampled, Emit
  <2>3. /\ touching' \in Grips /\ woke' \in Electrode \union {"none"}
        /\ turn' \in Electrode /\ tapMode' \in BOOLEAN /\ late' \in BOOLEAN
        /\ running' \in BOOLEAN /\ closing' \in BOOLEAN
    <3>1. "left" \in Electrode /\ "right" \in Electrode
      BY DEF Electrode
    <3> QED
      BY <2>1, <3>1, SampledTypes DEF IInv
  <2>4. event' \in Event /\ routed' \in {"none", "CONFIRM", "BACK", "SELECT"}
    BY <2>1, EmitTypes DEF Event
  <2>5. pause' \in 0 .. TapCap
    <3>1. TapCap \in Nat /\ pause \in 0 .. TapCap /\ d \in Nat
      BY Caps, GapsAssumption DEF IInv, TypeOK, WatchTypes
    <3>2. Older(pause, d, TapCap) \in 0 .. TapCap
      BY <3>1, OlderRange
    <3> QED
      BY <1>6, <3>1, <3>2 DEF OpenMenu, LeftSampled
  <2>6. page' \in {"HOME", "SETTINGS"} /\ opened' \in 0 .. Cooldown
    BY <1>6, Caps DEF OpenMenu
  <2>7. screenOn' \in BOOLEAN
    BY <1>6 DEF OpenMenu, IInv, TypeOK, ScreenTypes
  <2>8. TypeOK'
    BY <2>1, <2>3, <2>4, <2>5, <2>6, <2>7, ResetTypes
       DEF TypeOK, ScreenTypes, PassTypes, WatchTypes
  <2> QED
    BY <2>2, <2>8 DEF IInv, LeftTies
<1> QED
  BY <1>2, <1>3, <1>4, <1>5, <1>6

\* The touch of the right strip as it is now read, with its filter settled or not.
LEMMA SettlingType ==
    ASSUME nav \in NavType, NEW pos \in Position
    PROVE  /\ Settling(pos) \in NavType
           /\ Settling(pos).tracking = nav.tracking /\ Settling(pos).slid = nav.slid
           /\ Settling(pos).age = nav.age
BY DEF Settling, NavType

\* What the right machine leaves alone.
LEMMA RightFrame ==
    ASSUME IInv, NEW down \in BOOLEAN, RightSampled(down),
           nav' \in NavType, kinds' \in SUBSET {"slide", "hold", "tap"},
           NEW ev \in Menu, Emit(ev) \/ Silent
    PROVE  TypeOK' /\ LeftTies'
<1>1. Sampled("right", down, "top") /\ "right" \in Electrode /\ "top" \in Electrode
  BY DEF RightSampled, Electrode
<1>2. /\ touching' \in Grips /\ woke' \in Electrode \union {"none"}
      /\ turn' \in Electrode /\ tapMode' \in BOOLEAN /\ late' \in BOOLEAN
      /\ running' \in BOOLEAN /\ closing' \in BOOLEAN
  BY <1>1, SampledTypes DEF IInv
<1>3. event' \in Event /\ routed' \in {"none", "CONFIRM", "BACK", "SELECT"}
  BY EmitTypes DEF Event
<1>4. /\ UNCHANGED <<st, press, cut, tap, taps, swipe, page, opened, screenOn, held, pause,
                     streak, resumed, slow>>
      /\ late' = late
  BY <1>1 DEF RightSampled, leftVars, leftWatch, Sampled
<1>5. TypeOK'
  BY <1>2, <1>3, <1>4
     DEF IInv, TypeOK, LeftTypes, ScreenTypes, PassTypes, WatchTypes
<1>6. Contact' /\ Counted'
  BY <1>4 DEF IInv, Contact, Counted
<1>7. event' \notin {"VOICE_TRIGGER", "FORCE_REBOOT"}
  BY DEF Emit, Silent, Menu
<1> QED
  BY <1>5, <1>6, <1>7 DEF LeftTies, Grounded, LongPressIsHeldAtFirst, LongPressIsHeld

\* A pass of the right strip preserves the invariant: a tap is emitted only at the
\* end of a touch that was too short to be held and did not slide.
LEMMA RightKeeps ==
    ASSUME IInv, RightStep
    PROVE  IInv'
<1>1. /\ nav \in NavType /\ kinds \in SUBSET {"slide", "hold", "tap"}
      /\ TapMax \in Nat /\ OneKind
  BY Caps DEF IInv, TypeOK, WatchTypes
<1>2. ASSUME NEW down \in BOOLEAN, RightSampled(down), nav' \in NavType,
             kinds' \in SUBSET {"slide", "hold", "tap"},
             NEW ev \in Menu, Emit(ev) \/ Silent, OneKind'
      PROVE  IInv'
  BY <1>2, RightFrame DEF IInv, LeftTies
<1>3. {"NAV_UP", "NAV_DOWN", "NAV_SLIDE_UP", "NAV_SLIDE_DOWN"} \subseteq Menu
  BY DEF Menu
<1>4. ASSUME NEW pos \in Position, NavPress(pos)
      PROVE  IInv'
  <2>1. nav' = [NavAtRest EXCEPT !.tracking = TRUE, !.pos = pos]
    BY <1>4 DEF NavPress
  <2>2. nav' \in NavType
    <3>1. NavAtRest \in NavType
      BY Caps DEF NavAtRest, NavType, Position
    <3> QED
      BY <2>1, <3>1 DEF NavType
  <2>3. RightSampled(TRUE) /\ Silent /\ kinds' = {}
    BY <1>4 DEF NavPress
  <2>4. OneKind'
    BY <2>3 DEF OneKind, NoTapAfterSlideOrHold
  <2> QED
    BY <1>2, <1>3, <2>2, <2>3, <2>4
<1>5. ASSUME NEW pos \in Position, NavSlide(pos)
      PROVE  IInv'
  <2> DEFINE n == Settling(pos)
             to == IF pos - n.ref > 0 THEN pos - Threshold ELSE pos + Threshold
  <2>1. n \in NavType /\ n.tracking = nav.tracking /\ n.age = nav.age
    BY <1>1, SettlingType
  <2>2. n.ref \in Position
    BY <2>1 DEF NavType
  <2>3. /\ RightSampled(TRUE) /\ nav.tracking /\ Far(pos - n.ref)
        /\ nav' = [n EXCEPT !.slid = TRUE, !.ref = to]
        /\ (Emit("NAV_SLIDE_DOWN") \/ Emit("NAV_SLIDE_UP"))
        /\ kinds' = kinds \union {"slide"}
    BY <1>5 DEF NavSlide
  <2>4. to \in Position
    BY <2>2, <2>3 DEF Far, Position, Threshold
  <2>5. nav' \in NavType
    BY <2>1, <2>3, <2>4 DEF NavType
  <2>6. nav'.slid = TRUE /\ nav'.age = nav.age
    BY <2>1, <2>3 DEF NavType
  <2>7. kinds' \in SUBSET {"slide", "hold", "tap"}
    BY <1>1, <2>3
  <2>8. OneKind'
    BY <1>1, <2>3, <2>6 DEF OneKind, NoTapAfterSlideOrHold
  <2> QED
    BY <1>2, <1>3, <2>3, <2>5, <2>7, <2>8
<1>6. ASSUME NEW pos \in Position, NavHold(pos)
      PROVE  IInv'
  <2> DEFINE n == Settling(pos)
             due == pos # 0 /\ pos = n.dir /\ n.hold >= Repeat
             to == IF due \/ pos # n.dir THEN 0 ELSE n.hold
  <2>1. n \in NavType /\ n.tracking = nav.tracking /\ n.slid = nav.slid /\ n.age = nav.age
    BY <1>1, SettlingType
  <2>2. /\ RightSampled(TRUE) /\ nav.tracking /\ n.age >= TapMax
        /\ nav' = [n EXCEPT !.dir = pos, !.hold = to]
        /\ \/ Emit(NavEvent(pos)) /\ kinds' = kinds \union {"hold"}
           \/ Silent /\ UNCHANGED kinds
    BY <1>6 DEF NavHold
  <2>3. to \in 0 .. TapMax
    BY <1>1, <2>1 DEF NavType
  <2>4. nav' \in NavType
    BY <2>1, <2>2, <2>3 DEF NavType
  <2>5. nav'.slid = nav.slid /\ nav'.age = nav.age
    BY <2>1, <2>2 DEF NavType
  <2>6. nav.age = TapMax
    BY <1>1, <2>1, <2>2 DEF NavType
  <2>7. kinds' \in SUBSET {"slide", "hold", "tap"}
    BY <1>1, <2>2
  <2>8. OneKind'
    BY <1>1, <2>2, <2>5, <2>6 DEF OneKind, NoTapAfterSlideOrHold
  <2>9. NavEvent(pos) \in {"NAV_UP", "NAV_DOWN"}
    BY DEF NavEvent
  <2> QED
    BY <1>2, <1>3, <2>2, <2>4, <2>7, <2>8, <2>9
<1>7. ASSUME NEW pos \in Position, NavGoesOn(pos)
      PROVE  IInv'
  <2>1. /\ RightSampled(TRUE) /\ nav.tracking /\ Silent /\ kinds' = kinds
        /\ nav' = Settling(pos)
    BY <1>7 DEF NavGoesOn
  <2>2. nav' \in NavType /\ nav'.slid = nav.slid /\ nav'.age = nav.age
    BY <1>1, <2>1, SettlingType
  <2>3. OneKind'
    BY <1>1, <2>1, <2>2 DEF OneKind, NoTapAfterSlideOrHold
  <2> QED
    BY <1>1, <1>2, <1>3, <2>1, <2>2, <2>3
<1>8. CASE NavRelease
  <2>1. RightSampled(FALSE) /\ nav.tracking /\ nav' = NavAtRest
    BY <1>8 DEF NavRelease
  <2>2. nav' \in NavType /\ ~nav'.tracking
    <3>1. nav' \in NavType
      BY <2>1, Caps DEF NavAtRest, NavType, Position
    <3>2. ~nav'.tracking
      BY <2>1 DEF NavAtRest
    <3> QED
      BY <3>1, <3>2
  <2>3. CASE NavIsTap /\ Emit(NavEvent(nav.pos)) /\ kinds' = kinds \union {"tap"}
    <3>1. ~nav.slid /\ nav.age # TapMax
      BY <1>1, <2>3 DEF NavIsTap, NavType
    <3>2. kinds' = {"tap"}
      BY <1>1, <2>1, <2>3, <3>1 DEF OneKind
    <3>3. OneKind'
      BY <2>2, <3>2 DEF OneKind, NoTapAfterSlideOrHold
    <3>4. NavEvent(nav.pos) \in {"NAV_UP", "NAV_DOWN"}
      BY DEF NavEvent
    <3> QED
      BY <1>2, <1>3, <2>1, <2>2, <2>3, <3>2, <3>3, <3>4
  <2>4. CASE ~NavIsTap /\ Silent /\ UNCHANGED kinds
    <3>1. OneKind'
      BY <1>1, <2>2, <2>4 DEF OneKind, NoTapAfterSlideOrHold
    <3> QED
      BY <1>1, <1>2, <1>3, <2>1, <2>2, <2>4, <3>1
  <2> QED
    BY <1>8, <2>3, <2>4 DEF NavRelease
<1>9. CASE NavIdle
  <2>1. RightSampled(FALSE) /\ ~nav.tracking /\ nav' = nav /\ kinds' = {} /\ Silent
    BY <1>9 DEF NavIdle
  <2>2. OneKind'
    BY <2>1 DEF OneKind, NoTapAfterSlideOrHold
  <2> QED
    BY <1>1, <1>2, <1>3, <2>1, <2>2
<1> QED
  BY <1>4, <1>5, <1>6, <1>7, <1>8, <1>9 DEF RightStep

\* A pass of the top strip preserves the invariant, also when it closes the page.
LEMMA TopKeeps ==
    ASSUME IInv, TopStep
    PROVE  IInv'
<1>1. /\ swipe \in SwipeType /\ TapMax \in Nat
      /\ opened \in 0 .. Cooldown /\ screenOn \in BOOLEAN /\ pause \in 0 .. TapCap
  BY Caps DEF IInv, TypeOK, ScreenTypes, WatchTypes
<1>2. {"SWIPE_LEFT", "SWIPE_RIGHT", "TOP_TAP_LEFT", "TOP_TAP_RIGHT"} \subseteq Menu
  BY DEF Menu
<1>3. ASSUME NEW down \in BOOLEAN, TopSampled(down), NEW ev \in Menu, Emit(ev) \/ Silent
      PROVE  /\ touching' \in Grips /\ woke' \in Electrode \union {"none"}
             /\ tapMode' \in BOOLEAN /\ running' \in BOOLEAN /\ closing' \in BOOLEAN
             /\ PassTypes' /\ late' = late
             /\ opened' = opened /\ screenOn' = screenOn /\ pause' = pause
             /\ event' \notin {"VOICE_TRIGGER", "FORCE_REBOOT"}
  <2>1. Sampled("top", down, "left") /\ "left" \in Electrode /\ "top" \in Electrode
    BY <1>3 DEF TopSampled, Electrode
  <2>2. /\ touching' \in Grips /\ woke' \in Electrode \union {"none"}
        /\ turn' \in Electrode /\ tapMode' \in BOOLEAN /\ late' \in BOOLEAN
        /\ running' \in BOOLEAN /\ closing' \in BOOLEAN
    BY <2>1, SampledTypes DEF IInv
  <2>3. event' \in Event /\ routed' \in {"none", "CONFIRM", "BACK", "SELECT"}
    BY <1>3, EmitTypes DEF Event
  <2>4. late' = late /\ opened' = opened /\ screenOn' = screenOn /\ pause' = pause
    BY <1>3, <2>1 DEF TopSampled, Sampled
  <2>5. event' \notin {"VOICE_TRIGGER", "FORCE_REBOOT"}
    BY <1>3 DEF Emit, Silent, Menu
  <2> QED
    BY <2>2, <2>3, <2>4, <2>5 DEF PassTypes
<1>4. ASSUME NEW down \in BOOLEAN, TopSampled(down), NEW ev \in Menu, Emit(ev) \/ Silent,
             StaysOnPage, swipe' \in SwipeType
      PROVE  IInv'
  <2>1. UNCHANGED <<st, press, cut, tap, taps, nav, page, held, streak, resumed, slow, kinds>>
    BY <1>4 DEF StaysOnPage, leftVars
  <2>2. TypeOK'
    BY <1>1, <1>3, <1>4, <2>1 DEF IInv, TypeOK, LeftTypes, ScreenTypes, WatchTypes
  <2>3. Contact' /\ Counted' /\ OneKind'
    BY <1>3, <1>4, <2>1 DEF IInv, Contact, Counted, OneKind, NoTapAfterSlideOrHold
  <2>4. Grounded'
    BY <1>3, <1>4 DEF Grounded, LongPressIsHeldAtFirst, LongPressIsHeld
  <2> QED
    BY <2>2, <2>3, <2>4 DEF IInv
<1>5. ASSUME NEW down \in BOOLEAN, TopSampled(down), NEW ev \in Menu, Emit(ev) \/ Silent,
             Closes
      PROVE  IInv'
  <2>1. ResetTaps /\ page' = "HOME"
    BY <1>5 DEF Closes
  <2>2. TypeOK'
    BY <1>1, <1>3, <1>5, <2>1, ResetTypes DEF TypeOK, ScreenTypes, WatchTypes
  <2>3. LeftTies' /\ OneKind'
    BY <1>3, <1>5, <2>1, ResetTies
  <2> QED
    BY <2>2, <2>3 DEF IInv, LeftTies
<1>6. SwipeAtRest \in SwipeType
  BY <1>1 DEF SwipeAtRest, SwipeType, Position
<1>7. ASSUME NEW pos \in Position, TopPress(pos)
      PROVE  IInv'
  <2>1. swipe' = [SwipeAtRest EXCEPT !.tracking = TRUE, !.start = pos, !.pos = pos]
    BY <1>7 DEF TopPress
  <2>2. swipe' \in SwipeType
    BY <1>6, <2>1 DEF SwipeType
  <2> QED
    BY <1>2, <1>4, <1>7, <2>2 DEF TopPress
<1>8. ASSUME NEW pos \in Position, Swipe(pos)
      PROVE  IInv'
  <2>1. TopSampled(TRUE) /\ (Emit("SWIPE_RIGHT") \/ Emit("SWIPE_LEFT"))
    BY <1>8 DEF Swipe
  <2>2. CASE swipe' = [swipe EXCEPT !.pos = pos, !.emitted = TRUE] /\ StaysOnPage
    <3>1. swipe' \in SwipeType
      BY <1>1, <2>2 DEF SwipeType
    <3> QED
      BY <1>2, <1>4, <2>1, <2>2, <3>1
  <2>3. CASE Closes
    BY <1>2, <1>5, <2>1, <2>3
  <2> QED
    BY <1>8, <2>2, <2>3 DEF Swipe
<1>9. ASSUME NEW pos \in Position, TopGoesOn(pos)
      PROVE  IInv'
  <2>1. swipe' = [swipe EXCEPT !.pos = pos]
    BY <1>9 DEF TopGoesOn
  <2>2. swipe' \in SwipeType
    BY <1>1, <2>1 DEF SwipeType
  <2> QED
    BY <1>2, <1>4, <1>9, <2>2 DEF TopGoesOn
<1>10. CASE TopTap
  <2>1. TopSampled(FALSE) /\ (Emit("TOP_TAP_LEFT") \/ Emit("TOP_TAP_RIGHT"))
    BY <1>10 DEF TopTap
  <2>2. (swipe' = SwipeAtRest /\ StaysOnPage) \/ Closes
    BY <1>10 DEF TopTap
  <2> QED
    BY <1>2, <1>4, <1>5, <1>6, <2>1, <2>2
<1>11. CASE TopIdle
  BY <1>2, <1>4, <1>6, <1>11 DEF TopIdle
<1> QED
  BY <1>7, <1>8, <1>9, <1>10, <1>11 DEF TopStep

-----------------------------------------------------------------------------
(***************************************************************************)
(* The main task, the clock and the restart.                               *)
(***************************************************************************)

\* Switching the screen off changes nothing of what the machines have seen.
LEMMA ScreenOffKeeps ==
    ASSUME IInv, ScreenOffBegins \/ ScreenOffEnds
    PROVE  IInv'
<1>1. /\ UNCHANGED <<st, press, cut, tap, taps, nav, swipe, page, opened, tapMode, turn,
                     late, touching, held, pause, streak, resumed, slow, kinds, woke>>
      /\ Silent
  BY DEF ScreenOffBegins, ScreenOffEnds, InputUnchanged, leftVars
<1>2. screenOn' \in BOOLEAN /\ running' \in BOOLEAN /\ closing' \in BOOLEAN
  <2>1. screenOn \in BOOLEAN /\ running \in BOOLEAN /\ closing \in BOOLEAN
    BY DEF IInv, TypeOK, ScreenTypes
  <2>2. CASE ScreenOffBegins
    BY <2>1, <2>2 DEF ScreenOffBegins
  <2>3. CASE ScreenOffEnds
    BY <2>1, <2>3 DEF ScreenOffEnds
  <2> QED
    BY <2>2, <2>3
<1>3. event' \in Event /\ routed' \in {"none", "CONFIRM", "BACK", "SELECT"}
  BY <1>1 DEF Silent, Event
<1>4. TypeOK'
  BY <1>1, <1>2, <1>3
     DEF IInv, TypeOK, LeftTypes, ScreenTypes, PassTypes, WatchTypes
<1>5. Contact' /\ Counted' /\ OneKind'
  BY <1>1 DEF IInv, Contact, Counted, OneKind, NoTapAfterSlideOrHold
<1>6. Grounded'
  BY <1>1 DEF Silent, Grounded, LongPressIsHeldAtFirst, LongPressIsHeld
<1> QED
  BY <1>4, <1>5, <1>6 DEF IInv

\* The sleep makes every age that is still looked at as old as it can be.  A contact
\* that went on through it is as old as the clock says; one that came again is not.
LEMMA WakeKeeps ==
    ASSUME IInv, Wake
    PROVE  IInv'
<1>1. /\ UNCHANGED <<st, cut, taps, page, tapMode, closing, turn, late, touching, slow>>
      /\ Silent
  BY DEF Wake
<1>2. /\ press' = (IF st \in {"PENDING", "LONG"} THEN AgeCap ELSE 0)
      /\ tap' = (IF st \in {"SINGLE", "DOUBLE"} THEN TapCap ELSE 0)
      /\ nav' = [nav EXCEPT !.age = TapMax, !.hold = TapMax]
      /\ swipe' = [swipe EXCEPT !.age = TapMax]
      /\ pause' = TapCap /\ opened' = Cooldown
      /\ streak' = (IF held = -1 THEN streak ELSE 0)
      /\ woke' \in Electrode \union {"none"}
  BY DEF Wake
<1>3. screenOn' \in BOOLEAN /\ running' \in BOOLEAN
  BY DEF Wake
<1>4. PICK again \in SUBSET touching :
        /\ resumed' = (held # -1 /\ "left" \in again)
        /\ held' = (IF held = -1 THEN -1 ELSE IF resumed' THEN 0 ELSE AgeCap)
        /\ kinds' = (IF "right" \in again THEN {} ELSE kinds)
  BY DEF Wake
<1>5. resumed' \in BOOLEAN /\ (resumed' => held # -1)
  BY <1>4
<1>6. /\ nav \in NavType /\ swipe \in SwipeType /\ streak \in 0 .. 3
      /\ kinds \in SUBSET {"slide", "hold", "tap"}
  BY DEF IInv, TypeOK, WatchTypes
<1>7. /\ press' \in 0 .. AgeCap /\ tap' \in 0 .. TapCap /\ pause' \in 0 .. TapCap
      /\ opened' \in 0 .. Cooldown /\ streak' \in 0 .. 3
  BY <1>2, <1>6, Caps
<1>8. held' \in -1 .. AgeCap
  BY <1>4, Caps
<1>9. nav' \in NavType /\ swipe' \in SwipeType
  <2>1. TapMax \in 0 .. TapMax
    BY Caps
  <2>2. nav' \in NavType
    BY <1>2, <1>6, <2>1 DEF NavType
  <2>3. swipe' \in SwipeType
    BY <1>2, <1>6, <2>1 DEF SwipeType
  <2> QED
    BY <2>2, <2>3
<1>10. kinds' \in {{}, kinds}
  BY <1>4
<1>11. event' \in Event /\ routed' \in {"none", "CONFIRM", "BACK", "SELECT"}
  BY <1>1 DEF Silent, Event
<1>12. TypeOK'
  <2>1. kinds' \in SUBSET {"slide", "hold", "tap"}
    BY <1>6, <1>10
  <2> QED
    BY <1>1, <1>2, <1>3, <1>5, <1>7, <1>8, <1>9, <1>11, <2>1
       DEF IInv, TypeOK, LeftTypes, ScreenTypes, PassTypes, WatchTypes
<1>13. Contact'
  <2>1. CASE st \in {"PENDING", "LONG"}
    <3>1. held # -1 /\ press' = AgeCap
      BY <1>2, <2>1, Caps DEF IInv, Contact
    <3>2. held' >= 0 /\ (~resumed' => held' = AgeCap)
      BY <1>4, <3>1, Caps
    <3>3. press' <= AgeCap
      BY <3>1, Caps
    <3> QED
      BY <1>1, <2>1, <3>1, <3>2, <3>3 DEF IInv, Contact
  <2>2. CASE st \notin {"PENDING", "LONG"}
    <3>1. held' = -1 /\ ~resumed'
      BY <1>4, <1>5, <2>2 DEF IInv, Contact
    <3> QED
      BY <1>1, <2>2, <3>1 DEF IInv, Contact
  <2> QED
    BY <2>1, <2>2
<1>14. Counted'
  <2>1. st \in {"SINGLE", "DOUBLE"} => held = -1
    BY DEF IInv, Contact
  <2>2. st \in {"SINGLE", "DOUBLE"} => streak' = streak /\ pause' = tap'
    BY <1>2, <2>1
  <2> QED
    BY <1>1, <1>2, <2>2 DEF IInv, Counted
<1>15. OneKind'
  <2>1. nav'.tracking = nav.tracking /\ nav'.slid = nav.slid /\ nav'.age = TapMax
    BY <1>2, <1>6 DEF NavType
  <2> QED
    BY <1>10, <2>1 DEF IInv, OneKind, NoTapAfterSlideOrHold
<1>16. Grounded'
  BY <1>1 DEF Silent, Grounded, LongPressIsHeldAtFirst, LongPressIsHeld
<1> QED
  BY <1>12, <1>13, <1>14, <1>15, <1>16 DEF IInv

\* A stamp taken from now on is cut; the one of the contact under way is not.
LEMMA ClockKeeps ==
    ASSUME IInv, ClockPasses32Bits
    PROVE  IInv'
<1>1. /\ UNCHANGED <<st, press, cut, tap, taps, nav, swipe, page, opened, tapMode, screenOn,
                     running, closing, turn, touching, held, pause, streak, resumed, slow, kinds,
                     woke>>
      /\ Silent
  BY DEF ClockPasses32Bits, leftVars, pageVars, screenVars, leftWatch
<1>2. late' = TRUE
  BY DEF ClockPasses32Bits
<1>3. event' \in Event /\ routed' \in {"none", "CONFIRM", "BACK", "SELECT"}
  BY <1>1 DEF Silent, Event
<1>4. late' \in BOOLEAN
  BY <1>2
<1>5. TypeOK'
  BY <1>1, <1>3, <1>4
     DEF IInv, TypeOK, LeftTypes, ScreenTypes, PassTypes, WatchTypes
<1>6. Contact' /\ Counted' /\ OneKind'
  BY <1>1, <1>2 DEF IInv, Contact, Counted, OneKind, NoTapAfterSlideOrHold
<1>7. Grounded'
  BY <1>1 DEF Silent, Grounded, LongPressIsHeldAtFirst, LongPressIsHeld
<1> QED
  BY <1>5, <1>6, <1>7 DEF IInv

\* The start and the restart: nothing is touched.
LEMMA AtRest ==
    ASSUME st = "IDLE", press = 0, cut = FALSE, tap = 0, taps = 0,
           nav = NavAtRest, swipe = SwipeAtRest,
           page = "HOME", opened = 0, tapMode \in BOOLEAN,
           screenOn = TRUE, running = TRUE, closing = FALSE,
           turn = "left", late = FALSE, event = "none", routed = "none",
           touching = {}, held = -1, pause = TapCap, streak = 0,
           resumed = FALSE, slow = FALSE, kinds = {}, woke = "none"
    PROVE  IInv
<1>1. /\ press \in 0 .. AgeCap /\ tap \in 0 .. TapCap /\ taps \in 0 .. 2
      /\ opened \in 0 .. Cooldown /\ held \in -1 .. AgeCap /\ pause \in 0 .. TapCap
      /\ streak \in 0 .. 3
  BY Caps
<1>2. /\ cut \in BOOLEAN /\ screenOn \in BOOLEAN /\ running \in BOOLEAN
      /\ closing \in BOOLEAN /\ late \in BOOLEAN /\ resumed \in BOOLEAN /\ slow \in BOOLEAN
  OBVIOUS
<1>3. nav \in NavType /\ swipe \in SwipeType
  BY Caps DEF NavAtRest, SwipeAtRest, NavType, SwipeType, Position
<1>4. touching \in Grips
  BY GripsAssumption
<1>5. turn \in Electrode /\ event \in Event
  BY DEF Electrode, Event
<1>6. TypeOK
  BY <1>1, <1>2, <1>3, <1>4, <1>5
     DEF TypeOK, LeftTypes, ScreenTypes, PassTypes, WatchTypes
<1>7. Contact /\ Counted
  BY DEF Contact, Counted
<1>8. OneKind
  BY DEF OneKind, NoTapAfterSlideOrHold, NavAtRest
<1>9. Grounded
  BY DEF Grounded, LongPressIsHeldAtFirst, LongPressIsHeld
<1> QED
  BY <1>6, <1>7, <1>8, <1>9 DEF IInv

\* The invariant holds at the start.
LEMMA InitHolds == Init => IInv
BY AtRest DEF Init

\* esp_restart leads back to it.
LEMMA RestartKeeps ==
    ASSUME IInv, Restart
    PROVE  IInv'
<1>1. tapMode' \in BOOLEAN
  BY DEF Restart, IInv, TypeOK, ScreenTypes
<1>2. /\ st' = "IDLE" /\ press' = 0 /\ cut' = FALSE /\ tap' = 0 /\ taps' = 0
      /\ nav' = NavAtRest /\ swipe' = SwipeAtRest
      /\ page' = "HOME" /\ opened' = 0
      /\ screenOn' = TRUE /\ running' = TRUE /\ closing' = FALSE
      /\ turn' = "left" /\ late' = FALSE /\ event' = "none" /\ routed' = "none"
      /\ touching' = {} /\ held' = -1 /\ pause' = TapCap /\ streak' = 0
      /\ resumed' = FALSE /\ slow' = FALSE /\ kinds' = {} /\ woke' = "none"
  BY DEF Restart, Silent
<1>3. /\ press' \in 0 .. AgeCap /\ tap' \in 0 .. TapCap /\ taps' \in 0 .. 2
      /\ opened' \in 0 .. Cooldown /\ held' \in -1 .. AgeCap /\ pause' \in 0 .. TapCap
      /\ streak' \in 0 .. 3
  BY <1>2, Caps
<1>4. /\ cut' \in BOOLEAN /\ screenOn' \in BOOLEAN /\ running' \in BOOLEAN
      /\ closing' \in BOOLEAN /\ late' \in BOOLEAN
      /\ resumed' \in BOOLEAN /\ slow' \in BOOLEAN
  BY <1>2
<1>5. nav' \in NavType /\ swipe' \in SwipeType
  BY <1>2, Caps DEF NavAtRest, SwipeAtRest, NavType, SwipeType, Position
<1>6. touching' \in Grips
  BY <1>2, GripsAssumption
<1>7. turn' \in Electrode /\ event' \in Event
  BY <1>2 DEF Electrode, Event
<1>8. TypeOK'
  BY <1>1, <1>2, <1>3, <1>4, <1>5, <1>6, <1>7
     DEF TypeOK, LeftTypes, ScreenTypes, PassTypes, WatchTypes
<1>9. Contact' /\ Counted'
  BY <1>2 DEF Contact, Counted
<1>10. OneKind'
  BY <1>2 DEF OneKind, NoTapAfterSlideOrHold, NavAtRest
<1>11. Grounded'
  BY <1>2 DEF Grounded, LongPressIsHeldAtFirst, LongPressIsHeld
<1> QED
  BY <1>8, <1>9, <1>10, <1>11 DEF IInv

-----------------------------------------------------------------------------

\* The strips emit operations of the menu only.
LEMMA StripEvents ==
    ASSUME RightStep \/ TopStep
    PROVE  \E ev \in Menu : Emit(ev) \/ Silent
<1>1. {"NAV_UP", "NAV_DOWN", "NAV_SLIDE_UP", "NAV_SLIDE_DOWN", "SWIPE_LEFT", "SWIPE_RIGHT",
       "TOP_TAP_LEFT", "TOP_TAP_RIGHT"} \subseteq Menu
  BY DEF Menu
<1>2. \A pos : NavEvent(pos) \in {"NAV_UP", "NAV_DOWN"}
  BY DEF NavEvent
<1>3. ASSUME NEW pos \in Position, NavPress(pos) \/ NavGoesOn(pos)
      PROVE  Silent
  BY <1>3 DEF NavPress, NavGoesOn
<1>4. ASSUME NEW pos \in Position, NavSlide(pos)
      PROVE  Emit("NAV_SLIDE_DOWN") \/ Emit("NAV_SLIDE_UP")
  BY <1>4 DEF NavSlide
<1>5. ASSUME NEW pos \in Position, NavHold(pos)
      PROVE  Emit(NavEvent(pos)) \/ Silent
  BY <1>5 DEF NavHold
<1>6. CASE NavRelease
  <2>1. Emit(NavEvent(nav.pos)) \/ Silent
    BY <1>6 DEF NavRelease
  <2> QED
    BY <1>1, <1>2, <2>1
<1>7. CASE NavIdle \/ TopIdle
  BY <1>1, <1>7 DEF NavIdle, TopIdle
<1>8. ASSUME NEW pos \in Position, TopPress(pos) \/ TopGoesOn(pos)
      PROVE  Silent
  BY <1>8 DEF TopPress, TopGoesOn
<1>9. ASSUME NEW pos \in Position, Swipe(pos)
      PROVE  Emit("SWIPE_RIGHT") \/ Emit("SWIPE_LEFT")
  BY <1>9 DEF Swipe
<1>10. CASE TopTap
  <2>1. Emit("TOP_TAP_LEFT") \/ Emit("TOP_TAP_RIGHT")
    BY <1>10 DEF TopTap
  <2> QED
    BY <1>1, <2>1
<1> QED
  BY <1>1, <1>2, <1>3, <1>4, <1>5, <1>6, <1>7, <1>8, <1>9, <1>10 DEF RightStep, TopStep

\* A step that changes nothing preserves the invariant.
LEMMA StutterKeeps ==
    ASSUME IInv, UNCHANGED vars
    PROVE  IInv'
BY DEF IInv, vars, TypeOK, LeftTypes, ScreenTypes, PassTypes, WatchTypes, Contact, Counted,
       OneKind, NoTapAfterSlideOrHold, Grounded, LongPressIsHeldAtFirst, LongPressIsHeld

\* Whatever is touched and however late the passes are, the clocks, the counts and
\* the flags of the machines tell what the finger really did.
THEOREM Invariance == Spec => []IInv
<1>1. IInv /\ [Next]_vars => IInv'
  BY LeftKeeps, RightKeeps, TopKeeps, ScreenOffKeeps, WakeKeeps, ClockKeeps, RestartKeeps,
     StutterKeeps DEF Next
<1> QED
  BY InitHolds, <1>1, PTL DEF Spec

\* Every variable keeps its type: no age passes its cap and no tap is counted twice,
\* whatever the thresholds, the delays and the touches.
THEOREM TypeCorrect == Spec => []TypeOK
<1>1. IInv => TypeOK
  BY DEF IInv
<1> QED
  BY Invariance, <1>1, PTL

\* In the first 71.6 minutes after a start a voice session is the result of a finger
\* held for three seconds and a forced restart of one held for ten, whatever taps,
\* pages and late passes came before, but for a finger that left and came again in a
\* sleep which began under it (gesture_detect.c:51-54, 150, 206).
THEOREM LongPressHeld == Spec => []LongPressIsHeldAtFirst
<1>1. IInv => LongPressIsHeldAtFirst
  BY DEF IInv, Grounded
<1> QED
  BY Invariance, <1>1, PTL

\* A touch of the right strip that slid or was held is not taken for a tap as well at
\* its end (gesture_detect.c:65-67).
THEOREM OneKindPerTouch == Spec => []NoTapAfterSlideOrHold
<1>1. IInv => NoTapAfterSlideOrHold
  BY DEF IInv, OneKind
<1> QED
  BY Invariance, <1>1, PTL

\* The menu is opened by two quick taps in a row, mute is toggled by three, all of them
\* on this page (gesture_detect.h:49-50, input_handler.c:9), unless one pass found the
\* window of the next tap over and the button touched (gesture_detect.c:164, 182).
THEOREM TapsCounted == Spec => TapsAreConsecutive
<1> DEFINE Count == /\ event' = "OPEN_MENU" => streak >= 2 \/ slow
                    /\ event' = "MUTE_TOGGLE" => streak' = 3 \/ slow'
<1>1. ASSUME IInv, Next
      PROVE  Count \/ UNCHANGED vars
  <2>1. ASSUME NEW d \in Gaps, OpenMenu(d)
        PROVE  Count
    BY <1>1, <2>1 DEF OpenMenu, Emit, IInv, Counted, TypeOK, WatchTypes
  <2>2. ASSUME NEW d \in Gaps, TapAtHome(d)
        PROVE  Count
    <3>1. event' # "OPEN_MENU"
      BY <2>2 DEF TapAtHome, Emit, Silent
    <3>2. CASE event' # "MUTE_TOGGLE"
      BY <3>1, <3>2
    <3>3. CASE event' = "MUTE_TOGGLE"
      <4>1. taps = 2 /\ st = "PENDING" /\ SamePage(FALSE, d) /\ Pressed(d) < TapMax
        BY <2>2, <3>3 DEF TapAtHome, Silent
      <4>2. held >= 0 /\ streak \in 0 .. 3 /\ TypeOK /\ slow' = slow
        BY <1>1, <2>2, <4>1 DEF TapAtHome, IInv, Contact, TypeOK, WatchTypes
      <4>3. ~cut /\ ~resumed /\ press # AgeCap
        BY <1>1, <4>1, QuickIsFresh
      <4>6. taps <= streak \/ slow
        BY <1>1, <4>1, <4>3 DEF IInv, Counted
      <4>4. Pressed(d) = Older(held, d, AgeCap)
        BY <1>1, <4>1, <4>3 DEF IInv, Contact, Pressed
      <4>5. streak' = (IF streak = 3 THEN 3 ELSE streak + 1)
        BY <4>1, <4>2, <4>4, SamePageStreak
      <4> QED
        BY <3>1, <4>1, <4>2, <4>5, <4>6
    <3> QED
      BY <3>2, <3>3
  <2>3. ASSUME NEW d \in Gaps,
               \/ FirstPress(d) \/ NextPress(d) \/ TapInMenu(d) \/ ReleaseUnused(d)
               \/ LongBegins(d) \/ Reboot(d) \/ SingleOver(d) \/ DoubleWakes(d)
               \/ LeftGoesOn(d)
        PROVE  Count
    <3>1. CASE FirstPress(d) \/ NextPress(d) \/ ReleaseUnused(d) \/ SingleOver(d) \/ LeftGoesOn(d)
      <4>1. Silent
        BY <3>1 DEF FirstPress, NextPress, ReleaseUnused, SingleOver, LeftGoesOn
      <4> QED
        BY <4>1 DEF Silent
    <3>2. CASE TapInMenu(d) \/ LongBegins(d) \/ Reboot(d) \/ DoubleWakes(d)
      <4>1. \/ Emit("SINGLE_TAP") \/ Emit("WAKE_SCREEN") \/ Emit("VOICE_TRIGGER")
            \/ Emit("FORCE_REBOOT")
        BY <3>2 DEF TapInMenu, LongBegins, Reboot, DoubleWakes
      <4> QED
        BY <4>1 DEF Emit
    <3> QED
      BY <2>3, <3>1, <3>2
  <2>4. CASE RightStep \/ TopStep
    <3>1. \E ev \in Menu : Emit(ev) \/ Silent
      BY <2>4, StripEvents
    <3> QED
      BY <3>1 DEF Emit, Silent, Menu
  <2>6. CASE ScreenOffBegins \/ ScreenOffEnds \/ Wake \/ ClockPasses32Bits \/ Restart
    BY <2>6 DEF ScreenOffBegins, ScreenOffEnds, Wake, ClockPasses32Bits, Restart, Silent
  <2>7. CASE LeftStep
    BY <2>1, <2>2, <2>3, <2>7 DEF LeftStep
  <2> QED
    BY <1>1, <2>4, <2>6, <2>7 DEF Next
<1>2. IInv /\ [Next]_vars => [Count]_vars
  BY <1>1
<1> QED
  BY Invariance, <1>2, PTL DEF Spec, TapsAreConsecutive

=============================================================================
