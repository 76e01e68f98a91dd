-------------------------- MODULE UsbStorageProofs --------------------------
(***************************************************************************)
(* Proofs about UsbStorage, for every grace and every set of failures.     *)
(***************************************************************************)
EXTENDS UsbStorage, TLAPS

\* The module's definitions that stand for no more than a tuple of variables
\* or a part of an UNCHANGED, expanded in every step proof.
USE DEF vars, taskVars, pmVars, localVars, usbVars, fmtVars

-----------------------------------------------------------------------------
(***************************************************************************)
(* Type correctness.                                                       *)
(***************************************************************************)

LEMMA OutcomeIsBoolean == \A f : Outcome(f) \subseteq BOOLEAN
  BY DEF Outcome

LEMMA LvglStepTypeOK == TypeOK /\ LvglStep => TypeOK'
<1> SUFFICES ASSUME TypeOK, LvglStep PROVE TypeOK'
  OBVIOUS
<1> USE OutcomeIsBoolean, GraceAssumption DEF TypeOK, LvglUnchanged
<1>1. CASE EnterInstall
  <2>1. lvgl' \in LvglPc
    BY <1>1 DEF EnterInstall, LvglPc
  <2>2. stack' \in BOOLEAN
    BY <1>1 DEF EnterInstall, LvglPc
  <2>3. phy' \in {"USJ", "OTG"}
    BY <1>1 DEF EnterInstall, LvglPc
  <2>4. UNCHANGED <<main, up, handle, active, volBad, held, pmCreated,
                   pmCount, charging, grace, arg, ejected, mp, vol, medium,
                   tripped, fmt, request, plugged, lost>>
    BY <1>1 DEF EnterInstall
  <2> QED
    BY <2>1, <2>2, <2>3, <2>4
<1>2. CASE EnterSwitch
  BY <1>2 DEF EnterSwitch, LvglPc
<1>3. CASE EnterActive
  BY <1>3 DEF EnterActive, LvglPc
<1>4. CASE EnterLock
  <2>1. lvgl' \in LvglPc
    BY <1>4 DEF EnterLock, Acquire, LvglPc
  <2>2. held' \in BOOLEAN
    BY <1>4 DEF EnterLock, Acquire, LvglPc
  <2>3. pmCreated' \in BOOLEAN
    BY <1>4 DEF EnterLock, Acquire, LvglPc
  <2>4. pmCount' \in Int
    BY <1>4 DEF EnterLock, Acquire, LvglPc
  <2>5. charging' \in BOOLEAN
    BY <1>4 DEF EnterLock, Acquire, LvglPc
  <2>6. grace' \in 0 .. Grace + 1
    BY <1>4 DEF EnterLock, Acquire, LvglPc
  <2>7. UNCHANGED <<main, up, handle, active, volBad, arg, ejected, stack,
                   phy, mp, vol, medium, tripped, fmt, request, plugged, lost>>
    BY <1>4 DEF EnterLock, Acquire
  <2> QED
    BY <2>1, <2>2, <2>3, <2>4, <2>5, <2>6, <2>7
<1>5. CASE Uninstall
  <2>1. lvgl' \in LvglPc
    BY <1>5 DEF Uninstall, LvglPc
  <2>2. stack' \in BOOLEAN
    BY <1>5 DEF Uninstall, LvglPc
  <2>3. UNCHANGED <<main, up, handle, active, volBad, held, pmCreated,
                   pmCount, charging, grace, arg, ejected, phy, mp, vol,
                   medium, tripped, fmt, request, plugged>>
    BY <1>5 DEF Uninstall
  <2>4. lost' \in BOOLEAN
    BY <1>5 DEF Uninstall
  <2> QED
    BY <2>1, <2>2, <2>3, <2>4
<1>6. CASE RestorePhy
  <2>1. lvgl' \in LvglPc
    BY <1>6 DEF RestorePhy, PhyRestored, LvglPc
  <2>2. phy' \in {"USJ", "OTG"}
    BY <1>6 DEF RestorePhy, PhyRestored, LvglPc
  <2>3. UNCHANGED <<main, up, handle, active, volBad, held, pmCreated,
                   pmCount, charging, grace, arg, ejected, stack, mp, vol,
                   medium, tripped, fmt, request, plugged>>
    BY <1>6 DEF RestorePhy
  <2>4. lost' \in BOOLEAN
    BY <1>6 DEF RestorePhy
  <2> QED
    BY <2>1, <2>2, <2>3, <2>4
<1>7. CASE RemountOrSkip
  BY <1>7 DEF RemountOrSkip, Remounted, Mounted, LvglPc, Volume
<1>8. CASE ExitUnlock
  <2>1. lvgl' \in LvglPc
    BY <1>8 DEF ExitUnlock, Release, LvglPc
  <2>2. held' \in BOOLEAN
    BY <1>8 DEF ExitUnlock, Release, LvglPc
  <2>3. pmCount' \in Int
    BY <1>8 DEF ExitUnlock, Release, LvglPc
  <2>4. charging' \in BOOLEAN
    BY <1>8 DEF ExitUnlock, Release, LvglPc
  <2>5. grace' \in 0 .. Grace + 1
    BY <1>8 DEF ExitUnlock, Release, LvglPc
  <2>6. UNCHANGED <<main, up, handle, active, volBad, pmCreated, arg,
                   ejected, stack, phy, mp, vol, medium, tripped, fmt,
                   request, plugged, lost>>
    BY <1>8 DEF ExitUnlock, Release
  <2> QED
    BY <2>1, <2>2, <2>3, <2>4, <2>5, <2>6
<1>9. CASE ExitSwitch
  BY <1>9 DEF ExitSwitch, LvglPc
<1> QED
  BY <1>1, <1>2, <1>3, <1>4, <1>5, <1>6, <1>7, <1>8, <1>9 DEF LvglStep

LEMMA UserActionTypeOK == TypeOK /\ UserAction => TypeOK'
<1> SUFFICES ASSUME TypeOK, UserAction PROVE TypeOK'
  OBVIOUS
<1> USE DEF TypeOK, LvglUnchanged
<1>1. CASE EnterDetach
  <2>1. lvgl' \in LvglPc
    BY <1>1 DEF EnterDetach, LvglPc, Volume
  <2>2. vol' \in Volume
    BY <1>1 DEF EnterDetach, LvglPc, Volume
  <2>3. UNCHANGED <<main, up, handle, active, volBad, held, pmCreated,
                   pmCount, charging, grace, arg, ejected, stack, phy, mp,
                   medium, tripped, fmt, request, plugged, lost>>
    BY <1>1 DEF EnterDetach
  <2> QED
    BY <2>1, <2>2, <2>3
<1>2. CASE ExitFlag
  <2>1. lvgl' \in LvglPc
    BY <1>2 DEF ExitFlag, LvglPc
  <2>2. active' \in BOOLEAN
    BY <1>2 DEF ExitFlag, LvglPc
  <2>3. UNCHANGED <<main, up, handle, volBad, held, pmCreated, pmCount,
                   charging, grace, arg, ejected, stack, phy, mp, vol,
                   medium, tripped, fmt, request, plugged, lost>>
    BY <1>2 DEF ExitFlag
  <2> QED
    BY <2>1, <2>2, <2>3
<1>3. CASE RequestFormat
  <2>1. lvgl' \in LvglPc
    BY <1>3 DEF RequestFormat, LvglPc
  <2>2. fmt' \in BOOLEAN
    BY <1>3 DEF RequestFormat, LvglPc
  <2>3. request' \in Request
    BY <1>3 DEF RequestFormat, Request
  <2>4. UNCHANGED <<main, up, handle, active, volBad, held, pmCreated,
                   pmCount, charging, grace, arg, ejected, stack, phy, mp,
                   vol, medium, tripped, plugged, lost>>
    BY <1>3 DEF RequestFormat
  <2> QED
    BY <2>1, <2>2, <2>3, <2>4
<1> QED
  BY <1>1, <1>2, <1>3 DEF UserAction

LEMMA BatteryTypeOK ==
    TypeOK /\ (BatteryRead \/ BatteryUnread \/ SetChargingInactive
                 \/ SetChargingActive) => TypeOK'
<1> SUFFICES ASSUME TypeOK,
                    BatteryRead \/ BatteryUnread \/ SetChargingInactive
                      \/ SetChargingActive
             PROVE  TypeOK'
  OBVIOUS
<1> USE OutcomeIsBoolean, GraceAssumption DEF TypeOK, MainUnchanged, MainPc
<1>1. CASE BatteryRead
  <2>1. main' \in MainPc
    BY <1>1 DEF BatteryRead, Sooner
  <2>2. arg' \in BOOLEAN
    BY <1>1 DEF BatteryRead, Sooner
  <2>3. grace' \in 0 .. Grace + 1
    BY <1>1 DEF BatteryRead, Sooner
  <2>4. UNCHANGED <<lvgl, up, handle, active, volBad, held, pmCreated,
                   pmCount, charging, ejected, stack, phy, mp, vol, medium,
                   tripped, fmt, request, plugged, lost>>
    BY <1>1 DEF BatteryRead
  <2> QED
    BY <2>1, <2>2, <2>3, <2>4
<1>2. CASE BatteryUnread
  BY <1>2 DEF BatteryUnread, Sooner
<1>3. CASE SetChargingInactive
  <2>1. main' \in MainPc
    BY <1>3 DEF SetChargingInactive
  <2>2. charging' \in BOOLEAN
    BY <1>3 DEF SetChargingInactive
  <2>3. arg' \in BOOLEAN
    BY <1>3 DEF SetChargingInactive
  <2>4. UNCHANGED <<lvgl, up, handle, active, volBad, held, pmCreated,
                   pmCount, grace, ejected, stack, phy, mp, vol, medium,
                   tripped, fmt, request, plugged, lost>>
    BY <1>3 DEF SetChargingInactive
  <2> QED
    BY <2>1, <2>2, <2>3, <2>4
<1>4. CASE SetChargingActive
  <2>1. main' \in MainPc
    BY <1>4 DEF SetChargingActive, Acquire
  <2>2. held' \in BOOLEAN
    BY <1>4 DEF SetChargingActive, Acquire
  <2>3. pmCreated' \in BOOLEAN
    BY <1>4 DEF SetChargingActive, Acquire
  <2>4. pmCount' \in Int
    BY <1>4 DEF SetChargingActive, Acquire
  <2>5. charging' \in BOOLEAN
    BY <1>4 DEF SetChargingActive, Acquire
  <2>6. grace' \in 0 .. Grace + 1
    BY <1>4 DEF SetChargingActive, Acquire
  <2>7. arg' \in BOOLEAN
    BY <1>4 DEF SetChargingActive, Acquire
  <2>8. UNCHANGED <<lvgl, up, handle, active, volBad, ejected, stack, phy,
                   mp, vol, medium, tripped, fmt, request, plugged, lost>>
    BY <1>4 DEF SetChargingActive, Acquire
  <2> QED
    BY <2>1, <2>2, <2>3, <2>4, <2>5, <2>6, <2>7, <2>8
<1> QED
  BY <1>1, <1>2, <1>3, <1>4

LEMMA WriterTypeOK ==
    TypeOK /\ (RepairStart \/ WriterPass \/ RepairProbe \/ RepairDetach
                 \/ RepairRebuild \/ RepairVerify \/ WriterHeld \/ WriterGo
                 \/ Write) => TypeOK'
<1> SUFFICES ASSUME TypeOK,
                    RepairStart \/ WriterPass \/ RepairProbe \/ RepairDetach
                      \/ RepairRebuild \/ RepairVerify \/ WriterHeld
                      \/ WriterGo \/ Write
             PROVE  TypeOK'
  OBVIOUS
<1> USE DEF TypeOK, MainKeeps, MainPc
<1>1. CASE RepairStart
  <2>1. main' \in MainPc
    BY <1>1 DEF RepairStart
  <2>2. tripped' \in BOOLEAN
    BY <1>1 DEF RepairStart
  <2>3. UNCHANGED <<lvgl, up, handle, active, volBad, held, pmCreated,
                   pmCount, charging, grace, arg, ejected, stack, phy, mp,
                   vol, medium, fmt, request, plugged, lost>>
    BY <1>1 DEF RepairStart
  <2> QED
    BY <2>1, <2>2, <2>3
<1>2. CASE WriterPass
  BY <1>2 DEF WriterPass
<1>3. CASE RepairProbe
  <2>1. main' \in MainPc
    BY <1>3 DEF RepairProbe, RepairReturns, Probed, Mounted, Volume
  <2>2. vol' \in Volume
    BY <1>3 DEF RepairProbe, RepairReturns, Probed, Mounted, Volume
  <2>3. volBad' \in BOOLEAN
    BY <1>3 DEF RepairProbe, RepairReturns, Probed, Mounted, Volume
  <2>4. up' \in BOOLEAN
    BY <1>3 DEF RepairProbe, RepairReturns, Probed, Mounted, Volume
  <2>5. UNCHANGED <<lvgl, handle, active, held, pmCreated, pmCount,
                   charging, grace, arg, ejected, stack, phy, mp, medium,
                   fmt, request, plugged, lost>>
    BY <1>3 DEF RepairProbe, RepairReturns
  <2>6. tripped' = tripped
    BY <1>3 DEF RepairProbe, RepairReturns
  <2> QED
    BY <2>1, <2>2, <2>3, <2>4, <2>5, <2>6
<1>4. CASE RepairDetach
  <2>1. main' \in MainPc
    BY <1>4 DEF RepairDetach, Volume
  <2>2. vol' \in Volume
    BY <1>4 DEF RepairDetach, Volume
  <2>3. UNCHANGED <<lvgl, up, handle, active, volBad, held, pmCreated,
                   pmCount, charging, grace, arg, ejected, stack, phy, mp,
                   medium, tripped, fmt, request, plugged, lost>>
    BY <1>4 DEF RepairDetach
  <2> QED
    BY <2>1, <2>2, <2>3
<1>5. CASE RepairRebuild
  <2>1. main' \in MainPc
    BY <1>5 DEF RepairRebuild, RepairReturns, Mounted, Volume, Medium
  <2>2. medium' \in Medium
    BY <1>5 DEF RepairRebuild, RepairReturns, Mounted, Volume, Medium
  <2>3. vol' \in Volume
    BY <1>5 DEF RepairRebuild, RepairReturns, Mounted, Volume, Medium
  <2>4. volBad' \in BOOLEAN
    BY <1>5 DEF RepairRebuild, RepairReturns, Mounted, Volume, Medium
  <2>5. up' \in BOOLEAN
    BY <1>5 DEF RepairRebuild, RepairReturns, Mounted, Volume, Medium
  <2>6. UNCHANGED <<lvgl, handle, active, held, pmCreated, pmCount,
                   charging, grace, arg, ejected, stack, phy, mp, tripped,
                   fmt, request, plugged, lost>>
    BY <1>5 DEF RepairRebuild, RepairReturns
  <2> QED
    BY <2>1, <2>2, <2>3, <2>4, <2>5, <2>6
<1>6. CASE RepairVerify
  <2>1. main' \in MainPc
    BY <1>6 DEF RepairVerify, RepairReturns, Probed, Mounted, Volume
  <2>2. vol' \in Volume
    BY <1>6 DEF RepairVerify, RepairReturns, Probed, Mounted, Volume
  <2>3. volBad' \in BOOLEAN
    BY <1>6 DEF RepairVerify, RepairReturns, Probed, Mounted, Volume
  <2>4. up' \in BOOLEAN
    BY <1>6 DEF RepairVerify, RepairReturns, Probed, Mounted, Volume
  <2>5. UNCHANGED <<lvgl, handle, active, held, pmCreated, pmCount,
                   charging, grace, arg, ejected, stack, phy, mp, medium,
                   tripped, fmt, request, plugged, lost>>
    BY <1>6 DEF RepairVerify, RepairReturns
  <2> QED
    BY <2>1, <2>2, <2>3, <2>4, <2>5
<1>7. CASE WriterHeld
  BY <1>7 DEF WriterHeld
<1>8. CASE WriterGo
  BY <1>8 DEF WriterGo
<1>9. CASE Write
  <2>1. main' \in MainPc
    BY <1>9 DEF Write, Probed, Mounted, Volume, Medium
  <2>2. vol' \in Volume
    BY <1>9 DEF Write, Probed, Mounted, Volume, Medium
  <2>3. tripped' \in BOOLEAN
    BY <1>9 DEF Write, Probed, Mounted, Volume, Medium
  <2>4. medium' \in Medium
    BY <1>9 DEF Write, Probed, Mounted, Volume, Medium
  <2>5. UNCHANGED <<lvgl, up, handle, active, volBad, held, pmCreated,
                   pmCount, charging, grace, arg, ejected, stack, phy, mp,
                   fmt, request, plugged, lost>>
    BY <1>9 DEF Write
  <2> QED
    BY <2>1, <2>2, <2>3, <2>4, <2>5
<1> QED
  BY <1>1, <1>2, <1>3, <1>4, <1>5, <1>6, <1>7, <1>8, <1>9

LEMMA TickTypeOK ==
    TypeOK /\ (TickPass \/ TickProbe \/ TickRemount \/ TickMount \/ TickActive
                 \/ TickLock \/ TickRearm) => TypeOK'
<1> SUFFICES ASSUME TypeOK,
                    TickPass \/ TickProbe \/ TickRemount \/ TickMount
                      \/ TickActive \/ TickLock \/ TickRearm
             PROVE  TypeOK'
  OBVIOUS
<1> USE GraceAssumption DEF TypeOK, TickUnchanged, MainPc
<1>1. CASE TickPass
  BY <1>1 DEF TickPass
<1>2. CASE TickProbe
  BY <1>2 DEF TickProbe, Probed, Mounted, Volume
<1>3. CASE TickRemount
  BY <1>3 DEF TickRemount, Remounted, Mounted, Volume
<1>4. CASE TickMount
  BY <1>4 DEF TickMount, Volume
<1>5. CASE TickActive
  BY <1>5 DEF TickActive
<1>6. CASE TickLock
  <2>1. main' \in MainPc
    BY <1>6 DEF TickLock, Release
  <2>2. held' \in BOOLEAN
    BY <1>6 DEF TickLock, Release
  <2>3. pmCount' \in Int
    BY <1>6 DEF TickLock, Release
  <2>4. grace' \in 0 .. Grace + 1
    BY <1>6 DEF TickLock, Release
  <2>5. ejected' \in BOOLEAN
    BY <1>6 DEF TickLock, Release
  <2>6. UNCHANGED <<lvgl, up, handle, active, volBad, pmCreated, charging,
                   arg, stack, phy, mp, vol, medium, tripped, fmt,
                   request, plugged, lost>>
    BY <1>6 DEF TickLock, Release
  <2> QED
    BY <2>1, <2>2, <2>3, <2>4, <2>5, <2>6
<1>7. CASE TickRearm
  BY <1>7 DEF TickRearm
<1> QED
  BY <1>1, <1>2, <1>3, <1>4, <1>5, <1>6, <1>7

LEMMA BootTypeOK ==
    TypeOK /\ (BootPhy \/ BootFlag \/ BootErase \/ BootNew \/ BootMount
                 \/ BootMkfs) => TypeOK'
<1> SUFFICES ASSUME TypeOK,
                    BootPhy \/ BootFlag \/ BootErase \/ BootNew \/ BootMount
                      \/ BootMkfs
             PROVE  TypeOK'
  OBVIOUS
<1> USE DEF TypeOK, BootUnchanged, MainPc, BootPc
<1>1. CASE BootPhy
  <2>1. main' \in MainPc /\ lost' \in BOOLEAN
    BY <1>1, OutcomeIsBoolean DEF BootPhy
  <2>2. phy' \in {"USJ", "OTG"}
    BY <1>1 DEF BootPhy, PhyRestored
  <2>3. UNCHANGED <<lvgl, up, handle, active, volBad, held, pmCreated,
                   pmCount, charging, grace, arg, ejected, stack, mp, vol,
                   medium, tripped, fmt, request, plugged>>
    BY <1>1 DEF BootPhy
  <2> QED
    BY <2>1, <2>2, <2>3
<1>2. CASE BootFlag
  <2>1. main' \in MainPc
    BY <1>2 DEF BootFlag
  <2>2. fmt' \in BOOLEAN /\ request' \in Request
    BY <1>2, OutcomeIsBoolean DEF BootFlag, Request
  <2>3. UNCHANGED <<lvgl, up, handle, active, volBad, held, pmCreated,
                   pmCount, charging, grace, arg, ejected, stack, phy, mp,
                   vol, medium, tripped, plugged, lost>>
    BY <1>2 DEF BootFlag
  <2> QED
    BY <2>1, <2>2, <2>3
<1>3. CASE BootErase
  <2>1. main' \in MainPc
    BY <1>3 DEF BootErase
  <2>2. medium' \in Medium /\ request' \in Request
    BY <1>3 DEF BootErase, Medium, Request
  <2>3. UNCHANGED <<lvgl, up, handle, active, volBad, held, pmCreated,
                   pmCount, charging, grace, arg, ejected, stack, phy, mp,
                   vol, tripped, fmt, plugged, lost>>
    BY <1>3 DEF BootErase
  <2> QED
    BY <2>1, <2>2, <2>3
<1>4. CASE BootNew
  <2>1. main' \in MainPc
    BY <1>4 DEF BootNew
  <2>2. handle' \in BOOLEAN
    BY <1>4 DEF BootNew
  <2>3. up' \in BOOLEAN
    BY <1>4 DEF BootNew
  <2>4. UNCHANGED <<lvgl, active, volBad, held, pmCreated, pmCount,
                   charging, grace, arg, ejected, stack, phy, mp, vol,
                   medium, tripped, fmt, request, plugged, lost>>
    BY <1>4 DEF BootNew
  <2> QED
    BY <2>1, <2>2, <2>3, <2>4
<1>5. CASE BootMount
  BY <1>5 DEF BootMount, Volume
<1>6. CASE BootMkfs
  <2>1. main' \in MainPc
    BY <1>6 DEF BootMkfs, Volume, Medium
  <2>2. medium' \in Medium
    BY <1>6 DEF BootMkfs, Volume, Medium
  <2>3. vol' \in Volume
    BY <1>6 DEF BootMkfs, Volume, Medium
  <2>4. UNCHANGED <<lvgl, up, handle, active, volBad, held, pmCreated,
                   pmCount, charging, grace, arg, ejected, stack, phy, mp,
                   tripped, fmt, request, plugged, lost>>
    BY <1>6 DEF BootMkfs
  <2> QED
    BY <2>1, <2>2, <2>3, <2>4
<1> QED
  BY <1>1, <1>2, <1>3, <1>4, <1>5, <1>6

LEMMA OutsideTypeOK == TypeOK /\ (Restart \/ Environment) => TypeOK'
<1> SUFFICES ASSUME TypeOK, Restart \/ Environment PROVE TypeOK'
  OBVIOUS
<1> USE GraceAssumption DEF TypeOK
<1>1. ASSUME Boot, medium' \in Medium, phy' \in {"USJ", "OTG"} PROVE TypeOK'
  <2>1. main' \in MainPc
    BY <1>1 DEF Boot, MainPc, BootPc
  <2>2. lvgl' \in LvglPc
    BY <1>1 DEF Boot, LvglPc
  <2>3. vol' \in Volume /\ mp' \in {"USB", "APP"}
    BY <1>1 DEF Boot, Volume
  <2>4. grace' \in 0 .. Grace + 1 /\ pmCount' \in Int
    BY <1>1 DEF Boot
  <2>5. request' \in Request
    BY <1>1 DEF Boot, Request
  <2> QED
    BY <1>1, <2>1, <2>2, <2>3, <2>4, <2>5 DEF Boot
<1>2. CASE Restart
  BY <1>1, <1>2 DEF Restart
<1>3. CASE PowerCut
  <2>1. AfterCut \subseteq Medium
    BY DEF AfterCut, Medium
  <2> QED
    BY <1>1, <1>3, <2>1 DEF PowerCut
<1>4. CASE HostWrite
  BY <1>4 DEF HostWrite, Medium
<1>5. CASE HostEject
  BY <1>5 DEF HostEject
<1>6. CASE Plug
  BY <1>6 DEF Plug
<1> QED
  BY <1>2, <1>3, <1>4, <1>5, <1>6 DEF Environment

\* The state of the USB mode stays well typed, the grace deadline within its
\* bound, in every behaviour of the tasks, the host and the power supply.
THEOREM TypeCorrect == Spec => []TypeOK
<1>1. Init => TypeOK
  <2> SUFFICES ASSUME Init PROVE TypeOK
    OBVIOUS
  <2>1. main \in MainPc
    BY DEF Init, MainPc, BootPc
  <2>2. lvgl \in LvglPc
    BY DEF Init, LvglPc
  <2>3. vol \in Volume /\ medium \in Medium
    BY DEF Init, Volume, Medium
  <2>4. grace \in 0 .. Grace + 1 /\ pmCount \in Int
    BY GraceAssumption DEF Init
  <2>5. request \in Request
    BY DEF Init, Request
  <2> QED
    BY <2>1, <2>2, <2>3, <2>4, <2>5 DEF Init, TypeOK
<1>2. TypeOK /\ [Next]_vars => TypeOK'
  <2> SUFFICES ASSUME TypeOK, [Next]_vars PROVE TypeOK'
    OBVIOUS
  <2>1. CASE MainStep
    BY <2>1, BatteryTypeOK, WriterTypeOK, TickTypeOK, BootTypeOK DEF MainStep
  <2>2. CASE LvglStep \/ UserAction \/ Restart \/ Environment
    BY <2>2, LvglStepTypeOK, UserActionTypeOK, OutsideTypeOK
  <2>3. CASE UNCHANGED vars
    BY <2>3 DEF TypeOK
  <2> QED
    BY <2>1, <2>2, <2>3 DEF Next
<1> QED
  BY <1>1, <1>2, PTL DEF Spec

-----------------------------------------------------------------------------
(***************************************************************************)
(* The light-sleep lock.  PmLockPaired and PmLockOnlyInMode are not        *)
(* inductive: a set_charging that holds s_pm_mux decided on the s_active   *)
(* it read, and an enter past its last step relies on having set it.       *)
(***************************************************************************)
LockInv ==
    /\ PmLockPaired
    /\ PmLockOnlyInMode
    /\ main = "c_active" => active \/ lvgl = "x_pm"
    /\ lvgl = "e_pm" => active

LEMMA AcquirePairs ==
    ASSUME TypeOK, PmLockPaired, Acquire
    PROVE  PmLockPaired' /\ held'
  <1>1. CASE held
    BY <1>1 DEF Acquire, PmLockPaired
  <1>2. CASE ~held
    BY <1>2, OutcomeIsBoolean DEF Acquire, PmLockPaired, TypeOK
  <1> QED
    BY <1>1, <1>2

LEMMA ReleasePairs ==
    ASSUME TypeOK, PmLockPaired, Release
    PROVE  PmLockPaired' /\ ~held'
  BY DEF Release, PmLockPaired, TypeOK

LEMMA LvglKeepsLock == TypeOK /\ LockInv /\ (LvglStep \/ UserAction) => LockInv'
<1> SUFFICES ASSUME TypeOK, LockInv, LvglStep \/ UserAction PROVE LockInv'
  OBVIOUS
<1> USE DEF LockInv, PmLockOnlyInMode, LvglUnchanged
<1>1. CASE EnterLock
  BY <1>1, AcquirePairs DEF EnterLock, PmMuxFree
<1>2. CASE ExitUnlock
  BY <1>2, ReleasePairs DEF ExitUnlock, PmMuxFree
<1>3. CASE EnterActive
  BY <1>3 DEF EnterActive, PmLockPaired
<1>4. CASE ExitFlag
  BY <1>4 DEF ExitFlag, PmLockPaired
<1>5. CASE EnterInstall \/ EnterSwitch \/ Uninstall \/ RestorePhy
             \/ RemountOrSkip \/ ExitSwitch
  <2>1. UNCHANGED <<main, active, pmVars>> /\ lvgl # "x_pm" /\ lvgl' # "e_pm"
    BY <1>5 DEF EnterInstall, EnterSwitch, Uninstall, RestorePhy,
                RemountOrSkip, ExitSwitch
  <2> QED
    BY <2>1 DEF PmLockPaired
<1>6. CASE EnterDetach \/ RequestFormat
  <2>1. UNCHANGED <<main, active, pmVars>> /\ lvgl # "x_pm" /\ lvgl' # "e_pm"
    BY <1>6 DEF EnterDetach, RequestFormat
  <2> QED
    BY <2>1 DEF PmLockPaired
<1> QED
  BY <1>1, <1>2, <1>3, <1>4, <1>5, <1>6 DEF LvglStep, UserAction

\* What a write of the memory leaves alone, and what it may make of the medium.
LEMMA WriteLeaves ==
    ASSUME Write
    PROVE  /\ main = "write" /\ main' = "tick"
           /\ UNCHANGED <<lvgl, active, held, pmCreated, pmCount, up, volBad,
                         usbVars, fmtVars>>
           /\ medium' = medium \/ medium' = "data"
<1>1. main = "write" /\ main' = "tick"
  BY DEF Write
<1>2. MainKeeps /\ UNCHANGED <<up, volBad, usbVars, fmtVars>>
  BY Zenon DEF Write
<1>3. medium' = medium \/ medium' = "data"
  BY Zenon DEF Write
<1> QED
  BY <1>1, <1>2, <1>3 DEF MainKeeps

LEMMA MainKeepsLock == TypeOK /\ LockInv /\ MainStep => LockInv'
<1> SUFFICES ASSUME TypeOK, LockInv, MainStep PROVE LockInv'
  OBVIOUS
<1> USE DEF LockInv, PmLockOnlyInMode
<1>1. CASE BatteryRead
  BY <1>1 DEF BatteryRead, MainUnchanged, PmLockPaired
<1>2. CASE SetChargingActive
  <2>1. UNCHANGED <<lvgl, active>> /\ main = "c_active" /\ main' # "c_active"
    BY <1>2 DEF SetChargingActive, MainUnchanged
  <2>2. PmLockPaired'
    BY <1>2, AcquirePairs DEF SetChargingActive, PmLockPaired
  <2> QED
    BY <2>1, <2>2
<1>3. CASE TickLock
  <2>1. UNCHANGED <<lvgl, active>> /\ main' # "c_active"
    BY <1>3 DEF TickLock, TickUnchanged
  <2>2. PmLockPaired' /\ (held' => held)
    BY <1>3, ReleasePairs DEF TickLock, PmLockPaired
  <2> QED
    BY <2>1, <2>2
<1>4. ASSUME UNCHANGED <<lvgl, active, held, pmCreated, pmCount>>,
             main' # "c_active"
      PROVE  LockInv'
  BY <1>4 DEF PmLockPaired
<1>5. CASE BatteryUnread \/ SetChargingInactive
  BY <1>4, <1>5 DEF BatteryUnread, SetChargingInactive, MainUnchanged
<1>6. CASE RepairStart \/ WriterPass \/ WriterHeld \/ WriterGo \/ Write
  BY <1>4, <1>6, WriteLeaves DEF RepairStart, WriterPass, WriterHeld, WriterGo, MainKeeps
<1>7. CASE RepairProbe \/ RepairDetach \/ RepairRebuild \/ RepairVerify
  BY <1>4, <1>7 DEF RepairProbe, RepairDetach, RepairRebuild, RepairVerify,
                    RepairReturns, MainKeeps
<1>8. CASE TickPass \/ TickProbe \/ TickRemount \/ TickMount \/ TickActive
             \/ TickRearm
  BY <1>4, <1>8 DEF TickPass, TickProbe, TickRemount, TickMount, TickActive,
                    TickRearm, TickUnchanged
<1>9. CASE BootPhy \/ BootFlag \/ BootErase \/ BootNew \/ BootMount \/ BootMkfs
  BY <1>4, <1>9 DEF BootPhy, BootFlag, BootErase, BootNew, BootMount, BootMkfs,
                    BootUnchanged
<1> QED
  BY <1>1, <1>2, <1>3, <1>5, <1>6, <1>7, <1>8, <1>9 DEF MainStep

LEMMA OutsideKeepsLock == LockInv /\ (Restart \/ Environment) => LockInv'
<1> SUFFICES ASSUME LockInv, Restart \/ Environment PROVE LockInv'
  OBVIOUS
<1> USE DEF LockInv, PmLockOnlyInMode, PmLockPaired
<1>1. CASE Restart \/ PowerCut
  BY <1>1 DEF Restart, PowerCut, Boot
<1>2. CASE HostWrite \/ HostEject \/ Plug
  BY <1>2 DEF HostWrite, HostEject, Plug
<1> QED
  BY <1>1, <1>2 DEF Environment

LEMMA LockInvariant == Spec => []LockInv
<1>1. Init => LockInv
  BY DEF Init, LockInv, PmLockPaired, PmLockOnlyInMode
<1>2. TypeOK /\ LockInv /\ [Next]_vars => LockInv'
  <2> SUFFICES ASSUME TypeOK, LockInv, [Next]_vars PROVE LockInv'
    OBVIOUS
  <2>1. CASE UNCHANGED vars
    BY <2>1 DEF LockInv, PmLockPaired, PmLockOnlyInMode
  <2> QED
    BY <2>1, LvglKeepsLock, MainKeepsLock, OutsideKeepsLock DEF Next
<1> QED
  BY <1>1, <1>2, TypeCorrect, PTL DEF Spec

\* usb_mode_lock_acquire and usb_mode_lock_release pair up in every order of
\* enter, exit, set_charging and tick: the reference count is 0 or 1 and
\* agrees with s_pm_held, also when the lock cannot be created.
THEOREM LockIsPaired == Spec => []PmLockPaired
  BY LockInvariant, PTL DEF LockInv

\* The device forbids light sleep in the USB mode only: no set_charging and
\* no tick takes the lock, or keeps it, beyond an exit.
THEOREM LockOnlyInMode == Spec => []PmLockOnlyInMode
  BY LockInvariant, PTL DEF LockInv

-----------------------------------------------------------------------------
(***************************************************************************)
(* The format request.  What makes UserDataSurvives hold is that the flag  *)
(* in NVS is never without a request it stands for, and stands for one     *)
(* that was carried out only when NVS would not erase it; and that nothing *)
(* but the boot itself touches the medium while the boot runs.             *)
(***************************************************************************)
FormatInv ==
    /\ fmt => request # "none"
    /\ main = "b_erase" => request # "none" /\ (fmt => request = "kept")
    /\ main = "b_mkfs" => medium = "blank"
    /\ main \in BootPc => ~up /\ ~stack /\ lvgl = "idle"

LEMMA LvglKeepsFormat == TypeOK /\ FormatInv /\ (LvglStep \/ UserAction) => FormatInv'
<1> SUFFICES ASSUME TypeOK, FormatInv, LvglStep \/ UserAction PROVE FormatInv'
  OBVIOUS
<1> USE DEF FormatInv, LvglUnchanged
<1>1. CASE RequestFormat
  BY <1>1 DEF RequestFormat, BootPc
<1>2. CASE EnterDetach \/ ExitFlag
  BY <1>2 DEF EnterDetach, ExitFlag
<1>3. CASE LvglStep
  <2>1. UNCHANGED <<main, up, medium, fmt, request>> /\ lvgl # "idle"
    BY <1>3 DEF LvglStep, EnterInstall, EnterSwitch, EnterActive, EnterLock,
                Uninstall, RestorePhy, RemountOrSkip, ExitUnlock, ExitSwitch
  <2> QED
    BY <2>1
<1> QED
  BY <1>1, <1>2, <1>3 DEF UserAction

LEMMA MainKeepsFormat == TypeOK /\ FormatInv /\ MainStep => FormatInv'
<1> SUFFICES ASSUME TypeOK, FormatInv, MainStep PROVE FormatInv'
  OBVIOUS
<1> USE DEF FormatInv
<1>1. ASSUME main \notin BootPc, main' \notin BootPc,
             UNCHANGED <<up, fmt, request>>
      PROVE  FormatInv'
  BY <1>1 DEF BootPc
<1>2. CASE BatteryRead \/ BatteryUnread \/ SetChargingInactive
             \/ SetChargingActive
  BY <1>1, <1>2 DEF BatteryRead, BatteryUnread, SetChargingInactive,
                    SetChargingActive, BootPc
<1>3. CASE RepairStart \/ WriterPass \/ WriterHeld \/ WriterGo \/ Write
             \/ RepairDetach
  BY <1>1, <1>3, WriteLeaves DEF RepairStart, WriterPass, WriterHeld, WriterGo,
                                 RepairDetach, BootPc
<1>4. ASSUME RepairReturns, main \notin BootPc PROVE FormatInv'
  BY <1>4 DEF RepairReturns, BootPc, TypeOK
<1>5. CASE RepairProbe
  <2>1. CASE RepairReturns
    BY <1>4, <1>5, <2>1 DEF RepairProbe, BootPc
  <2>2. CASE ~RepairReturns
    BY <1>1, <1>5, <2>2 DEF RepairProbe, BootPc
  <2> QED
    BY <2>1, <2>2
<1>6. CASE RepairRebuild
  <2>1. CASE RepairReturns
    BY <1>4, <1>6, <2>1 DEF RepairRebuild, BootPc
  <2>2. CASE ~RepairReturns
    BY <1>1, <1>6, <2>2 DEF RepairRebuild, BootPc
  <2> QED
    BY <2>1, <2>2
<1>7. CASE RepairVerify
  BY <1>4, <1>7 DEF RepairVerify, BootPc
<1>8. CASE TickPass \/ TickProbe \/ TickRemount \/ TickMount \/ TickActive
             \/ TickLock \/ TickRearm
  BY <1>1, <1>8 DEF TickPass, TickProbe, TickRemount, TickMount, TickActive,
                    TickLock, TickRearm, TickUnchanged, BootPc
<1>9. CASE BootPhy \/ BootFlag \/ BootErase
  BY <1>9 DEF BootPhy, BootFlag, BootErase, BootUnchanged, BootPc, TypeOK
<1>10. CASE BootNew \/ BootMount \/ BootMkfs
  BY <1>10 DEF BootNew, BootMount, BootMkfs, BootUnchanged, BootPc, TypeOK
<1> QED
  BY <1>2, <1>3, <1>5, <1>6, <1>7, <1>8, <1>9, <1>10 DEF MainStep

LEMMA OutsideKeepsFormat ==
    TypeOK /\ FormatInv /\ (Restart \/ Environment) => FormatInv'
<1> SUFFICES ASSUME TypeOK, FormatInv, Restart \/ Environment PROVE FormatInv'
  OBVIOUS
<1> USE DEF FormatInv
<1>1. CASE Restart \/ PowerCut
  BY <1>1 DEF Restart, PowerCut, Boot, BootPc
<1>2. CASE HostWrite \/ HostEject
  BY <1>2 DEF HostWrite, HostEject, HostCanAccess, BootPc
<1>3. CASE Plug
  BY <1>3 DEF Plug
<1> QED
  BY <1>1, <1>2, <1>3 DEF Environment

LEMMA FormatInvariant == Spec => []FormatInv
<1>1. Init => FormatInv
  BY DEF Init, FormatInv
<1>2. TypeOK /\ FormatInv /\ [Next]_vars => FormatInv'
  <2> SUFFICES ASSUME TypeOK, FormatInv, [Next]_vars PROVE FormatInv'
    OBVIOUS
  <2>1. CASE UNCHANGED vars
    BY <2>1 DEF FormatInv
  <2> QED
    BY <2>1, LvglKeepsFormat, MainKeepsFormat, OutsideKeepsFormat DEF Next
<1> QED
  BY <1>1, <1>2, TypeCorrect, PTL DEF Spec

UserDataStep ==
    (medium \in UserData /\ medium' \notin UserData) =>
        \/ main = "b_erase" /\ request # "none"
        \/ main = "v_rebuild" /\ medium' = "partial"

LEMMA StepKeepsUserData == TypeOK /\ FormatInv /\ Next => UserDataStep
<1> SUFFICES ASSUME TypeOK, FormatInv, Next PROVE UserDataStep
  OBVIOUS
<1> USE DEF UserDataStep, UserData
<1>1. ASSUME UNCHANGED medium PROVE UserDataStep
  BY <1>1
<1>2. CASE LvglStep \/ UserAction
  BY <1>1, <1>2 DEF LvglStep, EnterInstall, EnterSwitch, EnterActive,
                    EnterLock, Uninstall, RestorePhy, RemountOrSkip,
                    ExitUnlock, ExitSwitch, UserAction, EnterDetach, ExitFlag,
                    RequestFormat
<1>3. CASE MainStep
  <2>1. CASE Write
    BY <2>1, WriteLeaves
  <2>2. CASE RepairRebuild
    BY <2>2 DEF RepairRebuild
  <2>3. CASE BootErase
    BY <2>3 DEF BootErase, FormatInv
  <2>4. CASE BootMkfs
    BY <2>4 DEF BootMkfs, FormatInv
  <2>5. CASE UNCHANGED medium
    BY <1>1, <2>5
  <2>6. Write \/ RepairRebuild \/ BootErase \/ BootMkfs \/ UNCHANGED medium
    <3>1. CASE BatteryRead \/ BatteryUnread \/ SetChargingInactive
                 \/ SetChargingActive
      BY <3>1 DEF BatteryRead, BatteryUnread, SetChargingInactive,
                  SetChargingActive
    <3>2. CASE RepairStart \/ WriterPass \/ RepairProbe \/ RepairDetach
                 \/ RepairVerify \/ WriterHeld \/ WriterGo
      BY <3>2 DEF RepairStart, WriterPass, RepairProbe, RepairDetach,
                  RepairVerify, WriterHeld, WriterGo
    <3>3. CASE TickPass \/ TickProbe \/ TickRemount \/ TickMount
                 \/ TickActive \/ TickLock \/ TickRearm
      BY <3>3 DEF TickPass, TickProbe, TickRemount, TickMount, TickActive,
                  TickLock, TickRearm, TickUnchanged
    <3>4. CASE BootPhy \/ BootFlag \/ BootNew \/ BootMount
      BY <3>4 DEF BootPhy, BootFlag, BootNew, BootMount
    <3> QED
      BY <1>3, <3>1, <3>2, <3>3, <3>4 DEF MainStep
  <2> QED
    BY <2>1, <2>2, <2>3, <2>4, <2>5, <2>6
<1>4. CASE Restart
  BY <1>1, <1>4 DEF Restart
<1>5. CASE PowerCut
  BY <1>5 DEF PowerCut, AfterCut, FormatInv
<1>6. CASE HostWrite
  BY <1>6 DEF HostWrite
<1>7. CASE HostEject \/ Plug
  BY <1>1, <1>7 DEF HostEject, Plug
<1> QED
  BY <1>2, <1>3, <1>4, <1>5, <1>6, <1>7 DEF Next, Environment

\* Files on the medium are erased only by a boot that carries out a confirmed
\* request, or one whose flag NVS kept; whatever else fails, resets or races.
THEOREM UserDataIsKept == Spec => UserDataSurvives
<1>1. TypeOK /\ FormatInv /\ [Next]_vars => [UserDataStep]_vars
  BY StepKeepsUserData
<1>2. Spec => [][UserDataStep]_vars
  BY <1>1, TypeCorrect, FormatInvariant, PTL DEF Spec
<1> QED
  BY <1>2 DEF UserDataSurvives, UserDataStep

-----------------------------------------------------------------------------
\* No file system is mounted under a repair: inductive as it stands.
THEOREM RepairIsExclusive == Spec => []RepairSeesNoMount
<1>1. Init => RepairSeesNoMount
  BY DEF Init, RepairSeesNoMount, Repairing
<1>2. TypeOK /\ RepairSeesNoMount /\ [Next]_vars => RepairSeesNoMount'
  <2> SUFFICES ASSUME TypeOK, RepairSeesNoMount, [Next]_vars
               PROVE  RepairSeesNoMount'
    OBVIOUS
  <2> USE DEF RepairSeesNoMount, Repairing
  <2>1. CASE LvglStep \/ UserAction
    <3>1. UNCHANGED main
      BY <2>1 DEF LvglStep, EnterInstall, EnterSwitch, EnterActive, EnterLock,
                  Uninstall, RestorePhy, RemountOrSkip, ExitUnlock,
                  ExitSwitch, UserAction, EnterDetach, ExitFlag,
                  RequestFormat, LvglUnchanged
    <3>2. FsMutexFree \/ UNCHANGED vol
      BY <2>1 DEF LvglStep, EnterInstall, EnterSwitch, EnterActive, EnterLock,
                  Uninstall, RestorePhy, RemountOrSkip, ExitUnlock,
                  ExitSwitch, UserAction, EnterDetach, ExitFlag,
                  RequestFormat
    <3> QED
      BY <3>1, <3>2 DEF FsMutexFree
  <2>2. CASE MainStep
    <3>1. CASE RepairDetach
      BY <3>1 DEF RepairDetach
    <3>2. CASE ~RepairDetach
      <4>1. main' # "v_rebuild"
        <5>1. CASE BatteryRead \/ BatteryUnread \/ SetChargingInactive
                     \/ SetChargingActive
          BY <5>1 DEF BatteryRead, BatteryUnread, SetChargingInactive,
                      SetChargingActive
        <5>2. CASE RepairStart \/ WriterPass \/ RepairProbe \/ RepairRebuild
                     \/ RepairVerify \/ WriterHeld \/ WriterGo \/ Write
          BY <5>2 DEF RepairStart, WriterPass, RepairProbe, RepairRebuild,
                      RepairVerify, WriterHeld, WriterGo, Write, RepairReturns
        <5>3. CASE TickPass \/ TickProbe \/ TickRemount \/ TickMount
                     \/ TickActive \/ TickLock \/ TickRearm
          BY <5>3 DEF TickPass, TickProbe, TickRemount, TickMount,
                      TickActive, TickLock, TickRearm
        <5>4. CASE BootPhy \/ BootFlag \/ BootErase \/ BootNew \/ BootMount
                     \/ BootMkfs
          BY <5>4 DEF BootPhy, BootFlag, BootErase, BootNew, BootMount,
                      BootMkfs
        <5> QED
          BY <2>2, <3>2, <5>1, <5>2, <5>3, <5>4 DEF MainStep
      <4> QED
        BY <4>1
    <3> QED
      BY <3>1, <3>2
  <2>3. CASE Restart \/ Environment
    BY <2>3 DEF Restart, Environment, PowerCut, HostWrite, HostEject, Plug, Boot
  <2>4. CASE UNCHANGED vars
    BY <2>4
  <2> QED
    BY <2>1, <2>2, <2>3, <2>4 DEF Next
<1> QED
  BY <1>1, <1>2, TypeCorrect, PTL DEF Spec

-----------------------------------------------------------------------------
(***************************************************************************)
(* The serial port.  Unless the last call to give D+/D- back failed, the   *)
(* device stack and the OTG side of the PHY are left only to the steps of  *)
(* enter and exit that will see to them, to the mode itself, and of the    *)
(* PHY to a boot that has just begun.                                      *)
(***************************************************************************)
\* The steps of enter and exit that leave the stack installed.
WithStack == {"e_mp", "e_active", "r_uninstall", "x_pm", "x_uninstall"}

PortInv ==
    /\ active => lvgl \in {"idle", "e_pm"}
    /\ lvgl = "e_pm" => active
    /\ stack => active \/ lvgl \in WithStack \/ lost
    /\ phy # "USJ" => \/ active \/ main = "b_phy" \/ lost
                      \/ lvgl \in WithStack \cup {"r_phy", "x_phy"}
    /\ main = "b_phy" => ~up /\ ~stack
    /\ ~up => lvgl = "idle" /\ ~active

\* The LVGL task gives back in r_uninstall and r_phy, x_uninstall and x_phy what it took.
LEMMA LvglKeepsPort ==
    ASSUME TypeOK, PortInv, LvglStep \/ UserAction
    PROVE  PortInv'
<1> USE DEF PortInv, WithStack, LvglUnchanged
<1>1. CASE EnterDetach
  BY <1>1 DEF EnterDetach
<1>2. CASE EnterInstall
  BY <1>2 DEF EnterInstall, TypeOK
<1>3. CASE EnterSwitch
  BY <1>3 DEF EnterSwitch
<1>4. CASE EnterActive
  BY <1>4 DEF EnterActive
<1>5. CASE EnterLock
  BY <1>5 DEF EnterLock
<1>6. CASE Uninstall
  <2>1. stack' => lost'
    BY <1>6 DEF Uninstall
  <2>2. lost => lost'
    BY <1>6 DEF Uninstall
  <2> QED
    BY <1>6, <2>1, <2>2 DEF Uninstall
<1>7. CASE RestorePhy
  <2>1. stack => lost
    BY <1>7 DEF RestorePhy
  <2>2. stack => lost'
    BY <1>7, <2>1 DEF RestorePhy
  <2>3. phy' = "USJ" \/ lost'
    BY <1>7, <2>1 DEF RestorePhy, PhyRestored
  <2> QED
    BY <1>7, <2>2, <2>3 DEF RestorePhy
<1>8. CASE RemountOrSkip
  BY <1>8 DEF RemountOrSkip
<1>9. CASE ExitFlag
  BY <1>9 DEF ExitFlag
<1>10. CASE ExitUnlock
  BY <1>10 DEF ExitUnlock
<1>11. CASE ExitSwitch
  BY <1>11 DEF ExitSwitch
<1>12. CASE RequestFormat
  BY <1>12 DEF RequestFormat
<1> QED
  BY <1>1, <1>2, <1>3, <1>4, <1>5, <1>6, <1>7, <1>8, <1>9, <1>10, <1>11, <1>12
     DEF LvglStep, UserAction

\* The main task touches the PHY only when it boots.
LEMMA MainKeepsPort ==
    ASSUME TypeOK, PortInv, MainStep
    PROVE  PortInv'
<1> USE DEF PortInv, WithStack
<1>1. ASSUME UNCHANGED <<lvgl, active, stack, phy, lost, up>>, main' # "b_phy", main # "b_phy"
      PROVE  PortInv'
  <2>1. /\ (active' => active) /\ (active => active')
        /\ (stack' => stack) /\ (up => up') /\ (lost => lost')
    BY <1>1, Zenon
  <2> QED
    BY <1>1, <2>1
<1>2. ASSUME UNCHANGED <<lvgl, active, stack, phy, lost>>, up', main' # "b_phy", main # "b_phy"
      PROVE  PortInv'
  BY <1>2
<1>3. CASE BatteryRead \/ BatteryUnread \/ SetChargingInactive \/ SetChargingActive
  BY <1>1, <1>3 DEF BatteryRead, BatteryUnread, SetChargingInactive, SetChargingActive,
                    MainUnchanged
<1>4. CASE RepairStart \/ WriterPass \/ WriterHeld \/ WriterGo \/ Write \/ RepairDetach
  <2>1. CASE RepairStart \/ WriterPass \/ WriterHeld \/ WriterGo
    BY <1>1, <2>1 DEF RepairStart, WriterPass, WriterHeld, WriterGo, MainKeeps
  <2>2. CASE Write
    BY <1>1, <2>2 DEF Write, MainKeeps
  <2>3. CASE RepairDetach
    BY <1>1, <2>3 DEF RepairDetach, MainKeeps
  <2> QED
    BY <1>4, <2>1, <2>2, <2>3
<1>5. CASE RepairProbe
  <2>1. UNCHANGED <<lvgl, active, stack, phy, lost>> /\ main # "b_phy" /\ main' # "b_phy"
    BY <1>5 DEF RepairProbe, RepairReturns, MainKeeps
  <2>2. up' \/ up' = up
    BY <1>5 DEF RepairProbe, RepairReturns
  <2> QED
    BY <1>1, <1>2, <2>1, <2>2
<1>6. CASE RepairRebuild
  <2>1. UNCHANGED <<lvgl, active, stack, phy, lost>> /\ main # "b_phy" /\ main' # "b_phy"
    BY <1>6 DEF RepairRebuild, RepairReturns, MainKeeps
  <2>2. up' \/ up' = up
    BY <1>6 DEF RepairRebuild, RepairReturns
  <2> QED
    BY <1>1, <1>2, <2>1, <2>2
<1>7. CASE RepairVerify
  BY <1>2, <1>7 DEF RepairVerify, RepairReturns, MainKeeps
<1>8. CASE TickPass \/ TickProbe \/ TickRemount \/ TickMount \/ TickActive \/ TickLock
             \/ TickRearm
  BY <1>1, <1>8 DEF TickPass, TickProbe, TickRemount, TickMount, TickActive, TickLock,
                    TickRearm, TickUnchanged
<1>9. CASE BootPhy
  <2>1. ~stack
    BY <1>9 DEF BootPhy
  <2>2. phy' = "USJ" \/ lost'
    BY <1>9, <2>1 DEF BootPhy, PhyRestored
  <2> QED
    BY <1>9, <2>1, <2>2 DEF BootPhy, BootUnchanged
<1>10. CASE BootFlag \/ BootErase \/ BootMount \/ BootMkfs
  BY <1>1, <1>10 DEF BootFlag, BootErase, BootMount, BootMkfs, BootUnchanged
<1>11. CASE BootNew
  <2>1. UNCHANGED <<lvgl, active, stack, phy, lost>> /\ main # "b_phy" /\ main' # "b_phy"
    BY <1>11 DEF BootNew
  <2>2. up' \/ up' = up
    BY <1>11 DEF BootNew
  <2> QED
    BY <1>1, <1>2, <2>1, <2>2
<1> QED
  BY <1>3, <1>4, <1>5, <1>6, <1>7, <1>8, <1>9, <1>10, <1>11 DEF MainStep

\* After a reset the boot gives D+/D- back.
LEMMA OutsideKeepsPort ==
    ASSUME PortInv, Restart \/ Environment
    PROVE  PortInv'
<1> USE DEF PortInv, WithStack
<1>1. CASE Restart \/ PowerCut
  BY <1>1 DEF Restart, PowerCut, Boot
<1>2. CASE HostWrite \/ HostEject \/ Plug
  BY <1>2 DEF HostWrite, HostEject, Plug
<1> QED
  BY <1>1, <1>2 DEF Environment

\* Outside the mode the serial port has D+/D- again, whichever call of enter failed and
\* whenever the device was restarted, unless the last call to give it back failed.
THEOREM SerialReturns == Spec => []SerialPortBack
<1>1. Init => PortInv
  BY DEF Init, PortInv, WithStack
<1>2. TypeOK /\ PortInv /\ [Next]_vars => PortInv'
  <2>1. UNCHANGED vars /\ PortInv => PortInv'
    BY DEF PortInv, WithStack
  <2> QED
    BY <2>1, LvglKeepsPort, MainKeepsPort, OutsideKeepsPort DEF Next
<1>3. TypeOK /\ PortInv => SerialPortBack
  BY DEF TypeOK, PortInv, WithStack, SerialPortBack
<1> QED
  BY <1>1, <1>2, <1>3, TypeCorrect, PTL DEF Spec

=============================================================================
