----------------------------- MODULE UsbStorage -----------------------------
(***************************************************************************)
(* USB-disk mode of the firmware (src/main/drivers/storage/usb_storage.c): *)
(* the /data volume is either mounted by FatFS on the device or handed to  *)
(* a USB host.  Two tasks run this code without a common lock:             *)
(*                                                                         *)
(*   - the LVGL task, from the settings page: enter, exit, request_format; *)
(*   - the main task, once per two-second block: set_charging,             *)
(*     data_writer_tick (with the volume repair), usb_storage_tick; it     *)
(*     also runs usb_storage_init at boot.                                 *)
(*                                                                         *)
(* Each task is a program counter; a step ends where the other task can    *)
(* see an intermediate state.  The host, the power supply and resets are   *)
(* the environment.                                                        *)
(***************************************************************************)
EXTENDS Integers

CONSTANTS
    Grace,   \* USB_PLUG_GRACE_MS in passes of the two-second block
    Faults,  \* the failures that may happen, a subset of FaultKinds
    Resets   \* power cuts and restarts may happen at any time

FaultKinds == {"install", "switch", "uninstall", "phy", "pmlock", "battery",
               "nvs", "erase", "mkfs", "rebuild", "memory"}

ASSUME GraceAssumption == Grace \in Nat \ {0}
ASSUME FaultsAssumption == Faults \subseteq FaultKinds
ASSUME ResetsAssumption == Resets \in BOOLEAN

VARIABLES
    \* the two tasks
    lvgl,       \* where the LVGL task is in enter / exit / request_format
    main,       \* where the main task is in its block, or in the boot
    up,         \* the boot has finished
    \* flags of the driver
    handle,     \* s_handle # NULL
    active,     \* s_active
    volBad,     \* s_vol_bad
    \* the light-sleep lock
    held,       \* s_pm_held
    pmCreated,  \* s_usb_pm # NULL
    pmCount,    \* the reference count of the ESP-IDF lock itself
    charging,   \* s_charging
    grace,      \* s_release_grace_ms: 0 none, n: due in n - 1 more blocks
    arg,        \* local of the main task: the argument of set_charging
    ejected,    \* local of the main task: the tick read the mount point APP
    \* the USB device
    stack,      \* the TinyUSB device stack is installed
    phy,        \* who owns D+/D-: "USJ" (serial) or "OTG"; RTC domain
    mp,         \* mount point of the MSC storage: "USB" or "APP"
    lost,       \* history: the last call to give D+/D- back failed
    \* the volume
    vol,        \* FatFS' view of /data
    medium,     \* what the flash partition holds
    tripped,    \* s_fail_streak >= DW_FAIL_TRIP in the data writer
    \* the format request
    fmt,        \* fmt_req in NVS
    request,    \* history: the request to format that is not over, see below
    \* the environment
    plugged     \* SOC >= 100 or current >= -5 mA: what main.c calls charging

taskVars  == <<lvgl, main, up>>
pmVars    == <<held, pmCreated, pmCount, charging, grace>>
localVars == <<arg, ejected>>
usbVars   == <<stack, phy, mp, lost>>
fmtVars   == <<fmt, request>>

vars == <<lvgl, main, up, handle, active, volBad, held, pmCreated, pmCount,
          charging, grace, arg, ejected, stack, phy, mp, lost, vol, medium,
          tripped, fmt, request, plugged>>

LvglPc == {"idle", "e_install", "e_mp", "e_active", "e_pm",
           "r_uninstall", "r_phy", "r_mount",
           "x_pm", "x_uninstall", "x_phy", "x_mp", "x_mount", "f_restart"}

BootPc == {"b_phy", "b_flag", "b_erase", "b_new", "b_mount", "b_mkfs"}
MainPc == BootPc \union
          {"block", "c_active", "c_idle", "writer", "v_probe", "v_lock",
           "v_rebuild", "v_verify", "hold", "write",
           "tick", "t_remount", "t_mount", "t_pm", "t_rearm"}

(***************************************************************************)
(* "none": no drive is registered (s_fatfs_fs is NULL); "detached":        *)
(* f_mount(NULL) was called; "attached": f_mount(fs) was called and did    *)
(* not find a file system, the next access tries again; "mounted".         *)
(***************************************************************************)
Volume == {"none", "detached", "attached", "mounted"}

(***************************************************************************)
(* "data": a sound FAT holding the user's files; "eoc": its FAT sector was *)
(* torn by a power cut, every entry reads end-of-chain; "foreign": the     *)
(* host made something FatFS cannot mount; "partial": an erase or a mkfs   *)
(* was cut short; "blank": the first four sectors are erased; "empty": a   *)
(* fresh FAT.                                                              *)
(***************************************************************************)
Medium    == {"data", "eoc", "foreign", "partial", "blank", "empty"}
Mountable == {"data", "eoc", "empty"}
UserData  == {"data", "eoc", "foreign"}

(***************************************************************************)
(* "confirmed": the user confirmed a format and no boot has carried it out *)
(* yet; "kept": one has, and NVS failed to erase the flag; "none".         *)
(***************************************************************************)
Request == {"none", "confirmed", "kept"}

TypeOK ==
    /\ lvgl \in LvglPc /\ main \in MainPc
    /\ up \in BOOLEAN /\ handle \in BOOLEAN /\ active \in BOOLEAN
    /\ volBad \in BOOLEAN
    /\ held \in BOOLEAN /\ pmCreated \in BOOLEAN /\ pmCount \in Int
    /\ charging \in BOOLEAN /\ grace \in 0 .. Grace + 1
    /\ arg \in BOOLEAN /\ ejected \in BOOLEAN
    /\ stack \in BOOLEAN /\ phy \in {"USJ", "OTG"} /\ mp \in {"USB", "APP"}
    /\ lost \in BOOLEAN
    /\ vol \in Volume /\ medium \in Medium /\ tripped \in BOOLEAN
    /\ fmt \in BOOLEAN /\ request \in Request /\ plugged \in BOOLEAN

-----------------------------------------------------------------------------
\* Outcome of a call that can fail: it succeeds, or its fault is enabled.
Outcome(fault) == {TRUE} \union (IF fault \in Faults THEN {FALSE} ELSE {})

\* f_mount(fs): registers the object, then reads the boot sector.
Mounted(m) == IF m \in Mountable THEN "mounted" ELSE "attached"

\* fatfs_remount: f_mount(NULL), f_mount(fs); FR_INT_ERR without a drive.
Remounted(v, m) == IF v = "none" THEN "none" ELSE Mounted(m)

\* f_getfree: an attached volume is mounted on the way.
Probed(v, m) == IF v = "attached" THEN Mounted(m) ELSE v

\* Mutants (names ending in _Mutant) put a plausible mistake in the place of
\* the definition after them; no specification uses them.
Repairing == main = "v_rebuild"       \* s_repairing; s_fs_mutex is held
FsMutexFree_Mutant == TRUE               \* no s_fs_mutex
FsMutexFree == main # "v_rebuild"
PmMuxFree_Mutant == TRUE                 \* no s_pm_mux
PmMuxFree == main \notin {"c_active", "c_idle"}
DataMounted == handle /\ ~active /\ ~Repairing

\* The device answers SCSI commands of a host.
HostCanAccess == stack /\ phy = "OTG" /\ mp = "USB"

Init ==
    /\ lvgl = "idle" /\ main = "b_phy" /\ up = FALSE
    /\ handle = FALSE /\ active = FALSE /\ volBad = FALSE
    /\ held = FALSE /\ pmCreated = FALSE /\ pmCount = 0
    /\ charging = TRUE /\ grace = 0
    /\ arg = FALSE /\ ejected = FALSE
    /\ stack = FALSE /\ phy = "USJ" /\ mp = "USB" /\ lost = FALSE
    /\ vol = "none" /\ medium \in {"data", "eoc", "foreign", "blank"}
    /\ tripped = FALSE
    /\ fmt = FALSE /\ request = "none" /\ plugged \in BOOLEAN

-----------------------------------------------------------------------------
(***************************************************************************)
(* The light-sleep lock.  usb_mode_lock_acquire creates the lock on first  *)
(* use; when that fails nothing is counted but the caller sets s_pm_held   *)
(* all the same, and usb_mode_lock_release skips a lock that is not there. *)
(***************************************************************************)
\* Without s_pm_held.
Acquire_Mutant ==
    /\ held' = TRUE /\ pmCreated' = TRUE
    /\ pmCount' = pmCount + 1

Acquire ==
    IF held
    THEN UNCHANGED <<held, pmCreated, pmCount>>
    ELSE /\ held' = TRUE
         /\ \E ok \in Outcome("pmlock") : pmCreated' = (pmCreated \/ ok)
         /\ pmCount' = IF pmCreated' THEN pmCount + 1 ELSE pmCount

Release ==
    /\ held' = FALSE
    /\ pmCount' = IF held /\ pmCreated THEN pmCount - 1 ELSE pmCount
    /\ UNCHANGED pmCreated

-----------------------------------------------------------------------------
(***************************************************************************)
(* LVGL task: usb_storage_enter.                                           *)
(***************************************************************************)
LvglUnchanged == UNCHANGED <<main, up, handle, volBad, localVars, tripped, plugged>>

\* Detach FatFS under s_fs_mutex; ESP_ERR_TIMEOUT while a repair holds it.
EnterDetach ==
    /\ up /\ lvgl = "idle" /\ ~active /\ handle
    /\ FsMutexFree
    /\ vol' = IF vol = "none" THEN "none" ELSE "detached"
    /\ lvgl' = "e_install"
    /\ LvglUnchanged /\ UNCHANGED <<active, pmVars, usbVars, medium, fmtVars>>

\* tinyusb_driver_install: a failure may leave D+/D- on the OTG side; a
\* stack that a failed uninstall left behind is refused.
EnterInstall ==
    /\ lvgl = "e_install"
    /\ \/ /\ ~stack
          /\ stack' = TRUE /\ phy' = "OTG" /\ lvgl' = "e_mp"
       \/ /\ ~stack /\ "install" \in Faults
          /\ phy' \in {phy, "OTG"} /\ lvgl' = "r_phy"
          /\ UNCHANGED stack
       \/ /\ stack /\ lvgl' = "r_phy" /\ UNCHANGED <<stack, phy>>
    /\ LvglUnchanged
    /\ UNCHANGED <<active, pmVars, mp, lost, vol, medium, fmtVars>>

EnterSwitch ==
    /\ lvgl = "e_mp"
    /\ \E ok \in Outcome("switch") :
          /\ mp' = IF ok THEN "USB" ELSE mp
          /\ lvgl' = IF ok THEN "e_active" ELSE "r_uninstall"
    /\ LvglUnchanged
    /\ UNCHANGED <<active, pmVars, stack, phy, lost, vol, medium, fmtVars>>

EnterActive ==
    /\ lvgl = "e_active" /\ lvgl' = "e_pm"
    /\ active' = TRUE
    /\ LvglUnchanged /\ UNCHANGED <<pmVars, usbVars, vol, medium, fmtVars>>

EnterLock ==
    /\ lvgl = "e_pm" /\ lvgl' = "idle"
    /\ PmMuxFree
    /\ charging' = TRUE /\ grace' = 0
    /\ Acquire
    /\ LvglUnchanged /\ UNCHANGED <<active, usbVars, vol, medium, fmtVars>>

(***************************************************************************)
(* tinyusb_driver_uninstall, usb_phy_restore_serial_jtag and the remount   *)
(* end both a failed enter ("r_") and an exit ("x_").                      *)
(***************************************************************************)
Uninstall ==
    /\ lvgl \in {"r_uninstall", "x_uninstall"}
    /\ lvgl' = IF lvgl = "r_uninstall" THEN "r_phy" ELSE "x_phy"
    /\ \E ok \in Outcome("uninstall") :
          stack' = (stack /\ ~ok) /\ lost' = (lost \/ ~ok)
    /\ LvglUnchanged
    /\ UNCHANGED <<active, pmVars, phy, mp, vol, medium, fmtVars>>

\* usb_new_phy is refused while the stack still owns the internal PHY.
PhyRestored_Mutant(ok) ==                \* only the exit restores it
    IF ok /\ ~stack /\ lvgl # "r_phy" THEN "USJ" ELSE phy
PhyRestored(ok) == IF ok /\ ~stack THEN "USJ" ELSE phy

RestorePhy ==
    /\ lvgl \in {"r_phy", "x_phy"}
    /\ lvgl' = IF lvgl = "r_phy" THEN "r_mount" ELSE "x_mp"
    /\ \E ok \in Outcome("phy") :
          phy' = PhyRestored(ok) /\ lost' = (~ok \/ (lost /\ stack))
    /\ LvglUnchanged
    /\ UNCHANGED <<active, pmVars, stack, mp, vol, medium, fmtVars>>

\* The semaphore wait times out when a repair holds it: no remount then.
RemountOrSkip ==
    /\ lvgl \in {"r_mount", "x_mount"} /\ lvgl' = "idle"
    /\ vol' = IF FsMutexFree THEN Remounted(vol, medium) ELSE vol
    /\ LvglUnchanged /\ UNCHANGED <<active, pmVars, usbVars, medium, fmtVars>>

-----------------------------------------------------------------------------
(***************************************************************************)
(* LVGL task: usb_storage_exit and usb_storage_request_format.             *)
(***************************************************************************)
ExitFlag ==
    /\ up /\ lvgl = "idle" /\ active
    /\ active' = FALSE /\ lvgl' = "x_pm"
    /\ LvglUnchanged /\ UNCHANGED <<pmVars, usbVars, vol, medium, fmtVars>>

ExitUnlock ==
    /\ lvgl = "x_pm" /\ lvgl' = "x_uninstall"
    /\ PmMuxFree
    /\ Release
    /\ charging' = TRUE /\ grace' = 0
    /\ LvglUnchanged /\ UNCHANGED <<active, usbVars, vol, medium, fmtVars>>

ExitSwitch ==
    /\ lvgl = "x_mp" /\ lvgl' = "x_mount"
    /\ \E ok \in Outcome("switch") : mp' = IF ok THEN "APP" ELSE mp
    /\ LvglUnchanged
    /\ UNCHANGED <<active, pmVars, stack, phy, lost, vol, medium, fmtVars>>

\* The flag is committed to NVS before the restart.  A failing nvs_open or
\* nvs_set_u8 ends the request with nothing done; a failing nvs_commit ends
\* it with the flag set.
RequestFormat ==
    /\ up /\ lvgl = "idle" /\ ~active
    /\ \E ok \in Outcome("nvs") : lvgl' = IF ok THEN "f_restart" ELSE "idle"
    /\ fmt' = TRUE /\ request' = "confirmed"
    /\ LvglUnchanged /\ UNCHANGED <<active, pmVars, usbVars, vol, medium>>

LvglStep ==
    \/ EnterInstall \/ EnterSwitch \/ EnterActive \/ EnterLock
    \/ Uninstall \/ RestorePhy \/ RemountOrSkip
    \/ ExitUnlock \/ ExitSwitch

UserAction == EnterDetach \/ ExitFlag \/ RequestFormat

-----------------------------------------------------------------------------
(***************************************************************************)
(* Main task: the battery block and usb_storage_set_charging.  The two     *)
(* critical-section steps hold s_pm_mux; s_active was read by the first.   *)
(***************************************************************************)
MainUnchanged == UNCHANGED <<lvgl, active, plugged>>

\* One pass of the two-second block brings a pending deadline closer.
Sooner_Mutant(g) == g - 1                \* counts past the deadline
Sooner(g) == IF g > 1 THEN g - 1 ELSE g

BatteryRead ==
    /\ main = "block"
    /\ arg' = plugged
    /\ main' = IF active THEN "c_active" ELSE "c_idle"
    /\ grace' = Sooner(grace)
    /\ MainUnchanged
    /\ UNCHANGED <<up, handle, volBad, held, pmCreated, pmCount, charging,
                   ejected, usbVars, vol, medium, tripped, fmtVars>>

BatteryUnread ==
    /\ main = "block" /\ "battery" \in Faults
    /\ main' = "writer"
    /\ grace' = Sooner(grace)
    /\ MainUnchanged
    /\ UNCHANGED <<up, handle, volBad, held, pmCreated, pmCount, charging,
                   localVars, usbVars, vol, medium, tripped, fmtVars>>

SetChargingInactive ==
    /\ main = "c_idle" /\ main' = "writer"
    /\ charging' = arg /\ arg' = FALSE
    /\ MainUnchanged
    /\ UNCHANGED <<up, handle, volBad, held, pmCreated, pmCount, grace,
                   ejected, usbVars, vol, medium, tripped, fmtVars>>

\* A plug-in cancels the grace and does not take a released lock back.
SetChargingActive_Mutant ==
    /\ main = "c_active" /\ main' = "writer"
    /\ charging' = arg /\ arg' = FALSE
    /\ grace' = IF arg THEN 0 ELSE Grace + 1
    /\ MainUnchanged
    /\ UNCHANGED <<up, handle, volBad, held, pmCreated, pmCount, ejected,
                   usbVars, vol, medium, tripped, fmtVars>>

SetChargingActive ==
    /\ main = "c_active" /\ main' = "writer"
    /\ charging' = arg /\ arg' = FALSE
    /\ \/ arg /\ grace' = 0 /\ Acquire
       \/ ~arg /\ grace' = Grace + 1 /\ UNCHANGED <<held, pmCreated, pmCount>>
    /\ MainUnchanged
    /\ UNCHANGED <<up, handle, volBad, ejected, usbVars, vol, medium, tripped,
                   fmtVars>>

-----------------------------------------------------------------------------
(***************************************************************************)
(* Main task: data_writer_tick.  Three failed batches or a volume already  *)
(* known to be bad start a repair, no more often than a retry interval     *)
(* allows; then the batches that are due are written unless something      *)
(* holds the writer.  The interval, a TTS playback and the write gate are  *)
(* the choice to pass.                                                     *)
(***************************************************************************)
MainKeeps == UNCHANGED <<lvgl, active, plugged, handle, pmVars, localVars>>

Suspect_Mutant == tripped                \* only failing writes start a repair
Suspect == tripped \/ volBad

RepairStart ==
    /\ main = "writer" /\ Suspect /\ DataMounted
    /\ main' = "v_probe" /\ tripped' = FALSE
    /\ MainKeeps /\ UNCHANGED <<up, volBad, usbVars, vol, medium, fmtVars>>

WriterPass ==
    /\ main = "writer" /\ main' = "hold"
    /\ MainKeeps
    /\ UNCHANGED <<up, volBad, usbVars, vol, medium, tripped, fmtVars>>

\* usb_storage_volume_repair returns: to the writer, or to the end of the boot.
RepairReturns ==
    /\ main' = IF up THEN "hold" ELSE "block"
    /\ up' = TRUE
    /\ UNCHANGED <<usbVars, tripped, fmtVars>>

\* f_getfree without s_fs_mutex: no verdict when it fails, healthy when it
\* finds free space (or the FAT head: a volume that is really full).
RepairProbe ==
    /\ main = "v_probe"
    /\ vol' = Probed(vol, medium)
    /\ \/ vol' # "mounted" /\ RepairReturns /\ UNCHANGED volBad
       \/ vol' = "mounted" /\ medium # "eoc" /\ volBad' = FALSE /\ RepairReturns
       \/ /\ vol' = "mounted" /\ medium = "eoc" /\ main' = "v_lock"
          /\ UNCHANGED <<up, volBad, usbVars, tripped, fmtVars>>
       \/ /\ vol' = "mounted" /\ medium = "eoc" /\ "memory" \in Faults
          /\ RepairReturns /\ UNCHANGED volBad
    /\ MainKeeps /\ UNCHANGED medium

\* s_fs_mutex taken, s_repairing raised, f_mount(NULL).
RepairDetach ==
    /\ main = "v_lock" /\ main' = "v_rebuild"
    /\ vol' = IF vol = "none" THEN "none" ELSE "detached"
    /\ MainKeeps /\ UNCHANGED <<up, volBad, usbVars, medium, tripped, fmtVars>>

\* vol_rebuild_fat writes the FAT for the geometry copied before: over any
\* other medium than the one that was probed it does damage.
RepairRebuild ==
    /\ main = "v_rebuild"
    /\ \E ok \in Outcome("rebuild") :
          /\ medium' \in IF ~ok THEN {medium}
                         ELSE IF medium = "eoc" THEN {"data"}
                         ELSE {medium, "partial"}
          /\ vol' = Mounted(medium')
          /\ \/ ok /\ vol' = "mounted" /\ main' = "v_verify"
                /\ UNCHANGED <<up, volBad, usbVars, tripped, fmtVars>>
             \/ ~(ok /\ vol' = "mounted") /\ volBad' = TRUE /\ RepairReturns
    /\ MainKeeps

RepairVerify ==
    /\ main = "v_verify"
    /\ vol' = Probed(vol, medium)
    /\ volBad' = ~(vol' = "mounted" /\ medium # "eoc")
    /\ RepairReturns
    /\ MainKeeps /\ UNCHANGED medium

WriterHeld ==
    /\ main = "hold" /\ main' = "tick"
    /\ MainKeeps
    /\ UNCHANGED <<up, volBad, usbVars, vol, medium, tripped, fmtVars>>

WriterGo ==
    /\ main = "hold" /\ ~volBad /\ DataMounted
    /\ main' = "write"
    /\ MainKeeps
    /\ UNCHANGED <<up, volBad, usbVars, vol, medium, tripped, fmtVars>>

\* dw_flush of the batches that are due; a full table fails every write.
Write ==
    /\ main = "write" /\ main' = "tick"
    /\ vol' = Probed(vol, medium)
    /\ IF vol' = "mounted" /\ medium # "eoc"
       THEN tripped' = FALSE /\ medium' = "data"
       ELSE tripped' \in {tripped, TRUE} /\ UNCHANGED medium
    /\ MainKeeps /\ UNCHANGED <<up, volBad, usbVars, fmtVars>>

-----------------------------------------------------------------------------
(***************************************************************************)
(* Main task: usb_storage_tick.  Outside the mode it probes the volume     *)
(* every 10 s (60 s after a failure; not due is the choice to pass) and    *)
(* repairs the mount; in the mode it ends the grace and re-arms the disk.  *)
(***************************************************************************)
TickUnchanged == UNCHANGED <<lvgl, active, plugged, up, handle, volBad, arg,
                             stack, phy, lost, medium, tripped, fmtVars>>

TickPass ==
    /\ main = "tick" /\ main' = "block" /\ ~active
    /\ TickUnchanged /\ UNCHANGED <<pmVars, mp, vol, ejected>>

TickProbe ==
    /\ main = "tick" /\ handle /\ ~active
    /\ vol' = Probed(vol, medium)
    /\ main' = IF vol' = "mounted" THEN "block" ELSE "t_remount"
    /\ TickUnchanged /\ UNCHANGED <<pmVars, mp, ejected>>

\* The light remount is the only self-repair.
TickRemount_Mutant ==
    /\ main = "t_remount" /\ main' = "block"
    /\ vol' = Remounted(vol, medium)
    /\ TickUnchanged /\ UNCHANGED <<pmVars, mp, ejected>>

TickRemount ==
    /\ main = "t_remount"
    /\ vol' = Remounted(vol, medium)
    /\ main' = IF vol' = "mounted" THEN "block" ELSE "t_mount"
    /\ TickUnchanged /\ UNCHANGED <<pmVars, mp, ejected>>

\* repair_data_mount(false): from nothing, and back to nothing on failure.
TickMount ==
    /\ main = "t_mount" /\ main' = "block"
    /\ vol' = IF medium \in Mountable THEN "mounted" ELSE "none"
    /\ TickUnchanged /\ UNCHANGED <<pmVars, mp, ejected>>

TickActive ==
    /\ main = "tick" /\ handle /\ active
    /\ main' = "t_pm" /\ ejected' = (mp = "APP")
    /\ TickUnchanged /\ UNCHANGED <<pmVars, mp, vol>>

GraceOver == ~charging /\ held /\ grace = 1

TickLock ==
    /\ main = "t_pm"
    /\ main' = IF ejected THEN "t_rearm" ELSE "block"
    /\ IF GraceOver THEN Release /\ grace' = 0
                    ELSE UNCHANGED <<held, pmCreated, pmCount, grace>>
    /\ ejected' = FALSE
    /\ TickUnchanged /\ UNCHANGED <<charging, mp, vol>>

TickRearm ==
    /\ main = "t_rearm" /\ main' = "block"
    /\ \E ok \in Outcome("switch") : mp' = IF ok THEN "USB" ELSE mp
    /\ TickUnchanged /\ UNCHANGED <<pmVars, vol, ejected>>

-----------------------------------------------------------------------------
(***************************************************************************)
(* Main task: usb_storage_init.                                            *)
(***************************************************************************)
BootUnchanged == UNCHANGED <<lvgl, active, plugged, up, volBad, pmVars, localVars,
                             stack, mp, tripped>>

BootPhy ==
    /\ main = "b_phy" /\ main' = "b_flag"
    /\ \E ok \in Outcome("phy") : phy' = PhyRestored(ok) /\ lost' = ~ok
    /\ BootUnchanged /\ UNCHANGED <<handle, vol, medium, fmtVars>>

\* The flag is left for the next boot.
BootFlag_Mutant ==
    /\ main = "b_flag"
    /\ main' = IF fmt THEN "b_erase" ELSE "b_new"
    /\ BootUnchanged /\ UNCHANGED <<handle, phy, lost, vol, medium, fmtVars>>

\* The flag is cleared before the erase, so that an erase cut short is not
\* retried.  A request that cannot be read stays pending; one whose flag
\* cannot be cleared (both results are ignored) is carried out now and again
\* by the next boot.
BootFlag ==
    /\ main = "b_flag"
    /\ \/ /\ "nvs" \in Faults
          /\ main' = "b_new" /\ UNCHANGED fmtVars
       \/ /\ ~fmt
          /\ main' = "b_new" /\ UNCHANGED fmtVars
       \/ /\ fmt
          /\ main' = "b_erase"
          /\ \E ok \in Outcome("nvs") :
                /\ fmt' = ~ok
                /\ request' = IF ok THEN request ELSE "kept"
    /\ BootUnchanged /\ UNCHANGED <<handle, phy, lost, vol, medium>>

BootErase ==
    /\ main = "b_erase" /\ main' = "b_new"
    /\ \E ok \in Outcome("erase") :
          medium' \in IF ok THEN {"blank"} ELSE {medium, "partial", "blank"}
    /\ request' = IF fmt /\ request = "kept" THEN "kept" ELSE "none"
    /\ BootUnchanged /\ UNCHANGED <<handle, phy, lost, vol, fmt>>

\* tinyusb_msc_new_storage_spiflash; without it /data stays away.
BootNew ==
    /\ main = "b_new"
    /\ \/ /\ handle' = TRUE /\ main' = "b_mount"
          /\ UNCHANGED up
       \/ /\ "memory" \in Faults /\ main' = "block"
          /\ up' = TRUE
          /\ UNCHANGED handle
    /\ UNCHANGED <<lvgl, active, plugged, volBad, pmVars, localVars, usbVars,
                   vol, medium, tripped, fmtVars>>

\* repair_data_mount(true): a new file system only on erased flash.
BootMount ==
    /\ main = "b_mount"
    /\ vol' = IF medium \in Mountable THEN "mounted" ELSE "none"
    /\ main' = IF medium = "blank" THEN "b_mkfs" ELSE "v_probe"
    /\ BootUnchanged /\ UNCHANGED <<handle, phy, lost, medium, fmtVars>>

BootMkfs ==
    /\ main = "b_mkfs" /\ main' = "v_probe"
    /\ \E ok \in Outcome("mkfs") :
          /\ medium' \in IF ok THEN {"empty"} ELSE {"blank", "partial"}
          /\ vol' = IF ok THEN "mounted" ELSE "none"
    /\ BootUnchanged /\ UNCHANGED <<handle, phy, lost, fmtVars>>

MainStep ==
    \/ BatteryRead \/ BatteryUnread \/ SetChargingInactive \/ SetChargingActive
    \/ RepairStart \/ WriterPass \/ RepairProbe \/ RepairDetach
    \/ RepairRebuild \/ RepairVerify \/ WriterHeld \/ WriterGo \/ Write
    \/ TickPass \/ TickProbe \/ TickRemount \/ TickMount
    \/ TickActive \/ TickLock \/ TickRearm
    \/ BootPhy \/ BootFlag \/ BootErase \/ BootNew \/ BootMount \/ BootMkfs

-----------------------------------------------------------------------------
(***************************************************************************)
(* A reset loses the RAM.  A restart in software keeps the RTC domain, so  *)
(* D+/D- stay where they are; a power cut does not, and it may tear a      *)
(* sector that is being written.                                           *)
(***************************************************************************)
AfterCut ==
    {medium} \union
    (CASE main = "b_erase" -> {"partial", "blank"}
       [] main = "b_mkfs"  -> {"partial"}
       [] medium = "data" /\ (vol = "mounted" \/ HostCanAccess) -> {"eoc"}
       [] OTHER -> {})

Boot ==
    /\ lvgl' = "idle" /\ main' = "b_phy" /\ up' = FALSE
    /\ handle' = FALSE /\ active' = FALSE /\ volBad' = FALSE
    /\ held' = FALSE /\ pmCreated' = FALSE /\ pmCount' = 0
    /\ charging' = TRUE /\ grace' = 0
    /\ arg' = FALSE /\ ejected' = FALSE
    /\ stack' = FALSE /\ mp' = "USB"
    /\ vol' = "none" /\ tripped' = FALSE
    /\ request' = IF fmt THEN request ELSE "none"
    /\ UNCHANGED <<lost, fmt, plugged>>

PowerCut == Resets /\ Boot /\ phy' = "USJ" /\ medium' \in AfterCut

\* esp_restart after a format request, or from the settings page.
Restart ==
    /\ lvgl = "f_restart" \/ (Resets /\ up /\ lvgl = "idle")
    /\ Boot /\ UNCHANGED <<phy, medium>>

-----------------------------------------------------------------------------
(***************************************************************************)
(* The host and the cable (external).                                      *)
(***************************************************************************)
HostWrite ==
    /\ HostCanAccess
    /\ medium' \in {"data", "foreign"}
    /\ UNCHANGED <<taskVars, handle, active, volBad, pmVars, localVars,
                   usbVars, vol, tripped, fmtVars, plugged>>

\* SCSI START STOP UNIT: the component gives the medium back to the device.
HostEject ==
    /\ HostCanAccess
    /\ mp' = "APP"
    /\ UNCHANGED <<taskVars, handle, active, volBad, pmVars, localVars,
                   stack, phy, lost, vol, medium, tripped, fmtVars, plugged>>

Plug ==
    /\ plugged' = ~plugged
    /\ UNCHANGED <<taskVars, handle, active, volBad, pmVars, localVars,
                   usbVars, vol, medium, tripped, fmtVars>>

Environment == PowerCut \/ HostWrite \/ HostEject \/ Plug

Next == LvglStep \/ UserAction \/ MainStep \/ Restart \/ Environment

Spec == Init /\ [][Next]_vars

(***************************************************************************)
(* Both tasks are scheduled; the 10 s and 60 s timers of the tick and of   *)
(* the writer's retry expire again and again, and the fuel gauge answers   *)
(* again and again.  Nothing is asked of the user, the host or the cable.  *)
(***************************************************************************)
Fairness ==
    /\ WF_vars(MainStep)
    /\ WF_vars(LvglStep \/ (lvgl = "f_restart" /\ Restart))
    /\ SF_vars(BatteryRead)
    /\ SF_vars(RepairStart)
    /\ SF_vars(TickProbe)

FairSpec == Spec /\ Fairness

-----------------------------------------------------------------------------
(***************************************************************************)
(* Safety.                                                                 *)
(***************************************************************************)

\* The ESP-IDF lock counts references; whatever the order of enter, exit,
\* set_charging and tick, its count stays 0 or 1 and is what s_pm_held says
\* (usb_storage.c:114: "acquire/release must pair").
PmLockPaired == pmCount = IF held /\ pmCreated THEN 1 ELSE 0

\* Light sleep is only ever forbidden in the mode: a set_charging that read
\* s_active before an exit cannot take the lock back after it.
PmLockOnlyInMode == held => active \/ lvgl = "x_pm"

\* A repair writes the FAT behind FatFS' back, so no file system may be
\* mounted while it does: every other mount waits for s_fs_mutex.
RepairSeesNoMount == Repairing => vol \in {"detached", "none"}

\* Outside the mode the serial port has D+/D- again and no device stack is
\* left, whichever call of enter failed (usb_storage.c:751-758, 1008), unless
\* the last uninstall or PHY call to give the port back failed itself.
\* Without it COM is gone until a power cut.
SerialPortBack ==
    (up /\ lvgl \in {"idle", "r_mount", "x_mp", "x_mount"} /\ ~active)
        => (phy = "USJ" /\ ~stack) \/ lost

\* The device never destroys files by itself: a medium with user data is
\* erased only by the erase of a boot that follows a confirmed request, or,
\* when NVS would not let go of the flag, by that of a later boot again; and
\* only a repair that lost the race with a host can damage its FAT
\* (usb_storage.c:28-31).
UserDataSurvives ==
    [][(medium \in UserData /\ medium' \notin UserData) =>
          \/ main = "b_erase" /\ request # "none"
          \/ main = "v_rebuild" /\ medium' = "partial"]_vars

\* While the host may use the medium, FatFS is detached and no repair writes
\* it (usb_storage.c:983: "handed to the host alone").
HostExclusive == HostCanAccess => vol # "mounted" /\ ~Repairing

-----------------------------------------------------------------------------
(***************************************************************************)
(* Liveness.                                                               *)
(***************************************************************************)

\* However enter or exit ended, /data is mounted again as long as the user
\* stays outside the mode and the medium can be mounted.
OutsideMode == up /\ handle /\ ~active /\ lvgl = "idle" /\ ~HostCanAccess
VolumeComesBack ==
    <>[](OutsideMode /\ medium \in Mountable) => []<>(vol = "mounted")

\* A volume found bad and then repaired or reformatted is written again: the
\* retry does not depend on failing writes (data_writer.c:311-320).
BadVerdictIsRevised ==
    <>[](OutsideMode /\ medium \in {"data", "empty"}) => <>[]~volBad

\* In the mode with power on the cable, the device ends up kept awake, if
\* the lock for it could be created.
PluggedStaysAwake ==
    <>[](up /\ active /\ lvgl = "idle" /\ plugged)
        => <>[](pmCreated => pmCount = 1)

\* In the mode with the cable out, the lock is released after the grace
\* (usb_storage.c:22-25, usb_storage.h:24-29).
UnpluggedReleasesLock ==
    <>[](up /\ active /\ lvgl = "idle" /\ ~plugged) => []<>~held

=============================================================================
