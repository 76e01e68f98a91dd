# TLA+ models of the virtual pet

The repository is the firmware of a desk pet on an ESP32-S3 (`src/main`, C on
FreeRTOS with LVGL) and the FastAPI server it talks to (`src/server`). These
modules model the parts of it in which several tasks, a time-out, a reset or a
failing call meet; TLC checks them on small instances, and TLAPS proves their
safety properties for every value of the constants.

Status: the USB-disk mode, the touch gestures, the power state of the screen, the
Wi-Fi manager, the speech output with the voice session and the codec, and a
chat from the question to the memory, on the device and on the server, are
modelled and checked. Every invariant and every action property of the passing runs
is also a theorem, and so is the refinement of `NetworkSearch`; liveness is checked
by TLC only. The other components are inventoried below with what would make them
correct.

## 1. Inventory

### Tasks and how they meet

| task | runs | shared with others |
| --- | --- | --- |
| main task | `app_main`: touch block, shakes and taps, probe wake, the two-second block (battery, storage, diary, memory) | every flag below, without a lock in most places |
| LVGL task | the timers of LVGL under the (recursive) LVGL lock: gestures every 20 ms, settings page, strokes, fades | power state, USB mode, page |
| session task | one voice session after another | codec, socket, TTS |
| TTS tasks | download, playback and relay of one chain of sentences | queue, stop request, codec |
| memory writer | queue of appends and overwrites of the memory file | cached summary |
| network tasks | websocket events, HTTP server of the provisioning page, Wi-Fi event loop, Wi-Fi control | saved networks, control mailbox, chat sequence number |
| touch probe | wakes the screen while it is off | `s_wake_pending` |
| server | one coroutine per device socket, chats and tool calls as tasks | futures keyed by device |

### Components

For each: its state, its operations, what is hard, and what makes it correct.

1. **USB disk mode and volume repair** (`drivers/storage/usb_storage.c`).
   State: who owns `/data` (FatFS or the USB host), the TinyUSB stack and the
   PHY, the verdict on the volume, the light-sleep lock with its flag and its
   grace, the format request in NVS. Operations: `enter`, `exit`,
   `request_format` (LVGL task); `init`, `set_charging`, `volume_repair`, `tick`
   (main task). Hard: the tasks interleave inside each operation; any call may
   fail half-way; a reset may come at any step. Correct: one owner of the
   medium, a paired lock, no file destroyed without a request, no repair behind
   a mounted file system, the volume and the serial port always come back.
2. **Data writer** (`system/data_writer.c`). State: buffers, failure streak,
   one stream slot. Operations: append, overwrite, stream, tick. Hard: gate
   against the USB mode, a batch that fails. Correct: a bad volume is repaired
   and written again; nothing is written while the host has the medium.
3. **Touch gestures** (`drivers/touch/gesture_detect.c`, `app/input_handler.c`).
   State: three machines (left button, right strip, top strip), the page, the
   mirror of the screen. Operations: one pass, `gesture_reset_taps`,
   `gesture_set_screen_on`, the routing of each event. Hard: late passes, page
   changes in the middle of a touch, the main task switching the screen, time
   stamps of different width. Correct: each gesture is what the finger did.
4. **Power manager** (`system/power_manager.c`). State: lit, dim, off, the fade
   (flag, cancel request, steps, LVGL timers), the light-sleep lock, whether
   LVGL and the hardware run. Operations: `poll`, `note_interaction`,
   `screen_off`, `screen_on`, `fade_tick`. Hard: both tasks run
   `note_interaction`; the poll acts on an idle time it read earlier; LVGL is
   suspended by one task and resumed by either. Correct: the screen goes off
   when due, stays dim until then, can always be woken, and the lock is paired.
5. **Settings page** (`ui/screens/settings_screen.c`): the caller of 1. The
   rest is layout.
6. **Main loop** (`main.c`): the caller of 1, 2 and 4.
7. **Wi-Fi manager** (`system/wifi_manager.c`, `wifi_scanner.c`). State: saved
   networks, index of the attempt, attempt timer, mailbox of one command.
   Operations: event handler, time-out, control task, HTTP handlers. Hard:
   late events, a refused timer start, a deletion under the index, a power cut
   during a save. Correct: the saved networks are tried in order, each with its
   attempts, no command is lost, the list survives.
8. **TTS playback** (`ai/tts_client.c`). State: sentence queue, busy flag, stop
   request, generation, ring, frame queue, and three tasks of a chain: download,
   relay, playback. Operations: `tts_speak_queue`, websocket stream, stop,
   interrupt. Hard: a push against the end of the chain, a new chain against the
   old one's tasks, tasks deleted wherever they are. Correct: no accepted
   sentence is lost, one voice at a time, nothing of an earlier session is heard.
9. **Audio codec driver** (`drivers/audio/es8311_drv.c`): hold counters of two
   directions. Correct: a direction runs while anybody holds it.
10. **Voice session** (`ai/session_mgr.c`, `asr_client.c`,
    `app/message_handler.c`, `network/ws_client.c`). State: session state,
    request flag, chat sequence, connection. Hard: time-outs against late
    answers, two requests, reconnects. Correct: one session at a time, each
    answer counted for its own question.
11. **Memory store** (`system/memory_store.c`): queue, cached summary, file.
    Hard: an overwrite that is based on an earlier read, against the appends in
    between. Correct: no entry lost or torn.
12. **Flash writer lock** (`system/flash_writer_lock.c`): recursion, erase
    slices, yield budget. Correct: exclusion and no starved writer.
13. **Pet state** (`app/pet_engine.c`, `home_interaction.c`, ...): bounded
    counters, saved to NVS with a migration.
14. **Diary** (`app/diary_sync.c`, `diary_mgr.c`, `diary_screen.c`): retried
    download.
15. **Signal detectors** and 16. **touch controller** (`pat_`, `shake_`,
    `tap_`, `noise_detector.c`, `touch_fpc.c`): numeric filters. The noise detector
    is also a third user of the codec's receiver, beside 8 and 10.
17. **Boot and configuration**, 18. **clock**, 19. **HTTP clients and updates**,
    20. **sensors, display, haptics**, 21. **user interface**: sequences of
    calls, register access, drawing.
22. **Server: device socket** (`api/ws/router.py`, `future_bus.py`,
    `tool_registry.py`). State: connections, a lock per device, futures, locals of
    the message loop shared with its tasks. Hard: a second chat while the first is
    answered, a connection replaced under a task. Correct: an answer and its record
    belong to the same question, and the lock is passed on.
23. **Server: services and REST**: requests to others, rows in a database; the
    compaction of the memory and the chat over HTTP run beside 22.
24. **Tools and simulator**, 25. **vendored components**: not part of the
    device's own logic.

`PROJECT.json` lists the same components with their sources, and every hazard
at the line where it bites with the properties that are about it.

## 2. Modules

| module | models | source |
| --- | --- | --- |
| `UsbStorage` | USB disk mode, repair, format, light-sleep lock, write gate | `usb_storage.c`, `data_writer_tick`, two-second block of `main.c` |
| `MCUsbStorage` | instances | |
| `UsbStorageProofs` | theorems and their lemmas | |
| `GestureDetect` | the three gesture machines and the routing to the pages | `gesture_detect.c`, `on_gesture_event` |
| `MCGestureDetect` | instances | |
| `GestureDetectProofs` | theorems and their lemmas | |
| `PowerManager` | dim, hold, fade, off and wake of the screen on two tasks | `power_manager.c`, touch block and probe of `main.c` |
| `MCPowerManager` | instances | |
| `PowerManagerProofs` | theorems and their lemmas | |
| `NetworkSearch` | what the search for a network promises | abstract |
| `WifiManager` | list, search, portal, mailbox and timer on six tasks | `wifi_manager.c` |
| `MCWifiManager` | instances | |
| `WifiManagerProofs` | theorems and their lemmas, the refinement step by step | |
| `Es8311` | hold counts and channels of the codec, as operators | `es8311_drv.c` |
| `TtsClient` | one reply after the other to the loudspeaker; extends `Es8311` | `tts_client.c`, `ws_client.c`, `message_handler.c` |
| `Voice` | a voice session and the noise detector beside the speech output; extends `TtsClient` | `session_mgr.c`, `noise_detector.c` |
| `Chat` | session, socket, server and memory file | `session_mgr.c`, `message_handler.c`, `memory_store.c`, `router.py`, `tool_registry.py`, `llm_service.py`, `chat.py` |
| `VoiceProofs` | theorems about `Voice` with `TtsClient` and `Es8311` | |
| `ChatProofs` | types and pairing of rounds | |
| `ChatOrderProofs` | the order of what is on its way; extends `ChatProofs` | |

### UsbStorage

Each task is a program counter (`lvgl`, `main`); an action is the code between
two places where the other task can see an intermediate state. `enter` is
`EnterDetach` (mutex, `f_mount(NULL)`), `EnterInstall` (PHY, TinyUSB),
`EnterSwitch` (mount point to the host), `EnterActive` (`s_active = true`) and
`EnterLock`; a failing step goes to the roll-back the code has for it
(`Uninstall`, `RestorePhy`, `RemountOrSkip`). `exit`, `set_charging`, the repair
(`RepairProbe`, `RepairDetach`, `RepairRebuild`, `RepairVerify`) and the boot
(`BootPhy`, `BootFlag`, ...) are laid out likewise. `s_fs_mutex` and `s_pm_mux`
are not variables: they are the program counters between which they are held
(`FsMutexFree`, `PmMuxFree`). The result of every external call is `Outcome`,
which may be a failure only of the kinds in `Faults`. At the boot these include NVS:
a request that cannot be read stays for a later boot; a flag whose `nvs_erase_key` or
`nvs_commit` fails (838-839, results ignored) is `"kept"`: the erase is carried out now
and by the next boot again, against the comment in line 838. The volume is what FatFS
has mounted (`vol`) and what the flash holds (`medium`). `Restart` keeps NVS,
flash and the RTC domain (the PHY), and loses the rest.

Abstracted: capacities and error texts, the 60-second probe cache, and the
clusters of `vol_rebuild_fat`, whose result is nondeterministic (`FatRebuild`
in the plan).

### GestureDetect

One pass of `gesture_process` is three actions, one per machine, because the
main task may switch the screen mirror between them; the recognised event is
routed in the same action, as the code calls `on_gesture_event` on the spot. A
time stamp is its age, saturated above the largest threshold compared with it.
The uptime is one Boolean, `late`: past it a 32-bit stamp has lost bits and
any difference with 64-bit time is larger than every threshold. `Wake` is the end of
a time in which LVGL was suspended: the finger may have stayed, left, or left and come
again, which the machine cannot tell (`resumed`). `held` and `pause` are what the
passes could see of the finger; `streak` counts quick taps only. Electrodes are
inputs: pressed or not, and one of three zones of a strip.

### PowerManager

Both tasks are program counters again. `note_interaction` is one set of actions
(`NoteFade` ... `NoteTime`) with the task as parameter, with `screen_on` inside
it (`NoteOn`, `NoteResume`, `NoteDraw`). `poll` is `PollIdle` (reads the idle
time), `PollOff`, `PollDark`, `ScreenOff`, `ScreenOffStop`, `ScreenOffDevice`,
`PollFade` or `NoFade`, `PollMark`, `PollTimer`. The three places where the main
task waits for the LVGL lock wait for the LVGL task to be outside its timers.
`timers` counts LVGL's fade timers by their remaining repeats: a fade that was
cancelled leaves its timer behind until it runs, and several may step the one
counter `left`, which has eight bits. Backlight levels are left out: no flag
depends on them.

Abstracted: the time-out setting (`DimAfter`, `OffAfter` are constants), the
lock that a connected USB host holds, deep sleep (a stub in the code).

### WifiManager and NetworkSearch

The variables are the static variables of `wifi_manager.c` (`state`, `nets`,
`count`, `cur`, `attempts`), the attempt timer, the mailbox (`cmd`, `arg`,
`notified`), a program counter for each task that can be stopped in the middle
of something, the driver (what it does, its configuration, the events it has
posted and nobody has handled), and the two files of a save. A command's life
is `ReadCommand`, `ClearCommand` and its own action, because the event loop and
the HTTP server may post between the three. A save is one step per change of the flash
(`SaveWrite`, `SaveRemove`, `SaveRename`), at each of which the power may go. The new
file may fail to open or be cut by a full flash, whose result nobody looks at
(`"write"` in `Faults`); a rename that fails falls back on writing the target in place
(`SaveFallback` empties it, `SaveDirect` writes it) or fails for good (`"rename"`). `StationConnect`
has three ends: it connects, the driver fails, or the driver is busy and refuses the
configuration. The reasons of `is_bad_cred_reason` are one event, `"cred"`.

`BackoffBreak`: the `break` at line 659 leaves the task's `while`, the task
function returns, and FreeRTOS aborts: the action is a restart.

`NetworkSearch` has four variables: whether the device searches, which network is
on offer, how many there are, and a network the user asked for. Its steps are the
next network, the portal behind the last one, up, down, edits of the list in the
portal. `SearchInOrder` is `Search!Spec`, with `Search` its instance over
`state`, `cur`, `count` and the mailbox (`Submitting`). An index that lies behind
the list, which a deletion can bring about, counts as behind the last one
(`Behind`). A second submission before the first has been carried out (`doubled`)
is the abstract `Hasten`, after which the search promises nothing until a restart.

Abstracted: signal strengths and scan results, passwords, the pages of the portal.

### Es8311, TtsClient and Voice

`Es8311` gives the codec's state after each call of its hold and release
functions. `TtsClient` has the playback tasks as a function of the session
(`s_gen`) they were created for, because an old one may still be on its way out
when a later session runs; the download, the relay and the WebSocket task are one
each. `rb_put` looks at the generation on entry and then waits for room without
looking again: hence a writer has the places `"net"`/`"look"` and `"put"`, and its
block carries `late` when the ring changed hands in between. `_interrupt_chain`
is `AudioStart` (stop request), `Waited`, `Kill` (releases the codec for the task
it is going to delete), `Delete`, `Reset`; `ws = "dead"` is `vTaskDelete(NULL)`:
the task ended in the 320 ms that the release may take, its handle is NULL, and
the WebSocket task deletes itself. `Slow` are the two places at which a playback task
does not look at the stop request for longer than the 600 ms that a caller waits.
The server answers a chat with a stream and `chat_done`, or with `chat_done` alone;
the text of either may hold nothing to be said (`"hush"`), which leaves the flag of the
stream untaken. (A `chat_done` without a text at all is ignored by the device; the server
sends none.) The queue of frames holds `WsQueueBlocks`, a frame that finds it full is
dropped; the relay takes up to `RelayBlocks` at once (`Load`) and puts them one by one.

`Voice` adds the session task: `Press`, `Open`, the listening, `Speech`,
`Answered`, `Drain`; and the noise detector, which looks whether anybody plays or
records (`NoiseLook`) and then holds the receiver without looking again (`NoiseHold`).
Its task lock against light sleep is not modelled. The loudness windows, the recording and the recognition,
with its three attempts, are the choice between `Speech`, `Silence` and waiting.

### Chat

A session asks, `WriteQLen` items wait for the writer of the memory file, the
server runs one task per question under the device's lock. Connections are
numbered: `conn` is the device's, `devConn` the one the server has registered, and
a task remembers the one of its question. `up` and `down` are the messages on the
present connection; `Lose` takes them with it, `Notice` is the server finding out.
A text is the number of its question, so that `RoundOf` can pair the wrong two:
`user_text` is one variable of the connection's handler (`text`), read by all its
tasks after their awaits. The memory file is the set of rounds it tells of; a
compaction that works keeps what it was given.

Not modelled of it: a restart of the device or the server, the repair of a line
cut by a reset, the refusal of writes at low battery, database errors, other
tools, more than one call of `tool_history` in a chat.

## 3. Checks

All runs of UsbStorage and PowerManager check deadlock. The others do not
(`CHECK_DEADLOCK FALSE`), because their systems may really stop: a screen that is
off with nothing touched, or a restarted device; a manager with its portal open
whose user has made his bounded number of changes; a device that waits for the
next question after the last one.

| run | shows |
| --- | --- |
| `usb` | `PmLockPaired`, `PmLockOnlyInMode`, `RepairSeesNoMount`, `SerialPortBack`, `UserDataSurvives`, and `VolumeComesBack`, `BadVerdictIsRevised`, `PluggedStaysAwake` under fairness, with resets and failures that repeat |
| `usb_exclusive` | violated: `HostExclusive` (finding 1) |
| `usb_grace` | violated: `UnpluggedReleasesLock` (finding 2) |
| `gesture` | `TapsAreConsecutive`, `LongPressIsHeldAtFirst`, `NoTapAfterSlideOrHold`, `EscapeHatch` |
| `gesture_uptime` | violated: `LongPressIsHeld` (finding 3) |
| `gesture_wake` | violated: `WakeTouchNotConsumed` (finding 4) |
| `power` | `ScreenLockPaired`, `StuckOnlyByRace`, `HeldUnlessLeftover`, `QuietGoesDark`, `ProbeLights` |
| `power_hold` | violated: `HeldUntilOff` (finding 5) |
| `wifi` | `ListSurvives`, `MarkedIsLinked`, `BackoffIsUndisturbed`, `RetriesInFull`, `SearchEnds`, and `SearchInOrder`: `WifiManager` implements `NetworkSearch` |
| `wifi_absent` | violated: `AbsentIsSkipped` (finding 6) |
| `voice` | `OneVoice`, `CodecFollows`, `RingIsOurs`, `FramesReachRing`, `AtMostOneLoadLost`, `FallbackSpoken`, `SentenceTaken`, `SessionEnds` |
| `chat` | `ReplyIsMine`, `PairedRounds`, `NothingForgotten`, `EveryQuestionEnds` |

### Bounds and why they are enough

- `Grace` 2: a refresh of the deadline, a pass without one and the expiry are different
  passes.
- `Faults` of `usb`: every call that can fail may, at any time and any number of times,
  but for the PHY calls (`MCFaults`): a failing uninstall loses the serial port in the
  same way, and the theorems are about any set of failures. Fairness asks nothing of
  resets, which may go on for ever.
- Gesture thresholds are a few ticks apart in the order of the source, gaps
  between passes are 1 or 2 ticks (a pass that comes late, past a window), and
  the grips are one finger or the left button with the top strip, with which
  the page is closed under a pressed button.
- `DimAfter` 1, `OffAfter` 2, fades of two steps: a fade that is half-way, one
  that ends and one that is cancelled are different; `idle` is cut above
  `OffAfter` (`IdleCap`), as only comparisons with it count. `TimerCap` 3 bounds,
  for each number of repeats left, the fade timers that pile up when fades are
  cancelled and started again before LVGL runs its timers, or while its task is
  suspended; that there is more than one is what matters.
- A tick of `PowerManager` is longer than a fade: 15 s or more between two
  thresholds against two seconds of fade. In the same way `FadeInPoll` is assumed not
  to repeat for ever: a poll takes microseconds of each second.
- Wi-Fi: two names and two slots are enough for a next network, a last one and a
  list that is full. `RetryMax` 2 (the code's is 3): the last attempt and a fresh one
  differ. `WsFailLimit` 1: every failed connection may ask for the self-check, which is
  more than the code allows. `MaxUpsets` 2 counts submissions, deletions, power cuts and
  failures of the flash together: two submissions overlap, a deletion hits a submission,
  a failing save is followed by a power cut. The initial file is any file the code
  writes, up to the names.
- Voice: two replies, so that each kind of reply meets a chain of each kind; three
  frames, a queue and a load of two and a ring of one block, so that a frame is dropped,
  a writer waits for room and part of a load is left behind; a sentence of one block, a
  queue of one; two presses, lost connections, lost links, silent replies and samplings
  of the noise together (`MaxUpsets`). The numbers that grow (`gen`, `talks`) stop at
  `MaxTalks`.
- Chat: two questions and two connections, so that a question is overtaken on its
  connection or answered on the other's; one chat over HTTP beside them; a queue
  of one item besides the one in the writer's hands. `TypeOK` of this module is
  proved, not run.

### Fairness and why the code justifies it

FreeRTOS schedules both tasks, so each task's next step is weakly fair, also
the LVGL timers that are due. What a task does only on some rounds is strongly
fair, because the timer for it expires again and again: the two-second block
that reads the gauge (`BatteryRead`), the 60-second retry (`RepairStart`), the
10-second tick (`TickProbe`), the touch block with the poll (`PollIdle`). For
gestures the pass is fair. No fairness is asked of the user, the host, the
cable, the finger or the probe.

In `WifiManager` each task is weakly fair, a timer that runs expires, and the
driver answers an attempt: an access point may stay mute, as `Address` is not
fair. In `Voice` it is enough that some task goes on (`GoesOn`): no task moves in
circles, so all of them finish what they can; the server sends the end of a
stream it began, as `router.py` does whatever happens to the synthesis. In `Chat`
some task of the server goes on: whatever it waits for has a time limit, and
its limits are steps (`NoMemory`). Nothing is asked of the device or of the
connection there.

### Conditions in properties

`StuckOnlyByRace`, `HeldUnlessLeftover`, `LongPressIsHeldAtFirst` are the
promises of the code with one exception each, and the exception is reachable:

- `raced`: while `screen_off` of the main task waits for the LVGL lock
  (`power_manager.c:256`), a touch makes the LVGL task light the screen; then LVGL
  is stopped. The screen counts as on, nothing draws, and `screen_on` is never
  called again, since every interaction finds the screen on. `StuckOnlyByRace`
  and its theorem say that this is the only way.
- `leftover` (screen): finding 5. `late`: finding 3.
- `resumed`: the finger lifts and comes back while LVGL is suspended under it. The
  machine still waits for the release, with the old `press_start_us`: the first pass
  starts a voice session, the next one restarts the device (`gesture_detect.c:150, 206`).
- `slow` (`TapsAreConsecutive`): a pass that finds the window of the next tap over and
  the button touched takes the press for that tap: only a pass without a touch looks at
  the window (`gesture_detect.c:164, 182`).
- `lost` (`SerialPortBack`): the last uninstall or PHY call that would have given the port
  back failed. No code tries again.
- `request = "kept"` (`UserDataSurvives`): see `BootFlag` in section 2.

The properties of the later modules name what the code does not keep in the same
way. Each of these exceptions was met as a counterexample first:

- `doubled`, `stale` (Wi-Fi): a second submission, or a deletion, in the half
  second before the control task has taken up the first (`wifi_manager.c:645`). The
  task connects to the slot whose number it was given, which is another network's.
  With `doubled` the back-off can also find itself without a search, and its
  `break` (659) restarts the device; and the search of the first submission can
  come up behind the portal that the second has opened again, so that the event
  loop and the HTTP server save the list through the same temporary file.
- `spent` (Wi-Fi): `GOT_IP` does not reset `s_attempts`, though line 7 of the source
  counts the three retries per network: after a link that came up at the third
  attempt, the first refusal of a reconnection already moves on.
- `broken` (Wi-Fi), the ways in which a search gets stuck: the driver or the
  portal fails; `"overwrite"`, a command lost in the mailbox (641, 697); and
  `"deadline"`, a time-out that strikes in a back-off, when `esp_wifi_disconnect`
  has nothing to disconnect: no further time-out is armed (703-726).
- `unsaved` (Wi-Fi): a save that the flash failed. The old file is removed whatever
  `write` returned (`wifi_manager.c:194-196`), and the boot reads the new file only if
  the old one cannot be opened (214-222). In the same way `ListSurvives` names the
  `"direct"` stage, in which the fallback of a failing rename has emptied the list and
  not yet written it (199-201), against the comment in line 187: 断电最坏丢新内容,
  不毁旧文件 (at worst a power cut loses the new content, not the old file).
- `deaf` (codec): a session that opens while a player holds the codec, or beside a sampling
  that looked before the player came and held after it (`noise_detector.c:114-120`):
  its hold is not the first one and leaves the receiver off; see `HoldRx`. `ws \in {"delete", "dead"}`: the caller between releasing the codec for a
  task and deleting it, and one that deleted itself.
- `late` of a block, `stuck` of a relay: who waits in `rb_put` sees neither a new
  session nor a stop.
- `stranded`: a sentence that is queued when the chain will not look at the queue
  again (`tts_client.c:786`); it is spoken with the next reply, or never.
- `leftover` (speech): `s_ws_audio_seen` outlives a connection (`ws_client.c:103`), and
  a reply with nothing to be said (`message_handler.c:321`): the next reply, if it comes
  without a stream, is not spoken.
- `givenUp`: after 45 s the session stops waiting, and a reply that comes then
  counts for the next question (`session_mgr.c:330`).
- `overtaken`: `user_text` is shared by the tasks of a connection
  (`router.py:115`): a question asked while the one before is being answered
  replaces its text, in the memory and in the table.
- `unlocked`: the chat over HTTP does not take the device's lock, so its compaction
  overwrites rounds appended in the meantime (`chat.py:55`).
- `blanked`: an answer of the model that is not the JSON it should be gives the empty
  form and not `""`, which the comment of `compact_memory` promises for a
  failure (`llm_service.py:281`): the device's memory is overwritten with it.

## 4. Findings

1. `usb_exclusive`: `usb_storage_tick` remounts `/data` while the host has the
   medium, in the windows in which `s_active` is not yet or no longer set
   (`usb_storage.c:1292`, against the comment at 983).
2. `usb_grace`: `set_charging(false)` moves the unplug deadline in every
   two-second block, so the lock is never released (`usb_storage.c:160`, against
   the comment at 97).
3. `gesture_uptime`: after 71.6 minutes `press_start_us` (32 bits) is compared with
   64-bit time: a touch starts a voice session at once, and the pass after it
   restarts the device (`gesture_detect.c:27`, against 52-54).
4. `gesture_wake`: the touch that the probe took for the wake goes on as an
   operation on the page (`main.c:170`, against `gesture_detect.c:236-237`).
5. `power_hold`: an interaction between the end of the fade-out and the poll
   leaves `s_off_fade_done` set; the next dimming ends in switching off at the
   next poll (`power_manager.c:429`, against 451-452). The run lets the tasks
   take turns (`TakingTurns`), so no data race is needed for it.
6. `wifi_absent`: a network whose access point is not found has its retries, as the
   comment at `wifi_manager.c:617-619` wants; the head of the file (line 6) sends it to
   the next network at once. `RetriesInFull` states what the code does.

## 5. Proofs

Every theorem is about the specification the runs check, for every value of the
constants that its module's assumptions admit. Each proof has the same frame: an
inductive invariant as a conjunction of named parts, a lemma per action (or per group
of actions that disturb the same parts), and the theorems read off the invariant.
TLC checked the parts of each invariant before they were proved; what it refuted is
told below, because each such case is a fact about the code.

`UsbStorageProofs`, for every `Grace`, every subset of the failures and with or
without resets:

- `TypeCorrect`: `Spec => []TypeOK`.
- `LockIsPaired` and `LockOnlyInMode`. Neither invariant is inductive alone:
  `set_charging` decides on `s_active` and takes the lock later. `LockInv` adds
  that a main task past that decision still has the mode or an `exit` that has
  yet to release (`x_pm`), and that an `enter` about to take the lock has set
  `s_active`. `AcquirePairs` and `ReleasePairs` are the lemmas about the lock.
- `RepairIsExclusive`: who holds `s_fs_mutex` decides what may be mounted.
- `UserDataIsKept`, an action property, from `FormatInv`: a pending request and a
  boot that erases were confirmed, a flag that NVS kept is of a request carried out
  before, and a boot that formats blank flash found it blank.
- `SerialReturns`, for every set of failures. `PortInv` says which steps of `enter` and
  `exit` may leave the stack installed or the PHY with the device controller: those that
  have a step to come that gives it back, unless `lost`.

`PowerManagerProofs`, for all times and lengths of a fade:

- `TypeCorrect` and `LockIsPaired`, one invariant (`TypeInv`): the type of the
  reference count follows from what it counts.
- `StuckNeedsRace`: `OnMeansRunning` speaks of the places between two rounds only.
  `PhaseInv` says what is up and down at each program counter of the main task as
  long as `raced` is false; `MainKeepsPhase` follows `screen_off` and `screen_on`
  through their stages, `OthersKeepPhase` shows that the LVGL task changes nothing of
  it without setting `raced`.
- `ScreenIsHeld`, an action property. The step that turns the screen off rests on
  flags set many steps before: `HeldInv` says that a fade to dark of a dim
  screen goes with an idle time past the time-out (`Lapsed`), that `s_off_fade_done`
  is of this dim phase or was left behind (`Stale`), and that an interaction between
  the two looks of the poll is recorded (`Seen`). The interesting part is `Cleared`:
  the LVGL task clears `s_screen_dim` and resets the idle time later, and the poll can
  set the flag again in between. That is harmless only because the poll then waits
  for the LVGL lock before it goes on (`p_timer`).

`GestureDetectProofs`, for all thresholds in the order of the source, all gaps between
passes and all ways of touching: `TypeCorrect`, `LongPressHeld`, `OneKindPerTouch`,
`TapsCounted`. The invariant ties each clock of the code to what the finger did:
`press_start_us` is the age of the contact while no stamp has lost bits and the finger
did not leave and come again in a sleep, in which case it has saturated (`Contact`);
`tap_count` is no more than the quick taps in a row, unless a press came slow
(`Counted`); the flags of the strip
are the kinds of gesture seen in this touch (`OneKind`).

`WifiManagerProofs`, for every set of names, capacity, number of retries, set of faults
and number of upsets:

- `TypeCorrect`, `ListKept`, `MarkIsRight`, `BackoffAlone`, `GivenUpInFull`. The
  invariant is `Basic` in every state, and `Calm` until a second submission overtakes
  the first (`doubled`): `Linked` bounds how far driver, queue of events and event loop
  are apart; `Posted` says when a command may be under way; `Aimed` that the attempt is
  for the network on offer and its mark is saved before it counts as connected; `Kept`
  says for each stage of a save which of the two files holds the list, as long as the
  flash has not failed it (`Held`). Without the condition `Kept`
  is false (see `doubled` in section 3), which is why `ListSurvives` names it.
- `Refinement`: `Spec => SearchInOrder`, with `IInv /\ IInv' /\ [Next]_vars =>
  [Search!Next]_(Search!vars)` proved action by action: most steps stutter; a failure, a
  time-out, an address, a submission, a deletion and a power cut are steps of the search.
- Two assumptions are about the model's values: `NoFileAssumption` says that no list is
  taken for the absent file, `SsidsAssumption` that no name is taken for none.

`VoiceProofs`, for every number of replies, frames and upsets and every size of the
ring, of the two queues and of the load: `TypeCorrect`, `OneVoiceOnly`, `CodecIsFollowed`,
`RingKept`, `FramesCarried`, `OneLoadAtMost`, `BareReplySpoken`. `Chains` says that the flags follow
the one chain that is not over, and that older tasks have left the ring; `Clocked`, that
the codec's count is the number of tasks that hold it (a cardinality: its lemmas are
about one element joining or leaving a finite set); `Received`, that the count of the
receiver is the session and the sampling; `Writers` and `Relays`, who may still
write; `Streamed` and `Flagged` tie the stream to its reply; `Few` adds what is left of a
stream in the ring to what its relay still holds. `Relays` met a case that
needs three replies, one more than the run has: a relay that waits in `rb_put` when its
session comes to its end by itself, and not only when it is stopped, outlives it. `stuck`
covers both.

`ChatProofs` and `ChatOrderProofs`, for every number of questions, connections, chats
over HTTP and every length of the queue:

- `TypeCorrect`: `Spec => []TypeOK`, for sequences of messages of three kinds.
- `RoundsPaired`. A round is made by `RoundOf` and then travels: as a message, as
  an item of the queue, through the file into a memory that a task holds.
  `GoodOnTheWay` says of each of these places that what is there is paired, unless
  overtaken; `OwnQuestion` that a task which was not overtaken still finds its own
  question in `text`, and has heard no other; `Silent` that a question that was
  not asked has no task.
- `MemoryKept`. An overwrite is right if it holds every round ahead of it. `Safe` says so
  of each place where one may be (message, queue, the memory a task holds, the answer to
  its request), and that behind a request to read no round comes while the task that
  sent it has the lock: this is what the device's lock is for. `OneAtATime` is that lock.
- `OwnReply`. `InTurn`: of the present connection there is one question, task or reply
  at a time as long as no session has given up, so that counting replies is enough.

Only model-checked: the liveness properties (`VolumeComesBack`, `BadVerdictIsRevised`,
`PluggedStaysAwake`, `EscapeHatch`, `QuietGoesDark`, `ProbeLights`, `SearchEnds`,
`SentenceTaken`, `SessionEnds`, `EveryQuestionEnds`), as fairness and `ENABLED` are beyond
the prover. That the properties of the violation runs fail is shown by TLC's
counterexamples.

## 6. Plan

Done: `UsbStorage`, `GestureDetect`, `PowerManager`, `WifiManager` under
`NetworkSearch`, `Voice` over `TtsClient` and `Es8311`, `Chat`. Left, in this order:

1. `FatRebuild`: the rebuild of the FAT on bounded trees, against a reference
   definition of the chains; recursion as a recursive function.
2. `Storage`: buffers of the data writer, the repair of the memory file, the flash
   writer lock with its yield budget.
3. An abstract specification of the speech output (one reply at a time, each spoken or
   cut) that `Voice` implements, as `NetworkSearch` is for `WifiManager`.

A run answers one question; the components that interact share a module and
its run, so that their interaction is checked and not only their parts.

## 7. Not modelled

Numeric filters (detectors, electrode baselines) have state spaces of samples
and no protocol: the models take their results as inputs. Register access,
drawing, formatting and logging keep no state that another part depends on.
HTTP clients hold nothing between calls. The server's other services call
other services. Of the modelled components these parts are left out, as no property
here depends on them: `wifi_manager_suspend` and `_resume`, which nothing calls, and
the take-over of credentials from an old NVS entry; `tts_client_interrupt_speak`, the
way out when a task cannot be created; the cached summary of the memory file; a failing
write of the memory file (`memory_store.c:132-139`: the content is dropped when `open`
fails, the result of `write` is not looked at), with which `NothingForgotten` would not hold. Vendored components
appear as external actions where the firmware calls them.

## 8. Running

    tlc -workers 2 -config UsbStorage.cfg MCUsbStorage.tla
    tlc -workers 2 -config Voice.cfg Voice.tla
    tlapm UsbStorageProofs.tla

Definitions whose names end in `_Mutant` are plausible mistakes that no
specification uses. Put in the place of the definition of the same name they
make a property fail, which shows that the property depends on the code
(`PROJECT.json` says which).
