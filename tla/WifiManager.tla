---------------------------- MODULE WifiManager ----------------------------
(***************************************************************************)
(* The Wi-Fi manager (src/main/system/wifi_manager.c): the list of saved   *)
(* networks, the search through it, the provisioning portal and the        *)
(* healing of a dead link.  Six tasks run this code without a lock:        *)
(*                                                                         *)
(*   - the main task at boot (wifi_manager_init);                          *)
(*   - the event loop: link lost or refused, address obtained;             *)
(*   - the control task, which takes commands from a mailbox of one slot;  *)
(*   - the timer of the attempt;                                           *)
(*   - the HTTP server of the portal: submit and delete a network;         *)
(*   - the websocket task, which reports connections that fail.            *)
(*                                                                         *)
(* The radio driver with its access points, power cuts and the passing of  *)
(* time are the environment.                                               *)
(***************************************************************************)
EXTENDS Integers, Sequences, FiniteSetsExt

CONSTANTS
    Ssids,         \* names of networks
    NoSsid,        \* an unused slot of s_networks
    NoFile,        \* a file that is not there
    MaxNetworks,   \* WIFI_MAX_NETWORKS
    RetryMax,      \* WIFI_RETRY_MAX
    WsFailLimit,   \* WS_FAIL_THRESHOLD
    Faults,        \* the failures that may happen, a subset of FaultKinds
    Refusals,      \* for what the driver refuses an attempt, a subset of Reasons
    MaxUpsets      \* bound on submissions, deletions, power cuts and failures of the
                   \* flash together

FaultKinds == {"config", "portal", "write", "rename"}

\* Why there is no link: bad credentials (is_bad_cred_reason), no access point of
\* that name, or anything else.
Reasons == {"cred", "absent", "other"}
MayPass == Reasons \ {"cred"}

ASSUME SsidsAssumption == NoSsid \notin Ssids
ASSUME LimitsAssumption ==
    /\ MaxNetworks \in Nat \ {0} /\ RetryMax \in Nat \ {0}
    /\ WsFailLimit \in Nat \ {0} /\ MaxUpsets \in Nat
ASSUME FaultsAssumption == Faults \subseteq FaultKinds /\ Refusals \subseteq Reasons
ASSUME NoFileAssumption ==
    \A n \in 0 .. MaxNetworks : NoFile \notin [1 .. n -> [ssid : Ssids, lastOk : BOOLEAN]]

VARIABLES
    \* the manager
    state,      \* s_state
    nets,       \* s_networks, all slots of the array
    count,      \* s_net_count
    cur,        \* s_cur_idx
    attempts,   \* s_attempts
    armed,      \* s_timeout_timer runs
    \* the mailbox
    cmd,        \* s_ctrl_cmd
    arg,        \* s_ctrl_arg
    notified,   \* the task notification of s_ctrl_task
    \* the tasks
    ctrl,       \* where the control task is; "boot": the main task is in init
    took,       \* its local cmd
    evt,        \* where the event loop is in a handler
    httpd,      \* where the HTTP server is: in a save, "up", "off" (s_httpd = NULL)
    pick,       \* local of wifi_connect_handler: idx; -1 outside it
    ws,         \* where the websocket task is in note_ws_fail
    \* the link's health
    wsFails,    \* s_ws_fail_cnt
    cooling,    \* less than HEAL_COOLDOWN_MS since s_last_heal_tick
    \* the driver
    drv,        \* "idle", "trying", "mute" (associated, no address) or "up"
    to,         \* the SSID of its configuration
    events,     \* posted and not yet handled
    \* the flash
    file,       \* WIFI_SAVE_FILE, or NoFile
    tmp,        \* WIFI_SAVE_TMP, or NoFile
    upsets,     \* upsets so far, for the bound
    \* history
    strikes,    \* refusals of the network since it was offered or last up
    spent,      \* the attempts counted when the link came up
    timedOut,   \* the time-out struck since the network was offered or last up
    broken,     \* what has happened to this attempt that nothing repairs
    unsaved,    \* the flash failed a save, or the load, and took no list since
    doubled,    \* a network was submitted while a submission was under way
    stale       \* a deletion hit the list while a submission was under way

listVars == <<nets, count>>
flashVars == <<file, tmp>>
mailVars == <<cmd, arg, notified>>
driverVars == <<drv, to, events>>
healVars == <<ws, wsFails, cooling>>
searchVars == <<state, cur, attempts, armed>>
countVars == <<strikes, spent, timedOut>>
vars == <<searchVars, listVars, mailVars, ctrl, took, evt, httpd, pick, healVars,
          driverVars, flashVars, unsaved, upsets, countVars, broken, doubled, stale>>

Slots == 0 .. MaxNetworks - 1
Entry == [ssid : Ssids, lastOk : BOOLEAN]
Unused == [ssid |-> NoSsid, lastOk |-> FALSE]
States == {"DISCONNECTED", "CONNECTING", "CONNECTED", "SOFTAP"}

-----------------------------------------------------------------------------
(* The saved list *)

Upset == upsets < MaxUpsets /\ upsets' = upsets + 1

\* The list that save_wifi_list writes: the first s_net_count slots.
Listed(n, c) == [i \in 1 .. c |-> n[i - 1]]

\* A load that does not look for a save that was cut short.
Stored_Mutant == IF file # NoFile THEN file ELSE <<>>

\* load_wifi_list: the file, or what a save that was cut short left beside it.
Stored == CASE file # NoFile -> file
            [] file = NoFile /\ tmp # NoFile -> tmp
            [] OTHER -> <<>>

FindNetwork(s) == {i \in 0 .. count - 1 : nets[i].ssid = s}

\* Where init starts: the first network marked last_ok, else the first one.
Preferred(n, c) ==
    LET ok == {i \in 0 .. c - 1 : n[i].lastOk}
    IN  IF ok = {} THEN 0 ELSE Min(ok)

\* The mark of the earlier network is not taken away.
MarkOnly_Mutant(n, i) ==
    [j \in Slots |-> IF j = i /\ j < count' THEN [n[j] EXCEPT !.lastOk = TRUE] ELSE n[j]]

MarkOnly(n, i) ==
    [j \in Slots |-> IF j < count' THEN [n[j] EXCEPT !.lastOk = (j = i)] ELSE n[j]]

-----------------------------------------------------------------------------
(* The driver *)

\* esp_wifi_connect with q as the queue of events: starts an attempt; refused
\* while one is under way.  On a link that is up it is refused, or the driver
\* drops the link and starts.
DrvConnect(s, q) ==
    /\ to' = s
    /\ \/ drv = "idle" /\ drv' = "trying" /\ events' = q
       \/ drv # "idle" /\ UNCHANGED drv /\ events' = q
       \/ drv \in {"mute", "up"} /\ drv' = "trying" /\ events' = Append(q, "other")

\* esp_wifi_disconnect: without a link or an attempt it posts nothing.
DrvDisconnect ==
    /\ drv' = "idle" /\ UNCHANGED to
    /\ events' = IF drv = "idle" THEN events ELSE Append(events, "other")

-----------------------------------------------------------------------------
(* The search.  The operators take q, what is left of the queue of events. *)

Post(c) == cmd' = c /\ notified' = TRUE

\* A submission was accepted and the control task has not carried it out.
Submitting == cmd = 2 \/ took = 2

\* wifi_station_connect(i) as it ends when all goes well.  A running timer is
\* left as it is: esp_timer_start_once refuses it.
Connecting(i, q) ==
    /\ cur' = i /\ attempts' = 0 /\ state' = "CONNECTING" /\ armed' = TRUE
    /\ DrvConnect(nets[i].ssid, q)
    /\ strikes' = 0 /\ spent' = 0 /\ timedOut' = FALSE /\ broken' = {}

\* ... and when the driver takes no configuration: it is trying, or fails.
Refused(q) ==
    /\ \/ drv = "trying" /\ UNCHANGED broken
       \/ "config" \in Faults /\ broken' = broken \cup {"config"}
    /\ events' = q
    /\ UNCHANGED <<state, armed, drv, to, countVars>>

StationConnect(i, q) ==
    Connecting(i, q) \/ (Refused(q) /\ UNCHANGED <<cur, attempts>>)

\* The portal one network too early.
TryNext_Mutant(q) ==
    \/ /\ cur + 2 >= count
       /\ cur' = cur + 1 /\ attempts' = 0 /\ Post(1) /\ events' = q
       /\ UNCHANGED <<state, armed, arg, drv, to, countVars, broken>>
    \/ /\ cur + 2 < count
       /\ Connecting(cur + 1, q)
       /\ UNCHANGED mailVars

\* try_next_network: the next network, or the portal when there is none.
TryNext(q) ==
    \/ /\ cur + 1 >= count
       /\ cur' = cur + 1 /\ attempts' = 0 /\ Post(1) /\ events' = q
       /\ UNCHANGED <<state, armed, arg, drv, to, countVars, broken>>
    \/ /\ cur + 1 < count
       /\ \/ Connecting(cur + 1, q)
          \/ Refused(q) /\ cur' = cur + 1 /\ attempts' = 0
       /\ UNCHANGED mailVars

(***************************************************************************)
(* save_wifi_list, for the event loop and for the HTTP server.  Its first  *)
(* step, the new file beside the old one, is part of the change of the     *)
(* list.  What write returns is not looked at: the cut text of a full      *)
(* flash parses no more than an empty one.                                 *)
(***************************************************************************)
Stages == {"remove", "rename", "direct", "skip"}

\* The new file is written; "skip": it could not be opened, twice.  A failure here
\* is an upset of its caller's.
SaveWrite(text, next) ==
    \/ next = "remove" /\ tmp' = text /\ unsaved' = FALSE
    \/ "write" \in Faults /\ next = "remove" /\ tmp' = <<>> /\ unsaved' = TRUE
    \/ "write" \in Faults /\ next = "skip" /\ UNCHANGED tmp /\ unsaved' = TRUE

SaveRemove(at, next) ==
    /\ at = "remove" /\ next = "rename"
    /\ file' = NoFile /\ UNCHANGED <<tmp, unsaved, upsets>>

SaveRename(at, next) ==
    /\ at = "rename" /\ tmp # NoFile /\ file = NoFile
    /\ next = "done" /\ file' = tmp /\ tmp' = NoFile
    /\ UNCHANGED <<unsaved, upsets>>

\* The new file does not take the place of the old one: the target is opened, and
\* emptied, to be written in place; or that fails too and the new file stays.
SaveFallback(at, next) ==
    /\ at = "rename"
    /\ \/ "rename" \in Faults /\ Upset
       \/ (tmp = NoFile \/ file # NoFile) /\ UNCHANGED upsets
    /\ \/ next = "direct" /\ file' = <<>>
       \/ "rename" \in Faults /\ next = "done" /\ UNCHANGED file
    /\ UNCHANGED <<tmp, unsaved>>

\* The text is that of the first step: only saves that overlap change the list.
SaveDirect(at, next) ==
    /\ at = "direct" /\ next = "done" /\ UNCHANGED tmp
    /\ \/ file' = Listed(nets, count) /\ unsaved' = FALSE /\ UNCHANGED upsets
       \/ "write" \in Faults /\ Upset /\ UNCHANGED file /\ unsaved' = TRUE

SaveSkip(at, next) ==
    at = "skip" /\ next = "done" /\ UNCHANGED <<flashVars, unsaved, upsets>>

SaveStep(at, next) ==
    \/ SaveRemove(at, next) \/ SaveRename(at, next) \/ SaveFallback(at, next)
    \/ SaveDirect(at, next) \/ SaveSkip(at, next)

-----------------------------------------------------------------------------
(* The main task at boot, power cuts *)

Volatile ==
    /\ state' = "DISCONNECTED" /\ cur' = -1 /\ attempts' = 0 /\ armed' = FALSE
    /\ cmd' = 0 /\ arg' = 0 /\ notified' = FALSE
    /\ ctrl' = "boot" /\ took' = 0 /\ evt' = "idle" /\ httpd' = "off" /\ pick' = -1
    /\ ws' = "idle" /\ wsFails' = 0 /\ cooling' = TRUE
    /\ drv' = "idle" /\ to' = NoSsid /\ events' = <<>>
    /\ strikes' = 0 /\ spent' = 0 /\ timedOut' = FALSE /\ broken' = {}
    /\ doubled' = FALSE /\ stale' = FALSE

\* The list in memory as load_wifi_list fills it.
LoadList(f) ==
    [i \in Slots |-> IF i < Len(f) THEN f[i + 1] ELSE Unused]

Restart ==
    /\ Volatile
    /\ \/ /\ nets' = LoadList(Stored) /\ count' = Len(Stored) /\ unsaved' = FALSE
          /\ IF file = NoFile THEN file' = tmp /\ tmp' = NoFile ELSE UNCHANGED flashVars
       \/ /\ "rename" \in Faults /\ file = NoFile /\ tmp # NoFile
          /\ nets' = LoadList(<<>>) /\ count' = 0 /\ unsaved' = TRUE
          /\ UNCHANGED flashVars

PowerCut == Upset /\ Restart

\* wifi_softap_start; Faults: one of its calls fails and it returns half-way.
Portal ==
    /\ httpd \in {"off", "up"}
    /\ \/ /\ httpd' = "up" /\ state' = "SOFTAP"
          /\ strikes' = 0 /\ spent' = 0 /\ timedOut' = FALSE /\ stale' = FALSE
          /\ UNCHANGED broken
       \/ /\ "portal" \in Faults
          /\ httpd' = "off" /\ broken' = broken \cup {"portal"}
          /\ UNCHANGED <<state, countVars, stale>>

\* wifi_manager_init
Boot ==
    /\ ctrl = "boot" /\ ctrl' = "wait"
    /\ \/ /\ count > 0 /\ StationConnect(Preferred(nets, count), events)
          /\ UNCHANGED <<httpd, stale>>
       \/ /\ count = 0 /\ Portal
          /\ UNCHANGED <<cur, attempts, armed, driverVars>>
    /\ UNCHANGED <<listVars, mailVars, took, evt, pick, healVars, flashVars, unsaved,
                   upsets, doubled>>

-----------------------------------------------------------------------------
(* The event loop: wifi_event_handler *)

Event(e) == evt = "idle" /\ events # <<>> /\ Head(events) = e

EvtRest == <<listVars, ctrl, took, httpd, pick, healVars, flashVars, unsaved, upsets,
             doubled, stale>>

\* The reconnection without its timer.
LinkLost_Mutant ==
    /\ \E e \in Reasons : Event(e)
    /\ state = "CONNECTED"
    /\ state' = "CONNECTING" /\ broken' = {}
    /\ DrvConnect(to, Tail(events))
    /\ UNCHANGED <<cur, attempts, armed, mailVars, evt, countVars, EvtRest>>

\* A link that was up is lost: the same network again.
LinkLost ==
    /\ \E e \in Reasons : Event(e)
    /\ state = "CONNECTED"
    /\ state' = "CONNECTING" /\ armed' = TRUE /\ broken' = {}
    /\ DrvConnect(to, Tail(events))
    /\ UNCHANGED <<cur, attempts, mailVars, evt, countVars, EvtRest>>

\* An attempt failed, not for its credentials, and may be repeated.
Retry ==
    /\ \E e \in MayPass : Event(e)
    /\ state = "CONNECTING" /\ attempts + 1 < RetryMax
    /\ attempts' = attempts + 1 /\ Post(3)
    /\ strikes' = Min({strikes + 1, RetryMax})
    /\ events' = Tail(events)
    /\ UNCHANGED <<state, cur, armed, arg, drv, to, evt, spent, timedOut, broken,
                   EvtRest>>

\* One refusal too few.
GiveUp_Mutant ==
    /\ state = "CONNECTING"
    /\ \E e \in Reasons : Event(e) /\ (e = "cred" \/ attempts + 2 >= RetryMax)
    /\ TryNext(Tail(events))
    /\ UNCHANGED <<evt, EvtRest>>

GiveUp ==
    /\ state = "CONNECTING"
    /\ \E e \in Reasons : Event(e) /\ (e = "cred" \/ attempts + 1 >= RetryMax)
    /\ TryNext(Tail(events))
    /\ UNCHANGED <<evt, EvtRest>>

\* In the portal or before the boot a refusal means nothing.
IgnoreEvent ==
    /\ \E e \in Reasons : Event(e)
    /\ state \in {"SOFTAP", "DISCONNECTED"}
    /\ events' = Tail(events)
    /\ UNCHANGED <<searchVars, mailVars, drv, to, evt, countVars, broken, EvtRest>>

\* An address: stop the timer, mark the network, save, and only then CONNECTED.
GotIp ==
    /\ Event("ip")
    /\ armed' = FALSE /\ events' = Tail(events)
    /\ UNCHANGED count /\ nets' = MarkOnly(nets, cur)
    /\ evt' \in Stages /\ SaveWrite(Listed(nets', count), evt')
    /\ IF unsaved' THEN Upset ELSE UNCHANGED upsets
    /\ spent' = attempts /\ strikes' = 0 /\ timedOut' = FALSE
    /\ UNCHANGED <<state, cur, attempts, mailVars, ctrl, took, httpd, pick, healVars,
                   drv, to, file, broken, doubled, stale>>

GotIpSave ==
    /\ evt' \in Stages /\ SaveStep(evt, evt')
    /\ UNCHANGED <<searchVars, listVars, mailVars, ctrl, took, httpd, pick, healVars,
                   driverVars, countVars, broken, doubled, stale>>

GotIpDone ==
    /\ evt # "idle" /\ evt' = "idle" /\ SaveStep(evt, "done")
    /\ state' = "CONNECTED" /\ wsFails' = 0
    /\ UNCHANGED <<cur, attempts, armed, listVars, mailVars, ctrl, took, httpd, pick,
                   ws, cooling, driverVars, countVars, broken, doubled, stale>>

EventLoop ==
    LinkLost \/ Retry \/ GiveUp \/ IgnoreEvent \/ GotIp \/ GotIpSave \/ GotIpDone

-----------------------------------------------------------------------------
(* The timer: connect_timeout_cb *)

\* A time-out that finds the driver idle connects again by itself.
Timeout_Mutant ==
    /\ armed /\ armed' = FALSE
    /\ \/ /\ state = "CONNECTING"
          /\ attempts' = RetryMax /\ timedOut' = TRUE /\ UNCHANGED broken
          /\ IF drv = "idle" THEN DrvConnect(to, events) ELSE DrvDisconnect
       \/ state # "CONNECTING" /\ UNCHANGED <<attempts, timedOut, driverVars, broken>>
    /\ UNCHANGED <<state, cur, listVars, mailVars, ctrl, took, evt, httpd, pick,
                   healVars, flashVars, unsaved, upsets, strikes, spent, doubled, stale>>

\* With the driver idle and no refusal on its way the time-out has no effect
\* but on the counter, and no other one will come for this network.
Timeout ==
    /\ armed /\ armed' = FALSE
    /\ \/ /\ state = "CONNECTING"
          /\ attempts' = RetryMax /\ timedOut' = TRUE
          /\ DrvDisconnect
          /\ broken' = IF drv = "idle" /\ events = <<>> /\ 1 \notin {cmd, took}
                       THEN broken \cup {"deadline"} ELSE broken
       \/ state # "CONNECTING" /\ UNCHANGED <<attempts, timedOut, driverVars, broken>>
    /\ UNCHANGED <<state, cur, listVars, mailVars, ctrl, took, evt, httpd, pick,
                   healVars, flashVars, unsaved, upsets, strikes, spent, doubled, stale>>

-----------------------------------------------------------------------------
(* The control task: wifi_ctrl_task *)

CtrlRest == <<listVars, evt, pick, healVars, flashVars, unsaved, upsets, doubled>>

ReadCommand ==
    /\ ctrl = "wait" /\ notified
    /\ notified' = FALSE /\ took' = cmd /\ ctrl' = "clear"
    /\ UNCHANGED <<searchVars, cmd, arg, httpd, driverVars, countVars, broken, stale,
                   CtrlRest>>

\* s_ctrl_cmd = 0: what was posted since it was read is lost.
ClearCommand ==
    /\ ctrl = "clear" /\ cmd' = 0
    /\ broken' = IF cmd \in {1, 3} /\ cmd # took THEN broken \cup {"overwrite"}
                 ELSE broken
    /\ ctrl' = CASE took = 0 -> "wait" [] took = 1 -> "portal"
                 [] took = 2 -> "close" [] took = 3 -> "backoff" [] took = 4 -> "dns"
    /\ UNCHANGED <<searchVars, arg, notified, took, httpd, driverVars, countVars, stale,
                   CtrlRest>>

Done == ctrl' = "wait" /\ took' = 0

OpenPortal ==
    /\ ctrl = "portal" /\ Done /\ Portal
    /\ UNCHANGED <<cur, attempts, armed, mailVars, driverVars, CtrlRest>>

\* httpd_stop waits for a handler that runs.
CloseAndConnect ==
    /\ ctrl = "close" /\ Done
    /\ httpd \in {"off", "up"} /\ httpd' = "off"
    /\ StationConnect(arg, events)
    /\ UNCHANGED <<mailVars, stale, CtrlRest>>

\* After the two seconds of back-off.
Backoff ==
    /\ ctrl = "backoff" /\ state = "CONNECTING" /\ cur >= 0
    /\ ctrl' = "scan"
    /\ UNCHANGED <<searchVars, mailVars, took, httpd, driverVars, countVars, broken,
                   stale, CtrlRest>>

\* The break of the source leaves the loop: a task function that returns ends
\* in abort(), and the device starts again.
BackoffBreak ==
    /\ ctrl = "backoff" /\ ~(state = "CONNECTING" /\ cur >= 0)
    /\ Restart /\ UNCHANGED upsets

ScanAndConnect ==
    /\ ctrl = "scan" /\ Done /\ DrvConnect(to, events)
    /\ UNCHANGED <<searchVars, mailVars, httpd, countVars, broken, stale, CtrlRest>>

\* The self-check of a link: names resolve, or the link is torn down.
DnsCheck ==
    /\ ctrl = "dns" /\ Done
    /\ UNCHANGED driverVars \/ DrvDisconnect
    /\ UNCHANGED <<searchVars, mailVars, httpd, countVars, broken, stale, CtrlRest>>

CtrlTask ==
    \/ ReadCommand \/ ClearCommand \/ OpenPortal \/ CloseAndConnect \/ Backoff
    \/ BackoffBreak \/ ScanAndConnect \/ DnsCheck

-----------------------------------------------------------------------------
(* The HTTP server of the portal *)

HttpRest == <<searchVars, ctrl, took, evt, healVars, driverVars, countVars,
              broken>>

\* wifi_connect_handler: a known name, a free slot, or the last slot.
Submit(s) ==
    LET i == IF FindNetwork(s) # {} THEN Min(FindNetwork(s))
             ELSE IF count < MaxNetworks THEN count ELSE MaxNetworks - 1
    IN  /\ httpd = "up" /\ pick' = i
        /\ Upset
        /\ count' = IF i = count THEN count + 1 ELSE count
        /\ nets' = MarkOnly([nets EXCEPT ![i].ssid = s], i)
        /\ httpd' \in Stages /\ SaveWrite(Listed(nets', count'), httpd')
        /\ doubled' = (doubled \/ Submitting)
        /\ UNCHANGED <<file, mailVars, stale, HttpRest>>

\* wifi_delete_handler: the tail moves up; the slot behind it keeps its content.
Delete(s) ==
    /\ httpd = "up" /\ FindNetwork(s) # {}
    /\ Upset
    /\ LET i == Min(FindNetwork(s))
       IN  nets' = [j \in Slots |-> IF i <= j /\ j < count - 1 THEN nets[j + 1]
                                    ELSE nets[j]]
    /\ count' = count - 1
    /\ httpd' \in Stages /\ SaveWrite(Listed(nets', count'), httpd')
    /\ stale' = (stale \/ Submitting)
    /\ UNCHANGED <<file, mailVars, pick, doubled, HttpRest>>

HttpSave ==
    /\ httpd' \in Stages /\ SaveStep(httpd, httpd')
    /\ UNCHANGED <<listVars, mailVars, pick, doubled, stale, HttpRest>>

\* The handler of a submission asks the control task for the network; that of a
\* deletion just answers.
HttpDone ==
    /\ httpd \in Stages /\ httpd' = "up" /\ SaveStep(httpd, "done") /\ pick' = -1
    /\ \/ pick >= 0 /\ Post(2) /\ arg' = pick
       \/ pick < 0 /\ UNCHANGED mailVars
    /\ UNCHANGED <<listVars, doubled, stale, HttpRest>>

HttpTask == HttpSave \/ HttpDone

-----------------------------------------------------------------------------
(* The websocket task: wifi_manager_note_ws_fail *)

WsRest == <<searchVars, listVars, arg, ctrl, took, evt, httpd, pick, driverVars,
            flashVars, unsaved, upsets, countVars, doubled, stale>>

\* The count is not reset when it reaches the limit.
NoteWsFail_Mutant ==
    /\ ws = "idle" /\ state = "CONNECTED"
    /\ wsFails' = wsFails + 1
    /\ ws' = IF wsFails + 1 >= WsFailLimit /\ ~cooling THEN "post" ELSE "idle"
    /\ cooling' = (cooling \/ ws' = "post")
    /\ UNCHANGED <<cmd, notified, broken, WsRest>>

NoteWsFail ==
    /\ ws = "idle" /\ state = "CONNECTED"
    /\ \/ /\ wsFails + 1 < WsFailLimit /\ wsFails' = wsFails + 1
          /\ UNCHANGED <<ws, cooling>>
       \/ /\ wsFails + 1 >= WsFailLimit /\ wsFails' = 0
          /\ ws' = IF cooling THEN "idle" ELSE "post"
          /\ cooling' = TRUE
    /\ UNCHANGED <<cmd, notified, broken, WsRest>>

PostSelfCheck ==
    /\ ws = "post" /\ ws' = "idle" /\ Post(4)
    /\ broken' = IF cmd \in {1, 3} THEN broken \cup {"overwrite"} ELSE broken
    /\ UNCHANGED <<wsFails, cooling, WsRest>>

\* Only a link that is up can be checked: the end of the cool-down matters
\* when there is one.
CoolDown ==
    /\ state = "CONNECTED" /\ cooling /\ cooling' = FALSE
    /\ UNCHANGED <<cmd, notified, broken, ws, wsFails, WsRest>>

-----------------------------------------------------------------------------
(* The driver and its access points *)

DriverRest == <<searchVars, listVars, mailVars, ctrl, took, evt, httpd, pick, healVars,
                to, flashVars, unsaved, upsets, countVars, broken, doubled, stale>>

\* An attempt is refused.
Refuse(reason) ==
    /\ drv = "trying" /\ drv' = "idle" /\ events' = Append(events, reason)
    /\ UNCHANGED DriverRest

Associate ==
    /\ drv = "trying" /\ drv' = "mute" /\ UNCHANGED <<events, DriverRest>>

\* DHCP may never answer.
Address ==
    /\ drv = "mute" /\ drv' = "up" /\ events' = Append(events, "ip")
    /\ UNCHANGED DriverRest

Drop ==
    /\ drv \in {"mute", "up"} /\ drv' = "idle" /\ events' = Append(events, "other")
    /\ UNCHANGED DriverRest

-----------------------------------------------------------------------------
\* Files that the code writes: no name twice, at most one network marked.
Files == {NoFile} \cup
    {f \in UNION {[1 .. n -> Entry] : n \in 0 .. MaxNetworks} :
        \A i, j \in DOMAIN f :
            i # j => f[i].ssid # f[j].ssid /\ ~(f[i].lastOk /\ f[j].lastOk)}

Init ==
    /\ state = "DISCONNECTED" /\ cur = -1 /\ attempts = 0 /\ armed = FALSE
    /\ cmd = 0 /\ arg = 0 /\ notified = FALSE
    /\ ctrl = "boot" /\ took = 0 /\ evt = "idle" /\ httpd = "off" /\ pick = -1
    /\ ws = "idle" /\ wsFails = 0 /\ cooling = TRUE
    /\ drv = "idle" /\ to = NoSsid /\ events = <<>>
    /\ file \in Files /\ tmp = NoFile /\ upsets = 0
    /\ nets = LoadList(Stored) /\ count = Len(Stored)
    /\ strikes = 0 /\ spent = 0 /\ timedOut = FALSE /\ broken = {}
    /\ unsaved = FALSE /\ doubled = FALSE /\ stale = FALSE

Next ==
    \/ Boot \/ PowerCut
    \/ EventLoop \/ Timeout \/ CtrlTask
    \/ \E s \in Ssids : Submit(s) \/ Delete(s)
    \/ HttpTask \/ NoteWsFail \/ PostSelfCheck \/ CoolDown
    \/ \E r \in Refusals : Refuse(r)
    \/ Associate \/ Address \/ Drop

Spec == Init /\ [][Next]_vars

\* Each task runs, a running timer expires, and the driver answers an attempt.
Fairness ==
    /\ WF_vars(Boot) /\ WF_vars(EventLoop) /\ WF_vars(Timeout) /\ WF_vars(CtrlTask)
    /\ WF_vars(HttpTask)
    /\ WF_vars(Associate \/ \E r \in Refusals : Refuse(r))

FairSpec == Spec /\ Fairness

-----------------------------------------------------------------------------
(* Properties *)

Types ==
    /\ state \in States /\ nets \in [Slots -> [ssid : Ssids \cup {NoSsid}, lastOk : BOOLEAN]]
    /\ count \in 0 .. MaxNetworks /\ cur \in Nat \cup {-1}
    /\ attempts \in 0 .. RetryMax /\ armed \in BOOLEAN
    /\ cmd \in 0 .. 4 /\ arg \in Slots /\ notified \in BOOLEAN
    /\ ctrl \in {"boot", "wait", "clear", "portal", "close", "backoff", "scan", "dns"}
    /\ took \in 0 .. 4 /\ evt \in Stages \cup {"idle"}
    /\ httpd \in Stages \cup {"off", "up"}
    /\ pick \in Slots \cup {-1} /\ ws \in {"idle", "post"} /\ wsFails \in 0 .. WsFailLimit - 1
    /\ cooling \in BOOLEAN /\ drv \in {"idle", "trying", "mute", "up"}
    /\ to \in Ssids \cup {NoSsid}
    /\ events \in Seq(Reasons \cup {"ip"})
    /\ file \in Files /\ tmp \in Files
    /\ upsets \in 0 .. MaxUpsets
    /\ strikes \in 0 .. RetryMax /\ spent \in 0 .. RetryMax /\ timedOut \in BOOLEAN
    /\ broken \subseteq {"config", "portal", "overwrite", "deadline"}
    /\ unsaved \in BOOLEAN /\ doubled \in BOOLEAN /\ stale \in BOOLEAN

\* Every variable has its type.  Unless the user has submitted twice in a row, at
\* most two events wait for the event loop.
TypeOK == Types /\ (~doubled => cur <= MaxNetworks /\ Len(events) <= 2)

\* A power cut at any point of a save leaves a list that the boot can load: the
\* one in memory, or, while its save has not removed the old file, the old one.
\* The event loop and the HTTP server never share the temporary file.  The known
\* exceptions are a flash that does not take what is written, which the save does
\* not notice before it removes the old file (wifi_manager.c:194-196); the time in
\* which the fallback of a failing rename writes the file in place (199-201); and
\* a user who has submitted twice in a row: the search that the first submission
\* started may then come up behind the portal.
ListSurvives ==
    LET saving == {evt, httpd} \cap Stages
    IN  ~doubled =>
            /\ evt = "idle" \/ httpd = "off"
            /\ ~unsaved =>
                  /\ saving = {} => Stored = Listed(nets, count)
                  /\ saving \cap {"remove", "rename"} # {} => tmp = Listed(nets, count)

\* While the device is connected, the network marked for the next boot is the one
\* it is connected to: events, time-outs and reconnections never mark another.
\* The known exceptions are a save that failed, and a deletion or a second
\* submission that comes before the control task has taken up the first (the slot
\* the task then reads is another network's).
MarkedIsLinked ==
    state = "CONNECTED" /\ ~doubled /\ ~stale /\ ~unsaved =>
        \E i \in DOMAIN Stored :
            /\ Stored[i] = [ssid |-> to, lastOk |-> TRUE]
            /\ \A j \in DOMAIN Stored : Stored[j].lastOk => j = i

\* While the control task waits to repeat an attempt, nobody else brings the
\* search to an end; its break would end the task and restart the device.  Only
\* a user who submits twice within half a second can bring that about.
BackoffIsUndisturbed ==
    ctrl = "backoff" /\ ~doubled => state = "CONNECTING" /\ cur >= 0

\* A network is given up for bad credentials, after a time-out, or when it was
\* refused RetryMax times since it was offered or last up; one whose access point
\* is not found has its retries like any other (wifi_manager.c:617-619).  The known
\* exception: attempts that it took to come up are not forgotten when it is up.
RetriesInFull ==
    [][cur' = cur + 1 /\ ctrl' = ctrl /\ ~doubled =>
        \/ Head(events) = "cred"
        \/ timedOut
        \/ strikes + 1 >= RetryMax
        \/ strikes + spent + 1 >= RetryMax /\ spent > 0]_vars

\* What the head of the source says instead of an access point that is not found:
\* the next network is offered at once (wifi_manager.c:6).
AbsentIsSkipped ==
    [][Event("absent") /\ state = "CONNECTING" /\ events' = Tail(events) =>
        cur' = cur + 1]_vars

\* A device that is offline and has no portal open comes online or opens it,
\* whatever the networks do.  It is stuck only if the driver or the portal failed,
\* if the command it waits for was overwritten in the mailbox, or if its only
\* time-out came while the driver was idle.
SearchEnds ==
    state # "CONNECTED" /\ httpd = "off" ~>
        state = "CONNECTED" \/ httpd # "off" \/ broken # {} \/ doubled

\* The manager implements NetworkSearch: in each step of any of its tasks the
\* search stays, moves on by one, or starts where the user asked for it, and the
\* portal comes only behind the last network.
Behind(i) == IF i > count THEN count ELSE i

PhaseName(s) == CASE s = "DISCONNECTED" -> "off" [] s = "CONNECTING" -> "search"
                  [] s = "CONNECTED" -> "online" [] s = "SOFTAP" -> "portal"

Phase == IF doubled THEN "hasty" ELSE PhaseName(state)
Position == IF doubled THEN -1 ELSE Behind(cur)
Size == IF doubled THEN 0 ELSE count
Asked == IF Submitting /\ ~doubled THEN Behind(arg) ELSE -1

Search == INSTANCE NetworkSearch
              WITH phase <- Phase, at <- Position, size <- Size, asked <- Asked

SearchInOrder == Search!Spec
=============================================================================
