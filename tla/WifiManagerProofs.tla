------------------------- MODULE WifiManagerProofs -------------------------
(***************************************************************************)
(* Proofs about WifiManager, for all sets of networks, all limits and any  *)
(* number of submissions, deletions and power cuts.                        *)
(***************************************************************************)
EXTENDS WifiManager, TLAPS, SequenceTheorems

\* Tuples of variables, expanded in every step proof.
USE DEF listVars, flashVars, mailVars, driverVars, healVars, searchVars, countVars,
        vars, EvtRest, CtrlRest, HttpRest, WsRest, DriverRest

-----------------------------------------------------------------------------
(***************************************************************************)
(* The inductive invariant.  Only Basic holds in all states, the rest until *)
(* the user submits twice in a row.                                        *)
(***************************************************************************)

\* No network is listed twice, at most one is marked.
GoodList(n, c) ==
    \A i \in 0 .. c - 1 :
        /\ n[i] \in Entry
        /\ \A j \in 0 .. c - 1 :
              i # j => n[i].ssid # n[j].ssid /\ ~(n[i].lastOk /\ n[j].lastOk)

\* The command that the control task carries out where it is.
Carrying ==
    /\ ctrl \in {"boot", "wait"} => took = 0
    /\ ctrl = "portal" => took = 1
    /\ ctrl = "close" => took = 2
    /\ ctrl \in {"backoff", "scan"} => took = 3
    /\ ctrl = "dns" => took = 4

\* How far the driver, the queue of events and the event loop can be apart: the
\* queue holds the end of the last attempt, at most after its address.
Linked ==
    \/ /\ drv \in {"trying", "mute"} /\ state = "CONNECTING"
       /\ evt = "idle" /\ events = <<>>
    \/ /\ drv = "up"
       /\ \/ state = "CONNECTING" /\ evt = "idle" /\ events = <<"ip">>
          \/ state = "CONNECTING" /\ evt # "idle" /\ events = <<>>
          \/ state = "CONNECTED" /\ evt = "idle" /\ events = <<>>
    \/ /\ drv = "idle"
       /\ \/ /\ state = "CONNECTING" /\ evt = "idle"
             /\ events \in {<<>>, <<"cred">>, <<"absent">>, <<"other">>, <<"ip", "other">>}
          \/ state = "CONNECTING" /\ evt # "idle" /\ events = <<"other">>
          \/ state = "CONNECTED" /\ evt = "idle" /\ events = <<"other">>
          \/ state \in {"SOFTAP", "DISCONNECTED"} /\ evt = "idle" /\ events = <<>>

\* Commands to open the portal or to repeat an attempt are under way only while
\* nothing else moves the search, a submission only while the portal is open.
Posted ==
    /\ cmd \in {1, 3} \/ took \in {1, 3} =>
          state = "CONNECTING" /\ drv = "idle" /\ evt = "idle" /\ events = <<>>
    /\ 1 \in {cmd, took} => cur >= count
    /\ took \in {1, 2, 3} => cmd \in {0, 4} \/ (ctrl = "clear" /\ cmd = took)
    /\ Submitting => state = "SOFTAP" /\ (httpd = "up" \/ (httpd \in Stages /\ pick = -1))
    /\ httpd # "off" => state = "SOFTAP"
    /\ httpd \in {"off", "up"} => pick = -1
    /\ ctrl = "boot" => state = "DISCONNECTED"
    /\ state \in {"CONNECTING", "CONNECTED"} => cur >= 0
    /\ cur <= MaxNetworks

\* An attempt is under way or will be.
Attempt == drv # "idle" \/ events # <<>> \/ evt # "idle" \/ 3 \in {cmd, took}

\* The attempt is for the network on offer, which is marked before the device
\* counts as connected.
Aimed ==
    /\ Attempt => cur \in Slots
    /\ ~stale =>
          /\ Attempt => cur < count /\ to = nets[cur].ssid
          /\ evt # "idle" \/ state = "CONNECTED" => nets[cur].lastOk
          /\ Submitting => arg < count
          /\ httpd \in Stages => pick < count

\* The counter of the attempts is backed by refusals.
Counted ==
    state \in {"CONNECTING", "CONNECTED"} /\ ~timedOut => attempts <= strikes + spent

\* What the flash holds when a save of list l has come to stage at, with s as what
\* a boot would load; "done": no save is under way.
Held(at, f, t, s, failed, l) ==
    /\ at = "rename" => f = NoFile
    /\ at = "skip" => failed
    /\ ~failed =>
          /\ at = "done" => s = l
          /\ at \in {"remove", "rename"} => t = l

\* The list is on the flash, or in the temporary file while it is saved.
Kept ==
    /\ evt \in Stages => Held(evt, file, tmp, Stored, unsaved, Listed(nets, count))
    /\ httpd \in Stages => Held(httpd, file, tmp, Stored, unsaved, Listed(nets, count))
    /\ evt = "idle" /\ httpd \in {"off", "up"} =>
          Held("done", file, tmp, Stored, unsaved, Listed(nets, count))

Calm == Linked /\ Posted /\ Aimed /\ Counted /\ Kept

Basic == Types /\ GoodList(nets, count) /\ Carrying

IInv == Basic /\ (~doubled => Calm)

-----------------------------------------------------------------------------
(***************************************************************************)
(* Queues of events, smallest elements.                                    *)
(***************************************************************************)
Kinds == Reasons \cup {"ip"}
SlotEntry == [ssid : Ssids \cup {NoSsid}, lastOk : BOOLEAN]

\* The queues that occur before a second submission, and what the event loop
\* and the driver make of them.
LEMMA Queues ==
    /\ \A e \in Kinds : <<e>> # <<>> /\ Head(<<e>>) = e /\ Tail(<<e>>) = <<>>
    /\ \A e \in Kinds : Append(<<>>, e) = <<e>> /\ Len(<<e>>) = 1
    /\ Head(<<"ip", "other">>) = "ip" /\ Tail(<<"ip", "other">>) = <<"other">>
    /\ Append(<<"ip">>, "other") = <<"ip", "other">> /\ Len(<<"ip", "other">>) = 2
    /\ <<"ip", "other">> # <<>> /\ Len(<<>>) = 0
<1>1. ASSUME NEW e \in Kinds
      PROVE  /\ <<e>> \in Seq(Kinds) /\ <<e>> # <<>> /\ Head(<<e>>) = e
             /\ Len(<<e>>) = 1 /\ Append(<<>>, e) = <<e>>
  OBVIOUS
<1>2. ASSUME NEW e \in Kinds
      PROVE  Tail(<<e>>) = <<>>
  BY <1>1, HeadTailProperties, EmptySeq
<1>3. /\ Head(<<"ip", "other">>) = "ip" /\ <<"ip", "other">> # <<>>
      /\ Append(<<"ip">>, "other") = <<"ip", "other">> /\ Len(<<"ip", "other">>) = 2
      /\ Len(<<>>) = 0
  <2>1. Head(<<"ip", "other">>) = "ip"
    OBVIOUS
  <2>2. <<"ip", "other">> # <<>>
    OBVIOUS
  <2>3. Append(<<"ip">>, "other") = <<"ip", "other">>
    <3> DEFINE q == <<"ip">>  u == <<"ip", "other">>
    <3>1. q \in Seq(Kinds) /\ "other" \in Kinds
      BY DEF Kinds, Reasons
    <3>2. Len(q) = 1 /\ q[1] = "ip"
      OBVIOUS
    <3>3. u \in Seq(Kinds) /\ Len(u) = 2 /\ u[1] = "ip" /\ u[2] = "other"
      BY DEF Kinds, Reasons
    <3> HIDE DEF q, u
    <3>4. /\ Append(q, "other") \in Seq(Kinds) /\ Len(Append(q, "other")) = Len(q) + 1
          /\ \A i \in 1 .. Len(q) : Append(q, "other")[i] = q[i]
          /\ Append(q, "other")[Len(q) + 1] = "other"
      BY <3>1, AppendProperties
    <3>5. Append(q, "other") = u
      BY <3>2, <3>3, <3>4, SeqEqual
    <3> QED
      BY <3>5 DEF q, u
  <2>4. Len(<<"ip", "other">>) = 2 /\ Len(<<>>) = 0
    OBVIOUS
  <2> QED
    BY <2>1, <2>2, <2>3, <2>4
<1>4. Tail(<<"ip", "other">>) = <<"other">>
  <2> DEFINE q == <<"ip", "other">>  t == Tail(q)  u == <<"other">>
  <2>1. /\ q \in Seq(Kinds) /\ q # <<>> /\ Len(q) = 2 /\ q[2] = "other"
        /\ u \in Seq(Kinds) /\ Len(u) = 1 /\ u[1] = "other"
    BY DEF Kinds, Reasons
  <2> HIDE DEF q, u
  <2>2. t \in Seq(Kinds) /\ Len(t) = 1 /\ t[1] = q[2]
    BY <2>1, HeadTailProperties
  <2> HIDE DEF t
  <2>3. \A i \in 1 .. Len(t) : t[i] = u[i]
    BY <2>1, <2>2
  <2>4. t = u
    BY <2>1, <2>2, <2>3, SeqEqual
  <2> QED
    BY <2>4 DEF q, t, u
<1> QED
  BY <1>1, <1>2, <1>3, <1>4 DEF Kinds, Reasons

\* Queues of any length.
LEMMA QueueTypes ==
    ASSUME NEW q \in Seq(Kinds)
    PROVE  /\ \A e \in Kinds : Append(q, e) \in Seq(Kinds)
           /\ q # <<>> => Tail(q) \in Seq(Kinds)
  BY AppendProperties, HeadTailProperties

LEMMA MinOfOne ==
    ASSUME NEW x \in Int
    PROVE  Min({x}) = x
  BY DEF Min

LEMMA MinOfTwo ==
    ASSUME NEW x \in Int, NEW y \in Int
    PROVE  Min({x, y}) = IF x <= y THEN x ELSE y
  BY DEF Min

(***************************************************************************)
(* The list in memory and the list in a file.                              *)
(***************************************************************************)

\* What is written is a file, and not the missing one.
LEMMA ListedIsFile ==
    ASSUME NEW c \in 0 .. MaxNetworks, NEW n, GoodList(n, c)
    PROVE  /\ Listed(n, c) \in Files /\ Listed(n, c) # NoFile
           /\ DOMAIN Listed(n, c) = 1 .. c
           /\ \A i \in 1 .. c : Listed(n, c)[i] = n[i - 1]
<1> DEFINE f == Listed(n, c)
<1>1. MaxNetworks \in Nat /\ c \in Nat
  BY LimitsAssumption
<1>2. /\ DOMAIN f = 1 .. c /\ f = [i \in 1 .. c |-> n[i - 1]]
      /\ \A i \in 1 .. c : f[i] = n[i - 1] /\ i - 1 \in 0 .. c - 1
  BY <1>1 DEF Listed
<1>3. f \in [1 .. c -> Entry]
  BY <1>2 DEF GoodList
<1>4. \A i, j \in DOMAIN f :
         i # j => f[i].ssid # f[j].ssid /\ ~(f[i].lastOk /\ f[j].lastOk)
  <2> SUFFICES ASSUME NEW i \in 1 .. c, NEW j \in 1 .. c, i # j
               PROVE  f[i].ssid # f[j].ssid /\ ~(f[i].lastOk /\ f[j].lastOk)
    BY <1>2
  <2> i - 1 \in 0 .. c - 1 /\ j - 1 \in 0 .. c - 1 /\ i - 1 # j - 1
    BY <1>1
  <2> QED
    BY <1>2 DEF GoodList
<1>5. f # NoFile
  BY <1>3, NoFileAssumption DEF Entry
<1>6. f \in UNION {[1 .. k -> Entry] : k \in 0 .. MaxNetworks}
  BY <1>3
<1> QED
  BY <1>2, <1>4, <1>5, <1>6 DEF Files

\* A file has at most as many networks as the array has slots.
LEMMA FileLength ==
    ASSUME NEW f \in Files, f # NoFile
    PROVE  /\ Len(f) \in 0 .. MaxNetworks /\ f \in [1 .. Len(f) -> Entry]
           /\ \A i, j \in 1 .. Len(f) :
                 i # j => f[i].ssid # f[j].ssid /\ ~(f[i].lastOk /\ f[j].lastOk)
<1>1. PICK n \in 0 .. MaxNetworks : f \in [1 .. n -> Entry]
  BY DEF Files
<1>2. n \in Nat
  BY LimitsAssumption
<1>3. f \in Seq(Entry)
  BY <1>1, <1>2, SeqDef
<1>4. Len(f) \in Nat /\ DOMAIN f = 1 .. Len(f)
  BY <1>3, LenProperties
<1>5. Len(f) = n
  BY <1>1, <1>2, <1>4
<1>6. \A i, j \in DOMAIN f :
         i # j => f[i].ssid # f[j].ssid /\ ~(f[i].lastOk /\ f[j].lastOk)
  BY DEF Files
<1> QED
  BY <1>1, <1>4, <1>5, <1>6

\* The boot loads what was written.
LEMMA LoadedList ==
    ASSUME NEW f \in Files, f # NoFile
    PROVE  /\ Len(f) \in 0 .. MaxNetworks
           /\ LoadList(f) \in [Slots -> SlotEntry]
           /\ GoodList(LoadList(f), Len(f))
           /\ Listed(LoadList(f), Len(f)) = f
<1> DEFINE n == LoadList(f)
<1>1. /\ Len(f) \in 0 .. MaxNetworks /\ f \in [1 .. Len(f) -> Entry] /\ MaxNetworks \in Nat
      /\ \A i, j \in 1 .. Len(f) :
            i # j => f[i].ssid # f[j].ssid /\ ~(f[i].lastOk /\ f[j].lastOk)
  BY FileLength, LimitsAssumption
<1>2. \A i \in 0 .. Len(f) - 1 : i \in Slots /\ i + 1 \in 1 .. Len(f) /\ n[i] = f[i + 1]
  BY <1>1 DEF LoadList, Slots
<1>3. n \in [Slots -> SlotEntry]
  <2> SUFFICES ASSUME NEW i \in Slots
               PROVE  (IF i < Len(f) THEN f[i + 1] ELSE Unused) \in SlotEntry
    BY DEF LoadList
  <2>1. i < Len(f) => f[i + 1] \in Entry
    BY <1>1 DEF Slots
  <2> QED
    BY <2>1 DEF Entry, SlotEntry, Unused
<1>4. GoodList(n, Len(f))
  <2> SUFFICES ASSUME NEW i \in 0 .. Len(f) - 1
               PROVE  /\ n[i] \in Entry
                      /\ \A j \in 0 .. Len(f) - 1 :
                            i # j => n[i].ssid # n[j].ssid /\ ~(n[i].lastOk /\ n[j].lastOk)
    BY DEF GoodList
  <2>1. n[i] \in Entry
    BY <1>1, <1>2
  <2>2. ASSUME NEW j \in 0 .. Len(f) - 1, i # j
        PROVE  n[i].ssid # n[j].ssid /\ ~(n[i].lastOk /\ n[j].lastOk)
    <3>1. n[i] = f[i + 1] /\ n[j] = f[j + 1] /\ i + 1 # j + 1
      BY <1>2, <2>2
    <3> QED
      BY <1>1, <1>2, <3>1
  <2> QED
    BY <2>1, <2>2
<1>5. Listed(n, Len(f)) = f
  <2>1. \A i \in 1 .. Len(f) : i - 1 \in 0 .. Len(f) - 1 /\ (i - 1) + 1 = i
    BY <1>1
  <2>2. \A i \in 1 .. Len(f) : n[i - 1] = f[i]
    BY <1>2, <2>1
  <2> QED
    BY <1>1, <2>2 DEF Listed
<1> QED
  BY <1>1, <1>3, <1>4, <1>5

\* An empty file is a list of no network.
LEMMA EmptyIsFile == <<>> \in Files /\ <<>> # NoFile /\ Len(<<>>) = 0
<1>1. <<>> \in [1 .. 0 -> Entry] /\ 0 \in 0 .. MaxNetworks /\ DOMAIN <<>> = {}
  BY LimitsAssumption
<1> QED
  BY <1>1, NoFileAssumption DEF Files, Entry

\* Whatever a power cut leaves, the boot finds a list.
LEMMA StoredIsFile ==
    ASSUME file \in Files, tmp \in Files
    PROVE  Stored \in Files /\ Stored # NoFile
  BY EmptyIsFile DEF Stored

\* A name is found at most once.
LEMMA FoundOnce ==
    ASSUME GoodList(nets, count), count \in Nat, NEW s, FindNetwork(s) # {}
    PROVE  /\ Min(FindNetwork(s)) \in 0 .. count - 1
           /\ nets[Min(FindNetwork(s))].ssid = s
<1>1. PICK i \in FindNetwork(s) : TRUE
  OBVIOUS
<1>2. FindNetwork(s) = {i} /\ i \in Int
  BY <1>1 DEF FindNetwork, GoodList
<1> QED
  BY <1>1, <1>2, MinOfOne DEF FindNetwork

\* The boot starts at a network of the list.
LEMMA PreferredIsListed ==
    ASSUME GoodList(nets, count), count \in Nat, count > 0
    PROVE  Preferred(nets, count) \in 0 .. count - 1
<1> DEFINE ok == {i \in 0 .. count - 1 : nets[i].lastOk}
<1>1. CASE ok = {}
  BY <1>1 DEF Preferred
<1>2. CASE ok # {}
  <2>1. PICK i \in ok : TRUE
    BY <1>2
  <2>2. ok = {i} /\ i \in Int
    BY <2>1 DEF GoodList
  <2> QED
    BY <1>2, <2>1, <2>2, MinOfOne DEF Preferred
<1> QED
  BY <1>1, <1>2

-----------------------------------------------------------------------------
(***************************************************************************)
(* What holds in all states.                                               *)
(***************************************************************************)

\* The driver's variables keep their types.
LEMMA ConnectTypes ==
    ASSUME Types, NEW s \in Ssids \cup {NoSsid}, NEW q \in Seq(Kinds), DrvConnect(s, q)
    PROVE  to' \in Ssids \cup {NoSsid} /\ drv' \in {"idle", "trying", "mute", "up"}
           /\ events' \in Seq(Kinds)
  BY QueueTypes DEF DrvConnect, Types, Kinds, Reasons

LEMMA DisconnectTypes ==
    ASSUME Types, DrvDisconnect
    PROVE  to' \in Ssids \cup {NoSsid} /\ drv' \in {"idle", "trying", "mute", "up"}
           /\ events' \in Seq(Kinds)
  BY QueueTypes DEF DrvDisconnect, Types, Kinds, Reasons

\* What an attempt at network i leaves of the right type.
SearchTypes ==
    /\ state \in States /\ cur \in Nat \cup {-1} /\ attempts \in 0 .. RetryMax
    /\ armed \in BOOLEAN /\ to \in Ssids \cup {NoSsid}
    /\ drv \in {"idle", "trying", "mute", "up"} /\ events \in Seq(Kinds)
    /\ strikes \in 0 .. RetryMax /\ spent \in 0 .. RetryMax /\ timedOut \in BOOLEAN
    /\ broken \subseteq {"config", "portal", "overwrite", "deadline"}

LEMMA StationConnectTypes ==
    ASSUME Types, NEW i \in Slots, NEW q \in Seq(Kinds), StationConnect(i, q)
    PROVE  SearchTypes'
<1>1. /\ nets[i].ssid \in Ssids \cup {NoSsid} /\ i \in Nat
      /\ 0 \in 0 .. RetryMax
  BY LimitsAssumption DEF Types, Slots
<1>2. CASE Connecting(i, q)
  <2>1. DrvConnect(nets[i].ssid, q)
    BY <1>2 DEF Connecting
  <2>2. to' \in Ssids \cup {NoSsid} /\ drv' \in {"idle", "trying", "mute", "up"}
        /\ events' \in Seq(Kinds)
    BY <1>1, <2>1, ConnectTypes
  <2> QED
    BY <1>1, <1>2, <2>2 DEF Connecting, SearchTypes, States
<1>3. CASE Refused(q) /\ UNCHANGED <<cur, attempts>>
  BY <1>3 DEF Refused, SearchTypes, Types
<1> QED
  BY <1>2, <1>3 DEF StationConnect

LEMMA TryNextTypes ==
    ASSUME Types, NEW q \in Seq(Kinds), TryNext(q)
    PROVE  /\ SearchTypes'
           /\ cmd' \in 0 .. 4 /\ arg' \in Slots /\ notified' \in BOOLEAN
<1>1. /\ cur + 1 \in Nat /\ cur \in Int /\ count \in 0 .. MaxNetworks
      /\ 0 \in 0 .. RetryMax /\ MaxNetworks \in Nat
  BY LimitsAssumption DEF Types
<1>2. CASE cur + 1 >= count
  <2>1. /\ cur' = cur + 1 /\ attempts' = 0 /\ Post(1) /\ events' = q
        /\ UNCHANGED <<state, armed, arg, drv, to, countVars, broken>>
    BY <1>1, <1>2 DEF TryNext
  <2>2. SearchTypes'
    BY <1>1, <2>1 DEF SearchTypes, Types
  <2> QED
    BY <2>1, <2>2 DEF Post, Types
<1>3. CASE cur + 1 < count /\ Connecting(cur + 1, q)
  <2>1. nets[cur + 1].ssid \in Ssids \cup {NoSsid}
    BY <1>1, <1>3 DEF Types, Slots
  <2>2. UNCHANGED mailVars
    BY <1>1, <1>3 DEF TryNext
  <2>3. DrvConnect(nets[cur + 1].ssid, q)
    BY <1>3 DEF Connecting
  <2>4. to' \in Ssids \cup {NoSsid} /\ drv' \in {"idle", "trying", "mute", "up"}
        /\ events' \in Seq(Kinds)
    BY <2>1, <2>3, ConnectTypes
  <2>5. SearchTypes'
    BY <1>1, <1>3, <2>4 DEF Connecting, SearchTypes, States
  <2> QED
    BY <2>2, <2>5 DEF Types
<1>4. CASE cur + 1 < count /\ Refused(q) /\ cur' = cur + 1 /\ attempts' = 0
  <2>1. UNCHANGED mailVars
    BY <1>1, <1>4 DEF TryNext
  <2>2. SearchTypes'
    BY <1>1, <1>4 DEF Refused, SearchTypes, Types
  <2> QED
    BY <2>1, <2>2 DEF Types
<1> QED
  BY <1>1, <1>2, <1>3, <1>4 DEF TryNext

\* A mark that moves keeps the list good.
LEMMA MarkedList ==
    ASSUME NEW n \in [Slots -> SlotEntry], NEW i, NEW c \in 0 .. MaxNetworks, count' = c,
           \A j \in 0 .. c - 1 :
               /\ n[j].ssid \in Ssids
               /\ \A k \in 0 .. c - 1 : j # k => n[j].ssid # n[k].ssid,
           nets' = MarkOnly(n, i)
    PROVE  /\ nets' \in [Slots -> SlotEntry] /\ GoodList(nets', c)
           /\ \A j \in 0 .. c - 1 :
                 nets'[j].ssid = n[j].ssid /\ (nets'[j].lastOk <=> j = i)
<1>1. 0 .. c - 1 \subseteq Slots /\ \A j \in Slots : j \in Int
  BY LimitsAssumption DEF Slots
<1>2. \A j \in Slots :
         nets'[j] = IF j < c THEN [n[j] EXCEPT !.lastOk = (j = i)] ELSE n[j]
  BY DEF MarkOnly
<1>3. ASSUME NEW j \in Slots
      PROVE  nets'[j] \in SlotEntry
  BY <1>2 DEF SlotEntry
<1>4. nets' \in [Slots -> SlotEntry]
  BY <1>3 DEF MarkOnly
<1>5. ASSUME NEW j \in 0 .. c - 1
      PROVE  /\ nets'[j].ssid = n[j].ssid /\ nets'[j].lastOk = (j = i)
             /\ nets'[j] \in Entry
  <2>1. j \in Slots /\ j < c /\ n[j] \in SlotEntry
    BY <1>1
  <2>2. nets'[j] = [n[j] EXCEPT !.lastOk = (j = i)]
    BY <1>2, <2>1
  <2> QED
    BY <2>1, <2>2 DEF SlotEntry, Entry
<1>6. \A j, k \in 0 .. c - 1 : nets'[j].lastOk /\ nets'[k].lastOk => j = k
  BY <1>5
<1>7. GoodList(nets', c)
  BY <1>5, <1>6 DEF GoodList
<1> QED
  BY <1>4, <1>5, <1>7

-----------------------------------------------------------------------------
(***************************************************************************)
(* Every action keeps Basic.                                               *)
(***************************************************************************)
LEMMA UpsetTypes ==
    ASSUME Types, Upset \/ UNCHANGED upsets
    PROVE  upsets' \in 0 .. MaxUpsets
  BY LimitsAssumption DEF Upset, Types

\* The steps of a save leave files.
LEMMA SaveWriteTypes ==
    ASSUME Basic, NEW text \in Files, NEW next, SaveWrite(text, next)
    PROVE  tmp' \in Files /\ unsaved' \in BOOLEAN
  BY EmptyIsFile DEF SaveWrite, Basic, Types

LEMMA SaveStepTypes ==
    ASSUME Basic, NEW at, NEW next, SaveStep(at, next)
    PROVE  /\ file' \in Files /\ tmp' \in Files /\ unsaved' \in BOOLEAN
           /\ upsets' \in 0 .. MaxUpsets
<1>1. /\ NoFile \in Files /\ Listed(nets, count) \in Files /\ file \in Files /\ tmp \in Files
      /\ unsaved \in BOOLEAN /\ upsets \in 0 .. MaxUpsets /\ Types
  BY ListedIsFile DEF Basic, Types, Files
<1>2. CASE SaveRemove(at, next) \/ SaveRename(at, next) \/ SaveSkip(at, next)
  BY <1>1, <1>2 DEF SaveRemove, SaveRename, SaveSkip
<1>3. CASE SaveFallback(at, next)
  BY <1>1, <1>3, EmptyIsFile, UpsetTypes DEF SaveFallback
<1>4. CASE SaveDirect(at, next)
  BY <1>1, <1>4, UpsetTypes DEF SaveDirect
<1> QED
  BY <1>2, <1>3, <1>4 DEF SaveStep

LEMMA RestartBasic ==
    ASSUME Basic, Restart, upsets' \in 0 .. MaxUpsets
    PROVE  Basic'
<1>1. Stored \in Files /\ Stored # NoFile
  BY StoredIsFile DEF Basic, Types
<1>2. /\ count' \in 0 .. MaxNetworks /\ nets' \in [Slots -> SlotEntry]
      /\ GoodList(nets', count')
  <2>1. \/ nets' = LoadList(Stored) /\ count' = Len(Stored)
        \/ nets' = LoadList(<<>>) /\ count' = Len(<<>>)
    BY EmptyIsFile DEF Restart
  <2> QED
    BY <1>1, <2>1, EmptyIsFile, LoadedList
<1>3. file' \in Files /\ tmp' \in Files /\ unsaved' \in BOOLEAN
  BY DEF Restart, Basic, Types, Files
<1>4. 0 \in 0 .. RetryMax /\ 0 \in Slots /\ 0 \in 0 .. WsFailLimit - 1 /\ <<>> \in Seq(Kinds)
  BY LimitsAssumption DEF Slots
<1>5. Types'
  BY <1>2, <1>3, <1>4 DEF Restart, Volatile, Types, States, SlotEntry, Kinds, Reasons
<1>6. Carrying'
  BY DEF Restart, Volatile, Carrying
<1> QED
  BY <1>2, <1>5, <1>6 DEF Basic

LEMMA PortalTypes ==
    ASSUME Types, Portal
    PROVE  /\ state' \in States /\ httpd' \in {"off", "up"} /\ stale' \in BOOLEAN
           /\ strikes' \in 0 .. RetryMax /\ spent' \in 0 .. RetryMax
           /\ timedOut' \in BOOLEAN
           /\ broken' \subseteq {"config", "portal", "overwrite", "deadline"}
<1>1. 0 \in 0 .. RetryMax
  BY LimitsAssumption
<1> QED
  BY <1>1 DEF Portal, Types, States

LEMMA BootBasic == Basic /\ Boot => Basic'
<1> SUFFICES ASSUME Basic, Boot PROVE Basic'
  OBVIOUS
<1>1. GoodList(nets', count') /\ Carrying'
  BY DEF Boot, Basic, Carrying
<1>2. CASE count > 0 /\ StationConnect(Preferred(nets, count), events)
  <2>1. Preferred(nets, count) \in Slots /\ events \in Seq(Kinds)
    BY <1>2, PreferredIsListed, LimitsAssumption DEF Basic, Types, Slots, Kinds, Reasons
  <2>2. SearchTypes'
    BY <1>2, <2>1, StationConnectTypes DEF Basic
  <2>3. Types'
    BY <1>2, <2>2 DEF Boot, Basic, Types, SearchTypes, Kinds, Reasons
  <2> QED
    BY <1>1, <2>3 DEF Basic
<1>3. CASE count = 0 /\ Portal
  <2>1. Types'
    BY <1>3, PortalTypes DEF Boot, Basic, Types
  <2> QED
    BY <1>1, <2>1 DEF Basic
<1> QED
  BY <1>2, <1>3 DEF Boot

\* The event loop takes the first event from the queue.
LEMMA EventTypes ==
    ASSUME Types, NEW e, Event(e)
    PROVE  events \in Seq(Kinds) /\ Tail(events) \in Seq(Kinds)
  BY QueueTypes DEF Event, Types, Kinds, Reasons

LEMMA LinkLostBasic == Basic /\ LinkLost => Basic'
<1> SUFFICES ASSUME Basic, LinkLost PROVE Basic'
  OBVIOUS
<1>1. GoodList(nets', count') /\ Carrying'
  BY DEF LinkLost, Basic, Carrying
<1>2. Tail(events) \in Seq(Kinds) /\ to \in Ssids \cup {NoSsid}
  BY EventTypes DEF LinkLost, Basic, Types
<1>3. to' \in Ssids \cup {NoSsid} /\ drv' \in {"idle", "trying", "mute", "up"}
      /\ events' \in Seq(Kinds)
  BY <1>2, ConnectTypes DEF LinkLost, Basic
<1>4. Types'
  BY <1>3 DEF LinkLost, Basic, Types, States, Kinds, Reasons
<1> QED
  BY <1>1, <1>4 DEF Basic

LEMMA RetryBasic == Basic /\ Retry => Basic'
<1> SUFFICES ASSUME Basic, Retry PROVE Basic'
  OBVIOUS
<1>1. GoodList(nets', count') /\ Carrying'
  BY DEF Retry, Basic, Carrying
<1>2. events' \in Seq(Kinds)
  BY EventTypes DEF Retry, Basic
<1>3. attempts' \in 0 .. RetryMax /\ strikes' \in 0 .. RetryMax
  BY LimitsAssumption, MinOfTwo DEF Retry, Basic, Types
<1>4. Types'
  BY <1>2, <1>3 DEF Retry, Post, Basic, Types, Kinds, Reasons
<1> QED
  BY <1>1, <1>4 DEF Basic

LEMMA GiveUpBasic == Basic /\ GiveUp => Basic'
<1> SUFFICES ASSUME Basic, GiveUp PROVE Basic'
  OBVIOUS
<1>1. GoodList(nets', count') /\ Carrying'
  BY DEF GiveUp, Basic, Carrying
<1>2. Tail(events) \in Seq(Kinds)
  BY EventTypes DEF GiveUp, Basic
<1>3. SearchTypes' /\ cmd' \in 0 .. 4 /\ arg' \in Slots /\ notified' \in BOOLEAN
  BY <1>2, TryNextTypes DEF GiveUp, Basic
<1>4. Types'
  BY <1>3 DEF GiveUp, Basic, SearchTypes, Types, Kinds, Reasons
<1> QED
  BY <1>1, <1>4 DEF Basic

LEMMA IgnoreEventBasic == Basic /\ IgnoreEvent => Basic'
<1> SUFFICES ASSUME Basic, IgnoreEvent PROVE Basic'
  OBVIOUS
<1>1. GoodList(nets', count') /\ Carrying'
  BY DEF IgnoreEvent, Basic, Carrying
<1>2. events' \in Seq(Kinds)
  BY EventTypes DEF IgnoreEvent, Basic
<1> QED
  BY <1>1, <1>2 DEF IgnoreEvent, Basic, Types, Kinds, Reasons

\* The mark moves to the network on offer and the list is written.
LEMMA GotIpBasic == Basic /\ GotIp => Basic'
<1> SUFFICES ASSUME Basic, GotIp PROVE Basic'
  OBVIOUS
<1>1. /\ count \in 0 .. MaxNetworks /\ nets \in [Slots -> SlotEntry]
      /\ count' = count /\ nets' = MarkOnly(nets, cur)
      /\ \A j \in 0 .. count - 1 :
            /\ nets[j].ssid \in Ssids
            /\ \A k \in 0 .. count - 1 : j # k => nets[j].ssid # nets[k].ssid
  BY DEF GotIp, Basic, Types, SlotEntry, GoodList, Entry
<1>2. nets' \in [Slots -> SlotEntry] /\ GoodList(nets', count)
  BY <1>1, MarkedList
<1>3. tmp' \in Files /\ unsaved' \in BOOLEAN /\ upsets' \in 0 .. MaxUpsets
  <2>1. Listed(nets', count') \in Files /\ SaveWrite(Listed(nets', count'), evt')
    BY <1>1, <1>2, ListedIsFile DEF GotIp
  <2>2. tmp' \in Files /\ unsaved' \in BOOLEAN
    BY <2>1, SaveWriteTypes
  <2>3. Upset \/ UNCHANGED upsets
    BY DEF GotIp
  <2> QED
    BY <2>2, <2>3, UpsetTypes DEF Basic
<1>4. events' \in Seq(Kinds)
  BY EventTypes DEF GotIp, Basic
<1>5. strikes' \in 0 .. RetryMax /\ spent' \in 0 .. RetryMax /\ count' \in 0 .. MaxNetworks
  BY <1>1, LimitsAssumption DEF GotIp, Basic, Types
<1>6. armed' \in BOOLEAN /\ timedOut' \in BOOLEAN
  BY DEF GotIp
<1>7. Types'
  BY <1>2, <1>3, <1>4, <1>5, <1>6 DEF GotIp, Basic, Types, Kinds, Reasons, SlotEntry
<1>8. Carrying'
  BY DEF GotIp, Basic, Carrying
<1> QED
  BY <1>1, <1>2, <1>7, <1>8 DEF Basic

LEMMA SavedBasic ==
    ASSUME Basic, GotIpSave \/ GotIpDone \/ HttpSave \/ HttpDone
    PROVE  Basic'
<1>1. 0 \in Slots /\ 0 \in 0 .. WsFailLimit - 1
  BY LimitsAssumption DEF Slots
<1>2. GoodList(nets', count') /\ Carrying'
  BY DEF GotIpSave, GotIpDone, HttpSave, HttpDone, Basic, Carrying
<1>3. \E at, next : SaveStep(at, next)
  BY DEF GotIpSave, GotIpDone, HttpSave, HttpDone
<1>4. /\ file' \in Files /\ tmp' \in Files /\ unsaved' \in BOOLEAN
      /\ upsets' \in 0 .. MaxUpsets
  BY <1>3, SaveStepTypes
<1>5. CASE GotIpSave
  BY <1>2, <1>4, <1>5 DEF GotIpSave, Basic, Types
<1>6. CASE GotIpDone
  BY <1>1, <1>2, <1>4, <1>6 DEF GotIpDone, Basic, Types, States
<1>7. CASE HttpSave
  BY <1>2, <1>4, <1>7 DEF HttpSave, Basic, Types
<1>8. CASE HttpDone
  <2>1. cmd' \in 0 .. 4 /\ arg' \in Slots
    BY <1>8 DEF HttpDone, Post, Basic, Types, Slots
  <2>2. notified' \in BOOLEAN
    BY <1>8 DEF HttpDone, Post, Basic, Types
  <2> QED
    BY <1>1, <1>2, <1>4, <1>8, <2>1, <2>2 DEF HttpDone, Basic, Types
<1> QED
  BY <1>5, <1>6, <1>7, <1>8

LEMMA TimeoutBasic == Basic /\ Timeout => Basic'
<1> SUFFICES ASSUME Basic, Timeout PROVE Basic'
  OBVIOUS
<1>1. GoodList(nets', count') /\ Carrying'
  BY DEF Timeout, Basic, Carrying
<1>2. to' \in Ssids \cup {NoSsid} /\ drv' \in {"idle", "trying", "mute", "up"}
      /\ events' \in Seq(Kinds)
  BY DisconnectTypes DEF Timeout, Basic, Types, Kinds, Reasons
<1>3. attempts' \in 0 .. RetryMax
  BY LimitsAssumption DEF Timeout, Basic, Types
<1>4. armed' \in BOOLEAN /\ timedOut' \in BOOLEAN
  BY DEF Timeout, Basic, Types
<1>5. broken' \subseteq {"config", "portal", "overwrite", "deadline"}
  BY DEF Timeout, Basic, Types
<1> QED
  BY <1>1, <1>2, <1>3, <1>4, <1>5 DEF Timeout, Basic, Types, Kinds, Reasons

LEMMA ReadCommandBasic == Basic /\ ReadCommand => Basic'
<1> SUFFICES ASSUME Basic, ReadCommand PROVE Basic'
  OBVIOUS
<1>1. GoodList(nets', count') /\ Carrying'
  BY DEF ReadCommand, Basic, Carrying
<1>2. notified' \in BOOLEAN
  BY DEF ReadCommand
<1> QED
  BY <1>1, <1>2 DEF ReadCommand, Basic, Types

LEMMA ClearCommandBasic == Basic /\ ClearCommand => Basic'
<1> SUFFICES ASSUME Basic, ClearCommand PROVE Basic'
  OBVIOUS
<1>1. took \in 0 .. 4 /\ took' = took /\ cmd' = 0
  BY DEF ClearCommand, Basic, Types
<1>2. \/ took = 0 /\ ctrl' = "wait"
      \/ took = 1 /\ ctrl' = "portal"
      \/ took = 2 /\ ctrl' = "close"
      \/ took = 3 /\ ctrl' = "backoff"
      \/ took = 4 /\ ctrl' = "dns"
  <2>1. ctrl' = CASE took = 0 -> "wait" [] took = 1 -> "portal"
                  [] took = 2 -> "close" [] took = 3 -> "backoff" [] took = 4 -> "dns"
    BY DEF ClearCommand
  <2>2. took = 0 => ctrl' = "wait"
    BY <2>1
  <2>3. took = 1 => ctrl' = "portal"
    BY <2>1
  <2>4. took = 2 => ctrl' = "close"
    BY <2>1
  <2>5. took = 3 => ctrl' = "backoff"
    BY <2>1
  <2>6. took = 4 => ctrl' = "dns"
    BY <2>1
  <2>7. took \in {0, 1, 2, 3, 4}
    BY <1>1
  <2> QED
    BY <2>2, <2>3, <2>4, <2>5, <2>6, <2>7
<1>3. GoodList(nets', count') /\ Carrying'
  BY <1>1, <1>2 DEF ClearCommand, Basic, Carrying
<1>4. broken' \subseteq {"config", "portal", "overwrite", "deadline"}
  BY DEF ClearCommand, Basic, Types
<1> QED
  BY <1>1, <1>2, <1>3, <1>4 DEF ClearCommand, Basic, Types

LEMMA OpenPortalBasic == Basic /\ OpenPortal => Basic'
<1> SUFFICES ASSUME Basic, OpenPortal PROVE Basic'
  OBVIOUS
<1>1. GoodList(nets', count') /\ Carrying'
  BY DEF OpenPortal, Done, Basic, Carrying
<1>2. Types'
  BY PortalTypes DEF OpenPortal, Done, Basic, Types
<1> QED
  BY <1>1, <1>2 DEF Basic

LEMMA CloseAndConnectBasic == Basic /\ CloseAndConnect => Basic'
<1> SUFFICES ASSUME Basic, CloseAndConnect PROVE Basic'
  OBVIOUS
<1>1. GoodList(nets', count') /\ Carrying'
  BY DEF CloseAndConnect, Done, Basic, Carrying
<1>2. SearchTypes'
  BY StationConnectTypes DEF CloseAndConnect, Basic, Types, Kinds, Reasons
<1>3. Types'
  BY <1>2 DEF CloseAndConnect, Done, SearchTypes, Basic, Types, Kinds, Reasons
<1> QED
  BY <1>1, <1>3 DEF Basic

LEMMA ControlBasic ==
    ASSUME Basic, Backoff \/ ScanAndConnect \/ DnsCheck
    PROVE  Basic'
<1>1. GoodList(nets', count') /\ Carrying'
  BY DEF Backoff, ScanAndConnect, DnsCheck, Done, Basic, Carrying
<1>2. CASE Backoff
  BY <1>1, <1>2 DEF Backoff, Basic, Types
<1>3. CASE ScanAndConnect
  <2>1. to' \in Ssids \cup {NoSsid} /\ drv' \in {"idle", "trying", "mute", "up"}
        /\ events' \in Seq(Kinds)
    BY <1>3, ConnectTypes DEF ScanAndConnect, Basic, Types, Kinds, Reasons
  <2> QED
    BY <1>1, <1>3, <2>1 DEF ScanAndConnect, Done, Basic, Types, Kinds, Reasons
<1>4. CASE DnsCheck
  <2>1. to' \in Ssids \cup {NoSsid} /\ drv' \in {"idle", "trying", "mute", "up"}
        /\ events' \in Seq(Kinds)
    BY <1>4, DisconnectTypes DEF DnsCheck, Basic, Types, Kinds, Reasons
  <2> QED
    BY <1>1, <1>4, <2>1 DEF DnsCheck, Done, Basic, Types, Kinds, Reasons
<1> QED
  BY <1>2, <1>3, <1>4

LEMMA WebsocketBasic ==
    ASSUME Basic, NoteWsFail \/ PostSelfCheck \/ CoolDown
    PROVE  Basic'
<1>1. GoodList(nets', count') /\ Carrying'
  BY DEF NoteWsFail, PostSelfCheck, CoolDown, Basic, Carrying
<1>2. CASE NoteWsFail
  <2>1. wsFails' \in 0 .. WsFailLimit - 1
    BY <1>2, LimitsAssumption DEF NoteWsFail, Basic, Types
  <2>2. cooling' \in BOOLEAN /\ ws' \in {"idle", "post"}
    BY <1>2 DEF NoteWsFail, Basic, Types
  <2> QED
    BY <1>1, <1>2, <2>1, <2>2 DEF NoteWsFail, Basic, Types
<1>3. CASE PostSelfCheck
  <2>1. broken' \subseteq {"config", "portal", "overwrite", "deadline"}
    BY <1>3 DEF PostSelfCheck, Basic, Types
  <2> QED
    BY <1>1, <1>3, <2>1 DEF PostSelfCheck, Post, Basic, Types
<1>4. CASE CoolDown
  <2>1. cooling' \in BOOLEAN
    BY <1>4 DEF CoolDown
  <2> QED
    BY <1>1, <1>4, <2>1 DEF CoolDown, Basic, Types
<1> QED
  BY <1>2, <1>3, <1>4

LEMMA DriverBasic ==
    ASSUME Basic, (\E r \in Refusals : Refuse(r)) \/ Associate \/ Address \/ Drop
    PROVE  Basic'
<1>1. GoodList(nets', count') /\ Carrying'
  BY DEF Refuse, Associate, Address, Drop, Basic, Carrying
<1>2. events' \in Seq(Kinds)
  <2>1. events \in Seq(Kinds)
    BY DEF Basic, Types, Kinds
  <2>2. events' = events \/ \E e \in Kinds : events' = Append(events, e)
    BY FaultsAssumption DEF Refuse, Associate, Address, Drop, Kinds, Reasons
  <2> QED
    BY <2>1, <2>2, QueueTypes
<1>3. drv' \in {"idle", "trying", "mute", "up"} /\ UNCHANGED DriverRest
  BY DEF Refuse, Associate, Address, Drop
<1> QED
  BY <1>1, <1>2, <1>3 DEF Basic, Types, Kinds, Reasons

\* A submission: a known name, a free slot, or the last slot.
LEMMA SubmitList ==
    ASSUME Basic, NEW s \in Ssids, Submit(s)
    PROVE  /\ count' \in 0 .. MaxNetworks /\ nets' \in [Slots -> SlotEntry]
           /\ GoodList(nets', count')
           /\ pick' \in Slots /\ pick' \in 0 .. count' - 1
           /\ count <= count' /\ count' <= count + 1
           /\ Listed(nets', count') \in Files
<1> DEFINE i == IF FindNetwork(s) # {} THEN Min(FindNetwork(s))
                ELSE IF count < MaxNetworks THEN count ELSE MaxNetworks - 1
           n == [nets EXCEPT ![i].ssid = s]
<1> HIDE DEF i, n
<1>1. /\ count \in 0 .. MaxNetworks /\ MaxNetworks \in Nat \ {0}
      /\ nets \in [Slots -> SlotEntry] /\ GoodList(nets, count)
  BY LimitsAssumption DEF Basic, Types, SlotEntry
<1>2. /\ count' = (IF i = count THEN count + 1 ELSE count)
      /\ nets' = MarkOnly(n, i) /\ pick' = i
  BY DEF Submit, i, n
<1>3. /\ i \in Slots /\ i \in 0 .. count' - 1 /\ count' \in 0 .. MaxNetworks
      /\ count <= count' /\ count' <= count + 1
      /\ \A j \in 0 .. count - 1 : j # i => nets[j].ssid # s
      /\ \A j \in 0 .. count' - 1 : j \in 0 .. count - 1 \/ j = i
  <2>1. CASE FindNetwork(s) # {}
    <3>1. i \in 0 .. count - 1 /\ nets[i].ssid = s
      BY <1>1, <2>1, FoundOnce DEF i
    <3>2. \A j \in 0 .. count - 1 : j # i => nets[j].ssid # s
      BY <1>1, <3>1 DEF GoodList
    <3> QED
      BY <1>1, <1>2, <3>1, <3>2 DEF Slots
  <2>2. CASE FindNetwork(s) = {}
    <3>1. \A j \in 0 .. count - 1 : nets[j].ssid # s
      BY <2>2 DEF FindNetwork
    <3>2. i = IF count < MaxNetworks THEN count ELSE MaxNetworks - 1
      BY <2>2 DEF i
    <3> QED
      BY <1>1, <1>2, <3>1, <3>2 DEF Slots
  <2> QED
    BY <2>1, <2>2
<1>4. /\ n \in [Slots -> SlotEntry] /\ n[i].ssid = s
      /\ \A j \in Slots : j # i => n[j] = nets[j]
  BY <1>1, <1>3 DEF n, SlotEntry
<1>5. \A j \in 0 .. count' - 1 :
         /\ n[j].ssid \in Ssids
         /\ \A k \in 0 .. count' - 1 : j # k => n[j].ssid # n[k].ssid
  <2>1. \A j \in 0 .. count - 1 : j \in Slots /\ nets[j].ssid \in Ssids
    BY <1>1 DEF GoodList, Entry, Slots
  <2>2. \A j \in 0 .. count - 1 : j # i => n[j].ssid = nets[j].ssid
    BY <1>4, <2>1
  <2>3. \A j, k \in 0 .. count - 1 : j # k => nets[j].ssid # nets[k].ssid
    BY <1>1 DEF GoodList
  <2> QED
    BY <1>3, <1>4, <2>1, <2>2, <2>3
<1>6. nets' \in [Slots -> SlotEntry] /\ GoodList(nets', count')
  BY <1>2, <1>3, <1>4, <1>5, MarkedList
<1>7. Listed(nets', count') \in Files
  BY <1>3, <1>6, ListedIsFile
<1> QED
  BY <1>2, <1>3, <1>6, <1>7

\* A deletion: the tail moves up.
LEMMA DeleteList ==
    ASSUME Basic, NEW s \in Ssids, Delete(s)
    PROVE  /\ count' \in 0 .. MaxNetworks /\ nets' \in [Slots -> SlotEntry]
           /\ GoodList(nets', count') /\ count' = count - 1
           /\ Listed(nets', count') \in Files
<1> DEFINE i == Min(FindNetwork(s))
<1> HIDE DEF i
<1>1. /\ count \in 0 .. MaxNetworks /\ MaxNetworks \in Nat \ {0}
      /\ nets \in [Slots -> SlotEntry] /\ GoodList(nets, count)
  BY LimitsAssumption DEF Basic, Types, SlotEntry
<1>2. i \in 0 .. count - 1
  BY <1>1, FoundOnce DEF Delete, i
<1>3. /\ count' = count - 1
      /\ nets' = [j \in Slots |-> IF i <= j /\ j < count - 1 THEN nets[j + 1]
                                  ELSE nets[j]]
  BY DEF Delete, i
<1>4. count' \in 0 .. MaxNetworks
  BY <1>1, <1>2, <1>3
<1>5. nets' \in [Slots -> SlotEntry]
  BY <1>1, <1>2, <1>3 DEF Slots
<1>6. GoodList(nets', count')
  <2> DEFINE at(j) == IF i <= j THEN j + 1 ELSE j
  <2>1. \A j \in 0 .. count' - 1 :
           at(j) \in 0 .. count - 1 /\ nets'[j] = nets[at(j)]
    BY <1>1, <1>2, <1>3 DEF Slots
  <2>2. \A j, k \in 0 .. count' - 1 : j # k => at(j) # at(k)
    BY <1>1, <1>2, <1>3
  <2> HIDE DEF at
  <2> QED
    BY <1>1, <2>1, <2>2 DEF GoodList
<1>7. Listed(nets', count') \in Files
  BY <1>4, <1>6, ListedIsFile
<1> QED
  BY <1>3, <1>4, <1>5, <1>6, <1>7

LEMMA PortalBasic ==
    ASSUME Basic, NEW s \in Ssids, Submit(s) \/ Delete(s)
    PROVE  Basic'
<1>1. upsets' \in 0 .. MaxUpsets
  BY LimitsAssumption DEF Submit, Delete, Upset, Basic, Types
<1>2. Carrying'
  BY DEF Submit, Delete, Basic, Carrying
<1>3. /\ count' \in 0 .. MaxNetworks /\ nets' \in [Slots -> SlotEntry]
      /\ GoodList(nets', count') /\ Listed(nets', count') \in Files
      /\ pick' \in Slots \cup {-1}
  <2>1. CASE Submit(s)
    BY <2>1, SubmitList
  <2>2. CASE Delete(s)
    BY <2>2, DeleteList DEF Delete, Basic, Types
  <2> QED
    BY <2>1, <2>2
<1>4. doubled' \in BOOLEAN /\ stale' \in BOOLEAN
  BY DEF Submit, Delete, Basic, Types
<1>5. /\ httpd' \in Stages /\ file' = file /\ SaveWrite(Listed(nets', count'), httpd')
      /\ UNCHANGED <<cmd, arg, notified, HttpRest>>
  BY DEF Submit, Delete
<1>6. tmp' \in Files /\ unsaved' \in BOOLEAN
  BY <1>3, <1>5, SaveWriteTypes
<1>7. Types'
  BY <1>1, <1>3, <1>4, <1>5, <1>6 DEF Basic, Types, SlotEntry
<1> QED
  BY <1>2, <1>3, <1>7 DEF Basic

\* What holds in all states is kept by every step.
LEMMA BasicStep == Basic /\ [Next]_vars => Basic'
<1> SUFFICES ASSUME Basic, [Next]_vars PROVE Basic'
  OBVIOUS
<1>1. CASE Boot
  BY <1>1, BootBasic
<1>2. CASE PowerCut
  <2>1. upsets' \in 0 .. MaxUpsets
    BY <1>2, LimitsAssumption DEF PowerCut, Upset, Basic, Types
  <2> QED
    BY <1>2, <2>1, RestartBasic DEF PowerCut
<1>3. CASE EventLoop
  BY <1>3, LinkLostBasic, RetryBasic, GiveUpBasic, IgnoreEventBasic, GotIpBasic,
     SavedBasic DEF EventLoop
<1>4. CASE Timeout
  BY <1>4, TimeoutBasic
<1>5. CASE CtrlTask
  <2>1. CASE BackoffBreak
    <3>1. upsets' \in 0 .. MaxUpsets
      BY <2>1 DEF BackoffBreak, Basic, Types
    <3> QED
      BY <2>1, <3>1, RestartBasic DEF BackoffBreak
  <2> QED
    BY <1>5, <2>1, ReadCommandBasic, ClearCommandBasic, OpenPortalBasic,
       CloseAndConnectBasic, ControlBasic DEF CtrlTask
<1>6. CASE \E s \in Ssids : Submit(s) \/ Delete(s)
  BY <1>6, PortalBasic
<1>7. CASE HttpTask
  BY <1>7, SavedBasic DEF HttpTask
<1>8. CASE NoteWsFail \/ PostSelfCheck \/ CoolDown
  BY <1>8, WebsocketBasic
<1>9. CASE (\E r \in Refusals : Refuse(r)) \/ Associate \/ Address \/ Drop
  BY <1>9, DriverBasic
<1>10. CASE UNCHANGED vars
  BY <1>10 DEF Basic, Types, Carrying
<1> QED
  BY <1>1, <1>2, <1>3, <1>4, <1>5, <1>6, <1>7, <1>8, <1>9, <1>10 DEF Next

-----------------------------------------------------------------------------
(***************************************************************************)
(* Every action keeps Calm until the user submits twice in a row.          *)
(***************************************************************************)

\* What the first event tells, and that the queue is empty behind a refusal.
LEMMA CalmEvent ==
    ASSUME Linked, Posted, NEW e, Event(e)
    PROVE  /\ evt = "idle" /\ httpd = "off" /\ state \in {"CONNECTING", "CONNECTED"}
           /\ cmd \notin {1, 2, 3} /\ took \notin {1, 2, 3}
           /\ e \in Reasons => drv = "idle" /\ Tail(events) = <<>>
           /\ e = "ip" =>
                 /\ state = "CONNECTING"
                 /\ \/ drv = "up" /\ Tail(events) = <<>>
                    \/ drv = "idle" /\ Tail(events) = <<"other">>
<1>1. /\ evt = "idle" /\ events # <<>> /\ Head(events) = e
      /\ state \in {"CONNECTING", "CONNECTED"}
  BY DEF Event, Linked
<1>2. cmd \notin {1, 2, 3} /\ took \notin {1, 2, 3} /\ httpd = "off"
  BY <1>1 DEF Posted, Submitting
<1>3. events \in {<<"ip">>, <<"cred">>, <<"absent">>, <<"other">>, <<"ip", "other">>}
  BY <1>1 DEF Linked
<1>4. e \in Reasons => drv = "idle" /\ Tail(events) = <<>>
  BY <1>1, <1>3, Queues DEF Linked, Kinds, Reasons
<1>5. e = "ip" => /\ state = "CONNECTING"
                  /\ \/ drv = "up" /\ Tail(events) = <<>>
                     \/ drv = "idle" /\ Tail(events) = <<"other">>
  BY <1>1, <1>3, Queues DEF Linked, Kinds, Reasons
<1> QED
  BY <1>1, <1>2, <1>4, <1>5

\* An idle driver takes up the attempt.
LEMMA IdleConnect ==
    ASSUME NEW s, NEW q, DrvConnect(s, q), drv = "idle"
    PROVE  to' = s /\ drv' = "trying" /\ events' = q
  BY DEF DrvConnect

\* A restart.
LEMMA RestartCalm ==
    ASSUME Basic, Restart
    PROVE  Calm'
<1>1. Stored \in Files /\ Stored # NoFile
  BY StoredIsFile DEF Basic, Types
<1>2. count' \in Nat
  <2>1. \/ count' = Len(Stored)
        \/ count' = 0
    BY DEF Restart
  <2> QED
    BY <1>1, <2>1, LoadedList, LimitsAssumption
<1>3. unsaved' \/ Stored' = Listed(nets', count')
  <2>1. CASE unsaved'
    BY <2>1
  <2>2. CASE ~unsaved'
    <3>1. /\ nets' = LoadList(Stored) /\ count' = Len(Stored)
          /\ IF file = NoFile THEN file' = tmp /\ tmp' = NoFile ELSE UNCHANGED flashVars
      BY <2>2 DEF Restart
    <3>2. Stored' = Stored
      BY <1>1, <3>1 DEF Stored
    <3> QED
      BY <1>1, <3>1, <3>2, LoadedList
  <2> QED
    BY <2>1, <2>2
<1>4. Kept'
  BY <1>3 DEF Restart, Volatile, Kept, Held, Stages
<1>5. Linked' /\ Counted'
  BY DEF Restart, Volatile, Linked, Counted
<1>6. Posted' /\ Aimed'
  BY <1>2, LimitsAssumption DEF Restart, Volatile, Posted, Submitting, Aimed, Attempt
<1> QED
  BY <1>4, <1>5, <1>6 DEF Calm

\* A step that saves nothing and does not touch the list.
LEMMA KeptAlone ==
    ASSUME Kept, UNCHANGED <<evt, flashVars, unsaved, listVars>>,
           httpd' = httpd \/ {httpd, httpd'} \subseteq {"off", "up"}
    PROVE  Kept'
<1>1. /\ file' = file /\ tmp' = tmp /\ Stored' = Stored /\ unsaved' = unsaved
      /\ Listed(nets', count') = Listed(nets, count) /\ evt' = evt
  BY DEF Stored
<1>2. httpd' \in Stages => httpd' = httpd
  BY DEF Stages
<1>3. httpd' \in {"off", "up"} => httpd \in {"off", "up"}
  OBVIOUS
<1> QED
  BY <1>1, <1>2, <1>3 DEF Kept

\* A save that begins.
LEMMA SaveBegins ==
    ASSUME NEW l, NEW next, next \in Stages, SaveWrite(l, next)
    PROVE  Held(next, file', tmp', Stored', unsaved', l)
  BY DEF SaveWrite, Held, Stages

\* Each step of a save keeps what its stage needs.
LEMMA SaveGoesOn ==
    ASSUME Basic, NEW at, NEW next, SaveStep(at, next),
           Held(at, file, tmp, Stored, unsaved, Listed(nets, count))
    PROVE  Held(next, file', tmp', Stored', unsaved', Listed(nets, count))
<1> DEFINE l == Listed(nets, count)
<1>1. l # NoFile
  BY ListedIsFile DEF Basic, Types
<1> HIDE DEF l
<1>2. CASE SaveRemove(at, next)
  BY <1>2 DEF SaveRemove, Held, l
<1>3. CASE SaveRename(at, next)
  BY <1>3 DEF SaveRename, Held, l, Stored
<1>4. CASE SaveFallback(at, next)
  <2>1. CASE next = "direct"
    BY <2>1 DEF Held
  <2>2. CASE next = "done" /\ UNCHANGED file
    <3>1. at = "rename" /\ tmp' = tmp /\ unsaved' = unsaved
      BY <1>4 DEF SaveFallback
    <3>2. file = NoFile /\ (~unsaved => tmp = l)
      BY <3>1 DEF Held, l
    <3>3. ~unsaved => Stored' = l
      BY <1>1, <2>2, <3>1, <3>2 DEF Stored
    <3> QED
      BY <2>2, <3>1, <3>3 DEF Held, l
  <2> QED
    BY <1>4, <2>1, <2>2 DEF SaveFallback
<1>5. CASE SaveDirect(at, next)
  BY <1>1, <1>5 DEF SaveDirect, Held, l, Stored
<1>6. CASE SaveSkip(at, next)
  BY <1>6 DEF SaveSkip, Held
<1> QED
  BY <1>2, <1>3, <1>4, <1>5, <1>6 DEF SaveStep

LEMMA LinkLostCalm == IInv /\ ~doubled /\ LinkLost => Calm'
<1> SUFFICES ASSUME IInv, ~doubled, LinkLost PROVE Calm'
  OBVIOUS
<1>1. Calm
  BY DEF IInv
<1>2. PICK e \in Reasons : Event(e)
  BY DEF LinkLost
<1>3. /\ evt = "idle" /\ httpd = "off" /\ cmd \notin {1, 2, 3} /\ took \notin {1, 2, 3}
      /\ drv = "idle" /\ Tail(events) = <<>> /\ events # <<>>
  BY <1>1, <1>2, CalmEvent DEF Calm, Event
<1>4. state = "CONNECTED" /\ state' = "CONNECTING" /\ DrvConnect(to, Tail(events))
      /\ UNCHANGED <<cur, attempts, mailVars, evt, countVars, EvtRest>>
  BY DEF LinkLost
<1>5. to' = to /\ drv' = "trying" /\ events' = <<>>
  BY <1>3, <1>4, IdleConnect
<1>6. Linked'
  BY <1>3, <1>4, <1>5 DEF Linked
<1>7. Posted'
  BY <1>1, <1>3, <1>4 DEF Calm, Posted, Submitting
<1>8. Aimed'
  BY <1>1, <1>3, <1>4, <1>5 DEF Calm, Aimed, Attempt, Submitting
<1>9. Counted' /\ Kept'
  BY <1>1, <1>3, <1>4 DEF Calm, Counted, Kept, Stored
<1> QED
  BY <1>6, <1>7, <1>8, <1>9 DEF Calm

LEMMA RetryCalm == IInv /\ ~doubled /\ Retry => Calm'
<1> SUFFICES ASSUME IInv, ~doubled, Retry PROVE Calm'
  OBVIOUS
<1>1. Calm
  BY DEF IInv
<1>2. /\ evt = "idle" /\ httpd = "off" /\ cmd \notin {1, 2, 3} /\ took \notin {1, 2, 3}
      /\ drv = "idle" /\ Tail(events) = <<>> /\ events # <<>>
  BY <1>1, CalmEvent DEF Calm, Retry, Event, MayPass
<1>3. /\ state = "CONNECTING" /\ attempts + 1 < RetryMax /\ attempts' = attempts + 1
      /\ cmd' = 3 /\ events' = <<>> /\ strikes' = Min({strikes + 1, RetryMax})
      /\ UNCHANGED <<state, cur, arg, drv, to, evt, spent, timedOut, EvtRest>>
  BY <1>2 DEF Retry, Post
<1>4. Attempt
  BY <1>2 DEF Attempt
<1>5. Linked'
  BY <1>2, <1>3 DEF Linked
<1>6. Posted'
  BY <1>1, <1>2, <1>3 DEF Calm, Posted, Submitting
<1>7. Aimed'
  BY <1>1, <1>2, <1>3, <1>4 DEF Calm, Aimed, Attempt, Submitting
<1>8. Counted'
  <2>1. /\ attempts \in 0 .. RetryMax /\ strikes \in 0 .. RetryMax
        /\ spent \in 0 .. RetryMax /\ RetryMax \in Nat
    BY LimitsAssumption DEF IInv, Basic, Types
  <2>2. strikes' = IF strikes + 1 <= RetryMax THEN strikes + 1 ELSE RetryMax
    BY <1>3, <2>1, MinOfTwo
  <2> QED
    BY <1>1, <1>3, <2>1, <2>2 DEF Calm, Counted
<1>9. Kept'
  BY <1>1, <1>3 DEF Calm, Kept, Stored
<1> QED
  BY <1>5, <1>6, <1>7, <1>8, <1>9 DEF Calm

LEMMA GiveUpCalm == IInv /\ ~doubled /\ GiveUp => Calm'
<1> SUFFICES ASSUME IInv, ~doubled, GiveUp PROVE Calm'
  OBVIOUS
<1>1. Calm
  BY DEF IInv
<1>2. PICK e \in Reasons : Event(e)
  BY DEF GiveUp
<1>3. /\ evt = "idle" /\ httpd = "off" /\ cmd \notin {1, 2, 3} /\ took \notin {1, 2, 3}
      /\ drv = "idle" /\ Tail(events) = <<>> /\ events # <<>>
  BY <1>1, <1>2, CalmEvent DEF Calm, Event
<1>4. state = "CONNECTING" /\ TryNext(<<>>) /\ UNCHANGED <<evt, EvtRest>>
  BY <1>3 DEF GiveUp
<1>5. /\ cur \in Slots /\ cur \in Nat /\ count \in 0 .. MaxNetworks /\ MaxNetworks \in Nat
      /\ attempts' = 0 /\ cur' = cur + 1 /\ cur < MaxNetworks
      /\ strikes \in Nat /\ spent \in Nat
  <2>1. cur \in Slots
    BY <1>1, <1>3 DEF Calm, Aimed, Attempt
  <2>2. cur' = cur + 1 /\ attempts' = 0
    BY <1>4 DEF TryNext, Connecting
  <2> QED
    BY <2>1, <2>2, LimitsAssumption DEF IInv, Basic, Types, Slots
<1>6. CASE cur + 1 >= count
  <2>1. /\ cmd' = 1 /\ events' = <<>> /\ UNCHANGED <<state, arg, drv, to, countVars>>
    BY <1>4, <1>5, <1>6 DEF TryNext, Post
  <2>2. Linked'
    BY <1>3, <1>4, <2>1 DEF Linked
  <2>3. Posted'
    BY <1>1, <1>3, <1>4, <1>5, <1>6, <2>1 DEF Calm, Posted, Submitting
  <2>4. Aimed'
    BY <1>1, <1>3, <1>4, <1>5, <2>1 DEF Calm, Aimed, Attempt, Submitting
  <2>5. Counted' /\ Kept'
    BY <1>1, <1>4, <1>5, <2>1 DEF Calm, Counted, Kept, Stored
  <2> QED
    BY <2>2, <2>3, <2>4, <2>5 DEF Calm
<1>7. CASE cur + 1 < count /\ Connecting(cur + 1, <<>>)
  <2>1. /\ to' = nets[cur + 1].ssid /\ drv' = "trying" /\ events' = <<>>
        /\ state' = "CONNECTING" /\ strikes' = 0 /\ spent' = 0
        /\ UNCHANGED <<cmd, arg>> /\ cur + 1 \in Slots
    <3>1. DrvConnect(nets[cur + 1].ssid, <<>>) /\ state' = "CONNECTING"
          /\ strikes' = 0 /\ spent' = 0
      BY <1>7 DEF Connecting
    <3>2. UNCHANGED <<cmd, arg>> /\ cur + 1 \in Slots
      BY <1>4, <1>5, <1>7 DEF TryNext, Slots
    <3> QED
      BY <1>3, <3>1, <3>2, IdleConnect
  <2>2. Linked'
    BY <1>3, <1>4, <2>1 DEF Linked
  <2>3. Posted'
    BY <1>1, <1>3, <1>4, <1>5, <1>7, <2>1 DEF Calm, Posted, Submitting
  <2>4. Aimed'
    BY <1>1, <1>3, <1>4, <1>5, <1>7, <2>1 DEF Calm, Aimed, Attempt, Submitting
  <2>5. Counted' /\ Kept'
    BY <1>1, <1>4, <1>5, <2>1 DEF Calm, Counted, Kept, Stored
  <2> QED
    BY <2>2, <2>3, <2>4, <2>5 DEF Calm
<1>8. CASE cur + 1 < count /\ Refused(<<>>)
  <2>1. /\ events' = <<>> /\ UNCHANGED <<state, drv, to, countVars, cmd, arg>>
    BY <1>4, <1>5, <1>8 DEF TryNext, Refused
  <2>2. Linked'
    BY <1>3, <1>4, <2>1 DEF Linked
  <2>3. Posted'
    BY <1>1, <1>3, <1>4, <1>5, <2>1 DEF Calm, Posted, Submitting
  <2>4. Aimed'
    BY <1>1, <1>3, <1>4, <1>5, <2>1 DEF Calm, Aimed, Attempt, Submitting
  <2>5. Counted' /\ Kept'
    BY <1>1, <1>4, <1>5, <2>1 DEF Calm, Counted, Kept, Stored
  <2> QED
    BY <2>2, <2>3, <2>4, <2>5 DEF Calm
<1> QED
  BY <1>4, <1>5, <1>6, <1>7, <1>8 DEF TryNext

\* A refusal in the portal or before the boot does not come.
LEMMA NoIgnoredEvent == ASSUME Calm PROVE ~IgnoreEvent
<1> SUFFICES ASSUME IgnoreEvent PROVE FALSE
  OBVIOUS
<1>1. PICK e \in Reasons : Event(e)
  BY DEF IgnoreEvent
<1> QED
  BY <1>1, CalmEvent DEF IgnoreEvent, Calm

LEMMA GotIpCalm == IInv /\ ~doubled /\ GotIp => Calm'
<1> SUFFICES ASSUME IInv, ~doubled, GotIp PROVE Calm'
  OBVIOUS
<1>1. Calm
  BY DEF IInv
<1>2. /\ evt = "idle" /\ httpd = "off" /\ cmd \notin {1, 2, 3} /\ took \notin {1, 2, 3}
      /\ state = "CONNECTING" /\ events # <<>>
      /\ \/ drv = "up" /\ Tail(events) = <<>>
         \/ drv = "idle" /\ Tail(events) = <<"other">>
  BY <1>1, CalmEvent DEF Calm, GotIp, Event
<1>3. /\ evt' \in Stages /\ spent' = attempts /\ strikes' = 0
      /\ events' = Tail(events) /\ count' = count
      /\ nets' = MarkOnly(nets, cur) /\ SaveWrite(Listed(nets', count'), evt')
      /\ UNCHANGED <<state, cur, attempts, mailVars, ctrl, took, httpd, pick, drv, to,
                     stale>>
  BY DEF GotIp
<1>4. /\ count \in 0 .. MaxNetworks /\ nets \in [Slots -> SlotEntry]
      /\ \A j \in 0 .. count - 1 :
            /\ nets[j].ssid \in Ssids
            /\ \A k \in 0 .. count - 1 : j # k => nets[j].ssid # nets[k].ssid
  BY DEF IInv, Basic, Types, SlotEntry, GoodList, Entry
<1>5. \A j \in 0 .. count - 1 :
         nets'[j].ssid = nets[j].ssid /\ (nets'[j].lastOk <=> j = cur)
  BY <1>3, <1>4, MarkedList
<1>6. cur \in Slots /\ cur \in Nat
  BY <1>1, <1>2, LimitsAssumption DEF Calm, Aimed, Attempt, Slots
<1>7. Linked'
  BY <1>2, <1>3 DEF Linked, Stages
<1>8. Posted'
  BY <1>1, <1>2, <1>3 DEF Calm, Posted, Submitting
<1>9. Aimed'
  <2>1. ~stale => cur < count /\ to = nets[cur].ssid
    BY <1>1, <1>2 DEF Calm, Aimed, Attempt
  <2>2. ~stale => to = nets'[cur].ssid /\ nets'[cur].lastOk
    BY <1>4, <1>5, <1>6, <2>1
  <2> QED
    BY <1>2, <1>3, <1>6, <2>1, <2>2 DEF Aimed, Attempt, Submitting, Stages
<1>10. Counted'
  BY <1>3 DEF Counted, IInv, Basic, Types
<1>11. Kept'
  BY <1>2, <1>3, SaveBegins DEF Kept, Stages
<1> QED
  BY <1>7, <1>8, <1>9, <1>10, <1>11 DEF Calm

LEMMA GotIpSaveCalm == IInv /\ ~doubled /\ GotIpSave => Calm'
<1> SUFFICES ASSUME IInv, ~doubled, GotIpSave PROVE Calm'
  OBVIOUS
<1>1. Calm /\ Basic /\ evt \in Stages /\ evt' \in Stages /\ SaveStep(evt, evt')
  BY DEF IInv, GotIpSave, SaveStep, SaveRemove, SaveRename, SaveFallback, SaveDirect,
     SaveSkip, Stages
<1>2. /\ UNCHANGED <<searchVars, listVars, mailVars, ctrl, took, httpd, pick, healVars,
                     driverVars, countVars, doubled, stale>>
      /\ state = "CONNECTING" /\ httpd = "off"
  BY <1>1 DEF GotIpSave, Calm, Linked, Posted, Stages
<1>3. Linked'
  BY <1>1, <1>2 DEF Calm, Linked, Stages
<1>4. Posted'
  BY <1>1, <1>2 DEF Calm, Posted, Submitting, Stages
<1>5. Aimed'
  BY <1>1, <1>2 DEF Calm, Aimed, Attempt, Submitting, Stages
<1>6. Counted'
  BY <1>1, <1>2 DEF Calm, Counted
<1>7. Kept'
  BY <1>1, <1>2, SaveGoesOn DEF Calm, Kept, Stages
<1> QED
  BY <1>3, <1>4, <1>5, <1>6, <1>7 DEF Calm

LEMMA GotIpDoneCalm == IInv /\ ~doubled /\ GotIpDone => Calm'
<1> SUFFICES ASSUME IInv, ~doubled, GotIpDone PROVE Calm'
  OBVIOUS
<1>1. /\ Calm /\ Basic /\ evt \in Stages /\ evt' = "idle" /\ SaveStep(evt, "done")
      /\ state' = "CONNECTED"
      /\ UNCHANGED <<cur, attempts, listVars, mailVars, ctrl, took, httpd, pick,
                     driverVars, countVars, doubled, stale>>
  BY DEF IInv, GotIpDone, Basic, Types
<1>2. state = "CONNECTING" /\ httpd = "off"
  BY <1>1 DEF Calm, Linked, Posted, Stages
<1>3. Linked'
  BY <1>1, <1>2 DEF Calm, Linked, Stages
<1>4. Posted'
  BY <1>1, <1>2 DEF Calm, Posted, Submitting, Stages
<1>5. Aimed'
  BY <1>1, <1>2 DEF Calm, Aimed, Attempt, Submitting, Stages
<1>6. Counted'
  BY <1>1, <1>2 DEF Calm, Counted
<1>7. Kept'
  BY <1>1, <1>2, SaveGoesOn DEF Calm, Kept, Stages
<1> QED
  BY <1>3, <1>4, <1>5, <1>6, <1>7 DEF Calm

LEMMA BootCalm == IInv /\ ~doubled /\ Boot => Calm'
<1> SUFFICES ASSUME IInv, ~doubled, Boot PROVE Calm'
  OBVIOUS
<1>1. Calm /\ took = 0 /\ ctrl = "boot" /\ ctrl' = "wait"
  BY DEF IInv, Basic, Carrying, Boot
<1>2. /\ state = "DISCONNECTED" /\ drv = "idle" /\ events = <<>> /\ evt = "idle"
      /\ httpd = "off" /\ cmd \notin {1, 2, 3}
  BY <1>1 DEF Calm, Linked, Posted, Submitting
<1>3. UNCHANGED <<listVars, mailVars, took, evt, pick, healVars, flashVars, unsaved,
                  doubled>>
  BY DEF Boot
<1>4. CASE count > 0 /\ StationConnect(Preferred(nets, count), events)
  <2> DEFINE i == Preferred(nets, count)
  <2>1. i \in Slots /\ i \in Nat /\ i < count /\ i <= MaxNetworks
    BY <1>4, PreferredIsListed, LimitsAssumption DEF IInv, Basic, Types, Slots
  <2>2. httpd' = httpd /\ stale' = stale
    BY <1>4 DEF Boot
  <2> HIDE DEF i
  <2>3. CASE Connecting(i, events)
    <3>1. /\ to' = nets[i].ssid /\ drv' = "trying" /\ events' = <<>>
          /\ state' = "CONNECTING" /\ attempts' = 0 /\ cur' = i
          /\ strikes' = 0 /\ spent' = 0
      BY <1>2, <2>3, IdleConnect DEF Connecting
    <3>2. Linked' /\ Counted' /\ Kept'
      BY <1>1, <1>2, <1>3, <2>2, <3>1 DEF Calm, Linked, Counted, Kept, Stored
    <3>3. Posted'
      BY <1>1, <1>2, <1>3, <2>1, <2>2, <3>1 DEF Calm, Posted, Submitting
    <3>4. Aimed'
      BY <1>1, <1>2, <1>3, <2>1, <2>2, <3>1 DEF Calm, Aimed, Attempt, Submitting
    <3> QED
      BY <3>2, <3>3, <3>4 DEF Calm
  <2>4. CASE Refused(events) /\ UNCHANGED <<cur, attempts>>
    <3>1. UNCHANGED <<state, cur, drv, to, events>>
      BY <2>4 DEF Refused
    <3>2. Linked' /\ Counted' /\ Kept'
      BY <1>1, <1>2, <1>3, <2>2, <3>1 DEF Calm, Linked, Counted, Kept, Stored
    <3>3. Posted'
      BY <1>1, <1>2, <1>3, <2>2, <3>1 DEF Calm, Posted, Submitting
    <3>4. Aimed'
      BY <1>1, <1>2, <1>3, <2>2, <3>1 DEF Calm, Aimed, Attempt, Submitting
    <3> QED
      BY <3>2, <3>3, <3>4 DEF Calm
  <2> QED
    BY <1>4, <2>3, <2>4 DEF StationConnect, i
<1>5. CASE count = 0 /\ Portal /\ UNCHANGED <<cur, attempts, armed, driverVars>>
  <2>1. httpd' \in {"off", "up"} /\ state' \in {"DISCONNECTED", "SOFTAP"}
        /\ (httpd' = "up" => state' = "SOFTAP")
    BY <1>2, <1>5 DEF Portal
  <2>2. Linked' /\ Counted'
    BY <1>2, <1>3, <1>5, <2>1 DEF Linked, Counted
  <2>3. Posted'
    BY <1>1, <1>2, <1>3, <1>5, <2>1 DEF Calm, Posted, Submitting
  <2>4. Aimed'
    BY <1>1, <1>2, <1>3, <1>5, <2>1 DEF Calm, Aimed, Attempt, Submitting, Stages
  <2>5. Kept'
    BY <1>1, <1>2, <1>3, <2>1, KeptAlone DEF Calm
  <2> QED
    BY <2>2, <2>3, <2>4, <2>5 DEF Calm
<1> QED
  BY <1>4, <1>5 DEF Boot

LEMMA TimeoutCalm == IInv /\ ~doubled /\ Timeout => Calm'
<1> SUFFICES ASSUME IInv, ~doubled, Timeout PROVE Calm'
  OBVIOUS
<1>1. /\ Calm
      /\ UNCHANGED <<state, cur, listVars, mailVars, ctrl, took, evt, httpd, pick,
                     healVars, flashVars, unsaved, upsets, strikes, spent, doubled, stale>>
  BY DEF IInv, Timeout
<1>2. CASE state = "CONNECTING"
  <2>1. timedOut' = TRUE /\ drv' = "idle" /\ to' = to
        /\ events' = IF drv = "idle" THEN events ELSE Append(events, "other")
    BY <1>2 DEF Timeout, DrvDisconnect
  <2>2. Linked'
    BY <1>1, <1>2, <2>1, Queues DEF Calm, Linked, Kinds, Reasons
  <2>3. drv # "idle" => cmd \notin {1, 3} /\ took \notin {1, 3}
    BY <1>1 DEF Calm, Posted
  <2>4. Posted'
    BY <1>1, <1>2, <2>1, <2>3 DEF Calm, Posted, Submitting
  <2>5. Attempt' => Attempt
    BY <1>1, <2>1 DEF Attempt
  <2>6. Aimed'
    BY <1>1, <1>2, <2>1, <2>5 DEF Calm, Aimed, Submitting
  <2>7. Counted' /\ Kept'
    BY <1>1, <2>1 DEF Calm, Counted, Kept, Stored
  <2> QED
    BY <2>2, <2>4, <2>6, <2>7 DEF Calm
<1>3. CASE state # "CONNECTING"
  <2>1. UNCHANGED <<attempts, timedOut, driverVars>>
    BY <1>3 DEF Timeout
  <2> QED
    BY <1>1, <2>1 DEF Calm, Linked, Posted, Submitting, Aimed, Attempt, Counted, Kept, Stored
<1> QED
  BY <1>2, <1>3

LEMMA ReadCommandCalm == IInv /\ ~doubled /\ ReadCommand => Calm'
<1> SUFFICES ASSUME IInv, ~doubled, ReadCommand PROVE Calm'
  OBVIOUS
<1>1. /\ Calm /\ took = 0 /\ took' = cmd /\ ctrl' = "clear"
      /\ UNCHANGED <<searchVars, cmd, arg, httpd, driverVars, countVars, stale, CtrlRest>>
  BY DEF IInv, Basic, Carrying, ReadCommand
<1>2. Linked' /\ Counted' /\ Kept'
  BY <1>1 DEF Calm, Linked, Counted, Kept, Stored
<1>3. Posted'
  BY <1>1 DEF Calm, Posted, Submitting
<1>4. Aimed'
  BY <1>1 DEF Calm, Aimed, Attempt, Submitting
<1> QED
  BY <1>2, <1>3, <1>4 DEF Calm

LEMMA ClearCommandCalm == IInv /\ ~doubled /\ ClearCommand => Calm'
<1> SUFFICES ASSUME IInv, ~doubled, ClearCommand PROVE Calm'
  OBVIOUS
<1>1. /\ Calm /\ ctrl' # "boot" /\ cmd' = 0
      /\ UNCHANGED <<searchVars, arg, took, httpd, driverVars, countVars, stale, CtrlRest>>
  <2>1. Calm /\ Basic'
    BY ClearCommandBasic DEF IInv
  <2>2. ctrl = "clear" /\ took \in 0 .. 4 /\ took' = took
    BY DEF IInv, Basic, Types, ClearCommand
  <2>3. ctrl' = CASE took = 0 -> "wait" [] took = 1 -> "portal"
                  [] took = 2 -> "close" [] took = 3 -> "backoff" [] took = 4 -> "dns"
    BY DEF ClearCommand
  <2>4. /\ took = 0 => ctrl' # "boot"
        /\ took = 1 => ctrl' # "boot"
        /\ took = 2 => ctrl' # "boot"
        /\ took = 3 => ctrl' # "boot"
        /\ took = 4 => ctrl' # "boot"
    BY <2>3
  <2> QED
    BY <2>1, <2>2, <2>4 DEF ClearCommand
<1>2. Linked' /\ Counted' /\ Kept'
  BY <1>1 DEF Calm, Linked, Counted, Kept, Stored
<1>3. Posted'
  BY <1>1 DEF Calm, Posted, Submitting
<1>4. Aimed'
  BY <1>1 DEF Calm, Aimed, Attempt, Submitting
<1> QED
  BY <1>2, <1>3, <1>4 DEF Calm

LEMMA OpenPortalCalm == IInv /\ ~doubled /\ OpenPortal => Calm'
<1> SUFFICES ASSUME IInv, ~doubled, OpenPortal PROVE Calm'
  OBVIOUS
<1>1. /\ Calm /\ took = 1 /\ took' = 0 /\ ctrl = "portal" /\ ctrl' = "wait" /\ Portal
      /\ UNCHANGED <<cur, attempts, armed, mailVars, driverVars, CtrlRest>>
  BY DEF IInv, Basic, Carrying, OpenPortal, Done
<1>2. /\ state = "CONNECTING" /\ drv = "idle" /\ evt = "idle" /\ events = <<>>
      /\ httpd = "off" /\ cmd \in {0, 4}
  BY <1>1 DEF Calm, Posted
<1>3. \/ httpd' = "up" /\ state' = "SOFTAP"
      \/ httpd' = "off" /\ UNCHANGED <<state, countVars, stale>>
  BY <1>1 DEF Portal
<1>4. Linked' /\ Counted'
  BY <1>1, <1>2, <1>3 DEF Calm, Linked, Counted
<1>5. Posted'
  BY <1>1, <1>2, <1>3 DEF Calm, Posted, Submitting
<1>6. Aimed'
  BY <1>1, <1>2, <1>3 DEF Calm, Aimed, Attempt, Submitting, Stages
<1>7. Kept'
  BY <1>1, <1>2, <1>3, KeptAlone DEF Calm
<1> QED
  BY <1>4, <1>5, <1>6, <1>7 DEF Calm

LEMMA CloseAndConnectCalm == IInv /\ ~doubled /\ CloseAndConnect => Calm'
<1> SUFFICES ASSUME IInv, ~doubled, CloseAndConnect PROVE Calm'
  OBVIOUS
<1>1. /\ Calm /\ took = 2 /\ took' = 0 /\ ctrl = "close" /\ ctrl' = "wait"
      /\ httpd \in {"off", "up"} /\ httpd' = "off" /\ StationConnect(arg, events)
      /\ UNCHANGED <<mailVars, stale, CtrlRest>> /\ arg \in Slots
  BY DEF IInv, Basic, Types, Carrying, CloseAndConnect, Done
<1>2. /\ state = "SOFTAP" /\ drv = "idle" /\ evt = "idle" /\ events = <<>>
      /\ cmd \in {0, 4} /\ (~stale => arg < count)
  BY <1>1 DEF Calm, Posted, Linked, Aimed, Submitting
<1>3. Kept'
  BY <1>1, <1>2, KeptAlone DEF Calm
<1>4. CASE Connecting(arg, events)
  <2>1. /\ to' = nets[arg].ssid /\ drv' = "trying" /\ events' = <<>>
        /\ state' = "CONNECTING" /\ attempts' = 0 /\ cur' = arg
        /\ strikes' = 0 /\ spent' = 0
    BY <1>2, <1>4, IdleConnect DEF Connecting
  <2>2. Linked' /\ Counted'
    BY <1>1, <1>2, <2>1 DEF Linked, Counted
  <2>3. arg \in Nat /\ arg <= MaxNetworks
    BY <1>1, LimitsAssumption DEF Slots
  <2>4. Posted'
    BY <1>1, <1>2, <2>1, <2>3 DEF Calm, Posted, Submitting
  <2>5. Aimed'
    BY <1>1, <1>2, <2>1 DEF Aimed, Attempt, Submitting, Stages
  <2> QED
    BY <1>3, <2>2, <2>4, <2>5 DEF Calm
<1>5. CASE Refused(events) /\ UNCHANGED <<cur, attempts>>
  <2>1. UNCHANGED <<state, cur, drv, to, events, countVars, attempts>>
    BY <1>5 DEF Refused
  <2>2. Linked' /\ Counted'
    BY <1>1, <1>2, <2>1 DEF Linked, Counted
  <2>3. Posted'
    BY <1>1, <1>2, <2>1 DEF Calm, Posted, Submitting
  <2>4. Aimed'
    BY <1>1, <1>2, <2>1 DEF Calm, Aimed, Attempt, Submitting, Stages
  <2> QED
    BY <1>3, <2>2, <2>3, <2>4 DEF Calm
<1> QED
  BY <1>1, <1>4, <1>5 DEF StationConnect

LEMMA BackoffCalm == IInv /\ ~doubled /\ Backoff => Calm'
<1> SUFFICES ASSUME IInv, ~doubled, Backoff PROVE Calm'
  OBVIOUS
<1>1. /\ Calm /\ ctrl = "backoff" /\ ctrl' = "scan" /\ took = 3 /\ took' = 3
      /\ UNCHANGED <<searchVars, mailVars, httpd, driverVars, countVars, stale, CtrlRest>>
  BY DEF IInv, Basic, Carrying, Backoff
<1>2. Linked' /\ Counted' /\ Kept'
  BY <1>1 DEF Calm, Linked, Counted, Kept, Stored
<1>3. Posted' /\ Aimed'
  BY <1>1 DEF Calm, Posted, Aimed, Attempt, Submitting
<1> QED
  BY <1>2, <1>3 DEF Calm

LEMMA ScanAndConnectCalm == IInv /\ ~doubled /\ ScanAndConnect => Calm'
<1> SUFFICES ASSUME IInv, ~doubled, ScanAndConnect PROVE Calm'
  OBVIOUS
<1>1. /\ Calm /\ took = 3 /\ took' = 0 /\ ctrl = "scan" /\ ctrl' = "wait"
      /\ DrvConnect(to, events)
      /\ UNCHANGED <<searchVars, mailVars, httpd, countVars, stale, CtrlRest>>
  BY DEF IInv, Basic, Carrying, ScanAndConnect, Done
<1>2. /\ state = "CONNECTING" /\ drv = "idle" /\ evt = "idle" /\ events = <<>>
      /\ cmd \in {0, 4}
  BY <1>1 DEF Calm, Posted
<1>3. to' = to /\ drv' = "trying" /\ events' = <<>>
  BY <1>1, <1>2, IdleConnect
<1>4. Linked' /\ Counted' /\ Kept'
  BY <1>1, <1>2, <1>3 DEF Calm, Linked, Counted, Kept, Stored
<1>5. Posted'
  BY <1>1, <1>2, <1>3 DEF Calm, Posted, Submitting
<1>6. Aimed'
  BY <1>1, <1>2, <1>3 DEF Calm, Aimed, Attempt, Submitting
<1> QED
  BY <1>4, <1>5, <1>6 DEF Calm

LEMMA DnsCheckCalm == IInv /\ ~doubled /\ DnsCheck => Calm'
<1> SUFFICES ASSUME IInv, ~doubled, DnsCheck PROVE Calm'
  OBVIOUS
<1>1. /\ Calm /\ took = 4 /\ took' = 0 /\ ctrl = "dns" /\ ctrl' = "wait"
      /\ UNCHANGED <<searchVars, mailVars, httpd, countVars, stale, CtrlRest>>
  BY DEF IInv, Basic, Carrying, DnsCheck, Done
<1>2. \/ UNCHANGED driverVars
      \/ /\ drv # "idle" /\ drv' = "idle" /\ to' = to
         /\ events' = Append(events, "other")
  BY DEF DnsCheck, DrvDisconnect
<1>3. Counted' /\ Kept'
  BY <1>1 DEF Calm, Counted, Kept, Stored
<1>4. Linked'
  BY <1>1, <1>2, Queues DEF Calm, Linked, Kinds, Reasons
<1>5. Posted'
  BY <1>1, <1>2 DEF Calm, Posted, Submitting
<1>6. Aimed'
  BY <1>1, <1>2 DEF Calm, Aimed, Attempt, Submitting
<1> QED
  BY <1>3, <1>4, <1>5, <1>6 DEF Calm

\* A first submission, or one after the last was carried out.
LEMMA SubmitCalm ==
    ASSUME IInv, ~doubled, NEW s \in Ssids, Submit(s), ~doubled'
    PROVE  Calm'
<1>1. /\ Calm /\ ~Submitting /\ httpd = "up" /\ httpd' \in Stages /\ stale' = stale
      /\ SaveWrite(Listed(nets', count'), httpd')
      /\ UNCHANGED <<file, mailVars, HttpRest>>
  BY DEF IInv, Submit
<1>2. /\ count' \in 0 .. MaxNetworks /\ count \in 0 .. MaxNetworks /\ count <= count'
      /\ pick' < count'
  BY SubmitList, LimitsAssumption DEF IInv, Basic, Types
<1>3. /\ state = "SOFTAP" /\ drv = "idle" /\ evt = "idle" /\ events = <<>>
      /\ cmd \notin {1, 2, 3} /\ took \notin {1, 2, 3}
  BY <1>1 DEF Calm, Posted, Linked, Submitting
<1>4. Linked' /\ Counted'
  BY <1>1, <1>3 DEF Linked, Counted
<1>5. Posted'
  BY <1>1, <1>3 DEF Calm, Posted, Submitting, Stages
<1>6. Aimed'
  BY <1>1, <1>2, <1>3 DEF Aimed, Attempt, Submitting
<1>7. Kept'
  BY <1>1, <1>3, SaveBegins DEF Kept, Stages
<1> QED
  BY <1>4, <1>5, <1>6, <1>7 DEF Calm

LEMMA DeleteCalm ==
    ASSUME IInv, ~doubled, NEW s \in Ssids, Delete(s)
    PROVE  Calm'
<1>1. /\ Calm /\ httpd = "up" /\ httpd' \in Stages /\ stale' = (stale \/ Submitting)
      /\ UNCHANGED <<file, mailVars, pick, doubled, HttpRest>>
      /\ SaveWrite(Listed(nets', count'), httpd')
  BY DEF IInv, Delete
<1>2. /\ state = "SOFTAP" /\ drv = "idle" /\ evt = "idle" /\ events = <<>>
      /\ cmd \notin {1, 3} /\ took \notin {1, 3} /\ pick = -1 /\ count' \in Nat
  <2>1. count' \in 0 .. MaxNetworks
    BY DeleteList DEF IInv
  <2> QED
    BY <1>1, <2>1, LimitsAssumption DEF Calm, Posted, Linked
<1>3. Linked' /\ Counted'
  BY <1>1, <1>2 DEF Linked, Counted
<1>4. Posted'
  BY <1>1, <1>2 DEF Calm, Posted, Submitting, Stages
<1>5. Aimed'
  <2>1. ~Attempt' /\ evt' = "idle" /\ state' # "CONNECTED" /\ (Submitting' => stale')
    BY <1>1, <1>2 DEF Attempt, Submitting
  <2>2. pick' < count'
    BY <1>1, <1>2
  <2> QED
    BY <2>1, <2>2 DEF Aimed
<1>6. Kept'
  BY <1>1, <1>2, SaveBegins DEF Kept, Stages
<1> QED
  BY <1>3, <1>4, <1>5, <1>6 DEF Calm

LEMMA HttpSaveCalm == IInv /\ ~doubled /\ HttpSave => Calm'
<1> SUFFICES ASSUME IInv, ~doubled, HttpSave PROVE Calm'
  OBVIOUS
<1>1. /\ Calm /\ Basic /\ httpd \in Stages /\ httpd' \in Stages /\ SaveStep(httpd, httpd')
      /\ UNCHANGED <<listVars, mailVars, pick, doubled, stale, HttpRest>>
  BY DEF IInv, HttpSave, SaveStep, SaveRemove, SaveRename, SaveFallback, SaveDirect,
     SaveSkip, Stages
<1>2. state = "SOFTAP" /\ evt = "idle"
  BY <1>1 DEF Calm, Posted, Linked, Stages
<1>3. Linked' /\ Counted'
  BY <1>1 DEF Calm, Linked, Counted
<1>4. Posted'
  BY <1>1 DEF Calm, Posted, Submitting, Stages
<1>5. Aimed'
  BY <1>1, <1>2 DEF Calm, Aimed, Attempt, Submitting
<1>6. Kept'
  BY <1>1, <1>2, SaveGoesOn DEF Calm, Kept, Stages
<1> QED
  BY <1>3, <1>4, <1>5, <1>6 DEF Calm

LEMMA HttpDoneCalm == IInv /\ ~doubled /\ HttpDone => Calm'
<1> SUFFICES ASSUME IInv, ~doubled, HttpDone PROVE Calm'
  OBVIOUS
<1>1. /\ Calm /\ Basic /\ httpd \in Stages /\ httpd' = "up" /\ SaveStep(httpd, "done")
      /\ pick' = -1
      /\ \/ pick >= 0 /\ cmd' = 2 /\ arg' = pick
         \/ pick < 0 /\ UNCHANGED mailVars
      /\ UNCHANGED <<listVars, doubled, stale, HttpRest>>
  BY DEF IInv, HttpDone, Post
<1>2. /\ state = "SOFTAP" /\ drv = "idle" /\ evt = "idle" /\ events = <<>>
      /\ cmd \notin {1, 3} /\ took \notin {1, 3}
      /\ (pick >= 0 => took # 2)
      /\ (~stale => pick < count)
  BY <1>1 DEF Calm, Posted, Linked, Aimed, Submitting, Stages
<1>3. Linked' /\ Counted'
  BY <1>1, <1>2 DEF Linked, Counted
<1>4. Kept'
  BY <1>1, <1>2, SaveGoesOn DEF Calm, Kept, Stages
<1>5. Posted'
  BY <1>1, <1>2 DEF Calm, Posted, Submitting
<1>6. Aimed'
  BY <1>1, <1>2 DEF Calm, Aimed, Attempt, Submitting, Stages
<1> QED
  BY <1>3, <1>4, <1>5, <1>6 DEF Calm

LEMMA WebsocketCalm ==
    ASSUME IInv, ~doubled, NoteWsFail \/ PostSelfCheck \/ CoolDown
    PROVE  Calm'
<1>1. Calm /\ UNCHANGED WsRest /\ cmd' \in {cmd, 4}
  BY DEF IInv, NoteWsFail, PostSelfCheck, CoolDown, Post
<1>2. Linked' /\ Counted' /\ Kept'
  BY <1>1 DEF Calm, Linked, Counted, Kept, Stored
<1>3. Posted'
  BY <1>1 DEF Calm, Posted, Submitting
<1>4. Aimed'
  BY <1>1 DEF Calm, Aimed, Attempt, Submitting
<1> QED
  BY <1>2, <1>3, <1>4 DEF Calm

LEMMA DriverCalm ==
    ASSUME IInv, ~doubled,
           (\E r \in Refusals : Refuse(r)) \/ Associate \/ Address \/ Drop
    PROVE  Calm'
<1>1. /\ Calm /\ UNCHANGED DriverRest /\ drv # "idle"
      /\ \/ /\ drv = "trying" /\ drv' = "idle"
            /\ \E r \in Reasons : events' = Append(events, r)
         \/ drv = "trying" /\ drv' = "mute" /\ events' = events
         \/ drv = "mute" /\ drv' = "up" /\ events' = Append(events, "ip")
         \/ drv \in {"mute", "up"} /\ drv' = "idle" /\ events' = Append(events, "other")
  BY FaultsAssumption DEF IInv, Refuse, Associate, Address, Drop
<1>2. Linked'
  BY <1>1, Queues DEF Calm, Linked, Kinds, Reasons
<1>3. Counted' /\ Kept'
  BY <1>1 DEF Calm, Counted, Kept, Stored
<1>4. Posted'
  BY <1>1 DEF Calm, Posted, Submitting
<1>5. Aimed'
  BY <1>1 DEF Calm, Aimed, Attempt, Submitting
<1> QED
  BY <1>2, <1>3, <1>4, <1>5 DEF Calm

\* What holds until the second submission is kept by every step.
LEMMA CalmStep == IInv /\ [Next]_vars /\ ~doubled' => Calm'
<1> SUFFICES ASSUME IInv, [Next]_vars, ~doubled' PROVE Calm'
  OBVIOUS
<1>1. CASE Restart
  BY <1>1, RestartCalm DEF IInv
<1>2. CASE ~Restart
  <2>1. ~doubled
    BY <1>2 DEF Next, Boot, PowerCut, EventLoop, LinkLost, Retry, GiveUp, IgnoreEvent,
       GotIp, GotIpSave, GotIpDone, Timeout, CtrlTask, ReadCommand, ClearCommand,
       OpenPortal, CloseAndConnect, Backoff, BackoffBreak, ScanAndConnect, DnsCheck,
       Submit, Delete, HttpTask, HttpSave, HttpDone, NoteWsFail, PostSelfCheck,
       CoolDown, Refuse, Associate, Address, Drop
  <2>2. CASE Boot
    BY <2>1, <2>2, BootCalm
  <2>3. CASE EventLoop
    BY <2>1, <2>3, LinkLostCalm, RetryCalm, GiveUpCalm, NoIgnoredEvent, GotIpCalm,
       GotIpSaveCalm, GotIpDoneCalm DEF EventLoop, IInv
  <2>4. CASE Timeout
    BY <2>1, <2>4, TimeoutCalm
  <2>5. CASE CtrlTask
    BY <1>2, <2>1, <2>5, ReadCommandCalm, ClearCommandCalm, OpenPortalCalm,
       CloseAndConnectCalm, BackoffCalm, ScanAndConnectCalm, DnsCheckCalm
       DEF CtrlTask, BackoffBreak
  <2>6. CASE \E s \in Ssids : Submit(s) \/ Delete(s)
    BY <2>1, <2>6, SubmitCalm, DeleteCalm
  <2>7. CASE HttpTask
    BY <2>1, <2>7, HttpSaveCalm, HttpDoneCalm DEF HttpTask
  <2>8. CASE NoteWsFail \/ PostSelfCheck \/ CoolDown
    BY <2>1, <2>8, WebsocketCalm
  <2>9. CASE (\E r \in Refusals : Refuse(r)) \/ Associate \/ Address \/ Drop
    BY <2>1, <2>9, DriverCalm
  <2>10. CASE UNCHANGED vars
    BY <2>1, <2>10 DEF IInv, Calm, Linked, Posted, Submitting, Aimed, Attempt, Counted,
       Kept, Stored
  <2> QED
    BY <1>2, <2>2, <2>3, <2>4, <2>5, <2>6, <2>7, <2>8, <2>9, <2>10 DEF Next, PowerCut
<1> QED
  BY <1>1, <1>2

-----------------------------------------------------------------------------
(***************************************************************************)
(* The theorems.                                                           *)
(***************************************************************************)
LEMMA InitIsGood == Init => IInv
<1> SUFFICES ASSUME Init PROVE IInv
  OBVIOUS
<1>1. NoFile \in Files /\ file \in Files /\ tmp \in Files
  BY DEF Init, Files
<1>2. Stored \in Files /\ Stored # NoFile
  BY <1>1, StoredIsFile
<1>3. /\ count \in 0 .. MaxNetworks /\ nets \in [Slots -> SlotEntry]
      /\ GoodList(nets, count) /\ Listed(nets, count) = Stored
  BY <1>2, LoadedList DEF Init
<1>4. 0 \in 0 .. RetryMax /\ 0 \in Slots /\ 0 \in 0 .. WsFailLimit - 1 /\ <<>> \in Seq(Kinds)
      /\ 0 \in 0 .. MaxUpsets
  BY LimitsAssumption DEF Slots
<1>5. Types
  <2>1. /\ armed \in BOOLEAN /\ notified \in BOOLEAN /\ cooling \in BOOLEAN
        /\ timedOut \in BOOLEAN /\ unsaved \in BOOLEAN /\ doubled \in BOOLEAN
        /\ stale \in BOOLEAN
    BY DEF Init
  <2>2. /\ attempts \in 0 .. RetryMax /\ strikes \in 0 .. RetryMax
        /\ spent \in 0 .. RetryMax /\ arg \in Slots /\ pick \in Slots \cup {-1}
        /\ wsFails \in 0 .. WsFailLimit - 1 /\ upsets \in 0 .. MaxUpsets
        /\ cmd \in 0 .. 4 /\ took \in 0 .. 4 /\ cur \in Nat \cup {-1}
    BY <1>4 DEF Init
  <2>3. /\ state \in States /\ to \in Ssids \cup {NoSsid} /\ events \in Seq(Kinds)
        /\ broken \subseteq {"config", "portal", "overwrite", "deadline"}
    BY <1>4 DEF Init, States
  <2> QED
    BY <1>1, <1>3, <2>1, <2>2, <2>3 DEF Init, Types, SlotEntry, Kinds, Reasons
<1>6. Carrying /\ Linked /\ Counted /\ Kept
  BY <1>3 DEF Init, Carrying, Linked, Counted, Kept, Held, Stages
<1>7. Posted /\ Aimed
  BY <1>3, LimitsAssumption DEF Init, Posted, Submitting, Aimed, Attempt
<1> QED
  BY <1>3, <1>5, <1>6, <1>7 DEF IInv, Basic, Calm

\* The invariant holds in every reachable state.
THEOREM Invariance == Spec => []IInv
<1>1. IInv /\ [Next]_vars => IInv'
  BY BasicStep, CalmStep DEF IInv
<1> QED
  BY InitIsGood, <1>1, PTL DEF Spec

\* Every variable has its type; unless the user has submitted twice in a row, the
\* queue of the event loop is short.
THEOREM TypeCorrect == Spec => []TypeOK
<1>1. IInv => TypeOK
  <2> SUFFICES ASSUME IInv PROVE TypeOK
    OBVIOUS
  <2>1. ASSUME ~doubled PROVE cur <= MaxNetworks /\ Len(events) <= 2
    <3>1. Calm
      BY <2>1 DEF IInv
    <3>2. events \in {<<>>, <<"ip">>, <<"cred">>, <<"absent">>, <<"other">>, <<"ip", "other">>}
      BY <3>1 DEF Calm, Linked
    <3>3. Len(events) <= 2
      <4>1. Len(events) \in {0, 1, 2}
        BY <3>2, Queues DEF Kinds, Reasons
      <4>2. \A n \in {0, 1, 2} : n <= 2
        OBVIOUS
      <4> QED
        BY <4>1, <4>2
    <3>4. cur <= MaxNetworks
      BY <3>1 DEF Calm, Posted
    <3> QED
      BY <3>3, <3>4
  <2> QED
    BY <2>1 DEF TypeOK, IInv, Basic
<1> QED
  BY Invariance, <1>1, PTL

\* A power cut at any point of a save leaves a list to load, unless the flash failed
\* the save or the file is being written in place.
THEOREM ListKept == Spec => []ListSurvives
<1>1. IInv => ListSurvives
  <2> SUFFICES ASSUME IInv, ~doubled PROVE ListSurvives
    BY DEF ListSurvives
  <2>1. Calm /\ evt \in Stages \cup {"idle"} /\ httpd \in Stages \cup {"off", "up"}
    BY DEF IInv, Basic, Types
  <2>2. evt = "idle" \/ httpd = "off"
    BY <2>1 DEF Calm, Linked, Posted
  <2>3. ASSUME ~unsaved, {evt, httpd} \cap Stages = {} PROVE Stored = Listed(nets, count)
    BY <2>1, <2>3 DEF Calm, Kept, Held
  <2>4. ASSUME ~unsaved, {evt, httpd} \cap Stages \cap {"remove", "rename"} # {}
        PROVE  tmp = Listed(nets, count)
    BY <2>4 DEF Calm, Kept, Held, Stages, IInv
  <2> QED
    BY <2>2, <2>3, <2>4 DEF ListSurvives
<1> QED
  BY Invariance, <1>1, PTL

\* The network marked for the next boot is the one the device is connected to.
THEOREM MarkIsRight == Spec => []MarkedIsLinked
<1>1. IInv => MarkedIsLinked
  <2> DEFINE f == Stored
  <2> HIDE DEF f
  <2> SUFFICES ASSUME IInv, state = "CONNECTED", ~doubled, ~stale, ~unsaved
               PROVE  \E i \in DOMAIN f :
                         /\ f[i] = [ssid |-> to, lastOk |-> TRUE]
                         /\ \A j \in DOMAIN f : f[j].lastOk => j = i
    BY DEF MarkedIsLinked, f
  <2>1. Attempt /\ Calm /\ evt = "idle" /\ httpd \in {"off", "up"}
    <3>1. Calm /\ httpd \in Stages \cup {"off", "up"}
      BY DEF IInv, Basic, Types
    <3> QED
      BY <3>1 DEF Calm, Linked, Posted, Attempt
  <2>2. /\ cur \in 0 .. count - 1 /\ to = nets[cur].ssid /\ nets[cur].lastOk
        /\ f = Listed(nets, count) /\ count \in 0 .. MaxNetworks
        /\ GoodList(nets, count)
    <3>1. f = Listed(nets, count)
      BY <2>1 DEF Calm, Kept, Held, f
    <3> QED
      BY <2>1, <3>1, LimitsAssumption DEF Calm, Aimed, IInv, Basic, Types, Slots
  <2>3. /\ DOMAIN f = 1 .. count
        /\ \A j \in 1 .. count : f[j] = nets[j - 1] /\ j - 1 \in 0 .. count - 1
    BY <2>2, ListedIsFile, LimitsAssumption
  <2>4. cur + 1 \in DOMAIN f /\ f[cur + 1] = nets[cur]
    BY <2>2, <2>3, LimitsAssumption
  <2>5. nets[cur] = [ssid |-> to, lastOk |-> TRUE]
    <3>1. nets[cur] \in Entry
      BY <2>2 DEF GoodList
    <3>2. nets[cur].lastOk = TRUE
      BY <2>2, <3>1 DEF Entry
    <3> QED
      BY <2>2, <3>1, <3>2 DEF Entry
  <2>6. \A j \in 1 .. count : f[j].lastOk => j - 1 = cur
    BY <2>2, <2>3 DEF GoodList
  <2>7. \A j \in DOMAIN f : f[j].lastOk => j = cur + 1
    BY <2>2, <2>3, <2>6, LimitsAssumption
  <2> QED
    BY <2>4, <2>5, <2>7
<1> QED
  BY Invariance, <1>1, PTL

\* Nobody ends the search while the control task waits to repeat an attempt, so
\* that the break that would end the task is never reached.
THEOREM BackoffAlone == Spec => []BackoffIsUndisturbed
<1>1. IInv => BackoffIsUndisturbed
  BY DEF IInv, Basic, Carrying, Calm, Posted, BackoffIsUndisturbed
<1> QED
  BY Invariance, <1>1, PTL

\* A network is given up only for its credentials, after a time-out, or when its
\* attempts are used up.
THEOREM GivenUpInFull == Spec => RetriesInFull
<1> DEFINE Excused ==
      \/ Head(events) = "cred"
      \/ timedOut
      \/ strikes + 1 >= RetryMax
      \/ strikes + spent + 1 >= RetryMax /\ spent > 0
<1>1. ASSUME IInv, [Next]_vars, cur' = cur + 1, ctrl' = ctrl, ~doubled
      PROVE  Excused
  <2>1. cur \in Nat \cup {-1} /\ cur' # cur /\ cur' # -1
    BY <1>1 DEF IInv, Basic, Types
  <2>2. GiveUp
    BY <1>1, <2>1 DEF Next, Boot, PowerCut, Restart, Volatile, EventLoop, LinkLost, Retry,
       IgnoreEvent, GotIp, GotIpSave, GotIpDone, Timeout, CtrlTask, ReadCommand,
       ClearCommand, OpenPortal, CloseAndConnect, Done, Backoff, BackoffBreak,
       ScanAndConnect, DnsCheck, Submit, Delete, HttpTask, HttpSave, HttpDone,
       NoteWsFail, PostSelfCheck, CoolDown, Refuse, Associate, Address, Drop
  <2>3. CASE Event("cred")
    BY <2>3 DEF Event
  <2>4. CASE attempts + 1 >= RetryMax
    <3>1. timedOut \/ attempts <= strikes + spent
      BY <1>1, <2>2 DEF GiveUp, IInv, Calm, Counted
    <3>2. /\ attempts \in 0 .. RetryMax /\ strikes \in 0 .. RetryMax
          /\ spent \in 0 .. RetryMax /\ RetryMax \in Nat
      BY <1>1, LimitsAssumption DEF IInv, Basic, Types
    <3> QED
      BY <2>4, <3>1, <3>2
  <2> QED
    BY <2>2, <2>3, <2>4 DEF GiveUp
<1>2. IInv /\ [Next]_vars =>
         [cur' = cur + 1 /\ ctrl' = ctrl /\ ~doubled => Excused]_vars
  BY <1>1
<1> QED
  BY Invariance, <1>2, PTL DEF Spec, RetriesInFull

-----------------------------------------------------------------------------
(***************************************************************************)
(* The refinement: the manager implements NetworkSearch.                   *)
(***************************************************************************)
AbstractStep == [Search!Next]_<<Phase, Position, Size, Asked>>

LEMMA PhaseNames ==
    /\ PhaseName("DISCONNECTED") = "off" /\ PhaseName("CONNECTING") = "search"
    /\ PhaseName("CONNECTED") = "online" /\ PhaseName("SOFTAP") = "portal"
<1>1. PhaseName("DISCONNECTED") = "off"
  BY DEF PhaseName
<1>2. PhaseName("CONNECTING") = "search"
  BY DEF PhaseName
<1>3. PhaseName("CONNECTED") = "online"
  BY DEF PhaseName
<1>4. PhaseName("SOFTAP") = "portal"
  BY DEF PhaseName
<1> QED
  BY <1>1, <1>2, <1>3, <1>4

\* What is seen of the manager before a second submission.
LEMMA SeenCalm ==
    ASSUME ~doubled, Types
    PROVE  /\ Phase = PhaseName(state) /\ Position = Behind(cur) /\ Size = count
           /\ Submitting => Asked = Behind(arg) /\ Asked # -1
           /\ ~Submitting => Asked = -1
           /\ count \in 0 .. MaxNetworks /\ cur \in Nat \cup {-1} /\ arg \in Nat
           /\ MaxNetworks \in Nat
<1>1. /\ count \in 0 .. MaxNetworks /\ cur \in Nat \cup {-1} /\ arg \in Nat
      /\ MaxNetworks \in Nat
  BY LimitsAssumption DEF Types, Slots
<1>2. Behind(arg) # -1
  BY <1>1 DEF Behind
<1> QED
  BY <1>1, <1>2 DEF Phase, Position, Size, Asked

LEMMA RestartSeen ==
    ASSUME Types', Restart
    PROVE  AbstractStep
<1>1. /\ doubled' = FALSE /\ state' = "DISCONNECTED" /\ cur' = -1 /\ cmd' = 0 /\ took' = 0
  BY DEF Restart, Volatile
<1>2. count' \in 0 .. MaxNetworks /\ count' \in Nat
  BY LimitsAssumption DEF Types
<1>3. Phase' = "off" /\ Position' = -1 /\ Size' = count' /\ Asked' = -1
  BY <1>1, <1>2, PhaseNames DEF Phase, Position, Behind, Size, Asked, Submitting
<1>4. Search!Restart
  BY <1>2, <1>3 DEF Search!Restart
<1> QED
  BY <1>4 DEF AbstractStep, Search!Next

LEMMA SeenNext ==
    ASSUME ~doubled', Types'
    PROVE  /\ Phase' = PhaseName(state') /\ Size' = count'
           /\ Position' = IF cur' > count' THEN count' ELSE cur'
           /\ Submitting' => Asked' = IF arg' > count' THEN count' ELSE arg'
           /\ ~Submitting' => Asked' = -1
           /\ count' \in 0 .. MaxNetworks /\ cur' \in Nat \cup {-1} /\ arg' \in Nat
           /\ MaxNetworks \in Nat
<1>1. /\ count' \in 0 .. MaxNetworks /\ cur' \in Nat \cup {-1} /\ arg' \in Nat
      /\ MaxNetworks \in Nat
  BY LimitsAssumption DEF Types, Slots
<1> QED
  BY <1>1 DEF Phase, Position, Size, Asked, Behind

\* A step that does not touch the search.
LEMMA Unseen ==
    ASSUME ~doubled, ~doubled', UNCHANGED <<state, cur, count>>,
           Submitting' <=> Submitting, Submitting => arg' = arg
    PROVE  AbstractStep
<1>1. UNCHANGED <<Phase, Position, Size, Asked>>
  BY DEF Phase, Position, Size, Asked, Behind
<1> QED
  BY <1>1 DEF AbstractStep

\* A step that ends the wish without carrying it out.
LEMMA WishDropped ==
    ASSUME ~doubled, ~doubled', Types, state = "SOFTAP", UNCHANGED <<state, cur, count>>,
           Submitting, ~Submitting'
    PROVE  AbstractStep
<1>1. /\ Phase = "portal" /\ Asked # -1 /\ Asked' = -1
      /\ UNCHANGED <<Phase, Position, Size>>
  BY SeenCalm, PhaseNames DEF Phase, Position, Size, Asked, Behind
<1>2. Search!Offer
  BY <1>1 DEF Search!Offer
<1> QED
  BY <1>2 DEF AbstractStep, Search!Next

LEMMA BootSeen ==
    ASSUME IInv, IInv', ~doubled, Boot
    PROVE  AbstractStep
<1>1. /\ state = "DISCONNECTED" /\ ~Submitting /\ ~Submitting' /\ ~doubled'
      /\ count' = count /\ Types /\ Types'
  <2>1. ctrl = "boot" /\ took = 0 /\ UNCHANGED <<cmd, took, doubled, count>>
    BY DEF Boot, IInv, Basic, Carrying
  <2> QED
    BY <2>1 DEF IInv, Basic, Calm, Posted, Submitting
<1>2. /\ Phase = "off" /\ Asked = -1 /\ Asked' = -1 /\ Size = count /\ Size' = count
      /\ Phase' = PhaseName(state') /\ count \in Nat
      /\ Position' = IF cur' > count THEN count ELSE cur'
  BY <1>1, SeenCalm, SeenNext, PhaseNames
<1>3. CASE count > 0 /\ Connecting(Preferred(nets, count), events)
  <2>1. cur' \in 0 .. count - 1 /\ state' = "CONNECTING"
    BY <1>3, PreferredIsListed DEF Connecting, IInv, Basic, Types
  <2>2. Search!Start
    BY <1>2, <2>1, PhaseNames DEF Search!Start
  <2> QED
    BY <2>2 DEF AbstractStep, Search!Next
<1>4. CASE count > 0 /\ Refused(events) /\ UNCHANGED <<cur, attempts>>
  BY <1>1, <1>4, Unseen DEF Refused
<1>5. CASE count = 0 /\ Portal /\ UNCHANGED cur
  <2>1. CASE state' = "SOFTAP"
    <3>1. Position' = Position
      BY <1>1, <1>5 DEF Position, Behind
    <3>2. Search!Start
      BY <1>2, <1>5, <2>1, <3>1, PhaseNames DEF Search!Start
    <3> QED
      BY <3>2 DEF AbstractStep, Search!Next
  <2>2. CASE state' = state
    BY <1>1, <1>5, <2>2, Unseen
  <2> QED
    BY <1>5, <2>1, <2>2 DEF Portal
<1> QED
  BY <1>3, <1>4, <1>5 DEF Boot, StationConnect

LEMMA EventLoopSeen ==
    ASSUME IInv, IInv', ~doubled, EventLoop
    PROVE  AbstractStep
<1>1. Calm /\ Types /\ Types' /\ count \in Nat /\ cur \in Int /\ count' = count
      /\ doubled' = FALSE /\ took' = took
  BY LimitsAssumption DEF IInv, Basic, Types, EventLoop, LinkLost, Retry, GiveUp,
     IgnoreEvent, GotIp, GotIpSave, GotIpDone
<1>2. CASE LinkLost
  <2>1. /\ state = "CONNECTED" /\ state' = "CONNECTING"
        /\ UNCHANGED <<cur, cmd, arg, took, count, doubled>>
    BY <1>2 DEF LinkLost
  <2>2. /\ Phase = "online" /\ Phase' = "search" /\ UNCHANGED <<Position, Size, Asked>>
    BY <1>1, <2>1, PhaseNames DEF Phase, Position, Size, Asked, Behind, Submitting
  <2>3. Search!Dropped
    BY <2>2 DEF Search!Dropped
  <2> QED
    BY <2>3 DEF AbstractStep, Search!Next
<1>3. CASE Retry
  <2>1. cmd \notin {1, 2, 3} /\ took \notin {1, 2, 3}
    BY <1>1, <1>3, CalmEvent DEF Calm, Retry
  <2>2. cmd' = 3 /\ UNCHANGED <<state, cur, count, took>>
    BY <1>3 DEF Retry, Post
  <2> QED
    BY <1>1, <2>1, <2>2, Unseen DEF Submitting
<1>4. CASE GiveUp
  <2>1. cmd \notin {1, 2, 3} /\ took \notin {1, 2, 3} /\ events # <<>> /\ drv = "idle"
    <3>1. PICK e \in Reasons : Event(e)
      BY <1>4 DEF GiveUp
    <3> QED
      BY <1>1, <3>1, CalmEvent DEF Calm, Event
  <2>2. /\ state = "CONNECTING" /\ state' = "CONNECTING" /\ cur' = cur + 1 /\ cmd' # 2
    BY <1>4, <2>1 DEF GiveUp, TryNext, Connecting, Refused, Post
  <2>3. ~Submitting /\ ~Submitting'
    BY <1>1, <2>1, <2>2 DEF Submitting
  <2>4. /\ Phase = "search" /\ Phase' = "search" /\ Asked = -1 /\ Asked' = -1
        /\ Size = count /\ Size' = count
        /\ Position = (IF cur > count THEN count ELSE cur)
        /\ Position' = (IF cur + 1 > count THEN count ELSE cur + 1)
    BY <1>1, <2>2, <2>3, SeenCalm, SeenNext, PhaseNames DEF Behind
  <2>5. CASE cur < count
    <3>1. Search!MoveOn
      BY <1>1, <2>4, <2>5 DEF Search!MoveOn
    <3> QED
      BY <3>1 DEF AbstractStep, Search!Next
  <2>6. CASE cur >= count
    BY <1>1, <2>4, <2>6 DEF AbstractStep
  <2> QED
    BY <1>1, <2>5, <2>6
<1>5. CASE IgnoreEvent
  BY <1>1, <1>5, NoIgnoredEvent
<1>6. CASE GotIp \/ GotIpSave
  BY <1>1, <1>6, Unseen DEF GotIp, GotIpSave, Submitting
<1>7. CASE GotIpDone
  <2>1. /\ state = "CONNECTING" /\ state' = "CONNECTED"
        /\ UNCHANGED <<cur, cmd, arg, took, count, doubled>>
    BY <1>1, <1>7 DEF GotIpDone, Calm, Linked
  <2>2. /\ Phase = "search" /\ Phase' = "online" /\ UNCHANGED <<Position, Size, Asked>>
    BY <1>1, <2>1, PhaseNames DEF Phase, Position, Size, Asked, Behind, Submitting
  <2>3. Search!Online
    BY <2>2 DEF Search!Online
  <2> QED
    BY <2>3 DEF AbstractStep, Search!Next
<1> QED
  BY <1>2, <1>3, <1>4, <1>5, <1>6, <1>7 DEF EventLoop

LEMMA CtrlTaskSeen ==
    ASSUME IInv, IInv', ~doubled, CtrlTask
    PROVE  AbstractStep
<1>1. Calm /\ Types /\ Types' /\ count \in Nat /\ cur \in Int
  BY LimitsAssumption DEF IInv, Basic, Types
<1>2. CASE ReadCommand
  <2>1. took = 0
    BY <1>2 DEF ReadCommand, IInv, Basic, Carrying
  <2> QED
    BY <1>2, <2>1, Unseen DEF ReadCommand, Submitting
<1>3. CASE ClearCommand
  <2>1. UNCHANGED <<state, cur, count, arg, took, doubled>> /\ cmd' = 0
    BY <1>3 DEF ClearCommand
  <2>2. CASE cmd = 2 /\ took # 2
    <3>1. Submitting /\ ~Submitting' /\ state = "SOFTAP"
      BY <1>1, <2>1, <2>2 DEF Submitting, Calm, Posted
    <3> QED
      BY <1>1, <2>1, <3>1, WishDropped
  <2>3. CASE ~(cmd = 2 /\ took # 2)
    BY <2>1, <2>3, Unseen DEF Submitting
  <2> QED
    BY <2>2, <2>3
<1>4. CASE OpenPortal
  <2>1. /\ took = 1 /\ took' = 0 /\ Portal
        /\ UNCHANGED <<cur, cmd, arg, count, doubled>>
    BY <1>4 DEF OpenPortal, Done, IInv, Basic, Carrying
  <2>2. state = "CONNECTING" /\ cmd # 2 /\ cur >= count /\ ~Submitting /\ ~Submitting'
    BY <1>1, <2>1 DEF Calm, Posted, Submitting
  <2>3. CASE state' = "SOFTAP"
    <3>1. /\ Phase = "search" /\ Phase' = "portal" /\ Size = count /\ Position = count
          /\ UNCHANGED <<Position, Size, Asked>>
      BY <1>1, <2>1, <2>2, <2>3, PhaseNames DEF Phase, Position, Size, Asked, Behind
    <3>2. Search!Exhausted
      BY <1>1, <3>1 DEF Search!Exhausted
    <3> QED
      BY <3>2 DEF AbstractStep, Search!Next
  <2>4. CASE state' = state
    BY <2>1, <2>2, <2>4, Unseen
  <2> QED
    BY <2>1, <2>3, <2>4 DEF Portal
<1>5. CASE CloseAndConnect
  <2>1. /\ took = 2 /\ took' = 0 /\ ctrl = "close" /\ StationConnect(arg, events)
        /\ UNCHANGED <<cmd, arg, count, doubled>>
    BY <1>5 DEF CloseAndConnect, Done, IInv, Basic, Carrying
  <2>2. state = "SOFTAP" /\ cmd # 2 /\ Submitting /\ ~Submitting'
    BY <1>1, <2>1 DEF Calm, Posted, Submitting
  <2>3. CASE Connecting(arg, events)
    <3>1. cur' = arg /\ state' = "CONNECTING"
      BY <2>3 DEF Connecting
    <3>2. /\ Phase = "portal" /\ Phase' = "search" /\ Asked # -1 /\ Asked' = -1
          /\ Size' = Size /\ Position' = Asked
      BY <1>1, <2>1, <2>2, <3>1, SeenCalm, SeenNext, PhaseNames DEF Behind
    <3>3. Search!Offer
      BY <3>2 DEF Search!Offer
    <3> QED
      BY <3>3 DEF AbstractStep, Search!Next
  <2>4. CASE Refused(events) /\ UNCHANGED <<cur, attempts>>
    BY <1>1, <2>1, <2>2, <2>4, WishDropped DEF Refused
  <2> QED
    BY <2>1, <2>3, <2>4 DEF StationConnect
<1>6. CASE Backoff \/ ScanAndConnect \/ DnsCheck
  <2>1. took \in {3, 4} /\ took' # 2 /\ UNCHANGED <<state, cur, count, cmd, arg, doubled>>
    BY <1>6 DEF Backoff, ScanAndConnect, DnsCheck, Done, IInv, Basic, Carrying
  <2> QED
    BY <2>1, Unseen DEF Submitting
<1>7. CASE BackoffBreak
  BY <1>1, <1>7, RestartSeen DEF BackoffBreak
<1> QED
  BY <1>2, <1>3, <1>4, <1>5, <1>6, <1>7 DEF CtrlTask

\* A submission or a deletion edits the list behind the portal.
LEMMA PortalSeen ==
    ASSUME IInv, IInv', ~doubled, NEW s \in Ssids, Submit(s) \/ Delete(s)
    PROVE  AbstractStep
<1>1. /\ Calm /\ Types /\ Types' /\ httpd = "up" /\ UNCHANGED <<cmd, arg, HttpRest>>
      /\ Submitting' = Submitting
  BY DEF IInv, Basic, Submit, Delete, Submitting
<1>2. state = "SOFTAP" /\ state' = "SOFTAP" /\ cur' = cur
  BY <1>1 DEF Calm, Posted
<1>3. /\ count' \in 0 .. MaxNetworks /\ count \in 0 .. MaxNetworks /\ MaxNetworks \in Nat
      /\ cur \in Nat \cup {-1} /\ arg \in Nat
      /\ Submit(s) => count <= count' /\ count' <= count + 1
      /\ Delete(s) => count' = count - 1
  BY SubmitList, DeleteList, SeenCalm, <1>1 DEF IInv
<1>4. /\ Phase = "portal" /\ Size = count /\ Position = IF cur > count THEN count ELSE cur
      /\ Submitting => Asked # -1
      /\ ~Submitting => Asked = -1
  BY <1>1, <1>2, SeenCalm, PhaseNames DEF Behind
<1>5. CASE doubled'
  <2>1. Submitting
    BY <1>5 DEF Submit, Delete
  <2>2. Phase' = "hasty" /\ Position' = -1 /\ Size' = 0 /\ Asked' = -1
    BY <1>5 DEF Phase, Position, Size, Asked
  <2>3. Search!Hasten
    BY <1>4, <2>1, <2>2 DEF Search!Hasten
  <2> QED
    BY <2>3 DEF AbstractStep, Search!Next
<1>6. CASE ~doubled'
  <2>1. /\ Phase' = "portal" /\ Size' = count'
        /\ Position' = IF cur > count' THEN count' ELSE cur
        /\ Submitting => Asked' = IF arg > count' THEN count' ELSE arg
        /\ ~Submitting => Asked' = -1
    BY <1>1, <1>2, <1>6, SeenNext, PhaseNames
  <2>2. Position' \in {Position, Size'}
    BY <1>3, <1>4, <2>1
  <2>3. Asked' \in {Asked} \cup 0 .. Size'
    BY <1>3, <1>4, <2>1
  <2>4. Search!Edit
    BY <1>3, <1>4, <2>1, <2>2, <2>3 DEF Search!Edit
  <2> QED
    BY <2>4 DEF AbstractStep, Search!Next
<1> QED
  BY <1>5, <1>6

LEMMA HttpTaskSeen ==
    ASSUME IInv, IInv', ~doubled, HttpTask
    PROVE  AbstractStep
<1>1. /\ Calm /\ Types /\ Types' /\ httpd # "off"
      /\ UNCHANGED <<count, doubled, HttpRest>>
  <2>1. httpd \in Stages
    BY DEF HttpTask, HttpSave, HttpDone, SaveStep, SaveRemove, SaveRename, SaveFallback,
       SaveDirect, SaveSkip, Stages
  <2> QED
    BY <2>1 DEF IInv, Basic, HttpTask, HttpSave, HttpDone, Stages
<1>2. state = "SOFTAP"
  BY <1>1 DEF Calm, Posted
<1>3. CASE UNCHANGED <<cmd, arg>>
  BY <1>1, <1>3, Unseen DEF Submitting
<1>4. CASE HttpDone /\ pick >= 0 /\ cmd' = 2
  <2>1. ~Submitting /\ Submitting'
    BY <1>1, <1>4 DEF HttpDone, Calm, Posted, Submitting, Stages
  <2>2. /\ Phase = "portal" /\ Size \in 0 .. MaxNetworks
        /\ UNCHANGED <<Phase, Position, Size>>
    BY <1>1, <1>2, SeenCalm, PhaseNames DEF Phase, Position, Size, Behind
  <2>3. Asked' \in 0 .. Size'
    BY <1>1, <2>1, SeenNext
  <2>4. Search!Edit
    BY <2>2, <2>3 DEF Search!Edit
  <2> QED
    BY <2>4 DEF AbstractStep, Search!Next
<1> QED
  BY <1>3, <1>4 DEF HttpTask, HttpSave, HttpDone, Post

LEMMA WebsocketSeen ==
    ASSUME IInv, IInv', ~doubled, NoteWsFail \/ PostSelfCheck \/ CoolDown
    PROVE  AbstractStep
<1>1. Calm /\ Types /\ UNCHANGED WsRest /\ cmd' \in {cmd, 4}
  BY DEF IInv, Basic, NoteWsFail, PostSelfCheck, CoolDown, Post
<1>2. CASE Submitting /\ ~Submitting'
  <2>1. state = "SOFTAP"
    BY <1>1, <1>2 DEF Calm, Posted
  <2> QED
    BY <1>1, <1>2, <2>1, WishDropped
<1>3. CASE Submitting' <=> Submitting
  BY <1>1, <1>3, Unseen
<1> QED
  BY <1>1, <1>2, <1>3 DEF Submitting

\* Every step of the manager is one of the abstract search or is not seen there.
LEMMA StepRefines == IInv /\ IInv' /\ [Next]_vars => AbstractStep
<1> SUFFICES ASSUME IInv, IInv', [Next]_vars PROVE AbstractStep
  OBVIOUS
<1>1. CASE Restart
  BY <1>1, RestartSeen DEF IInv, Basic
<1>2. CASE doubled /\ ~Restart
  <2>1. doubled'
    BY <1>2 DEF Next, Boot, PowerCut, EventLoop, LinkLost, Retry, GiveUp, IgnoreEvent,
       GotIp, GotIpSave, GotIpDone, Timeout, CtrlTask, ReadCommand, ClearCommand,
       OpenPortal, CloseAndConnect, Backoff, BackoffBreak, ScanAndConnect, DnsCheck,
       Submit, Delete, HttpTask, HttpSave, HttpDone, NoteWsFail, PostSelfCheck,
       CoolDown, Refuse, Associate, Address, Drop
  <2> QED
    BY <1>2, <2>1 DEF AbstractStep, Phase, Position, Size, Asked
<1>3. CASE ~doubled /\ ~Restart
  <2>1. CASE Timeout \/ UNCHANGED vars
    BY <1>3, <2>1, Unseen DEF Timeout, Submitting
  <2>2. CASE (\E r \in Refusals : Refuse(r)) \/ Associate \/ Address \/ Drop
    BY <1>3, <2>2, Unseen DEF Refuse, Associate, Address, Drop, Submitting
  <2> QED
    BY <1>3, <2>1, <2>2, BootSeen, EventLoopSeen, CtrlTaskSeen, PortalSeen, HttpTaskSeen,
       WebsocketSeen DEF Next, PowerCut
<1> QED
  BY <1>1, <1>2, <1>3

LEMMA InitRefines == Init => Search!Init
<1> SUFFICES ASSUME Init PROVE Search!Init
  OBVIOUS
<1>1. ~doubled /\ state = "DISCONNECTED" /\ cur = -1 /\ ~Submitting /\ Types
  BY InitIsGood DEF Init, Submitting, IInv, Basic
<1> QED
  BY <1>1, SeenCalm, PhaseNames DEF Search!Init, Behind

\* The manager implements NetworkSearch: the search stays, moves on by one network
\* or starts where the user asked for it, and the portal opens only behind the last.
THEOREM Refinement == Spec => SearchInOrder
<1>1. IInv /\ IInv' /\ [Next]_vars => [Search!Next]_(Search!vars)
  BY StepRefines DEF AbstractStep, Search!vars
<1> QED
  BY Invariance, InitRefines, <1>1, PTL DEF Spec, SearchInOrder, Search!Spec

=============================================================================
