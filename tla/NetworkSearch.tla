--------------------------- MODULE NetworkSearch ---------------------------
(***************************************************************************)
(* What the Wi-Fi manager promises about its search, without events,       *)
(* time-outs, mailbox and retries: it goes through the saved networks one  *)
(* by one, opens the provisioning portal only behind the last one, and     *)
(* starts at another place only at the boot or where the user asked for a  *)
(* network in the portal.                                                  *)
(***************************************************************************)
EXTENDS Integers

CONSTANT MaxNetworks  \* WIFI_MAX_NETWORKS

VARIABLES
    phase,  \* "off", "search", "online", "portal" or "hasty"
    at,     \* index of the network on offer, behind the last one: none left
    size,   \* number of saved networks
    asked   \* index the user asked for and that is still to be offered, or -1

vars == <<phase, at, size, asked>>

Init == phase = "off" /\ at = -1 /\ size \in 0 .. MaxNetworks /\ asked = -1

\* The device starts: it offers one of its networks, or the portal at once.
Start ==
    /\ phase = "off"
    /\ \/ at' \in 0 .. size - 1 /\ phase' = "search"
       \/ size = 0 /\ phase' = "portal" /\ UNCHANGED at
    /\ UNCHANGED <<size, asked>>

\* The network on offer is given up: the next one is offered, or none is left.
MoveOn ==
    /\ phase = "search" /\ at < size /\ at' = at + 1
    /\ UNCHANGED <<phase, size, asked>>

Exhausted ==
    /\ phase = "search" /\ at >= size /\ phase' = "portal"
    /\ UNCHANGED <<at, size, asked>>

Online ==
    /\ phase = "search" /\ phase' = "online" /\ UNCHANGED <<at, size, asked>>

Dropped ==
    /\ phase = "online" /\ phase' = "search" /\ UNCHANGED <<at, size, asked>>

\* The portal edits the list and takes the wish for a network.  Where the search
\* had been, and an earlier wish, may by now lie behind the last network.
Edit ==
    /\ phase = "portal" /\ size' \in 0 .. MaxNetworks
    /\ at' \in {at, size'}
    /\ asked' \in {asked} \cup 0 .. size'
    /\ UNCHANGED phase

\* The wish is carried out, or dropped when the driver fails.
Offer ==
    /\ phase = "portal" /\ asked # -1 /\ asked' = -1
    /\ \/ at' = asked /\ phase' = "search"
       \/ UNCHANGED <<at, phase>>
    /\ UNCHANGED size

\* A second wish before the first one has been carried out: from here on until a
\* restart nothing is promised.
Hasten ==
    /\ asked # -1 /\ phase' = "hasty" /\ at' = -1 /\ size' = 0 /\ asked' = -1

Restart ==
    phase' = "off" /\ at' = -1 /\ size' \in 0 .. MaxNetworks /\ asked' = -1

Next ==
    \/ Start \/ MoveOn \/ Exhausted \/ Online \/ Dropped
    \/ Edit \/ Offer \/ Hasten \/ Restart

Spec == Init /\ [][Next]_vars
=============================================================================
