------------------------------- MODULE Es8311 -------------------------------
(***************************************************************************)
(* The audio codec driver's shared clock (src/main/drivers/audio/          *)
(* es8311_drv.c): two counts of users, one for playback and one for        *)
(* recording, and the two I2S channels the driver switches on and off.     *)
(* The operators give the driver's state after a call; every call is made  *)
(* under the driver's mutex and is one step.  A channel is enabled by the  *)
(* first user only, and both are disabled by the last one.                 *)
(***************************************************************************)
EXTENDS Integers

Codec == [full : Nat, rx : Nat, txOn : BOOLEAN, rxOn : BOOLEAN]

\* Both channels are stopped once the driver has been initialised.
Stopped == [full |-> 0, rx |-> 0, txOn |-> FALSE, rxOn |-> FALSE]

Unused(c) == c.full = 0 /\ c.rx = 0

\* A recorder needs the transmitter too, which makes the clock of both.
HoldRx(c) ==
    [c EXCEPT !.rx = @ + 1, !.txOn = @ \/ Unused(c), !.rxOn = @ \/ Unused(c)]

Hold(c) == [c EXCEPT !.full = @ + 1, !.txOn = @ \/ Unused(c)]

\* es8311_stop_i2s, for the user who was the last one.
StopIfUnused(c) == IF Unused(c) THEN Stopped ELSE c

\* A call that releases more than was held changes nothing.
ReleaseRx(c) == IF c.rx = 0 THEN c ELSE StopIfUnused([c EXCEPT !.rx = @ - 1])

Release(c) == IF c.full = 0 THEN c ELSE StopIfUnused([c EXCEPT !.full = @ - 1])
=============================================================================
