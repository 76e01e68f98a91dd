---------------------------- MODULE MCUsbStorage ----------------------------
(***************************************************************************)
(* Instances of UsbStorage for TLC.  A grace of two passes is the shortest *)
(* in which a refresh, a pass without a refresh and the expiry all differ. *)
(***************************************************************************)
EXTENDS UsbStorage

\* Every failure of the code's calls, at any time and any number of times,
\* but for the PHY calls: an uninstall that fails leaves D+/D- with the OTG
\* controller just as well, and the theorems have no such limit.
MCFaults == FaultKinds \ {"phy"}
=============================================================================
