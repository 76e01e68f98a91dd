--------------------------- MODULE MCWifiManager ---------------------------
(***************************************************************************)
(* Instances of WifiManager for TLC.  The names of networks are            *)
(* interchangeable: of the files that differ only in the names, one is an  *)
(* initial state.                                                          *)
(***************************************************************************)
EXTENDS WifiManager

CONSTANT First  \* the name at the head of every initial file

MCInit == Init /\ (file \notin {NoFile, <<>>} => file[1].ssid = First)
MCSpec == MCInit /\ [][Next]_vars /\ Fairness
=============================================================================
