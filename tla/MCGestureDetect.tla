--------------------------- MODULE MCGestureDetect ---------------------------
(***************************************************************************)
(* Instances of GestureDetect for TLC: thresholds in the order of the       *)
(* source, a few ticks apart.                                              *)
(***************************************************************************)
EXTENDS GestureDetect

\* A pass on time, and one late by half a window.
MCGaps == {1, 2}

\* One finger, or one on the left button and one on the top strip: with these
\* the page is closed under a pressed button.
MCGrips == {{}, {"left"}, {"right"}, {"top"}, {"left", "top"}}
=============================================================================
