------------------------- MODULE MCLiveViewSession -------------------------
(* The model values of the small instances of LiveViewSession.             *)
EXTENDS LiveViewSession

CONSTANTS r1, r2, ui, other
=============================================================================
