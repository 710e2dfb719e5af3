-------------------------- MODULE MCVideoWindows --------------------------
(* Two other participants, of whom any may have a camera on.                *)
EXTENDS VideoWindows
=============================================================================
