---------------------------- MODULE MCModeEntry ----------------------------
(***************************************************************************)
(* Three configurations of ModeEntry, one per writer: the companion, the   *)
(* legacy automation with its authority, the native Follow entry.          *)
(***************************************************************************)
EXTENDS ModeEntry

Automation == {"legacy_automation", "raw_attitude"}

MCStarted ==
    {e \in Environments :
        \/ e.selected = "companion_safety" /\ e.flags = {}
        \/ e.selected = "legacy_tracking" /\ e.flags = Automation
        \/ e.selected = "unrecognised" /\ e.flags = {"native_follow"}}
=============================================================================
