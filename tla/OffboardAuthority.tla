-------------------------- MODULE OffboardAuthority --------------------------
(***************************************************************************)
(* Which process configurations exist and which writer of the PX4          *)
(* OFFBOARD stream each of them permits (offboard_authority.py, and the    *)
(* flags mavlink_manual_bridge.py reads when it is imported).              *)
(***************************************************************************)
EXTENDS Naturals

\* The feature flags that can each drive the legacy writer.
LegacyFlags == {"tracking_offboard", "raw_attitude", "legacy_automation", "native_follow"}

\* SWARM_OFFBOARD_AUTHORITY: absent or misspelt, or one of the three names.
Selections == {"unrecognised", "disabled", "legacy_tracking", "companion_safety"}

\* resolve_authority: at most one writer, and none for a contradiction.
LegacyWriter(selected, flags) == selected = "legacy_tracking" /\ flags # {}
CompanionWriter(selected, flags) == selected = "companion_safety" /\ flags = {}

\* The bridge refuses to be imported with both automation families on.
Environments ==
    {e \in [selected : Selections, flags : SUBSET LegacyFlags] :
        ~ {"legacy_automation", "native_follow"} \subseteq e.flags}

\* What a running bridge can tell of its environment.
Deployment(e) ==
    [legacy    |-> "legacy_automation" \in e.flags,
     raw       |-> {"legacy_automation", "raw_attitude"} \subseteq e.flags,
     native    |-> "native_follow" \in e.flags,
     writer    |-> LegacyWriter(e.selected, e.flags),
     companion |-> CompanionWriter(e.selected, e.flags)]

Deployments == {Deployment(e) : e \in Environments}
=============================================================================
