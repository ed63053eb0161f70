---------------------------- MODULE InputReadings ----------------------------
(***************************************************************************)
(* What one iteration of the bridge worker learns from its input states:   *)
(* the interface between the arbitration (ModeEntry), which takes any such *)
(* reading, and the input states (InputArbitration), which produce them.   *)
(***************************************************************************)
\* What an iteration reads of the input states: the first active input in
\* the order of the arbitration chain, and what the entries look at besides:
\* whether a target and whether any automatic input is active (a manual
\* command may hide them), whether the target is fresh and the vehicle slow.
Inputs ==
    {s \in [source : {"manual", "visual", "release", "attitude", "velocity", "none"},
            visual : BOOLEAN, automation : BOOLEAN, fresh : BOOLEAN, still : BOOLEAN] :
        /\ s.visual => s.automation /\ s.source \in {"manual", "visual"}
        /\ s.source = "visual" => s.visual
        /\ s.source \in {"release", "attitude", "velocity"} => s.automation
        /\ s.source = "none" => ~ s.automation
        /\ s.fresh => s.source = "visual"
        /\ s.still => s.fresh}

\* The inputs a deployment can bring: the MQTT handler rejects the legacy
\* commands, and the raw attitude command, when their flags are off.
Readable(d) ==
    {s \in Inputs : /\ s.automation /\ ~ s.visual => d.legacy
                    /\ s.source \in {"release", "attitude"} => d.raw}
=============================================================================
