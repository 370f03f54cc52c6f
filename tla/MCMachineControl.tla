-------------------------- MODULE MCMachineControl --------------------------
\* MachineControl for TLC.  A behaviour takes its inputs from one scenario.
EXTENDS MachineControl

VARIABLE inputs

LineAndDots == <<"Line", "Dots">>

Scenarios ==
    {{"start", "stop", "test", "testClose", "watchdog", "ping"},
     {"start", "stop", "test", "testClose", "fault", "safety", "sheets"},
     {"start", "stop", "arm", "cancel", "fault", "safety", "sheets"},
     {"start", "arm", "cancel", "test", "testClose", "sheets"},
     {"start", "arm", "watchdog", "safety", "sheets"}}

MCInit == Init /\ inputs \in Scenarios

MCNext ==
    /\ Handler \/ World \/ \E i \in inputs : Input(i)
    /\ UNCHANGED inputs

MCSpec == MCInit /\ [][MCNext]_<<vars, inputs>>
=============================================================================
