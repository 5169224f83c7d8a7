------------------------------- MODULE MCLedd -------------------------------
EXTENDS Ledd

\* Every mode by day and in a night switched on by hand; a scheduled night, and each
\* switch of the bays off.
MCConfigs ==
  {c \in Settings :
     \/ c.bays_enabled /\ c.bay_fault_blink /\ c.night \in {{}, {"manual"}}
     \/ c.bays_enabled /\ c.bay_fault_blink /\ c.night = {"schedule"} /\ c.mode = "auto"
     \/ c.bays_enabled # c.bay_fault_blink /\ c.night = {} /\ c.mode = "auto"}
=============================================================================
