----------------------------- MODULE MCDualRoles -----------------------------
EXTENDS DualRoles

\* Key 2 is a letter, or a second dual-role key.  Each trigger is tried
\* with each timeout action, and no trigger with two dual-role keys.
MCConfigs ==
    {c \in [dual : {{1}, {1, 2}}, Timeout : {3}, TimeoutAction : Roles, TriggerByPress : BOOLEAN,
            TriggerByRelease : BOOLEAN, SafetyMargin : -1..1, DoubletapTime : {0, 2}, AutoShiftDelay : {0, 2}] :
       LET triggers == c.TriggerByPress \/ c.TriggerByRelease
       IN /\ ~(c.TriggerByPress /\ c.TriggerByRelease)
          /\ (c.SafetyMargin # 0) = (triggers /\ c.TimeoutAction = "secondary")
          /\ (c.DoubletapTime = 2) = (c.TimeoutAction = "secondary")
          /\ (c.AutoShiftDelay = 2) = (c.dual = {1})
          /\ IF c.dual = {1} THEN triggers /\ c.TimeoutAction = "secondary"
             ELSE triggers => c.SafetyMargin = IF c.DoubletapTime = 2 THEN 1 ELSE 0}
=============================================================================
