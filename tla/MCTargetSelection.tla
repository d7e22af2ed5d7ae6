-------------------------- MODULE MCTargetSelection --------------------------
EXTENDS TargetSelection

CONSTANTS l1, l2, n1, n2

MCListener == {l1, l2}
MCName == [l \in MCListener |-> IF l = l1 THEN n1 ELSE n2]
MCSize == [l \in MCListener |-> IF l = l1 THEN 3 ELSE 2]
=============================================================================
