---------------------------- MODULE MCTestCycle ----------------------------
(* TestCycle on small instances: one tick to the second, cycles two seconds *)
(* apart, so that the first window is [0, 2) and the second, when nothing   *)
(* overruns, [2, 4).                                                        *)
EXTENDS TestCycle

CONSTANTS t1, t2, c1, c2, m1, m2

OneTopic == <<t1>>
TwoTopics == <<t1, t2>>
OneTarget == <<c1>>
TwoTargets == <<c1, c2>>

NoMessages == {}
NoTimes == [m \in {} |-> 0]

OneMessage == {m1}
TwoMessages == {m1, m2}

\* m1 is published inside the first window, m2 on its closing boundary.
BoundaryTimes == [m \in TwoMessages |-> IF m = m1 THEN 1 ELSE 2]
OneTime == [m \in OneMessage |-> 1]
OneBoundaryTime == [m \in OneMessage |-> 2]

\* Every message is on t1.
OnT1 == [m \in Messages |-> {t1}]
\* Every message is on t2.
OnT2 == [m \in Messages |-> {t2}]
\* The topics overlap: every message is on both.
OnBoth == [m \in Messages |-> {t1, t2}]
=============================================================================
