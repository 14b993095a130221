-------------------------- MODULE MCBaselineStore --------------------------
(* BaselineStore on a small instance: two patterns, the second of which     *)
(* takes in only the second message; one message per tick or so.            *)
EXTENDS BaselineStore

CONSTANTS i1, i2, p1, p2

TwoIds == {i1, i2}
TwoPatterns == <<p1, p2>>
Overlapping == [id \in TwoIds |-> IF id = i1 THEN {p1} ELSE {p1, p2}]
Times == [id \in TwoIds |-> IF id = i1 THEN 1 ELSE 3]
=============================================================================
