----------------------------- MODULE MCRiskScan -----------------------------
(* RiskScan on a file of three rows, two of which have a usable amount; an *)
(* edit of the file leaves another one.                                    *)
EXTENDS RiskScan

MCContent == [v \in 0..1 |-> IF v = 0 THEN {1, 3} ELSE {2}]
=============================================================================
