---------------------------- MODULE MCRuleTargets ----------------------------
(* RuleTargets for TLC: a variable with up to three keys.                     *)
EXTENDS RuleTargets, TLC

CONSTANTS k1, k2, k3, k4, k5

(* Up to two exceptions fill their array, three leave a slot of it free.      *)
MCNegations == {<<>>, <<{k1}>>, <<{k1}, {k2, k3}>>, <<{k1}, {k2}, {k3}>>}

MCFields == {<<k4>>, <<k1, k4>>, <<k5, k1, k4, k1>>, <<k2, k4, k3, k5>>}
=============================================================================
