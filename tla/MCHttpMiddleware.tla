-------------------------- MODULE MCHttpMiddleware --------------------------
(* HttpMiddleware for TLC: a denial with a status and one without, and an    *)
(* interruption that does not deny.                                          *)
EXTENDS HttpMiddleware, TLC

RuleVerdicts == {[action |-> "deny", status |-> 406], [action |-> "deny", status |-> 0],
                 [action |-> "redirect", status |-> 302]}
=============================================================================
