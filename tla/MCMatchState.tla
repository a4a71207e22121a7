---------------------------- MODULE MCMatchState ----------------------------
(* Rules for MatchState. *)
EXTENDS MatchState

Plain      == [operator |-> TRUE, marker |-> FALSE, capture |-> FALSE,
               setvar |-> [op |-> "none", n |-> 0, junk |-> FALSE],
               msg |-> FALSE, severity |-> 0, log |-> FALSE]
Says(l, sev) == [l EXCEPT !.msg = TRUE, !.severity = sev, !.log = TRUE]
SecAction  == [Says(Plain, 5) EXCEPT !.operator = FALSE]
SecMarker  == [Plain EXCEPT !.operator = FALSE, !.marker = TRUE]
Capturing  == [Plain EXCEPT !.capture = TRUE]
With(l, op, n, junk) == [l EXCEPT !.setvar = [op |-> op, n |-> n, junk |-> junk]]

(* Single rules and chains, with and without capture and messages, with      *)
(* every setvar.                                                             *)
MCRules ==
    { <<Says(Plain, 2)>>, <<Capturing>>,
      <<SecAction>>, <<SecMarker>>, <<SecAction, Says(Plain, 0)>>, <<Capturing, Says(Plain, 7)>>,
      <<With(Says(Plain, 4), "add", 3, FALSE), Says(Capturing, 0)>>,
      <<With(Plain, "add", 5, FALSE), With(Plain, "sub", 2, FALSE)>>,
      <<With(Plain, "add", 0, TRUE)>>,
      <<With(Plain, "text", 0, FALSE), With(Capturing, "add", 1, FALSE)>>,
      <<With(Plain, "set", 1, FALSE), With(Plain, "sub", 0, TRUE)>>,
      <<With(Plain, "empty", 0, FALSE), With(Plain, "remove", 0, FALSE)>>,
      <<Capturing, With(Says(Plain, 3), "bare", 0, FALSE)>> }
=============================================================================
