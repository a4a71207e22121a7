------------------------------ MODULE MCSecLang ------------------------------
(* Palettes of configuration lines for SecLang. *)
EXTENDS SecLang

RuleLine(id, chain) ==
    [dir |-> "SecRule", id |-> id, phase |-> 0, tag |-> None, msg |-> "m", chain |-> chain,
     disruptive |-> {}, hasActions |-> TRUE, compiles |-> TRUE]

(* Rules with and without an id, chains, markers, and the removal of a rule *)
(* that stands alone or starts a chain.  An id that is no number, the error *)
(* of Atoi being dropped, removes id 0.                                     *)
ChainLines ==
    { RuleLine(1, TRUE), RuleLine(2, FALSE), RuleLine(0, TRUE), [RuleLine(0, FALSE) EXCEPT !.tag = "t"],
      [RuleLine(3, FALSE) EXCEPT !.tag = "t"], [RuleLine(4, TRUE) EXCEPT !.tag = "t"],
      [RuleLine(5, TRUE) EXCEPT !.dir = "SecAction"], [dir |-> "SecMarker"],
      [dir |-> "SecRuleRemoveById", id |-> 1], [dir |-> "SecRuleRemoveById", id |-> 0],
      [dir |-> "SecRuleRemoveByTag", tag |-> "t"] }

(* Rules that do not compile, strictly and leniently, and removal by        *)
(* message.                                                                 *)
FaultyLines ==
    { RuleLine(1, TRUE), RuleLine(2, FALSE),
      [RuleLine(3, FALSE) EXCEPT !.compiles = FALSE], [RuleLine(4, TRUE) EXCEPT !.msg = "n"],
      [RuleLine(5, FALSE) EXCEPT !.dir = "SecAction", !.compiles = FALSE],
      [dir |-> "SecIgnoreRuleCompilationErrors", on |-> TRUE],
      [dir |-> "SecIgnoreRuleCompilationErrors", on |-> FALSE],
      [dir |-> "SecRuleRemoveByMsg", msg |-> "m"],
      [dir |-> "SecRuleUpdateTargetById", id |-> 1, negation |-> TRUE],
      [dir |-> "SecRuleUpdateTargetById", id |-> 1, negation |-> FALSE],
      [dir |-> "Unsupported"] }

(* Default actions, with and without what they must have, and a rule with   *)
(* no action list.                                                          *)
DefaultLines ==
    { [RuleLine(0, FALSE) EXCEPT !.msg = None, !.hasActions = FALSE],
      [RuleLine(1, FALSE) EXCEPT !.phase = 1], [RuleLine(2, FALSE) EXCEPT !.disruptive = {"block"}],
      [RuleLine(3, FALSE) EXCEPT !.phase = 1, !.disruptive = {"deny"}],
      [RuleLine(4, FALSE) EXCEPT !.phase = 1, !.disruptive = {"deny", "block"}],
      [dir |-> "SecDefaultAction", phase |-> 1, disruptive |-> <<"drop">>],
      [dir |-> "SecDefaultAction", phase |-> 1, disruptive |-> <<"drop", "block">>],
      [dir |-> "SecDefaultAction", phase |-> 2, disruptive |-> <<"deny">>],
      [dir |-> "SecDefaultAction", phase |-> 0, disruptive |-> <<"deny">>],
      [dir |-> "SecDefaultAction", phase |-> 2, disruptive |-> <<>>] }

(* A file here, one below, one at an absolute path, a pattern that matches  *)
(* two and one that matches none.                                           *)
IncludeLines ==
    { RuleLine(1, FALSE), RuleLine(0, TRUE),
      [dir |-> "Include", files |-> << <<"here">> >>],
      [dir |-> "Include", files |-> << <<"sub", "below">> >>],
      [dir |-> "Include", files |-> << <<"/", "etc", "far">> >>],
      [dir |-> "Include", files |-> << <<"here">>, <<"sub", "below">> >>],
      [dir |-> "Include", files |-> <<>>] }

MCPalettes == {ChainLines, FaultyLines, DefaultLines, IncludeLines}
=============================================================================
