---------------------------- MODULE MCTransaction ----------------------------
(* Instances of Transaction for TLC. *)
EXTENDS Transaction, TLC

CONSTANT M    (* a SecMarker name *)

MCMarks == {M}

NoCtl == [ruleEngine |-> Keep, requestBodyAccess |-> Keep, requestBodyLimit |-> Keep,
          auditEngine |-> Keep, ruleRemoveByID |-> {}]

PlainRule == [id |-> 0, phase |-> 1, secMark |-> NoMark, operator |-> TRUE, ctl |-> NoCtl,
              chain |-> <<>>, disruptive |-> "none", skip |-> 0, skipAfter |-> NoMark,
              audit |-> FALSE]

RuleWith(fields) == fields @@ PlainRule
CtlWith(fields)  == fields @@ NoCtl

ChainLink(ctl) == [operator |-> TRUE, ctl |-> ctl]

(* The rule lists of a given length over a palette; a rule's id is its place *)
(* in the list, markers keep the id 0.                                       *)
Numbered(s) == [i \in DOMAIN s |-> IF s[i].secMark = NoMark THEN [s[i] EXCEPT !.id = i] ELSE s[i]]
ListsOf(palette, n) == {Numbered(s) : s \in [1..n -> palette]}

PlainWAF == [Rules |-> <<>>, RuleEngine |-> "On", AuditEngine |-> "RelevantOnly",
             RequestBodyAccess |-> FALSE, RequestBodyLimit |-> 2,
             RequestBodyLimitAction |-> "ProcessPartial", ResponseBodyAccess |-> TRUE]
WAFWith(fields) == fields @@ PlainWAF

-----------------------------------------------------------------------------
(* The rule loop: lists of three rules that interrupt, chain, skip, remove,  *)
(* audit and switch the engine, in phases 1, 2 and 5.                        *)
LoopPalette ==
    {RuleWith([disruptive |-> "deny", audit |-> TRUE]),
     RuleWith([phase |-> 2, disruptive |-> "drop",
               chain |-> <<ChainLink(NoCtl), ChainLink(CtlWith([ruleEngine |-> "Off"]))>>]),
     RuleWith([phase |-> 5, disruptive |-> "deny", operator |-> FALSE]),
     RuleWith([skipAfter |-> M, chain |-> <<ChainLink(NoCtl)>>]),
     RuleWith([secMark |-> M, phase |-> 0, operator |-> FALSE]),
     RuleWith([skip |-> 1, ctl |-> CtlWith([auditEngine |-> "On"])]),
     RuleWith([phase |-> 2, ctl |-> CtlWith([ruleEngine |-> "Off", ruleRemoveByID |-> {2}])]),
     RuleWith([ctl |-> CtlWith([ruleEngine |-> "DetectionOnly"]), audit |-> TRUE])}

LoopWAFs == {WAFWith([Rules |-> l, RuleEngine |-> e]) :
                l \in ListsOf(LoopPalette, 3), e \in {"On", "DetectionOnly"}}
-----------------------------------------------------------------------------
(* The request body: limits from 0 to 3, both limit actions, and rules that  *)
(* move the limit, close the body or switch the engine between the calls.    *)
BodyRules ==
    {<<>>,
     <<RuleWith([id |-> 1, disruptive |-> "deny"])>>,
     <<RuleWith([id |-> 1, phase |-> 2, disruptive |-> "redirect"])>>,
     <<RuleWith([id |-> 1, ctl |-> CtlWith([requestBodyLimit |-> 1])])>>,
     <<RuleWith([id |-> 1, phase |-> 2, ctl |-> CtlWith([requestBodyLimit |-> 3])])>>,
     <<RuleWith([id |-> 1, phase |-> 2, ctl |-> CtlWith([requestBodyLimit |-> 0])])>>,
     <<RuleWith([id |-> 1, ctl |-> CtlWith([requestBodyAccess |-> FALSE])])>>,
     <<RuleWith([id |-> 1, phase |-> 3, ctl |-> CtlWith([requestBodyAccess |-> FALSE])])>>,
     <<RuleWith([id |-> 1, ctl |-> CtlWith([ruleEngine |-> "Off"])])>>}

BodyWAFs == {WAFWith([Rules |-> l, RuleEngine |-> e, RequestBodyAccess |-> TRUE,
                      RequestBodyLimit |-> n, RequestBodyLimitAction |-> a]) :
                l \in BodyRules, e \in Engines, n \in 0..3, a \in {"ProcessPartial", "Reject"}}

MCWAFs == LoopWAFs \union BodyWAFs
=============================================================================
