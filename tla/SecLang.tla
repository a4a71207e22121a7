------------------------------- MODULE SecLang -------------------------------
(***************************************************************************)
(* Reading a SecLang configuration (internal/seclang/parser.go,            *)
(* rule_parser.go, directives.go) into the rule list of a WAF              *)
(* (internal/corazawaf/rulegroup.go): rules, chains, markers, default      *)
(* actions, removals and includes.                                         *)
(*                                                                         *)
(* A line is the directive it holds.  What a rule tests is left out: a     *)
(* rule has an id, a phase (0 when it names none), a tag, a message, its   *)
(* disruptive actions, and whether it announces a chain; hasActions says   *)
(* whether an action list is written at all, compiles whether its text is  *)
(* accepted.  Rule directives are numbered in the order they are read.     *)
(* A path is the sequence of its elements, an absolute one starts with /.  *)
(***************************************************************************)
EXTENDS Naturals, Sequences, FiniteSetsExt

CONSTANTS Palettes,              (* sets of directives: a configuration is *)
                                 (* written in one of them                 *)
          maxIncludeRecursion,   (* 100 in the code                        *)
          MaxLines               (* bound: lines read                      *)

None       == "none"                     (* no tag, no message *)
Text       == STRING \union {None}
Disruptive == {"allow", "block", "deny", "drop", "pass", "redirect"}
BuiltIn    == [phase |-> 2, disruptive |-> <<"pass">>]      (* defaultActionsPhase2 *)

RuleLines  == [dir : {"SecRule", "SecAction"}, id : Nat, phase : 0..5, tag : Text,
               msg : Text, chain : BOOLEAN, disruptive : SUBSET Disruptive,
               hasActions : BOOLEAN, compiles : BOOLEAN]
OtherLines ==
    [dir : {"SecMarker", "Unsupported"}]
    \union [dir : {"SecRuleRemoveById"}, id : Nat]
    \union [dir : {"SecRuleRemoveByTag"}, tag : Text]
    \union [dir : {"SecRuleRemoveByMsg"}, msg : Text]
    \union [dir : {"SecRuleUpdateTargetById"}, id : Nat, negation : BOOLEAN]
    \union [dir : {"SecDefaultAction"}, phase : 0..5, disruptive : Seq(Disruptive)]
    \union [dir : {"SecIgnoreRuleCompilationErrors"}, on : BOOLEAN]
    \union [dir : {"Include"}, files : Seq(Seq(STRING))]

ASSUME SecLangAssumption ==
    /\ \A l \in UNION Palettes : l \in RuleLines \/ l \in OtherLines
    /\ maxIncludeRecursion \in Nat /\ MaxLines \in Nat

VARIABLES
    palette,        (* the directives of this configuration                 *)
    Rules,          (* WAF.Rules                                            *)
    defaults,       (* Config "rule_default_actions"                        *)
    ignoreErrors,   (* Config "ignore_rule_compilation_errors"              *)
    includeCount,
    currentDir,     (* a path                                               *)
    stack,          (* calls of FromFile in progress, innermost first       *)
    status,         (* "reading", "done", "error" or "panic"                *)
    lines,          (* lines read                                           *)
    serial,         (* rule directives read                                 *)
    announced,      (* history: those with a chain action                   *)
    gone,           (* history: those rejected or removed                   *)
    lenient         (* history: a compilation error has been ignored, or a  *)
                    (* marker removed                                       *)

listVars    == <<Rules, defaults, ignoreErrors>>
fileVars    == <<includeCount, currentDir, stack>>
historyVars == <<serial, announced, gone, lenient>>
vars        == <<palette, listVars, fileVars, status, lines, historyVars>>

RuleType == [id : Nat, phase : 0..5, tag : Text, msg : Text, marker : BOOLEAN,
             disruptive : SUBSET Disruptive, serial : Nat,
             chain : Seq(Nat),       (* the serials of its chained rules    *)
             HasChain : BOOLEAN]     (* of the last of them, or of itself   *)

TypeOK ==
    /\ Rules \in Seq(RuleType)
    /\ defaults \in Seq([phase : 0..5, disruptive : Seq(Disruptive)])
    /\ ignoreErrors \in BOOLEAN
    /\ includeCount \in Nat
    /\ currentDir \in Seq(STRING)
    /\ stack \in Seq([lastDir : Seq(STRING), dir : Seq(STRING), rest : Seq(Seq(STRING))])
    /\ status \in {"reading", "done", "error", "panic"}
    /\ lines \in 0..MaxLines
    /\ serial \in Nat /\ announced \subseteq 1..serial /\ gone \subseteq 1..serial
    /\ lenient \in BOOLEAN

Init ==
    /\ palette \in Palettes
    /\ Rules = <<>>
    /\ defaults = <<>>
    /\ ignoreErrors = FALSE
    /\ includeCount = 0
    /\ currentDir = <<>> /\ stack = <<>>
    /\ status = "reading"
    /\ lines = 0
    /\ serial = 0 /\ announced = {} /\ gone = {} /\ lenient = FALSE
-----------------------------------------------------------------------------
Last(s) == s[Len(s)]

(* The outcomes of a directive. *)
Fail(how) ==
    /\ status' = how
    /\ UNCHANGED <<listVars, fileVars>>

Read(l) ==
    /\ status = "reading" /\ lines < MaxLines
    /\ lines' = lines + 1
    /\ UNCHANGED palette

(* The default actions in force: the built-in ones until a                  *)
(* SecDefaultAction is given.  They are parsed with every rule, and of      *)
(* several for one phase the last one holds.                                *)
Declared           == IF defaults = <<>> THEN <<BuiltIn>> ELSE defaults
HasDefaults(phase) == \E d \in Range(Declared) : d.phase = phase
DefaultsOf(phase)  == Declared[Max({i \in DOMAIN Declared : Declared[i].phase = phase})]

(* ParseDefaultActions wants a phase and a disruptive action. *)
DefaultsParse == \A d \in Range(Declared) : d.phase # 0 /\ d.disruptive # <<>>

(* mutant: a block action counts as a disruptive action of the rule *)
mergeActions_BlockCounts(own, d) ==
    IF own # {} THEN own ELSE {Last(d.disruptive)}

(* mergeActions, for the disruptive actions. *)
mergeActions(own, d) ==
    LET kept == own \ {"block"}
    IN  IF kept # {} THEN kept ELSE {Last(d.disruptive)}

(* ParseRule: the rule has its phase, 2 unless it says otherwise.           *)
(* ParseActions merges the default actions of that phase; it is only called *)
(* when an action list is written.                                          *)
Parsed(l, n) ==
    LET phase == IF l.phase = 0 THEN 2 ELSE l.phase
    IN  [id |-> l.id, phase |-> phase, tag |-> l.tag, msg |-> l.msg, marker |-> FALSE,
         disruptive |-> IF l.hasActions /\ HasDefaults(phase)
                        THEN mergeActions(l.disruptive, DefaultsOf(phase))
                        ELSE l.disruptive,
         serial |-> n, chain |-> <<>>, HasChain |-> l.chain]

(* getLastRuleExpectingChain *)
ExpectingChain == Rules # <<>> /\ Last(Rules).HasChain

(* mutant: the rule becomes the first link, whatever the parent has *)
Chained_First(r) ==
    [Rules EXCEPT ![Len(Rules)].chain = <<r.serial>>, ![Len(Rules)].HasChain = r.HasChain]

(* mutant: the parent goes on expecting *)
Chained_Forever(r) ==
    [Rules EXCEPT ![Len(Rules)].chain = Append(@, r.serial)]

(* The end of ParseRule: the rule ends the chain of the last rule. *)
Chained(r) ==
    [Rules EXCEPT ![Len(Rules)].chain = Append(@, r.serial), ![Len(Rules)].HasChain = r.HasChain]

(* RuleGroup.Add refuses an id that is taken. *)
Duplicate(id) == id # 0 /\ \E o \in Range(Rules) : o.id = id

(* directiveSecRule and directiveSecAction.  An error ends the reading,     *)
(* unless SecRule has been told to ignore it.                               *)
AddRule(l) ==
    LET r   == Parsed(l, serial + 1)
        bad == ~l.compiles \/ ~DefaultsParse \/ (~ExpectingChain /\ Duplicate(l.id))
    IN
    /\ Read(l) /\ l.dir \in {"SecRule", "SecAction"}
    /\ serial' = serial + 1
    /\ announced' = IF l.chain THEN announced \union {serial'} ELSE announced
    /\ \/ /\ bad /\ ~(l.dir = "SecRule" /\ ignoreErrors)
          /\ Fail("error")
          /\ gone' = gone \union {serial'} /\ UNCHANGED lenient
       \/ /\ bad /\ l.dir = "SecRule" /\ ignoreErrors
          /\ gone' = gone \union {serial'} /\ lenient' = TRUE
          /\ UNCHANGED <<listVars, fileVars, status>>
       \/ /\ ~bad
          /\ Rules' = IF ExpectingChain THEN Chained(r) ELSE Append(Rules, r)
          /\ UNCHANGED <<defaults, ignoreErrors, fileVars, status, gone, lenient>>

(* directiveSecMarker *)
SecMarker(l) ==
    /\ Read(l) /\ l.dir = "SecMarker"
    /\ serial' = serial + 1
    /\ Rules' = Append(Rules, [id |-> 0, phase |-> 0, tag |-> None, msg |-> None,
                               marker |-> TRUE, disruptive |-> {}, serial |-> serial + 1,
                               chain |-> <<>>, HasChain |-> FALSE])
    /\ UNCHANGED <<defaults, ignoreErrors, fileVars, status, announced, gone, lenient>>
-----------------------------------------------------------------------------
(* The list without its element at i: the ones after it move down. *)
RemoveAt(s, i) == SubSeq(s, 1, i - 1) \o SubSeq(s, i + 1, Len(s))

(* mutant: the rule before goes *)
DeleteByID_Previous(rules, id) ==
    LET left[i \in 0..Len(rules)] ==
          IF i = 0 THEN rules
          ELSE IF i \in 2..Len(left[i - 1]) /\ left[i - 1][i].id = id THEN RemoveAt(left[i - 1], i - 1)
          ELSE left[i - 1]
    IN  left[Len(rules)]

(* RuleGroup.DeleteByID: the loop goes over the indexes of the list as it   *)
(* was, and looks at the list as it has become.                             *)
DeleteByID(rules, id) ==
    LET left[i \in 0..Len(rules)] ==
          IF i = 0 THEN rules
          ELSE IF i <= Len(left[i - 1]) /\ left[i - 1][i].id = id THEN RemoveAt(left[i - 1], i)
          ELSE left[i - 1]
    IN  left[Len(rules)]

SerialsOf(rules) == UNION {{r.serial} \union Range(r.chain) : r \in Range(rules)}

Keep(rules) ==
    /\ Rules' = rules
    /\ gone' = gone \union (SerialsOf(Rules) \ SerialsOf(rules))
    /\ lenient' = (lenient \/ \E r \in Range(Rules) : r.marker /\ r \notin Range(rules))
    /\ UNCHANGED <<defaults, ignoreErrors, fileVars, status, serial, announced>>

SecRuleRemoveByID(l) ==
    /\ Read(l) /\ l.dir = "SecRuleRemoveById"
    /\ Keep(DeleteByID(Rules, l.id))

(* One deletion for every rule found, in the order of the list. *)
DeleteAll(found) ==
    LET left[i \in 0..Len(Rules)] ==
          IF i = 0 THEN Rules
          ELSE IF i \in found THEN DeleteByID(left[i - 1], Rules[i].id)
          ELSE left[i - 1]
    IN  left[Len(Rules)]

(* FindByTag *)
Tagged(tag) == {i \in DOMAIN Rules : Rules[i].tag = tag}

SecRuleRemoveByTag(l) ==
    /\ Read(l) /\ l.dir = "SecRuleRemoveByTag"
    /\ Keep(DeleteAll(Tagged(l.tag)))

(* FindByMsg *)
Saying(msg) == {i \in DOMAIN Rules : Rules[i].msg = msg}

(* FindByMsg calls Msg.String() on every rule: a nil dereference for one    *)
(* that has no message.                                                     *)
SecRuleRemoveByMsg(l) ==
    /\ Read(l) /\ l.dir = "SecRuleRemoveByMsg"
    /\ IF \E r \in Range(Rules) : r.msg = None
       THEN Fail("panic") /\ UNCHANGED historyVars
       ELSE Keep(DeleteAll(Saying(l.msg)))

(* directiveSecRuleUpdateTargetByID.  The targets themselves are those of   *)
(* RuleTargets; without the rule, a negation is an error and a variable     *)
(* dereferences nil.                                                        *)
SecRuleUpdateTargetByID(l) ==
    /\ Read(l) /\ l.dir = "SecRuleUpdateTargetById"
    /\ IF \E r \in Range(Rules) : r.id = l.id
       THEN UNCHANGED <<listVars, fileVars, status>>
       ELSE Fail(IF l.negation THEN "error" ELSE "panic")
    /\ UNCHANGED historyVars

(* directiveSecDefaultAction only takes a note. *)
SecDefaultAction(l) ==
    /\ Read(l) /\ l.dir = "SecDefaultAction"
    /\ defaults' = Append(defaults, [phase |-> l.phase, disruptive |-> l.disruptive])
    /\ UNCHANGED <<Rules, ignoreErrors, fileVars, status, historyVars>>

SecIgnoreRuleCompilationErrors(l) ==
    /\ Read(l) /\ l.dir = "SecIgnoreRuleCompilationErrors"
    /\ ignoreErrors' = l.on
    /\ UNCHANGED <<Rules, defaults, fileVars, status, historyVars>>

(* evaluateLine, for a directive that is not in directivesMap. *)
Unsupported(l) ==
    /\ Read(l) /\ l.dir = "Unsupported"
    /\ Fail("error")
    /\ UNCHANGED historyVars
-----------------------------------------------------------------------------
Counted == includeCount + 1

(* filepath.Dir: the last element of a path is the name of the file. *)
Dir(path) == SubSeq(path, 1, Len(path) - 1)

(* One turn of the loop of FromFile: the next file, looked up below dir     *)
(* unless its path is absolute.  A file that cannot be read ends all.       *)
NextFile(dir, files, outer) ==
    LET file == Head(files)
        path == IF Len(file) > 0 /\ file[1] = "/" THEN file ELSE dir \o file
    IN  /\ currentDir' = Dir(path)
        /\ \/ /\ stack' = <<[lastDir |-> dir, dir |-> Dir(path), rest |-> Tail(files)]>> \o outer
              /\ UNCHANGED status
           \/ status' = "error" /\ UNCHANGED stack

(* evaluateLine, for Include: files is what the path expands to. *)
Include(l) ==
    /\ Read(l) /\ l.dir = "Include"
    /\ IF includeCount >= maxIncludeRecursion
       THEN Fail("error")
       ELSE /\ includeCount' = Counted
            /\ IF l.files = <<>> THEN UNCHANGED <<currentDir, stack, status>>
               ELSE NextFile(currentDir, l.files, stack)
            /\ UNCHANGED listVars
    /\ UNCHANGED historyVars

(* mutant: the directory is not restored *)
EndOfFile_KeepsDir ==
    /\ status = "reading" /\ stack # <<>>
    /\ LET f == Head(stack)
       IN  IF f.rest = <<>> THEN stack' = Tail(stack) /\ UNCHANGED <<currentDir, status>>
           ELSE NextFile(currentDir, f.rest, Tail(stack))
    /\ UNCHANGED <<palette, listVars, includeCount, lines, historyVars>>

(* The end of an included file: FromFile restores the directory and goes    *)
(* on to the next file of its pattern, or returns.                          *)
EndOfFile ==
    /\ status = "reading" /\ stack # <<>>
    /\ LET f == Head(stack)
       IN  IF f.rest = <<>> THEN stack' = Tail(stack) /\ currentDir' = f.lastDir /\ UNCHANGED status
           ELSE NextFile(f.lastDir, f.rest, Tail(stack))
    /\ UNCHANGED <<palette, listVars, includeCount, lines, historyVars>>

(* The end of the text the parser was given. *)
Done ==
    /\ status = "reading" /\ stack = <<>>
    /\ status' = "done"
    /\ UNCHANGED <<palette, listVars, fileVars, lines, historyVars>>

Next ==
    \/ \E l \in palette :
          \/ AddRule(l) \/ SecMarker(l)
          \/ SecRuleRemoveByID(l) \/ SecRuleRemoveByTag(l) \/ SecRuleRemoveByMsg(l)
          \/ SecRuleUpdateTargetByID(l)
          \/ SecDefaultAction(l) \/ SecIgnoreRuleCompilationErrors(l)
          \/ Unsupported(l) \/ Include(l)
    \/ EndOfFile \/ Done

Spec == Init /\ [][Next]_vars
-----------------------------------------------------------------------------
(* Every rule directive that was read is in the list once, as a rule or as  *)
(* a link of a chain, unless it was rejected or removed (or removed with    *)
(* the rule that starts its chain); and the list is in the order of the     *)
(* text, which is the order of evaluation.                                  *)
NothingLost ==
    /\ SerialsOf(Rules) = (1..serial) \ gone
    /\ \A i, j \in DOMAIN Rules : i < j => Rules[i].serial < Rules[j].serial

(* The chains are those of the text, as long as no compilation error has    *)
(* been ignored and no marker removed (which a removal of rules without an  *)
(* id does, as markers have none either): the links of a rule are the       *)
(* directives that follow it, the one before each link announced it, and a  *)
(* rule that follows an announcement stands alone only when the announcing  *)
(* rule was removed.                                                        *)
ChainAsWritten ==
    ~lenient =>
    \A r \in Range(Rules) :
        /\ \A k \in DOMAIN r.chain : r.chain[k] = r.serial + k /\ (r.serial + k - 1) \in announced
        /\ ~r.marker /\ (r.serial - 1) \in announced => (r.serial - 1) \in gone

(* A removal by id or tag takes exactly the rules it names (and keeps the   *)
(* others in their order, which NothingLost says of every list), although   *)
(* DeleteByID deletes from the slice it is ranging over and the removal by  *)
(* tag goes through the ids: provided that the rules it names have one.     *)
RemovalsExact ==
    [][\A l \in palette :
         /\ SecRuleRemoveByID(l) /\ l.id # 0
            => Range(Rules') = {r \in Range(Rules) : r.id # l.id}
         /\ SecRuleRemoveByTag(l) /\ (\A r \in Range(Rules) : r.tag = l.tag => r.id # 0)
            => Range(Rules') = {r \in Range(Rules) : r.tag # l.tag}]_vars

(* mergeActions: a rule that is added with an action list is not left       *)
(* without a disruptive action when its phase has default actions: with     *)
(* block or nothing it takes the default action of its phase, and has block *)
(* only when that is the default.  (A rule without a list is not merged.)   *)
DisruptiveResolved ==
    [][\A l \in palette : AddRule(l) /\ l.hasActions =>
         \A i \in DOMAIN Rules' :
            Rules'[i].serial = serial' /\ HasDefaults(Rules'[i].phase)
            => /\ Rules'[i].disruptive # {}
               /\ "block" \in Rules'[i].disruptive
                  => Last(DefaultsOf(Rules'[i].phase).disruptive) = "block"]_vars

(* Include resolves a relative path below the directory of the file it      *)
(* stands in, whatever was included before, and from where.                 *)
RelativeIncludes ==
    status = "reading" => currentDir = IF stack = <<>> THEN <<>> ELSE Head(stack).dir

=============================================================================
