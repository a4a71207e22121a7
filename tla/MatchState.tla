----------------------------- MODULE MatchState -----------------------------
(***************************************************************************)
(* What the evaluation of rules leaves in a transaction for the next link  *)
(* and the next rule to read: the captures TX:0 to TX:9, MATCHED_VARS and  *)
(* MATCHED_VAR, HIGHEST_SEVERITY and a variable that setvar counts in; and *)
(* for the logs: the matched rules with their messages (transaction.go,    *)
(* rulegroup.go, rule.go, internal/corazarules, actions/setvar.go,         *)
(* operators/rx.go).                                                       *)
(*                                                                         *)
(* The rules of a phase are evaluated one after the other; which of them,  *)
(* and how often their operators match, is open.  A captured or matched    *)
(* value is the number of the match that produced it, and so is a message, *)
(* whose macros are expanded at the match.  MATCHED_VARS is one list here  *)
(* and a list for each variable name in the code.                          *)
(***************************************************************************)
EXTENDS Integers, Sequences

CONSTANTS Rules,         (* the rules, each the sequence of its links: the  *)
                         (* rule of the list is its own first link          *)
          Groups,        (* what a match may capture: TX:0 to TX:Groups - 1 *)
          MaxRules, MaxMatches   (* bounds: rules evaluated, matches        *)

(* The operand of a setvar action: =+n, =-n, =n, =text, = and, with ! before *)
(* the name, any; bare is a name or a removal without an = sign.  junk is   *)
(* an operand that is not a number.                                         *)
SetVars == [op : {"none", "add", "sub", "set", "text", "empty", "remove", "bare"}, n : Int, junk : BOOLEAN]

(* A link of a rule.  A SecMarker and a SecAction have no operator, and a   *)
(* SecMarker no id.  severity and log are read of the first link only.      *)
Link == [operator : BOOLEAN, marker : BOOLEAN, capture : BOOLEAN, setvar : SetVars,
         msg : BOOLEAN, severity : 0..7, log : BOOLEAN]

ASSUME MatchStateAssumption ==
    /\ \A r \in Rules : r \in Seq(Link) /\ r # <<>>
    /\ Groups \in 0..9 /\ MaxRules \in Nat /\ MaxMatches \in Nat

VARIABLES
    rule, link,         (* the rule being evaluated and its link, 0 when none *)
    hit,                (* that link has matched                            *)
    Capture,
    captures,           (* TX:0 ..: the match that wrote each, 0 for ""     *)
    matchedVars,        (* MATCHED_VARS                                     *)
    matchedVar,         (* MATCHED_VAR, 0 before any match                  *)
    counter,            (* the TX variable the setvar actions name          *)
    matchedValues,      (* doEvaluate's: [match, message], 0 for no message *)
    matchedRules,       (* tx.matchedRules                                  *)
    errorLog,           (* what ErrorLogCb was given, as ErrorLog shows it  *)
    highestSeverity,
    panicked,           (* an action has panicked                           *)
    matches,            (* history: the matches so far: in which rule and   *)
                        (* link, whether with a message, and whether a link *)
                        (* up to it has the capture action                  *)
    rules,              (* history: rules evaluated                         *)
    added,              (* history: sum of what setvar was asked to add     *)
    onlyAdded           (* history: no setvar did anything else             *)

evalVars    == <<rule, link, Capture>>
historyVars == <<matches, rules, added, onlyAdded>>
logVars     == <<matchedRules, errorLog, highestSeverity>>
vars        == <<evalVars, matchedValues, logVars, hit, captures, matchedVars, matchedVar, counter, panicked,
                 historyVars>>

Value  == [kind : {"absent", "empty", "int", "text"}, n : Int]
Absent == [kind |-> "absent", n |-> 0]

(* newTransactionWithID *)
Init ==
    /\ rule \in Rules /\ link = 0 /\ hit = FALSE /\ Capture = FALSE
    /\ captures = [i \in 0..9 |-> 0]
    /\ matchedVars = <<>> /\ matchedVar = 0
    /\ counter = Absent /\ panicked = FALSE
    /\ matchedValues = <<>> /\ matchedRules = <<>> /\ errorLog = <<>> /\ highestSeverity = 0
    /\ matches = <<>> /\ rules = 0 /\ added = 0 /\ onlyAdded = TRUE
-----------------------------------------------------------------------------
(* mutant: MATCHED_VARS is kept for the next rule *)
StartRule_KeepsMatches(r) ==
    /\ link = 0 /\ rules < MaxRules /\ ~panicked
    /\ rule' = r /\ link' = 1 /\ hit' = FALSE /\ rules' = rules + 1
    /\ Capture' = r[1].capture
    /\ UNCHANGED <<captures, matchedVars, matchedVar, counter, matchedValues, logVars, panicked, matches, added, onlyAdded>>

(* RuleGroup.Eval comes to a rule, and doEvaluate starts. *)
StartRule(r) ==
    /\ link = 0 /\ rules < MaxRules /\ ~panicked
    /\ rule' = r /\ link' = 1 /\ hit' = FALSE /\ rules' = rules + 1
    /\ matchedVars' = <<>>
    /\ Capture' = (Capture \/ r[1].capture)
    /\ UNCHANGED <<captures, matchedVar, counter, matchedValues, logVars, panicked, matches, added, onlyAdded>>

(* mutant: the sum is taken for the new operand *)
SetVar_Replaces(v, s) ==
    CASE s.op \in {"none", "bare"} -> v
      [] s.op = "remove" -> Absent
      [] s.op = "empty"  -> [kind |-> "empty", n |-> 0]
      [] s.op = "text"   -> [kind |-> "text", n |-> 0]
      [] s.op = "set"    -> [kind |-> "int", n |-> s.n]
      [] s.op = "add"    -> IF s.junk \/ v.kind = "text" THEN v ELSE [kind |-> "int", n |-> s.n]
      [] s.op = "sub"    -> IF v.kind # "int" THEN v ELSE [kind |-> "int", n |-> v.n - s.n]

(* setvarFn.evaluateTxCollection.  A variable that is not there, or empty,  *)
(* can be added to and not subtracted from; junk adds nothing and is an     *)
(* error, subtracts zero and is none.                                       *)
SetVar(v, s) ==
    CASE s.op \in {"none", "bare"} -> v
      [] s.op = "remove" -> Absent
      [] s.op = "empty"  -> [kind |-> "empty", n |-> 0]
      [] s.op = "text"   -> [kind |-> "text", n |-> 0]
      [] s.op = "set"    -> [kind |-> "int", n |-> s.n]
      [] s.op = "add"    -> IF s.junk \/ v.kind = "text" THEN v
                            ELSE [kind |-> "int", n |-> v.n + s.n]
      [] s.op = "sub"    -> IF v.kind # "int" THEN v
                            ELSE [kind |-> "int", n |-> IF s.junk THEN v.n ELSE v.n - s.n]

(* Transaction.CaptureField, for each group of the match. *)
CaptureField(groups, m) ==
    captures' = [i \in 0..9 |-> IF Capture /\ i < groups THEN m ELSE captures[i]]

(* Transaction.matchVariable: MATCHED_VARS grows, MATCHED_VAR is the match. *)
MatchVariable(m) ==
    /\ matchedVars' = Append(matchedVars, m)
    /\ matchedVar' = m

(* Rule.matchVariable: the variables, then the non-disruptive actions,      *)
(* which may read them.  setvarFn.Evaluate expands its value, which is nil  *)
(* for a bare one, and panics; the evaluation is over.                      *)
Nondisruptive(m, s) ==
    /\ MatchVariable(m)
    /\ counter' = SetVar(counter, s)
    /\ panicked' = (s.op = "bare")

(* doEvaluate: the operator of the link matches a value.  Captures, then    *)
(* the MATCHED_ variables, then the non-disruptive actions, then the        *)
(* message, for every value that matches and whatever becomes of the chain. *)
(* Without an operator there is one match, of nothing and with no message.  *)
Match(groups) ==
    LET m == Len(matches) + 1
        s == rule[link].setvar
        says == rule[link].operator /\ rule[link].msg
        asked == \E k \in 1..link : rule[k].capture
    IN
    /\ link > 0 /\ m <= MaxMatches /\ ~panicked
    /\ ~rule[link].operator => ~hit /\ groups = 0
    /\ hit' = TRUE
    /\ CaptureField(groups, m)
    /\ Nondisruptive(m, s)
    /\ matchedValues' = Append(matchedValues, [match |-> m, message |-> IF says THEN m ELSE 0])
    /\ matches' = Append(matches, [serial |-> rules, link |-> link, says |-> says, asked |-> asked])
    /\ added' = IF s.op = "add" /\ ~s.junk THEN added + s.n ELSE added
    /\ onlyAdded' = (onlyAdded /\ s.op \in {"none", "add"})
    /\ UNCHANGED <<evalVars, logVars, rules>>

(* mutant: the values of the chain replace those before *)
NextLink_Replaces ==
    /\ link \in 1..(Len(rule) - 1) /\ ~panicked
    /\ hit /\ hit' = FALSE
    /\ link' = link + 1
    /\ Capture' = (Capture \/ rule[link'].capture)
    /\ matchedValues' = <<>>
    /\ UNCHANGED <<rule, captures, matchedVars, matchedVar, counter, logVars, panicked, historyVars>>

(* The next rule of the chain is evaluated. *)
NextLink ==
    /\ link \in 1..(Len(rule) - 1) /\ ~panicked
    /\ hit /\ hit' = FALSE
    /\ link' = link + 1
    /\ Capture' = (Capture \/ rule[link'].capture)
    /\ UNCHANGED <<rule, captures, matchedVars, matchedVar, counter, matchedValues, logVars, panicked, historyVars>>

(* The first message that is set. *)
FirstMessage(datas) ==
    LET set == {i \in DOMAIN datas : datas[i].message # 0}
    IN  IF set = {} THEN 0 ELSE datas[CHOOSE i \in set : \A k \in set : i <= k].message

(* MatchedRule.ErrorLog: a line for each value. *)
ErrorLog(mr) == [i \in DOMAIN mr.datas |-> FirstMessage(mr.datas)]

(* Transaction.MatchRule.  (Its part in tx.audit is RuleEngine's.) *)
MatchRule(r, mds) ==
    LET mr == [rule |-> r, serial |-> rules, datas |-> mds, message |-> FirstMessage(mds)]
    IN  /\ matchedRules' = Append(matchedRules, mr)
        /\ errorLog' = IF r[1].log THEN errorLog \o ErrorLog(mr) ELSE errorLog
        /\ highestSeverity' = IF r[1].severity > highestSeverity THEN r[1].severity ELSE highestSeverity

(* The lists one after the other. *)
Joined(lists) ==
    LET upTo[n \in 0..Len(lists)] == IF n = 0 THEN <<>> ELSE upTo[n - 1] \o lists[n]
    IN  upTo[Len(lists)]

(* The messages of Transaction.AuditLog: one for each value of each rule.   *)
MessagesOf(mr) == [k \in DOMAIN mr.datas |-> [serial |-> mr.serial, message |-> mr.datas[k].message]]
AuditMessages  == Joined([i \in DOMAIN matchedRules |-> MessagesOf(matchedRules[i])])

(* The rule is done: its last link has matched, or the link at hand has     *)
(* not.  Eval clears tx.Capture.                                            *)
EndOfRule ==
    /\ link > 0 /\ ~panicked
    /\ link' = 0 /\ hit' = FALSE /\ Capture' = FALSE
    /\ hit => link = Len(rule)
    /\ ~rule[link].operator => hit
    /\ matchedValues' = <<>>
    /\ IF hit /\ ~rule[1].marker THEN MatchRule(rule, matchedValues) ELSE UNCHANGED logVars
    /\ UNCHANGED <<rule, captures, matchedVars, matchedVar, counter, panicked, historyVars>>

Next ==
    \/ \E r \in Rules : StartRule(r)
    \/ \E groups \in 0..Groups : Match(groups)
    \/ NextLink
    \/ EndOfRule

Spec == Init /\ [][Next]_vars
-----------------------------------------------------------------------------
(* The matches of one evaluation of a rule. *)
Of(serial) == {i \in DOMAIN matches : matches[i].serial = serial}

(* The sequence lists the set in increasing order. *)
InOrder(s, S) ==
    /\ {s[k] : k \in DOMAIN s} = S
    /\ \A j, k \in DOMAIN s : j < k => s[j] < s[k]

(* While a rule is evaluated, MATCHED_VARS holds the matches of this rule   *)
(* and of the links of its chain so far, in order and no others, and        *)
(* MATCHED_VAR is the latest of them: what the later links of a chain test. *)
(* A value is in TX:0 to TX:9 only because the rule that matched it, or an  *)
(* earlier link of its chain, has the capture action: tx.Capture does not   *)
(* leak into the next rule, however the chain ended.                        *)
MatchedVarsOfRule ==
    /\ link > 0 =>
          /\ InOrder(matchedVars, Of(rules))
          /\ matchedVars # <<>> => matchedVar = matchedVars[Len(matchedVars)]
    /\ \A i \in 0..9 : captures[i] # 0 => matches[captures[i]].asked

(* A variable that is only added to (an anomaly score) is the sum over all  *)
(* matches, of chains that did not complete too, junk left out.             *)
ScoreIsSum == onlyAdded => counter.n = added

(* A matched rule is recorded once and only if all links of its chain have  *)
(* matched, with all the values that matched in this evaluation, in order,  *)
(* never those of a rule or of a broken chain before it; its message is     *)
(* that of the first match that has one.  HIGHEST_SEVERITY is what it was   *)
(* at the start or the severity of a recorded rule, never that of a rule    *)
(* whose chain broke off.                                                   *)
RulesRecorded ==
    /\ \A i \in DOMAIN matchedRules :
          LET mr == matchedRules[i]
              said == {m \in Of(mr.serial) : matches[m].says}
          IN  /\ InOrder([k \in DOMAIN mr.datas |-> mr.datas[k].match], Of(mr.serial))
              /\ {matches[m].link : m \in Of(mr.serial)} = DOMAIN mr.rule
              /\ IF said = {} THEN mr.message = 0
                 ELSE mr.message \in said /\ \A m \in said : mr.message <= m
              /\ \A j \in DOMAIN matchedRules : j # i => matchedRules[j].serial # mr.serial
    /\ highestSeverity \in {0} \cup {matchedRules[i].rule[1].severity : i \in DOMAIN matchedRules}

(* The matches behind the entries of the audit record. *)
Told == Joined([i \in DOMAIN matchedRules |->
                   [k \in DOMAIN matchedRules[i].datas |-> matchedRules[i].datas[k].match]])

(* The lines of the error log that a recorded rule has. *)
LinesOf(mr) == IF mr.rule[1].log THEN [k \in DOMAIN mr.datas |-> mr.message] ELSE <<>>

(* The error log has a line for each value of each recorded rule with       *)
(* logging, with the message of its rule.  The audit record has an entry    *)
(* for each match of a recorded rule, in the order of the matches and with  *)
(* its own message.                                                         *)
LogsRecorded ==
    /\ InOrder(Told, {m \in DOMAIN matches : \E i \in DOMAIN matchedRules :
                                                matchedRules[i].serial = matches[m].serial})
    /\ AuditMessages = [k \in DOMAIN Told |->
                           [serial |-> matches[Told[k]].serial,
                            message |-> IF matches[Told[k]].says THEN Told[k] ELSE 0]]
    /\ errorLog = Joined([i \in DOMAIN matchedRules |-> LinesOf(matchedRules[i])])

(* Matched rules are recorded as they matched, and the error log and the    *)
(* audit record tell what is recorded (Transaction.MatchRule).              *)
MatchesRecorded == RulesRecorded /\ LogsRecorded
=============================================================================
