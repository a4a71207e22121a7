----------------------------- MODULE RuleEngine -----------------------------
(***************************************************************************)
(* The rule loop of one transaction: RuleGroup.Eval, Rule.doEvaluate and   *)
(* the actions a matching rule runs (internal/corazawaf/rulegroup.go,      *)
(* rule.go, actions/).  A step is one turn of the loop, or one chained     *)
(* rule; a transaction is driven by one goroutine, so nothing else runs    *)
(* while phase # 0.                                                        *)
(*                                                                         *)
(* Abstraction.  What an operator answers depends on request data that is  *)
(* not modelled: a rule with an operator may match or not at every visit,  *)
(* a rule without one (SecAction, SecMarker) always matches.  The ctl      *)
(* actions of a rule only assign constants, so running them once or once   *)
(* per matched value is the same: a rule carries their joint effect.       *)
(***************************************************************************)
EXTENDS Naturals, Integers, Sequences

CONSTANTS WAFs,       (* the WAF instances a configuration may produce       *)
          Marks,      (* SecMarker names                                     *)
          NoMark,     (* the empty string as a SecMark or SkipAfter          *)
          Keep,       (* "this rule has no such ctl action"                  *)
          None        (* the nil interruption                                *)

Engines      == {"On", "DetectionOnly", "Off"}
AuditEngines == {"On", "RelevantOnly", "Off"}
Disruptions  == {"deny", "drop", "redirect"}
Logging      == 5

(* The joint effect of a rule's ctl actions. *)
Ctl == [ruleEngine : Engines \union {Keep}, requestBodyAccess : BOOLEAN \union {Keep},
        requestBodyLimit : Int \union {Keep}, auditEngine : AuditEngines \union {Keep},
        ruleRemoveByID : SUBSET Nat]

(* A chained rule: only its operator and its ctl actions have an effect. *)
Link == [operator : BOOLEAN, ctl : Ctl]

(* A rule of the list.  disruptive is "none" for pass, allow and block,    *)
(* whose Evaluate is empty.                                                *)
Rule == [id : Nat, phase : 0..5, secMark : Marks \union {NoMark},
         operator : BOOLEAN, ctl : Ctl, chain : Seq(Link),
         disruptive : Disruptions \union {"none"}, skip : Nat,
         skipAfter : Marks \union {NoMark}, audit : BOOLEAN]

(* The fields of a WAF that its transactions read.  RequestBodyLimitAction  *)
(* is the one the transaction consults; the directive of that name stores   *)
(* into another field, RejectOnRequestBodyLimit, which nothing reads.       *)
WAF == [Rules : Seq(Rule), RuleEngine : Engines, AuditEngine : AuditEngines,
        RequestBodyAccess : BOOLEAN, RequestBodyLimit : Int,
        RequestBodyLimitAction : {"ProcessPartial", "Reject"},
        ResponseBodyAccess : BOOLEAN]

(* types.Interruption without its status.  cause is not a field of the      *)
(* code: it tells the denial of the body limit from a rule without id.      *)
Interruptions == [rule : Nat, action : Disruptions, cause : {"rule", "limit"}]

(* RuleGroup.Add refuses a rule whose id another rule of the list has;      *)
(* markers and actions without an id all have 0.                            *)
UniqueIDs(list) ==
    \A j, k \in DOMAIN list : list[j].id = list[k].id /\ list[j].id # 0 => j = k

ASSUME RuleEngineAssumption ==
    /\ WAFs \subseteq WAF
    /\ \A w \in WAFs : UniqueIDs(w.Rules)
    /\ NoMark \notin Marks
    /\ Keep \notin Engines \union AuditEngines /\ Keep \notin BOOLEAN /\ Keep \notin Int
    /\ None \notin Interruptions

VARIABLES
    waf,                (* the WAF, fixed while its transactions run       *)
    RuleEngine,         (* the settings a ctl action may change ...        *)
    RequestBodyAccess,
    RequestBodyLimit,
    AuditEngine,
    ruleRemoveByID,     (* ... and the rules it removed                    *)
    LastPhase,
    interruption,
    Skip,
    SkipAfter,
    matchedRules,       (* ids of the matched rules, oldest first          *)
    audit,
    phase,              (* the phase Eval is running, 0 outside Eval       *)
    cur,                (* the rule of the list the loop is at             *)
    pos,                (* 0, or the chained rule of rules[cur] to evaluate *)
    jump                (* history: where this Eval last ran a skipAfter   *)

rules == waf.Rules

settings   == <<RuleEngine, RequestBodyAccess, RequestBodyLimit, AuditEngine, ruleRemoveByID>>
cursor     == <<phase, cur, pos>>
engineVars == <<waf, settings, LastPhase, interruption, Skip, SkipAfter,
                matchedRules, audit, cursor, jump>>

NoJump == [at |-> 0, mark |-> NoMark]

EngineTypeOK ==
    /\ waf \in WAF
    /\ RuleEngine \in Engines
    /\ RequestBodyAccess \in BOOLEAN
    /\ RequestBodyLimit \in Int
    /\ AuditEngine \in AuditEngines
    /\ ruleRemoveByID \subseteq Nat
    /\ LastPhase \in 0..5
    /\ interruption \in Interruptions \union {None}
    /\ Skip \in Nat
    /\ SkipAfter \in Marks \union {NoMark}
    /\ matchedRules \in Seq(Nat)
    /\ audit \in BOOLEAN
    /\ phase \in 0..5
    /\ cur \in 1..(Len(rules) + 1)
    /\ pos \in Nat
    /\ jump \in [at : Nat, mark : Marks \union {NoMark}]

(* newTransactionWithID: a transaction starts with the settings of its WAF. *)
EngineInit ==
    /\ waf \in WAFs
    /\ RuleEngine = waf.RuleEngine
    /\ RequestBodyAccess = waf.RequestBodyAccess
    /\ RequestBodyLimit = waf.RequestBodyLimit
    /\ AuditEngine = waf.AuditEngine
    /\ ruleRemoveByID = {}
    /\ LastPhase = 0
    /\ interruption = None
    /\ Skip = 0 /\ SkipAfter = NoMark
    /\ matchedRules = <<>>
    /\ audit = FALSE
    /\ phase = 0 /\ cur = 1 /\ pos = 0
    /\ jump = NoJump

(* mutant: audit is not among the fields NewTransaction resets *)
EngineReset_KeepsAudit ==
    /\ UNCHANGED <<waf, audit>>
    /\ RuleEngine' = waf.RuleEngine
    /\ RequestBodyAccess' = waf.RequestBodyAccess
    /\ RequestBodyLimit' = waf.RequestBodyLimit
    /\ AuditEngine' = waf.AuditEngine
    /\ ruleRemoveByID' = {}
    /\ LastPhase' = 0
    /\ interruption' = None
    /\ Skip' = 0 /\ SkipAfter' = NoMark
    /\ matchedRules' = <<>>
    /\ phase' = 0 /\ cur' = 1 /\ pos' = 0
    /\ jump' = NoJump

(* The same for a Transaction that comes back from the pool with the state  *)
(* its last use left in it.                                                 *)
EngineReset ==
    /\ UNCHANGED waf
    /\ RuleEngine' = waf.RuleEngine
    /\ RequestBodyAccess' = waf.RequestBodyAccess
    /\ RequestBodyLimit' = waf.RequestBodyLimit
    /\ AuditEngine' = waf.AuditEngine
    /\ ruleRemoveByID' = {}
    /\ LastPhase' = 0
    /\ interruption' = None
    /\ Skip' = 0 /\ SkipAfter' = NoMark
    /\ matchedRules' = <<>>
    /\ audit' = FALSE
    /\ phase' = 0 /\ cur' = 1 /\ pos' = 0
    /\ jump' = NoJump

-----------------------------------------------------------------------------
Or(new, old) == IF new = Keep THEN old ELSE new

(* ctlFn.Evaluate, once for all the ctl actions of a rule. *)
EvaluateCtl(c) ==
    /\ RuleEngine' = Or(c.ruleEngine, RuleEngine)
    /\ RequestBodyAccess' = Or(c.requestBodyAccess, RequestBodyAccess)
    /\ RequestBodyLimit' = Or(c.requestBodyLimit, RequestBodyLimit)
    /\ AuditEngine' = Or(c.auditEngine, AuditEngine)
    /\ ruleRemoveByID' = ruleRemoveByID \union c.ruleRemoveByID

(* mutant: only DetectionOnly keeps a rule from interrupting *)
Interrupt_AnyEngine(r, engine) ==
    interruption' = IF engine # "DetectionOnly" /\ r.disruptive # "none"
                    THEN [rule |-> r.id, action |-> r.disruptive, cause |-> "rule"]
                    ELSE interruption

(* Transaction.Interrupt *)
Interrupt(r, engine) ==
    interruption' = IF engine = "On" /\ r.disruptive # "none"
                    THEN [rule |-> r.id, action |-> r.disruptive, cause |-> "rule"]
                    ELSE interruption

(* The flow actions skip and skipAfter. *)
Flow(r, engine) ==
    /\ Skip' = IF engine # "DetectionOnly" /\ r.skip > 0 THEN r.skip ELSE Skip
    /\ IF engine # "DetectionOnly" /\ r.skipAfter # NoMark
       THEN /\ SkipAfter' = r.skipAfter
            /\ jump' = [at |-> cur, mark |-> r.skipAfter]
       ELSE UNCHANGED <<SkipAfter, jump>>

(* Transaction.MatchRule; SecMarkers and rules without id are not recorded. *)
MatchRule(r) ==
    IF r.id # 0
    THEN /\ matchedRules' = Append(matchedRules, r.id)
         /\ audit' = (audit \/ r.audit)
    ELSE UNCHANGED <<matchedRules, audit>>

(* The end of doEvaluate for a rule of the list whose chain matched. *)
Fire(r, engine) ==
    /\ Interrupt(r, engine)
    /\ Flow(r, engine)
    /\ MatchRule(r)

Advance == cur' = cur + 1 /\ pos' = 0 /\ UNCHANGED phase

(* mutant: the rule acts before its chain is evaluated *)
Matched_Eager(r, ctl) == EvaluateCtl(ctl) /\ Fire(r, RuleEngine') /\ Advance

(* doEvaluate from the moment a rule or a chained rule has matched: its     *)
(* non-disruptive actions, then its chain or, after the last chained rule,  *)
(* the disruptive and flow actions of the rule of the list.                 *)
Matched(r, ctl) ==
    /\ EvaluateCtl(ctl)
    /\ IF pos < Len(r.chain)
       THEN /\ pos' = pos + 1
            /\ UNCHANGED <<phase, cur, interruption, Skip, SkipAfter, jump, matchedRules, audit>>
       ELSE Fire(r, RuleEngine') /\ Advance

NotMatched ==
    /\ Advance
    /\ UNCHANGED <<settings, interruption, Skip, SkipAfter, jump, matchedRules, audit>>
-----------------------------------------------------------------------------
(* RuleGroup.Eval up to its loop. *)
StartEval(p) ==
    /\ LastPhase' = p
    /\ phase' = p /\ cur' = 1 /\ pos' = 0
    /\ jump' = NoJump
    /\ UNCHANGED <<waf, settings, interruption, Skip, SkipAfter, matchedRules, audit>>

Looping == phase # 0 /\ pos = 0 /\ cur <= Len(rules)

(* mutant: the loop runs on after an interruption *)
Break_Never == interruption # None /\ phase = 0

Break == interruption # None /\ phase # Logging

Applies(r) == r.phase \in {phase, 0} /\ r.id \notin ruleRemoveByID

(* mutant: the comparison with the marker is inverted *)
SkipToMark_Inverted ==
    /\ Looping /\ ~Break
    /\ Applies(rules[cur])
    /\ SkipAfter # NoMark
    /\ SkipAfter' = IF rules[cur].secMark # SkipAfter THEN NoMark ELSE SkipAfter
    /\ Advance
    /\ UNCHANGED <<waf, settings, LastPhase, interruption, Skip, matchedRules, audit, jump>>

(* A turn of the loop that continues before the rule is evaluated. *)
PassOver ==
    /\ Looping /\ ~Break
    /\ ~Applies(rules[cur])
    /\ Advance
    /\ UNCHANGED <<waf, settings, LastPhase, interruption, Skip, SkipAfter,
                   matchedRules, audit, jump>>

SkipToMark ==
    /\ Looping /\ ~Break
    /\ Applies(rules[cur])
    /\ SkipAfter # NoMark
    /\ SkipAfter' = IF rules[cur].secMark = SkipAfter THEN NoMark ELSE SkipAfter
    /\ Advance
    /\ UNCHANGED <<waf, settings, LastPhase, interruption, Skip, matchedRules, audit, jump>>

SkipOne ==
    /\ Looping /\ ~Break
    /\ Applies(rules[cur])
    /\ SkipAfter = NoMark /\ Skip > 0
    /\ Skip' = Skip - 1
    /\ Advance
    /\ UNCHANGED <<waf, settings, LastPhase, interruption, SkipAfter, matchedRules, audit, jump>>

(* r.Evaluate: the operator of a rule of the list answers. *)
EvaluateRule ==
    /\ Looping /\ ~Break
    /\ LET r == rules[cur] IN
       /\ Applies(r)
       /\ SkipAfter = NoMark /\ Skip = 0
       /\ \/ Matched(r, r.ctl)
          \/ r.operator /\ NotMatched
    /\ UNCHANGED <<waf, LastPhase>>

(* nr.Evaluate: the operator of a chained rule answers. *)
EvaluateChained ==
    /\ phase # 0 /\ pos > 0
    /\ LET r == rules[cur] IN
       \/ Matched(r, r.chain[pos].ctl)
       \/ r.chain[pos].operator /\ NotMatched
    /\ UNCHANGED <<waf, LastPhase>>

EvalStep == PassOver \/ SkipToMark \/ SkipOne \/ EvaluateRule \/ EvaluateChained

(* The loop is over: the list is exhausted, or an interruption breaks it. *)
EvalDone == phase # 0 /\ pos = 0 /\ (cur > Len(rules) \/ Break)
=============================================================================
