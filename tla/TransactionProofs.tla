-------------------------- MODULE TransactionProofs --------------------------
(***************************************************************************)
(* What Transaction guarantees for every rule list, every WAF and every    *)
(* body: its type invariant, that interruptions are not hidden or lost,    *)
(* and that it implements TransactionContract.                             *)
(***************************************************************************)
EXTENDS Transaction, TLAPS

(* The rule loop stays inside the list and inside the chain it walks, its   *)
(* phase is the last phase, and a closed transaction evaluates nothing.     *)
CursorInv ==
    /\ phase # 0 => phase = LastPhase /\ ~closed
    /\ pos > 0 => /\ phase # 0
                  /\ cur <= Len(rules)
                  /\ pos <= Len(rules[cur].chain)

(* While a chain of phases 1 to 4 is walked no interruption stands: the     *)
(* loop would have been broken before the rule.                             *)
ChainInv == pos > 0 /\ phase # Logging => interruption = None

Safe == CursorInv /\ ChainInv /\ InterruptionNeedsEngine /\ ProcessCallsReport

(* The inductive invariant. *)
IInv == TypeOK /\ Safe

-----------------------------------------------------------------------------
(* The cursor points at a rule and, inside a chain, at a link. *)
LEMMA RuleAtCursor ==
    ASSUME TypeOK, cur <= Len(rules)
    PROVE  /\ rules[cur] \in Rule
           /\ \A k \in 1..Len(rules[cur].chain) : rules[cur].chain[k] \in Link
<1>1. rules \in Seq(Rule) /\ cur \in 1..Len(rules)
  BY DEF TypeOK, EngineTypeOK, WAF, rules
<1>2. rules[cur] \in Rule
  BY <1>1
<1>3. rules[cur].chain \in Seq(Link)
  BY <1>2 DEF Rule
<1> QED BY <1>2, <1>3

(* The ctl actions of a rule set every setting to a value it may have       *)
(* (ctlFn.Evaluate).                                                        *)
LEMMA CtlTyped ==
    ASSUME TypeOK, NEW STATE c, c \in Ctl, EvaluateCtl(c)
    PROVE  /\ RuleEngine' \in Engines
           /\ RequestBodyAccess' \in BOOLEAN
           /\ RequestBodyLimit' \in Int
           /\ AuditEngine' \in AuditEngines
           /\ ruleRemoveByID' \subseteq Nat
  BY Zenon DEF TypeOK, EngineTypeOK, EvaluateCtl, Or, Ctl

(* Matched: the step of a rule, or of a link, that matches. *)
LEMMA MatchedTyped ==
    ASSUME TypeOK, NEW STATE c, c \in Ctl, cur <= Len(rules), phase # 0,
           Matched(rules[cur], c), UNCHANGED <<waf, LastPhase>>
    PROVE  EngineTypeOK'
<1> DEFINE r == rules[cur]
<1>1. r \in Rule
  BY RuleAtCursor
<1>2. /\ r.id \in Nat /\ r.audit \in BOOLEAN /\ r.skip \in Nat
      /\ r.skipAfter \in Marks \union {NoMark}
      /\ r.disruptive \in Disruptions \union {"none"}
  BY <1>1 DEF Rule
<1>3. EvaluateCtl(c) BY DEF Matched
<1>4. CASE pos < Len(r.chain)
  BY <1>3, <1>4, CtlTyped DEF TypeOK, EngineTypeOK, Matched, rules
<1>5. CASE ~(pos < Len(r.chain))
  <2>1. Interrupt(r, RuleEngine') /\ Flow(r, RuleEngine') /\ MatchRule(r) /\ Advance
    BY <1>5 DEF Matched, Fire
  <2>2. interruption' \in Interruptions \union {None}
    BY <1>2, <2>1 DEF Interrupt, Interruptions, TypeOK, EngineTypeOK
  <2>3. Skip' \in Nat /\ SkipAfter' \in Marks \union {NoMark}
        /\ jump' \in [at : Nat, mark : Marks \union {NoMark}]
    BY <1>2, <2>1 DEF Flow, TypeOK, EngineTypeOK, rules
  <2>4. matchedRules' \in Seq(Nat)
    <3>1. matchedRules' = Append(matchedRules, r.id) \/ matchedRules' = matchedRules
      BY <2>1, Zenon DEF MatchRule
    <3>2. r.id \in Nat
      BY <1>2
    <3>3. matchedRules \in Seq(Nat)
      BY DEF TypeOK, EngineTypeOK
    <3> HIDE DEF r
    <3> QED BY <3>1, <3>2, <3>3
  <2>6. audit' \in BOOLEAN
    BY <1>2, <2>1, Zenon DEF MatchRule, TypeOK, EngineTypeOK
  <2>5. phase' \in 0..5 /\ cur' \in 1..(Len(rules') + 1) /\ pos' \in Nat
    BY <2>1 DEF Advance, TypeOK, EngineTypeOK, rules
  <2> QED BY <1>3, <2>2, <2>3, <2>4, <2>5, <2>6, CtlTyped DEF TypeOK, EngineTypeOK
<1> QED BY <1>4, <1>5

(* What EvalStep leaves alone. *)
LEMMA EvalStepFrame ==
    ASSUME EvalStep
    PROVE  UNCHANGED <<waf, LastPhase, phase>>
  BY DEF EvalStep, PassOver, SkipToMark, SkipOne, EvaluateRule, EvaluateChained,
         Matched, NotMatched, Advance

(* One turn of the rule loop keeps the engine typed and the cursor inside. *)
LEMMA EvalStepTyped ==
    ASSUME TypeOK, CursorInv, EvalStep
    PROVE  /\ EngineTypeOK'
           /\ pos' > 0 => cur' <= Len(rules') /\ pos' <= Len(rules'[cur'].chain)
<1>1. CASE PassOver
  BY <1>1 DEF PassOver, Looping, Advance, TypeOK, EngineTypeOK, settings, rules
<1>2. CASE SkipToMark
  BY <1>2 DEF SkipToMark, Looping, Advance, TypeOK, EngineTypeOK, settings, rules
<1>3. CASE SkipOne
  BY <1>3 DEF SkipOne, Looping, Advance, TypeOK, EngineTypeOK, settings, rules
<1>4. ASSUME cur <= Len(rules), UNCHANGED <<waf, LastPhase>>, NotMatched
      PROVE  EngineTypeOK' /\ pos' = 0
  BY <1>4 DEF NotMatched, Advance, TypeOK, EngineTypeOK, settings, rules
<1>5. ASSUME NEW STATE c, c \in Ctl, cur <= Len(rules), UNCHANGED <<waf, LastPhase>>,
             phase # 0, Matched(rules[cur], c)
      PROVE  /\ EngineTypeOK'
             /\ pos' > 0 => cur' <= Len(rules') /\ pos' <= Len(rules'[cur'].chain)
  <2>1. EngineTypeOK'
    BY <1>5, MatchedTyped
  <2>2. \/ pos < Len(rules[cur].chain) /\ pos' = pos + 1 /\ cur' = cur
        \/ pos' = 0
    BY <1>5 DEF Matched, Advance
  <2>3. rules' = rules
    BY <1>5 DEF rules
  <2>4. rules[cur].chain \in Seq(Link)
    BY <1>5, RuleAtCursor DEF Rule
  <2>5. pos \in Nat /\ Len(rules[cur].chain) \in Nat
    BY <2>4 DEF TypeOK, EngineTypeOK
  <2>6. CASE pos < Len(rules[cur].chain) /\ pos' = pos + 1 /\ cur' = cur
    <3>1. pos' <= Len(rules[cur].chain)
      BY <2>5, <2>6
    <3>2. Len(rules'[cur'].chain) = Len(rules[cur].chain) /\ Len(rules') = Len(rules)
      BY <2>3, <2>6
    <3> QED BY <1>5, <2>1, <2>6, <3>1, <3>2
  <2>7. CASE pos' = 0
    BY <2>1, <2>7
  <2> QED BY <2>2, <2>6, <2>7
<1>6. CASE EvaluateRule
  <2>1. /\ cur <= Len(rules) /\ phase # 0 /\ UNCHANGED <<waf, LastPhase>>
        /\ Matched(rules[cur], rules[cur].ctl) \/ NotMatched
    BY <1>6 DEF EvaluateRule, Looping
  <2>2. rules[cur].ctl \in Ctl
    BY <2>1, RuleAtCursor DEF Rule
  <2> QED BY <1>4, <1>5, <2>1, <2>2
<1>7. CASE EvaluateChained
  <2>1. /\ cur <= Len(rules) /\ phase # 0 /\ UNCHANGED <<waf, LastPhase>>
        /\ Matched(rules[cur], rules[cur].chain[pos].ctl) \/ NotMatched
    BY <1>7 DEF EvaluateChained, CursorInv
  <2>2. pos \in 1..Len(rules[cur].chain)
    BY <1>7 DEF EvaluateChained, CursorInv, TypeOK, EngineTypeOK
  <2>3. rules[cur].chain[pos].ctl \in Ctl
    BY <2>1, <2>2, RuleAtCursor DEF Link
  <2> QED BY <1>4, <1>5, <2>1, <2>3
<1> QED BY <1>1, <1>2, <1>3, <1>6, <1>7 DEF EvalStep

RuleVerdict(i) == i \in Interruptions /\ i.cause = "rule"

(* A turn of the loop leaves the interruption alone, or it is a match that  *)
(* raises one, with the engine On, where none stood or in the logging phase. *)
LEMMA EvalStepVerdict ==
    ASSUME IInv, EvalStep
    PROVE  /\ \/ interruption' = interruption
              \/ /\ RuleVerdict(interruption') /\ RuleEngine' = "On"
                 /\ interruption = None \/ phase = Logging
           /\ phase # Logging /\ interruption # None
                => interruption' = interruption /\ RuleEngine' = RuleEngine
           /\ pos' > 0 /\ phase # Logging => interruption' = None
<1> USE DEF IInv, Safe
<1>1. ASSUME NotMatched \/ (Advance /\ UNCHANGED <<settings, interruption>>)
      PROVE  pos' = 0 /\ interruption' = interruption /\ RuleEngine' = RuleEngine
  BY <1>1 DEF NotMatched, Advance, settings
<1>2. CASE PassOver \/ SkipToMark \/ SkipOne
  BY <1>1, <1>2 DEF PassOver, SkipToMark, SkipOne
<1>3. ASSUME NEW STATE c, c \in Ctl, cur <= Len(rules), Matched(rules[cur], c),
             phase # Logging => interruption = None
      PROVE  /\ \/ interruption' = interruption
                \/ /\ RuleVerdict(interruption') /\ RuleEngine' = "On"
                   /\ interruption = None \/ phase = Logging
             /\ pos' > 0 /\ phase # Logging => interruption' = None
  <2>1. /\ rules[cur].id \in Nat
        /\ rules[cur].disruptive \in Disruptions \union {"none"}
    BY <1>3, RuleAtCursor DEF Rule
  <2>2. CASE pos < Len(rules[cur].chain)
    BY <1>3, <2>2 DEF Matched
  <2>3. CASE ~(pos < Len(rules[cur].chain))
    <3>1. Interrupt(rules[cur], RuleEngine') /\ pos' = 0
      BY <1>3, <2>3 DEF Matched, Fire, Advance
    <3> QED BY <1>3, <2>1, <3>1 DEF Interrupt, RuleVerdict, Interruptions
  <2> QED BY <2>2, <2>3
<1>4. CASE EvaluateRule
  <2>1. /\ cur <= Len(rules)
        /\ phase # Logging => interruption = None
        /\ Matched(rules[cur], rules[cur].ctl) \/ NotMatched
    BY <1>4 DEF EvaluateRule, Looping, Break
  <2>2. rules[cur].ctl \in Ctl
    BY <2>1, RuleAtCursor DEF Rule
  <2> QED BY <1>1, <1>3, <2>1, <2>2
<1>5. CASE EvaluateChained
  <2>1. /\ cur <= Len(rules)
        /\ phase # Logging => interruption = None
        /\ Matched(rules[cur], rules[cur].chain[pos].ctl) \/ NotMatched
        /\ pos \in 1..Len(rules[cur].chain)
    BY <1>5 DEF EvaluateChained, CursorInv, ChainInv, TypeOK, EngineTypeOK
  <2>2. rules[cur].chain[pos].ctl \in Ctl
    BY <2>1, RuleAtCursor DEF Link
  <2> QED BY <1>1, <1>3, <2>1, <2>2
<1> QED BY <1>2, <1>4, <1>5 DEF EvalStep

(* A turn of the loop keeps the inductive invariant. *)
LEMMA EvalStepInv ==
    ASSUME IInv, EvalStep, UNCHANGED <<bodyVars, logVars, closed, ret>>
    PROVE  IInv'
<1> USE DEF IInv, Safe
<1>1. UNCHANGED <<waf, LastPhase, phase>> /\ phase # 0
  BY EvalStepFrame DEF EvalStep, PassOver, SkipToMark, SkipOne, EvaluateRule, EvaluateChained, Looping
<1>2. TypeOK'
  BY EvalStepTyped DEF TypeOK, bodyVars, limitVars, logVars
<1>3. CursorInv'
  BY <1>1, EvalStepTyped DEF CursorInv
<1>4. ChainInv'
  BY <1>1, EvalStepVerdict DEF ChainInv
<1>5. InterruptionNeedsEngine'
  <2>1. LastPhase' = LastPhase /\ phase = LastPhase
    BY <1>1 DEF CursorInv
  <2> QED BY <2>1, EvalStepVerdict DEF InterruptionNeedsEngine, RuleVerdict, Logging
<1>6. ProcessCallsReport'
  BY <1>1 DEF ProcessCallsReport, Idle
<1> QED BY <1>2, <1>3, <1>4, <1>5, <1>6
-----------------------------------------------------------------------------
Calls == ProcessCalls \union BodyCalls

RetType == [call : Calls \union {"none"}, it : Interruptions \union {None}]

(* The call of an idle transaction enters the rule loop of phase p. *)
LEMMA StartEvalSafe ==
    ASSUME IInv, Idle, NEW p \in 1..5, StartEval(p), UNCHANGED closed,
           p = Logging \/ interruption = None
    PROVE  EngineTypeOK' /\ Safe'
<1> USE DEF IInv, Safe
<1>1. /\ LastPhase' = p /\ phase' = p /\ cur' = 1 /\ pos' = 0 /\ jump' = NoJump
      /\ waf' = waf /\ interruption' = interruption /\ RuleEngine' = RuleEngine /\ ~closed'
  BY DEF StartEval, settings, Idle
<1>2. EngineTypeOK'
  BY <1>1 DEF StartEval, settings, EngineTypeOK, TypeOK, NoJump, rules
<1>3. CursorInv' /\ ChainInv'
  BY <1>1 DEF CursorInv, ChainInv
<1>4. InterruptionNeedsEngine'
  BY <1>1 DEF InterruptionNeedsEngine, Logging
<1>5. ProcessCallsReport'
  BY <1>1 DEF ProcessCallsReport, Idle
<1> QED BY <1>2, <1>3, <1>4, <1>5

(* A call returns at once; a Process method returns what stands. *)
LEMMA AnswerSafe ==
    ASSUME IInv, Idle, UNCHANGED <<engineVars, closed>>,
           ret'.call \in ProcessCalls /\ LastPhase < Logging => ret'.it = interruption
    PROVE  EngineTypeOK' /\ Safe'
<1> USE DEF IInv, Safe
<1>1. UNCHANGED <<waf, LastPhase, interruption, phase, cur, pos, closed, RuleEngine>>
  BY DEF engineVars, settings, cursor
<1>2. EngineTypeOK'
  BY DEF engineVars, settings, cursor, EngineTypeOK, TypeOK, rules
<1>3. CursorInv' /\ ChainInv'
  BY <1>1 DEF CursorInv, ChainInv, rules
<1>4. InterruptionNeedsEngine'
  BY <1>1 DEF InterruptionNeedsEngine
<1>5. ProcessCallsReport'
  BY <1>1 DEF ProcessCallsReport, Idle
<1> QED BY <1>2, <1>3, <1>4, <1>5

(* A refused call: with the engine Off no interruption stands that it could hide. *)
LEMMA RefusalSafe ==
    ASSUME IInv, Idle, NEW call \in Calls, Refusal(call), UNCHANGED closed
    PROVE  EngineTypeOK' /\ Safe' /\ ret' \in RetType /\ UNCHANGED reqbodyError
<1>1. /\ UNCHANGED <<engineVars, closed>> /\ UNCHANGED reqbodyError
      /\ ret' = [call |-> call, it |-> IF RuleEngine = "Off" THEN None ELSE interruption]
  BY DEF Refusal, Answer, Return
<1>2. LastPhase < Logging => ret'.it = interruption
  BY <1>1 DEF IInv, Safe, InterruptionNeedsEngine
<1>3. ret' \in RetType
  BY <1>1 DEF RetType, IInv, TypeOK, EngineTypeOK
<1> QED BY <1>1, <1>2, <1>3, AnswerSafe

(* A body call answers; nothing is required of what it returns. *)
LEMMA BodyAnswerSafe ==
    ASSUME IInv, Idle, NEW call \in BodyCalls, NEW STATE it, it \in Interruptions \union {None},
           Answer(call, it), UNCHANGED closed
    PROVE  EngineTypeOK' /\ Safe' /\ ret' \in RetType /\ UNCHANGED reqbodyError
<1>1. /\ UNCHANGED <<engineVars, closed>> /\ UNCHANGED reqbodyError
      /\ ret' = [call |-> call, it |-> it]
  BY DEF Answer, Return
<1>2. ret'.call \notin ProcessCalls /\ ret' \in RetType
  BY <1>1 DEF BodyCalls, ProcessCalls, RetType, Calls
<1> QED BY <1>1, <1>2, AnswerSafe

(* The body limit denies, with the engine not Off. *)
LEMMA DenySafe ==
    ASSUME IInv, Idle, NEW call \in BodyCalls, DenyBody(call), RuleEngine # "Off", UNCHANGED closed
    PROVE  EngineTypeOK' /\ Safe' /\ ret' \in RetType /\ UNCHANGED reqbodyError
<1> USE DEF IInv, Safe
<1>1. /\ UNCHANGED <<waf, LastPhase, phase, cur, pos, closed, RuleEngine>> /\ UNCHANGED reqbodyError
      /\ interruption' = LimitDenial
      /\ ret' = [call |-> call, it |-> LimitDenial]
  BY DEF DenyBody, Return, settings, cursor
<1>2. LimitDenial \in Interruptions
  BY DEF LimitDenial, Interruptions, Disruptions
<1>3. EngineTypeOK'
  BY <1>1, <1>2 DEF DenyBody, settings, cursor, EngineTypeOK, TypeOK, rules
<1>4. CursorInv' /\ ChainInv'
  BY <1>1 DEF CursorInv, ChainInv, rules, Idle
<1>5. InterruptionNeedsEngine'
  BY <1>1 DEF InterruptionNeedsEngine, LimitDenial
<1>6. ProcessCallsReport' /\ ret' \in RetType
  BY <1>1, <1>2 DEF ProcessCallsReport, BodyCalls, ProcessCalls, RetType, Calls
<1> QED BY <1>1, <1>3, <1>4, <1>5, <1>6

(* Phase 2, entered by ProcessRequestBody or by a body call at the limit. *)
LEMMA RequestBodyPhaseSafe ==
    ASSUME IInv, Idle, NEW call \in Calls, RequestBodyPhase(call), UNCHANGED closed
    PROVE  EngineTypeOK' /\ Safe' /\ ret' \in RetType /\ reqbodyError' \in BOOLEAN
<1>1. CASE Refused(2)
  BY <1>1, RefusalSafe, Zenon DEF RequestBodyPhase, IInv, TypeOK
<1>2. CASE ~Refused(2)
  <2>1. StartEval(2) /\ ret' = [call |-> call, it |-> None] /\ interruption = None
    BY <1>2 DEF RequestBodyPhase, Return, Refused
  <2>2. reqbodyError' \in BOOLEAN
    BY <1>2, Zenon DEF RequestBodyPhase, IInv, TypeOK
  <2>3. ret' \in RetType
    BY <2>1 DEF RetType
  <2> QED BY <2>1, <2>2, <2>3, StartEvalSafe
<1> QED BY <1>1, <1>2

(* A Process method other than ProcessRequestBody: phase p, or a refusal.   *)
LEMMA ProcessSafe ==
    ASSUME IInv, Idle, NEW call \in ProcessCalls, NEW p \in 1..5,
           \/ Refused(p) /\ Refusal(call)
           \/ ~Refused(p) /\ StartEval(p) /\ Return(call, None) /\ UNCHANGED reqbodyError
           \/ Answer(call, interruption),
           UNCHANGED <<requestBodyLength, bodyFailed, limitVars, logVars, closed>>
    PROVE  IInv'
<1>1. EngineTypeOK' /\ Safe' /\ ret' \in RetType /\ UNCHANGED reqbodyError
  <2>1. CASE Refused(p) /\ Refusal(call)
    BY <2>1, RefusalSafe DEF Calls
  <2>2. CASE ~Refused(p) /\ StartEval(p) /\ Return(call, None) /\ UNCHANGED reqbodyError
    <3>1. interruption = None /\ ret' \in RetType
      BY <2>2 DEF Refused, Return, RetType, Calls
    <3> QED BY <2>2, <3>1, StartEvalSafe
  <2>3. CASE Answer(call, interruption)
    <3>1. /\ UNCHANGED engineVars /\ UNCHANGED reqbodyError
          /\ ret' = [call |-> call, it |-> interruption]
      BY <2>3 DEF Answer, Return
    <3>2. ret' \in RetType
      BY <3>1 DEF RetType, Calls, IInv, TypeOK, EngineTypeOK
    <3> QED BY <3>1, <3>2, AnswerSafe
  <2> QED BY <2>1, <2>2, <2>3
<1> QED BY <1>1 DEF IInv, TypeOK, RetType, Calls, logVars, limitVars

(* The histories of the body calls are Booleans. *)
LEMMA GivenTyped ==
    ASSUME NEW n, BodyGiven(n)
    PROVE  overLimit' \in BOOLEAN /\ noRoom' \in BOOLEAN
  BY Zenon DEF BodyGiven

(* Transaction.WriteRequestBody keeps the invariant. *)
LEMMA WriteRequestBodyInv ==
    ASSUME IInv, NEW n \in Chunks, WriteRequestBody(n)
    PROVE  IInv'
<1> DEFINE call == "WriteRequestBody"
<1>1. Idle /\ UNCHANGED <<logVars, closed>> /\ call \in BodyCalls /\ call \in Calls
  BY DEF WriteRequestBody, BodyCalls, Calls
<1>2. n \in Nat /\ requestBodyLength \in Nat /\ RequestBodyLimit \in Int
  BY TransactionAssumption DEF IInv, TypeOK, EngineTypeOK
<1>3. interruption \in Interruptions \union {None}
  BY DEF IInv, TypeOK, EngineTypeOK
<1>4. SUFFICES /\ EngineTypeOK' /\ Safe' /\ ret' \in RetType /\ reqbodyError' \in BOOLEAN
               /\ requestBodyLength' \in Nat /\ bodyFailed' \in BOOLEAN
  <2>1. overLimit' \in BOOLEAN /\ noRoom' \in BOOLEAN
    BY GivenTyped DEF WriteRequestBody
  <2> QED BY <1>1, <2>1 DEF IInv, TypeOK, RetType, Calls, logVars
<1>5. reqbodyError \in BOOLEAN /\ bodyFailed \in BOOLEAN
  BY DEF IInv, TypeOK
<1>6. CASE BodyShortcut(call)
  <2>1. /\ Answer(call, IF ~BodyIgnored /\ Reject THEN interruption ELSE None)
        /\ UNCHANGED <<requestBodyLength, bodyFailed>>
    BY <1>6 DEF BodyShortcut
  <2>2. (IF ~BodyIgnored /\ Reject THEN interruption ELSE None) \in Interruptions \union {None}
    BY <1>3
  <2> QED BY <1>1, <1>2, <1>5, <2>1, <2>2, BodyAnswerSafe
<1>7. CASE /\ ~BodyIgnored /\ ~BodyFull /\ Over(n) /\ Reject
           /\ DenyBody(call)
           /\ UNCHANGED <<requestBodyLength, bodyFailed>>
  BY <1>1, <1>2, <1>5, <1>7, DenySafe DEF BodyIgnored
<1>8. CASE /\ bodyFailed' = TRUE
           /\ UNCHANGED <<engineVars, requestBodyLength, reqbodyError, ret>>
  <2>1. ret' \in RetType /\ (ret'.call \in ProcessCalls /\ LastPhase < Logging => ret'.it = interruption)
    BY <1>1, <1>8 DEF IInv, TypeOK, RetType, Calls, Safe, ProcessCallsReport
  <2> QED BY <1>1, <1>2, <1>5, <1>8, <2>1, AnswerSafe
<1>9. CASE /\ WriteBytes(n) > 0
           /\ BodyWriteError(call, {requestBodyLength, requestBodyLength + WriteBytes(n)})
  <2>1. Answer(call, None) /\ bodyFailed' = TRUE
    BY <1>9 DEF BodyWriteError
  <2>2. requestBodyLength' \in Nat
    BY <1>2, <1>9 DEF BodyWriteError, WriteBytes, Room
  <2> QED BY <1>1, <1>5, <2>1, <2>2, BodyAnswerSafe
<1>10. CASE /\ WriteBytes(n) >= 0
            /\ requestBodyLength' = requestBodyLength + WriteBytes(n)
            /\ IF Over(n) THEN RequestBodyPhase(call) ELSE Answer(call, interruption)
            /\ UNCHANGED bodyFailed
  <2>1. requestBodyLength' \in Nat
    BY <1>2, <1>10 DEF WriteBytes, Room
  <2>2. EngineTypeOK' /\ Safe' /\ ret' \in RetType /\ reqbodyError' \in BOOLEAN
    BY <1>1, <1>3, <1>5, <1>10, RequestBodyPhaseSafe, BodyAnswerSafe
  <2> QED BY <1>5, <1>10, <2>1, <2>2
<1> QED BY <1>6, <1>7, <1>8, <1>9, <1>10, Zenon DEF WriteRequestBody

(* Transaction.ReadRequestBodyFrom keeps the invariant. *)
LEMMA ReadRequestBodyFromInv ==
    ASSUME IInv, NEW n \in Chunks, NEW sized \in BOOLEAN, ReadRequestBodyFrom(n, sized)
    PROVE  IInv'
<1> DEFINE call  == "ReadRequestBodyFrom"
           over  == sized /\ Over(n)
           asked == IF sized /\ ~over THEN n ELSE Room
           bytes == CopyN(n, asked)
<1>1. Idle /\ UNCHANGED <<logVars, closed>> /\ call \in BodyCalls /\ call \in Calls
  BY DEF ReadRequestBodyFrom, BodyCalls, Calls
<1>2. n \in Nat /\ requestBodyLength \in Nat /\ RequestBodyLimit \in Int /\ bytes \in Nat
  BY TransactionAssumption DEF IInv, TypeOK, EngineTypeOK, CopyN, Room
<1>3. interruption \in Interruptions \union {None}
  BY DEF IInv, TypeOK, EngineTypeOK
<1>4. SUFFICES /\ EngineTypeOK' /\ Safe' /\ ret' \in RetType /\ reqbodyError' \in BOOLEAN
               /\ requestBodyLength' \in Nat /\ bodyFailed' \in BOOLEAN
  <2>1. overLimit' \in BOOLEAN /\ noRoom' \in BOOLEAN
    BY GivenTyped DEF ReadRequestBodyFrom
  <2> QED BY <1>1, <2>1 DEF IInv, TypeOK, RetType, Calls, logVars
<1>5. reqbodyError \in BOOLEAN /\ bodyFailed \in BOOLEAN
  BY DEF IInv, TypeOK
<1> HIDE DEF over, asked, bytes
<1>6. CASE BodyShortcut(call)
  <2>1. /\ Answer(call, IF ~BodyIgnored /\ Reject THEN interruption ELSE None)
        /\ UNCHANGED <<requestBodyLength, bodyFailed>>
    BY <1>6 DEF BodyShortcut
  <2>2. (IF ~BodyIgnored /\ Reject THEN interruption ELSE None) \in Interruptions \union {None}
    BY <1>3
  <2> QED BY <1>1, <1>2, <1>5, <2>1, <2>2, BodyAnswerSafe
<1>7. CASE /\ ~BodyIgnored
           /\ DenyBody(call)
           /\ UNCHANGED <<requestBodyLength, bodyFailed>>
  BY <1>1, <1>2, <1>5, <1>7, DenySafe DEF BodyIgnored
<1>8. CASE BodyWriteError(call, requestBodyLength .. (requestBodyLength + bytes))
  <2>1. Answer(call, None) /\ bodyFailed' = TRUE
    BY <1>8 DEF BodyWriteError
  <2>2. requestBodyLength' \in Nat
    BY <1>2, <1>8 DEF BodyWriteError
  <2> QED BY <1>1, <1>5, <2>1, <2>2, BodyAnswerSafe
<1>9. CASE /\ ~BodyIgnored
           /\ requestBodyLength' = requestBodyLength + bytes
           /\ LET full == requestBodyLength' = RequestBodyLimit IN
              IF full /\ Reject THEN DenyBody(call)
              ELSE IF over \/ full THEN RequestBodyPhase(call)
              ELSE Answer(call, interruption)
           /\ UNCHANGED bodyFailed
  <2>1. requestBodyLength' \in Nat
    BY <1>2, <1>9
  <2>2. DenyBody(call) \/ RequestBodyPhase(call) \/ Answer(call, interruption)
    BY <1>9
  <2>3. EngineTypeOK' /\ Safe' /\ ret' \in RetType /\ reqbodyError' \in BOOLEAN
    BY <1>1, <1>3, <1>5, <1>9, <2>2, RequestBodyPhaseSafe, BodyAnswerSafe, DenySafe DEF BodyIgnored
  <2> QED BY <1>5, <1>9, <2>1, <2>3
<1> QED BY <1>6, <1>7, <1>8, <1>9, Zenon DEF ReadRequestBodyFrom, over, asked, bytes

(* The calls that end a transaction's life, and the return from the loop. *)
LEMMA LifecycleInv ==
    ASSUME IInv, ProcessLogging \/ EvalReturn \/ Close \/ NewTransaction
    PROVE  IInv'
<1> USE DEF IInv
<1>1. ASSUME WriteAuditLog PROVE auditLog' \in Nat
  BY <1>1 DEF WriteAuditLog, TypeOK
<1>2. CASE ProcessLogging
  <2>1. Idle /\ UNCHANGED <<bodyVars, closed, ret>> /\ loggings' \in Nat
    BY <1>2 DEF ProcessLogging, TypeOK
  <2>2. auditLog' \in Nat
    BY <1>1, <1>2 DEF ProcessLogging, TypeOK
  <2>3. EngineTypeOK' /\ Safe'
    <3>1. CASE StartEval(Logging)
      BY <2>1, <3>1, StartEvalSafe DEF Logging
    <3>2. CASE UNCHANGED engineVars
      BY <2>1, <3>2, AnswerSafe DEF Safe, ProcessCallsReport
    <3> QED BY <1>2, <3>1, <3>2 DEF ProcessLogging
  <2> QED BY <2>1, <2>2, <2>3 DEF TypeOK, bodyVars, limitVars
<1>3. CASE EvalReturn
  <2>1. /\ phase # 0 /\ pos = 0 /\ phase' = 0 /\ cur' = 1 /\ pos' = 0
        /\ UNCHANGED <<waf, settings, LastPhase, interruption, Skip, SkipAfter, matchedRules,
                       audit, jump, bodyVars, loggings, closed>>
    BY <1>3 DEF EvalReturn, EvalDone
  <2>2. auditLog' \in Nat
    BY <1>1, <1>3 DEF EvalReturn, TypeOK
  <2>3. /\ ret' \in RetType
        /\ phase # Logging => ret'.it = interruption
    BY <1>3 DEF EvalReturn, Return, TypeOK, EngineTypeOK, RetType, Calls
  <2>4. EngineTypeOK'
    BY <2>1 DEF TypeOK, EngineTypeOK, settings, rules
  <2>5. CursorInv' /\ ChainInv'
    BY <2>1 DEF CursorInv, ChainInv
  <2>6. InterruptionNeedsEngine'
    BY <2>1 DEF Safe, InterruptionNeedsEngine, settings
  <2>7. ProcessCallsReport'
    <3>1. phase = LastPhase
      BY <2>1 DEF Safe, CursorInv
    <3>2. LastPhase' < Logging => phase # Logging
      BY <2>1, <3>1 DEF Logging
    <3> QED BY <2>1, <2>3, <3>2 DEF ProcessCallsReport
  <2> QED BY <2>1, <2>2, <2>3, <2>4, <2>5, <2>6, <2>7 DEF Safe, TypeOK, bodyVars, limitVars, RetType, Calls
<1>4. CASE Close
  <2>1. /\ phase = 0 /\ closed' = TRUE /\ requestBodyLength' = 0 /\ reqbodyError' = FALSE
        /\ UNCHANGED <<bodyFailed, overLimit, noRoom, auditLog, loggings, ret>>
        /\ UNCHANGED <<waf, LastPhase, interruption, phase, cur, pos, RuleEngine>>
    BY <1>4 DEF Close, Idle, logVars, limitVars, engineVars, settings, cursor
  <2>2. EngineTypeOK'
    BY <1>4 DEF Close, engineVars, settings, cursor, EngineTypeOK, TypeOK, rules
  <2>3. Safe'
    BY <2>1, Zenon DEF Safe, CursorInv, ChainInv, InterruptionNeedsEngine, ProcessCallsReport, Idle, rules
  <2> QED BY <2>1, <2>2, <2>3, Zenon DEF TypeOK
<1>5. CASE NewTransaction
  <2>1. /\ waf' = waf /\ phase' = 0 /\ cur' = 1 /\ pos' = 0 /\ interruption' = None
        /\ closed' = FALSE
        /\ ret' = [call |-> "none", it |-> None]
        /\ auditLog' = 0 /\ loggings' = 0
        /\ bodyFailed' = FALSE /\ overLimit' = FALSE /\ noRoom' = FALSE
        /\ UNCHANGED <<requestBodyLength, reqbodyError>>
    BY <1>5 DEF NewTransaction, EngineReset
  <2>2. EngineTypeOK'
    <3>1. /\ waf.RuleEngine \in Engines /\ waf.RequestBodyAccess \in BOOLEAN
          /\ waf.RequestBodyLimit \in Int /\ waf.AuditEngine \in AuditEngines
          /\ waf \in WAF /\ Len(rules) \in Nat
      BY DEF TypeOK, EngineTypeOK, WAF, rules
    <3>2. EngineReset /\ rules' = rules
      BY <1>5 DEF NewTransaction, EngineReset, rules
    <3>3. <<>> \in Seq(Nat) /\ NoJump \in [at : Nat, mark : Marks \union {NoMark}]
      BY DEF NoJump
    <3>4. /\ LastPhase' \in 0..5 /\ Skip' \in Nat /\ phase' \in 0..5
          /\ cur' \in 1..(Len(rules') + 1) /\ pos' \in Nat
      BY <3>1, <3>2 DEF EngineReset
    <3> QED BY <3>1, <3>2, <3>3, <3>4, Zenon DEF EngineReset, EngineTypeOK
  <2>3. Safe'
    <3>1. CursorInv' /\ ChainInv'
      BY <2>1 DEF CursorInv, ChainInv
    <3>2. InterruptionNeedsEngine'
      BY <2>1 DEF InterruptionNeedsEngine
    <3>3. ret'.call \notin ProcessCalls
      BY <2>1 DEF ProcessCalls
    <3> QED BY <3>1, <3>2, <3>3 DEF Safe, ProcessCallsReport
  <2> QED BY <2>1, <2>2, <2>3, Zenon DEF TypeOK
<1> QED BY <1>2, <1>3, <1>4, <1>5

(* A new transaction satisfies the invariant (newTransactionWithID). *)
LEMMA InitInv == Init => IInv
<1> SUFFICES ASSUME Init PROVE IInv
  OBVIOUS
<1>1. waf \in WAF
  BY RuleEngineAssumption DEF Init, EngineInit
<1>2. /\ waf.RuleEngine \in Engines /\ waf.RequestBodyAccess \in BOOLEAN
      /\ waf.RequestBodyLimit \in Int /\ waf.AuditEngine \in AuditEngines
      /\ Len(rules) \in Nat
  BY <1>1 DEF WAF, rules
<1>3. <<>> \in Seq(Nat) /\ NoJump \in [at : Nat, mark : Marks \union {NoMark}]
  BY DEF NoJump
<1>4. EngineTypeOK
  <2>1. /\ LastPhase \in 0..5 /\ Skip \in Nat /\ phase \in 0..5
        /\ cur \in 1..(Len(rules) + 1) /\ pos \in Nat
    BY <1>2 DEF Init, EngineInit
  <2> QED BY <1>1, <1>2, <1>3, <2>1, Zenon DEF Init, EngineInit, EngineTypeOK
<1>5. TypeOK
  BY <1>4, Zenon DEF Init, TypeOK
<1>6. Safe
  BY DEF Init, EngineInit, Safe, CursorInv, ChainInv, InterruptionNeedsEngine, ProcessCallsReport
<1> QED BY <1>5, <1>6 DEF IInv

(* Every call and every turn of the rule loop keeps the invariant. *)
LEMMA StepInv == IInv /\ [Next]_vars => IInv'
<1> SUFFICES ASSUME IInv, [Next]_vars PROVE IInv'
  OBVIOUS
<1>1. CASE ProcessRequestHeaders
  BY <1>1, ProcessSafe DEF ProcessRequestHeaders, ProcessCalls
<1>2. CASE ProcessRequestBody
  <2>1. EngineTypeOK' /\ Safe' /\ ret' \in RetType /\ reqbodyError' \in BOOLEAN
    BY <1>2, RequestBodyPhaseSafe DEF ProcessRequestBody, ProcessCalls, Calls
  <2> QED BY <1>2, <2>1 DEF ProcessRequestBody, IInv, TypeOK, RetType, Calls, logVars, limitVars
<1>3. CASE ProcessResponseHeaders
  BY <1>3, ProcessSafe DEF ProcessResponseHeaders, ProcessCalls
<1>4. CASE ProcessResponseBody
  BY <1>4, ProcessSafe DEF ProcessResponseBody, ProcessCalls
<1>5. CASE \E n \in Chunks : WriteRequestBody(n)
  BY <1>5, WriteRequestBodyInv
<1>6. CASE \E n \in Chunks, sized \in BOOLEAN : ReadRequestBodyFrom(n, sized)
  BY <1>6, ReadRequestBodyFromInv
<1>7. CASE ProcessLogging \/ EvalReturn \/ Close \/ NewTransaction
  BY <1>7, LifecycleInv
<1>8. CASE EvalStep /\ UNCHANGED <<bodyVars, logVars, closed, ret>>
  BY <1>8, EvalStepInv
<1>9. CASE UNCHANGED vars
  BY <1>9 DEF vars, engineVars, bodyVars, limitVars, logVars, settings, cursor, IInv, TypeOK, EngineTypeOK,
              Safe, CursorInv, ChainInv, InterruptionNeedsEngine, ProcessCallsReport, Idle, rules
<1> QED BY <1>1, <1>2, <1>3, <1>4, <1>5, <1>6, <1>7, <1>8, <1>9 DEF Next, Call, Eval

(* The inductive invariant holds in every reachable state. *)
LEMMA Invariance == Spec => []IInv
  BY InitInv, StepInv, PTL DEF Spec

-----------------------------------------------------------------------------
(* Type correctness of the transaction: whatever rules, chains and ctl      *)
(* actions a WAF has, the loop of RuleGroup.Eval stays inside its list and  *)
(* the calls keep every field in its range.                                 *)
THEOREM TypeCorrect == Spec => []TypeOK
<1>1. IInv => TypeOK
  BY DEF IInv
<1> QED BY <1>1, Invariance, PTL

(* Before logging no interruption stands while the engine is Off, and none  *)
(* raised by a rule while it is not On, for every sequence of calls and     *)
(* every way the rules switch the engine.                                   *)
THEOREM EngineCorrect == Spec => []InterruptionNeedsEngine
<1>1. IInv => InterruptionNeedsEngine
  BY DEF IInv, Safe
<1> QED BY <1>1, Invariance, PTL

(* Every Process method returns the interruption that stands, so a          *)
(* connector that looks at what they return learns of every interruption.   *)
THEOREM ReportsCorrect == Spec => []ProcessCallsReport
<1>1. IInv => ProcessCallsReport
  BY DEF IInv, Safe
<1> QED BY <1>1, Invariance, PTL

-----------------------------------------------------------------------------
(* Entering the loop of phase p is the contract's inspection of p. *)
LEMMA StartEvalInspects ==
    ASSUME Idle, NEW p \in 1..5, StartEval(p), UNCHANGED closed, p = Logging \/ ~Refused(p), IInv
    PROVE  Contract!ContractNext
<1>1. /\ ~closed /\ phase = 0 /\ phase' = p /\ LastPhase' = p
      /\ closed' = closed /\ interruption' = interruption
  BY DEF Idle, StartEval
<1>2. p = 5 \/ (p > LastPhase /\ interruption = None)
  BY DEF Refused, Logging, IInv, TypeOK, EngineTypeOK
<1>3. Contract!Inspect(p)
  BY <1>1, <1>2 DEF Contract!Inspect
<1> QED BY <1>3 DEF Contract!ContractNext

(* setAndReturnBodyLimitInterruption is the denial of the contract. *)
LEMMA DenyDenies ==
    ASSUME Idle, NEW call, DenyBody(call), UNCHANGED closed
    PROVE  Contract!ContractNext
<1>1. Contract!DenyForSize
  BY DEF Contract!DenyForSize, DenyBody, Idle, cursor
<1> QED BY <1>1 DEF Contract!ContractNext

(* A call that answers at once is no step of the contract. *)
LEMMA AnswerStutters ==
    ASSUME UNCHANGED <<engineVars, closed>>
    PROVE  UNCHANGED Contract!contractVars
  BY DEF engineVars, cursor, Contract!contractVars

(* Phase 2, whichever call enters it, is an inspection or a refusal. *)
LEMMA RequestBodyPhaseInspects ==
    ASSUME IInv, Idle, NEW call, RequestBodyPhase(call), UNCHANGED closed
    PROVE  [Contract!ContractNext]_Contract!contractVars
<1>1. CASE Refused(2)
  BY <1>1, AnswerStutters DEF RequestBodyPhase, Refusal, Answer
<1>2. CASE ~Refused(2)
  BY <1>2, StartEvalInspects DEF RequestBodyPhase
<1> QED BY <1>1, <1>2

(* Every step of a transaction is a step of its contract, or none. *)
LEMMA StepRefines ==
    ASSUME IInv, [Next]_vars
    PROVE  [Contract!ContractNext]_Contract!contractVars
<1>1. CASE ProcessRequestHeaders
  <2>1. Idle /\ UNCHANGED closed /\ (Refusal("ProcessRequestHeaders") \/ (~Refused(1) /\ StartEval(1)))
    BY <1>1 DEF ProcessRequestHeaders
  <2> QED BY <2>1, StartEvalInspects, AnswerStutters DEF Refusal, Answer
<1>2. CASE ProcessRequestBody
  BY <1>2, RequestBodyPhaseInspects DEF ProcessRequestBody
<1>3. CASE ProcessResponseHeaders
  <2>1. Idle /\ UNCHANGED closed /\ (Refusal("ProcessResponseHeaders") \/ (~Refused(3) /\ StartEval(3)))
    BY <1>3 DEF ProcessResponseHeaders
  <2> QED BY <2>1, StartEvalInspects, AnswerStutters DEF Refusal, Answer
<1>4. CASE ProcessResponseBody
  <2>1. /\ Idle /\ UNCHANGED closed
        /\ \/ Refusal("ProcessResponseBody")
           \/ ~Refused(4) /\ StartEval(4)
           \/ Answer("ProcessResponseBody", interruption)
    BY <1>4 DEF ProcessResponseBody
  <2> QED BY <2>1, StartEvalInspects, AnswerStutters DEF Refusal, Answer
<1>5. CASE \E n \in Chunks : WriteRequestBody(n)
  <2> DEFINE call == "WriteRequestBody"
  <2>1. /\ Idle /\ UNCHANGED closed
        /\ UNCHANGED engineVars \/ DenyBody(call) \/ RequestBodyPhase(call)
    BY <1>5 DEF WriteRequestBody, BodyShortcut, BodyWriteError, Answer
  <2> QED BY <2>1, DenyDenies, RequestBodyPhaseInspects, AnswerStutters
<1>6. CASE \E n \in Chunks, sized \in BOOLEAN : ReadRequestBodyFrom(n, sized)
  <2> DEFINE call == "ReadRequestBodyFrom"
  <2>1. /\ Idle /\ UNCHANGED closed
        /\ UNCHANGED engineVars \/ DenyBody(call) \/ RequestBodyPhase(call)
    BY <1>6 DEF ReadRequestBodyFrom, BodyShortcut, BodyWriteError, Answer
  <2> QED BY <2>1, DenyDenies, RequestBodyPhaseInspects, AnswerStutters
<1>7. CASE ProcessLogging
  <2>1. Idle /\ UNCHANGED closed /\ (StartEval(Logging) \/ UNCHANGED engineVars)
    BY <1>7 DEF ProcessLogging
  <2> QED BY <2>1, StartEvalInspects, AnswerStutters DEF Logging
<1>8. CASE EvalReturn
  <2>1. Contract!Report
    BY <1>8 DEF EvalReturn, EvalDone, IInv, Safe, CursorInv, Contract!Report
  <2> QED BY <2>1 DEF Contract!ContractNext
<1>9. CASE Close
  <2>1. Contract!Release
    BY <1>9 DEF Close, Idle, engineVars, cursor, Contract!Release
  <2> QED BY <2>1 DEF Contract!ContractNext
<1>10. CASE NewTransaction
  <2>1. Contract!Acquire
    BY <1>10 DEF NewTransaction, EngineReset, Contract!Acquire
  <2> QED BY <2>1 DEF Contract!ContractNext
<1>11. CASE EvalStep /\ UNCHANGED <<bodyVars, logVars, closed, ret>>
  <2>1. UNCHANGED <<LastPhase, phase, closed>> /\ phase # 0 /\ ~closed
    BY <1>11, EvalStepFrame, Zenon DEF EvalStep, PassOver, SkipToMark, SkipOne, EvaluateRule,
                                EvaluateChained, Looping, IInv, Safe, CursorInv
  <2>2. CASE interruption' = interruption
    BY <2>1, <2>2 DEF Contract!contractVars
  <2>3. CASE interruption' # interruption
    <3>1. Contract!Decide
      BY <1>11, <2>1, <2>3, EvalStepVerdict DEF Contract!Decide, RuleVerdict, Logging
    <3> QED BY <3>1 DEF Contract!ContractNext
  <2> QED BY <2>2, <2>3
<1>12. CASE UNCHANGED vars
  BY <1>12, AnswerStutters DEF vars
<1> QED BY <1>1, <1>2, <1>3, <1>4, <1>5, <1>6, <1>7, <1>8, <1>9, <1>10, <1>11, <1>12
        DEF Next, Call, Eval

(* The transaction implements its contract for every WAF: each of phases 1  *)
(* to 4 at most once and in order, none of them after an interruption, and  *)
(* no interruption withdrawn before the transaction goes back to the pool.  *)
THEOREM ContractCorrect == Spec => ImplementsContract
<1>1. Init => Contract!ContractInit
  BY DEF Init, EngineInit, Contract!ContractInit
<1>2. IInv /\ [Next]_vars => [Contract!ContractNext]_Contract!contractVars
  BY StepRefines
<1> QED BY <1>1, <1>2, Invariance, PTL DEF Spec, ImplementsContract, Contract!ContractSpec
-----------------------------------------------------------------------------
(* A rule is evaluated only while no skipAfter is pending, and after a      *)
(* skipAfter it stays pending until a marker of its name is passed.         *)
JumpInv ==
    /\ pos > 0 => SkipAfter = NoMark
    /\ phase # 0 /\ jump.at # 0 =>
          /\ jump.at < cur /\ jump.mark # NoMark
          /\ SkipAfter # jump.mark =>
                \E k \in (jump.at + 1)..(cur - 1) : rules[k].secMark = jump.mark

(* The second inductive invariant, relative to the first. *)
RulesInv == waf \in WAFs /\ JumpInv /\ AuditFollowsMatches /\ OversizedBodyHandled
(* The three kinds of turns of the loop: the rule at the cursor is passed,  *)
(* its next link is due, or its chain is complete and it acts.              *)
Evaluating == pos > 0 \/ SkipAfter = NoMark

Passed ==
    /\ cur' = cur + 1 /\ pos' = 0
    /\ UNCHANGED <<jump, matchedRules, audit, interruption>>
    /\ SkipAfter' = SkipAfter \/ (SkipAfter' = NoMark /\ rules[cur].secMark = SkipAfter)

Chained ==
    /\ Evaluating
    /\ UNCHANGED <<cur, jump, matchedRules, audit, interruption, SkipAfter>>

Fired ==
    /\ Evaluating /\ pos = Len(rules[cur].chain)
    /\ cur' = cur + 1 /\ pos' = 0
    /\ Flow(rules[cur], RuleEngine') /\ MatchRule(rules[cur])

(* A rule acts only when its chain is complete (Rule.doEvaluate). *)
LEMMA MatchedStep ==
    ASSUME IInv, NEW STATE c, cur <= Len(rules), Evaluating, Matched(rules[cur], c)
    PROVE  Chained \/ Fired
<1>1. CASE pos < Len(rules[cur].chain)
  BY <1>1 DEF Matched, Chained
<1>2. CASE ~(pos < Len(rules[cur].chain))
  <2>1. rules[cur].chain \in Seq(Link)
    BY RuleAtCursor DEF Rule, IInv
  <2>2. pos \in Nat /\ Len(rules[cur].chain) \in Nat
    BY <2>1 DEF IInv, TypeOK, EngineTypeOK
  <2>3. pos > 0 => pos <= Len(rules[cur].chain)
    BY DEF IInv, Safe, CursorInv
  <2>4. pos = Len(rules[cur].chain)
    BY <1>2, <2>2, <2>3
  <2> QED BY <1>2, <2>4 DEF Matched, Fire, Advance, Fired
<1> QED BY <1>1, <1>2

(* Every turn of the loop of RuleGroup.Eval is of one of the three kinds. *)
LEMMA LoopStep ==
    ASSUME IInv, EvalStep
    PROVE  /\ cur \in 1..Len(rules) /\ phase # 0 /\ ~closed
           /\ UNCHANGED <<waf, LastPhase, phase>>
           /\ Passed \/ Chained \/ Fired
<1>1. /\ cur \in Nat /\ cur >= 1 /\ Len(rules) \in Nat /\ pos \in Nat
  BY DEF IInv, TypeOK, EngineTypeOK, WAF, rules
<1>2. /\ phase # 0 /\ cur <= Len(rules)
  BY Zenon DEF EvalStep, PassOver, SkipToMark, SkipOne, EvaluateRule, EvaluateChained, Looping,
         IInv, Safe, CursorInv
<1>3. ~closed
  BY <1>2 DEF IInv, Safe, CursorInv
<1>4. ASSUME PassOver \/ SkipToMark \/ SkipOne PROVE Passed
  BY <1>4 DEF PassOver, SkipToMark, SkipOne, Advance, Passed
<1>5. ASSUME NotMatched PROVE Passed
  BY <1>5 DEF NotMatched, Advance, Passed
<1>6. CASE EvaluateRule
  <2>1. Evaluating /\ (Matched(rules[cur], rules[cur].ctl) \/ NotMatched)
    BY <1>6 DEF EvaluateRule, Evaluating
  <2> QED BY <1>1, <1>2, <1>3, <1>5, <2>1, MatchedStep, EvalStepFrame
<1>7. CASE EvaluateChained
  <2>1. Evaluating /\ (Matched(rules[cur], rules[cur].chain[pos].ctl) \/ NotMatched)
    BY <1>7 DEF EvaluateChained, Evaluating
  <2> QED BY <1>1, <1>2, <1>3, <1>5, <2>1, MatchedStep, EvalStepFrame
<1> QED BY <1>1, <1>2, <1>3, <1>4, <1>6, <1>7, EvalStepFrame DEF EvalStep

(* A step outside the loop records no match and clears no skipAfter, and    *)
(* interrupts for the body limit only.                                      *)
Outside ==
    /\ UNCHANGED <<waf, SkipAfter, matchedRules, audit>>
    /\ interruption' \in {interruption, LimitDenial}
    /\ LastPhase' >= LastPhase
    /\ closed => closed'
    /\ UNCHANGED <<phase, cur, pos, jump>> \/ (pos' = 0 /\ (phase' = 0 \/ jump' = NoJump))

(* A call that enters the loop of a phase starts at its first rule          *)
(* (RuleGroup.Eval).                                                        *)
LEMMA StartEvalOutside ==
    ASSUME IInv, Idle, NEW p \in 1..5, StartEval(p), UNCHANGED closed, p = Logging \/ ~Refused(p)
    PROVE  Outside
<1>1. LastPhase \in 0..5 /\ LastPhase' = p /\ p >= LastPhase
  BY DEF Refused, Logging, IInv, TypeOK, EngineTypeOK, StartEval
<1> QED BY <1>1 DEF StartEval, Outside

(* A call that answers at once leaves the engine as it is. *)
LEMMA UnchangedOutside ==
    ASSUME IInv, UNCHANGED engineVars, closed => closed'
    PROVE  Outside
<1>1. LastPhase \in 0..5 /\ LastPhase' = LastPhase
  BY DEF IInv, TypeOK, EngineTypeOK, engineVars
<1> QED BY <1>1 DEF engineVars, cursor, Outside

(* setAndReturnBodyLimitInterruption changes the interruption alone. *)
LEMMA DenyOutside ==
    ASSUME IInv, NEW call, DenyBody(call), UNCHANGED closed
    PROVE  Outside
<1>1. LastPhase \in 0..5 /\ LastPhase' = LastPhase
  BY DEF IInv, TypeOK, EngineTypeOK, DenyBody
<1> QED BY <1>1 DEF DenyBody, cursor, Outside

(* Phase 2 is entered or refused (Transaction.ProcessRequestBody). *)
LEMMA RequestBodyPhaseOutside ==
    ASSUME IInv, Idle, NEW call, RequestBodyPhase(call), UNCHANGED closed
    PROVE  Outside
<1>1. CASE Refused(2)
  BY <1>1, UnchangedOutside DEF RequestBodyPhase, Refusal, Answer
<1>2. CASE ~Refused(2)
  BY <1>2, StartEvalOutside DEF RequestBodyPhase
<1> QED BY <1>1, <1>2

(* Every step is a turn of the loop, the reuse of a pooled transaction or   *)
(* outside the loop.                                                        *)
LEMMA StepKinds ==
    ASSUME IInv, [Next]_vars
    PROVE  \/ EvalStep /\ UNCHANGED <<bodyVars, logVars, closed, ret>>
           \/ NewTransaction
           \/ Outside
<1>1. CASE ProcessRequestHeaders
  <2>1. Idle /\ UNCHANGED closed /\ (Refusal("ProcessRequestHeaders") \/ (~Refused(1) /\ StartEval(1)))
    BY <1>1 DEF ProcessRequestHeaders
  <2> QED BY <2>1, StartEvalOutside, UnchangedOutside DEF Refusal, Answer
<1>2. CASE ProcessRequestBody
  BY <1>2, RequestBodyPhaseOutside DEF ProcessRequestBody
<1>3. CASE ProcessResponseHeaders
  <2>1. Idle /\ UNCHANGED closed /\ (Refusal("ProcessResponseHeaders") \/ (~Refused(3) /\ StartEval(3)))
    BY <1>3 DEF ProcessResponseHeaders
  <2> QED BY <2>1, StartEvalOutside, UnchangedOutside DEF Refusal, Answer
<1>4. CASE ProcessResponseBody
  <2>1. /\ Idle /\ UNCHANGED closed
        /\ \/ Refusal("ProcessResponseBody")
           \/ ~Refused(4) /\ StartEval(4)
           \/ Answer("ProcessResponseBody", interruption)
    BY <1>4 DEF ProcessResponseBody
  <2> QED BY <2>1, StartEvalOutside, UnchangedOutside DEF Refusal, Answer
<1>5. CASE \E n \in Chunks : WriteRequestBody(n)
  <2> DEFINE call == "WriteRequestBody"
  <2>1. /\ Idle /\ UNCHANGED closed
        /\ UNCHANGED engineVars \/ DenyBody(call) \/ RequestBodyPhase(call)
    BY <1>5 DEF WriteRequestBody, BodyShortcut, BodyWriteError, Answer
  <2> QED BY <2>1, DenyOutside, RequestBodyPhaseOutside, UnchangedOutside
<1>6. CASE \E n \in Chunks, sized \in BOOLEAN : ReadRequestBodyFrom(n, sized)
  <2> DEFINE call == "ReadRequestBodyFrom"
  <2>1. /\ Idle /\ UNCHANGED closed
        /\ UNCHANGED engineVars \/ DenyBody(call) \/ RequestBodyPhase(call)
    BY <1>6 DEF ReadRequestBodyFrom, BodyShortcut, BodyWriteError, Answer
  <2> QED BY <2>1, DenyOutside, RequestBodyPhaseOutside, UnchangedOutside
<1>7. CASE ProcessLogging
  <2>1. Idle /\ UNCHANGED closed /\ (StartEval(Logging) \/ UNCHANGED engineVars)
    BY <1>7 DEF ProcessLogging
  <2> QED BY <2>1, StartEvalOutside, UnchangedOutside DEF Logging
<1>8. CASE EvalReturn
  <2>1. LastPhase \in 0..5 /\ LastPhase' = LastPhase
    BY <1>8 DEF IInv, TypeOK, EngineTypeOK, EvalReturn
  <2> QED BY <1>8, <2>1 DEF EvalReturn, EvalDone, Outside
<1>9. CASE Close
  BY <1>9, UnchangedOutside DEF Close
<1>10. CASE UNCHANGED vars
  BY <1>10, UnchangedOutside DEF vars
<1> QED BY <1>1, <1>2, <1>3, <1>4, <1>5, <1>6, <1>7, <1>8, <1>9, <1>10 DEF Next, Call, Eval

(* skipAfter is followed until its marker (RuleGroup.Eval). *)
LEMMA JumpStep ==
    ASSUME IInv, JumpInv, [Next]_vars
    PROVE  JumpInv'
<1>1. CASE NewTransaction
  BY <1>1, Zenon DEF NewTransaction, EngineReset, JumpInv
<1>2. CASE Outside
  <2>1. rules' = rules
    BY <1>2 DEF Outside, rules
  <2>2. CASE UNCHANGED <<phase, cur, pos, jump>>
    BY <1>2, <2>1, <2>2 DEF Outside, JumpInv
  <2>3. CASE pos' = 0 /\ (phase' = 0 \/ jump' = NoJump)
    BY <2>3 DEF JumpInv, NoJump
  <2> QED BY <1>2, <2>2, <2>3 DEF Outside
<1>3. CASE EvalStep
  <2>1. /\ cur \in 1..Len(rules) /\ phase # 0 /\ rules' = rules /\ cur \in Nat
        /\ Passed \/ Chained \/ Fired
    BY <1>3, LoopStep DEF rules
  <2>2. jump.at \in Nat /\ jump \in [at : Nat, mark : Marks \union {NoMark}]
    BY DEF IInv, TypeOK, EngineTypeOK
  <2>3. CASE Passed
    <3>1. ASSUME phase' # 0, jump'.at # 0
          PROVE  /\ jump'.at < cur' /\ jump'.mark # NoMark
                 /\ SkipAfter' # jump'.mark =>
                       \E k \in (jump'.at + 1)..(cur' - 1) : rules'[k].secMark = jump'.mark
      <4>1. jump' = jump /\ cur' = cur + 1 /\ jump.at < cur /\ jump.mark # NoMark
        BY <2>1, <2>3, <3>1 DEF Passed, JumpInv
      <4>2. CASE SkipAfter # jump.mark
        <5>1. PICK k \in (jump.at + 1)..(cur - 1) : rules[k].secMark = jump.mark
          BY <2>1, <3>1, <4>1, <4>2 DEF JumpInv
        <5>2. k \in (jump'.at + 1)..(cur' - 1)
          BY <2>1, <2>2, <4>1
        <5> QED BY <2>1, <2>2, <4>1, <5>1, <5>2
      <4>3. CASE SkipAfter = jump.mark
        <5>1. cur \in (jump'.at + 1)..(cur' - 1)
          BY <2>1, <2>2, <4>1
        <5> QED BY <2>1, <2>2, <2>3, <4>1, <4>3, <5>1 DEF Passed
      <4> QED BY <4>2, <4>3
    <3>2. ~(pos' > 0)
      BY <2>3 DEF Passed
    <3> QED BY <3>1, <3>2, Zenon DEF JumpInv
  <2>4. CASE Chained
    BY <2>1, <2>4, EvalStepFrame, <1>3 DEF Chained, Evaluating, JumpInv
  <2>5. CASE Fired
    <3>1. pos' = 0 /\ cur' = cur + 1
      BY <2>5 DEF Fired
    <3>2. \/ SkipAfter' = jump'.mark /\ jump'.at = cur /\ jump'.mark # NoMark
          \/ UNCHANGED <<SkipAfter, jump>>
      BY <2>5 DEF Fired, Flow
    <3>3. CASE SkipAfter' = jump'.mark /\ jump'.at = cur /\ jump'.mark # NoMark
      <4>1. ~(pos' > 0) /\ jump'.at < cur'
        BY <2>1, <3>1, <3>3
      <4> QED BY <3>3, <4>1, Zenon DEF JumpInv
    <3>4. CASE UNCHANGED <<SkipAfter, jump>>
      <4>1. ASSUME phase' # 0, jump'.at # 0
            PROVE  /\ jump'.at < cur' /\ jump'.mark # NoMark
                   /\ \E k \in (jump'.at + 1)..(cur' - 1) : rules'[k].secMark = jump'.mark
        <5>1. jump' = jump /\ jump.at < cur /\ jump.mark # NoMark /\ SkipAfter = NoMark
          BY <2>1, <2>5, <3>4, <4>1, Zenon DEF Fired, Evaluating, JumpInv
        <5>2. PICK k \in (jump.at + 1)..(cur - 1) : rules[k].secMark = jump.mark
          BY <2>1, <4>1, <5>1, Zenon DEF JumpInv
        <5>3. k \in (jump'.at + 1)..(cur' - 1)
          BY <2>1, <2>2, <3>1, <5>1
        <5>4. jump'.at < cur' /\ jump'.mark # NoMark
          BY <2>1, <2>2, <3>1, <5>1
        <5>5. rules'[k].secMark = jump'.mark
          BY <2>1, <5>1, <5>2, Zenon
        <5> QED BY <5>3, <5>4, <5>5, Zenon
      <4> QED BY <3>1, <4>1 DEF JumpInv
    <3> QED BY <3>2, <3>3, <3>4
  <2> QED BY <2>1, <2>3, <2>4, <2>5
<1> QED BY <1>1, <1>2, <1>3, StepKinds
(* A rule with audit logging marks the transaction when it is recorded      *)
(* (Transaction.MatchRule); no other rule has its id (RuleGroup.Add).       *)
LEMMA AuditStep ==
    ASSUME IInv, waf \in WAFs, AuditFollowsMatches, [Next]_vars
    PROVE  AuditFollowsMatches'
<1>1. CASE NewTransaction
  <2>1. matchedRules' = <<>> /\ ~audit'
    BY <1>1 DEF NewTransaction, EngineReset
  <2> QED BY <2>1 DEF AuditFollowsMatches
<1>2. CASE Outside
  BY <1>2 DEF Outside, AuditFollowsMatches, rules
<1>3. CASE EvalStep
  <2>1. /\ cur \in 1..Len(rules) /\ rules' = rules /\ ~closed
        /\ Passed \/ Chained \/ Fired
    BY <1>3, LoopStep DEF rules
  <2>2. CASE UNCHANGED <<matchedRules, audit>>
    BY <2>1, <2>2 DEF AuditFollowsMatches
  <2>3. CASE ~UNCHANGED <<matchedRules, audit>>
    <3> DEFINE r == rules[cur]
    <3>1. /\ r.id # 0 /\ matchedRules' = Append(matchedRules, r.id) /\ (audit' <=> audit \/ r.audit)
      BY <2>1, <2>3, Zenon DEF Passed, Chained, Fired, MatchRule
    <3>2. r.id \in Nat /\ matchedRules \in Seq(Nat) /\ rules \in Seq(Rule) /\ cur \in DOMAIN rules
      <4>1. TypeOK
        BY DEF IInv
      <4>2. rules \in Seq(Rule) /\ matchedRules \in Seq(Nat)
        BY <4>1 DEF TypeOK, EngineTypeOK, WAF, rules
      <4>3. cur \in DOMAIN rules
        BY <2>1, <4>2
      <4>4. cur <= Len(rules)
        BY <2>1
      <4>5. r \in Rule
        BY <4>1, <4>4, RuleAtCursor, Zenon
      <4>6. r.id \in Nat
        <5> HIDE DEF r
        <5> QED BY <4>5 DEF Rule
      <4> QED BY <4>2, <4>3, <4>6
    <3>3. \A k \in DOMAIN rules : rules[k].id = r.id => k = cur
      BY <3>1, <3>2, RuleEngineAssumption DEF UniqueIDs, rules
    <3> DEFINE Audited(ids) == \E i \in DOMAIN ids, k \in DOMAIN rules :
                                   rules[k].id = ids[i] /\ rules[k].audit
               id == r.id
    <3>4. audit <=> Audited(matchedRules)
      BY <2>1 DEF AuditFollowsMatches
    <3>5. Audited(Append(matchedRules, id)) <=> Audited(matchedRules) \/ r.audit
      <4>1. id \in Nat
        BY <3>2
      <4>2. ASSUME NEW k \in DOMAIN rules PROVE rules[k].id = id => k = cur
        BY <3>3
      <4>3. rules[cur].id = id
        OBVIOUS
      <4> HIDE DEF id
      <4> DEFINE n == Len(matchedRules)
      <4>4. /\ n \in Nat /\ DOMAIN matchedRules = 1..n
            /\ DOMAIN Append(matchedRules, id) = 1..(n + 1)
            /\ \A i \in 1..n : Append(matchedRules, id)[i] = matchedRules[i]
            /\ Append(matchedRules, id)[n + 1] = id
        BY <3>2, <4>1
      <4> DEFINE s == Append(matchedRules, id)
      <4> HIDE DEF s, n
      <4>5. \A i \in 1..(n + 1) : i \in 1..n \/ i = n + 1
        BY <4>4
      <4>6. 1..n \subseteq 1..(n + 1) /\ n + 1 \in 1..(n + 1)
        BY <4>4
      <4>7. ASSUME Audited(s) PROVE Audited(matchedRules) \/ r.audit
        <5>1. PICK i \in DOMAIN s, k \in DOMAIN rules : rules[k].id = s[i] /\ rules[k].audit
          BY <4>7
        <5>2. CASE i \in 1..n
          BY <4>4, <5>1, <5>2 DEF s
        <5>3. CASE i = n + 1
          <6>1. s[i] = id
            BY <4>4, <5>3 DEF s
          <6>2. k = cur
            BY <4>2, <5>1, <6>1
          <6> QED BY <5>1, <6>2
        <5> QED BY <4>4, <4>5, <5>1, <5>2, <5>3 DEF s
      <4>8. ASSUME Audited(matchedRules) PROVE Audited(s)
        <5>1. PICK i \in DOMAIN matchedRules, k \in DOMAIN rules :
                   rules[k].id = matchedRules[i] /\ rules[k].audit
          BY <4>8
        <5>2. i \in DOMAIN s /\ s[i] = matchedRules[i]
          BY <4>4, <4>6, <5>1 DEF s
        <5> QED BY <5>1, <5>2
      <4>9. ASSUME r.audit PROVE Audited(s)
        <5>1. n + 1 \in DOMAIN s /\ s[n + 1] = id /\ cur \in DOMAIN rules
          BY <3>2, <4>4, <4>6 DEF s
        <5> QED BY <4>3, <4>9, <5>1
      <4> QED BY <4>7, <4>8, <4>9 DEF s
    <3>6. audit' <=> Audited(matchedRules')
      BY <3>1, <3>4, <3>5
    <3> QED BY <2>1, <3>6 DEF AuditFollowsMatches
  <2> QED BY <2>2, <2>3
<1> QED BY <1>1, <1>2, <1>3, StepKinds

(* A body call that reaches the limit denies, or it evaluates phase 2 or    *)
(* finds it evaluated (Transaction.WriteRequestBody,                        *)
(* Transaction.ReadRequestBodyFrom).                                        *)
LEMMA LimitReached ==
    ASSUME IInv, NEW call,
           DenyBody(call) \/ (~Reject /\ ~BodyIgnored /\ RequestBodyPhase(call)), UNCHANGED waf
    PROVE  OversizedBodyHandled'
<1>1. CASE DenyBody(call)
  <2>1. interruption' \in Interruptions
    BY <1>1 DEF DenyBody, LimitDenial, Interruptions, Disruptions
  <2> QED BY <2>1, RuleEngineAssumption DEF OversizedBodyHandled
<1>2. CASE ~Reject /\ ~BodyIgnored /\ RequestBodyPhase(call)
  <2>1. ~Reject'
    BY <1>2 DEF Reject
  <2>2. CASE Refused(2)
    <3>1. UNCHANGED engineVars /\ (LastPhase >= 2 \/ interruption # None)
      BY <1>2, <2>2 DEF RequestBodyPhase, Refusal, Answer, Refused, BodyIgnored
    <3> QED BY <2>1, <3>1 DEF engineVars, OversizedBodyHandled
  <2>3. CASE ~Refused(2)
    <3>1. LastPhase' = 2
      BY <1>2, <2>3 DEF RequestBodyPhase, StartEval
    <3> QED BY <2>1, <3>1 DEF OversizedBodyHandled
  <2> QED BY <2>2, <2>3
<1> QED BY <1>1, <1>2

(* A body call that is given the last bytes there is room for, or more, and  *)
(* meets no error, denies or goes on to phase 2.                             *)
LEMMA LimitMet ==
    ASSUME IInv, NEW n \in Chunks, ~BodyIgnored, Over(n), Room > 0, ~bodyFailed',
           WriteRequestBody(n) \/ \E sized \in BOOLEAN : ReadRequestBodyFrom(n, sized)
    PROVE  \E call \in BodyCalls : DenyBody(call) \/ (~Reject /\ RequestBodyPhase(call))
<1>1. /\ n \in Nat /\ requestBodyLength \in Nat /\ RequestBodyLimit \in Int
      /\ ~BodyFull /\ n >= Room /\ Room \in Int
  BY TransactionAssumption DEF IInv, TypeOK, EngineTypeOK, BodyFull, Room, Over
<1>2. \A call : ~BodyShortcut(call)
  BY <1>1 DEF BodyShortcut
<1>3. \A call, lengths : ~BodyWriteError(call, lengths)
  BY DEF BodyWriteError
<1>4. CASE WriteRequestBody(n)
  <2> DEFINE call == "WriteRequestBody"
  <2>1. DenyBody(call) \/ (~Reject /\ RequestBodyPhase(call))
    BY <1>2, <1>3, <1>4, Zenon DEF WriteRequestBody
  <2> QED BY <2>1 DEF BodyCalls
<1>5. ASSUME NEW sized \in BOOLEAN, ReadRequestBodyFrom(n, sized)
      PROVE  \E call \in BodyCalls : DenyBody(call) \/ (~Reject /\ RequestBodyPhase(call))
  <2> DEFINE call  == "ReadRequestBodyFrom"
             over  == sized /\ Over(n)
             asked == IF sized /\ ~over THEN n ELSE Room
             bytes == CopyN(n, asked)
  <2>1. asked = Room
    OBVIOUS
  <2>2. bytes = Room
    BY <1>1, <2>1 DEF CopyN
  <2>3. requestBodyLength + bytes = RequestBodyLimit
    BY <1>1, <2>2 DEF Room
  <2> HIDE DEF asked, bytes, over
  <2>4. \/ DenyBody(call)
        \/ /\ requestBodyLength' = requestBodyLength + bytes
           /\ IF requestBodyLength' = RequestBodyLimit /\ Reject THEN DenyBody(call)
              ELSE IF over \/ requestBodyLength' = RequestBodyLimit THEN RequestBodyPhase(call)
              ELSE Answer(call, interruption)
    BY <1>2, <1>3, <1>5, Zenon DEF ReadRequestBodyFrom, over, asked, bytes
  <2>5. DenyBody(call) \/ (~Reject /\ RequestBodyPhase(call))
    BY <2>3, <2>4
  <2> QED BY <2>5 DEF BodyCalls
<1> QED BY <1>4, <1>5

(* What a step does to the histories: within a transaction they stay, and   *)
(* only a body call records that the limit is reached.                      *)
LEMMA HistoriesStay ==
    ASSUME IInv, [Next]_vars, ~NewTransaction
    PROVE  /\ overLimit => overLimit'
           /\ noRoom => noRoom'
           /\ bodyFailed => bodyFailed'
           /\ overLimit' /\ ~overLimit =>
                 \E n \in Chunks :
                    /\ BodyGiven(n)
                    /\ WriteRequestBody(n) \/ \E sized \in BOOLEAN : ReadRequestBodyFrom(n, sized)
<1>1. ASSUME UNCHANGED <<overLimit, noRoom, bodyFailed>>
      PROVE  /\ overLimit => overLimit'
             /\ noRoom => noRoom'
             /\ bodyFailed => bodyFailed'
             /\ ~(overLimit' /\ ~overLimit)
  BY <1>1
<1>2. ASSUME NEW n \in Chunks, WriteRequestBody(n)
      PROVE  /\ BodyGiven(n)
             /\ overLimit => overLimit'
             /\ noRoom => noRoom'
             /\ bodyFailed => bodyFailed'
  <2>1. BodyGiven(n) /\ (bodyFailed' = bodyFailed \/ bodyFailed')
    BY <1>2, Zenon DEF WriteRequestBody, BodyShortcut, BodyWriteError
  <2>2. (overLimit => overLimit') /\ (noRoom => noRoom')
    BY <2>1 DEF BodyGiven
  <2>3. bodyFailed => bodyFailed'
    BY <2>1
  <2> QED BY <2>1, <2>2, <2>3
<1>3. ASSUME NEW n \in Chunks, NEW sized \in BOOLEAN, ReadRequestBodyFrom(n, sized)
      PROVE  /\ BodyGiven(n)
             /\ overLimit => overLimit'
             /\ noRoom => noRoom'
             /\ bodyFailed => bodyFailed'
  <2>1. BodyGiven(n) /\ (bodyFailed' = bodyFailed \/ bodyFailed')
    BY <1>3, Zenon DEF ReadRequestBodyFrom, BodyShortcut, BodyWriteError
  <2>2. (overLimit => overLimit') /\ (noRoom => noRoom')
    BY <2>1 DEF BodyGiven
  <2>3. bodyFailed => bodyFailed'
    BY <2>1
  <2> QED BY <2>1, <2>2, <2>3
<1>4. CASE \/ ProcessRequestHeaders \/ ProcessRequestBody \/ ProcessResponseHeaders
           \/ ProcessResponseBody
  <2>1. UNCHANGED <<overLimit, noRoom, bodyFailed>>
    BY <1>4 DEF ProcessRequestHeaders, ProcessRequestBody, ProcessResponseHeaders,
                ProcessResponseBody, limitVars
  <2> QED BY <1>1, <2>1
<1>5. CASE ProcessLogging \/ Close \/ Eval \/ UNCHANGED vars
  <2>1. UNCHANGED <<overLimit, noRoom, bodyFailed>>
    BY <1>5 DEF ProcessLogging, Close, Eval, EvalReturn, bodyVars, limitVars, vars
  <2> QED BY <1>1, <2>1
<1>6. CASE \E n \in Chunks : WriteRequestBody(n)
  BY <1>2, <1>6
<1>7. CASE \E n \in Chunks, sized \in BOOLEAN : ReadRequestBodyFrom(n, sized)
  BY <1>3, <1>7
<1> QED BY <1>4, <1>5, <1>6, <1>7 DEF Next, Call

(* A body that reached the limit stays rejected or inspected. *)
LEMMA OversizedStep ==
    ASSUME IInv, OversizedBodyHandled, [Next]_vars
    PROVE  OversizedBodyHandled'
<1>1. CASE NewTransaction
  BY <1>1 DEF NewTransaction, OversizedBodyHandled
<1>2. CASE ~NewTransaction
  <2> SUFFICES ASSUME overLimit', ~noRoom', ~bodyFailed' PROVE OversizedBodyHandled'
    BY DEF OversizedBodyHandled
  <2>0. ~noRoom /\ ~bodyFailed
    BY <1>2, HistoriesStay
  <2>1. UNCHANGED waf
    BY <1>2, StepKinds, EvalStepFrame DEF Outside
  <2>2. CASE ~overLimit
    <3>1. PICK n \in Chunks :
             /\ BodyGiven(n)
             /\ WriteRequestBody(n) \/ \E sized \in BOOLEAN : ReadRequestBodyFrom(n, sized)
      BY <1>2, <2>2, HistoriesStay
    <3>2. ~BodyIgnored /\ Over(n) /\ ~(Room <= 0)
      BY <2>2, <3>1, Zenon DEF BodyGiven
    <3>3. Room > 0
      BY <3>2 DEF IInv, TypeOK, EngineTypeOK, Room
    <3>4. PICK call \in BodyCalls : DenyBody(call) \/ (~Reject /\ RequestBodyPhase(call))
      BY <3>1, <3>2, <3>3, LimitMet
    <3> QED BY <2>1, <3>2, <3>4, LimitReached
  <2>3. CASE overLimit
    <3>1. interruption # None \/ (~Reject /\ LastPhase >= 2)
      BY <2>0, <2>3 DEF OversizedBodyHandled
    <3>2. CASE Outside
      <4>1. LimitDenial # None
        BY RuleEngineAssumption DEF LimitDenial, Interruptions, Disruptions
      <4>2. IInv'
        BY StepInv
      <4>3. LastPhase \in 0..5 /\ LastPhase' \in 0..5
        BY <4>2, Zenon DEF IInv, TypeOK, EngineTypeOK
      <4> QED BY <3>1, <3>2, <4>1, <4>3 DEF Outside, OversizedBodyHandled, Reject
    <3>3. CASE EvalStep
      <4>1. interruption # None => interruption' # None
        BY <3>3, EvalStepVerdict, RuleEngineAssumption DEF RuleVerdict
      <4>2. UNCHANGED <<waf, LastPhase>>
        BY <3>3, EvalStepFrame
      <4> QED BY <3>1, <4>1, <4>2 DEF OversizedBodyHandled, Reject
    <3> QED BY <1>2, <3>2, <3>3, StepKinds
  <2> QED BY <2>2, <2>3
<1> QED BY <1>1, <1>2

(* The second invariant holds in every reachable state (RuleGroup.Eval,     *)
(* Transaction.MatchRule and the body calls).                               *)
LEMMA RulesInvariance == Spec => []RulesInv
<1>1. Init => RulesInv
  <2> SUFFICES ASSUME Init PROVE RulesInv
    OBVIOUS
  <2>1. waf \in WAFs /\ matchedRules = <<>> /\ ~audit /\ ~overLimit
    BY DEF Init, EngineInit
  <2>2. JumpInv
    BY Zenon DEF Init, EngineInit, JumpInv
  <2> QED BY <2>1, <2>2 DEF RulesInv, AuditFollowsMatches, OversizedBodyHandled
<1>2. IInv /\ RulesInv /\ [Next]_vars => RulesInv'
  <2> SUFFICES ASSUME IInv, RulesInv, [Next]_vars PROVE RulesInv'
    OBVIOUS
  <2>1. waf' = waf
    BY StepKinds, EvalStepFrame, Zenon DEF Outside, NewTransaction, EngineReset
  <2> QED BY <2>1, JumpStep, AuditStep, OversizedStep DEF RulesInv
<1> QED BY <1>1, <1>2, Invariance, PTL DEF Spec

-----------------------------------------------------------------------------
(* For every rule list, tx.audit says exactly that a rule with audit        *)
(* logging is among the matched rules, in a pooled transaction too.         *)
THEOREM AuditCorrect == Spec => []AuditFollowsMatches
<1>1. RulesInv => AuditFollowsMatches
  BY DEF RulesInv
<1> QED BY <1>1, RulesInvariance, PTL

(* For every limit and whatever ctl:requestBodyLimit makes of it, a body    *)
(* that reached the limit is rejected, or what is kept of it is inspected.  *)
THEOREM OversizedCorrect == Spec => []OversizedBodyHandled
<1>1. RulesInv => OversizedBodyHandled
  BY DEF RulesInv
<1> QED BY <1>1, RulesInvariance, PTL

(* For chains of every length, a rule interrupts or is recorded only in the *)
(* step where the last link of its chain has matched (Rule.doEvaluate).     *)
THEOREM ChainsCorrect == Spec => WholeChainMatched
<1> DEFINE Acts == ~closed /\ (\/ interruption' \notin {interruption, None, LimitDenial}
                               \/ Len(matchedRules') > Len(matchedRules))
<1>1. ASSUME IInv, [Next]_vars, Acts
      PROVE  phase # 0 /\ pos = Len(rules[cur].chain)
  <2>1. Len(matchedRules) \in Nat
    BY <1>1 DEF IInv, TypeOK, EngineTypeOK
  <2>2. ~NewTransaction /\ ~Outside
    BY <1>1, <2>1 DEF NewTransaction, Outside
  <2>3. phase # 0 /\ (Passed \/ Chained \/ Fired)
    BY <1>1, <2>2, StepKinds, LoopStep
  <2>4. ~Passed /\ ~Chained
    BY <1>1, <2>1 DEF Passed, Chained
  <2> QED BY <2>3, <2>4 DEF Fired
<1>2. IInv /\ [Next]_vars => [Acts => phase # 0 /\ pos = Len(rules[cur].chain)]_vars
  BY <1>1
<1> QED BY <1>2, Invariance, PTL DEF Spec, WholeChainMatched

(* For every rule list, no rule matches between a skipAfter that fired and  *)
(* a marker of its name (RuleGroup.Eval).                                   *)
THEOREM SkipAfterCorrect == Spec => SkipAfterReachesMark
<1> DEFINE Jumped == Len(matchedRules') > Len(matchedRules) /\ jump.at # 0
           Reached == \E k \in (jump.at + 1)..(cur - 1) : rules[k].secMark = jump.mark
<1>1. ASSUME IInv, RulesInv, [Next]_vars, Jumped
      PROVE  Reached
  <2>1. Len(matchedRules) \in Nat
    BY <1>1 DEF IInv, TypeOK, EngineTypeOK
  <2>2. ~NewTransaction /\ ~Outside
    BY <1>1, <2>1 DEF NewTransaction, EngineReset, Outside
  <2>3. phase # 0 /\ (Passed \/ Chained \/ Fired)
    BY <1>1, <2>2, StepKinds, LoopStep
  <2>4. Evaluating
    BY <1>1, <2>1, <2>3 DEF Passed, Chained, Fired
  <2> QED BY <1>1, <2>3, <2>4 DEF Evaluating, RulesInv, JumpInv
<1>2. IInv /\ RulesInv /\ [Next]_vars => [Jumped => Reached]_vars
  BY <1>1
<1> QED BY <1>2, Invariance, RulesInvariance, PTL DEF Spec, SkipAfterReachesMark
=============================================================================
