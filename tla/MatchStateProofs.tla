--------------------------- MODULE MatchStateProofs ---------------------------
(***************************************************************************)
(* What the evaluation of rules leaves in a transaction, for every rule    *)
(* list, every chain and every number of matches.                          *)
(***************************************************************************)
EXTENDS MatchState, SequenceTheorems, WellFoundedInduction, TLAPS

Data     == [match : Nat, message : Nat]
Match_   == [serial : Nat, link : Nat, says : BOOLEAN, asked : BOOLEAN]
Recorded == [rule : Rules, serial : Nat, datas : Seq(Data), message : Nat]

TypeOK ==
    /\ rule \in Rules
    /\ link \in 0..Len(rule)
    /\ hit \in BOOLEAN /\ Capture \in BOOLEAN
    /\ captures \in [0..9 -> Nat]
    /\ matchedVars \in Seq(Nat) /\ matchedVar \in Nat
    /\ counter \in Value
    /\ matchedValues \in Seq(Data)
    /\ matchedRules \in Seq(Recorded)
    /\ highestSeverity \in 0..7
    /\ matches \in Seq(Match_)
    /\ rules \in Nat /\ added \in Int /\ onlyAdded \in BOOLEAN

(* A variable that is only added to is a number or not there yet. *)
ScoreInv == onlyAdded => counter.n = added /\ counter.kind \in {"absent", "int"}

(* tx.Capture is set by a link of the rule at hand. *)
CaptureInv ==
    /\ Capture => link > 0 /\ \E k \in 1..link : rule[k].capture
    /\ \A i \in 0..9 : captures[i] # 0 => captures[i] \in DOMAIN matches /\ matches[captures[i]].asked

(* Matches carry the number of their evaluation. *)
SerialInv ==
    /\ \A i \in DOMAIN matches : matches[i].serial <= rules
    /\ \A i \in DOMAIN matchedRules : matchedRules[i].serial <= rules
    /\ link > 0 => \A i \in DOMAIN matchedRules : matchedRules[i].serial < rules

(* MATCHED_VARS and matchedValues are those of the rule at hand. *)
ValuesInv ==
    /\ link > 0 => /\ InOrder(matchedVars, Of(rules))
                   /\ matchedVars # <<>> => matchedVar = matchedVars[Len(matchedVars)]
                   /\ Len(matchedValues) = Len(matchedVars)
                   /\ \A k \in DOMAIN matchedValues :
                         /\ matchedValues[k].match = matchedVars[k]
                         /\ matchedValues[k].message =
                               IF matches[matchedVars[k]].says THEN matchedVars[k] ELSE 0
    /\ link = 0 => matchedValues = <<>>

(* Every link before the one at hand has matched. *)
LinksInv ==
    link > 0 => {matches[m].link : m \in Of(rules)} = 1..(IF hit THEN link ELSE link - 1)

(* The inductive invariant. *)
IInv == TypeOK /\ ScoreInv /\ CaptureInv /\ SerialInv /\ ValuesInv /\ LinksInv /\ RulesRecorded
-----------------------------------------------------------------------------
(* A set of numbers has a least one (FirstMessage looks for it). *)
LEMMA NatMin ==
  ASSUME NEW T, T \subseteq Nat, T # {}
  PROVE  \E x \in T : \A y \in T : x <= y
<1> DEFINE R == {ss \in Nat \X Nat : ss[1] < ss[2]}
<1>1. IsWellFoundedOn(R, Nat)
  BY NatLessThanWellFounded DEF OpToRel
<1>2. \E x \in T : \A y \in T : ~ (<<y, x>> \in R)
  <2> HIDE DEF R
  <2> QED BY <1>1, WFMin, Zenon
<1>3. PICK x \in T : \A y \in T : ~ (<<y, x>> \in R)
  BY <1>2
<1>4. ASSUME NEW y \in T PROVE x <= y
  <2>1. <<y, x>> \notin R
    BY <1>3
  <2>2. y \in Nat /\ x \in Nat
    OBVIOUS
  <2> QED BY <2>1, <2>2
<1> QED BY <1>4

(* A later match is appended to a list in order (Transaction.matchVariable). *)
LEMMA AppendInOrder ==
  ASSUME NEW s \in Seq(Nat), NEW S, InOrder(s, S), NEW x \in Nat, \A y \in S : y < x
  PROVE  InOrder(Append(s, x), S \union {x})
<1> DEFINE n == Len(s)
           t == Append(s, x)
<1>1. /\ n \in Nat /\ DOMAIN s = 1..n /\ DOMAIN t = 1..(n + 1)
      /\ t[n + 1] = x /\ \A k \in 1..n : t[k] = s[k]
  BY AppendProperties, LenProperties
<1>2. \A k \in 1..n : s[k] \in S /\ s[k] < x
  BY <1>1 DEF InOrder
<1> HIDE DEF n, t
<1>3. \A k \in 1..(n + 1) : k \in 1..n \/ k = n + 1
  BY <1>1
<1>4. 1..n \subseteq 1..(n + 1) /\ n + 1 \in 1..(n + 1)
  BY <1>1
<1>5. {t[k] : k \in DOMAIN t} = S \union {x}
  <2>1. {s[k] : k \in DOMAIN s} = S
    BY DEF InOrder
  <2> QED BY <1>1, <1>3, <1>4, <2>1
<1>6. ASSUME NEW j \in DOMAIN t, NEW k \in DOMAIN t, j < k
      PROVE  t[j] < t[k]
  <2>1. j \in 1..n
    BY <1>1, <1>6
  <2>2. CASE k = n + 1
    BY <1>1, <1>2, <2>1, <2>2
  <2>3. CASE k \in 1..n
    BY <1>1, <1>6, <2>1, <2>3 DEF InOrder
  <2> QED BY <1>1, <1>3, <2>2, <2>3
<1> QED BY <1>5, <1>6 DEF InOrder, t

(* The matches of an evaluation, in a list of matches. *)
OfIn(ms, serial) == {i \in DOMAIN ms : ms[i].serial = serial}

(* A match is added to the evaluation it is made in and to no other          *)
(* (Rule.doEvaluate).                                                        *)
LEMMA AppendOf ==
  ASSUME NEW ms \in Seq(Match_), NEW e \in Match_
  PROVE  /\ Append(ms, e) \in Seq(Match_)
         /\ Len(ms) + 1 \in DOMAIN Append(ms, e) /\ Append(ms, e)[Len(ms) + 1] = e
         /\ \A i \in DOMAIN ms : /\ i \in DOMAIN Append(ms, e) /\ Append(ms, e)[i] = ms[i]
                                 /\ i \in Nat /\ i > 0 /\ i < Len(ms) + 1
         /\ OfIn(Append(ms, e), e.serial) = OfIn(ms, e.serial) \union {Len(ms) + 1}
         /\ \A s : s # e.serial => OfIn(Append(ms, e), s) = OfIn(ms, s)
         /\ Len(ms) + 1 \in Nat /\ Len(ms) + 1 # 0
<1> DEFINE n == Len(ms)
           t == Append(ms, e)
<1>1. /\ n \in Nat /\ DOMAIN ms = 1..n /\ DOMAIN t = 1..(n + 1) /\ t \in Seq(Match_)
      /\ t[n + 1] = e /\ \A k \in 1..n : t[k] = ms[k]
  BY AppendProperties, LenProperties
<1> HIDE DEF n, t
<1>2. /\ n + 1 \in DOMAIN t /\ n + 1 \in Nat /\ n + 1 # 0 /\ n + 1 \notin DOMAIN ms
      /\ DOMAIN t = DOMAIN ms \union {n + 1}
      /\ \A i \in DOMAIN ms : i \in DOMAIN t /\ i \in Nat /\ i > 0 /\ i < n + 1
  BY <1>1
<1>3. \A i \in DOMAIN ms : t[i] = ms[i]
  BY <1>1
<1>4. OfIn(t, e.serial) = OfIn(ms, e.serial) \union {n + 1}
  BY <1>1, <1>2, <1>3, Zenon DEF OfIn
<1>5. ASSUME NEW s, s # e.serial PROVE OfIn(t, s) = OfIn(ms, s)
  BY <1>1, <1>2, <1>3, <1>5, Zenon DEF OfIn
<1> QED BY <1>1, <1>2, <1>3, <1>4, <1>5 DEF n, t

(* The message of a record is that of the first match that has one           *)
(* (MatchedRule.Message).                                                    *)
LEMMA FirstMessageIsFirst ==
  ASSUME NEW datas \in Seq(Data), NEW vs \in Seq(Nat), Len(datas) = Len(vs),
         NEW S, InOrder(vs, S), 0 \notin S, NEW said, said \subseteq S,
         \A k \in DOMAIN datas : datas[k].message = IF vs[k] \in said THEN vs[k] ELSE 0
  PROVE  /\ said = {} => FirstMessage(datas) = 0
         /\ said # {} => FirstMessage(datas) \in said /\ \A m \in said : FirstMessage(datas) <= m
         /\ FirstMessage(datas) \in Nat
<1> DEFINE set == {i \in DOMAIN datas : datas[i].message # 0}
           First(i) == i \in set /\ \A k \in set : i <= k
<1>1. DOMAIN datas = DOMAIN vs /\ DOMAIN datas \subseteq Nat /\ \A k \in DOMAIN vs : vs[k] \in S /\ vs[k] \in Nat
  BY LenProperties, ElementOfSeq DEF InOrder
<1>2. \A k \in DOMAIN datas : vs[k] \in said => vs[k] # 0
  BY <1>1
<1>3. \A k \in DOMAIN datas : k \in set <=> vs[k] \in said
  BY <1>2
<1>4. CASE said = {}
  <2>1. set = {}
    BY <1>3, <1>4
  <2>2. FirstMessage(datas) = 0
    BY <2>1 DEF FirstMessage
  <2> QED BY <1>4, <2>2
<1>5. CASE said # {}
  <2>1. PICK m0 : m0 \in said
    BY <1>5
  <2>2. PICK k0 \in DOMAIN vs : vs[k0] = m0
    BY <2>1 DEF InOrder
  <2>3. set # {} /\ set \subseteq Nat
    BY <1>1, <1>3, <2>1, <2>2
  <2> DEFINE i0 == CHOOSE i \in set : \A k \in set : i <= k
  <2>4. FirstMessage(datas) = datas[i0].message
    BY <2>3 DEF FirstMessage
  <2> HIDE DEF set
  <2>5. i0 \in set /\ \A k \in set : i0 <= k
    <3>1. \E i \in set : \A k \in set : i <= k
      BY <2>3, NatMin, Zenon
    <3> QED BY <3>1
  <2> HIDE DEF i0
  <2>6. i0 \in DOMAIN datas
    BY <2>5 DEF set
  <2>7. vs[i0] \in said /\ datas[i0].message = vs[i0] /\ vs[i0] \in Nat
    BY <1>1, <1>3, <2>5, <2>6
  <2>8. ASSUME NEW m \in said PROVE vs[i0] <= m
    <3>1. PICK k \in DOMAIN vs : vs[k] = m
      BY DEF InOrder
    <3>2. k \in set
      BY <1>1, <1>3, <3>1
    <3>3. i0 <= k /\ i0 \in Nat /\ k \in Nat
      BY <2>3, <2>5, <3>2
    <3>4. CASE i0 = k
      BY <2>7, <3>1, <3>4
    <3>5. CASE i0 < k
      <4>1. vs[i0] < vs[k] /\ vs[k] \in Nat
        BY <1>1, <2>6, <3>1, <3>5 DEF InOrder
      <4> QED BY <2>7, <3>1, <4>1
    <3> QED BY <3>3, <3>4, <3>5
  <2> QED BY <1>5, <2>4, <2>7, <2>8
<1> QED BY <1>4, <1>5
-----------------------------------------------------------------------------
(* A record that agrees with the matches of its evaluation. *)
RecordOK(mr, ms) ==
    LET said == {m \in OfIn(ms, mr.serial) : ms[m].says}
    IN  /\ InOrder([k \in DOMAIN mr.datas |-> mr.datas[k].match], OfIn(ms, mr.serial))
        /\ {ms[m].link : m \in OfIn(ms, mr.serial)} = DOMAIN mr.rule
        /\ IF said = {} THEN mr.message = 0
           ELSE mr.message \in said /\ \A m \in said : mr.message <= m

(* The records are recorded once each, and the severity is one of theirs.    *)
RecordsOnce ==
    \A i, j \in DOMAIN matchedRules : j # i => matchedRules[j].serial # matchedRules[i].serial

SeverityInv ==
    highestSeverity \in {0} \union {matchedRules[i].rule[1].severity : i \in DOMAIN matchedRules}

(* What RulesRecorded says, part by part (Transaction.MatchRule). *)
LEMMA RulesRecordedParts ==
  RulesRecorded <=> /\ \A i \in DOMAIN matchedRules : RecordOK(matchedRules[i], matches)
                    /\ RecordsOnce /\ SeverityInv
BY Zenon DEF RulesRecorded, RecordOK, RecordsOnce, SeverityInv, Of, OfIn

(* The same after a step. *)
LEMMA RulesRecordedNext ==
  RulesRecorded' <=> /\ \A i \in DOMAIN matchedRules' : RecordOK(matchedRules'[i], matches')
                     /\ RecordsOnce' /\ SeverityInv'
BY Zenon DEF RulesRecorded, RecordOK, RecordsOnce, SeverityInv, Of, OfIn

(* A match of another evaluation changes no record (Transaction.MatchRule). *)
LEMMA RecordStays ==
  ASSUME NEW ms \in Seq(Match_), NEW e \in Match_, NEW mr, mr.serial # e.serial, RecordOK(mr, ms)
  PROVE  RecordOK(mr, Append(ms, e))
<1> DEFINE t == Append(ms, e)
<1>0. \A s : s # e.serial => OfIn(t, s) = OfIn(ms, s)
  BY AppendOf
<1>1. OfIn(t, mr.serial) = OfIn(ms, mr.serial)
  BY <1>0
<1>2. \A m \in OfIn(ms, mr.serial) : t[m] = ms[m]
  BY AppendOf, Zenon DEF OfIn
<1> HIDE DEF t
<1>3. {m \in OfIn(t, mr.serial) : t[m].says} = {m \in OfIn(ms, mr.serial) : ms[m].says}
  BY <1>1, <1>2, Zenon
<1>4. {t[m].link : m \in OfIn(t, mr.serial)} = {ms[m].link : m \in OfIn(ms, mr.serial)}
  BY <1>1, <1>2, Zenon
<1>5. RecordOK(mr, t)
  BY <1>1, <1>3, <1>4, Zenon DEF RecordOK
<1> QED BY <1>5 DEF t

(* setvar leaves a value, and one that is only added to grows by what is     *)
(* added (setvarFn.evaluateTxCollection).                                    *)
LEMMA SetVarAdds ==
  ASSUME NEW v \in Value, NEW s \in SetVars
  PROVE  /\ SetVar(v, s) \in Value
         /\ v.kind \in {"absent", "int"} /\ s.op \in {"none", "add"} =>
               /\ SetVar(v, s).kind \in {"absent", "int"}
               /\ SetVar(v, s).n = IF s.op = "add" /\ ~s.junk THEN v.n + s.n ELSE v.n
<1>1. /\ v.n \in Int /\ v.kind \in {"absent", "empty", "int", "text"} /\ s.n \in Int /\ s.junk \in BOOLEAN
      /\ s.op \in {"none", "add", "sub", "set", "text", "empty", "remove", "bare"}
  BY DEF Value, SetVars
<1>2. CASE s.op \in {"none", "bare", "remove", "empty", "text", "set"}
  BY <1>1, <1>2 DEF SetVar, Value, Absent
<1>3. CASE s.op = "add"
  BY <1>1, <1>3 DEF SetVar, Value
<1>4. CASE s.op = "sub"
  BY <1>1, <1>4 DEF SetVar, Value
<1> QED BY <1>1, <1>2, <1>3, <1>4

(* The rule at hand and its links are of the rule list. *)
LEMMA LinkAtHand ==
  ASSUME TypeOK
  PROVE  /\ Len(rule) \in Nat /\ Len(rule) >= 1 /\ link \in Nat /\ DOMAIN rule = 1..Len(rule)
         /\ rule \in Seq(Link) /\ rule # <<>>
         /\ \A k \in 1..Len(rule) : rule[k] \in Link
<1>1. rule \in Seq(Link) /\ rule # <<>>
  BY MatchStateAssumption DEF TypeOK
<1>2. Len(rule) \in Nat /\ Len(rule) # 0 /\ DOMAIN rule = 1..Len(rule)
  BY <1>1, LenProperties, EmptySeq
<1>3. \A k \in 1..Len(rule) : rule[k] \in Link
  BY <1>1, ElementOfSeq
<1>4. link \in 0..Len(rule)
  BY DEF TypeOK
<1>5. Len(rule) >= 1 /\ link \in Nat
  BY <1>2, <1>4
<1> QED BY <1>1, <1>2, <1>3, <1>5

(* A transaction starts with the invariant (newTransactionWithID). *)
LEMMA InitInv ==
  ASSUME Init
  PROVE  IInv
<1>1. rule \in Seq(Link) /\ rule # <<>> /\ rule \in Rules
  BY MatchStateAssumption DEF Init
<1>2. Len(rule) \in Nat /\ link = 0
  BY <1>1, LenProperties DEF Init
<1>3. hit \in BOOLEAN /\ Capture \in BOOLEAN /\ onlyAdded \in BOOLEAN
  BY Zenon DEF Init
<1>4. captures \in [0..9 -> Nat] /\ counter \in Value /\ matchedVar \in Nat
  BY DEF Init, Value, Absent
<1>5. /\ matchedVars \in Seq(Nat) /\ matchedValues \in Seq(Data) /\ matchedRules \in Seq(Recorded)
      /\ matches \in Seq(Match_)
  BY EmptySeq DEF Init
<1>6. TypeOK
  <2>1. highestSeverity \in 0..7 /\ rules \in Nat /\ added \in Int /\ link \in 0..Len(rule)
    BY <1>2 DEF Init
  <2> QED BY <1>1, <1>3, <1>4, <1>5, <2>1, Zenon DEF TypeOK
<1>7. ScoreInv
  BY DEF Init, Absent, ScoreInv
<1>8. CaptureInv
  BY DEF Init, CaptureInv
<1>9. DOMAIN matches = {} /\ DOMAIN matchedRules = {} /\ highestSeverity = 0 /\ matchedValues = <<>>
  BY DEF Init
<1>10. SerialInv /\ ValuesInv /\ LinksInv
  BY <1>2, <1>9 DEF SerialInv, ValuesInv, LinksInv
<1>11. RulesRecorded
  BY <1>9, RulesRecordedParts DEF RecordsOnce, SeverityInv
<1> QED BY <1>6, <1>7, <1>8, <1>10, <1>11 DEF IInv

(* A step that leaves matches and records alone keeps what is recorded. *)
LEMMA RecordedFrame ==
  ASSUME RulesRecorded, UNCHANGED <<matches, matchedRules, highestSeverity>>
  PROVE  RulesRecorded'
<1>1. /\ \A i \in DOMAIN matchedRules : RecordOK(matchedRules[i], matches)
      /\ RecordsOnce /\ SeverityInv
  BY RulesRecordedParts
<1>2. /\ \A i \in DOMAIN matchedRules' : RecordOK(matchedRules'[i], matches')
      /\ RecordsOnce' /\ SeverityInv'
  BY <1>1 DEF RecordsOnce, SeverityInv
<1> QED BY <1>2, RulesRecordedNext

(* A rule starts with empty MATCHED_VARS and its own capture action          *)
(* (RuleGroup.Eval).                                                         *)
LEMMA StartRuleInv ==
  ASSUME IInv, NEW r \in Rules, StartRule(r)
  PROVE  IInv'
<1>1. /\ link = 0 /\ rule' = r /\ link' = 1 /\ rules' = rules + 1 /\ matchedVars' = <<>>
      /\ UNCHANGED <<captures, matchedVar, counter, matchedValues, matchedRules, errorLog,
                     highestSeverity, matches, added, onlyAdded>>
  BY DEF StartRule, logVars
<1>2. r \in Seq(Link) /\ r # <<>>
  BY MatchStateAssumption
<1>3. Len(r) \in Nat /\ Len(r) # 0 /\ r[1] \in Link
  BY <1>2, LenProperties, EmptySeq, ElementOfSeq
<1>4. TypeOK'
  <2>1. r[1].capture \in BOOLEAN
    BY <1>3 DEF Link
  <2>2. hit' \in BOOLEAN /\ Capture' \in BOOLEAN
    BY <2>1, Zenon DEF StartRule
  <2>3. link' \in 0..Len(rule') /\ rules' \in Nat /\ matchedVars' \in Seq(Nat) /\ rule' \in Rules
    BY <1>1, <1>3, EmptySeq DEF IInv, TypeOK
  <2>4. UNCHANGED <<captures, matchedVar, counter, matchedValues, matchedRules,
                    highestSeverity, matches, added, onlyAdded>>
    BY <1>1
  <2> QED BY <2>2, <2>3, <2>4, Zenon DEF IInv, TypeOK
<1>5. ScoreInv'
  BY <1>1 DEF IInv, ScoreInv
<1>6. CaptureInv'
  <2>0. ~Capture /\ Capture' = (Capture \/ r[1].capture)
    BY <1>1 DEF IInv, CaptureInv, StartRule
  <2>1. Capture' => r[1].capture
    BY <2>0, Zenon
  <2> QED BY <1>1, <2>1 DEF IInv, CaptureInv
<1>7. /\ rules \in Nat
      /\ \A i \in DOMAIN matches : matches[i].serial \in Nat /\ matches[i].serial <= rules
      /\ \A i \in DOMAIN matchedRules : matchedRules[i].serial \in Nat /\ matchedRules[i].serial <= rules
  <2>1. \A m \in Match_ : m.serial \in Nat
    BY DEF Match_
  <2>2. \A m \in Recorded : m.serial \in Nat
    BY DEF Recorded
  <2>3. \A i \in DOMAIN matches : matches[i] \in Match_
    BY LenProperties, ElementOfSeq, Zenon DEF IInv, TypeOK
  <2>4. \A i \in DOMAIN matchedRules : matchedRules[i] \in Recorded
    BY LenProperties, ElementOfSeq, Zenon DEF IInv, TypeOK
  <2> QED BY <2>1, <2>2, <2>3, <2>4, Zenon DEF IInv, TypeOK, SerialInv
<1>8. SerialInv'
  BY <1>1, <1>7 DEF SerialInv
<1>9. Of(rules)' = {}
  BY <1>1, <1>7 DEF Of
<1>10. ValuesInv'
  <2>1. matchedValues' = <<>>
    BY <1>1 DEF IInv, ValuesInv
  <2>2. InOrder(matchedVars, Of(rules))'
    BY <1>1, <1>9 DEF InOrder
  <2> QED BY <1>1, <2>1, <2>2 DEF ValuesInv
<1>11. LinksInv'
  <2>1. ~hit'
    BY DEF StartRule
  <2>2. {matches[m].link : m \in Of(rules)}' = {}
    BY <1>9
  <2>3. (IF hit THEN link ELSE link - 1)' = 0
    BY <1>1, <2>1
  <2>4. 1..0 = {}
    OBVIOUS
  <2> QED BY <2>2, <2>3, <2>4, Zenon DEF LinksInv
<1>12. RulesRecorded'
  BY <1>1, RecordedFrame DEF IInv
<1> QED BY <1>4, <1>5, <1>6, <1>8, <1>10, <1>11, <1>12 DEF IInv

(* The next link of a chain keeps what the links before it matched           *)
(* (Rule.doEvaluate).                                                        *)
LEMMA NextLinkInv ==
  ASSUME IInv, NextLink
  PROVE  IInv'
<1>1. /\ link \in 1..(Len(rule) - 1) /\ hit /\ ~hit' /\ link' = link + 1
      /\ UNCHANGED <<rule, captures, matchedVars, matchedVar, counter, matchedValues, matchedRules,
                     highestSeverity, matches, rules, added, onlyAdded>>
  BY DEF NextLink, logVars, historyVars
<1>2. Len(rule) \in Nat /\ link \in Nat /\ \A k \in 1..Len(rule) : rule[k] \in Link
  BY LinkAtHand DEF IInv
<1>3. TypeOK'
  <2>1. link' \in 0..Len(rule')
    BY <1>1, <1>2
  <2>2. rule[link'].capture \in BOOLEAN
    BY <1>1, <1>2 DEF Link
  <2>3. hit' \in BOOLEAN /\ Capture' \in BOOLEAN
    BY <2>2, Zenon DEF NextLink
  <2> QED BY <1>1, <2>1, <2>3, Zenon DEF IInv, TypeOK
<1>4. ScoreInv'
  BY <1>1 DEF IInv, ScoreInv
<1>5. CaptureInv'
  <2>1. Capture' => \E k \in 1..link' : rule[k].capture
    <3>1. CASE Capture
      BY <1>1, <1>2, <3>1 DEF IInv, CaptureInv
    <3>2. CASE ~Capture
      <4>1. Capture' = (Capture \/ rule[link'].capture)
        BY DEF NextLink
      <4>2. Capture' => rule[link'].capture
        BY <3>2, <4>1, Zenon
      <4>3. link' \in 1..link'
        BY <1>1, <1>2
      <4> QED BY <4>2, <4>3
    <3> QED BY <3>1, <3>2
  <2> QED BY <1>1, <1>2, <2>1 DEF IInv, CaptureInv
<1>6. SerialInv'
  BY <1>1, <1>2 DEF IInv, SerialInv
<1>7. Of(rules)' = Of(rules)
  BY <1>1 DEF Of
<1>8. ValuesInv'
  BY <1>1, <1>2, <1>7 DEF IInv, ValuesInv, InOrder
<1>9. LinksInv'
  <2>1. {matches[m].link : m \in Of(rules)} = 1..link
    BY <1>1 DEF IInv, LinksInv
  <2>2. {matches[m].link : m \in Of(rules)}' = 1..link
    BY <1>1, <1>7, <2>1
  <2>3. (IF hit THEN link ELSE link - 1)' = link
    BY <1>1, <1>2
  <2> QED BY <2>2, <2>3 DEF LinksInv
<1>10. RulesRecorded'
  BY <1>1, RecordedFrame DEF IInv
<1> QED BY <1>3, <1>4, <1>5, <1>6, <1>8, <1>9, <1>10 DEF IInv
-----------------------------------------------------------------------------
(* What a match records for the proofs: a member of each list. *)
SaysAt(l) == l.operator /\ l.msg

MatchOf == [serial |-> rules, link |-> link, says |-> SaysAt(rule[link]),
            asked |-> \E k \in 1..link : rule[k].capture]

DataOf == [match |-> Len(matches) + 1,
           message |-> IF SaysAt(rule[link]) THEN Len(matches) + 1 ELSE 0]

(* What a match adds is typed (Rule.doEvaluate). *)
LEMMA MatchAdds ==
  ASSUME TypeOK, link > 0
  PROVE  /\ link \in 1..Len(rule) /\ rule[link] \in Link /\ rule[link].setvar \in SetVars
         /\ MatchOf \in Match_ /\ MatchOf.serial = rules /\ MatchOf.link = link
         /\ MatchOf.says <=> SaysAt(rule[link])
         /\ MatchOf.asked <=> \E k \in 1..link : rule[k].capture
         /\ DataOf \in Data /\ DataOf.match = Len(matches) + 1
         /\ DataOf.message = IF SaysAt(rule[link]) THEN Len(matches) + 1 ELSE 0
         /\ Len(matches) + 1 \in Nat
<1>1. link \in Nat /\ rules \in Nat /\ link \in 1..Len(rule)
  BY LinkAtHand DEF TypeOK
<1>2. rule[link] \in Link
  BY <1>1, LinkAtHand
<1>3. /\ rule[link].setvar \in SetVars /\ rule[link].operator \in BOOLEAN /\ rule[link].msg \in BOOLEAN
  BY <1>2 DEF Link
<1>4. SaysAt(rule[link]) \in BOOLEAN
  BY <1>3, Zenon DEF SaysAt
<1> DEFINE asked == \E k \in 1..link : rule[k].capture
<1>5. asked \in BOOLEAN
  BY Zenon
<1> HIDE DEF asked
<1>6. \A a, b \in BOOLEAN :
          LET e == [serial |-> rules, link |-> link, says |-> a, asked |-> b]
          IN  e \in Match_ /\ e.serial = rules /\ e.link = link /\ e.says = a /\ e.asked = b
  BY <1>1 DEF Match_
<1> DEFINE e == [serial |-> rules, link |-> link, says |-> SaysAt(rule[link]), asked |-> asked]
<1>7. e \in Match_ /\ e.serial = rules /\ e.link = link /\ e.says = SaysAt(rule[link]) /\ e.asked = asked
  BY <1>4, <1>5, <1>6, Zenon
<1>8. MatchOf = e
  BY DEF MatchOf, asked
<1>9. Len(matches) + 1 \in Nat
  BY LenProperties DEF TypeOK
<1>10. /\ DataOf \in Data /\ DataOf.match = Len(matches) + 1
       /\ DataOf.message = IF SaysAt(rule[link]) THEN Len(matches) + 1 ELSE 0
  <2> DEFINE m == Len(matches) + 1
  <2>1. m \in Nat
    BY <1>9
  <2> HIDE DEF m
  <2>2. DataOf = [match |-> m, message |-> IF SaysAt(rule[link]) THEN m ELSE 0]
    BY DEF DataOf, m
  <2> QED BY <2>1, <2>2 DEF Data, m
<1> HIDE DEF e
<1>11. (MatchOf.says <=> SaysAt(rule[link])) /\ (MatchOf.asked <=> \E k \in 1..link : rule[k].capture)
  BY <1>7, <1>8, Zenon DEF asked
<1> QED BY <1>1, <1>2, <1>3, <1>7, <1>8, <1>9, <1>10, <1>11

(* A match captures, is listed, counts and is remembered (Rule.doEvaluate). *)
LEMMA MatchInv ==
  ASSUME IInv, NEW groups \in 0..Groups, Match(groups)
  PROVE  IInv'
<1> DEFINE m == Len(matches) + 1
           s == rule[link].setvar
<1>1. /\ link > 0 /\ hit'
      /\ captures' = [i \in 0..9 |-> IF Capture /\ i < groups THEN m ELSE captures[i]]
      /\ matchedVars' = Append(matchedVars, m) /\ matchedVar' = m
      /\ counter' = SetVar(counter, s)
      /\ added' = IF s.op = "add" /\ ~s.junk THEN added + s.n ELSE added
      /\ UNCHANGED <<rule, link, Capture, matchedRules, highestSeverity, rules>>
  BY DEF Match, CaptureField, Nondisruptive, MatchVariable, evalVars, logVars
<1>2. matches' = Append(matches, MatchOf) /\ matchedValues' = Append(matchedValues, DataOf)
  BY Zenon DEF Match, MatchOf, DataOf, SaysAt
<1>3. onlyAdded' = (onlyAdded /\ s.op \in {"none", "add"}) /\ hit' = TRUE
  BY Zenon DEF Match
<1>4. TypeOK
  BY DEF IInv
<1>5. matches \in Seq(Match_) /\ matchedVars \in Seq(Nat) /\ matchedValues \in Seq(Data) /\ rules \in Nat
  BY <1>4 DEF TypeOK
<1>6. /\ link \in 1..Len(rule) /\ s \in SetVars
      /\ MatchOf \in Match_ /\ MatchOf.serial = rules /\ MatchOf.link = link
      /\ MatchOf.says <=> SaysAt(rule[link])
      /\ MatchOf.asked <=> \E k \in 1..link : rule[k].capture
      /\ DataOf \in Data /\ DataOf.match = m
      /\ DataOf.message = IF SaysAt(rule[link]) THEN m ELSE 0
      /\ m \in Nat
  BY <1>1, <1>4, MatchAdds
<1>7. /\ matches' \in Seq(Match_) /\ m \in DOMAIN matches' /\ matches'[m] = MatchOf
      /\ \A i \in DOMAIN matches : /\ i \in DOMAIN matches' /\ matches'[i] = matches[i]
                                   /\ i \in Nat /\ i > 0 /\ i < m
      /\ OfIn(matches', rules) = OfIn(matches, rules) \union {m}
      /\ m # 0
  BY <1>2, <1>5, <1>6, AppendOf, Zenon
<1>8. DOMAIN matches' = DOMAIN matches \union {m}
  <2> DEFINE n == Len(matches)
  <2>1. n \in Nat /\ DOMAIN matches = 1..n
    BY <1>5, LenProperties
  <2>2. DOMAIN matches' = 1..(n + 1)
    BY <1>2, <1>5, <1>6, AppendProperties, LenProperties
  <2>3. m = n + 1
    OBVIOUS
  <2> HIDE DEF n, m
  <2>4. 1..(n + 1) = 1..n \union {n + 1}
    BY <2>1
  <2> QED BY <2>1, <2>2, <2>3, <2>4, Zenon
<1> HIDE DEF m
<1>9. TypeOK'
  <2>1. captures' \in [0..9 -> Nat]
    BY <1>1, <1>4, <1>6 DEF TypeOK
  <2>2. matchedVars' \in Seq(Nat) /\ matchedValues' \in Seq(Data)
    BY <1>1, <1>2, <1>5, <1>6, AppendProperties
  <2>3. counter' \in Value
    BY <1>1, <1>4, <1>6, SetVarAdds, Zenon DEF TypeOK
  <2>4. hit' \in BOOLEAN /\ onlyAdded' \in BOOLEAN
    BY <1>3, <1>4, Zenon DEF TypeOK
  <2>5. added' \in Int
    <3>1. added \in Int
      BY <1>4 DEF TypeOK
    <3>2. s.n \in Int
      BY <1>6 DEF SetVars
    <3> HIDE DEF s
    <3> QED BY <1>1, <3>1, <3>2
  <2> QED BY <1>1, <1>4, <1>6, <1>7, <2>1, <2>2, <2>3, <2>4, <2>5, Zenon DEF TypeOK
<1>10. ScoreInv'
  <2> SUFFICES ASSUME onlyAdded' PROVE counter'.n = added' /\ counter'.kind \in {"absent", "int"}
    BY DEF ScoreInv
  <2>1. onlyAdded /\ s.op \in {"none", "add"}
    BY <1>3, Zenon
  <2>2. counter \in Value /\ counter.n = added /\ counter.kind \in {"absent", "int"}
    BY <1>4, <2>1 DEF IInv, ScoreInv, TypeOK
  <2> HIDE DEF s
  <2> QED BY <1>1, <1>6, <2>1, <2>2, SetVarAdds, Zenon
<1>11. CaptureInv'
  <2>1. ASSUME NEW i \in 0..9, captures'[i] # 0
        PROVE  captures'[i] \in DOMAIN matches' /\ matches'[captures'[i]].asked
    <3>1. CASE Capture /\ i < groups
      <4>1. captures'[i] = m /\ \E k \in 1..link : rule[k].capture
        BY <1>1, <3>1 DEF IInv, CaptureInv
      <4> QED BY <1>6, <1>7, <4>1
    <3>2. CASE ~(Capture /\ i < groups)
      <4>1. captures'[i] = captures[i]
        BY <1>1, <3>2
      <4>2. captures[i] \in DOMAIN matches /\ matches[captures[i]].asked
        BY <2>1, <4>1 DEF IInv, CaptureInv
      <4> QED BY <1>7, <4>1, <4>2
    <3> QED BY <3>1, <3>2
  <2> QED BY <1>1, <2>1 DEF IInv, CaptureInv
<1>12. SerialInv'
  <2>1. ASSUME NEW i \in DOMAIN matches' PROVE matches'[i].serial <= rules
    <3>1. CASE i = m
      BY <1>5, <1>6, <1>7, <3>1
    <3>2. CASE i \in DOMAIN matches
      BY <1>7, <3>2 DEF IInv, SerialInv
    <3> QED BY <1>8, <3>1, <3>2
  <2> QED BY <1>1, <2>1 DEF IInv, SerialInv
<1>13. /\ InOrder(matchedVars, Of(rules)) /\ Len(matchedValues) = Len(matchedVars)
       /\ \A k \in DOMAIN matchedValues :
             /\ matchedValues[k].match = matchedVars[k]
             /\ matchedValues[k].message = IF matches[matchedVars[k]].says THEN matchedVars[k] ELSE 0
  BY <1>1 DEF IInv, ValuesInv
<1>14. Of(rules) = OfIn(matches, rules) /\ Of(rules)' = Of(rules) \union {m}
  BY <1>1, <1>7 DEF Of, OfIn
<1>15. \A y \in Of(rules) : y \in DOMAIN matches /\ y < m
  BY <1>7 DEF Of
<1>16. ValuesInv'
  <2>1. InOrder(matchedVars', Of(rules)')
    <3>1. InOrder(matchedVars, Of(rules)) /\ matchedVars \in Seq(Nat) /\ m \in Nat
          /\ \A y \in Of(rules) : y < m
      BY <1>5, <1>6, <1>13, <1>15
    <3>2. InOrder(Append(matchedVars, m), Of(rules) \union {m})
      BY <3>1, AppendInOrder
    <3> QED BY <1>1, <1>14, <3>2
  <2> DEFINE n == Len(matchedVars)
  <2>2. /\ n \in Nat /\ DOMAIN matchedVars = 1..n /\ DOMAIN matchedValues = 1..n
        /\ Len(matchedVars') = n + 1 /\ Len(matchedValues') = n + 1
        /\ DOMAIN matchedValues' = 1..(n + 1)
        /\ matchedVars'[n + 1] = m /\ matchedValues'[n + 1] = DataOf
        /\ \A k \in 1..n : matchedVars'[k] = matchedVars[k] /\ matchedValues'[k] = matchedValues[k]
    <3>1. /\ n \in Nat /\ DOMAIN matchedVars = 1..n /\ Len(matchedVars') = n + 1
          /\ matchedVars'[n + 1] = m /\ \A k \in 1..n : matchedVars'[k] = matchedVars[k]
      BY <1>1, <1>5, <1>6, AppendProperties, LenProperties
    <3>2. Len(matchedValues) = n /\ DataOf \in Data
      BY <1>6, <1>13
    <3> HIDE DEF n
    <3>3. /\ DOMAIN matchedValues = 1..n /\ Len(matchedValues') = n + 1
          /\ DOMAIN matchedValues' = 1..(n + 1) /\ matchedValues'[n + 1] = DataOf
          /\ \A k \in 1..n : matchedValues'[k] = matchedValues[k]
      BY <1>2, <1>5, <3>2, AppendProperties, LenProperties
    <3> QED BY <3>1, <3>3
  <2> HIDE DEF n
  <2>3. \A k \in 1..(n + 1) : k \in 1..n \/ k = n + 1
    BY <2>2
  <2>4. ASSUME NEW k \in DOMAIN matchedValues'
        PROVE  /\ matchedValues'[k].match = matchedVars'[k]
               /\ matchedValues'[k].message =
                     IF matches'[matchedVars'[k]].says THEN matchedVars'[k] ELSE 0
    <3>1. CASE k = n + 1
      BY <1>6, <1>7, <2>2, <3>1
    <3>2. CASE k \in 1..n
      <4>1. matchedVars[k] \in DOMAIN matches
        BY <1>13, <1>15, <2>2, <3>2 DEF InOrder
      <4>2. matches'[matchedVars[k]] = matches[matchedVars[k]]
        BY <1>7, <4>1
      <4>3. /\ matchedValues[k].match = matchedVars[k]
            /\ matchedValues[k].message = IF matches[matchedVars[k]].says THEN matchedVars[k] ELSE 0
        BY <1>13, <2>2, <3>2
      <4> QED BY <2>2, <3>2, <4>2, <4>3
    <3> QED BY <2>2, <2>3, <3>1, <3>2
  <2>5. link' # 0 /\ matchedVar' = matchedVars'[Len(matchedVars')]
    BY <1>1, <1>6, <2>2
  <2> QED BY <2>1, <2>2, <2>4, <2>5 DEF ValuesInv
<1>17. LinksInv'
  <2>1. {matches[i].link : i \in Of(rules)} = 1..(IF hit THEN link ELSE link - 1)
    BY <1>1 DEF IInv, LinksInv
  <2>2. \A i \in Of(rules) : matches'[i].link = matches[i].link
    BY <1>7, <1>15
  <2>3. {matches[i].link : i \in Of(rules)}' = {matches[i].link : i \in Of(rules)} \union {link}
    <3>1. matches'[m].link = link
      BY <1>6, <1>7
    <3>2. {matches'[i].link : i \in Of(rules) \union {m}} = {matches[i].link : i \in Of(rules)} \union {link}
      BY <2>2, <3>1
    <3> QED BY <1>14, <3>2
  <2>4. 1..(IF hit THEN link ELSE link - 1) \union {link} = 1..link
    BY <1>6, LinkAtHand, <1>4
  <2>5. {matches[i].link : i \in Of(rules)}' = 1..link
    BY <2>1, <2>3, <2>4, Zenon
  <2>6. (IF hit THEN link ELSE link - 1)' = link
    BY <1>1
  <2> QED BY <2>5, <2>6, Zenon DEF LinksInv
<1>18. RulesRecorded'
  <2>1. /\ \A i \in DOMAIN matchedRules : RecordOK(matchedRules[i], matches)
        /\ RecordsOnce /\ SeverityInv
    BY RulesRecordedParts DEF IInv
  <2>2. ASSUME NEW i \in DOMAIN matchedRules
        PROVE  RecordOK(matchedRules[i], matches')
    <3>1. matchedRules[i].serial < rules /\ matchedRules[i] \in Recorded
      BY <1>1, <1>4, LenProperties, ElementOfSeq, Zenon DEF IInv, SerialInv, TypeOK
    <3>2. matchedRules[i].serial # rules
      BY <1>5, <3>1 DEF Recorded
    <3> QED BY <1>2, <1>5, <1>6, <2>1, <3>2, RecordStays
  <2>3. RecordsOnce' /\ SeverityInv'
    BY <1>1, <2>1 DEF RecordsOnce, SeverityInv
  <2> QED BY <1>1, <2>2, <2>3, RulesRecordedNext
<1> QED BY <1>9, <1>10, <1>11, <1>12, <1>16, <1>17, <1>18 DEF IInv
(* The record of a rule whose last link has matched agrees with its matches  *)
(* (Transaction.MatchRule).                                                  *)
LEMMA NewRecord ==
  ASSUME IInv, link > 0, hit, link = Len(rule)
  PROVE  LET mr == [rule |-> rule, serial |-> rules, datas |-> matchedValues,
                    message |-> FirstMessage(matchedValues)]
         IN  mr \in Recorded /\ RecordOK(mr, matches)
<1> DEFINE S == OfIn(matches, rules)
           said == {m \in S : matches[m].says}
           first == FirstMessage(matchedValues)
<1>1. TypeOK /\ matchedValues \in Seq(Data) /\ matchedVars \in Seq(Nat) /\ matches \in Seq(Match_)
  BY DEF IInv, TypeOK
<1>2. /\ InOrder(matchedVars, S) /\ Len(matchedValues) = Len(matchedVars)
      /\ \A k \in DOMAIN matchedValues :
            /\ matchedValues[k].match = matchedVars[k]
            /\ matchedValues[k].message = IF matches[matchedVars[k]].says THEN matchedVars[k] ELSE 0
  BY DEF IInv, ValuesInv, Of, OfIn
<1>3. DOMAIN matchedValues = DOMAIN matchedVars
  BY <1>1, <1>2, LenProperties
<1>4. 0 \notin S /\ said \subseteq S
  BY <1>1, LenProperties DEF OfIn
<1>5. \A k \in DOMAIN matchedValues :
          matchedValues[k].message = IF matchedVars[k] \in said THEN matchedVars[k] ELSE 0
  <2>1. \A k \in DOMAIN matchedVars : matchedVars[k] \in S
    BY <1>2 DEF InOrder
  <2> HIDE DEF S
  <2>2. \A k \in DOMAIN matchedValues : matchedVars[k] \in said <=> matches[matchedVars[k]].says
    BY <1>3, <2>1
  <2> HIDE DEF said
  <2> QED BY <1>2, <2>2
<1> HIDE DEF S, said
<1>6. /\ said = {} => first = 0
      /\ said # {} => first \in said /\ \A m \in said : first <= m
      /\ first \in Nat
  BY <1>1, <1>2, <1>4, <1>5, FirstMessageIsFirst, Zenon
<1> HIDE DEF first
<1> DEFINE mr == [rule |-> rule, serial |-> rules, datas |-> matchedValues, message |-> first]
<1>7. /\ mr \in Recorded /\ mr.rule = rule /\ mr.serial = rules /\ mr.datas = matchedValues
      /\ mr.message = first
  BY <1>1, <1>6 DEF Recorded, TypeOK
<1>8. {matches[m].link : m \in S} = DOMAIN rule
  <2>1. {matches[m].link : m \in Of(rules)} = 1..link
    BY DEF IInv, LinksInv
  <2> QED BY <1>1, <2>1, LinkAtHand DEF S, Of, OfIn
<1>9. InOrder([k \in DOMAIN matchedValues |-> matchedValues[k].match], S)
  <2> DEFINE f == [k \in DOMAIN matchedValues |-> matchedValues[k].match]
  <2>1. DOMAIN f = DOMAIN matchedVars /\ \A k \in DOMAIN matchedVars : f[k] = matchedVars[k]
    BY <1>2, <1>3
  <2> HIDE DEF f
  <2>2. InOrder(f, S)
    BY <1>2, <2>1 DEF InOrder
  <2> QED BY <2>2 DEF f
<1> HIDE DEF mr
<1>10. RecordOK(mr, matches)
  <2>1. OfIn(matches, mr.serial) = S /\ {m \in OfIn(matches, mr.serial) : matches[m].says} = said
    BY <1>7 DEF S, said
  <2> QED BY <1>6, <1>7, <1>8, <1>9, <2>1, Zenon DEF RecordOK
<1> QED BY <1>7, <1>10 DEF mr, first

(* A rule that matched is appended to the records (Transaction.MatchRule). *)
LEMMA MatchRuleRecords ==
  ASSUME IInv, link > 0, hit, link = Len(rule), MatchRule(rule, matchedValues), UNCHANGED <<matches, rules>>
  PROVE  /\ matchedRules' \in Seq(Recorded) /\ highestSeverity' \in 0..7
         /\ \A i \in DOMAIN matchedRules' : matchedRules'[i].serial <= rules
         /\ RulesRecorded'
<1> DEFINE mr == [rule |-> rule, serial |-> rules, datas |-> matchedValues,
                  message |-> FirstMessage(matchedValues)]
           sev == rule[1].severity
<1>1. mr \in Recorded /\ RecordOK(mr, matches)
  BY NewRecord
<1>2. /\ matchedRules' = Append(matchedRules, mr)
      /\ highestSeverity' = IF sev > highestSeverity THEN sev ELSE highestSeverity
  BY DEF MatchRule
<1>3. mr.serial = rules /\ mr.rule[1].severity = sev
  OBVIOUS
<1>4. sev \in 0..7
  <2>1. TypeOK /\ 1 \in 1..Len(rule)
    BY LinkAtHand DEF IInv
  <2>2. rule[1] \in Link
    BY <2>1, LinkAtHand
  <2> QED BY <2>2 DEF Link
<1> HIDE DEF mr, sev
<1>5. matchedRules \in Seq(Recorded) /\ highestSeverity \in 0..7 /\ rules \in Nat
  BY DEF IInv, TypeOK
<1> DEFINE n == Len(matchedRules)
<1>6. /\ n \in Nat /\ DOMAIN matchedRules = 1..n /\ DOMAIN matchedRules' = 1..(n + 1)
      /\ matchedRules'[n + 1] = mr /\ (\A i \in 1..n : matchedRules'[i] = matchedRules[i])
      /\ matchedRules' \in Seq(Recorded)
  BY <1>1, <1>2, <1>5, AppendProperties, LenProperties
<1> HIDE DEF n
<1>7. /\ \A i \in 1..(n + 1) : i \in 1..n \/ i = n + 1
      /\ n + 1 \in 1..(n + 1) /\ \A i \in 1..n : i \in 1..(n + 1)
  BY <1>6
<1>8. \A i \in 1..n : /\ matchedRules[i].serial \in Nat /\ matchedRules[i].serial < rules
                      /\ matchedRules[i].serial # rules
  <2>1. \A r \in Recorded : r.serial \in Nat
    BY DEF Recorded
  <2>2. \A i \in 1..n : matchedRules[i] \in Recorded /\ matchedRules[i].serial < rules
    <3>1. \A i \in 1..n : matchedRules[i] \in Recorded
      BY <1>5, ElementOfSeq DEF n
    <3>2. \A i \in DOMAIN matchedRules : matchedRules[i].serial < rules
      BY DEF IInv, SerialInv
    <3> QED BY <1>6, <3>1, <3>2, Zenon
  <2> QED BY <1>5, <2>1, <2>2
<1>9. ASSUME NEW i \in DOMAIN matchedRules' PROVE matchedRules'[i].serial <= rules
  <2>1. CASE i = n + 1
    BY <1>3, <1>5, <1>6, <2>1
  <2>2. CASE i \in 1..n
    BY <1>5, <1>6, <1>8, <2>2
  <2> QED BY <1>6, <1>7, <2>1, <2>2
<1>10. /\ \A i \in DOMAIN matchedRules : RecordOK(matchedRules[i], matches)
       /\ RecordsOnce /\ SeverityInv
  BY RulesRecordedParts DEF IInv
<1>11. ASSUME NEW i \in DOMAIN matchedRules' PROVE RecordOK(matchedRules'[i], matches')
  BY <1>1, <1>6, <1>7, <1>10
<1>12. RecordsOnce'
  <2> SUFFICES ASSUME NEW i \in DOMAIN matchedRules', NEW j \in DOMAIN matchedRules', j # i
               PROVE  matchedRules'[j].serial # matchedRules'[i].serial
    BY DEF RecordsOnce
  <2>1. CASE i \in 1..n /\ j \in 1..n
    BY <1>6, <1>10, <2>1 DEF RecordsOnce
  <2>2. CASE i \in 1..n /\ j = n + 1
    BY <1>3, <1>6, <1>8, <2>2
  <2>3. CASE i = n + 1 /\ j \in 1..n
    BY <1>3, <1>6, <1>8, <2>3
  <2> QED BY <1>6, <1>7, <2>1, <2>2, <2>3
<1>13. SeverityInv'
  <2>1. highestSeverity = 0 \/ \E i \in 1..n : highestSeverity = matchedRules[i].rule[1].severity
    BY <1>6, <1>10 DEF SeverityInv
  <2>2. highestSeverity' = 0 \/ \E i \in DOMAIN matchedRules' :
                                    highestSeverity' = matchedRules'[i].rule[1].severity
    <3>1. CASE sev > highestSeverity
      <4>1. n + 1 \in DOMAIN matchedRules' /\ highestSeverity' = matchedRules'[n + 1].rule[1].severity
        BY <1>2, <1>3, <1>6, <1>7, <3>1
      <4> QED BY <4>1
    <3>2. CASE ~(sev > highestSeverity)
      <4>1. highestSeverity' = highestSeverity
        BY <1>2, <3>2
      <4> QED BY <1>6, <1>7, <2>1, <4>1
    <3> QED BY <3>1, <3>2
  <2> QED BY <2>2 DEF SeverityInv
<1>14. RulesRecorded'
  BY <1>11, <1>12, <1>13, RulesRecordedNext
<1>15. highestSeverity' \in 0..7
  BY <1>2, <1>4, <1>5
<1> QED BY <1>6, <1>9, <1>14, <1>15

(* The end of a rule leaves nothing of it to the next (RuleGroup.Eval). *)
LEMMA EndOfRuleInv ==
  ASSUME IInv, EndOfRule
  PROVE  IInv'
<1>1. /\ link > 0 /\ link' = 0 /\ ~hit' /\ ~Capture' /\ (hit => link = Len(rule)) /\ matchedValues' = <<>>
      /\ UNCHANGED <<rule, captures, matchedVars, matchedVar, counter, matches, rules, added, onlyAdded>>
  BY DEF EndOfRule, historyVars
<1>2. \/ hit /\ MatchRule(rule, matchedValues)
      \/ UNCHANGED <<matchedRules, highestSeverity>>
  BY Zenon DEF EndOfRule, logVars
<1>3. rules \in Nat /\ matchedRules \in Seq(Recorded) /\ highestSeverity \in 0..7
  BY DEF IInv, TypeOK
<1>4. /\ matchedRules' \in Seq(Recorded) /\ highestSeverity' \in 0..7
      /\ \A i \in DOMAIN matchedRules' : matchedRules'[i].serial <= rules
      /\ RulesRecorded'
  <2>1. CASE hit /\ MatchRule(rule, matchedValues)
    BY <1>1, <2>1, MatchRuleRecords
  <2>2. CASE UNCHANGED <<matchedRules, highestSeverity>>
    <3>1. RulesRecorded'
      BY <1>1, <2>2, RecordedFrame DEF IInv
    <3> QED BY <1>3, <2>2, <3>1 DEF IInv, SerialInv
  <2> QED BY <1>2, <2>1, <2>2
<1>5. TypeOK'
  <2>1. hit' \in BOOLEAN /\ Capture' \in BOOLEAN
    BY Zenon DEF EndOfRule
  <2>2. link' \in 0..Len(rule') /\ matchedValues' \in Seq(Data)
    BY <1>1, LinkAtHand, EmptySeq DEF IInv
  <2> QED BY <1>1, <1>4, <2>1, <2>2, Zenon DEF IInv, TypeOK
<1>6. ScoreInv' /\ CaptureInv'
  BY <1>1 DEF IInv, ScoreInv, CaptureInv
<1>7. SerialInv' /\ ValuesInv' /\ LinksInv'
  BY <1>1, <1>4 DEF IInv, SerialInv, ValuesInv, LinksInv
<1> QED BY <1>4, <1>5, <1>6, <1>7 DEF IInv

(* Every step of the evaluation keeps the invariant. *)
LEMMA StepInv ==
  ASSUME IInv, [Next]_vars
  PROVE  IInv'
<1>1. CASE \E r \in Rules : StartRule(r)
  BY <1>1, StartRuleInv
<1>2. CASE \E groups \in 0..Groups : Match(groups)
  BY <1>2, MatchInv
<1>3. CASE NextLink
  BY <1>3, NextLinkInv
<1>4. CASE EndOfRule
  BY <1>4, EndOfRuleInv
<1>5. CASE UNCHANGED vars
  <2>1. UNCHANGED <<rule, link, hit, Capture, captures, matchedVars, matchedVar, counter,
                    matchedValues, matchedRules, highestSeverity, matches, rules, added, onlyAdded>>
    BY <1>5 DEF vars, evalVars, logVars, historyVars
  <2>2. TypeOK' /\ ScoreInv' /\ CaptureInv' /\ SerialInv'
    BY <2>1, Zenon DEF IInv, TypeOK, ScoreInv, CaptureInv, SerialInv
  <2>3. Of(rules)' = Of(rules)
    BY <2>1 DEF Of
  <2>4. ValuesInv' /\ LinksInv'
    BY <2>1, <2>3 DEF IInv, ValuesInv, LinksInv, InOrder
  <2>5. RulesRecorded'
    BY <2>1, RecordedFrame DEF IInv
  <2> QED BY <2>2, <2>4, <2>5 DEF IInv
<1> QED BY <1>1, <1>2, <1>3, <1>4, <1>5 DEF Next

(* The invariant holds in every reachable state (RuleGroup.Eval). *)
LEMMA Invariance == Spec => []IInv
<1>1. Init => IInv
  BY InitInv
<1>2. IInv /\ [Next]_vars => IInv'
  BY StepInv
<1> QED BY <1>1, <1>2, PTL DEF Spec
-----------------------------------------------------------------------------
(* The logs.  The values f[0], ..., f[n] of a loop over 1..n that begins     *)
(* with base.                                                                *)
IsLoop(f, S, base, n, step) ==
    f \in [0..n -> S] /\ f[0] = base /\ \A i \in 1..n : f[i] = step[<<f[i - 1], i>>]

(* A loop over 1..n that changes a value of S has its sequence of values     *)
(* (the loop of Transaction.AuditLog over the matched rules).                *)
LEMMA LoopExists ==
  ASSUME NEW S, NEW base \in S, NEW n \in Nat, NEW step \in [S \X (1..n) -> S]
  PROVE  \E f : IsLoop(f, S, base, n, step)
<1> DEFINE P(m) == \E f \in [0..m -> S] : f[0] = base /\ \A i \in 1..m : f[i] = step[<<f[i - 1], i>>]
           T == {m \in 0..n : ~P(m)}
<1>1. P(0)
  <2>1. [i \in 0..0 |-> base] \in [0..0 -> S] /\ [i \in 0..0 |-> base][0] = base /\ 1..0 = {}
    OBVIOUS
  <2> QED BY <2>1, Zenon
<1>2. ASSUME NEW m \in 1..n, P(m - 1) PROVE P(m)
  <2>1. PICK g \in [0..(m - 1) -> S] :
               g[0] = base /\ \A i \in 1..(m - 1) : g[i] = step[<<g[i - 1], i>>]
    BY <1>2
  <2> DEFINE v == step[<<g[m - 1], m>>]
             f == [i \in 0..m |-> IF i = m THEN v ELSE g[i]]
  <2>2. g[m - 1] \in S /\ <<g[m - 1], m>> \in S \X (1..n)
    OBVIOUS
  <2>3. v \in S
    BY <2>2
  <2> HIDE DEF v
  <2>4. f \in [0..m -> S] /\ f[m] = v /\ \A i \in 0..(m - 1) : f[i] = g[i]
    BY <2>3
  <2> HIDE DEF f
  <2>5. f[0] = base
    BY <2>1, <2>4
  <2>6. ASSUME NEW i \in 1..m PROVE f[i] = step[<<f[i - 1], i>>]
    <3>1. f[i - 1] = g[i - 1]
      BY <2>4
    <3>2. CASE i = m
      BY <2>4, <3>1, <3>2 DEF v
    <3>3. CASE i \in 1..(m - 1)
      BY <2>1, <2>4, <3>1, <3>3
    <3> QED BY <3>2, <3>3
  <2> QED BY <2>4, <2>5, <2>6
<1> HIDE DEF P
<1>3. T = {}
  <2> SUFFICES ASSUME T # {} PROVE FALSE
    OBVIOUS
  <2>0. T \subseteq Nat
    OBVIOUS
  <2>1. PICK x \in T : \A y \in T : x <= y
    <3> HIDE DEF T
    <3> QED BY <2>0, NatMin, Zenon
  <2>2. x \in 1..n /\ x - 1 \in 0..n /\ x - 1 \notin T
    BY <1>1, <2>1
  <2> QED BY <1>2, <2>1, <2>2
<1>4. P(n)
  BY <1>3
<1> QED BY <1>4 DEF P, IsLoop

(* The lists joined so far, after each of them. *)
Joins(f, U, lists) ==
    /\ f \in [0..Len(lists) -> Seq(U)] /\ f[0] = <<>> /\ Joined(lists) = f[Len(lists)]
    /\ \A i \in 1..Len(lists) : f[i] = f[i - 1] \o lists[i]

(* Joined is its loop (Transaction.AuditLog). *)
LEMMA JoinedLoop ==
  ASSUME NEW U, NEW lists \in Seq(Seq(U))
  PROVE  \E f : Joins(f, U, lists)
<1> DEFINE n == Len(lists)
           V == Seq(U)
           e == <<>>
           Turn(f, i) == IF i = 0 THEN <<>> ELSE f[i - 1] \o lists[i]
           Loop(f) == f = [i \in 0..n |-> Turn(f, i)]
           step == [p \in V \X (1..n) |-> p[1] \o lists[p[2]]]
           h == CHOOSE f : Loop(f)
<1>1. n \in Nat /\ e \in V
  OBVIOUS
<1>2. Joined(lists) = h[n]
  BY DEF Joined
<1>3. ASSUME NEW s \in V, NEW i \in 1..n PROVE s \o lists[i] \in V
  <2>1. lists[i] \in Seq(U)
    BY ElementOfSeq
  <2> QED BY <2>1, ConcatProperties
<1> HIDE DEF n, V
<1>4. step \in [V \X (1..n) -> V]
  BY <1>3
<1>5. ASSUME NEW s \in V, NEW i \in 1..n PROVE step[<<s, i>>] = s \o lists[i]
  BY Zenon
<1> HIDE DEF step, e
<1>6. PICK g : IsLoop(g, V, e, n, step)
  BY <1>1, <1>4, LoopExists, Zenon
<1>7. g \in [0..n -> V] /\ g[0] = e
  BY <1>6 DEF IsLoop
<1>8. ASSUME NEW i \in 1..n PROVE g[i] = g[i - 1] \o lists[i]
  <2>1. i - 1 \in 0..n
    BY <1>1
  <2>2. g[i - 1] \in V
    BY <1>7, <2>1
  <2>3. g[i] = step[<<g[i - 1], i>>]
    BY <1>6 DEF IsLoop
  <2> QED BY <1>5, <2>2, <2>3, Zenon
<1>9. \A f, i : i \in 1..n => Turn(f, i) = f[i - 1] \o lists[i]
  <2>1. \A i \in 1..n : i # 0
    BY <1>1
  <2> QED BY <2>1, Zenon
<1>10. \A f : Turn(f, 0) = e
  BY DEF e
<1> HIDE DEF Turn
<1>11. Loop(g)
  <2>1. ASSUME NEW i \in 0..n PROVE g[i] = Turn(g, i)
    <3>1. i = 0 \/ i \in 1..n
      BY <1>1
    <3>2. CASE i = 0
      BY <1>7, <1>10, <3>2
    <3>3. CASE i \in 1..n
      BY <1>8, <1>9, <3>3, Zenon
    <3> QED BY <3>1, <3>2, <3>3
  <2> QED BY <1>7, <2>1
<1>12. Loop(h)
  <2> HIDE DEF Loop
  <2> QED BY <1>11, Zenon
<1>13. /\ h \in [0..n -> V] /\ h[0] = e
       /\ \A i \in 1..n : h[i] = h[i - 1] \o lists[i]
  <2> HIDE DEF h
  <2>1. \A i \in 0..n : h[i] = Turn(h, i)
    BY <1>12, Zenon
  <2> DEFINE T == {i \in 0..n : h[i] # g[i]}
  <2>2. T \subseteq Nat
    BY <1>1
  <2>3. ASSUME T # {} PROVE FALSE
    <3>1. PICK x \in T : \A y \in T : x <= y
      <4> HIDE DEF T
      <4> QED BY <2>2, <2>3, NatMin, Zenon
    <3>2. x \in 1..n
      BY <1>1, <1>7, <1>10, <2>1, <3>1
    <3>3. x - 1 \in 0..n /\ x - 1 \notin T
      BY <1>1, <3>1, <3>2
    <3>4. h[x - 1] = g[x - 1]
      BY <3>3
    <3>5. h[x] = h[x - 1] \o lists[x] /\ x \in 0..n
      BY <1>1, <1>9, <2>1, <3>2, Zenon
    <3> QED BY <1>8, <3>1, <3>2, <3>4, <3>5, Zenon
  <2>4. \A i \in 0..n : h[i] = g[i]
    BY <2>3
  <2>5. DOMAIN h = 0..n /\ h = [i \in 0..n |-> Turn(h, i)]
    BY <1>12, Zenon
  <2>6. h = g
    BY <1>7, <2>4, <2>5
  <2> QED BY <1>7, <1>8, <2>6, Zenon
<1> QED BY <1>2, <1>13, Zenon DEF Joins, n, V, e

(* Nothing joined is nothing, and one list more is appended to what the      *)
(* others give (Transaction.AuditLog).                                       *)
LEMMA JoinedStep ==
  ASSUME NEW U, NEW s \in Seq(Seq(U)), NEW t \in Seq(Seq(U)), Len(t) = Len(s) + 1,
         \A i \in 1..Len(s) : t[i] = s[i]
  PROVE  Joined(s) \in Seq(U) /\ Joined(t) = Joined(s) \o t[Len(t)]
<1> DEFINE n == Len(s)
<1>1. n \in Nat
  OBVIOUS
<1>2. PICK f : Joins(f, U, s)
  BY JoinedLoop
<1>3. PICK g : Joins(g, U, t)
  BY JoinedLoop
<1>4. /\ f \in [0..n -> Seq(U)] /\ f[0] = <<>> /\ Joined(s) = f[n]
      /\ \A i \in 1..n : f[i] = f[i - 1] \o s[i]
  BY <1>2, Zenon DEF Joins
<1>5. /\ g[0] = <<>> /\ Joined(t) = g[n + 1]
      /\ \A i \in 1..(n + 1) : g[i] = g[i - 1] \o t[i]
  BY <1>3 DEF Joins
<1>6. \A i \in 1..n : t[i] = s[i]
  BY Zenon
<1>7. Len(t) = n + 1
  OBVIOUS
<1> HIDE DEF n
<1> DEFINE T == {i \in 0..n : g[i] # f[i]}
<1>8. T \subseteq Nat
  BY <1>1
<1>9. ASSUME T # {} PROVE FALSE
  <2>1. PICK x \in T : \A y \in T : x <= y
    <3> HIDE DEF T
    <3> QED BY <1>8, <1>9, NatMin, Zenon
  <2>2. x \in 1..n
    BY <1>1, <1>4, <1>5, <2>1
  <2>3. x - 1 \in 0..n /\ x - 1 \notin T /\ x \in 1..(n + 1)
    BY <1>1, <2>1, <2>2
  <2>4. g[x - 1] = f[x - 1]
    BY <2>3
  <2> QED BY <1>4, <1>5, <1>6, <2>1, <2>2, <2>3, <2>4, Zenon
<1>10. g[n] = f[n]
  BY <1>1, <1>9
<1>11. g[n + 1] = g[n] \o t[n + 1]
  <2>1. n + 1 \in 1..(n + 1) /\ (n + 1) - 1 = n
    BY <1>1
  <2> QED BY <1>5, <2>1, Zenon
<1>12. f[n] \in Seq(U)
  BY <1>1, <1>4
<1> QED BY <1>4, <1>5, <1>7, <1>10, <1>11, <1>12, Zenon

(* No rules, no entries (Transaction.AuditLog). *)
LEMMA JoinedEmpty ==
  ASSUME NEW s, s = <<>>
  PROVE  Joined(s) = <<>>
<1>1. s \in Seq(Seq(Nat)) /\ Len(s) = 0
  OBVIOUS
<1>2. PICK f : Joins(f, Nat, s)
  BY <1>1, JoinedLoop, Zenon
<1> QED BY <1>1, <1>2 DEF Joins

(* What the logs are made of, in a list of matches and a list of records. *)
MatchesOf(mr)        == [k \in DOMAIN mr.datas |-> mr.datas[k].match]
ToldIn(mrs)          == Joined([i \in DOMAIN mrs |-> MatchesOf(mrs[i])])
AuditIn(mrs)         == Joined([i \in DOMAIN mrs |-> MessagesOf(mrs[i])])
LinesIn(mrs)         == Joined([i \in DOMAIN mrs |-> LinesOf(mrs[i])])
RecordedIn(ms, mrs)  == {m \in DOMAIN ms : \E i \in DOMAIN mrs : mrs[i].serial = ms[m].serial}
EntryIn(ms, m)       == [serial |-> ms[m].serial, message |-> IF ms[m].says THEN m ELSE 0]
AuditAgrees(ms, mrs) == AuditIn(mrs) = [k \in DOMAIN ToldIn(mrs) |-> EntryIn(ms, ToldIn(mrs)[k])]
Entry                == [serial : Nat, message : Nat]

(* Matches are in the order of their evaluations. *)
Ascending(ms) == \A i, j \in DOMAIN ms : i < j => ms[i].serial <= ms[j].serial

(* What LogsRecorded says, part by part (Transaction.AuditLog, ErrorLogCb). *)
LEMMA LogsRecordedParts ==
  LogsRecorded <=> /\ InOrder(ToldIn(matchedRules), RecordedIn(matches, matchedRules))
                   /\ AuditAgrees(matches, matchedRules)
                   /\ errorLog = LinesIn(matchedRules)
BY Zenon DEF LogsRecorded, Told, AuditMessages, ToldIn, AuditIn, LinesIn, RecordedIn, EntryIn, MatchesOf,
             AuditAgrees

(* The same after a step. *)
LEMMA LogsRecordedNext ==
  LogsRecorded' <=> /\ InOrder(ToldIn(matchedRules'), RecordedIn(matches', matchedRules'))
                    /\ AuditAgrees(matches', matchedRules')
                    /\ errorLog' = LinesIn(matchedRules')
BY Zenon DEF LogsRecorded, Told, AuditMessages, ToldIn, AuditIn, LinesIn, RecordedIn, EntryIn, MatchesOf,
             AuditAgrees

(* A list in order after another one, all of it greater (the matches of a    *)
(* rule after those of the rules before it).                                 *)
LEMMA ConcatInOrder ==
  ASSUME NEW s \in Seq(Nat), NEW t \in Seq(Nat), NEW S, NEW T, InOrder(s, S), InOrder(t, T),
         \A x \in S, y \in T : x < y
  PROVE  InOrder(s \o t, S \union T)
<1> DEFINE n == Len(s)
           l == Len(t)
           u == s \o t
<1>1. /\ n \in Nat /\ l \in Nat /\ DOMAIN s = 1..n /\ DOMAIN t = 1..l /\ DOMAIN u = 1..(n + l)
      /\ \A k \in 1..(n + l) : u[k] = IF k <= n THEN s[k] ELSE t[k - n]
  BY ConcatProperties, LenProperties
<1>2. /\ {s[k] : k \in DOMAIN s} = S /\ {t[k] : k \in DOMAIN t} = T
      /\ \A j, k \in DOMAIN s : j < k => s[j] < s[k]
      /\ \A j, k \in DOMAIN t : j < k => t[j] < t[k]
  BY DEF InOrder
<1> HIDE DEF n, l, u
<1>3. /\ \A k \in 1..(n + l) : k \in 1..n \/ (k > n /\ k - n \in 1..l)
      /\ \A k \in 1..n : k \in 1..(n + l) /\ k <= n
      /\ \A k \in 1..l : k + n \in 1..(n + l) /\ ~(k + n <= n) /\ (k + n) - n = k
  BY <1>1
<1>4. \A k \in 1..n : u[k] = s[k]
  BY <1>1, <1>3
<1>5. \A k \in 1..(n + l) : k > n => u[k] = t[k - n]
  BY <1>1, <1>3
<1>6. \A k \in 1..l : u[k + n] = t[k]
  BY <1>1, <1>3
<1>7. {u[k] : k \in DOMAIN u} = S \union T
  <2>1. ASSUME NEW k \in DOMAIN u PROVE u[k] \in S \union T
    BY <1>1, <1>2, <1>3, <1>4, <1>5
  <2>2. ASSUME NEW x \in S PROVE \E k \in DOMAIN u : u[k] = x
    BY <1>1, <1>2, <1>3, <1>4
  <2>3. ASSUME NEW x \in T PROVE \E k \in DOMAIN u : u[k] = x
    <3>1. PICK k \in 1..l : t[k] = x
      BY <1>1, <1>2
    <3>2. k + n \in DOMAIN u /\ u[k + n] = x
      BY <1>1, <1>3, <1>6, <3>1
    <3> QED BY <3>2
  <2> QED BY <2>1, <2>2, <2>3
<1>8. ASSUME NEW j \in DOMAIN u, NEW k \in DOMAIN u, j < k
      PROVE  u[j] < u[k]
  <2>1. CASE j \in 1..n /\ k \in 1..n
    BY <1>1, <1>2, <1>4, <1>8, <2>1
  <2>2. CASE j \in 1..n /\ k > n /\ k - n \in 1..l
    <3>1. u[j] \in S /\ u[k] \in T
      BY <1>1, <1>2, <1>4, <1>5, <2>2
    <3> QED BY <3>1
  <2>3. CASE j > n /\ j - n \in 1..l /\ k > n /\ k - n \in 1..l
    <3>1. j - n < k - n
      BY <1>1, <1>8
    <3> QED BY <1>1, <1>2, <1>5, <2>3, <3>1
  <2>4. k \in 1..n => j \in 1..n
    BY <1>1, <1>8
  <2> QED BY <1>1, <1>3, <2>1, <2>2, <2>3, <2>4
<1> QED BY <1>7, <1>8, Zenon DEF InOrder, u

(* A list has the entry that E gives for each number of another list. *)
EntriesOf(a, E, s) == a = [k \in DOMAIN s |-> E[s[k]]]

(* Entries of two lists, one after the other, are those of the whole         *)
(* (Transaction.AuditLog).                                                   *)
LEMMA ConcatEntries ==
  ASSUME NEW U, NEW E, NEW s \in Seq(Nat), NEW t \in Seq(Nat), NEW a \in Seq(U), NEW b \in Seq(U),
         EntriesOf(a, E, s), EntriesOf(b, E, t)
  PROVE  EntriesOf(a \o b, E, s \o t)
<1> USE DEF EntriesOf
<1> DEFINE n == Len(s)
           l == Len(t)
           u == s \o t
           v == a \o b
<1>1. /\ n \in Nat /\ l \in Nat /\ DOMAIN s = 1..n /\ DOMAIN t = 1..l /\ DOMAIN u = 1..(n + l)
      /\ \A k \in 1..(n + l) : u[k] = IF k <= n THEN s[k] ELSE t[k - n]
  BY ConcatProperties, LenProperties
<1>2. Len(a) = n /\ Len(b) = l
  <2>1. DOMAIN a = 1..Len(a) /\ DOMAIN b = 1..Len(b) /\ Len(a) \in Nat /\ Len(b) \in Nat
    BY LenProperties
  <2>2. DOMAIN a = 1..n /\ DOMAIN b = 1..l
    BY <1>1
  <2> HIDE DEF n, l
  <2> QED BY <1>1, <2>1, <2>2
<1>3. /\ v \in Seq(U) /\ DOMAIN v = 1..(n + l)
      /\ \A k \in 1..(n + l) : v[k] = IF k <= n THEN a[k] ELSE b[k - n]
  <2>1. /\ v \in Seq(U) /\ Len(v) = Len(a) + Len(b)
        /\ \A k \in 1..(Len(a) + Len(b)) : v[k] = IF k <= Len(a) THEN a[k] ELSE b[k - Len(a)]
    BY ConcatProperties
  <2>2. DOMAIN v = 1..Len(v)
    BY <2>1, LenProperties
  <2> HIDE DEF n, l, v
  <2> QED BY <1>2, <2>1, <2>2, Zenon
<1>4. v = [k \in DOMAIN v |-> v[k]]
  <2>1. v \in [1..Len(v) -> U]
    BY <1>3, LenProperties, Zenon
  <2> HIDE DEF v
  <2> QED BY <2>1
<1>5. (\A k \in 1..n : a[k] = E[s[k]]) /\ (\A k \in 1..l : b[k] = E[t[k]])
  BY <1>1
<1> HIDE DEF n, l, u, v
<1>6. ASSUME NEW k \in 1..(n + l) PROVE v[k] = E[u[k]]
  <2>1. k \in 1..n \/ (~(k <= n) /\ k - n \in 1..l)
    BY <1>1
  <2>2. k \in 1..n => k <= n
    BY <1>1
  <2> QED BY <1>1, <1>3, <1>5, <2>1, <2>2
<1>7. v = [k \in DOMAIN u |-> E[u[k]]]
  BY <1>1, <1>3, <1>4, <1>6
<1> QED BY <1>7, Zenon DEF u, v

(* The lists that a record adds to the logs (Transaction.MatchRule). *)
LEMMA RecordLists ==
  ASSUME NEW mr \in Recorded
  PROVE  /\ MatchesOf(mr) \in Seq(Nat) /\ MessagesOf(mr) \in Seq(Entry) /\ LinesOf(mr) \in Seq(Nat)
         /\ DOMAIN MatchesOf(mr) = DOMAIN mr.datas /\ DOMAIN MessagesOf(mr) = DOMAIN mr.datas
<1> DEFINE n == Len(mr.datas)
<1>1. mr.serial \in Nat /\ mr.datas \in Seq(Data) /\ mr.message \in Nat
  BY DEF Recorded
<1>2. n \in Nat /\ DOMAIN mr.datas = 1..n
  BY <1>1, LenProperties
<1>3. \A k \in 1..n : mr.datas[k].match \in Nat /\ mr.datas[k].message \in Nat
  <2>1. \A k \in 1..n : mr.datas[k] \in Data
    BY <1>1, ElementOfSeq
  <2> QED BY <2>1 DEF Data
<1> HIDE DEF n
<1>4. MatchesOf(mr) \in [1..n -> Nat]
  BY <1>2, <1>3 DEF MatchesOf
<1>5. MessagesOf(mr) \in [1..n -> Entry]
  <2>1. \A k \in 1..n : [serial |-> mr.serial, message |-> mr.datas[k].message] \in Entry
    BY <1>1, <1>3 DEF Entry
  <2> QED BY <1>2, <2>1 DEF MessagesOf
<1>6. LinesOf(mr) = <<>> \/ LinesOf(mr) \in [1..n -> Nat]
  BY <1>1, <1>2 DEF LinesOf
<1>7. \A U, f : f \in [1..n -> U] => f \in Seq(U)
  BY <1>2, IsASeq
<1>8. DOMAIN MatchesOf(mr) = DOMAIN mr.datas /\ DOMAIN MessagesOf(mr) = DOMAIN mr.datas
  BY DEF MatchesOf, MessagesOf
<1>9. LinesOf(mr) \in Seq(Nat)
  <2>1. <<>> \in Seq(Nat)
    OBVIOUS
  <2> QED BY <1>6, <1>7, <2>1, Zenon
<1> QED BY <1>4, <1>5, <1>7, <1>8, <1>9, Zenon

(* A new record adds its lists at the end of the logs                        *)
(* (Transaction.MatchRule).                                                  *)
LEMMA RecordAdds ==
  ASSUME NEW mrs \in Seq(Recorded), NEW mr \in Recorded
  PROVE  /\ ToldIn(mrs) \in Seq(Nat) /\ AuditIn(mrs) \in Seq(Entry) /\ LinesIn(mrs) \in Seq(Nat)
         /\ ToldIn(Append(mrs, mr)) = ToldIn(mrs) \o MatchesOf(mr)
         /\ AuditIn(Append(mrs, mr)) = AuditIn(mrs) \o MessagesOf(mr)
         /\ LinesIn(Append(mrs, mr)) = LinesIn(mrs) \o LinesOf(mr)
<1> DEFINE n == Len(mrs)
           more == Append(mrs, mr)
<1>1. /\ n \in Nat /\ DOMAIN mrs = 1..n /\ DOMAIN more = 1..(n + 1) /\ more[n + 1] = mr
      /\ \A i \in 1..n : more[i] = mrs[i] /\ mrs[i] \in Recorded
  BY AppendProperties, LenProperties, ElementOfSeq
<1> HIDE DEF n, more
<1>2. /\ \A i \in 1..(n + 1) : i \in 1..n \/ i = n + 1
      /\ n + 1 \in Nat /\ n + 1 \in 1..(n + 1) /\ \A i \in 1..n : i \in 1..(n + 1)
  BY <1>1
<1>3. \A i \in 1..(n + 1) : more[i] \in Recorded
  BY <1>1, <1>2, Zenon
<1>4. ASSUME NEW U, NEW s, NEW t, s \in [1..n -> Seq(U)], t \in [1..(n + 1) -> Seq(U)],
             \A i \in 1..n : t[i] = s[i]
      PROVE  Joined(s) \in Seq(U) /\ Joined(t) = Joined(s) \o t[n + 1]
  <2>1. s \in Seq(Seq(U)) /\ Len(s) = n
    BY <1>1, <1>4
  <2>2. t \in Seq(Seq(U)) /\ Len(t) = n + 1
    <3> DEFINE m == n + 1
    <3>1. m \in Nat /\ t \in [1..m -> Seq(U)]
      BY <1>2, <1>4
    <3> HIDE DEF m
    <3>2. t \in Seq(Seq(U)) /\ Len(t) = m
      BY <3>1
    <3> QED BY <3>2 DEF m
  <2>3. \A i \in 1..Len(s) : t[i] = s[i]
    BY <1>4, <2>1
  <2> QED BY <2>1, <2>2, <2>3, JoinedStep, Zenon
<1>5. ToldIn(mrs) \in Seq(Nat) /\ ToldIn(more) = ToldIn(mrs) \o MatchesOf(mr)
  <2> DEFINE s == [i \in DOMAIN mrs |-> MatchesOf(mrs[i])]
             t == [i \in DOMAIN more |-> MatchesOf(more[i])]
  <2>1. s \in [1..n -> Seq(Nat)] /\ t \in [1..(n + 1) -> Seq(Nat)]
    BY <1>1, <1>3, RecordLists
  <2>2. t[n + 1] = MatchesOf(mr) /\ \A i \in 1..n : t[i] = s[i]
    BY <1>1, <1>2
  <2> HIDE DEF s, t
  <2>3. Joined(s) \in Seq(Nat) /\ Joined(t) = Joined(s) \o t[n + 1]
    BY <1>4, <2>1, <2>2, Zenon
  <2> QED BY <2>2, <2>3, Zenon DEF ToldIn, s, t
<1>6. AuditIn(mrs) \in Seq(Entry) /\ AuditIn(more) = AuditIn(mrs) \o MessagesOf(mr)
  <2> DEFINE s == [i \in DOMAIN mrs |-> MessagesOf(mrs[i])]
             t == [i \in DOMAIN more |-> MessagesOf(more[i])]
  <2>1. s \in [1..n -> Seq(Entry)] /\ t \in [1..(n + 1) -> Seq(Entry)]
    BY <1>1, <1>3, RecordLists
  <2>2. t[n + 1] = MessagesOf(mr) /\ \A i \in 1..n : t[i] = s[i]
    BY <1>1, <1>2
  <2> HIDE DEF s, t
  <2>3. Joined(s) \in Seq(Entry) /\ Joined(t) = Joined(s) \o t[n + 1]
    BY <1>4, <2>1, <2>2, Zenon
  <2> QED BY <2>2, <2>3, Zenon DEF AuditIn, s, t
<1>7. LinesIn(mrs) \in Seq(Nat) /\ LinesIn(more) = LinesIn(mrs) \o LinesOf(mr)
  <2> DEFINE s == [i \in DOMAIN mrs |-> LinesOf(mrs[i])]
             t == [i \in DOMAIN more |-> LinesOf(more[i])]
  <2>1. s \in [1..n -> Seq(Nat)] /\ t \in [1..(n + 1) -> Seq(Nat)]
    BY <1>1, <1>3, RecordLists
  <2>2. t[n + 1] = LinesOf(mr) /\ \A i \in 1..n : t[i] = s[i]
    BY <1>1, <1>2
  <2> HIDE DEF s, t
  <2>3. Joined(s) \in Seq(Nat) /\ Joined(t) = Joined(s) \o t[n + 1]
    BY <1>4, <2>1, <2>2, Zenon
  <2> QED BY <2>2, <2>3, Zenon DEF LinesIn, s, t
<1> QED BY <1>5, <1>6, <1>7 DEF more
-----------------------------------------------------------------------------
(* The logs and the order of matches, inductive with IInv. *)
LogInv == Ascending(matches) /\ LogsRecorded

(* The logs are empty at first (newTransactionWithID). *)
LEMMA InitLogs ==
  ASSUME Init
  PROVE  LogInv
<1>1. matches = <<>> /\ matchedRules = <<>> /\ errorLog = <<>> /\ DOMAIN matches = {} /\ DOMAIN matchedRules = {}
  BY DEF Init
<1>3. ToldIn(matchedRules) = <<>> /\ AuditIn(matchedRules) = <<>> /\ LinesIn(matchedRules) = <<>>
  <2>1. /\ [i \in DOMAIN matchedRules |-> MatchesOf(matchedRules[i])] = <<>>
        /\ [i \in DOMAIN matchedRules |-> MessagesOf(matchedRules[i])] = <<>>
        /\ [i \in DOMAIN matchedRules |-> LinesOf(matchedRules[i])] = <<>>
    BY <1>1
  <2> QED BY <2>1, JoinedEmpty DEF ToldIn, AuditIn, LinesIn
<1>4. RecordedIn(matches, matchedRules) = {} /\ Ascending(matches)
  BY <1>1 DEF RecordedIn, Ascending
<1>5. InOrder(ToldIn(matchedRules), RecordedIn(matches, matchedRules))
  BY <1>3, <1>4 DEF InOrder
<1>6. AuditAgrees(matches, matchedRules)
  BY <1>3 DEF AuditAgrees
<1> QED BY <1>1, <1>3, <1>4, <1>5, <1>6, LogsRecordedParts DEF LogInv

(* A match is the latest, and it is in no log before its rule is recorded    *)
(* (Rule.doEvaluate).                                                        *)
LEMMA MatchLogs ==
  ASSUME IInv, LogInv, NEW groups \in 0..Groups, Match(groups)
  PROVE  LogInv'
<1> DEFINE e == MatchOf
           more == Append(matches, e)
           mrs == matchedRules
<1>1. link > 0 /\ UNCHANGED <<matchedRules, errorLog>> /\ matches' = more
  BY Zenon DEF Match, logVars, MatchOf, SaysAt
<1>2. TypeOK /\ matches \in Seq(Match_) /\ rules \in Nat
  BY DEF IInv, TypeOK
<1>3. e \in Match_ /\ e.serial = rules
  BY <1>1, <1>2, MatchAdds
<1>4. /\ Len(matches) + 1 \in DOMAIN more /\ more[Len(matches) + 1] = e
      /\ DOMAIN more = DOMAIN matches \union {Len(matches) + 1}
      /\ \A i \in DOMAIN matches : more[i] = matches[i] /\ i \in Nat /\ i < Len(matches) + 1
  <2>1. DOMAIN more = DOMAIN matches \union {Len(matches) + 1}
    <3> DEFINE n == Len(matches)
    <3>1. n \in Nat /\ DOMAIN matches = 1..n /\ DOMAIN more = 1..(n + 1)
      BY <1>2, <1>3, AppendProperties, LenProperties
    <3> HIDE DEF n, more
    <3>2. 1..(n + 1) = 1..n \union {n + 1}
      BY <3>1
    <3> QED BY <3>1, <3>2 DEF n
  <2> QED BY <1>2, <1>3, <2>1, AppendOf
<1> HIDE DEF more, e
<1>5. \A i \in DOMAIN matches : matches[i].serial \in Nat /\ matches[i].serial <= rules
  <2>1. \A i \in DOMAIN matches : matches[i] \in Match_
    BY <1>2, LenProperties, ElementOfSeq
  <2> QED BY <2>1 DEF Match_, IInv, SerialInv
<1>6. Ascending(more)
  <2> SUFFICES ASSUME NEW i \in DOMAIN more, NEW j \in DOMAIN more, i < j
               PROVE  more[i].serial <= more[j].serial
    BY DEF Ascending
  <2>1. CASE i \in DOMAIN matches /\ j \in DOMAIN matches
    BY <1>4, <2>1 DEF LogInv, Ascending
  <2>2. CASE i \in DOMAIN matches /\ j = Len(matches) + 1
    BY <1>3, <1>4, <1>5, <2>2
  <2>3. CASE i = Len(matches) + 1
    <3> DEFINE n == Len(matches)
    <3>1. n \in Nat /\ (j = n + 1 \/ (j \in Nat /\ j < n + 1))
      BY <1>2, <1>4, LenProperties
    <3>2. i = n + 1
      BY <2>3
    <3> HIDE DEF n
    <3> QED BY <3>1, <3>2
  <2> QED BY <1>4, <2>1, <2>2, <2>3
<1>7. \A i \in DOMAIN mrs : mrs[i].serial # rules
  <2>1. \A i \in DOMAIN mrs : mrs[i] \in Recorded
    BY LenProperties, ElementOfSeq, Zenon DEF IInv, TypeOK
  <2>2. \A i \in DOMAIN mrs : mrs[i].serial \in Nat /\ mrs[i].serial < rules
    BY <1>1, <2>1 DEF Recorded, IInv, SerialInv
  <2> QED BY <1>2, <2>2
<1>8. RecordedIn(more, mrs) = RecordedIn(matches, mrs)
  BY <1>3, <1>4, <1>7, Zenon DEF RecordedIn
<1>9. /\ InOrder(ToldIn(mrs), RecordedIn(matches, mrs)) /\ AuditAgrees(matches, mrs)
      /\ errorLog = LinesIn(mrs)
  BY LogsRecordedParts DEF LogInv
<1>10. AuditAgrees(more, mrs)
  <2>1. \A k \in DOMAIN ToldIn(mrs) : ToldIn(mrs)[k] \in DOMAIN matches
    BY <1>9 DEF InOrder, RecordedIn
  <2>2. \A k \in DOMAIN ToldIn(mrs) : EntryIn(more, ToldIn(mrs)[k]) = EntryIn(matches, ToldIn(mrs)[k])
    BY <1>4, <2>1, Zenon DEF EntryIn
  <2> QED BY <1>9, <2>2 DEF AuditAgrees
<1> QED BY <1>1, <1>6, <1>8, <1>9, <1>10, LogsRecordedNext DEF LogInv

(* A rule is recorded: its matches, which are later than all recorded ones,  *)
(* its entries and its lines are at the end of the logs                      *)
(* (Transaction.MatchRule).                                                  *)
LEMMA MatchRuleLogs ==
  ASSUME IInv, LogInv, link > 0, hit, link = Len(rule), MatchRule(rule, matchedValues), UNCHANGED matches
  PROVE  LogInv'
<1> DEFINE first == FirstMessage(matchedValues)
           mr == [rule |-> rule, serial |-> rules, datas |-> matchedValues, message |-> first]
           mrs == matchedRules
           more == Append(mrs, mr)
           told == ToldIn(mrs)
           S == RecordedIn(matches, mrs)
           T == OfIn(matches, rules)
<1>1. mr \in Recorded /\ RecordOK(mr, matches)
  BY NewRecord
<1>2. /\ matchedRules' = more
      /\ errorLog' = IF rule[1].log THEN errorLog \o ErrorLog(mr) ELSE errorLog
  BY DEF MatchRule
<1>3. mr.serial = rules /\ mr.rule = rule /\ mr.datas = matchedValues /\ mr.message = first
  OBVIOUS
<1> HIDE DEF mr
<1>4. /\ mrs \in Seq(Recorded) /\ rules \in Nat /\ matches \in Seq(Match_) /\ matchedVars \in Seq(Nat)
      /\ matchedValues \in Seq(Data)
  BY DEF IInv, TypeOK
<1>5. /\ InOrder(told, S) /\ AuditAgrees(matches, mrs) /\ errorLog = LinesIn(mrs)
      /\ Ascending(matches)
  BY LogsRecordedParts DEF LogInv
<1>6. /\ told \in Seq(Nat) /\ AuditIn(mrs) \in Seq(Entry) /\ LinesIn(mrs) \in Seq(Nat)
      /\ ToldIn(more) = told \o MatchesOf(mr)
      /\ AuditIn(more) = AuditIn(mrs) \o MessagesOf(mr)
      /\ LinesIn(more) = LinesIn(mrs) \o LinesOf(mr)
  BY <1>1, <1>4, RecordAdds, Zenon
<1>7. MatchesOf(mr) \in Seq(Nat) /\ MessagesOf(mr) \in Seq(Entry) /\ LinesOf(mr) \in Seq(Nat)
  BY <1>1, RecordLists
<1>8. InOrder(MatchesOf(mr), T)
  BY <1>1, <1>3 DEF RecordOK, MatchesOf
<1>9. RecordedIn(matches, more) = S \union T
  <2> DEFINE n == Len(mrs)
  <2>1. /\ n \in Nat /\ DOMAIN mrs = 1..n /\ DOMAIN more = 1..(n + 1) /\ more[n + 1] = mr
        /\ \A i \in 1..n : more[i] = mrs[i]
    BY <1>1, <1>4, AppendProperties, LenProperties
  <2> HIDE DEF n, more, mrs
  <2>2. /\ \A i \in 1..(n + 1) : i \in 1..n \/ i = n + 1
        /\ n + 1 \in 1..(n + 1) /\ \A i \in 1..n : i \in 1..(n + 1)
    BY <2>1
  <2> QED BY <1>3, <2>1, <2>2, Zenon DEF RecordedIn, OfIn
<1>10. ASSUME NEW x \in S, NEW y \in T PROVE x < y
  <2>1. /\ x \in DOMAIN matches /\ y \in DOMAIN matches /\ x \in Nat /\ y \in Nat
        /\ matches[y].serial = rules
    BY <1>4, LenProperties DEF RecordedIn, OfIn
  <2>2. PICK i \in DOMAIN mrs : mrs[i].serial = matches[x].serial
    BY DEF RecordedIn
  <2>3. mrs[i].serial \in Nat /\ mrs[i].serial < rules
    <3>1. mrs[i] \in Recorded
      BY <1>4, LenProperties, ElementOfSeq
    <3> QED BY <3>1 DEF Recorded, IInv, SerialInv
  <2>4. ~(y < x)
    <3>1. y < x => matches[y].serial <= matches[x].serial
      BY <1>5, <2>1, Zenon DEF Ascending
    <3> QED BY <1>4, <2>1, <2>2, <2>3, <3>1
  <2>5. x # y
    BY <1>4, <2>1, <2>2, <2>3
  <2> QED BY <2>1, <2>4, <2>5
<1>11. InOrder(ToldIn(more), RecordedIn(matches, more))
  <2> HIDE DEF told, S, T, more
  <2>1. InOrder(told \o MatchesOf(mr), S \union T)
    BY <1>5, <1>6, <1>7, <1>8, <1>10, ConcatInOrder, Zenon
  <2> QED BY <1>6, <1>9, <2>1, Zenon
<1>12. AuditAgrees(matches, more)
  <2> DEFINE E == [m \in Nat |-> EntryIn(matches, m)]
  <2>1. \A s \in Seq(Nat) : \A k \in DOMAIN s : E[s[k]] = EntryIn(matches, s[k])
    BY LenProperties, ElementOfSeq
  <2>2. AuditIn(mrs) = [k \in DOMAIN told |-> E[told[k]]]
    BY <1>5, <1>6, <2>1 DEF AuditAgrees
  <2>3. MessagesOf(mr) = [k \in DOMAIN MatchesOf(mr) |-> E[MatchesOf(mr)[k]]]
    <3>1. \A k \in DOMAIN matchedValues :
             matchedValues[k].message =
                IF matches[matchedValues[k].match].says THEN matchedValues[k].match ELSE 0
      BY Zenon DEF IInv, ValuesInv
    <3>2. \A k \in DOMAIN matchedValues : MatchesOf(mr)[k] = matchedValues[k].match
      BY <1>3 DEF MatchesOf
    <3>3. \A k \in DOMAIN matchedValues : matches[matchedValues[k].match].serial = rules
      <4>1. \A k \in DOMAIN MatchesOf(mr) : MatchesOf(mr)[k] \in T
        BY <1>8 DEF InOrder
      <4>2. DOMAIN MatchesOf(mr) = DOMAIN matchedValues
        BY <1>1, <1>3, RecordLists
      <4> QED BY <3>2, <4>1, <4>2 DEF OfIn
    <3>4. \A k \in DOMAIN matchedValues :
             EntryIn(matches, MatchesOf(mr)[k]) = [serial |-> rules, message |-> matchedValues[k].message]
      BY <3>1, <3>2, <3>3, Zenon DEF EntryIn
    <3>5. DOMAIN MatchesOf(mr) = DOMAIN matchedValues
      BY <1>1, <1>3, RecordLists
    <3>6. \A k \in DOMAIN matchedValues :
             E[MatchesOf(mr)[k]] = [serial |-> rules, message |-> matchedValues[k].message]
      BY <1>7, <2>1, <3>4, <3>5, Zenon
    <3>7. MessagesOf(mr) = [k \in DOMAIN matchedValues |-> [serial |-> rules, message |-> matchedValues[k].message]]
      BY <1>3 DEF MessagesOf
    <3> HIDE DEF E
    <3> QED BY <3>5, <3>6, <3>7
  <2> HIDE DEF E, told, more
  <2> DEFINE t == told \o MatchesOf(mr)
  <2>4. AuditIn(mrs) \o MessagesOf(mr) = [k \in DOMAIN t |-> E[t[k]]]
    <3>1. EntriesOf(AuditIn(mrs), E, told) /\ EntriesOf(MessagesOf(mr), E, MatchesOf(mr))
      BY <2>2, <2>3 DEF EntriesOf
    <3>2. EntriesOf(AuditIn(mrs) \o MessagesOf(mr), E, told \o MatchesOf(mr))
      BY <1>6, <1>7, <3>1, ConcatEntries, Zenon
    <3> QED BY <3>2, Zenon DEF EntriesOf
  <2>5. t \in Seq(Nat)
    BY <1>6, <1>7, ConcatProperties
  <2>6. \A k \in DOMAIN t : E[t[k]] = EntryIn(matches, t[k])
    BY <2>1, <2>5, Zenon
  <2> HIDE DEF t
  <2>7. AuditIn(more) = [k \in DOMAIN t |-> EntryIn(matches, t[k])]
    BY <1>6, <2>4, <2>6
  <2>8. ToldIn(more) = t
    BY <1>6 DEF t
  <2> QED BY <2>7, <2>8, Zenon DEF AuditAgrees
<1>13. errorLog' = LinesIn(more)
  <2> HIDE DEF more, first
  <2>1. CASE rule[1].log
    <3>1. LinesOf(mr) = ErrorLog(mr)
      BY <1>3, <2>1, Zenon DEF LinesOf, ErrorLog, first
    <3> QED BY <1>2, <1>5, <1>6, <2>1, <3>1, Zenon
  <2>2. CASE ~rule[1].log
    <3>1. LinesOf(mr) = <<>>
      BY <1>3, <2>2 DEF LinesOf
    <3>2. LinesIn(mrs) \o <<>> = LinesIn(mrs)
      BY <1>6, ConcatEmptySeq
    <3> QED BY <1>2, <1>5, <1>6, <2>2, <3>1, <3>2, Zenon
  <2> QED BY <2>1, <2>2
<1> HIDE DEF more, mrs
<1>14. Ascending(matches')
  BY <1>5
<1>15. matches' = matches
  OBVIOUS
<1> QED BY <1>2, <1>11, <1>12, <1>13, <1>14, <1>15, LogsRecordedNext, Zenon DEF LogInv

(* Every step of the evaluation keeps the logs (RuleGroup.Eval). *)
LEMMA StepLogs ==
  ASSUME IInv, LogInv, [Next]_vars
  PROVE  LogInv'
<1>1. ASSUME UNCHANGED <<matches, matchedRules, errorLog>> PROVE LogInv'
  BY <1>1, LogsRecordedParts, LogsRecordedNext DEF LogInv
<1>2. CASE \E r \in Rules : StartRule(r)
  BY <1>1, <1>2 DEF StartRule, logVars
<1>3. CASE \E groups \in 0..Groups : Match(groups)
  BY <1>3, MatchLogs
<1>4. CASE NextLink
  BY <1>1, <1>4 DEF NextLink, logVars, historyVars
<1>5. CASE EndOfRule
  <2>1. link > 0 /\ (hit => link = Len(rule)) /\ matches' = matches
    BY <1>5 DEF EndOfRule, historyVars
  <2>2. \/ hit /\ MatchRule(rule, matchedValues)
        \/ UNCHANGED <<matchedRules, errorLog>>
    BY <1>5, Zenon DEF EndOfRule, logVars
  <2>3. CASE hit /\ MatchRule(rule, matchedValues)
    BY <2>1, <2>3, MatchRuleLogs
  <2>4. CASE UNCHANGED <<matchedRules, errorLog>>
    BY <1>1, <2>1, <2>4
  <2> QED BY <2>2, <2>3, <2>4
<1>6. CASE UNCHANGED vars
  BY <1>1, <1>6 DEF vars, logVars, historyVars
<1> QED BY <1>2, <1>3, <1>4, <1>5, <1>6 DEF Next
-----------------------------------------------------------------------------
(* For every rule list, every chain and every number of matches: while a     *)
(* rule is evaluated, MATCHED_VARS holds its matches in order and no others, *)
(* and a capture stands only because a link of the rule asked for it.        *)
THEOREM MatchedVarsCorrect == Spec => []MatchedVarsOfRule
<1>1. IInv => MatchedVarsOfRule
  BY DEF IInv, ValuesInv, CaptureInv, MatchedVarsOfRule
<1> QED BY <1>1, Invariance, PTL

(* A variable that setvar only adds to is the sum of all that was added, for *)
(* every sequence of operands (setvarFn.evaluateTxCollection).               *)
THEOREM ScoreCorrect == Spec => []ScoreIsSum
<1>1. IInv => ScoreIsSum
  BY DEF IInv, ScoreInv, ScoreIsSum
<1> QED BY <1>1, Invariance, PTL

(* A rule is recorded once, only with its whole chain, with exactly the      *)
(* values of its own evaluation and with the first message among them;       *)
(* HIGHEST_SEVERITY is the largest of the records; the audit record has an   *)
(* entry for each match of a recorded rule, in the order of the matches, and *)
(* the error log a line for each of those whose rule logs                    *)
(* (Transaction.MatchRule, Transaction.AuditLog).                            *)
THEOREM RecordsCorrect == Spec => []MatchesRecorded
<1>1. Init => LogInv
  BY InitLogs
<1>2. IInv /\ LogInv /\ [Next]_vars => LogInv'
  BY StepLogs
<1>3. IInv /\ LogInv => MatchesRecorded
  BY DEF IInv, LogInv, MatchesRecorded
<1> QED BY <1>1, <1>2, <1>3, Invariance, PTL DEF Spec
=============================================================================
