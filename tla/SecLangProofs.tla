---------------------------- MODULE SecLangProofs ----------------------------
(***************************************************************************)
(* The reading of a configuration, for directives, files and lists of any  *)
(* number: no rule is lost, the chains are those of the text, a removal    *)
(* takes what it names, and a path is looked up where it stands.           *)
(***************************************************************************)
EXTENDS SecLang, SequenceTheorems, WellFoundedInduction, TLAPS

Frame == [lastDir : Seq(STRING), dir : Seq(STRING), rest : Seq(Seq(STRING))]

(* The directory of the file that is read. *)
DirOf(calls) == IF calls = <<>> THEN <<>> ELSE calls[1].dir

(* Every call of FromFile will restore the directory of its caller. *)
Nested(calls) ==
    \A i \in DOMAIN calls : calls[i].lastDir = IF i = Len(calls) THEN <<>> ELSE calls[i + 1].dir

StackInv == Nested(stack) /\ (status = "reading" => currentDir = DirOf(stack))

(* No two rules of a list have the same id, unless they have none. *)
UniqueIDs(rules) ==
    \A i, j \in DOMAIN rules : rules[i].id = rules[j].id /\ rules[i].id # 0 => i = j

(* A list in the order of the text. *)
Ordered(rules) == \A i, j \in DOMAIN rules : i < j => rules[i].serial < rules[j].serial

(* The last directive of a chain. *)
End(r) == r.serial + Len(r.chain)

(* A rule and its chain are directives that follow each other, each one     *)
(* announced by the one before; the last one announces nothing, unless it   *)
(* is the last directive read or a marker cuts the chain off.               *)
ChainOK(r) ==
    /\ \A k \in DOMAIN r.chain : r.chain[k] = r.serial + k /\ (r.serial + k - 1) \in announced
    /\ ~r.marker /\ (r.serial - 1) \in announced => (r.serial - 1) \in gone
    /\ End(r) <= serial
    /\ r.HasChain <=> End(r) \in announced
    /\ r.HasChain /\ status = "reading" =>
          End(r) = serial \/ \E q \in Range(Rules) : q.marker /\ q.serial = End(r) + 1

(* Chains do not overlap. *)
Apart(rules) == \A i, j \in DOMAIN rules : i < j => End(rules[i]) < rules[j].serial

ChainsInv == ~lenient => Apart(Rules) /\ \A r \in Range(Rules) : ChainOK(r)

ListInv == UniqueIDs(Rules) /\ NothingLost /\ ChainsInv

(* The inductive invariant. *)
IInv == palette \in Palettes /\ TypeOK /\ StackInv /\ ListInv
-----------------------------------------------------------------------------
(* A set of numbers has a least one: the lemmas about loops are by          *)
(* induction on the turn (RuleGroup.DeleteByID).                            *)
LEMMA NatMin ==
  ASSUME NEW T, T \subseteq Nat, T # {}
  PROVE  \E x \in T : \A y \in T : x <= y
<1> DEFINE R == {ss \in Nat \X Nat : ss[1] < ss[2]}
<1>1. IsWellFoundedOn(R, Nat)
  BY NatLessThanWellFounded DEF OpToRel
<1>2. \E x \in T : \A y \in T : ~ (<<y, x>> \in R)
  <2> HIDE DEF R
  <2> QED BY <1>1, WFMin, Zenon
<1>3. PICK x \in T : \A y \in T : ~ (<<y, x>> \in R)
  BY <1>2
<1>4. ASSUME NEW y \in T PROVE x <= y
  <2>1. <<y, x>> \notin R
    BY <1>3
  <2>2. y \in Nat /\ x \in Nat
    OBVIOUS
  <2> QED BY <2>1, <2>2
<1> QED BY <1>4

(* The values f[0], ..., f[n] of a loop over 1..n that begins with base. *)
IsLoop(f, S, base, n, step) ==
    f \in [0..n -> S] /\ f[0] = base /\ \A i \in 1..n : f[i] = step[<<f[i - 1], i>>]

(* A loop over 1..n that changes a value of S has its sequence of values    *)
(* (the loops of RuleGroup.DeleteByID and directiveSecRuleRemoveByTag).     *)
LEMMA LoopExists ==
  ASSUME NEW S, NEW base \in S, NEW n \in Nat, NEW step \in [S \X (1..n) -> S]
  PROVE  \E f : IsLoop(f, S, base, n, step)
<1> DEFINE P(m) == \E f \in [0..m -> S] : f[0] = base /\ \A i \in 1..m : f[i] = step[<<f[i - 1], i>>]
           T == {m \in 0..n : ~P(m)}
<1>1. P(0)
  <2>1. [i \in 0..0 |-> base] \in [0..0 -> S] /\ [i \in 0..0 |-> base][0] = base /\ 1..0 = {}
    OBVIOUS
  <2> QED BY <2>1, Zenon
<1>2. ASSUME NEW m \in 1..n, P(m - 1) PROVE P(m)
  <2>1. PICK g \in [0..(m - 1) -> S] :
               g[0] = base /\ \A i \in 1..(m - 1) : g[i] = step[<<g[i - 1], i>>]
    BY <1>2
  <2> DEFINE v == step[<<g[m - 1], m>>]
             f == [i \in 0..m |-> IF i = m THEN v ELSE g[i]]
  <2>2. g[m - 1] \in S /\ <<g[m - 1], m>> \in S \X (1..n)
    OBVIOUS
  <2>3. v \in S
    BY <2>2
  <2> HIDE DEF v
  <2>4. f \in [0..m -> S] /\ f[m] = v /\ \A i \in 0..(m - 1) : f[i] = g[i]
    BY <2>3
  <2> HIDE DEF f
  <2>5. f[0] = base
    BY <2>1, <2>4
  <2>6. ASSUME NEW i \in 1..m PROVE f[i] = step[<<f[i - 1], i>>]
    <3>1. f[i - 1] = g[i - 1]
      BY <2>4
    <3>2. CASE i = m
      BY <2>4, <3>1, <3>2 DEF v
    <3>3. CASE i \in 1..(m - 1)
      BY <2>1, <2>4, <3>1, <3>3
    <3> QED BY <3>2, <3>3
  <2> QED BY <2>4, <2>5, <2>6
<1> HIDE DEF P
<1>3. T = {}
  <2> SUFFICES ASSUME T # {} PROVE FALSE
    OBVIOUS
  <2>0. T \subseteq Nat
    OBVIOUS
  <2>1. PICK x \in T : \A y \in T : x <= y
    <3> HIDE DEF T
    <3> QED BY <2>0, NatMin, Zenon
  <2>2. x \in 1..n /\ x - 1 \in 0..n /\ x - 1 \notin T
    BY <1>1, <2>1
  <2> QED BY <1>2, <2>1, <2>2
<1>4. P(n)
  BY <1>3
<1> QED BY <1>4 DEF P, IsLoop

(* The list without its rule at place i. *)
LEMMA RemoveAtProperties ==
  ASSUME NEW S, NEW s \in Seq(S), NEW i \in 1..Len(s)
  PROVE  /\ RemoveAt(s, i) \in Seq(S) /\ Len(RemoveAt(s, i)) = Len(s) - 1
         /\ \A k \in 1..(Len(s) - 1) : RemoveAt(s, i)[k] = IF k < i THEN s[k] ELSE s[k + 1]
<1> DEFINE a == SubSeq(s, 1, i - 1)
           b == SubSeq(s, i + 1, Len(s))
           n == Len(s)
<1>1. n \in Nat /\ i \in 1..n
  OBVIOUS
<1>2. a \in Seq(S) /\ Len(a) = i - 1 /\ \A k \in 1..(i - 1) : a[k] = s[k]
  BY <1>1, SubSeqProperties
<1>3. b \in Seq(S) /\ Len(b) = n - i /\ \A k \in 1..(n - i) : b[k] = s[i + k]
  <2>1. \A j \in (i + 1)..n : s[j] \in S
    OBVIOUS
  <2>2. n - (i + 1) + 1 = n - i /\ (i + 1 <= n \/ n - i = 0)
    BY <1>1
  <2> HIDE DEF n
  <2>3. /\ SubSeq(s, i + 1, n) \in Seq(S)
        /\ Len(SubSeq(s, i + 1, n)) = IF i + 1 <= n THEN n - (i + 1) + 1 ELSE 0
        /\ \A k \in 1..(n - (i + 1) + 1) : SubSeq(s, i + 1, n)[k] = s[i + 1 + k - 1]
    BY <1>1, <2>1, SubSeqProperties
  <2>4. \A k \in 1..(n - i) : i + 1 + k - 1 = i + k
    BY <1>1
  <2> QED BY <1>1, <2>2, <2>3, <2>4, Zenon DEF n
<1>4. RemoveAt(s, i) = a \o b
  BY DEF RemoveAt
<1> HIDE DEF a, b, n
<1>5. a \o b \in Seq(S) /\ Len(a \o b) = n - 1
  <2>1. a \o b \in Seq(S) /\ Len(a \o b) = Len(a) + Len(b)
    BY <1>2, <1>3, ConcatProperties, Zenon
  <2> QED BY <1>1, <1>2, <1>3, <2>1
<1>6. ASSUME NEW k \in 1..(n - 1) PROVE (a \o b)[k] = IF k < i THEN s[k] ELSE s[k + 1]
  <2>1. CASE k < i
    <3>1. k \in 1..(i - 1) /\ k <= Len(a) /\ k \in 1..(Len(a) + Len(b))
      BY <1>1, <1>2, <1>3, <2>1
    <3> QED BY <1>2, <1>3, <2>1, <3>1, ConcatProperties
  <2>2. CASE ~(k < i)
    <3>1. /\ k - Len(a) \in 1..(n - i) /\ i + (k - Len(a)) = k + 1 /\ ~(k <= Len(a))
          /\ k \in 1..(Len(a) + Len(b))
      BY <1>1, <1>2, <1>3, <2>2
    <3>2. (a \o b)[k] = b[k - Len(a)]
      BY <1>2, <1>3, <3>1, ConcatProperties
    <3> QED BY <1>3, <2>2, <3>1, <3>2, Zenon
  <2> QED BY <2>1, <2>2, Zenon
<1> QED BY <1>4, <1>5, <1>6 DEF n

(* The turns of DeleteByID. *)
DeleteStep(list, i, id) == IF i <= Len(list) /\ list[i].id = id THEN RemoveAt(list, i) ELSE list

Deletes(left, S, rules, id) ==
    /\ left \in [0..Len(rules) -> Seq(S)]
    /\ left[0] = rules /\ DeleteByID(rules, id) = left[Len(rules)]
    /\ \A i \in 1..Len(rules) : left[i] = DeleteStep(left[i - 1], i, id)

(* DeleteByID is its loop. *)
LEMMA DeleteLoop ==
  ASSUME NEW S, NEW rules \in Seq(S), NEW id
  PROVE  \E left : Deletes(left, S, rules, id)
<1> DEFINE n == Len(rules)
           V == Seq(S)
           Turn(f, i) == IF i = 0 THEN rules
                         ELSE IF i <= Len(f[i - 1]) /\ f[i - 1][i].id = id THEN RemoveAt(f[i - 1], i)
                         ELSE f[i - 1]
           Loop(f) == f = [i \in 0..n |-> Turn(f, i)]
           step == [p \in V \X (1..n) |-> DeleteStep(p[1], p[2], id)]
           h == CHOOSE f : Loop(f)
<1>1. n \in Nat /\ rules \in V
  OBVIOUS
<1>2. DeleteByID(rules, id) = h[n]
  BY DEF DeleteByID
<1>3. ASSUME NEW list \in V, NEW i \in 1..n PROVE DeleteStep(list, i, id) \in V
  BY RemoveAtProperties DEF DeleteStep
<1> HIDE DEF n, V
<1>4. step \in [V \X (1..n) -> V]
  BY <1>3
<1>5. ASSUME NEW list \in V, NEW i \in 1..n PROVE step[<<list, i>>] = DeleteStep(list, i, id)
  OBVIOUS
<1> HIDE DEF step
<1>6. PICK g : IsLoop(g, V, rules, n, step)
  BY <1>1, <1>4, LoopExists, Zenon
<1>7. g \in [0..n -> V] /\ g[0] = rules
  BY <1>6 DEF IsLoop
<1>8. ASSUME NEW i \in 1..n PROVE g[i] = DeleteStep(g[i - 1], i, id)
  <2>1. i - 1 \in 0..n
    BY <1>1
  <2>2. g[i - 1] \in V
    BY <1>7, <2>1
  <2>3. g[i] = step[<<g[i - 1], i>>]
    BY <1>6 DEF IsLoop
  <2> QED BY <1>5, <2>2, <2>3, Zenon
<1>9. \A f, i : i \in 1..n => Turn(f, i) = DeleteStep(f[i - 1], i, id)
  BY <1>1 DEF DeleteStep
<1>10. \A f : Turn(f, 0) = rules
  OBVIOUS
<1> HIDE DEF Turn
<1>11. Loop(g)
  <2>1. ASSUME NEW i \in 0..n PROVE g[i] = Turn(g, i)
    <3>1. i = 0 \/ i \in 1..n
      BY <1>1
    <3>2. CASE i = 0
      BY <1>7, <1>10, <3>2
    <3>3. CASE i \in 1..n
      BY <1>8, <1>9, <3>3, Zenon
    <3> QED BY <3>1, <3>2, <3>3
  <2> QED BY <1>7, <2>1
<1>12. Loop(h)
  <2> HIDE DEF Loop
  <2> QED BY <1>11, Zenon
<1>13. h = g
  <2> HIDE DEF h
  <2>1. \A i \in 0..n : h[i] = Turn(h, i)
    BY <1>12, Zenon
  <2> DEFINE T == {i \in 0..n : h[i] # g[i]}
  <2>2. T \subseteq Nat
    BY <1>1
  <2>3. ASSUME T # {} PROVE FALSE
    <3>1. PICK x \in T : \A y \in T : x <= y
      <4> HIDE DEF T
      <4> QED BY <2>2, <2>3, NatMin, Zenon
    <3>2. x \in 1..n
      BY <1>1, <1>7, <1>10, <2>1, <3>1
    <3>3. x - 1 \in 0..n /\ x - 1 \notin T
      BY <1>1, <3>1, <3>2
    <3>4. h[x] = DeleteStep(h[x - 1], x, id)
      BY <1>1, <1>9, <2>1, <3>2
    <3>5. h[x] = g[x]
      BY <1>8, <3>2, <3>3, <3>4
    <3> QED BY <3>1, <3>5
  <2>4. \A i \in 0..n : h[i] = g[i]
    BY <2>3
  <2>5. h = [i \in 0..n |-> h[i]]
    BY <1>12
  <2> QED BY <1>7, <2>4, <2>5
<1>14. DeleteByID(rules, id) = g[n]
  BY <1>2, <1>13, Zenon
<1>15. Deletes(g, S, rules, id)
  BY <1>7, <1>8, <1>14 DEF n, V, Deletes
<1> QED BY <1>15

(* Some rules of a list, in its order. *)
Part(new, old) == new \in Seq(RuleType) /\ Range(new) \subseteq Range(old) /\ Ordered(new)

(* What is in a list. *)
LEMMA RangeIs ==
  ASSUME NEW S, NEW s \in Seq(S)
  PROVE  Range(s) = {s[i] : i \in 1..Len(s)} /\ Range(s) \subseteq S
<1>1. DOMAIN s = 1..Len(s) /\ \A i \in 1..Len(s) : s[i] \in S
  OBVIOUS
<1> QED BY <1>1, Zenon DEF Range

(* The fields of a rule. *)
LEMMA RuleFields ==
  ASSUME NEW r \in RuleType
  PROVE  r.id \in Nat /\ r.serial \in Nat /\ r.chain \in Seq(Nat)
  BY DEF RuleType

(* One turn of DeleteByID keeps the other rules and their order. *)
LEMMA DeleteStepPart ==
  ASSUME NEW list \in Seq(RuleType), Ordered(list), NEW i \in Nat \ {0}, NEW id
  PROVE  Part(DeleteStep(list, i, id), list)
<1> DEFINE n == Len(list)
           new == RemoveAt(list, i)
<1>0. n \in Nat /\ DOMAIN list = 1..n
  OBVIOUS
<1>1. CASE i <= n /\ list[i].id = id
  <2>1. i \in 1..n
    BY <1>0, <1>1
  <2>2. /\ new \in Seq(RuleType) /\ Len(new) = n - 1
        /\ \A k \in 1..(n - 1) : new[k] = IF k < i THEN list[k] ELSE list[k + 1]
    BY <2>1, RemoveAtProperties
  <2>3. DeleteStep(list, i, id) = new
    BY <1>1 DEF DeleteStep
  <2>4. DOMAIN new = 1..(n - 1)
    BY <1>0, <2>2
  <2> HIDE DEF new, n
  <2>5. \A k \in 1..(n - 1) : k \in 1..n /\ k + 1 \in 1..n
    BY <1>0
  <2>6. Range(new) \subseteq Range(list)
    BY <1>0, <2>2, <2>4, <2>5 DEF Range
  <2>7. Ordered(new)
    <3> SUFFICES ASSUME NEW a \in 1..(n - 1), NEW b \in 1..(n - 1), a < b
                 PROVE  new[a].serial < new[b].serial
      BY <2>4 DEF Ordered
    <3> DEFINE A == IF a < i THEN a ELSE a + 1
               C == IF b < i THEN b ELSE b + 1
    <3>1. A \in 1..n /\ C \in 1..n /\ A < C
      BY <1>0, <2>1
    <3>2. new[a] = list[A] /\ new[b] = list[C]
      BY <2>2
    <3> HIDE DEF A, C
    <3> QED BY <1>0, <3>1, <3>2 DEF Ordered
  <2> QED BY <2>2, <2>3, <2>6, <2>7 DEF Part
<1>2. CASE ~(i <= n /\ list[i].id = id)
  <2>1. DeleteStep(list, i, id) = list
    BY <1>2 DEF DeleteStep
  <2> QED BY <2>1 DEF Part
<1> QED BY <1>1, <1>2

(* A part of a part is a part. *)
LEMMA PartTransitive ==
  ASSUME NEW a, NEW b, NEW c, Part(a, b), Part(b, c)
  PROVE  Part(a, c)
  BY DEF Part

(* A part of a list with unique ids has unique ids. *)
LEMMA PartUnique ==
  ASSUME NEW old \in Seq(RuleType), NEW new, Part(new, old), UniqueIDs(old), Ordered(old)
  PROVE  UniqueIDs(new)
<1> SUFFICES ASSUME NEW i \in DOMAIN new, NEW j \in DOMAIN new,
                    new[i].id = new[j].id, new[i].id # 0, i # j
             PROVE  FALSE
  BY DEF UniqueIDs
<1>1. new \in Seq(RuleType) /\ Range(new) \subseteq Range(old) /\ Ordered(new)
  BY DEF Part
<1>2. new[i] \in Range(old) /\ new[j] \in Range(old)
  BY <1>1, Zenon DEF Range
<1>3. PICK a \in DOMAIN old : new[i] = old[a]
  BY <1>2 DEF Range
<1>4. PICK b \in DOMAIN old : new[j] = old[b]
  BY <1>2 DEF Range
<1>5. new[i] = new[j]
  BY <1>3, <1>4 DEF UniqueIDs
<1>6. DOMAIN new = 1..Len(new) /\ Len(new) \in Nat
  BY <1>1
<1>7. new[i].serial \in Nat /\ i \in Nat /\ j \in Nat
  <2>1. new[i] \in RuleType
    BY <1>1, <1>6
  <2> QED BY <1>6, <2>1, RuleFields
<1>8. i < j \/ j < i
  BY <1>7
<1> QED BY <1>1, <1>5, <1>7, <1>8 DEF Ordered

(* DeleteByID keeps the order of what it leaves, for any id. *)
LEMMA DeletePart ==
  ASSUME NEW rules \in Seq(RuleType), Ordered(rules), NEW id
  PROVE  Part(DeleteByID(rules, id), rules)
<1> DEFINE n == Len(rules)
<1>0. PICK left : Deletes(left, RuleType, rules, id)
  BY DeleteLoop
<1>1. /\ left \in [0..n -> Seq(RuleType)]
      /\ left[0] = rules /\ DeleteByID(rules, id) = left[n]
      /\ \A i \in 1..n : left[i] = DeleteStep(left[i - 1], i, id)
  BY <1>0 DEF Deletes
<1> DEFINE T == {i \in 0..n : ~Part(left[i], rules)}
<1>2. n \in Nat /\ T \subseteq Nat
  OBVIOUS
<1> HIDE DEF n
<1>3. Part(left[0], rules)
  BY <1>1 DEF Part
<1>4. ASSUME NEW i \in 1..n, Part(left[i - 1], rules) PROVE Part(left[i], rules)
  <2>1. left[i - 1] \in Seq(RuleType) /\ Ordered(left[i - 1]) /\ i \in Nat \ {0}
    BY <1>2, <1>4 DEF Part
  <2>2. Part(DeleteStep(left[i - 1], i, id), left[i - 1])
    BY <2>1, DeleteStepPart
  <2> QED BY <1>1, <1>4, <2>2, PartTransitive
<1>5. T = {}
  <2> SUFFICES ASSUME T # {} PROVE FALSE
    OBVIOUS
  <2>1. PICK x \in T : \A y \in T : x <= y
    <3> HIDE DEF T
    <3> QED BY <1>2, NatMin, Zenon
  <2>2. x \in 1..n /\ x - 1 \in 0..n /\ x - 1 \notin T
    BY <1>2, <1>3, <2>1
  <2> QED BY <1>4, <2>1, <2>2
<1>6. Part(left[n], rules)
  <2>1. n \in 0..n
    BY <1>2
  <2> QED BY <1>5, <2>1, Zenon
<1> QED BY <1>1, <1>6

(* Among unique ids, DeleteByID takes the rule with the id and no other. *)
LEMMA DeleteExact ==
  ASSUME NEW rules \in Seq(RuleType), UniqueIDs(rules), NEW id, id # 0
  PROVE  Range(DeleteByID(rules, id)) = {r \in Range(rules) : r.id # id}
<1> DEFINE n == Len(rules)
           Rest == {r \in Range(rules) : r.id # id}
<1>0. PICK left : Deletes(left, RuleType, rules, id)
  BY DeleteLoop
<1>1. /\ left \in [0..n -> Seq(RuleType)]
      /\ left[0] = rules /\ DeleteByID(rules, id) = left[n]
      /\ \A i \in 1..n : left[i] = DeleteStep(left[i - 1], i, id)
  BY <1>0 DEF Deletes
<1> DEFINE Ahead(i) == left[i] = rules /\ \A j \in 1..i : rules[j].id # id
           Q(i) == Ahead(i) \/ Range(left[i]) = Rest
           T == {i \in 0..n : ~Q(i)}
<1>2. n \in Nat /\ DOMAIN rules = 1..n /\ T \subseteq Nat
  OBVIOUS
<1>3. Range(rules) = {rules[i] : i \in 1..n}
  BY RangeIs
<1> HIDE DEF n
<1>4. Q(0)
  <2>1. 1..0 = {}
    OBVIOUS
  <2> QED BY <1>1, <2>1
<1>5. ASSUME NEW i \in 1..n, Q(i - 1) PROVE Q(i)
  <2>1. left[i] = DeleteStep(left[i - 1], i, id) /\ left[i - 1] \in Seq(RuleType)
    BY <1>1, <1>2
  <2>2. CASE Range(left[i - 1]) = Rest
    <3>1. ASSUME i <= Len(left[i - 1]) PROVE left[i - 1][i].id # id
      <4>1. i \in 1..Len(left[i - 1])
        BY <1>2, <2>1, <3>1
      <4>2. left[i - 1][i] \in Range(left[i - 1])
        BY <2>1, <4>1, RangeIs
      <4> QED BY <2>2, <4>2
    <3>2. left[i] = left[i - 1]
      BY <2>1, <3>1 DEF DeleteStep
    <3> QED BY <2>2, <3>2
  <2>3. CASE Ahead(i - 1) /\ rules[i].id # id
    <3>1. left[i] = rules
      BY <2>1, <2>3 DEF DeleteStep
    <3>2. \A j \in 1..i : j \in 1..(i - 1) \/ j = i
      BY <1>2
    <3> QED BY <2>3, <3>1, <3>2
  <2>4. CASE Ahead(i - 1) /\ rules[i].id = id
    <3> DEFINE new == RemoveAt(rules, i)
    <3>1. left[i] = new
      BY <1>2, <2>1, <2>4 DEF DeleteStep, n
    <3>2. /\ new \in Seq(RuleType) /\ Len(new) = n - 1
          /\ \A k \in 1..(n - 1) : new[k] = IF k < i THEN rules[k] ELSE rules[k + 1]
      BY RemoveAtProperties, Zenon DEF n
    <3> HIDE DEF new
    <3>3. Range(new) = {new[k] : k \in 1..(n - 1)}
      BY <3>2, RangeIs
    <3>4. \A k \in 1..n : rules[k].id = id => k = i
      BY <1>2, <2>4 DEF UniqueIDs
    <3>5. ASSUME NEW k \in 1..(n - 1) PROVE new[k] \in Rest
      <4>1. k \in 1..n /\ k + 1 \in 1..n
        BY <1>2
      <4>2. CASE k < i
        BY <1>2, <1>3, <3>2, <3>4, <4>1, <4>2
      <4>3. CASE ~(k < i)
        <5>1. k + 1 # i
          BY <1>2, <4>3
        <5> QED BY <1>2, <1>3, <3>2, <3>4, <4>1, <4>3, <5>1
      <4> QED BY <4>2, <4>3
    <3>6. ASSUME NEW r \in Rest PROVE r \in Range(new)
      <4>1. PICK k \in 1..n : r = rules[k]
        BY <1>3
      <4>2. k # i
        BY <2>4, <4>1
      <4>3. CASE k < i
        <5>1. k \in 1..(n - 1)
          BY <1>2, <4>3
        <5> QED BY <3>2, <3>3, <4>1, <4>3, <5>1
      <4>4. CASE k > i
        <5>1. k - 1 \in 1..(n - 1) /\ ~(k - 1 < i) /\ (k - 1) + 1 = k
          BY <1>2, <4>4
        <5>2. new[k - 1] = r
          BY <3>2, <4>1, <5>1
        <5> QED BY <3>3, <5>1, <5>2
      <4> QED BY <1>2, <4>2, <4>3, <4>4
    <3>7. Range(new) = Rest
      BY <3>3, <3>5, <3>6
    <3> QED BY <3>1, <3>7
  <2> QED BY <1>5, <2>2, <2>3, <2>4
<1>6. Q(n)
  <2> HIDE DEF Q
  <2>0. T = {}
    <3> SUFFICES ASSUME T # {} PROVE FALSE
      OBVIOUS
    <3>1. PICK x \in T : \A y \in T : x <= y
      <4> HIDE DEF T
      <4> QED BY <1>2, NatMin, Zenon
    <3>2. x \in 1..n /\ x - 1 \in 0..n /\ x - 1 \notin T
      BY <1>2, <1>4, <3>1
    <3> QED BY <1>5, <3>1, <3>2
  <2>1. n \in 0..n
    BY <1>2
  <2> QED BY <2>0, <2>1, Zenon
<1>7. Range(left[n]) = Rest
  <2>1. CASE Ahead(n)
    <3>1. \A r \in Range(rules) : r.id # id
      BY <1>3, <2>1
    <3> QED BY <2>1, <3>1
  <2> QED BY <1>6, <2>1
<1> QED BY <1>1, <1>7

(* DeleteByID gives a list. *)
LEMMA DeleteTyped ==
  ASSUME NEW rules \in Seq(RuleType), NEW id
  PROVE  DeleteByID(rules, id) \in Seq(RuleType)
<1>1. PICK left : Deletes(left, RuleType, rules, id)
  BY DeleteLoop, Zenon
<1>2. Len(rules) \in 0..Len(rules)
  OBVIOUS
<1> QED BY <1>1, <1>2 DEF Deletes

(* The turns of the removal by tag or message. *)
FoundStep(list, i, found) == IF i \in found THEN DeleteByID(list, Rules[i].id) ELSE list

DeletesAll(left, found) ==
    /\ left \in [0..Len(Rules) -> Seq(RuleType)]
    /\ left[0] = Rules /\ DeleteAll(found) = left[Len(Rules)]
    /\ \A i \in 1..Len(Rules) : left[i] = FoundStep(left[i - 1], i, found)

(* DeleteAll is its loop (directiveSecRuleRemoveByTag). *)
LEMMA DeleteAllLoop ==
  ASSUME Rules \in Seq(RuleType), NEW found
  PROVE  \E left : DeletesAll(left, found)
<1> DEFINE n == Len(Rules)
           V == Seq(RuleType)
           Turn(f, i) == IF i = 0 THEN Rules
                         ELSE IF i \in found THEN DeleteByID(f[i - 1], Rules[i].id)
                         ELSE f[i - 1]
           Loop(f) == f = [i \in 0..n |-> Turn(f, i)]
           step == [p \in V \X (1..n) |-> FoundStep(p[1], p[2], found)]
           h == CHOOSE f : Loop(f)
<1>1. n \in Nat /\ Rules \in V
  OBVIOUS
<1>2. DeleteAll(found) = h[n]
  BY DEF DeleteAll
<1>3. ASSUME NEW list \in V, NEW i \in 1..n PROVE FoundStep(list, i, found) \in V
  BY DeleteTyped DEF FoundStep
<1> HIDE DEF n, V
<1>4. step \in [V \X (1..n) -> V]
  BY <1>3
<1>5. ASSUME NEW list \in V, NEW i \in 1..n PROVE step[<<list, i>>] = FoundStep(list, i, found)
  OBVIOUS
<1> HIDE DEF step
<1>6. PICK g : IsLoop(g, V, Rules, n, step)
  BY <1>1, <1>4, LoopExists, Zenon
<1>7. g \in [0..n -> V] /\ g[0] = Rules
  BY <1>6 DEF IsLoop
<1>8. ASSUME NEW i \in 1..n PROVE g[i] = FoundStep(g[i - 1], i, found)
  <2>1. i - 1 \in 0..n
    BY <1>1
  <2>2. g[i - 1] \in V
    BY <1>7, <2>1
  <2>3. g[i] = step[<<g[i - 1], i>>]
    BY <1>6 DEF IsLoop
  <2> QED BY <1>5, <2>2, <2>3, Zenon
<1>9. \A f, i : i \in 1..n => Turn(f, i) = FoundStep(f[i - 1], i, found)
  BY <1>1 DEF FoundStep
<1>10. \A f : Turn(f, 0) = Rules
  OBVIOUS
<1> HIDE DEF Turn
<1>11. Loop(g)
  <2>1. ASSUME NEW i \in 0..n PROVE g[i] = Turn(g, i)
    <3>1. i = 0 \/ i \in 1..n
      BY <1>1
    <3>2. CASE i = 0
      BY <1>7, <1>10, <3>2
    <3>3. CASE i \in 1..n
      BY <1>8, <1>9, <3>3, Zenon
    <3> QED BY <3>1, <3>2, <3>3
  <2> QED BY <1>7, <2>1
<1>12. Loop(h)
  <2> HIDE DEF Loop
  <2> QED BY <1>11, Zenon
<1>13. h = g
  <2> HIDE DEF h
  <2>1. \A i \in 0..n : h[i] = Turn(h, i)
    BY <1>12, Zenon
  <2> DEFINE T == {i \in 0..n : h[i] # g[i]}
  <2>2. T \subseteq Nat
    BY <1>1
  <2>3. ASSUME T # {} PROVE FALSE
    <3>1. PICK x \in T : \A y \in T : x <= y
      <4> HIDE DEF T
      <4> QED BY <2>2, <2>3, NatMin, Zenon
    <3>2. x \in 1..n
      BY <1>1, <1>7, <1>10, <2>1, <3>1
    <3>3. x - 1 \in 0..n /\ x - 1 \notin T
      BY <1>1, <3>1, <3>2
    <3>4. h[x] = FoundStep(h[x - 1], x, found)
      BY <1>1, <1>9, <2>1, <3>2
    <3>5. h[x] = g[x]
      BY <1>8, <3>2, <3>3, <3>4
    <3> QED BY <3>1, <3>5
  <2>4. \A i \in 0..n : h[i] = g[i]
    BY <2>3
  <2>5. h = [i \in 0..n |-> h[i]]
    BY <1>12
  <2> QED BY <1>7, <2>4, <2>5
<1>14. DeleteAll(found) = g[n]
  BY <1>2, <1>13, Zenon
<1>15. DeletesAll(g, found)
  BY <1>7, <1>8, <1>14 DEF n, V, DeletesAll
<1> QED BY <1>15

(* A removal by tag or message keeps the order of what it leaves; when the  *)
(* rules found have an id, it takes those rules and no others.              *)
LEMMA DeleteAllPart ==
  ASSUME Rules \in Seq(RuleType), Ordered(Rules), UniqueIDs(Rules), NEW found
  PROVE  /\ Part(DeleteAll(found), Rules)
         /\ (\A i \in DOMAIN Rules : i \in found => Rules[i].id # 0)
            => Range(DeleteAll(found)) = {r \in Range(Rules) :
                                            \A k \in DOMAIN Rules : k \in found => Rules[k].id # r.id}
<1> DEFINE n == Len(Rules)
           Named == \A i \in 1..n : i \in found => Rules[i].id # 0
           Rest(i) == {r \in Range(Rules) : \A k \in 1..i : k \in found => Rules[k].id # r.id}
<1>0. PICK left : DeletesAll(left, found)
  BY DeleteAllLoop
<1>1. /\ left \in [0..n -> Seq(RuleType)]
      /\ left[0] = Rules /\ DeleteAll(found) = left[n]
      /\ \A i \in 1..n : left[i] = FoundStep(left[i - 1], i, found)
  BY <1>0 DEF DeletesAll
<1> DEFINE Q(i) == Part(left[i], Rules) /\ (Named => Range(left[i]) = Rest(i))
           T == {i \in 0..n : ~Q(i)}
<1>2. n \in Nat /\ DOMAIN Rules = 1..n /\ T \subseteq Nat
  OBVIOUS
<1> HIDE DEF n
<1>3. Q(0)
  <2>1. 1..0 = {}
    OBVIOUS
  <2>2. Rest(0) = Range(Rules)
    BY <2>1
  <2> QED BY <1>1, <2>2 DEF Part
<1>4. ASSUME NEW i \in 1..n, Q(i - 1) PROVE Q(i)
  <2> DEFINE list == left[i - 1]
  <2>1. left[i] = FoundStep(list, i, found)
    BY <1>1
  <2>2. list \in Seq(RuleType) /\ Ordered(list) /\ Range(list) \subseteq Range(Rules)
    BY <1>4 DEF Part
  <2>3. UniqueIDs(list)
    BY <1>4, PartUnique
  <2>4. \A k \in 1..i : k \in 1..(i - 1) \/ k = i
    BY <1>2
  <2>5. i \in 1..i /\ \A k \in 1..(i - 1) : k \in 1..i
    BY <1>2
  <2>6. CASE i \notin found
    <3>1. left[i] = list
      BY <2>1, <2>6 DEF FoundStep
    <3>2. Rest(i) = Rest(i - 1)
      BY <2>4, <2>5, <2>6
    <3> QED BY <1>4, <3>1, <3>2
  <2>7. CASE i \in found
    <3> DEFINE id == Rules[i].id
    <3>1. left[i] = DeleteByID(list, id)
      BY <2>1, <2>7 DEF FoundStep
    <3>2. Part(left[i], list)
      BY <2>2, <3>1, DeletePart
    <3>3. Part(left[i], Rules)
      BY <1>4, <3>2, PartTransitive
    <3>4. ASSUME Named PROVE Range(left[i]) = Rest(i)
      <4>1. id # 0
        BY <2>7, <3>4
      <4>2. Range(left[i]) = {r \in Range(list) : r.id # id}
        BY <2>2, <2>3, <3>1, <4>1, DeleteExact
      <4>3. Range(list) = Rest(i - 1)
        BY <1>4, <3>4
      <4>4. Rest(i) = {r \in Rest(i - 1) : r.id # id}
        <5> DEFINE Kept(r, j) == \A k \in 1..j : k \in found => Rules[k].id # r.id
        <5>1. ASSUME NEW r PROVE Kept(r, i) <=> Kept(r, i - 1) /\ r.id # id
          BY <2>4, <2>5, <2>7
        <5>2. Rest(i) = {r \in Range(Rules) : Kept(r, i)} /\ Rest(i - 1) = {r \in Range(Rules) : Kept(r, i - 1)}
          OBVIOUS
        <5> HIDE DEF Rest, Kept
        <5> QED BY <5>1, <5>2
      <4> HIDE DEF Rest
      <4> QED BY <4>2, <4>3, <4>4
    <3> QED BY <3>3, <3>4
  <2> QED BY <2>6, <2>7
<1>5. Q(n)
  <2> HIDE DEF Q
  <2>0. T = {}
    <3> SUFFICES ASSUME T # {} PROVE FALSE
      OBVIOUS
    <3>1. PICK x \in T : \A y \in T : x <= y
      <4> HIDE DEF T
      <4> QED BY <1>2, NatMin, Zenon
    <3>2. x \in 1..n /\ x - 1 \in 0..n /\ x - 1 \notin T
      BY <1>2, <1>3, <3>1
    <3> QED BY <1>4, <3>1, <3>2
  <2>1. n \in 0..n
    BY <1>2
  <2> QED BY <2>0, <2>1, Zenon
<1>6. DeleteAll(found) = left[n] /\ DOMAIN Rules = 1..n
  BY <1>1, <1>2
<1> QED BY <1>5, <1>6, Zenon
-----------------------------------------------------------------------------
(* What a directive has, by its name. *)
LEMMA LineTyped ==
  ASSUME palette \in Palettes, NEW l \in palette
  PROVE  /\ l.dir \in {"SecRule", "SecAction"} => l \in RuleLines
         /\ l.dir = "SecDefaultAction" => l.phase \in 0..5 /\ l.disruptive \in Seq(Disruptive)
         /\ l.dir = "SecIgnoreRuleCompilationErrors" => l.on \in BOOLEAN
         /\ l.dir = "Include" => l.files \in Seq(Seq(STRING))
<1>1. l \in RuleLines \/ l \in OtherLines
  BY SecLangAssumption
<1>2. CASE l \in RuleLines
  <2>1. l.dir \in {"SecRule", "SecAction"}
    BY <1>2 DEF RuleLines
  <2> QED BY <1>2, <2>1
<1>3. CASE l \in OtherLines
  <2>1. \/ l \in [dir : {"SecMarker", "Unsupported"}]
        \/ l \in [dir : {"SecRuleRemoveById"}, id : Nat]
        \/ l \in [dir : {"SecRuleRemoveByTag"}, tag : Text]
        \/ l \in [dir : {"SecRuleRemoveByMsg"}, msg : Text]
        \/ l \in [dir : {"SecRuleUpdateTargetById"}, id : Nat, negation : BOOLEAN]
        \/ l \in [dir : {"SecDefaultAction"}, phase : 0..5, disruptive : Seq(Disruptive)]
        \/ l \in [dir : {"SecIgnoreRuleCompilationErrors"}, on : BOOLEAN]
        \/ l \in [dir : {"Include"}, files : Seq(Seq(STRING))]
    BY <1>3, Zenon DEF OtherLines
  <2>2. CASE l \in [dir : {"SecDefaultAction"}, phase : 0..5, disruptive : Seq(Disruptive)]
    BY <2>2
  <2>3. CASE l \in [dir : {"SecIgnoreRuleCompilationErrors"}, on : BOOLEAN]
    BY <2>3
  <2>4. CASE l \in [dir : {"Include"}, files : Seq(Seq(STRING))]
    BY <2>4
  <2>5. ASSUME l \in [dir : {"SecMarker", "Unsupported"}]
               \/ l \in [dir : {"SecRuleRemoveById"}, id : Nat]
               \/ l \in [dir : {"SecRuleRemoveByTag"}, tag : Text]
               \/ l \in [dir : {"SecRuleRemoveByMsg"}, msg : Text]
               \/ l \in [dir : {"SecRuleUpdateTargetById"}, id : Nat, negation : BOOLEAN]
        PROVE  l.dir \in {"SecMarker", "Unsupported", "SecRuleRemoveById", "SecRuleRemoveByTag",
                          "SecRuleRemoveByMsg", "SecRuleUpdateTargetById"}
    BY <2>5
  <2> QED BY <2>1, <2>2, <2>3, <2>4, <2>5
<1> QED BY <1>1, <1>2, <1>3

(* Where the rules of the list stand in the text. *)
LEMMA Places ==
  ASSUME TypeOK, NothingLost
  PROVE  /\ serial \in Nat /\ Len(Rules) \in Nat /\ DOMAIN Rules = 1..Len(Rules)
         /\ Range(Rules) = {Rules[i] : i \in 1..Len(Rules)} /\ Range(Rules) \subseteq RuleType
         /\ \A r \in Range(Rules) : /\ r.serial \in 1..serial /\ r.chain \in Seq(Nat)
                                    /\ End(r) \in Nat /\ r.serial <= End(r)
                                    /\ \A c \in Range(r.chain) : c \in 1..serial
<1>1. Rules \in Seq(RuleType) /\ serial \in Nat
  BY DEF TypeOK
<1>2. /\ Range(Rules) = {Rules[i] : i \in 1..Len(Rules)} /\ Range(Rules) \subseteq RuleType
      /\ Len(Rules) \in Nat /\ DOMAIN Rules = 1..Len(Rules)
  BY <1>1, RangeIs
<1>3. ASSUME NEW r \in Range(Rules)
      PROVE  /\ r.serial \in 1..serial /\ r.chain \in Seq(Nat)
             /\ End(r) \in Nat /\ r.serial <= End(r)
             /\ \A c \in Range(r.chain) : c \in 1..serial
  <2>1. r.serial \in Nat /\ r.chain \in Seq(Nat)
    BY <1>2, RuleFields
  <2>2. {r.serial} \union Range(r.chain) \subseteq SerialsOf(Rules)
    BY Zenon DEF SerialsOf
  <2>3. SerialsOf(Rules) \subseteq 1..serial
    BY DEF NothingLost
  <2>4. Len(r.chain) \in Nat
    BY <2>1
  <2>5. End(r) \in Nat /\ r.serial <= End(r)
    BY <2>1, <2>4 DEF End
  <2> QED BY <2>1, <2>2, <2>3, <2>5
<1> QED BY <1>1, <1>2, <1>3

(* The invariant of the list in the next state, from its parts. *)
LEMMA ListNext ==
  ASSUME UniqueIDs(Rules'), SerialsOf(Rules') = (1..serial') \ gone', Ordered(Rules'),
         ~lenient' => Apart(Rules') /\ \A r \in Range(Rules') : ChainOK(r)'
  PROVE  ListInv'
<1>1. NothingLost'
  BY DEF NothingLost, Ordered
<1>2. ChainsInv'
  BY Zenon DEF ChainsInv
<1> QED BY <1>1, <1>2 DEF ListInv

(* A directive that is no rule and removes none leaves the list as it is;   *)
(* an error ends the reading.                                               *)
LEMMA ListFrame ==
  ASSUME ListInv, UNCHANGED <<Rules, serial, announced, gone, lenient>>,
         status' = status \/ status' # "reading"
  PROVE  ListInv'
<1>1. ASSUME NEW r \in Range(Rules), ChainOK(r) PROVE ChainOK(r)'
  BY <1>1 DEF ChainOK
<1>2. ~lenient => Apart(Rules) /\ \A r \in Range(Rules) : ChainOK(r)
  BY DEF ListInv, ChainsInv
<1>3. UniqueIDs(Rules) /\ SerialsOf(Rules) = (1..serial) \ gone /\ Ordered(Rules)
  BY DEF ListInv, NothingLost, Ordered
<1> QED BY <1>1, <1>2, <1>3, ListNext

(* A rule whose chain reaches the last directive read is the last of the    *)
(* list: getLastRuleExpectingChain finds it.                                *)
LEMMA EndIsLast ==
  ASSUME TypeOK, ListInv, ~lenient, NEW i \in 1..Len(Rules), End(Rules[i]) = serial
  PROVE  i = Len(Rules) /\ Rules # <<>> /\ Last(Rules) = Rules[i]
<1> DEFINE n == Len(Rules)
<1>1. n \in Nat /\ DOMAIN Rules = 1..n /\ n \in 1..n /\ Range(Rules) = {Rules[k] : k \in 1..n}
  BY Places DEF ListInv
<1>2. Rules[n] \in Range(Rules) /\ serial \in Nat
  BY <1>1, Places DEF ListInv
<1>3. Rules[n].serial \in 1..serial
  BY <1>2, Places DEF ListInv
<1>4. i = n
  <2>a. i \in 1..n /\ n \in Nat
    BY <1>1
  <2> HIDE DEF n
  <2> SUFFICES ASSUME i < n PROVE FALSE
    BY <2>a
  <2>0. Apart(Rules)
    BY Zenon DEF ListInv, ChainsInv
  <2>1. End(Rules[i]) < Rules[n].serial
    BY <1>1, <2>0 DEF Apart
  <2> QED BY <1>2, <1>3, <2>1
<1>5. Rules # <<>>
  BY <1>1
<1> QED BY <1>4, <1>5 DEF Last

(* A rejected directive: the list stays as it is (directiveSecRule). *)
LEMMA RejectInv ==
  ASSUME TypeOK, ListInv, status = "reading", Rules' = Rules, serial' = serial + 1,
         gone' = gone \union {serial + 1}, announced' \in {announced, announced \union {serial + 1}},
         lenient' \/ (status' = "error" /\ lenient' = lenient)
  PROVE  ListInv'
<1>1. /\ serial \in Nat /\ announced \subseteq 1..serial /\ gone \subseteq 1..serial
      /\ \A k \in 1..(serial + 1) : k \in 1..serial \/ k = serial + 1
      /\ \A k \in 1..serial : k \in 1..(serial + 1) /\ k # serial + 1
  BY DEF TypeOK
<1>2. UniqueIDs(Rules) /\ SerialsOf(Rules) = (1..serial) \ gone /\ Ordered(Rules)
  BY DEF ListInv, NothingLost, Ordered
<1>3. SerialsOf(Rules') = (1..serial') \ gone'
  BY <1>1, <1>2
<1>4. ASSUME ~lenient' PROVE Apart(Rules') /\ \A r \in Range(Rules') : ChainOK(r)'
  <2>1. status' = "error" /\ ~lenient
    BY <1>4
  <2>2. Apart(Rules) /\ \A r \in Range(Rules) : ChainOK(r)
    BY <2>1 DEF ListInv, ChainsInv
  <2>3. ASSUME NEW r \in Range(Rules) PROVE ChainOK(r)'
    <3>1. ChainOK(r) /\ r.serial \in 1..serial /\ End(r) \in Nat
      BY <2>2, Places DEF ListInv
    <3>2. /\ r.serial - 1 \in announced' => r.serial - 1 \in announced
          /\ End(r) <= serial /\ End(r) <= serial' /\ End(r) # serial + 1
      BY <1>1, <3>1 DEF ChainOK
    <3>3. End(r) \in announced' <=> End(r) \in announced
      BY <3>2
    <3>4. \A k : k \in announced => k \in announced'
      OBVIOUS
    <3> QED BY <2>1, <3>1, <3>2, <3>3, <3>4 DEF ChainOK
  <2> QED BY <2>2, <2>3
<1> QED BY <1>2, <1>3, <1>4, ListNext

(* A rule or a marker that is added to the list (RuleGroup.Add). *)
LEMMA AppendInv ==
  ASSUME TypeOK, ListInv, status = "reading", status' = status, gone' = gone, lenient' = lenient,
         NEW r \in RuleType, r.serial = serial + 1, r.chain = <<>>,
         Rules' = Append(Rules, r), serial' = serial + 1,
         announced' = IF r.HasChain THEN announced \union {serial + 1} ELSE announced,
         ~Duplicate(r.id), r.marker \/ ~ExpectingChain
  PROVE  ListInv'
<1> DEFINE n == Len(Rules)
<1>1. /\ serial \in Nat /\ announced \subseteq 1..serial /\ gone \subseteq 1..serial
      /\ \A k \in 1..(serial + 1) : k \in 1..serial \/ k = serial + 1
      /\ \A k \in 1..serial : k \in 1..(serial + 1) /\ k # serial + 1
  BY DEF TypeOK
<1>2. UniqueIDs(Rules) /\ SerialsOf(Rules) = (1..serial) \ gone /\ Ordered(Rules)
  BY DEF ListInv, NothingLost, Ordered
<1>3. /\ n \in Nat /\ DOMAIN Rules = 1..n /\ Range(Rules) = {Rules[k] : k \in 1..n}
      /\ \A q \in Range(Rules) : q.serial \in 1..serial /\ End(q) \in Nat
  BY Places DEF ListInv
<1>4. /\ Rules' \in Seq(RuleType) /\ Len(Rules') = n + 1 /\ Rules'[n + 1] = r
      /\ \A k \in 1..n : Rules'[k] = Rules[k]
  BY AppendProperties DEF TypeOK
<1> HIDE DEF n
<1>5. /\ DOMAIN Rules' = 1..(n + 1) /\ n + 1 \in 1..(n + 1)
      /\ \A k \in 1..(n + 1) : k \in 1..n \/ k = n + 1
      /\ \A k \in 1..n : k \in 1..(n + 1) /\ k # n + 1 /\ k < n + 1 /\ ~(n + 1 < k)
  BY <1>3, <1>4
<1>6. Range(Rules') = Range(Rules) \union {r}
  <2>0. DOMAIN Rules' = 1..(n + 1)
    BY <1>4
  <2>1. Range(Rules') = {Rules'[k] : k \in 1..(n + 1)}
    BY <2>0 DEF Range
  <2> QED BY <1>3, <1>4, <1>5, <2>1
<1>7. UniqueIDs(Rules')
  <2> SUFFICES ASSUME NEW i \in 1..(n + 1), NEW j \in 1..(n + 1),
                      Rules'[i].id = Rules'[j].id, Rules'[i].id # 0
               PROVE  i = j
    BY <1>5, Zenon DEF UniqueIDs
  <2>1. CASE i \in 1..n /\ j \in 1..n
    BY <1>2, <1>3, <1>4, <2>1 DEF UniqueIDs
  <2>2. \A k \in 1..n : Rules[k].id = r.id => r.id = 0
    BY <1>3 DEF Duplicate
  <2>3. CASE ~(i \in 1..n /\ j \in 1..n)
    BY <1>4, <1>5, <2>2, <2>3
  <2> QED BY <2>1, <2>3
<1>8. SerialsOf(Rules') = (1..serial') \ gone'
  <2>1. Range(r.chain) = {}
    BY DEF Range
  <2>2. SerialsOf(Rules') = SerialsOf(Rules) \union {serial + 1}
    <3>1. {r.serial} \union Range(r.chain) = {serial + 1}
      BY <2>1
    <3> QED BY <1>6, <3>1 DEF SerialsOf
  <2> QED BY <1>1, <1>2, <2>2
<1>9. Ordered(Rules')
  <2> SUFFICES ASSUME NEW i \in 1..(n + 1), NEW j \in 1..(n + 1), i < j
               PROVE  Rules'[i].serial < Rules'[j].serial
    BY <1>5 DEF Ordered
  <2>1. i \in 1..n
    BY <1>3
  <2>2. CASE j \in 1..n
    BY <1>2, <1>3, <1>4, <2>1, <2>2, Zenon DEF Ordered
  <2>3. CASE j = n + 1
    <3>1. Rules[i].serial \in 1..serial
      BY <1>3, <2>1
    <3> QED BY <1>1, <1>4, <2>1, <2>3, <3>1
  <2> QED BY <1>5, <2>2, <2>3
<1>10. ASSUME ~lenient' PROVE Apart(Rules') /\ \A q \in Range(Rules') : ChainOK(q)'
  <2>1. ~lenient /\ Apart(Rules) /\ \A q \in Range(Rules) : ChainOK(q)
    BY <1>10 DEF ListInv, ChainsInv
  <2>2. \A q \in Range(Rules) : End(q) \in Nat /\ End(q) <= serial
    BY <1>3, <2>1 DEF ChainOK
  <2>3. Apart(Rules')
    <3> SUFFICES ASSUME NEW i \in 1..(n + 1), NEW j \in 1..(n + 1), i < j
                 PROVE  End(Rules'[i]) < Rules'[j].serial
      BY <1>5 DEF Apart
    <3>1. i \in 1..n
      BY <1>3
    <3>2. CASE j \in 1..n
      BY <1>3, <1>4, <2>1, <3>1, <3>2, Zenon DEF Apart
    <3>3. CASE j = n + 1
      <4>1. End(Rules[i]) \in Nat /\ End(Rules[i]) <= serial
        BY <1>3, <2>2, <3>1
      <4> QED BY <1>1, <1>4, <3>1, <3>3, <4>1
    <3> QED BY <1>5, <3>2, <3>3
  <2>4. \A k : /\ k \in announced => k \in announced'
               /\ k \in announced' => k \in announced \/ k = serial + 1
    OBVIOUS
  <2>5. \A q \in Range(Rules) : q.HasChain /\ End(q) = serial => ExpectingChain
    <3> SUFFICES ASSUME NEW k \in 1..n, Rules[k].HasChain, End(Rules[k]) = serial
                 PROVE  ExpectingChain
      BY <1>3
    <3>1. Rules # <<>> /\ Last(Rules) = Rules[k]
      BY <2>1, EndIsLast DEF n
    <3> QED BY <3>1 DEF ExpectingChain
  <2>6. ASSUME NEW q \in Range(Rules) PROVE ChainOK(q)'
    <3>1. ChainOK(q) /\ q.serial \in 1..serial /\ End(q) \in Nat /\ End(q) <= serial
      BY <1>3, <2>1, <2>2
    <3>2. /\ q.serial - 1 \in announced' => q.serial - 1 \in announced
          /\ End(q) <= serial' /\ End(q) # serial + 1
      BY <1>1, <2>4, <3>1
    <3>3. End(q) \in announced' <=> End(q) \in announced
      BY <2>4, <3>2
    <3>4. ASSUME q.HasChain PROVE \E m \in Range(Rules') : m.marker /\ m.serial = End(q) + 1
      <4>1. CASE End(q) = serial
        <5>1. r.marker /\ r.serial = End(q) + 1 /\ r \in Range(Rules')
          BY <1>6, <2>5, <3>4, <4>1
        <5> QED BY <5>1
      <4>2. CASE End(q) # serial
        <5>1. PICK m \in Range(Rules) : m.marker /\ m.serial = End(q) + 1
          BY <3>1, <3>4, <4>2 DEF ChainOK
        <5> QED BY <1>6, <5>1
      <4> QED BY <4>1, <4>2
    <3>5. \A k \in DOMAIN q.chain : q.chain[k] = q.serial + k /\ (q.serial + k - 1) \in announced'
      BY <2>4, <3>1 DEF ChainOK
    <3>6. ~q.marker /\ (q.serial - 1) \in announced' => (q.serial - 1) \in gone'
      BY <3>1, <3>2 DEF ChainOK
    <3>7. q.HasChain <=> End(q) \in announced'
      BY <3>1, <3>3 DEF ChainOK
    <3> QED BY <3>2, <3>4, <3>5, <3>6, <3>7 DEF ChainOK
  <2>7. ChainOK(r)'
    <3>1. Len(r.chain) = 0 /\ DOMAIN r.chain = {}
      OBVIOUS
    <3>2. End(r) = serial + 1
      BY <1>1, <3>1 DEF End
    <3>3. r.serial - 1 = serial
      BY <1>1
    <3>4. r.HasChain <=> End(r) \in announced'
      BY <1>1, <3>2
    <3>5. ASSUME ~r.marker, serial \in announced' PROVE serial \in gone
      <4>1. serial \in announced /\ serial \in 1..serial
        BY <1>1, <2>4, <3>5
      <4> SUFFICES ASSUME serial \notin gone PROVE FALSE
        OBVIOUS
      <4>2. serial \in SerialsOf(Rules)
        BY <1>2, <4>1
      <4>3. PICK q \in Range(Rules) : serial \in {q.serial} \union Range(q.chain)
        BY <4>2 DEF SerialsOf
      <4>4. ChainOK(q) /\ q.chain \in Seq(Nat) /\ q.serial \in 1..serial /\ End(q) <= serial
        BY <2>1, <2>2, <4>3, Places DEF ListInv
      <4> DEFINE m == Len(q.chain)
      <4>5. m \in Nat /\ Range(q.chain) = {q.chain[k] : k \in 1..m} /\ DOMAIN q.chain = 1..m
        BY <4>4, RangeIs
      <4>6. End(q) = q.serial + m
        BY DEF End
      <4> HIDE DEF m
      <4>7. End(q) = serial
        <5>1. CASE serial = q.serial
          BY <1>1, <4>4, <4>5, <4>6, <5>1
        <5>2. CASE serial \in Range(q.chain)
          <6>1. PICK k \in 1..m : serial = q.chain[k]
            BY <4>5, <5>2
          <6>2. q.chain[k] = q.serial + k
            BY <4>4, <4>5, Zenon DEF ChainOK
          <6> QED BY <1>1, <4>4, <4>5, <4>6, <6>1, <6>2
        <5> QED BY <4>3, <5>1, <5>2
      <4>8. q.HasChain
        BY <4>1, <4>4, <4>7 DEF ChainOK
      <4> QED BY <2>5, <3>5, <4>3, <4>7, <4>8
    <3>6. End(r) <= serial' /\ End(r) = serial'
      BY <1>1, <3>2
    <3> QED BY <3>1, <3>3, <3>4, <3>5, <3>6 DEF ChainOK
  <2> QED BY <1>6, <2>3, <2>6, <2>7
<1> QED BY <1>7, <1>8, <1>9, <1>10, ListNext

(* A rule that ends the chain of the last rule (RuleParser.ParseRule). *)
LEMMA ChainedInv ==
  ASSUME TypeOK, ListInv, status = "reading", status' = status, gone' = gone, lenient' = lenient,
         NEW r \in RuleType, r.serial = serial + 1, ExpectingChain,
         Rules' = Chained(r), serial' = serial + 1,
         announced' = IF r.HasChain THEN announced \union {serial + 1} ELSE announced
  PROVE  ListInv' /\ Rules' \in Seq(RuleType)
<1> DEFINE n == Len(Rules)
           p == Rules[n]
           new == [p EXCEPT !.chain = Append(@, r.serial), !.HasChain = r.HasChain]
           m == Len(p.chain)
<1>1. /\ serial \in Nat /\ announced \subseteq 1..serial /\ gone \subseteq 1..serial
      /\ \A k \in 1..(serial + 1) : k \in 1..serial \/ k = serial + 1
      /\ \A k \in 1..serial : k \in 1..(serial + 1) /\ k # serial + 1
  BY DEF TypeOK
<1>2. UniqueIDs(Rules) /\ SerialsOf(Rules) = (1..serial) \ gone /\ Ordered(Rules)
  BY DEF ListInv, NothingLost, Ordered
<1>3. /\ n \in Nat /\ DOMAIN Rules = 1..n /\ Range(Rules) = {Rules[k] : k \in 1..n}
      /\ Range(Rules) \subseteq RuleType
      /\ \A q \in Range(Rules) : q.serial \in 1..serial /\ End(q) \in Nat /\ q.serial <= End(q)
  BY Places DEF ListInv
<1>4. n \in 1..n /\ Last(Rules) = p /\ p.HasChain /\ Rules \in Seq(RuleType)
  BY <1>3 DEF ExpectingChain, Last, TypeOK
<1>5. p \in Range(Rules) /\ p \in RuleType /\ p.chain \in Seq(Nat) /\ p.serial \in Nat /\ m \in Nat
  BY <1>3, <1>4, RuleFields
<1>6. Rules' = [Rules EXCEPT ![n] = new]
  BY <1>3, <1>4, <1>5, Zenon DEF Chained, RuleType
<1>7. /\ new.chain = Append(p.chain, serial + 1) /\ new.HasChain = r.HasChain /\ new.id = p.id
      /\ new.serial = p.serial /\ new.marker = p.marker /\ new \in RuleType
  <2>1. r.HasChain \in BOOLEAN /\ Append(p.chain, serial + 1) \in Seq(Nat)
    BY <1>1, <1>5, AppendProperties DEF RuleType
  <2> QED BY <1>5, <2>1, Zenon DEF RuleType
<1>8. /\ new.chain \in Seq(Nat) /\ Len(new.chain) = m + 1 /\ DOMAIN new.chain = 1..(m + 1)
      /\ new.chain[m + 1] = serial + 1 /\ (\A k \in 1..m : new.chain[k] = p.chain[k])
      /\ Range(new.chain) = Range(p.chain) \union {serial + 1}
  <2>1. /\ new.chain \in Seq(Nat) /\ Len(new.chain) = m + 1 /\ new.chain[m + 1] = serial + 1
        /\ \A k \in 1..m : new.chain[k] = p.chain[k]
    BY <1>1, <1>5, <1>7, AppendProperties
  <2>a. DOMAIN new.chain = 1..(m + 1) /\ DOMAIN p.chain = 1..m
    BY <1>5, <2>1
  <2>2. /\ DOMAIN new.chain = 1..(m + 1) /\ Range(new.chain) = {new.chain[k] : k \in 1..(m + 1)}
        /\ Range(p.chain) = {p.chain[k] : k \in 1..m}
    <3> HIDE DEF new, m, p
    <3> QED BY <2>a DEF Range
  <2>3. m + 1 \in 1..(m + 1) /\ (\A k \in 1..m : k \in 1..(m + 1))
        /\ \A k \in 1..(m + 1) : k \in 1..m \/ k = m + 1
    BY <1>5
  <2> HIDE DEF new, m, p
  <2>4. Range(new.chain) = Range(p.chain) \union {serial + 1}
    BY <2>1, <2>2, <2>3
  <2> QED BY <2>1, <2>2, <2>4, Zenon
<1>9. End(p) = p.serial + m /\ End(new) = End(p) + 1
  <2>1. End(p) = p.serial + m
    BY Zenon DEF End
  <2>2. End(new) = new.serial + Len(new.chain)
    BY Zenon DEF End
  <2>3. new.serial = p.serial /\ Len(new.chain) = m + 1 /\ p.serial \in Nat /\ m \in Nat
    BY <1>5, <1>7, <1>8, Zenon
  <2> HIDE DEF new, p, m
  <2> QED BY <2>1, <2>2, <2>3
<1>10. DOMAIN p.chain = 1..m
  BY <1>5
<1> HIDE DEF n, p, new, m
<1>11. /\ Rules' \in Seq(RuleType) /\ DOMAIN Rules' = 1..n /\ Rules'[n] = new
       /\ \A k \in 1..n : k # n => Rules'[k] = Rules[k]
  BY <1>3, <1>4, <1>6, <1>7
<1>12. Range(Rules') = {Rules'[k] : k \in 1..n}
  BY <1>11 DEF Range
<1>13. \A k \in 1..n : Rules'[k].id = Rules[k].id /\ Rules'[k].serial = Rules[k].serial
  BY <1>7, <1>11 DEF p
<1>14. UniqueIDs(Rules') /\ Ordered(Rules')
  <2>1. UniqueIDs(Rules')
    BY <1>2, <1>3, <1>11, <1>13 DEF UniqueIDs
  <2>2. Ordered(Rules')
    BY <1>2, <1>3, <1>11, <1>13 DEF Ordered
  <2> QED BY <2>1, <2>2
<1>15. SerialsOf(Rules') = (1..serial') \ gone'
  <2>1. ASSUME NEW k \in 1..n
        PROVE  {Rules'[k].serial} \union Range(Rules'[k].chain)
                 = {Rules[k].serial} \union Range(Rules[k].chain) \union (IF k = n THEN {serial + 1} ELSE {})
    BY <1>7, <1>8, <1>11, Zenon DEF p
  <2>2. SerialsOf(Rules') = UNION {{Rules'[k].serial} \union Range(Rules'[k].chain) : k \in 1..n}
    BY <1>12 DEF SerialsOf
  <2>3. SerialsOf(Rules) = UNION {{Rules[k].serial} \union Range(Rules[k].chain) : k \in 1..n}
    BY <1>3 DEF SerialsOf
  <2>4. ASSUME NEW x PROVE x \in SerialsOf(Rules') <=> x \in SerialsOf(Rules) \/ x = serial + 1
    <3>1. x \in SerialsOf(Rules') <=> \E k \in 1..n : x \in {Rules'[k].serial} \union Range(Rules'[k].chain)
      BY <2>2
    <3>2. x \in SerialsOf(Rules) <=> \E k \in 1..n : x \in {Rules[k].serial} \union Range(Rules[k].chain)
      BY <2>3
    <3>3. ASSUME NEW k \in 1..n
          PROVE  x \in {Rules'[k].serial} \union Range(Rules'[k].chain)
                   <=> x \in {Rules[k].serial} \union Range(Rules[k].chain) \/ (k = n /\ x = serial + 1)
      BY <2>1
    <3> QED BY <1>4, <3>1, <3>2, <3>3
  <2> QED BY <1>1, <1>2, <2>4
<1>16. ASSUME ~lenient' PROVE Apart(Rules') /\ \A q \in Range(Rules') : ChainOK(q)'
  <2>1. ~lenient /\ Apart(Rules) /\ \A q \in Range(Rules) : ChainOK(q)
    BY <1>16, Zenon DEF ListInv, ChainsInv
  <2>2. \A q \in Range(Rules) : End(q) \in Nat /\ End(q) <= serial
    BY <1>3, <2>1 DEF ChainOK
  <2>3. ChainOK(p) /\ p.serial \in 1..serial /\ End(p) \in Nat /\ p.serial <= End(p)
    BY <1>3, <1>5, <2>1
  <2>4. End(p) = serial
    <3> SUFFICES ASSUME End(p) # serial PROVE FALSE
      OBVIOUS
    <3>1. PICK q \in Range(Rules) : q.marker /\ q.serial = End(p) + 1
      BY <1>4, <2>3 DEF ChainOK
    <3>2. PICK k \in 1..n : q = Rules[k]
      BY <1>3
    <3>3. k # n
      BY <2>3, <3>1, <3>2 DEF p
    <3>4. k < n
      BY <1>3, <3>3
    <3>5. Rules[k].serial < p.serial
      BY <1>2, <1>3, <1>4, <3>4 DEF Ordered, p
    <3> QED BY <2>3, <3>1, <3>2, <3>5
  <2>5. Apart(Rules')
    <3> SUFFICES ASSUME NEW i \in 1..n, NEW j \in 1..n, i < j
                 PROVE  End(Rules'[i]) < Rules'[j].serial
      BY <1>11 DEF Apart
    <3>1. i # n
      BY <1>3
    <3>2. Rules'[i] = Rules[i]
      BY <1>11, <3>1
    <3> QED BY <1>3, <1>13, <2>1, <3>2, Zenon DEF Apart
  <2>6. \A k : /\ k \in announced => k \in announced'
               /\ k \in announced' => k \in announced \/ k = serial + 1
    OBVIOUS
  <2>7. ASSUME NEW q, NEW k \in 1..n, k # n, q = Rules[k] PROVE ChainOK(q)'
    <3>0. q \in Range(Rules)
      BY <1>3, <2>7
    <3>1. ChainOK(q) /\ q.serial \in 1..serial /\ End(q) \in Nat /\ End(q) <= serial
      BY <1>3, <2>1, <2>2, <3>0
    <3>2. /\ q.serial - 1 \in announced' => q.serial - 1 \in announced
          /\ End(q) <= serial' /\ End(q) # serial + 1
      BY <1>1, <2>6, <3>1
    <3>3. End(q) \in announced' <=> End(q) \in announced
      BY <2>6, <3>2
    <3>4. ASSUME q.HasChain PROVE \E x \in Range(Rules') : x.marker /\ x.serial = End(q) + 1
      <4>1. End(q) # serial
        <5>1. k < n
          BY <1>3, <2>7
        <5>2. End(q) < p.serial
          BY <1>3, <1>4, <2>1, <2>7, <5>1 DEF Apart, p
        <5> QED BY <1>1, <2>3, <3>1, <5>2
      <4>2. PICK x \in Range(Rules) : x.marker /\ x.serial = End(q) + 1
        BY <3>1, <3>4, <4>1 DEF ChainOK
      <4>3. PICK j \in 1..n : x = Rules[j]
        BY <1>3
      <4>4. Rules'[j].marker /\ Rules'[j].serial = End(q) + 1
        BY <1>7, <1>11, <1>13, <4>2, <4>3 DEF p
      <4> QED BY <1>12, <4>4
    <3>5. \A j \in DOMAIN q.chain : q.chain[j] = q.serial + j /\ (q.serial + j - 1) \in announced'
      BY <2>6, <3>1 DEF ChainOK
    <3>6. ~q.marker /\ (q.serial - 1) \in announced' => (q.serial - 1) \in gone'
      BY <3>1, <3>2 DEF ChainOK
    <3>7. q.HasChain <=> End(q) \in announced'
      BY <3>1, <3>3 DEF ChainOK
    <3> QED BY <3>2, <3>4, <3>5, <3>6, <3>7 DEF ChainOK
  <2>8. ASSUME NEW q, q = new PROVE ChainOK(q)'
    <3>1. End(new) = serial + 1 /\ End(new) = serial' /\ End(new) <= serial'
      BY <1>1, <1>9, <2>4
    <3>2. ASSUME NEW j \in DOMAIN new.chain
          PROVE  new.chain[j] = new.serial + j /\ (new.serial + j - 1) \in announced'
      <4>1. CASE j \in 1..m
        BY <1>7, <1>8, <1>10, <2>3, <2>6, <4>1 DEF ChainOK
      <4>2. CASE j = m + 1
        <5>1. new.serial + j = serial + 1 /\ new.serial + j - 1 = End(p)
          BY <1>1, <1>5, <1>7, <1>9, <2>4, <4>2
        <5>2. End(p) \in announced
          BY <1>4, <2>3 DEF ChainOK
        <5> QED BY <1>8, <2>6, <4>2, <5>1, <5>2
      <4>3. j \in 1..m \/ j = m + 1
        BY <1>5, <1>8
      <4> QED BY <4>1, <4>2, <4>3
    <3>3. new.HasChain <=> End(new) \in announced'
      BY <1>1, <1>7, <3>1
    <3>4. ~new.marker /\ (new.serial - 1) \in announced' => (new.serial - 1) \in gone'
      <4>1. p.serial - 1 \in announced' => p.serial - 1 \in announced
        BY <1>1, <2>3, <2>6
      <4> QED BY <1>7, <2>3, <4>1 DEF ChainOK
    <3> QED BY <2>8, <3>1, <3>2, <3>3, <3>4 DEF ChainOK
  <2>9. ASSUME NEW q \in Range(Rules') PROVE ChainOK(q)'
    <3>1. PICK k \in 1..n : q = Rules'[k]
      BY <1>12
    <3>2. CASE k = n
      <4>1. q = new
        BY <1>11, <3>1, <3>2
      <4> QED BY <2>8, <4>1
    <3>3. CASE k # n
      <4>1. q = Rules[k]
        BY <1>11, <3>1, <3>3
      <4> QED BY <2>7, <3>3, <4>1
    <3> QED BY <3>2, <3>3
  <2> QED BY <2>5, <2>9
<1> QED BY <1>11, <1>14, <1>15, <1>16, ListNext

(* A removal (RuleGroup.DeleteByID) leaves a list in order, with the chains *)
(* it had.                                                                  *)
LEMMA KeepInv ==
  ASSUME TypeOK, ListInv, NEW rules, Part(rules, Rules), Keep(rules)
  PROVE  ListInv' /\ Rules' \in Seq(RuleType) /\ gone' \subseteq 1..serial' /\ lenient' \in BOOLEAN
<1>1. /\ Rules' = rules /\ serial' = serial /\ announced' = announced /\ status' = status
      /\ gone' = gone \union (SerialsOf(Rules) \ SerialsOf(rules))
  BY DEF Keep
<1>2. /\ lenient' \in BOOLEAN
      /\ ~lenient' => ~lenient /\ \A r \in Range(Rules) : r.marker => r \in Range(rules)
  BY Zenon DEF Keep
<1>3. UniqueIDs(Rules) /\ SerialsOf(Rules) = (1..serial) \ gone /\ Ordered(Rules) /\ gone \subseteq 1..serial
  BY DEF ListInv, NothingLost, Ordered, TypeOK
<1>4. Rules \in Seq(RuleType) /\ rules \in Seq(RuleType) /\ Range(rules) \subseteq Range(Rules) /\ Ordered(rules)
  BY DEF Part, TypeOK
<1>5. UniqueIDs(Rules') /\ Ordered(Rules') /\ Rules' \in Seq(RuleType)
  BY <1>1, <1>3, <1>4, PartUnique
<1>6. SerialsOf(rules) \subseteq SerialsOf(Rules)
  BY <1>4 DEF SerialsOf
<1>7. SerialsOf(Rules') = (1..serial') \ gone' /\ gone' \subseteq 1..serial'
  BY <1>1, <1>3, <1>6, Zenon
<1>8. ASSUME ~lenient' PROVE Apart(Rules') /\ \A r \in Range(Rules') : ChainOK(r)'
  <2>1. ~lenient /\ \A r \in Range(Rules) : r.marker => r \in Range(rules)
    BY <1>2, <1>8
  <2>2. Apart(Rules) /\ \A r \in Range(Rules) : ChainOK(r)
    BY <2>1, Zenon DEF ListInv, ChainsInv
  <2>3. /\ DOMAIN Rules = 1..Len(Rules) /\ Range(Rules) = {Rules[k] : k \in 1..Len(Rules)}
        /\ \A q \in Range(Rules) : q.serial \in 1..serial
    BY Places DEF ListInv
  <2>4. DOMAIN rules = 1..Len(rules) /\ Range(rules) = {rules[k] : k \in 1..Len(rules)}
    BY <1>4, RangeIs
  <2>5. Apart(rules)
    <3> SUFFICES ASSUME NEW i \in DOMAIN rules, NEW j \in DOMAIN rules, i < j
                 PROVE  End(rules[i]) < rules[j].serial
      BY DEF Apart
    <3>1. rules[i] \in Range(Rules) /\ rules[j] \in Range(Rules) /\ rules[i].serial < rules[j].serial
      BY <1>4, <2>4 DEF Ordered
    <3>2. PICK a \in 1..Len(Rules) : Rules[a] = rules[i]
      BY <2>3, <3>1
    <3>3. PICK b \in 1..Len(Rules) : Rules[b] = rules[j]
      BY <2>3, <3>1
    <3>4. ~(b < a) /\ a # b
      <4>1. b < a => Rules[b].serial < Rules[a].serial
        BY <1>3, <2>3 DEF Ordered
      <4>2. Rules[a].serial \in 1..serial /\ Rules[b].serial \in 1..serial /\ serial \in Nat
        BY <2>3, <3>1, <3>2, <3>3 DEF TypeOK
      <4> QED BY <3>1, <3>2, <3>3, <4>1, <4>2
    <3>5. a < b
      BY <3>4
    <3> QED BY <2>2, <2>3, <3>2, <3>3, <3>5 DEF Apart
  <2>6. ASSUME NEW q \in Range(rules) PROVE ChainOK(q)'
    <3>1. q \in Range(Rules) /\ ChainOK(q)
      BY <1>4, <2>2
    <3>2. ASSUME NEW x \in Range(Rules), x.marker PROVE x \in Range(Rules')
      BY <1>1, <2>1, <3>2
    <3> QED BY <1>1, <3>1, <3>2 DEF ChainOK
  <2> QED BY <1>1, <2>5, <2>6
<1> QED BY <1>2, <1>5, <1>7, <1>8, ListNext
-----------------------------------------------------------------------------
(* FromFile keeps the directory of its caller: what a call restores when it *)
(* returns is the directory of the call below.                              *)
LEMMA PopStack ==
  ASSUME NEW calls \in Seq(Frame), calls # <<>>, Nested(calls)
  PROVE  /\ Head(calls) \in Frame /\ Tail(calls) \in Seq(Frame) /\ Nested(Tail(calls))
         /\ Head(calls).lastDir = DirOf(Tail(calls))
<1> DEFINE t == Tail(calls)
           n == Len(calls)
<1>1. /\ Head(calls) \in Frame /\ t \in Seq(Frame) /\ Len(t) = n - 1 /\ n \in Nat /\ n >= 1
      /\ Head(calls) = calls[1] /\ DOMAIN calls = 1..n /\ DOMAIN t = 1..(n - 1)
      /\ \A i \in 1..(n - 1) : t[i] = calls[i + 1]
  <2>1. /\ Head(calls) \in Frame /\ t \in Seq(Frame) /\ Len(t) = n - 1
        /\ \A i \in 1..Len(t) : t[i] = calls[i + 1]
    BY HeadTailProperties
  <2>2. n \in Nat /\ n >= 1 /\ Head(calls) = calls[1] /\ DOMAIN calls = 1..n /\ DOMAIN t = 1..Len(t)
    BY <2>1
  <2> HIDE DEF t, n
  <2> QED BY <2>1, <2>2
<1>2. \A i \in 1..n : calls[i].lastDir = IF i = n THEN <<>> ELSE calls[i + 1].dir
  BY <1>1, Zenon DEF Nested
<1> HIDE DEF t, n
<1>3. t = <<>> <=> n = 1
  <2>1. t = <<>> <=> Len(t) = 0
    BY <1>1, EmptySeq
  <2> QED BY <1>1, <2>1
<1>4. calls[1].lastDir = IF n = 1 THEN <<>> ELSE t[1].dir
  BY <1>1, <1>2
<1>5. Nested(t)
  <2>1. ASSUME NEW i \in 1..(n - 1) PROVE t[i].lastDir = IF i = n - 1 THEN <<>> ELSE t[i + 1].dir
    <3>1. t[i] = calls[i + 1] /\ i + 1 \in 1..n /\ (i + 1 = n <=> i = n - 1)
      BY <1>1
    <3>2. i # n - 1 => t[i + 1] = calls[i + 1 + 1]
      BY <1>1
    <3> QED BY <1>2, <3>1, <3>2
  <2> QED BY <1>1, <2>1 DEF Nested
<1>6. Head(calls).lastDir = DirOf(t)
  BY <1>1, <1>3, <1>4 DEF DirOf
<1> QED BY <1>1, <1>5, <1>6 DEF t

(* FromFile goes into a file: its Includes are looked up where it stands.   *)
LEMMA EnterFile ==
  ASSUME NEW dir, NEW files \in Seq(Seq(STRING)), files # <<>>, NEW outer \in Seq(Frame),
         dir \in Seq(STRING), dir = DirOf(outer), Nested(outer), NextFile(dir, files, outer),
         stack \in Seq(Frame), Nested(stack), status = "reading"
  PROVE  /\ currentDir' \in Seq(STRING) /\ stack' \in Seq(Frame) /\ StackInv'
         /\ status' \in {"reading", "error"}
<1> DEFINE file == Head(files)
           path == IF Len(file) > 0 /\ file[1] = "/" THEN file ELSE dir \o file
           f == [lastDir |-> dir, dir |-> Dir(path), rest |-> Tail(files)]
           n == Len(outer)
<1>1. Head(files) \in Seq(STRING) /\ Tail(files) \in Seq(Seq(STRING))
  BY HeadTailProperties
<1>2. path \in Seq(STRING)
  BY <1>1, ConcatProperties
<1>3. Dir(path) \in Seq(STRING)
  <2> HIDE DEF path
  <2>1. Len(path) - 1 \in Int /\ \A i \in 1..(Len(path) - 1) : path[i] \in STRING
    BY <1>2
  <2> QED BY <2>1, SubSeqProperties DEF Dir
<1>4. f \in Frame /\ f.lastDir = dir /\ f.dir = Dir(path)
  BY <1>1, <1>3 DEF Frame
<1>5. /\ currentDir' = Dir(path)
      /\ \/ stack' = <<f>> \o outer /\ status' = status
         \/ stack' = stack /\ status' = "error"
  BY DEF NextFile
<1> HIDE DEF path, f
<1>13. CASE stack' = stack /\ status' = "error"
  BY <1>3, <1>5, <1>13 DEF StackInv
<1> SUFFICES ASSUME stack' = <<f>> \o outer, status' = status
             PROVE  /\ currentDir' \in Seq(STRING) /\ stack' \in Seq(Frame) /\ StackInv'
                    /\ status' \in {"reading", "error"}
  BY <1>5, <1>13
<1>6. <<f>> \in Seq(Frame) /\ Len(<<f>>) = 1 /\ <<f>>[1] = f
  BY <1>4
<1>7. /\ stack' \in Seq(Frame) /\ Len(stack') = n + 1 /\ n \in Nat
      /\ \A i \in 1..(n + 1) : stack'[i] = IF i <= 1 THEN f ELSE outer[i - 1]
  <2>1. /\ <<f>> \o outer \in Seq(Frame) /\ Len(<<f>> \o outer) = 1 + n
        /\ \A i \in 1..(1 + n) : (<<f>> \o outer)[i] = IF i <= 1 THEN <<f>>[i] ELSE outer[i - 1]
    BY <1>6, ConcatProperties, Zenon
  <2> QED BY <1>5, <1>6, <2>1
<1>8. /\ DOMAIN outer = 1..n /\ (outer = <<>> <=> n = 0)
      /\ \A i \in 1..n : outer[i].lastDir = IF i = n THEN <<>> ELSE outer[i + 1].dir
  BY DEF Nested
<1>9. DOMAIN stack' = 1..(n + 1) /\ stack' # <<>>
  BY <1>7
<1> HIDE DEF n
<1>10. stack'[1] = f /\ \A i \in 1..n : stack'[i + 1] = outer[i]
  BY <1>7
<1>11. currentDir' = DirOf(stack')
  BY <1>4, <1>5, <1>9, <1>10 DEF DirOf
<1>12. Nested(stack')
  <2> SUFFICES ASSUME NEW i \in 1..(n + 1)
               PROVE  stack'[i].lastDir = IF i = n + 1 THEN <<>> ELSE stack'[i + 1].dir
    BY <1>7, <1>9 DEF Nested
  <2>1. CASE i = 1
    <3>1. CASE n = 0
      BY <1>4, <1>8, <1>10, <2>1, <3>1 DEF DirOf
    <3>2. CASE n # 0
      <4>1. 1 \in 1..n /\ stack'[1 + 1] = outer[1] /\ i # n + 1
        BY <1>7, <1>10, <2>1, <3>2
      <4> QED BY <1>4, <1>8, <1>10, <2>1, <3>2, <4>1 DEF DirOf
    <3> QED BY <3>1, <3>2
  <2>2. CASE i # 1
    <3>1. i - 1 \in 1..n /\ stack'[i] = outer[i - 1] /\ (i - 1 = n <=> i = n + 1)
      BY <1>7, <2>2
    <3>2. i # n + 1 => i \in 1..n /\ i - 1 + 1 = i
      BY <1>7
    <3>3. i # n + 1 => stack'[i + 1] = outer[i]
      BY <1>10, <3>2
    <3> QED BY <1>8, <3>1, <3>2, <3>3
  <2> QED BY <2>1, <2>2
<1> QED BY <1>3, <1>5, <1>7, <1>11, <1>12 DEF StackInv
-----------------------------------------------------------------------------
(* The last of several default actions for a phase exists (ParseActions).   *)
LEMMA MaxExists ==
  ASSUME NEW n \in Nat, NEW T, T \subseteq 1..n, T # {}
  PROVE  Max(T) \in T
<1> DEFINE U == {n - x : x \in T}
<1>1. U \subseteq Nat /\ U # {}
  <2>1. \A x \in T : n - x \in Nat
    OBVIOUS
  <2> QED BY <2>1, Zenon
<1>2. PICK u \in U : \A y \in U : u <= y
  <2> HIDE DEF U
  <2> QED BY <1>1, NatMin, Zenon
<1>3. PICK x \in T : u = n - x
  OBVIOUS
<1>4. ASSUME NEW y \in T PROVE x >= y
  <2>1. n - x <= n - y /\ x \in 1..n /\ y \in 1..n
    BY <1>2, <1>3
  <2> QED BY <2>1
<1> QED BY <1>4 DEF Max

(* The default actions of a phase, when there are any. *)
LEMMA DefaultsTyped ==
  ASSUME TypeOK, NEW phase, HasDefaults(phase)
  PROVE  DefaultsOf(phase) \in Range(Declared) /\ DefaultsOf(phase).disruptive \in Seq(Disruptive)
<1> DEFINE D == [phase : 0..5, disruptive : Seq(Disruptive)]
           n == Len(Declared)
           T == {i \in DOMAIN Declared : Declared[i].phase = phase}
<1>1. BuiltIn \in D
  <2>1. ASSUME NEW S, NEW x \in S PROVE <<x>> \in Seq(S)
    OBVIOUS
  <2>2. "pass" \in Disruptive
    BY DEF Disruptive
  <2>3. <<"pass">> \in Seq(Disruptive)
    BY <2>1, <2>2
  <2> QED BY <2>3 DEF BuiltIn
<1>2. Declared \in Seq(D)
  <2> HIDE DEF D
  <2>1. <<BuiltIn>> \in Seq(D)
    BY <1>1
  <2>2. defaults \in Seq(D)
    BY DEF TypeOK, D
  <2> QED BY <2>1, <2>2 DEF Declared
<1>3. n \in Nat /\ DOMAIN Declared = 1..n /\ Range(Declared) = {Declared[i] : i \in 1..n}
      /\ Range(Declared) \subseteq D
  <2> HIDE DEF D
  <2> QED BY <1>2, RangeIs
<1> HIDE DEF n
<1>4. T \subseteq 1..n /\ T # {}
  BY <1>3 DEF HasDefaults
<1>5. Max(T) \in T
  <2> HIDE DEF T
  <2> QED BY <1>3, <1>4, MaxExists, Zenon
<1>6. DefaultsOf(phase) \in Range(Declared)
  BY <1>3, <1>4, <1>5, Zenon DEF DefaultsOf
<1> QED BY <1>3, <1>6

(* ParseActions and mergeActions make a rule of a line that is accepted. *)
LEMMA ParsedTyped ==
  ASSUME TypeOK, NEW l \in RuleLines, NEW n \in Nat, DefaultsParse
  PROVE  /\ Parsed(l, n) \in RuleType
         /\ Parsed(l, n).serial = n /\ Parsed(l, n).chain = <<>> /\ Parsed(l, n).id = l.id
         /\ Parsed(l, n).HasChain = l.chain /\ ~Parsed(l, n).marker
<1> DEFINE phase == IF l.phase = 0 THEN 2 ELSE l.phase
           dis == IF l.hasActions /\ HasDefaults(phase) THEN mergeActions(l.disruptive, DefaultsOf(phase))
                  ELSE l.disruptive
<1>1. /\ l.id \in Nat /\ l.phase \in 0..5 /\ l.tag \in Text /\ l.msg \in Text
      /\ l.disruptive \subseteq Disruptive
  BY DEF RuleLines
<1>2. l.chain \in BOOLEAN
  BY DEF RuleLines
<1>3. phase \in 0..5
  BY <1>1
<1>4. Parsed(l, n) = [id |-> l.id, phase |-> phase, tag |-> l.tag, msg |-> l.msg, marker |-> FALSE,
                      disruptive |-> dis, serial |-> n, chain |-> <<>>, HasChain |-> l.chain]
  BY DEF Parsed
<1> HIDE DEF phase
<1>5. dis \subseteq Disruptive
  <2>1. CASE l.hasActions /\ HasDefaults(phase)
    <3> DEFINE d == DefaultsOf(phase)
    <3>1. d \in Range(Declared) /\ d.disruptive \in Seq(Disruptive)
      BY <2>1, DefaultsTyped
    <3>2. d.disruptive # <<>>
      BY <3>1 DEF DefaultsParse
    <3> HIDE DEF d
    <3>3. Last(d.disruptive) \in Disruptive
      BY <3>1, <3>2 DEF Last
    <3>4. mergeActions(l.disruptive, d) \subseteq Disruptive
      BY <1>1, <3>3 DEF mergeActions
    <3> QED BY <2>1, <3>4 DEF d
  <2>2. CASE ~(l.hasActions /\ HasDefaults(phase))
    BY <1>1, <2>2
  <2> QED BY <2>1, <2>2
<1> HIDE DEF dis
<1>6. <<>> \in Seq(Nat) /\ dis \in SUBSET Disruptive
  BY <1>5
<1> DEFINE q == [id |-> l.id, phase |-> phase, tag |-> l.tag, msg |-> l.msg, marker |-> FALSE,
                 disruptive |-> dis, serial |-> n, chain |-> <<>>, HasChain |-> l.chain]
<1>7. q \in RuleType
  BY <1>1, <1>2, <1>3, <1>6, Zenon DEF RuleType
<1>8. q.serial = n /\ q.chain = <<>> /\ q.id = l.id /\ q.HasChain = l.chain /\ ~q.marker
  OBVIOUS
<1>9. Parsed(l, n) = q
  BY <1>4
<1> HIDE DEF q
<1> QED BY <1>7, <1>8, <1>9

(* What a directive may leave of the types, one by one. *)
LEMMA TypeNext ==
  ASSUME TypeOK, Rules' \in Seq(RuleType), ignoreErrors' \in BOOLEAN, lenient' \in BOOLEAN,
         defaults' \in Seq([phase : 0..5, disruptive : Seq(Disruptive)]),
         includeCount' \in Nat, currentDir' \in Seq(STRING), stack' \in Seq(Frame),
         status' \in {"reading", "done", "error", "panic"}, lines' \in 0..MaxLines,
         serial' \in Nat, announced' \subseteq 1..serial', gone' \subseteq 1..serial'
  PROVE  TypeOK'
  BY DEF TypeOK, Frame

(* A line that is read (Parser.evaluateLine). *)
LEMMA ReadTyped ==
  ASSUME TypeOK, NEW l, Read(l)
  PROVE  status = "reading" /\ lines' \in 0..MaxLines /\ palette' = palette
<1>1. MaxLines \in Nat
  BY SecLangAssumption
<1> QED BY <1>1 DEF TypeOK, Read

(* Where nothing is included, nothing changes of the calls (FromFile). *)
LEMMA FilesFrame ==
  ASSUME TypeOK, StackInv, UNCHANGED fileVars, status' = status \/ status' # "reading"
  PROVE  /\ StackInv' /\ includeCount' \in Nat /\ currentDir' \in Seq(STRING) /\ stack' \in Seq(Frame)
<1>1. includeCount' = includeCount /\ currentDir' = currentDir /\ stack' = stack
  BY DEF fileVars
<1>2. includeCount' \in Nat /\ currentDir' \in Seq(STRING) /\ stack' \in Seq(Frame)
  BY <1>1 DEF TypeOK, Frame
<1>3. StackInv'
  BY <1>1 DEF StackInv
<1> QED BY <1>2, <1>3
-----------------------------------------------------------------------------
(* directiveSecRule and directiveSecAction keep the invariant. *)
LEMMA AddRuleInv ==
  ASSUME IInv, NEW l \in palette, AddRule(l)
  PROVE  IInv'
<1> DEFINE r == Parsed(l, serial + 1)
           bad == ~l.compiles \/ ~DefaultsParse \/ (~ExpectingChain /\ Duplicate(l.id))
<1>1. palette \in Palettes /\ TypeOK /\ StackInv /\ ListInv
  BY DEF IInv
<1>2. /\ Read(l) /\ l.dir \in {"SecRule", "SecAction"} /\ serial' = serial + 1
      /\ announced' = IF l.chain THEN announced \union {serial + 1} ELSE announced
  BY DEF AddRule
<1>3. \/ bad /\ Fail("error") /\ gone' = gone \union {serial + 1} /\ lenient' = lenient
      \/ bad /\ gone' = gone \union {serial + 1} /\ lenient' = TRUE /\ UNCHANGED <<listVars, fileVars, status>>
      \/ /\ ~bad /\ Rules' = (IF ExpectingChain THEN Chained(r) ELSE Append(Rules, r))
         /\ UNCHANGED <<defaults, ignoreErrors, fileVars, status, gone, lenient>>
  BY <1>2, Zenon DEF AddRule
<1>4. status = "reading" /\ lines' \in 0..MaxLines /\ palette' = palette
  BY <1>1, <1>2, ReadTyped
<1>5. l \in RuleLines
  BY <1>1, <1>2, LineTyped
<1>6. UNCHANGED <<defaults, ignoreErrors, fileVars>>
  BY <1>3 DEF Fail, listVars, fileVars
<1>7. /\ StackInv' /\ includeCount' \in Nat /\ currentDir' \in Seq(STRING) /\ stack' \in Seq(Frame)
  <2>1. status' = status \/ status' # "reading"
    BY <1>3 DEF Fail
  <2> QED BY <1>1, <1>6, <2>1, FilesFrame
<1>8. /\ serial \in Nat /\ announced \subseteq 1..serial /\ gone \subseteq 1..serial
      /\ Rules \in Seq(RuleType) /\ defaults' \in Seq([phase : 0..5, disruptive : Seq(Disruptive)])
  BY <1>1, <1>6 DEF TypeOK
<1>9. ignoreErrors' \in BOOLEAN /\ lenient \in BOOLEAN
  BY <1>1, <1>6 DEF TypeOK
<1>10. serial' \in Nat /\ announced' \subseteq 1..serial' /\ \A x \in gone : x \in 1..serial'
  BY <1>2, <1>8
<1>11. ASSUME bad PROVE TypeOK' /\ ListInv'
  <2>1. /\ Rules' = Rules /\ gone' = gone \union {serial + 1}
        /\ \/ status' = "error" /\ lenient' = lenient
           \/ status' = status /\ lenient' = TRUE
    BY <1>3, <1>11 DEF Fail, listVars
  <2>2. ListInv'
    BY <1>1, <1>2, <1>4, <2>1, RejectInv
  <2>3. gone' \subseteq 1..serial' /\ status' \in {"reading", "done", "error", "panic"}
    BY <1>2, <1>4, <1>8, <1>10, <2>1
  <2>4. lenient' \in BOOLEAN
    BY <1>9, <2>1, Zenon
  <2>5. TypeOK'
    BY <1>1, <1>4, <1>7, <1>8, <1>9, <1>10, <2>1, <2>3, <2>4, TypeNext
  <2> QED BY <2>2, <2>5
<1>12. ASSUME ~bad PROVE TypeOK' /\ ListInv'
  <2>1. /\ Rules' = (IF ExpectingChain THEN Chained(r) ELSE Append(Rules, r))
        /\ status' = status /\ gone' = gone /\ lenient' = lenient
    BY <1>3, <1>12
  <2>2. /\ r \in RuleType /\ r.serial = serial + 1 /\ r.chain = <<>> /\ r.id = l.id
        /\ r.HasChain = l.chain
    BY <1>1, <1>5, <1>8, <1>12, ParsedTyped
  <2>3. announced' = IF r.HasChain THEN announced \union {serial + 1} ELSE announced
    BY <1>2, <2>2
  <2>4. ASSUME ExpectingChain PROVE ListInv' /\ Rules' \in Seq(RuleType)
    <3> HIDE DEF r
    <3> QED BY <1>1, <1>2, <1>4, <2>1, <2>2, <2>3, <2>4, ChainedInv, Zenon
  <2>5. ASSUME ~ExpectingChain PROVE ListInv' /\ Rules' \in Seq(RuleType)
    <3>1. ~Duplicate(r.id) /\ Rules' = Append(Rules, r)
      BY <1>12, <2>1, <2>2, <2>5
    <3> HIDE DEF r
    <3>2. ListInv'
      BY <1>1, <1>2, <1>4, <2>1, <2>2, <2>3, <2>5, <3>1, AppendInv
    <3>3. Rules' \in Seq(RuleType)
      BY <1>8, <2>2, <3>1, AppendProperties
    <3> QED BY <3>2, <3>3
  <2>6. ListInv' /\ Rules' \in Seq(RuleType)
    BY <2>4, <2>5
  <2>7. gone' \subseteq 1..serial' /\ status' \in {"reading", "done", "error", "panic"}
    BY <1>4, <1>10, <2>1
  <2>8. lenient' \in BOOLEAN
    BY <1>9, <2>1
  <2>9. TypeOK'
    BY <1>1, <1>4, <1>7, <1>8, <1>9, <1>10, <2>6, <2>7, <2>8, TypeNext
  <2> QED BY <2>6, <2>9
<1>13. TypeOK' /\ ListInv'
  BY <1>11, <1>12
<1> QED BY <1>1, <1>4, <1>7, <1>13 DEF IInv

(* directiveSecMarker keeps the invariant. *)
LEMMA SecMarkerInv ==
  ASSUME IInv, NEW l \in palette, SecMarker(l)
  PROVE  IInv'
<1> DEFINE r == [id |-> 0, phase |-> 0, tag |-> None, msg |-> None,
                 marker |-> TRUE, disruptive |-> {}, serial |-> serial + 1,
                 chain |-> <<>>, HasChain |-> FALSE]
<1>1. palette \in Palettes /\ TypeOK /\ StackInv /\ ListInv
  BY DEF IInv
<1>2. /\ Read(l) /\ serial' = serial + 1 /\ Rules' = Append(Rules, r) /\ status' = status
      /\ announced' = announced /\ gone' = gone /\ lenient' = lenient
      /\ UNCHANGED <<defaults, ignoreErrors, fileVars>>
  BY DEF SecMarker
<1>3. status = "reading" /\ lines' \in 0..MaxLines /\ palette' = palette
  BY <1>1, <1>2, ReadTyped
<1>4. /\ StackInv' /\ includeCount' \in Nat /\ currentDir' \in Seq(STRING) /\ stack' \in Seq(Frame)
  BY <1>1, <1>2, FilesFrame
<1>5. /\ serial \in Nat /\ announced \subseteq 1..serial /\ gone \subseteq 1..serial
      /\ Rules \in Seq(RuleType) /\ defaults' \in Seq([phase : 0..5, disruptive : Seq(Disruptive)])
  BY <1>1, <1>2 DEF TypeOK
<1>6. ignoreErrors' \in BOOLEAN /\ lenient' \in BOOLEAN
  BY <1>1, <1>2 DEF TypeOK
<1>7. /\ r \in RuleType /\ r.serial = serial + 1 /\ r.chain = <<>> /\ r.id = 0
      /\ r.HasChain = FALSE /\ r.marker
  <2>1. None \in Text /\ <<>> \in Seq(Nat) /\ serial + 1 \in Nat
    BY <1>5 DEF Text
  <2>2. 0 \in Nat /\ 0 \in 0..5 /\ {} \in SUBSET Disruptive
    OBVIOUS
  <2>3. r \in RuleType
    BY <2>1, <2>2, Zenon DEF RuleType
  <2>4. r.serial = serial + 1 /\ r.chain = <<>> /\ r.id = 0 /\ r.HasChain = FALSE /\ r.marker
    BY Zenon
  <2> QED BY <2>3, <2>4, Zenon
<1> HIDE DEF r
<1>8. ~Duplicate(r.id) /\ announced' = IF r.HasChain THEN announced \union {serial + 1} ELSE announced
  BY <1>2, <1>7 DEF Duplicate
<1>9. ListInv'
  BY <1>1, <1>2, <1>3, <1>7, <1>8, AppendInv
<1>10. Rules' \in Seq(RuleType)
  BY <1>2, <1>5, <1>7, AppendProperties
<1>11. /\ serial' \in Nat /\ announced' \subseteq 1..serial' /\ gone' \subseteq 1..serial'
       /\ status' \in {"reading", "done", "error", "panic"}
  BY <1>2, <1>3, <1>5
<1>12. TypeOK'
  BY <1>1, <1>3, <1>4, <1>5, <1>6, <1>10, <1>11, TypeNext
<1> QED BY <1>1, <1>3, <1>4, <1>9, <1>12 DEF IInv

(* A removal keeps the invariant. *)
LEMMA RemovalInv ==
  ASSUME IInv, NEW l \in palette, Read(l), NEW rules, Part(rules, Rules), Keep(rules)
  PROVE  IInv'
<1>1. palette \in Palettes /\ TypeOK /\ StackInv /\ ListInv
  BY DEF IInv
<1>2. /\ serial' = serial /\ announced' = announced /\ status' = status
      /\ UNCHANGED <<defaults, ignoreErrors, fileVars>>
  BY DEF Keep
<1>3. status = "reading" /\ lines' \in 0..MaxLines /\ palette' = palette
  BY <1>1, ReadTyped
<1>4. /\ StackInv' /\ includeCount' \in Nat /\ currentDir' \in Seq(STRING) /\ stack' \in Seq(Frame)
  BY <1>1, <1>2, FilesFrame
<1>5. ListInv' /\ Rules' \in Seq(RuleType) /\ gone' \subseteq 1..serial' /\ lenient' \in BOOLEAN
  BY <1>1, KeepInv
<1>6. /\ serial' \in Nat /\ announced' \subseteq 1..serial'
      /\ defaults' \in Seq([phase : 0..5, disruptive : Seq(Disruptive)])
      /\ status' \in {"reading", "done", "error", "panic"}
  BY <1>1, <1>2 DEF TypeOK
<1>7. ignoreErrors' \in BOOLEAN
  BY <1>1, <1>2 DEF TypeOK
<1>8. TypeOK'
  BY <1>1, <1>3, <1>4, <1>5, <1>6, <1>7, TypeNext
<1> QED BY <1>1, <1>3, <1>4, <1>5, <1>8 DEF IInv

(* A directive that leaves the list, the files and the counts as they are,  *)
(* whether or not it ends the reading.                                      *)
LEMMA OtherInv ==
  ASSUME IInv, lines' \in 0..MaxLines, palette' = palette, UNCHANGED <<Rules, fileVars, historyVars>>,
         defaults' \in Seq([phase : 0..5, disruptive : Seq(Disruptive)]), ignoreErrors' \in BOOLEAN,
         status' = status \/ status' \in {"done", "error", "panic"}
  PROVE  IInv'
<1>1. palette \in Palettes /\ TypeOK /\ StackInv /\ ListInv
  BY DEF IInv
<1>2. /\ Rules' = Rules /\ serial' = serial /\ announced' = announced /\ gone' = gone
      /\ lenient' = lenient /\ UNCHANGED fileVars
  BY DEF historyVars
<1>3. /\ StackInv' /\ includeCount' \in Nat /\ currentDir' \in Seq(STRING) /\ stack' \in Seq(Frame)
  BY <1>1, <1>2, FilesFrame
<1>4. status' = status \/ status' # "reading"
  OBVIOUS
<1>5. ListInv'
  BY <1>1, <1>2, <1>4, ListFrame
<1>6. /\ serial' \in Nat /\ announced' \subseteq 1..serial' /\ gone' \subseteq 1..serial'
      /\ Rules' \in Seq(RuleType) /\ status' \in {"reading", "done", "error", "panic"}
  BY <1>1, <1>2 DEF TypeOK
<1>7. lenient' \in BOOLEAN
  BY <1>1, <1>2 DEF TypeOK
<1>8. TypeOK'
  BY <1>1, <1>3, <1>6, <1>7, TypeNext
<1> QED BY <1>1, <1>3, <1>5, <1>8 DEF IInv

(* directiveSecRuleRemoveByID, ByTag and ByMsg keep the invariant. *)
LEMMA RemovalsInv ==
  ASSUME IInv, NEW l \in palette,
         SecRuleRemoveByID(l) \/ SecRuleRemoveByTag(l) \/ SecRuleRemoveByMsg(l)
  PROVE  IInv'
<1>1. TypeOK /\ Rules \in Seq(RuleType) /\ Ordered(Rules) /\ UniqueIDs(Rules)
  BY DEF IInv, TypeOK, ListInv, NothingLost, Ordered
<1>2. CASE SecRuleRemoveByID(l)
  <2>1. Read(l) /\ Keep(DeleteByID(Rules, l.id))
    BY <1>2 DEF SecRuleRemoveByID
  <2>2. Part(DeleteByID(Rules, l.id), Rules)
    BY <1>1, DeletePart
  <2> QED BY <2>1, <2>2, RemovalInv
<1>3. CASE SecRuleRemoveByTag(l)
  <2>1. Read(l) /\ Keep(DeleteAll(Tagged(l.tag)))
    BY <1>3 DEF SecRuleRemoveByTag
  <2>2. Part(DeleteAll(Tagged(l.tag)), Rules)
    BY <1>1, DeleteAllPart, Zenon
  <2> QED BY <2>1, <2>2, RemovalInv
<1>4. CASE SecRuleRemoveByMsg(l)
  <2> DEFINE found == Saying(l.msg)
  <2>1. Read(l) /\ (Keep(DeleteAll(found)) \/ (Fail("panic") /\ UNCHANGED historyVars))
    BY <1>4 DEF SecRuleRemoveByMsg
  <2> HIDE DEF found
  <2>2. lines' \in 0..MaxLines /\ palette' = palette
    BY <1>1, <2>1, ReadTyped
  <2>3. CASE Keep(DeleteAll(found))
    <3>1. Part(DeleteAll(found), Rules)
      BY <1>1, DeleteAllPart
    <3> QED BY <2>1, <2>3, <3>1, RemovalInv
  <2>4. CASE Fail("panic") /\ UNCHANGED historyVars
    <3>1. /\ status' = "panic" /\ UNCHANGED <<Rules, fileVars, historyVars>>
          /\ defaults' = defaults /\ ignoreErrors' = ignoreErrors
      BY <2>4 DEF Fail, listVars
    <3>2. defaults' \in Seq([phase : 0..5, disruptive : Seq(Disruptive)])
      BY <1>1, <3>1 DEF TypeOK
    <3>3. ignoreErrors' \in BOOLEAN
      BY <1>1, <3>1 DEF TypeOK
    <3> QED BY <2>2, <3>1, <3>2, <3>3, OtherInv
  <2> QED BY <2>1, <2>3, <2>4
<1> QED BY <1>2, <1>3, <1>4

(* directiveSecRuleUpdateTargetByID, directiveSecDefaultAction,             *)
(* directiveSecIgnoreRuleCompilationErrors and a directive that is not in   *)
(* directivesMap keep the invariant.                                        *)
LEMMA SettingsInv ==
  ASSUME IInv, NEW l \in palette,
         \/ SecRuleUpdateTargetByID(l) \/ SecDefaultAction(l)
         \/ SecIgnoreRuleCompilationErrors(l) \/ Unsupported(l)
  PROVE  IInv'
<1>1. TypeOK /\ palette \in Palettes /\ Read(l)
  BY Zenon DEF IInv, SecRuleUpdateTargetByID, SecDefaultAction, SecIgnoreRuleCompilationErrors, Unsupported
<1>2. lines' \in 0..MaxLines /\ palette' = palette
  BY <1>1, ReadTyped
<1>3. defaults \in Seq([phase : 0..5, disruptive : Seq(Disruptive)])
  BY <1>1 DEF TypeOK
<1>4. ignoreErrors \in BOOLEAN
  BY <1>1 DEF TypeOK
<1>5. CASE SecRuleUpdateTargetByID(l)
  <2>1. /\ UNCHANGED <<Rules, fileVars, historyVars>> /\ defaults' = defaults /\ ignoreErrors' = ignoreErrors
        /\ status' = status \/ status' \in {"done", "error", "panic"}
    BY <1>5 DEF SecRuleUpdateTargetByID, Fail, listVars
  <2> QED BY <1>2, <1>3, <1>4, <2>1, OtherInv
<1>6. CASE SecDefaultAction(l)
  <2> DEFINE d == [phase |-> l.phase, disruptive |-> l.disruptive]
             D == [phase : 0..5, disruptive : Seq(Disruptive)]
  <2>1. /\ UNCHANGED <<Rules, fileVars, historyVars>> /\ defaults' = Append(defaults, d)
        /\ ignoreErrors' = ignoreErrors /\ status' = status /\ l.dir = "SecDefaultAction"
    BY <1>6 DEF SecDefaultAction
  <2>2. d \in D
    BY <1>1, <2>1, LineTyped
  <2> HIDE DEF d
  <2>3. defaults' \in Seq(D)
    <3> HIDE DEF D
    <3>1. defaults \in Seq(D)
      BY <1>3 DEF D
    <3> QED BY <2>1, <2>2, <3>1, AppendProperties
  <2> QED BY <1>2, <1>4, <2>1, <2>3, OtherInv
<1>7. CASE SecIgnoreRuleCompilationErrors(l)
  <2>1. /\ UNCHANGED <<Rules, fileVars, historyVars>> /\ defaults' = defaults
        /\ ignoreErrors' = l.on /\ status' = status /\ l.dir = "SecIgnoreRuleCompilationErrors"
    BY <1>7 DEF SecIgnoreRuleCompilationErrors
  <2>2. l.on \in BOOLEAN
    BY <1>1, <2>1, LineTyped
  <2>3. ignoreErrors' \in BOOLEAN
    BY <2>1, <2>2, Zenon
  <2> QED BY <1>2, <1>3, <2>1, <2>3, OtherInv
<1>8. CASE Unsupported(l)
  <2>1. /\ UNCHANGED <<Rules, fileVars, historyVars>> /\ defaults' = defaults /\ ignoreErrors' = ignoreErrors
        /\ status' = "error"
    BY <1>8 DEF Unsupported, Fail, listVars
  <2> QED BY <1>2, <1>3, <1>4, <2>1, OtherInv
<1> QED BY <1>5, <1>6, <1>7, <1>8

(* A step that only goes in or out of files. *)
LEMMA FilesInv ==
  ASSUME IInv, lines' \in 0..MaxLines, palette' = palette, UNCHANGED <<listVars, historyVars>>,
         status = "reading", status' \in {"reading", "error"},
         includeCount' \in Nat, currentDir' \in Seq(STRING), stack' \in Seq(Frame), StackInv'
  PROVE  IInv'
<1>1. palette \in Palettes /\ TypeOK /\ ListInv
  BY DEF IInv
<1>2. /\ Rules' = Rules /\ defaults' = defaults /\ ignoreErrors' = ignoreErrors
      /\ status' = status \/ status' # "reading"
      /\ serial' = serial /\ announced' = announced /\ gone' = gone /\ lenient' = lenient
  BY DEF listVars, historyVars
<1>3. ListInv'
  BY <1>1, <1>2, ListFrame
<1>4. /\ serial' \in Nat /\ announced' \subseteq 1..serial' /\ gone' \subseteq 1..serial'
      /\ Rules' \in Seq(RuleType) /\ status' \in {"reading", "done", "error", "panic"}
      /\ defaults' \in Seq([phase : 0..5, disruptive : Seq(Disruptive)])
  BY <1>1, <1>2 DEF TypeOK
<1>5. ignoreErrors' \in BOOLEAN /\ lenient' \in BOOLEAN
  BY <1>1, <1>2 DEF TypeOK
<1>6. TypeOK'
  BY <1>1, <1>4, <1>5, TypeNext
<1> QED BY <1>1, <1>3, <1>6 DEF IInv

(* Include keeps the invariant. *)
LEMMA IncludeInv ==
  ASSUME IInv, NEW l \in palette, Include(l)
  PROVE  IInv'
<1>1. /\ TypeOK /\ palette \in Palettes /\ StackInv /\ Read(l) /\ l.dir = "Include" /\ UNCHANGED historyVars
  BY DEF IInv, Include
<1>2. lines' \in 0..MaxLines /\ palette' = palette
  BY <1>1, ReadTyped
<1>3. l.files \in Seq(Seq(STRING))
  BY <1>1, LineTyped
<1>4. /\ defaults \in Seq([phase : 0..5, disruptive : Seq(Disruptive)]) /\ includeCount \in Nat
      /\ currentDir \in Seq(STRING) /\ stack \in Seq(Frame)
  BY <1>1 DEF TypeOK, Frame
<1>5. ignoreErrors \in BOOLEAN
  BY <1>1 DEF TypeOK
<1>6. CASE includeCount >= maxIncludeRecursion
  <2>1. /\ UNCHANGED <<Rules, fileVars, historyVars>> /\ defaults' = defaults /\ ignoreErrors' = ignoreErrors
        /\ status' = "error"
    BY <1>1, <1>6 DEF Include, Fail, listVars
  <2> QED BY <1>2, <1>4, <1>5, <2>1, OtherInv
<1>7. CASE ~(includeCount >= maxIncludeRecursion)
  <2>1. /\ includeCount' = includeCount + 1 /\ UNCHANGED listVars /\ status = "reading"
        /\ IF l.files = <<>> THEN UNCHANGED <<currentDir, stack, status>>
           ELSE NextFile(currentDir, l.files, stack)
    BY <1>7 DEF Include, Counted, Read
  <2>2. /\ currentDir' \in Seq(STRING) /\ stack' \in Seq(Frame) /\ StackInv'
        /\ status' \in {"reading", "error"}
    <3>1. CASE l.files = <<>>
      <4>1. currentDir' = currentDir /\ stack' = stack /\ status' = status
        BY <2>1, <3>1
      <4>2. StackInv'
        BY <1>1, <4>1, Zenon DEF StackInv
      <4> QED BY <1>4, <2>1, <4>1, <4>2
    <3>2. CASE l.files # <<>>
      <4>1. currentDir = DirOf(stack) /\ Nested(stack)
        BY <1>1, <2>1 DEF StackInv
      <4> QED BY <1>3, <1>4, <2>1, <3>2, <4>1, EnterFile, Zenon
    <3> QED BY <3>1, <3>2
  <2>3. includeCount' \in Nat
    <3>1. includeCount' = includeCount + 1 /\ includeCount \in Nat
      BY <1>4, <2>1, Zenon
    <3> QED BY <3>1
  <2>4. UNCHANGED <<listVars, historyVars>>
    BY <1>1, <2>1, Zenon
  <2> QED BY <1>2, <2>1, <2>2, <2>3, <2>4, FilesInv, Zenon
<1> QED BY <1>6, <1>7

(* The end of a file keeps the invariant. *)
LEMMA EndOfFileInv ==
  ASSUME IInv, EndOfFile
  PROVE  IInv'
<1>1. TypeOK /\ StackInv
  BY DEF IInv
<1>2. /\ includeCount \in Nat /\ stack \in Seq(Frame) /\ lines \in 0..MaxLines /\ stack # <<>>
      /\ status = "reading"
  BY <1>1 DEF TypeOK, Frame, EndOfFile
<1>3. /\ Head(stack) \in Frame /\ Tail(stack) \in Seq(Frame) /\ Nested(Tail(stack))
      /\ Head(stack).lastDir = DirOf(Tail(stack))
  BY <1>1, <1>2, PopStack DEF StackInv
<1>4. Head(stack).lastDir \in Seq(STRING) /\ Head(stack).rest \in Seq(Seq(STRING))
  BY <1>3, Zenon DEF Frame
<1>5. /\ currentDir' \in Seq(STRING) /\ stack' \in Seq(Frame) /\ StackInv'
      /\ status' \in {"reading", "error"}
  <2>1. CASE Head(stack).rest = <<>>
    <3>1. stack' = Tail(stack) /\ currentDir' = Head(stack).lastDir /\ status' = status
      BY <2>1 DEF EndOfFile
    <3> QED BY <1>2, <1>3, <1>4, <3>1 DEF StackInv
  <2>2. CASE Head(stack).rest # <<>>
    <3>1. NextFile(Head(stack).lastDir, Head(stack).rest, Tail(stack))
      BY <2>2 DEF EndOfFile
    <3>2. Nested(stack)
      BY <1>1 DEF StackInv
    <3> QED BY <1>2, <1>3, <1>4, <2>2, <3>1, <3>2, EnterFile, Zenon
  <2> QED BY <2>1, <2>2
<1>6. UNCHANGED <<listVars, historyVars>> /\ palette' = palette
      /\ includeCount' = includeCount /\ lines' = lines
  BY DEF EndOfFile
<1> QED BY <1>2, <1>5, <1>6, FilesInv

(* The end of the text keeps the invariant. *)
LEMMA DoneInv ==
  ASSUME IInv, Done
  PROVE  IInv'
<1>1. /\ UNCHANGED <<Rules, fileVars, historyVars>> /\ defaults' = defaults /\ ignoreErrors' = ignoreErrors
      /\ status' = "done" /\ palette' = palette /\ lines' = lines
  BY DEF Done, listVars
<1>2. /\ defaults \in Seq([phase : 0..5, disruptive : Seq(Disruptive)]) /\ lines \in 0..MaxLines
  BY DEF IInv, TypeOK
<1>3. ignoreErrors \in BOOLEAN
  BY DEF IInv, TypeOK
<1> QED BY <1>1, <1>2, <1>3, OtherInv

(* A parser that has read nothing satisfies the invariant (NewParser). *)
LEMMA InitInv ==
  ASSUME Init
  PROVE  IInv
<1>1. /\ palette \in Palettes /\ Rules = <<>> /\ defaults = <<>> /\ ignoreErrors = FALSE /\ includeCount = 0
      /\ currentDir = <<>> /\ stack = <<>> /\ status = "reading" /\ lines = 0
      /\ serial = 0 /\ announced = {} /\ gone = {} /\ lenient = FALSE
  BY DEF Init
<1>2. MaxLines \in Nat /\ 1..0 = {}
  BY SecLangAssumption
<1>3. DOMAIN Rules = {} /\ Range(Rules) = {} /\ DOMAIN stack = {}
  BY <1>1 DEF Range
<1>4. TypeOK
  <2>1. ignoreErrors \in BOOLEAN /\ lenient \in BOOLEAN
    BY <1>1, Zenon
  <2>2. Rules \in Seq(RuleType) /\ defaults \in Seq([phase : 0..5, disruptive : Seq(Disruptive)])
    BY <1>1
  <2>3. currentDir \in Seq(STRING)
        /\ stack \in Seq([lastDir : Seq(STRING), dir : Seq(STRING), rest : Seq(Seq(STRING))])
    BY <1>1
  <2>4. /\ includeCount \in Nat /\ lines \in 0..MaxLines /\ serial \in Nat
        /\ status \in {"reading", "done", "error", "panic"}
    BY <1>1, <1>2
  <2>5. announced \subseteq 1..serial /\ gone \subseteq 1..serial
    BY <1>1
  <2> QED BY <2>1, <2>2, <2>3, <2>4, <2>5, Zenon DEF TypeOK
<1>5. StackInv
  BY <1>1, <1>3 DEF StackInv, DirOf, Nested
<1>6. UniqueIDs(Rules) /\ ChainsInv
  BY <1>3 DEF UniqueIDs, ChainsInv, Apart
<1>7. NothingLost
  BY <1>1, <1>2, <1>3 DEF NothingLost, SerialsOf
<1> QED BY <1>1, <1>4, <1>5, <1>6, <1>7 DEF IInv, ListInv

(* Every step of the parser keeps the invariant. *)
LEMMA StepInv ==
  ASSUME IInv, [Next]_vars
  PROVE  IInv'
<1>1. CASE Next
  <2>1. ASSUME NEW l \in palette, AddRule(l) PROVE IInv'
    BY <2>1, AddRuleInv
  <2>2. ASSUME NEW l \in palette, SecMarker(l) PROVE IInv'
    BY <2>2, SecMarkerInv
  <2>3. ASSUME NEW l \in palette,
               SecRuleRemoveByID(l) \/ SecRuleRemoveByTag(l) \/ SecRuleRemoveByMsg(l)
        PROVE  IInv'
    BY <2>3, RemovalsInv
  <2>4. ASSUME NEW l \in palette,
               \/ SecRuleUpdateTargetByID(l) \/ SecDefaultAction(l)
               \/ SecIgnoreRuleCompilationErrors(l) \/ Unsupported(l)
        PROVE  IInv'
    BY <2>4, SettingsInv
  <2>5. ASSUME NEW l \in palette, Include(l) PROVE IInv'
    BY <2>5, IncludeInv
  <2> QED BY <1>1, <2>1, <2>2, <2>3, <2>4, <2>5, EndOfFileInv, DoneInv, Zenon DEF Next
<1>2. CASE UNCHANGED vars
  <2>1. /\ palette' = palette /\ UNCHANGED <<Rules, fileVars, historyVars>> /\ defaults' = defaults
        /\ ignoreErrors' = ignoreErrors /\ status' = status /\ lines' = lines
    BY <1>2 DEF vars, listVars
  <2>2. defaults' \in Seq([phase : 0..5, disruptive : Seq(Disruptive)]) /\ lines' \in 0..MaxLines
    BY <2>1 DEF IInv, TypeOK
  <2>3. ignoreErrors' \in BOOLEAN
    BY <2>1 DEF IInv, TypeOK
  <2> QED BY <2>1, <2>2, <2>3, OtherInv
<1> QED BY <1>1, <1>2

(* The parser (Parser.FromString, FromFile) keeps the invariant. *)
THEOREM Invariance == Spec => []IInv
<1>1. Init => IInv
  BY InitInv
<1>2. IInv /\ [Next]_vars => IInv'
  BY StepInv
<1> QED BY <1>1, <1>2, PTL DEF Spec
-----------------------------------------------------------------------------
(* Every rule directive is in the rule list once, in the order of the text, *)
(* unless it was rejected or removed (RuleGroup.Add, DeleteByID).           *)
THEOREM ListCorrect == Spec => []NothingLost
<1>1. IInv => NothingLost
  BY DEF IInv, ListInv
<1> QED BY <1>1, Invariance, PTL

(* The chains of the rule list are those of the text (RuleParser.ParseRule, *)
(* getLastRuleExpectingChain).                                              *)
THEOREM ChainsCorrect == Spec => []ChainAsWritten
<1>1. IInv => ChainAsWritten
  <2> SUFFICES ASSUME IInv, ~lenient, NEW r \in Range(Rules) PROVE
        /\ \A k \in DOMAIN r.chain : r.chain[k] = r.serial + k /\ (r.serial + k - 1) \in announced
        /\ ~r.marker /\ (r.serial - 1) \in announced => (r.serial - 1) \in gone
    BY Zenon DEF ChainAsWritten
  <2>1. ChainOK(r)
    BY Zenon DEF IInv, ListInv, ChainsInv
  <2> QED BY <2>1 DEF ChainOK
<1> QED BY <1>1, Invariance, PTL

(* Include looks a path up below the directory of the file it stands in     *)
(* (Parser.FromFile, evaluateLine).                                         *)
THEOREM IncludesCorrect == Spec => []RelativeIncludes
<1>1. IInv => RelativeIncludes
  <2> SUFFICES ASSUME IInv, status = "reading"
               PROVE  currentDir = IF stack = <<>> THEN <<>> ELSE Head(stack).dir
    BY DEF RelativeIncludes
  <2>1. currentDir = DirOf(stack) /\ stack \in Seq(Frame)
    BY DEF IInv, StackInv, TypeOK, Frame
  <2>2. stack # <<>> => Head(stack) = stack[1]
    BY <2>1
  <2> QED BY <2>1, <2>2 DEF DirOf
<1> QED BY <1>1, Invariance, PTL

(* A removal by id takes exactly the rule with the id, one by tag exactly   *)
(* the rules with the tag (RuleGroup.DeleteByID, FindByTag).                *)
THEOREM RemovalsCorrect == Spec => RemovalsExact
<1>1. ASSUME IInv, NEW l \in palette, SecRuleRemoveByID(l), l.id # 0
      PROVE  Range(Rules') = {r \in Range(Rules) : r.id # l.id}
  <2>1. Rules' = DeleteByID(Rules, l.id)
    BY <1>1 DEF SecRuleRemoveByID, Keep
  <2>2. Rules \in Seq(RuleType) /\ UniqueIDs(Rules)
    BY <1>1 DEF IInv, TypeOK, ListInv
  <2> QED BY <1>1, <2>1, <2>2, DeleteExact
<1>2. ASSUME IInv, NEW l \in palette, SecRuleRemoveByTag(l), \A r \in Range(Rules) : r.tag = l.tag => r.id # 0
      PROVE  Range(Rules') = {r \in Range(Rules) : r.tag # l.tag}
  <2> DEFINE found == Tagged(l.tag)
  <2>1. Rules' = DeleteAll(found)
    BY <1>2 DEF SecRuleRemoveByTag, Keep
  <2>2. Rules \in Seq(RuleType) /\ UniqueIDs(Rules) /\ Ordered(Rules)
    BY <1>2 DEF IInv, TypeOK, ListInv, NothingLost, Ordered
  <2>3. \A i \in DOMAIN Rules : i \in found <=> Rules[i].tag = l.tag
    BY DEF Tagged
  <2> HIDE DEF found
  <2>4. DOMAIN Rules = 1..Len(Rules) /\ Range(Rules) = {Rules[i] : i \in 1..Len(Rules)}
    BY <2>2, RangeIs
  <2>5. \A i \in DOMAIN Rules : i \in found => Rules[i].id # 0
    BY <1>2, <2>3, <2>4
  <2>6. Range(Rules') = {r \in Range(Rules) : \A k \in DOMAIN Rules : k \in found => Rules[k].id # r.id}
    BY <2>1, <2>2, <2>5, DeleteAllPart, Zenon
  <2>7. ASSUME NEW r \in Range(Rules)
        PROVE  (\A k \in DOMAIN Rules : k \in found => Rules[k].id # r.id) <=> r.tag # l.tag
    <3>1. PICK j \in DOMAIN Rules : r = Rules[j]
      BY <2>4
    <3>2. ASSUME NEW k \in DOMAIN Rules, k \in found, Rules[k].id = r.id PROVE k = j
      BY <2>2, <2>5, <3>1, <3>2 DEF UniqueIDs
    <3> QED BY <2>3, <3>1, <3>2
  <2> QED BY <2>6, <2>7
<1> DEFINE A == \A l \in palette :
                  /\ SecRuleRemoveByID(l) /\ l.id # 0
                     => Range(Rules') = {r \in Range(Rules) : r.id # l.id}
                  /\ SecRuleRemoveByTag(l) /\ (\A r \in Range(Rules) : r.tag = l.tag => r.id # 0)
                     => Range(Rules') = {r \in Range(Rules) : r.tag # l.tag}
<1>3. IInv => A
  BY <1>1, <1>2, Zenon
<1> HIDE DEF A
<1>4. IInv /\ [Next]_vars => [A]_vars
  BY <1>3
<1>5. Spec => [][A]_vars
  BY <1>4, Invariance, PTL DEF Spec
<1> QED BY <1>5, PTL DEF A, RemovalsExact

(* A rule that is added with an action list has the disruptive action it    *)
(* names, or that of its phase (RuleParser.ParseRule, mergeActions).        *)
THEOREM DisruptiveCorrect == Spec => DisruptiveResolved
<1> DEFINE B(i) == /\ Rules'[i].disruptive # {}
                   /\ "block" \in Rules'[i].disruptive
                      => Last(DefaultsOf(Rules'[i].phase).disruptive) = "block"
           A == \A l \in palette : AddRule(l) /\ l.hasActions =>
                  \A i \in DOMAIN Rules' :
                     Rules'[i].serial = serial' /\ HasDefaults(Rules'[i].phase) => B(i)
<1>1. ASSUME IInv PROVE A
  <2> SUFFICES ASSUME NEW l \in palette, AddRule(l), l.hasActions,
                      NEW i \in DOMAIN Rules', Rules'[i].serial = serial', HasDefaults(Rules'[i].phase)
               PROVE  B(i)
    OBVIOUS
  <2> DEFINE n == Len(Rules)
             r == Parsed(l, serial + 1)
             phase == IF l.phase = 0 THEN 2 ELSE l.phase
  <2>1. /\ TypeOK /\ n \in Nat /\ DOMAIN Rules = 1..n /\ Rules \in Seq(RuleType)
        /\ \A k \in 1..n : Rules[k].serial \in 1..serial /\ Rules[k] \in RuleType
        /\ serial \in Nat
    BY <1>1, Places DEF IInv, ListInv, TypeOK
  <2> HIDE DEF B
  <2>2. serial' = serial + 1 /\ Rules' \in {Rules, Chained(r), Append(Rules, r)}
    BY Zenon DEF AddRule, Fail, listVars
  <2>3. r.phase = phase
        /\ r.disruptive = IF l.hasActions /\ HasDefaults(phase)
                          THEN mergeActions(l.disruptive, DefaultsOf(phase)) ELSE l.disruptive
    BY Zenon DEF Parsed
  <2> HIDE DEF r, phase
  <2>4. Rules' # Rules
    <3> SUFFICES ASSUME Rules' = Rules PROVE FALSE
      OBVIOUS
    <3> HIDE DEF n, A
    <3>1. i \in 1..n
      BY <2>1
    <3>2. Rules'[i].serial \in 1..serial /\ serial \in Nat
      BY <2>1, <3>1
    <3> QED BY <2>2, <3>2
  <2>5. Rules' # Chained(r)
    <3> SUFFICES ASSUME Rules' = Chained(r) PROVE FALSE
      OBVIOUS
    <3>1. DOMAIN Rules' = 1..n
      BY <2>1 DEF Chained
    <3>2. Rules'[i].serial = Rules[i].serial
      <4>1. CASE i = n
        <5>1. Rules'[i] = [Rules[i] EXCEPT !.chain = Append(Rules[i].chain, r.serial),
                                           !.HasChain = r.HasChain]
          BY <2>1, <3>1, <4>1 DEF Chained, RuleType
        <5>2. Rules[i] \in RuleType
          BY <2>1, <3>1
        <5> DEFINE q == Rules[i]
        <5> HIDE DEF q
        <5>3. [q EXCEPT !.chain = Append(q.chain, r.serial), !.HasChain = r.HasChain].serial = q.serial
          BY <5>2 DEF RuleType, q
        <5> QED BY <5>1, <5>3 DEF q
      <4>2. CASE i # n
        BY <2>1, <3>1, <4>2 DEF Chained
      <4> QED BY <4>1, <4>2
    <3> QED BY <2>1, <2>2, <3>1, <3>2
  <2>6. Rules'[i] = r
    <3>1. Rules' = Append(Rules, r)
      BY <2>2, <2>4, <2>5
    <3>2. Len(Rules') = n + 1 /\ DOMAIN Rules' = 1..(n + 1) /\ Rules'[n + 1] = r
          /\ \A k \in 1..n : Rules'[k] = Rules[k]
      BY <2>1, <3>1
    <3> HIDE DEF n
    <3>3. i \notin 1..n
      BY <2>1, <2>2, <3>2
    <3> QED BY <2>1, <3>2, <3>3
  <2>7. Rules'[i].phase = phase
        /\ Rules'[i].disruptive = mergeActions(l.disruptive, DefaultsOf(phase))
    BY <2>3, <2>6
  <2> QED BY <2>7 DEF B, mergeActions
<1>2. IInv /\ [Next]_vars => [A]_vars
  <2> HIDE DEF A
  <2> QED BY <1>1
<1>3. Spec => [][A]_vars
  <2> HIDE DEF A
  <2> QED BY <1>2, Invariance, PTL DEF Spec
<1> QED BY <1>3, PTL DEF A, B, DisruptiveResolved
=============================================================================
