------------------------- MODULE RuleTargetsProofs -------------------------
(***************************************************************************)
(* The exceptions among the targets of a rule, for any number of           *)
(* transactions that evaluate it, any exceptions and any targets.          *)
(***************************************************************************)
EXTENDS RuleTargets, SequenceTheorems, FiniteSetTheorems, WellFoundedInduction, TLAPS

(* The types of what the rule and the transactions hold. *)
TargetsTypeOK ==
    /\ written \in Seq(Exceptions)
    /\ array \in Seq(Exceptions) /\ len \in 0..Len(array)
    /\ removed \in [Txs -> Seq(Exceptions)]
    /\ pc \in [Txs -> {"idle", "append", "panic"}]
    /\ own \in [Txs -> [len : Nat, private : BOOLEAN, array : Seq(Exceptions)]]
    /\ todo \in [Txs -> Seq(Exceptions)]

Backing(t) == IF own[t].private THEN own[t].array ELSE array

(* Rules are read before they are evaluated, and the slice of a transaction *)
(* covers that of the rule.                                                 *)
SlicesInv ==
    /\ written # <<>> => \A t \in Txs : pc[t] # "append"
    /\ \A t \in Txs : /\ removed[t] = <<>> => todo[t] = <<>>
                      /\ pc[t] = "append" => own[t].len >= len /\ own[t].len <= Len(Backing(t))

(* What the transaction sees and has yet to append is what is excepted.     *)
ViewInv ==
    \A t \in Txs : pc[t] = "append" /\ ArrayUnshared(t) => View(t) \o todo[t] = Excepted(t)

(* The inductive invariant. *)
TargetsInv == TargetsTypeOK /\ SlicesInv /\ ViewInv

(* The first n of a list (append to a slice of length n). *)
LEMMA FirstN ==
  ASSUME NEW S, NEW a \in Seq(S), NEW n \in 0..Len(a)
  PROVE  SubSeq(a, 1, n) \in Seq(S) /\ Len(SubSeq(a, 1, n)) = n /\ \A i \in 1..n : SubSeq(a, 1, n)[i] = a[i]
<1> DEFINE s == SubSeq(a, 1, n)
<1>1. Len(a) \in Nat /\ n \in Nat /\ n <= Len(a)
  BY LenProperties
<1>2. \A i \in 1..n : a[i] \in S
  BY <1>1, ElementOfSeq
<1>3. /\ s \in Seq(S) /\ Len(s) = (IF 1 <= n THEN n - 1 + 1 ELSE 0)
      /\ \A i \in 1..(n - 1 + 1) : s[i] = a[1 + i - 1]
  <2>1. 1 \in Int /\ n \in Int
    BY <1>1
  <2> QED BY <1>2, <2>1, SubSeqProperties
<1> HIDE DEF s
<1>4. n - 1 + 1 = n /\ (IF 1 <= n THEN n - 1 + 1 ELSE 0) = n /\ \A i \in 1..n : 1 + i - 1 = i
  BY <1>1
<1>5. s \in Seq(S) /\ Len(s) = n /\ \A i \in 1..n : s[i] = a[i]
  BY <1>3, <1>4, Zenon
<1> QED BY <1>5 DEF s

(* A write behind the first n leaves them alone. *)
LEMMA WriteBehind ==
  ASSUME NEW S, NEW a \in Seq(S), NEW n \in 0..Len(a), NEW k \in 1..Len(a), k > n, NEW x \in S
  PROVE  SubSeq([a EXCEPT ![k] = x], 1, n) = SubSeq(a, 1, n)
<1> DEFINE b == [a EXCEPT ![k] = x]
           s == SubSeq(a, 1, n)
           t == SubSeq(b, 1, n)
<1>1. b \in Seq(S) /\ Len(b) = Len(a) /\ \A j \in 1..Len(a) : b[j] = IF j = k THEN x ELSE a[j]
  BY ExceptSeq
<1>2. Len(a) \in Nat /\ n \in Nat
  BY LenProperties
<1>3. \A i \in 1..n : i \in 1..Len(a) /\ i # k
  BY <1>2
<1> HIDE DEF b
<1>4. s \in Seq(S) /\ Len(s) = n /\ \A i \in 1..n : s[i] = a[i]
  BY FirstN
<1>5. t \in Seq(S) /\ Len(t) = n /\ \A i \in 1..n : t[i] = b[i]
  BY <1>1, FirstN
<1>6. \A i \in 1..n : t[i] = s[i]
  BY <1>1, <1>3, <1>4, <1>5, Zenon
<1> HIDE DEF s, t
<1>7. s = t
  BY <1>4, <1>5, <1>6, SeqEqual
<1> QED BY <1>7 DEF s, t, b

(* A write right behind the first n appends to them. *)
LEMMA WriteNext ==
  ASSUME NEW S, NEW a \in Seq(S), NEW n \in 0..Len(a), n < Len(a), NEW x \in S
  PROVE  SubSeq([a EXCEPT ![n + 1] = x], 1, n + 1) = Append(SubSeq(a, 1, n), x)
<1> DEFINE m == n + 1
           b == [a EXCEPT ![m] = x]
           s == SubSeq(a, 1, n)
           t == SubSeq(b, 1, m)
           u == Append(s, x)
<1>1. Len(a) \in Nat /\ n \in Nat /\ m \in 1..Len(a)
  BY LenProperties
<1>2. /\ \A i \in 1..n : i \in 1..Len(a) /\ i # m /\ i \in 1..m
      /\ \A i \in 1..m : i \in 1..n \/ i = m
      /\ m \in 0..Len(a) /\ m \in 1..m
  BY <1>1
<1>3. s \in Seq(S) /\ Len(s) = n /\ \A i \in 1..n : s[i] = a[i]
  BY FirstN
<1> HIDE DEF s
<1>4. u \in Seq(S) /\ Len(u) = m /\ (\A i \in 1..n : u[i] = s[i]) /\ u[m] = x
  BY <1>3, AppendProperties
<1> HIDE DEF m, u
<1>5. b \in Seq(S) /\ Len(b) = Len(a) /\ \A j \in 1..Len(a) : b[j] = IF j = m THEN x ELSE a[j]
  BY <1>1, ExceptSeq
<1> HIDE DEF b
<1>6. t \in Seq(S) /\ Len(t) = m /\ \A i \in 1..m : t[i] = b[i]
  BY <1>2, <1>5, FirstN
<1>7. \A i \in 1..m : t[i] = u[i]
  <2>1. \A i \in 1..n : t[i] = u[i]
    BY <1>2, <1>3, <1>4, <1>5, <1>6, Zenon
  <2>2. t[m] = u[m]
    BY <1>1, <1>2, <1>4, <1>5, <1>6, Zenon
  <2> QED BY <1>2, <2>1, <2>2, Zenon
<1> HIDE DEF t
<1>8. t = u
  BY <1>4, <1>6, <1>7, SeqEqual
<1> QED BY <1>8 DEF t, u, b, s, m

(* The copy that append makes when there is no room. *)
LEMMA CopyNext ==
  ASSUME NEW S, NEW a \in Seq(S), NEW n \in 0..Len(a), NEW x \in S
  PROVE  LET c == Append(SubSeq(a, 1, n), x)
         IN  c \in Seq(S) /\ Len(c) = n + 1 /\ SubSeq(c, 1, n + 1) = c
<1> DEFINE s == SubSeq(a, 1, n)
           c == Append(s, x)
<1>1. s \in Seq(S) /\ Len(s) = n
  BY FirstN
<1> HIDE DEF s
<1>2. c \in Seq(S) /\ Len(c) = n + 1
  BY <1>1, AppendProperties
<1> HIDE DEF c
<1>3. SubSeq(c, 1, Len(c)) = c
  BY <1>2, SubSeqFull
<1>4. c \in Seq(S) /\ Len(c) = n + 1 /\ SubSeq(c, 1, n + 1) = c
  BY <1>2, <1>3, Zenon
<1> QED BY <1>4 DEF c, s

(* Moving the first of the second list to the end of the first. *)
LEMMA MoveHead ==
  ASSUME NEW S, NEW s \in Seq(S), NEW t \in Seq(S), t # <<>>
  PROVE  Append(s, Head(t)) \o Tail(t) = s \o t
<1> DEFINE h == Head(t)
           r == Tail(t)
<1>1. h \in S /\ r \in Seq(S)
  BY HeadTailProperties
<1>2. t = <<h>> \o r
  <2>1. Len(t) \in Nat \ {0}
    BY EmptySeq
  <2>2. 1 \in 1..Len(t) /\ Len(t) \in 1..Len(t) /\ 1 + 1 = 2
    BY <2>1
  <2>3. SubSeq(t, 1, Len(t)) = <<t[1]>> \o SubSeq(t, 1 + 1, Len(t))
    BY <2>2, SubSeqRecursiveFirst
  <2>4. SubSeq(t, 1, Len(t)) = t /\ r = SubSeq(t, 2, Len(t))
    BY SubSeqFull, TailIsSubSeq
  <2>5. h = t[1]
    BY DEF h
  <2> HIDE DEF h, r
  <2> QED BY <2>2, <2>3, <2>4, <2>5, Zenon
<1> HIDE DEF h, r
<1>3. Append(s, h) = s \o <<h>> /\ <<h>> \in Seq(S)
  BY <1>1, AppendIsConcat
<1>4. (s \o <<h>>) \o r = s \o (<<h>> \o r)
  BY <1>1, <1>3, ConcatAssociative
<1>5. Append(s, h) \o r = s \o t
  BY <1>2, <1>3, <1>4, Zenon
<1> QED BY <1>5 DEF h, r

(* At first there is nothing to append (AddVariableNegation is to come). *)
LEMMA TargetsInitInv == TargetsInit => TargetsInv
<1> SUFFICES ASSUME TargetsInit PROVE TargetsInv
  OBVIOUS
<1>1. written \in Seq(Exceptions)
  BY TargetsAssumption DEF TargetsInit
<1>2. array \in Seq(Exceptions) /\ len \in 0..Len(array)
  BY DEF TargetsInit
<1>3. /\ removed \in [Txs -> Seq(Exceptions)] /\ todo \in [Txs -> Seq(Exceptions)]
      /\ pc \in [Txs -> {"idle", "append", "panic"}]
  <2>1. <<>> \in Seq(Exceptions)
    OBVIOUS
  <2> QED BY <2>1 DEF TargetsInit
<1>4. own \in [Txs -> [len : Nat, private : BOOLEAN, array : Seq(Exceptions)]]
  <2>1. NoSlice \in [len : Nat, private : BOOLEAN, array : Seq(Exceptions)]
    BY DEF NoSlice, SliceOf
  <2> QED BY <2>1 DEF TargetsInit
<1>5. SlicesInv /\ ViewInv
  BY DEF TargetsInit, SlicesInv, ViewInv
<1> QED BY <1>1, <1>2, <1>3, <1>4, <1>5 DEF TargetsInv, TargetsTypeOK

(* The configuration is read before transactions run (AddVariableNegation). *)
LEMMA AddVariableNegationInv ==
  ASSUME TargetsInv, AddVariableNegation
  PROVE  TargetsInv'
<1> DEFINE x == Head(written)
           n == Len(array)
<1>1. /\ written \in Seq(Exceptions) /\ written # <<>> /\ array \in Seq(Exceptions) /\ len \in 0..n
      /\ n \in Nat
  BY LenProperties DEF TargetsInv, TargetsTypeOK, AddVariableNegation
<1>2. x \in Exceptions /\ written' \in Seq(Exceptions)
  BY <1>1, HeadTailProperties DEF AddVariableNegation
<1>3. array' \in Seq(Exceptions) /\ len' \in 0..Len(array')
  <2>1. CASE len < n
    <3>1. array' = [array EXCEPT ![len + 1] = x] /\ len' = len + 1
      BY <2>1 DEF AddVariableNegation
    <3>2. len + 1 \in 1..n
      BY <1>1, <2>1
    <3>3. array' \in Seq(Exceptions) /\ Len(array') = n
      BY <1>1, <1>2, <3>1, <3>2, ExceptSeq
    <3> QED BY <3>1, <3>2, <3>3
  <2>2. CASE ~(len < n)
    <3> DEFINE m == IF n = 0 THEN 0 ELSE n - 1
               a == Append(array, x)
               b == [i \in 1..m |-> Nil]
    <3>1. array' = a \o b /\ len' = len + 1
      BY <2>2 DEF AddVariableNegation, Grown
    <3>2. m \in Nat
      BY <1>1
    <3> HIDE DEF m
    <3>3. a \in Seq(Exceptions) /\ Len(a) = n + 1
      BY <1>1, <1>2, AppendProperties
    <3>4. b \in Seq(Exceptions) /\ Len(b) = m
      <4>1. Nil \in Exceptions
        BY DEF Nil, Exceptions
      <4> QED BY <3>2, <4>1
    <3> HIDE DEF a, b
    <3>5. array' \in Seq(Exceptions) /\ Len(array') = (n + 1) + m
      <4>1. a \o b \in Seq(Exceptions) /\ Len(a \o b) = Len(a) + Len(b)
        BY <3>3, <3>4, ConcatProperties, Zenon
      <4> QED BY <3>1, <3>3, <3>4, <4>1, Zenon
    <3>6. len = n
      BY <1>1, <2>2
    <3> QED BY <1>1, <3>1, <3>2, <3>5, <3>6
  <2> QED BY <2>1, <2>2
<1>4. UNCHANGED <<removed, pc, own, todo>> /\ \A t \in Txs : pc[t] # "append"
  BY <1>1 DEF AddVariableNegation, TargetsInv, SlicesInv
<1>5. TargetsTypeOK'
  BY <1>2, <1>3, <1>4 DEF TargetsInv, TargetsTypeOK
<1>6. SlicesInv' /\ ViewInv'
  BY <1>4 DEF TargetsInv, SlicesInv, ViewInv
<1> QED BY <1>5, <1>6 DEF TargetsInv

(* Once the rules are read, a step that writes no array leaves the views of  *)
(* the transactions that it leaves alone.                                    *)
LEMMA OthersView ==
  ASSUME TargetsInv, UNCHANGED <<array, len>>, NEW u \in Txs,
         pc'[u] = pc[u], own'[u] = own[u], todo'[u] = todo[u], pc[u] = "append" => removed'[u] = removed[u],
         \A t \in Txs : removed'[t] = <<>> => removed[t] = <<>>,
         pc'[u] = "append", ArrayUnshared(u)'
  PROVE  (View(u) \o todo[u] = Excepted(u))'
<1>1. ArrayUnshared(u)
  BY DEF ArrayUnshared
<1>2. View(u) \o todo[u] = Excepted(u)
  BY <1>1, Zenon DEF TargetsInv, ViewInv
<1>3. View(u)' = View(u) /\ Excepted(u)' = Excepted(u)
  BY Zenon DEF View, Excepted
<1> QED BY <1>2, <1>3

(* A ctl action of a transaction, outside an evaluation                      *)
(* (RemoveRuleTargetByID).                                                   *)
LEMMA RemoveRuleTargetInv ==
  ASSUME TargetsInv, NEW t \in Txs, NEW key \in Keys, RemoveRuleTargetByID(t, key)
  PROVE  TargetsInv'
<1>1. /\ pc[t] = "idle" /\ UNCHANGED <<written, array, len, pc, own, todo>>
      /\ removed' = [removed EXCEPT ![t] = Append(removed[t], {key})]
  BY DEF RemoveRuleTargetByID, exceptionVars
<1>2. TargetsTypeOK /\ removed \in [Txs -> Seq(Exceptions)]
  BY DEF TargetsInv, TargetsTypeOK
<1>3. Append(removed[t], {key}) \in Seq(Exceptions) /\ Append(removed[t], {key}) # <<>>
  <2>1. {key} \in Exceptions /\ removed[t] \in Seq(Exceptions)
    BY <1>2 DEF Exceptions
  <2> QED BY <2>1, AppendProperties
<1>4. /\ removed' \in [Txs -> Seq(Exceptions)]
      /\ \A u \in Txs : removed'[u] = <<>> => removed[u] = <<>>
      /\ \A u \in Txs : pc[u] = "append" => removed'[u] = removed[u]
  BY <1>1, <1>2, <1>3
<1>5. TargetsTypeOK'
  BY <1>1, <1>2, <1>4 DEF TargetsTypeOK
<1>6. SlicesInv'
  BY <1>1, <1>4 DEF TargetsInv, SlicesInv, Backing
<1>7. ViewInv'
  <2> SUFFICES ASSUME NEW u \in Txs, pc'[u] = "append", ArrayUnshared(u)'
               PROVE  (View(u) \o todo[u] = Excepted(u))'
    BY DEF ViewInv
  <2>1. UNCHANGED <<array, len>> /\ pc'[u] = pc[u] /\ own'[u] = own[u] /\ todo'[u] = todo[u]
    BY <1>1
  <2> QED BY <1>4, <2>1, OthersView, Zenon
<1> QED BY <1>5, <1>6, <1>7 DEF TargetsInv

(* A transaction begins with the slice of the rule (Rule.doEvaluate). *)
LEMMA StartVariableInv ==
  ASSUME TargetsInv, NEW t \in Txs, StartVariable(t)
  PROVE  TargetsInv'
<1> DEFINE fresh == SliceOf(len)
<1>1. /\ written = <<>> /\ pc' = [pc EXCEPT ![t] = "append"] /\ UNCHANGED <<written, array, len, removed>>
      /\ own' = [own EXCEPT ![t] = fresh] /\ todo' = [todo EXCEPT ![t] = removed[t]]
  BY DEF StartVariable, exceptionVars
<1>2. TargetsTypeOK /\ len \in Nat /\ len <= Len(array) /\ len \in 0..Len(array) /\ array \in Seq(Exceptions)
  <2>1. TargetsTypeOK /\ array \in Seq(Exceptions) /\ len \in 0..Len(array)
    BY Zenon DEF TargetsInv, TargetsTypeOK
  <2>2. Len(array) \in Nat
    BY <2>1, LenProperties
  <2>3. len \in Nat /\ len <= Len(array)
    BY <2>1, <2>2
  <2> QED BY <2>1, <2>3
<1>3. /\ fresh \in [len : Nat, private : BOOLEAN, array : Seq(Exceptions)]
      /\ fresh.len = len /\ ~fresh.private
  <2>1. fresh = [len |-> len, private |-> FALSE, array |-> <<>>]
    BY DEF SliceOf
  <2>2. <<>> \in Seq(Exceptions) /\ FALSE \in BOOLEAN
    OBVIOUS
  <2> HIDE DEF fresh
  <2> QED BY <1>2, <2>1, <2>2
<1> HIDE DEF fresh
<1>4. /\ pc' \in [Txs -> {"idle", "append", "panic"}] /\ todo' \in [Txs -> Seq(Exceptions)]
      /\ own' \in [Txs -> [len : Nat, private : BOOLEAN, array : Seq(Exceptions)]]
      /\ own'[t] = fresh /\ todo'[t] = removed[t]
      /\ \A u \in Txs : u # t => own'[u] = own[u] /\ todo'[u] = todo[u] /\ pc'[u] = pc[u]
  BY <1>1, <1>2, <1>3 DEF TargetsTypeOK
<1>5. TargetsTypeOK'
  BY <1>1, <1>2, <1>4 DEF TargetsTypeOK
<1>6. SlicesInv'
  <2> SUFFICES ASSUME NEW u \in Txs
               PROVE  /\ removed[u] = <<>> => todo'[u] = <<>>
                      /\ pc'[u] = "append" => own'[u].len >= len /\ own'[u].len <= Len(Backing(u)')
    BY <1>1 DEF SlicesInv
  <2>1. CASE u = t
    <3>1. Backing(t)' = array /\ own'[t].len = len
      BY <1>1, <1>3, <1>4 DEF Backing
    <3>2. len >= len /\ len <= Len(array)
      BY <1>2
    <3> QED BY <1>4, <2>1, <3>1, <3>2, Zenon
  <2>2. CASE u # t
    <3>1. Backing(u)' = Backing(u) /\ own'[u].len = own[u].len
      BY <1>1, <1>4, <2>2 DEF Backing
    <3>2. /\ removed[u] = <<>> => todo[u] = <<>>
          /\ pc[u] = "append" => own[u].len >= len /\ own[u].len <= Len(Backing(u))
      BY Zenon DEF TargetsInv, SlicesInv
    <3> QED BY <1>4, <2>2, <3>1, <3>2, Zenon
  <2> QED BY <2>1, <2>2
<1>7. ViewInv'
  <2> SUFFICES ASSUME NEW u \in Txs, pc'[u] = "append", ArrayUnshared(u)'
               PROVE  (View(u) \o todo[u] = Excepted(u))'
    BY DEF ViewInv
  <2>1. CASE u = t
    BY <1>1, <1>3, <1>4, <2>1, Zenon DEF View, Excepted
  <2>2. CASE u # t
    BY <1>1, <1>4, <2>2, OthersView
  <2> QED BY <2>1, <2>2
<1> QED BY <1>5, <1>6, <1>7 DEF TargetsInv

(* The targets are filtered and the copy is gone (Transaction.GetField). *)
LEMMA GetFieldInv ==
  ASSUME TargetsInv, NEW t \in Txs, GetField(t)
  PROVE  TargetsInv'
<1>1. /\ UNCHANGED <<written, array, len, removed, todo>> /\ own' = [own EXCEPT ![t] = NoSlice]
      /\ pc' = [pc EXCEPT ![t] = "panic"] \/ pc' = [pc EXCEPT ![t] = "idle"]
  BY Zenon DEF GetField, exceptionVars
<1>2. TargetsTypeOK /\ NoSlice \in [len : Nat, private : BOOLEAN, array : Seq(Exceptions)]
  BY DEF TargetsInv, NoSlice, SliceOf
<1>3. /\ pc' \in [Txs -> {"idle", "append", "panic"}] /\ pc'[t] # "append"
      /\ own' \in [Txs -> [len : Nat, private : BOOLEAN, array : Seq(Exceptions)]]
      /\ \A u \in Txs : u # t => own'[u] = own[u] /\ pc'[u] = pc[u]
  BY <1>1, <1>2, Zenon DEF TargetsTypeOK
<1>4. TargetsTypeOK'
  BY <1>1, <1>2, <1>3 DEF TargetsTypeOK
<1>5. SlicesInv'
  BY <1>1, <1>3 DEF TargetsInv, SlicesInv, Backing
<1>6. ViewInv'
  <2> SUFFICES ASSUME NEW u \in Txs, pc'[u] = "append", ArrayUnshared(u)'
               PROVE  (View(u) \o todo[u] = Excepted(u))'
    BY DEF ViewInv
  <2>1. /\ UNCHANGED <<array, len, removed>> /\ u # t
        /\ pc'[u] = pc[u] /\ own'[u] = own[u] /\ todo'[u] = todo[u]
    BY <1>1, <1>3
  <2> QED BY <2>1, OthersView
<1> QED BY <1>4, <1>5, <1>6 DEF TargetsInv

(* append writes behind the slice: into the array when there is room, where  *)
(* only this transaction sees it as long as the array is unshared, and into  *)
(* a copy otherwise (Rule.doEvaluate).                                       *)
LEMMA AppendExceptionInv ==
  ASSUME TargetsInv, NEW t \in Txs, AppendException(t)
  PROVE  /\ TargetsInv'
         /\ SubSeq(array', 1, len') = SubSeq(array, 1, len)
<1> DEFINE x == Head(todo[t])
           s == own[t]
           n == s.len
           Slice == [len : Nat, private : BOOLEAN, array : Seq(Exceptions)]
<1>1. /\ pc[t] = "append" /\ todo[t] # <<>> /\ todo' = [todo EXCEPT ![t] = Tail(todo[t])]
      /\ UNCHANGED <<written, len, removed, pc>>
  BY DEF AppendException
<1>2. /\ array \in Seq(Exceptions) /\ len \in 0..Len(array) /\ removed \in [Txs -> Seq(Exceptions)]
      /\ own \in [Txs -> Slice] /\ todo \in [Txs -> Seq(Exceptions)]
  BY DEF TargetsInv, TargetsTypeOK
<1>3. todo[t] \in Seq(Exceptions) /\ x \in Exceptions /\ Tail(todo[t]) \in Seq(Exceptions)
  BY <1>1, <1>2, HeadTailProperties
<1>4. s \in Slice /\ n \in Nat /\ s.array \in Seq(Exceptions) /\ s.private \in BOOLEAN
  BY <1>2
<1>5. Len(array) \in Nat /\ len \in Nat /\ len <= Len(array) /\ len <= n /\ n <= Len(Backing(t))
  BY <1>1, <1>2, LenProperties DEF TargetsInv, SlicesInv
<1>6. Backing(t) \in Seq(Exceptions) /\ n \in 0..Len(Backing(t)) /\ Len(Backing(t)) \in Nat
  <2>1. Backing(t) \in Seq(Exceptions)
    BY <1>2, <1>4 DEF Backing
  <2>2. Len(Backing(t)) \in Nat
    BY <2>1, LenProperties
  <2> HIDE DEF n
  <2>3. n \in 0..Len(Backing(t))
    BY <1>4, <1>5, <2>2
  <2> QED BY <2>1, <2>2, <2>3
<1>7. View(t) = SubSeq(Backing(t), 1, n)
  BY DEF View, Backing
<1>8. todo' \in [Txs -> Seq(Exceptions)] /\ todo'[t] = Tail(todo[t]) /\ \A u \in Txs : u # t => todo'[u] = todo[u]
  BY <1>1, <1>2, <1>3
<1> HIDE DEF x, n
<1>9. \/ /\ array' = array
         /\ own'[t].private /\ own'[t].len = n + 1
         /\ own'[t].array = Append(SubSeq(Backing(t), 1, n), x) /\ own'[t] \in Slice
         /\ own' = [own EXCEPT ![t] = own'[t]]
      \/ /\ ~s.private /\ n < Len(array) /\ array' = [array EXCEPT ![n + 1] = x]
         /\ own'[t] \in Slice /\ ~own'[t].private /\ own'[t].len = n + 1
         /\ own' = [own EXCEPT ![t] = own'[t]]
  <2> DEFINE c == Append(SubSeq(Backing(t), 1, n), x)
  <2>1. c \in Seq(Exceptions) /\ n + 1 \in Nat
    BY <1>3, <1>4, <1>6, CopyNext
  <2>2. CASE s.private
    <3>1. c = Append(SubSeq(s.array, 1, n), x)
      BY <2>2, Zenon DEF Backing
    <3>2. own' = [own EXCEPT ![t].len = n + 1, ![t].array = c] /\ array' = array
      BY <2>2, <3>1, Zenon DEF AppendException, n, x
    <3> HIDE DEF c
    <3> DEFINE q == [s EXCEPT !.len = n + 1, !.array = c]
    <3>3. q \in Slice /\ q.len = n + 1 /\ q.array = c /\ q.private = s.private
      BY <1>4, <2>1, Zenon
    <3>4. own' = [own EXCEPT ![t] = q]
      BY <3>2, Zenon
    <3> HIDE DEF q, Slice
    <3>5. own'[t] = q
      BY <1>2, <3>4
    <3> QED BY <2>2, <3>2, <3>3, <3>4, <3>5, Zenon DEF c
  <2>3. CASE ~s.private /\ n < Len(array)
    <3>1. array' = [array EXCEPT ![n + 1] = x] /\ own' = [own EXCEPT ![t].len = n + 1]
      BY <2>3 DEF AppendException, n, x
    <3> DEFINE q == [s EXCEPT !.len = n + 1]
    <3>2. q \in Slice /\ q.len = n + 1 /\ q.private = s.private
      BY <1>4, <2>1
    <3>3. own' = [own EXCEPT ![t] = q]
      BY <3>1
    <3> HIDE DEF q, Slice
    <3>4. own'[t] = q
      BY <1>2, <3>3
    <3> QED BY <2>3, <3>1, <3>2, <3>3, <3>4, Zenon
  <2>4. CASE ~s.private /\ ~(n < Len(array))
    <3>1. c = Append(SubSeq(array, 1, n), x)
      BY <2>4, Zenon DEF Backing
    <3>2. own' = [own EXCEPT ![t] = [len |-> n + 1, private |-> TRUE, array |-> c]] /\ array' = array
      BY <2>4, <3>1, Zenon DEF AppendException, n, x
    <3> HIDE DEF c
    <3> DEFINE q == [len |-> n + 1, private |-> TRUE, array |-> c]
    <3>3. q \in Slice /\ q.len = n + 1 /\ q.array = c /\ q.private
      BY <2>1
    <3> HIDE DEF q, Slice
    <3>4. own'[t] = q
      BY <1>2, <3>2 DEF q
    <3> QED BY <3>2, <3>3, <3>4, Zenon DEF c, q
  <2> QED BY <1>4, <2>2, <2>3, <2>4, Zenon
<1>10. own' \in [Txs -> Slice] /\ \A u \in Txs : u # t => own'[u] = own[u]
  BY <1>2, <1>9, Zenon
<1>11. /\ array' \in Seq(Exceptions) /\ Len(array') = Len(array)
       /\ SubSeq(array', 1, len) = SubSeq(array, 1, len)
  <2>1. CASE array' = array
    BY <1>2, <2>1
  <2>2. CASE n < Len(array) /\ array' = [array EXCEPT ![n + 1] = x]
    <3>1. n + 1 \in 1..Len(array) /\ n + 1 > len
      <4> DEFINE a == Len(array)
      <4>1. n \in Nat /\ a \in Nat /\ len \in Nat /\ len <= n /\ n < a
        BY <1>4, <1>5, <2>2
      <4> HIDE DEF n, a
      <4>2. n + 1 \in 1..a /\ n + 1 > len
        BY <4>1
      <4> QED BY <4>2 DEF a
    <3>2. array' \in Seq(Exceptions) /\ Len(array') = Len(array)
      BY <1>2, <1>3, <2>2, <3>1, ExceptSeq
    <3>3. SubSeq([array EXCEPT ![n + 1] = x], 1, len) = SubSeq(array, 1, len)
      BY <1>2, <1>3, <3>1, WriteBehind
    <3> QED BY <2>2, <3>2, <3>3, Zenon
  <2> QED BY <1>9, <2>1, <2>2, Zenon
<1>12. TargetsTypeOK'
  <2>1. TargetsTypeOK
    BY DEF TargetsInv
  <2> QED BY <1>1, <1>2, <1>8, <1>10, <1>11, <2>1, Zenon DEF TargetsTypeOK
<1>13. View(t)' = Append(View(t), x) /\ own'[t].len = n + 1 /\ n + 1 <= Len(Backing(t)')
  <2>1. CASE own'[t].private /\ own'[t].array = Append(SubSeq(Backing(t), 1, n), x)
    <3> DEFINE c == Append(SubSeq(Backing(t), 1, n), x)
    <3>1. c \in Seq(Exceptions) /\ Len(c) = n + 1 /\ SubSeq(c, 1, n + 1) = c
      BY <1>3, <1>6, CopyNext
    <3>2. Backing(t)' = c /\ View(t)' = SubSeq(c, 1, own'[t].len)
      BY <2>1, Zenon DEF Backing, View
    <3>3. own'[t].len = n + 1
      BY <1>9, Zenon
    <3>4. n + 1 <= n + 1
      BY <1>6
    <3> HIDE DEF c
    <3>5. c = Append(View(t), x)
      BY <1>7 DEF c
    <3> QED BY <3>1, <3>2, <3>3, <3>4, <3>5, Zenon
  <2>2. CASE ~s.private /\ n < Len(array) /\ array' = [array EXCEPT ![n + 1] = x] /\ ~own'[t].private
    <3>1. n \in 0..Len(array) /\ Backing(t) = array
      BY <1>6, <2>2 DEF Backing
    <3>2. SubSeq([array EXCEPT ![n + 1] = x], 1, n + 1) = Append(SubSeq(array, 1, n), x)
      BY <1>2, <1>3, <2>2, <3>1, WriteNext
    <3>3. own'[t].len = n + 1
      BY <1>9
    <3>4. View(t)' = SubSeq(array', 1, own'[t].len) /\ Backing(t)' = array'
      BY <2>2, Zenon DEF View, Backing
    <3>5. n + 1 <= Len(array')
      BY <1>5, <1>11, <2>2, <3>1
    <3> QED BY <1>7, <2>2, <3>1, <3>2, <3>3, <3>4, <3>5, Zenon
  <2> QED BY <1>9, <2>1, <2>2, Zenon
<1>14. SlicesInv'
  <2>1. \A u \in Txs : removed[u] = <<>> => todo'[u] = <<>>
    BY <1>1, <1>8 DEF TargetsInv, SlicesInv
  <2>2. ASSUME NEW u \in Txs, u # t, pc[u] = "append"
        PROVE  own'[u].len >= len /\ own'[u].len <= Len(Backing(u)')
    <3>1. own'[u] = own[u] /\ own[u].len >= len /\ own[u].len <= Len(Backing(u))
      BY <1>10, <2>2 DEF TargetsInv, SlicesInv
    <3>2. Len(Backing(u)') = Len(Backing(u))
      BY <1>11, <3>1 DEF Backing
    <3> QED BY <3>1, <3>2
  <2>3. own'[t].len >= len /\ own'[t].len <= Len(Backing(t)')
    BY <1>4, <1>5, <1>13
  <2>4. written # <<>> => \A u \in Txs : pc[u] # "append"
    BY DEF TargetsInv, SlicesInv
  <2> QED BY <1>1, <2>1, <2>2, <2>3, <2>4 DEF SlicesInv
<1>15. ViewInv'
  <2> SUFFICES ASSUME NEW u \in Txs, pc'[u] = "append", ArrayUnshared(u)'
               PROVE  (View(u) \o todo[u] = Excepted(u))'
    BY DEF ViewInv
  <2>1. ArrayUnshared(u)
    BY <1>1, <1>11 DEF ArrayUnshared
  <2>2. View(u) \o todo[u] = Excepted(u)
    BY <1>1, <2>1 DEF TargetsInv, ViewInv
  <2>3. Excepted(u)' = Excepted(u)
    BY <1>1, <1>11, Zenon DEF Excepted
  <2>4. CASE u = t
    <3>1. View(t) \in Seq(Exceptions)
      BY <1>6, <1>7, FirstN
    <3>2. Append(View(t), x) \o Tail(todo[t]) = View(t) \o todo[t]
      BY <1>1, <1>3, <3>1, MoveHead, Zenon DEF x
    <3> QED BY <1>8, <1>13, <2>2, <2>3, <2>4, <3>2, Zenon
  <2>5. CASE u # t
    <3>1. array' = array
      <4>1. removed[t] # <<>>
        BY <1>1 DEF TargetsInv, SlicesInv
      <4>2. len = Len(array)
        BY <2>1, <2>5, <4>1 DEF ArrayUnshared
      <4>3. ~(n < Len(array))
        <5>1. n \in Nat /\ len \in Nat /\ len <= n
          BY <1>4, <1>5
        <5> HIDE DEF n
        <5>2. ~(n < len)
          BY <5>1
        <5> QED BY <4>2, <5>2, Zenon
      <4> QED BY <1>9, <4>3
    <3>2. View(u)' = View(u) /\ todo'[u] = todo[u]
      BY <1>8, <1>10, <2>5, <3>1 DEF View
    <3> QED BY <2>2, <2>3, <3>2
  <2> QED BY <2>4, <2>5
<1> QED BY <1>1, <1>11, <1>12, <1>14, <1>15, Zenon DEF TargetsInv

(* Every step keeps the invariant (Rule.doEvaluate). *)
LEMMA TargetsStepInv == TargetsInv /\ [TargetsNext]_targetVars => TargetsInv'
<1> SUFFICES ASSUME TargetsInv, [TargetsNext]_targetVars PROVE TargetsInv'
  OBVIOUS
<1>1. CASE AddVariableNegation
  BY <1>1, AddVariableNegationInv
<1>2. ASSUME NEW t \in Txs, NEW key \in Keys, RemoveRuleTargetByID(t, key) PROVE TargetsInv'
  BY <1>2, RemoveRuleTargetInv
<1>3. ASSUME NEW t \in Txs, StartVariable(t) PROVE TargetsInv'
  BY <1>3, StartVariableInv
<1>4. ASSUME NEW t \in Txs, AppendException(t) PROVE TargetsInv'
  BY <1>4, AppendExceptionInv
<1>5. ASSUME NEW t \in Txs, GetField(t) PROVE TargetsInv'
  BY <1>5, GetFieldInv
<1>6. CASE UNCHANGED targetVars
  <2>1. UNCHANGED <<written, array, len, removed, pc, own, todo>>
    BY <1>6 DEF targetVars, exceptionVars
  <2>2. TargetsTypeOK' /\ SlicesInv'
    BY <2>1 DEF TargetsInv, TargetsTypeOK, SlicesInv, Backing
  <2>3. ViewInv'
    BY <2>1, Zenon DEF TargetsInv, ViewInv, ArrayUnshared, View, Excepted
  <2> QED BY <2>2, <2>3 DEF TargetsInv
<1> QED BY <1>1, <1>2, <1>3, <1>4, <1>5, <1>6 DEF TargetsNext

(* The exceptions of the rule are what they were when it was compiled,       *)
(* whatever its transactions append to its slice (Rule.doEvaluate).          *)
THEOREM RuleExceptionsKept == TargetsSpec => RuleKeepsExceptions
<1> DEFINE A == written = <<>> => SubSeq(array', 1, len') = SubSeq(array, 1, len)
<1>1. TargetsInv /\ [TargetsNext]_targetVars => [A]_targetVars
  <2> SUFFICES ASSUME TargetsInv, TargetsNext, written = <<>>
               PROVE  SubSeq(array', 1, len') = SubSeq(array, 1, len)
    BY Zenon
  <2>1. ASSUME NEW t \in Txs, AppendException(t)
        PROVE  SubSeq(array', 1, len') = SubSeq(array, 1, len)
    BY <2>1, AppendExceptionInv, Zenon
  <2>2. ASSUME UNCHANGED <<array, len>>
        PROVE  SubSeq(array', 1, len') = SubSeq(array, 1, len)
    BY <2>2
  <2>3. ASSUME NEW t \in Txs,
               (\E key \in Keys : RemoveRuleTargetByID(t, key)) \/ StartVariable(t) \/ GetField(t)
        PROVE  UNCHANGED <<array, len>>
    BY <2>3 DEF RemoveRuleTargetByID, StartVariable, GetField, exceptionVars
  <2> QED BY <2>1, <2>2, <2>3, Zenon DEF TargetsNext, AddVariableNegation
<1> HIDE DEF A
<1> QED BY <1>1, TargetsInitInv, TargetsStepInv, PTL DEF A, TargetsSpec, RuleKeepsExceptions

(* A set of numbers has a least one (the index of the last removal that goes *)
(* right).                                                                   *)
LEMMA LeastNat ==
  ASSUME NEW T, T \subseteq Nat, T # {}
  PROVE  \E x \in T : \A y \in T : x <= y
<1> DEFINE R == {ss \in Nat \X Nat : ss[1] < ss[2]}
<1>1. IsWellFoundedOn(R, Nat)
  BY NatLessThanWellFounded DEF OpToRel
<1>2. \E x \in T : \A y \in T : ~ (<<y, x>> \in R)
  <2> HIDE DEF R
  <2> QED BY <1>1, WFMin, Zenon
<1>3. PICK x \in T : \A y \in T : ~ (<<y, x>> \in R)
  BY <1>2
<1>4. ASSUME NEW y \in T PROVE x <= y
  <2>1. <<y, x>> \notin R
    BY <1>3
  <2>2. y \in Nat /\ x \in Nat
    OBVIOUS
  <2> QED BY <2>1, <2>2
<1> QED BY <1>4

(* The indexes found after each target. *)
Finds(f, fields, exceptions) ==
    /\ f[0] = <<>> /\ ToRemove(fields, exceptions) = f[Len(fields)]
    /\ \A i \in 1..Len(fields) : f[i] = f[i - 1] \o [x \in 1..Hits(fields[i], exceptions) |-> i]

(* ToRemove is its loop (Transaction.GetField). *)
LEMMA FindLoop ==
  ASSUME NEW fields \in Seq(Keys), NEW exceptions
  PROVE  \E f : Finds(f, fields, exceptions)
<1> DEFINE L == Len(fields)
           e == <<>>
           Step(v, i) == v \o [x \in 1..Hits(fields[i], exceptions) |-> i]
           Turn(f, i) == IF i = 0 THEN e ELSE Step(f[i - 1], i)
           Loop(f, m) == f = [i \in 0..m |-> Turn(f, i)]
           P(m) == \E f : Loop(f, m)
           T == {m \in 0..L : ~P(m)}
           h == CHOOSE f : Loop(f, L)
<1>1. ToRemove(fields, exceptions) = h[L]
  BY DEF ToRemove
<1>2. L \in Nat
  BY LenProperties
<1>3. \A f, i : i \in 1..L => i # 0 /\ Turn(f, i) = Step(f[i - 1], i)
  <2>1. \A i \in 1..L : i # 0
    BY <1>2
  <2> QED BY <2>1, Zenon
<1>4. \A f : Turn(f, 0) = e
  OBVIOUS
<1> HIDE DEF L, e, Step, Turn
<1>5. P(0)
  <2> DEFINE f == [i \in 0..0 |-> e]
  <2>1. \A i \in 0..0 : i = 0
    OBVIOUS
  <2>2. \A i \in 0..0 : f[i] = Turn(f, i)
    BY <1>4, <2>1, Zenon
  <2>3. f = [i \in 0..0 |-> f[i]]
    OBVIOUS
  <2> HIDE DEF f
  <2>4. Loop(f, 0)
    BY <2>2, <2>3
  <2> QED BY <2>4
<1>6. ASSUME NEW m \in 1..L, P(m - 1) PROVE P(m)
  <2>1. PICK g : Loop(g, m - 1)
    BY <1>6
  <2>2. \A i \in 0..(m - 1) : g[i] = Turn(g, i)
    BY <2>1
  <2> DEFINE v == Step(g[m - 1], m)
             f == [i \in 0..m |-> IF i = m THEN v ELSE g[i]]
  <2>3. /\ m \in Nat /\ m \in 0..m /\ m - 1 \in 0..(m - 1)
        /\ \A i \in 0..(m - 1) : i \in 0..m /\ i # m
        /\ \A i \in 0..m : i = m \/ (i \in 0..(m - 1) /\ (i = 0 \/ (i \in 1..L /\ i - 1 \in 0..(m - 1))))
    BY <1>2
  <2> HIDE DEF v
  <2>4. f[m] = v /\ (\A i \in 0..(m - 1) : f[i] = g[i]) /\ f = [i \in 0..m |-> f[i]]
    BY <2>3
  <2> HIDE DEF f
  <2>5. ASSUME NEW i \in 0..m PROVE f[i] = Turn(f, i)
    <3>1. CASE i = m
      BY <1>3, <2>3, <2>4, <3>1, Zenon DEF v
    <3>2. CASE i \in 0..(m - 1) /\ i = 0
      BY <1>4, <2>2, <2>4, <3>2, Zenon
    <3>3. CASE i \in 0..(m - 1) /\ i \in 1..L /\ i - 1 \in 0..(m - 1)
      <4>1. f[i] = g[i] /\ f[i - 1] = g[i - 1] /\ g[i] = Turn(g, i)
        BY <2>2, <2>4, <3>3, Zenon
      <4>2. Turn(g, i) = Step(g[i - 1], i) /\ Turn(f, i) = Step(f[i - 1], i)
        BY <1>3, <3>3, Zenon
      <4> QED BY <4>1, <4>2, Zenon
    <3> QED BY <2>3, <3>1, <3>2, <3>3
  <2>6. Loop(f, m)
    BY <2>4, <2>5
  <2> QED BY <2>6
<1> HIDE DEF P
<1>7. T = {}
  <2> SUFFICES ASSUME T # {} PROVE FALSE
    OBVIOUS
  <2>0. T \subseteq Nat
    BY <1>2
  <2>1. PICK x \in T : \A y \in T : x <= y
    <3> HIDE DEF T
    <3> QED BY <2>0, LeastNat, Zenon
  <2>2. x \in 1..L /\ x - 1 \in 0..L /\ x - 1 \notin T
    BY <1>2, <1>5, <2>1
  <2> QED BY <1>6, <2>1, <2>2
<1>8. Loop(h, L)
  <2>1. P(L)
    BY <1>2, <1>7
  <2> HIDE DEF Loop
  <2> QED BY <2>1, Zenon DEF P
<1> HIDE DEF h
<1>9. DOMAIN h = 0..L /\ \A i \in 0..L : h[i] = Turn(h, i)
  BY <1>8, Zenon
<1>10. 0 \in 0..L /\ \A i \in 1..L : i \in 0..L
  BY <1>2
<1>11. h[0] = <<>>
  BY <1>4, <1>9, <1>10, Zenon DEF e
<1>12. \A i \in 1..L : h[i] = h[i - 1] \o [x \in 1..Hits(fields[i], exceptions) |-> i]
  BY <1>3, <1>9, <1>10, Zenon DEF Step
<1>13. Finds(h, fields, exceptions)
  BY <1>1, <1>11, <1>12, Zenon DEF Finds, L
<1> QED BY <1>13

(* What is left after each removal. *)
Removes(f, fields, rmi) ==
    /\ f[0] = [panic |-> FALSE, fields |-> fields]
    /\ \A n \in 1..Len(rmi) : f[n] = RemoveIndex(rmi[Len(rmi) + 1 - n], f[n - 1])

(* FilteredFields is its loop (Transaction.GetField). *)
LEMMA RemoveLoop ==
  ASSUME NEW fields, NEW exceptions, NEW rmi \in Seq(Nat), rmi = ToRemove(fields, exceptions)
  PROVE  \E f : Removes(f, fields, rmi) /\ FilteredFields(fields, exceptions) = f[Len(rmi)]
<1> DEFINE L == Len(rmi)
           e == [panic |-> FALSE, fields |-> fields]
           Step(v, i) == RemoveIndex(rmi[L + 1 - i], v)
           Turn(f, i) == IF i = 0 THEN e ELSE Step(f[i - 1], i)
           Loop(f, m) == f = [i \in 0..m |-> Turn(f, i)]
           P(m) == \E f : Loop(f, m)
           T == {m \in 0..L : ~P(m)}
           h == CHOOSE f : Loop(f, L)
<1>1. FilteredFields(fields, exceptions) = h[L]
  BY DEF FilteredFields
<1>2. L \in Nat
  BY LenProperties
<1>3. \A f, i : i \in 1..L => i # 0 /\ Turn(f, i) = Step(f[i - 1], i)
  <2>1. \A i \in 1..L : i # 0
    BY <1>2
  <2> QED BY <2>1, Zenon
<1>4. \A f : Turn(f, 0) = e
  OBVIOUS
<1> HIDE DEF L, e, Step, Turn
<1>5. P(0)
  <2> DEFINE f == [i \in 0..0 |-> e]
  <2>1. \A i \in 0..0 : i = 0
    OBVIOUS
  <2>2. \A i \in 0..0 : f[i] = Turn(f, i)
    BY <1>4, <2>1, Zenon
  <2>3. f = [i \in 0..0 |-> f[i]]
    OBVIOUS
  <2> HIDE DEF f
  <2>4. Loop(f, 0)
    BY <2>2, <2>3
  <2> QED BY <2>4
<1>6. ASSUME NEW m \in 1..L, P(m - 1) PROVE P(m)
  <2>1. PICK g : Loop(g, m - 1)
    BY <1>6
  <2>2. \A i \in 0..(m - 1) : g[i] = Turn(g, i)
    BY <2>1, Zenon
  <2> DEFINE v == Step(g[m - 1], m)
             f == [i \in 0..m |-> IF i = m THEN v ELSE g[i]]
  <2>3. /\ m \in Nat /\ m \in 0..m /\ m - 1 \in 0..(m - 1)
        /\ \A i \in 0..(m - 1) : i \in 0..m /\ i # m
        /\ \A i \in 0..m : i = m \/ (i \in 0..(m - 1) /\ (i = 0 \/ (i \in 1..L /\ i - 1 \in 0..(m - 1))))
    BY <1>2
  <2> HIDE DEF v
  <2>4. f[m] = v /\ (\A i \in 0..(m - 1) : f[i] = g[i]) /\ f = [i \in 0..m |-> f[i]]
    BY <2>3
  <2> HIDE DEF f
  <2>5. ASSUME NEW i \in 0..m PROVE f[i] = Turn(f, i)
    <3>1. CASE i = m
      BY <1>3, <2>3, <2>4, <3>1, Zenon DEF v
    <3>2. CASE i \in 0..(m - 1) /\ i = 0
      BY <1>4, <2>2, <2>4, <3>2, Zenon
    <3>3. CASE i \in 0..(m - 1) /\ i \in 1..L /\ i - 1 \in 0..(m - 1)
      <4>1. f[i] = g[i] /\ f[i - 1] = g[i - 1] /\ g[i] = Turn(g, i)
        BY <2>2, <2>4, <3>3, Zenon
      <4>2. Turn(g, i) = Step(g[i - 1], i) /\ Turn(f, i) = Step(f[i - 1], i)
        BY <1>3, <3>3, Zenon
      <4> QED BY <4>1, <4>2, Zenon
    <3> QED BY <2>3, <3>1, <3>2, <3>3
  <2>6. Loop(f, m)
    BY <2>4, <2>5
  <2> QED BY <2>6
<1> HIDE DEF P
<1>7. T = {}
  <2> SUFFICES ASSUME T # {} PROVE FALSE
    OBVIOUS
  <2>0. T \subseteq Nat
    BY <1>2
  <2>1. PICK x \in T : \A y \in T : x <= y
    <3> HIDE DEF T
    <3> QED BY <2>0, LeastNat, Zenon
  <2>2. x \in 1..L /\ x - 1 \in 0..L /\ x - 1 \notin T
    BY <1>2, <1>5, <2>1
  <2> QED BY <1>6, <2>1, <2>2
<1>8. Loop(h, L)
  <2>1. P(L)
    BY <1>2, <1>7
  <2> HIDE DEF Loop
  <2> QED BY <2>1, Zenon DEF P
<1> HIDE DEF h
<1>9. DOMAIN h = 0..L /\ \A i \in 0..L : h[i] = Turn(h, i)
  BY <1>8, Zenon
<1>10. 0 \in 0..L /\ \A i \in 1..L : i \in 0..L
  BY <1>2
<1>11. h[0] = [panic |-> FALSE, fields |-> fields]
  BY <1>4, <1>9, <1>10, Zenon DEF e
<1>12. \A i \in 1..L : h[i] = RemoveIndex(rmi[L + 1 - i], h[i - 1])
  BY <1>3, <1>9, <1>10, Zenon DEF Step
<1>13. Removes(h, fields, rmi) /\ FilteredFields(fields, exceptions) = h[Len(rmi)]
  BY <1>1, <1>11, <1>12, Zenon DEF Removes, L
<1> QED BY <1>13

(* The numbers of s, in increasing order, are those of S. *)
Increasing(s, S) ==
    /\ s \in Seq(Nat) /\ {s[k] : k \in DOMAIN s} = S
    /\ \A j, k \in DOMAIN s : j < k => s[j] < s[k]

(* The places of fields that an exception matches. *)
Matched(fields, exceptions) == {i \in DOMAIN fields : \E e \in DOMAIN exceptions : fields[i] \in exceptions[e]}

(* How often an exception matches (the inner loop of GetField). *)
LEMMA HitsZeroOrOne ==
  ASSUME NEW exceptions \in Seq(Exceptions), NEW key
  PROVE  /\ Hits(key, exceptions) \in Nat
         /\ Hits(key, exceptions) = 0 <=> \A e \in DOMAIN exceptions : key \notin exceptions[e]
<1> DEFINE S == {e \in DOMAIN exceptions : key \in exceptions[e]}
           n == Len(exceptions)
<1>1. n \in Int /\ DOMAIN exceptions = 1..n
  BY LenProperties
<1>2. IsFiniteSet(1..n)
  BY <1>1, FS_Interval
<1>3. S \in SUBSET (1..n)
  BY <1>1
<1> HIDE DEF n
<1>4. IsFiniteSet(S)
  BY <1>2, <1>3, FS_Subset, Zenon
<1>5. Cardinality(S) \in Nat /\ (Cardinality(S) = 0 <=> S = {})
  <2> HIDE DEF S
  <2> QED BY <1>4, FS_CardinalityType, FS_EmptySet
<1>6. Hits(key, exceptions) = Cardinality(S)
  BY DEF Hits
<1> QED BY <1>5, <1>6

(* When no target is matched twice, the indexes to remove are those of the   *)
(* matched targets, in order (Transaction.GetField).                         *)
LEMMA ToRemoveOrdered ==
  ASSUME NEW fields \in Seq(Keys), NEW exceptions \in Seq(Exceptions),
         \A i \in DOMAIN fields : Hits(fields[i], exceptions) <= 1
  PROVE  Increasing(ToRemove(fields, exceptions), Matched(fields, exceptions))
<1> DEFINE n == Len(fields)
           M == Matched(fields, exceptions)
           Block(i) == [x \in 1..Hits(fields[i], exceptions) |-> i]
<1>1. n \in Nat /\ DOMAIN fields = 1..n
  BY LenProperties
<1>2. PICK f : Finds(f, fields, exceptions)
  BY FindLoop
<1>3. f[0] = <<>> /\ ToRemove(fields, exceptions) = f[n] /\ \A i \in 1..n : f[i] = f[i - 1] \o Block(i)
  BY <1>2, Zenon DEF Finds
<1>4. M \subseteq 1..n
  BY <1>1 DEF Matched
<1>5. ASSUME NEW i \in 1..n PROVE \/ i \in M /\ Block(i) = <<i>>
                                  \/ i \notin M /\ Block(i) = <<>>
  <2> DEFINE c == Hits(fields[i], exceptions)
  <2>1. c \in Nat /\ c <= 1 /\ (c = 0 <=> i \notin M)
    BY <1>1, HitsZeroOrOne DEF Matched
  <2> HIDE DEF c
  <2>2. Block(i) = [x \in 1..c |-> i]
    BY DEF c
  <2>3. CASE c = 0
    BY <2>1, <2>2, <2>3
  <2>4. CASE c = 1
    <3>1. Block(i) = [x \in 1..1 |-> i]
      BY <2>2, <2>4
    <3> QED BY <2>1, <2>4, <3>1
  <2> QED BY <2>1, <2>3, <2>4
<1> HIDE DEF n, M, Block
<1> DEFINE Q(i) == Increasing(f[i], M \cap (1..i))
           T == {i \in 0..n : ~Q(i)}
<1>6. Q(0)
  <2>1. f[0] \in Seq(Nat) /\ DOMAIN f[0] = {} /\ M \cap (1..0) = {}
    BY <1>3
  <2> QED BY <2>1 DEF Increasing
<1>7. ASSUME NEW i \in 1..n, Q(i - 1) PROVE Q(i)
  <2> DEFINE s == f[i - 1]
             S == M \cap (1..(i - 1))
             m == Len(s)
  <2>1. /\ s \in Seq(Nat) /\ {s[k] : k \in DOMAIN s} = S
        /\ \A j, k \in DOMAIN s : j < k => s[j] < s[k]
    BY <1>7 DEF Increasing
  <2>2. m \in Nat /\ DOMAIN s = 1..m /\ \A k \in 1..m : s[k] \in S /\ s[k] \in Nat
    BY <2>1, LenProperties, ElementOfSeq
  <2>3. i \in Nat /\ \A x \in S : x < i
    BY <1>1
  <2>4. CASE i \in M /\ Block(i) = <<i>>
    <3> DEFINE t == Append(s, i)
    <3>1. f[i] = t
      <4>1. t = s \o <<i>>
        BY <2>1, <2>3, AppendIsConcat, Zenon
      <4> QED BY <1>3, <2>4, <4>1, Zenon
    <3>2. t \in Seq(Nat) /\ DOMAIN t = 1..(m + 1) /\ t[m + 1] = i /\ \A k \in 1..m : t[k] = s[k]
      BY <2>1, <2>3, AppendProperties, LenProperties
    <3> HIDE DEF t, s, m
    <3>3. /\ \A k \in 1..(m + 1) : k \in 1..m \/ k = m + 1
          /\ m + 1 \in 1..(m + 1) /\ \A k \in 1..m : k \in 1..(m + 1)
      BY <2>2
    <3>4. M \cap (1..i) = S \union {i}
      BY <1>1, <1>4, <2>4
    <3> HIDE DEF S
    <3>5. {t[k] : k \in DOMAIN t} = S \union {i}
      BY <2>1, <2>2, <3>2, <3>3, Zenon
    <3>6. ASSUME NEW j \in 1..(m + 1), NEW k \in 1..(m + 1), j < k PROVE t[j] < t[k]
      <4>1. j \in 1..m
        BY <2>2, <3>6
      <4>2. CASE k \in 1..m
        BY <2>1, <2>2, <3>2, <3>6, <4>1, <4>2, Zenon
      <4>3. CASE k = m + 1
        BY <2>2, <2>3, <3>2, <4>1, <4>3
      <4> QED BY <3>3, <4>2, <4>3
    <3> QED BY <3>1, <3>2, <3>4, <3>5, <3>6 DEF Increasing
  <2>5. CASE i \notin M /\ Block(i) = <<>>
    <3>1. f[i] = s
      <4>1. s \o <<>> = s
        BY <2>1, ConcatEmptySeq
      <4> QED BY <1>3, <2>5, <4>1, Zenon
    <3>2. M \cap (1..i) = S
      BY <1>1, <1>4, <2>5
    <3> QED BY <1>7, <3>1, <3>2, Zenon
  <2> QED BY <1>5, <2>4, <2>5
<1> HIDE DEF Q
<1>8. T = {}
  <2> SUFFICES ASSUME T # {} PROVE FALSE
    OBVIOUS
  <2>0. T \subseteq Nat
    BY <1>1
  <2>1. PICK x \in T : \A y \in T : x <= y
    <3> HIDE DEF T
    <3> QED BY <2>0, LeastNat, Zenon
  <2>2. x \in 1..n /\ x - 1 \in 0..n /\ x - 1 \notin T
    BY <1>1, <1>6, <2>1
  <2> QED BY <1>7, <2>1, <2>2
<1>9. Q(n)
  BY <1>1, <1>8
<1>10. M \cap (1..n) = M
  BY <1>4, Zenon
<1> QED BY <1>3, <1>9, <1>10, Zenon DEF Q, M

(* got has the fields at the given places in order, the first lim of them    *)
(* where they were.                                                          *)
KeptTo(got, fields, places, lim) ==
    /\ got \in Seq(Keys) /\ lim \in 0..Len(got)
    /\ \E order \in [1..Len(got) -> 1..Len(fields)] :
        /\ {order[k] : k \in 1..Len(got)} = places
        /\ \A j, k \in 1..Len(got) : j < k => order[j] < order[k]
        /\ \A k \in 1..Len(got) : got[k] = fields[order[k]]
        /\ \A k \in 1..lim : order[k] = k

(* Removing an index no larger than the ones removed before removes the      *)
(* field of that index (Transaction.GetField, from the end).                 *)
LEMMA RemoveOne ==
  ASSUME NEW fields \in Seq(Keys), NEW got, NEW places, NEW lim, KeptTo(got, fields, places, lim),
         NEW i \in 1..lim
  PROVE  KeptTo(Without(got, i), fields, places \ {i}, i - 1) /\ i <= Len(got)
<1> DEFINE m == Len(got)
           F == Len(fields)
           w == Without(got, i)
<1>1. m \in Nat /\ lim \in 0..m /\ \A k \in 1..m : got[k] \in Keys
  BY LenProperties, ElementOfSeq DEF KeptTo
<1>2. F \in Nat
  BY LenProperties
<1>3. PICK order \in [1..m -> 1..F] :
        /\ {order[k] : k \in 1..m} = places
        /\ \A j, k \in 1..m : j < k => order[j] < order[k]
        /\ \A k \in 1..m : got[k] = fields[order[k]]
        /\ \A k \in 1..lim : order[k] = k
  BY Zenon DEF KeptTo
<1>4. w = [j \in 1..(m - 1) |-> IF j < i THEN got[j] ELSE got[j + 1]]
  BY DEF Without
<1> HIDE DEF m, F, w
<1>5. /\ i \in 1..m /\ i \in Nat /\ m - 1 \in Nat /\ i - 1 \in 0..(m - 1) /\ i <= m
      /\ \A k \in 1..(m - 1) : k \in 1..m /\ k + 1 \in 1..m /\ k \in Nat
      /\ \A k \in 1..(i - 1) : k \in 1..(m - 1) /\ k \in 1..lim /\ k < i
  BY <1>1
<1>6. \A k \in 1..m : order[k] \in Nat /\ order[k] \in 1..F
  <2>1. \A k \in 1..m : order[k] \in 1..F
    OBVIOUS
  <2>2. \A p \in 1..F : p \in Nat
    BY <1>2
  <2> QED BY <2>1, <2>2, Zenon
<1> DEFINE new == [k \in 1..(m - 1) |-> IF k < i THEN order[k] ELSE order[k + 1]]
<1>7. w \in Seq(Keys) /\ Len(w) = m - 1
  <2>1. w \in [1..(m - 1) -> Keys]
    BY <1>1, <1>4, <1>5
  <2> DEFINE n == m - 1
  <2>2. n \in Nat /\ w \in [1..n -> Keys]
    BY <1>5, <2>1
  <2> HIDE DEF n, w
  <2>3. w \in Seq(Keys) /\ Len(w) = n
    BY <2>2
  <2> QED BY <2>3 DEF n
<1>8. new \in [1..(m - 1) -> 1..F]
  BY <1>5, <1>6
<1>9. \A k \in 1..(m - 1) : /\ k < i => new[k] = order[k] /\ w[k] = got[k]
                            /\ ~(k < i) => new[k] = order[k + 1] /\ w[k] = got[k + 1]
  BY <1>4
<1> HIDE DEF new
<1>10. {new[k] : k \in 1..(m - 1)} = places \ {i}
  <2>1. order[i] = i
    BY <1>3
  <2>2. ASSUME NEW k \in 1..(m - 1) PROVE new[k] \in places \ {i}
    <3>1. CASE k < i
      <4>1. order[k] < order[i] /\ order[k] \in places
        BY <1>3, <1>5, <3>1
      <4>2. order[k] \in Nat /\ order[k] < i
        BY <1>5, <1>6, <2>1, <4>1
      <4>3. order[k] # i
        BY <1>5, <4>2
      <4> QED BY <1>9, <3>1, <4>1, <4>3
    <3>2. CASE ~(k < i)
      <4>1. i < k + 1
        BY <1>5, <3>2
      <4>2. order[i] < order[k + 1] /\ order[k + 1] \in places
        BY <1>3, <1>5, <4>1
      <4>3. order[k + 1] \in Nat /\ i < order[k + 1]
        BY <1>5, <1>6, <2>1, <4>2
      <4>4. order[k + 1] # i
        BY <1>5, <4>3
      <4> QED BY <1>9, <3>2, <4>2, <4>4
    <3> QED BY <3>1, <3>2
  <2>3. ASSUME NEW p \in places \ {i} PROVE \E k \in 1..(m - 1) : new[k] = p
    <3>1. PICK k \in 1..m : order[k] = p
      BY <1>3
    <3>2. k # i
      BY <2>1, <3>1
    <3>3. CASE k < i
      <4>1. k \in 1..(m - 1)
        BY <1>1, <1>5, <3>3
      <4> QED BY <1>9, <3>1, <3>3, <4>1
    <3>4. CASE k > i
      <4>1. k - 1 \in 1..(m - 1) /\ ~(k - 1 < i) /\ k - 1 + 1 = k
        BY <1>1, <1>5, <3>4
      <4> QED BY <1>9, <3>1, <4>1
    <3> QED BY <1>1, <1>5, <3>2, <3>3, <3>4
  <2> QED BY <2>2, <2>3, Zenon
<1>11. ASSUME NEW j \in 1..(m - 1), NEW k \in 1..(m - 1), j < k PROVE new[j] < new[k]
  <2>1. CASE k < i
    <3>1. j < i
      BY <1>5, <1>11, <2>1
    <3>2. new[j] = order[j] /\ new[k] = order[k]
      BY <1>9, <2>1, <3>1, Zenon
    <3>3. order[j] < order[k]
      BY <1>3, <1>5, <1>11, Zenon
    <3> QED BY <3>2, <3>3, Zenon
  <2>2. CASE ~(k < i) /\ j < i
    <3>1. j < k + 1
      BY <1>5, <1>11
    <3>2. new[j] = order[j] /\ new[k] = order[k + 1]
      BY <1>9, <2>2, Zenon
    <3>3. order[j] < order[k + 1]
      BY <1>3, <1>5, <3>1, Zenon
    <3> QED BY <3>2, <3>3, Zenon
  <2>3. CASE ~(k < i) /\ ~(j < i)
    <3>1. j + 1 < k + 1
      BY <1>5, <1>11
    <3>2. new[j] = order[j + 1] /\ new[k] = order[k + 1]
      BY <1>9, <2>3, Zenon
    <3>3. order[j + 1] < order[k + 1]
      BY <1>3, <1>5, <3>1, Zenon
    <3> QED BY <3>2, <3>3, Zenon
  <2> QED BY <2>1, <2>2, <2>3
<1>12. ASSUME NEW k \in 1..(m - 1) PROVE w[k] = fields[new[k]]
  <2>1. k \in 1..m /\ k + 1 \in 1..m
    BY <1>5
  <2>2. got[k] = fields[order[k]] /\ got[k + 1] = fields[order[k + 1]]
    BY <1>3, <2>1, Zenon
  <2>3. \/ new[k] = order[k] /\ w[k] = got[k]
        \/ new[k] = order[k + 1] /\ w[k] = got[k + 1]
    BY <1>9, Zenon
  <2> QED BY <2>2, <2>3, Zenon
<1>13. \A k \in 1..(i - 1) : new[k] = k
  BY <1>3, <1>5, <1>9, Zenon
<1>14. \E o \in [1..Len(w) -> 1..F] :
        /\ {o[k] : k \in 1..Len(w)} = places \ {i}
        /\ \A j, k \in 1..Len(w) : j < k => o[j] < o[k]
        /\ \A k \in 1..Len(w) : w[k] = fields[o[k]]
        /\ \A k \in 1..(i - 1) : o[k] = k
  <2>1. Len(w) = m - 1
    BY <1>7
  <2>2. \A j, k \in 1..(m - 1) : j < k => new[j] < new[k]
    BY <1>11
  <2>3. new \in [1..Len(w) -> 1..F]
    BY <1>8, <2>1, Zenon
  <2>4. \A k \in 1..Len(w) : w[k] = fields[new[k]]
    BY <1>12, <2>1, Zenon
  <2>5. {new[k] : k \in 1..Len(w)} = places \ {i}
    BY <1>10, <2>1, Zenon
  <2>6. \A j, k \in 1..Len(w) : j < k => new[j] < new[k]
    BY <2>1, <2>2, Zenon
  <2> QED BY <2>3, <2>4, <2>5, <2>6, <1>13
<1> QED BY <1>5, <1>7, <1>14, Zenon DEF KeptTo, F, w, m

(* When no target is matched twice, the targets kept are those no exception  *)
(* matches (Transaction.GetField).                                           *)
LEMMA FieldsFiltered ==
  ASSUME NEW fields \in Seq(Keys), NEW exceptions \in Seq(Exceptions),
         \A i \in DOMAIN fields : Hits(fields[i], exceptions) <= 1
  PROVE  LET left == FilteredFields(fields, exceptions) IN
         left.panic = FALSE /\ Selects(left.fields, fields, DOMAIN fields \ Matched(fields, exceptions))
<1> DEFINE rmi == ToRemove(fields, exceptions)
           M == Matched(fields, exceptions)
           F == Len(fields)
           L == Len(rmi)
<1>1. /\ rmi \in Seq(Nat) /\ {rmi[k] : k \in DOMAIN rmi} = M
      /\ \A j, k \in DOMAIN rmi : j < k => rmi[j] < rmi[k]
  BY ToRemoveOrdered, Zenon DEF Increasing
<1>2. F \in Nat /\ DOMAIN fields = 1..F /\ M \subseteq 1..F
  BY LenProperties DEF Matched
<1>3. L \in Nat /\ DOMAIN rmi = 1..L /\ \A k \in 1..L : rmi[k] \in Nat /\ rmi[k] \in M /\ rmi[k] \in 1..F
  <2> HIDE DEF rmi, M, F
  <2>1. L \in Nat /\ DOMAIN rmi = 1..L
    BY <1>1, LenProperties
  <2>2. \A k \in 1..L : rmi[k] \in Nat
    BY <1>1, ElementOfSeq
  <2>3. \A k \in 1..L : rmi[k] \in M
    BY <1>1, <2>1, Zenon
  <2> QED BY <1>2, <2>1, <2>2, <2>3, Zenon
<1>4. PICK f : Removes(f, fields, rmi) /\ FilteredFields(fields, exceptions) = f[L]
  <2> HIDE DEF rmi
  <2>1. rmi = ToRemove(fields, exceptions)
    BY DEF rmi
  <2> QED BY <1>1, <2>1, RemoveLoop
<1>5. /\ f[0] = [panic |-> FALSE, fields |-> fields]
      /\ \A n \in 1..L : f[n] = RemoveIndex(rmi[L + 1 - n], f[n - 1])
  BY <1>4 DEF Removes
<1> HIDE DEF rmi, M, F, L
<1> DEFINE Gone(n) == {rmi[j] : j \in (L - n + 1)..L}
           Lim(n) == IF n = 0 THEN F ELSE rmi[L + 1 - n] - 1
           Q(n) == \E got : /\ f[n] = [panic |-> FALSE, fields |-> got]
                            /\ KeptTo(got, fields, (1..F) \ Gone(n), Lim(n))
           T == {n \in 0..L : ~Q(n)}
<1>6. Q(0)
  <2> DEFINE id == [k \in 1..F |-> k]
  <2>1. (1..F) \ Gone(0) = 1..F /\ Lim(0) = F
    BY <1>3
  <2>2. /\ id \in [1..F -> 1..F] /\ {id[k] : k \in 1..F} = 1..F
        /\ \A k \in 1..F : id[k] = k
    OBVIOUS
  <2>3. \A j, k \in 1..F : j < k => id[j] < id[k]
    BY <1>2, <2>2
  <2> HIDE DEF id
  <2>4. \A k \in 1..F : fields[k] = fields[id[k]]
    BY <2>2
  <2>5. F \in 0..F
    BY <1>2
  <2>6. KeptTo(fields, fields, 1..F, F)
    BY <2>2, <2>3, <2>4, <2>5 DEF KeptTo, F
  <2> QED BY <1>5, <2>1, <2>6, Zenon
<1>7. ASSUME NEW n \in 1..L, Q(n - 1) PROVE Q(n)
  <2> DEFINE i == rmi[L + 1 - n]
  <2>1. n \in Nat /\ L + 1 - n \in 1..L /\ n - 1 \in 0..L
    BY <1>3
  <2>2. i \in 1..F /\ i \in Nat
    BY <1>3, <2>1
  <2>3. PICK got : f[n - 1] = [panic |-> FALSE, fields |-> got] /\ KeptTo(got, fields, (1..F) \ Gone(n - 1), Lim(n - 1))
    BY <1>7, Zenon
  <2>4. i \in 1..Lim(n - 1)
    <3>1. CASE n = 1
      <4>1. Lim(n - 1) = F
        BY <3>1
      <4> QED BY <2>2, <4>1
    <3>2. CASE n # 1
      <4> DEFINE k == L + 1 - (n - 1)
      <4>1. k \in 1..L /\ L + 1 - n < k /\ n - 1 # 0
        BY <1>3, <2>1, <3>2
      <4>2. Lim(n - 1) = rmi[k] - 1
        BY <4>1
      <4> HIDE DEF k, Lim
      <4>3. i < rmi[k] /\ rmi[k] \in Nat
        BY <1>1, <1>3, <2>1, <4>1, Zenon
      <4> HIDE DEF i
      <4> QED BY <2>2, <4>2, <4>3
    <3> QED BY <3>1, <3>2
  <2>5. Gone(n) = Gone(n - 1) \union {i}
    <3>1. (L - n + 1)..L = ((L - (n - 1) + 1)..L) \union {L + 1 - n}
      BY <1>3
    <3> DEFINE A == (L - n + 1)..L
               B == (L - (n - 1) + 1)..L
               c == L + 1 - n
    <3> HIDE DEF A, B, c
    <3>2. A = B \union {c}
      BY <3>1 DEF A, B, c
    <3>3. {rmi[j] : j \in A} = {rmi[j] : j \in B} \union {rmi[c]}
      BY <3>2
    <3> QED BY <3>3, Zenon DEF A, B, c
  <2>6. ((1..F) \ Gone(n - 1)) \ {i} = (1..F) \ Gone(n)
    BY <2>5, Zenon
  <2>7. Lim(n) = i - 1
    BY <2>1
  <2> HIDE DEF Gone, Lim, i
  <2>8. KeptTo(Without(got, i), fields, (1..F) \ Gone(n), Lim(n)) /\ i <= Len(got)
    <3> DEFINE P == (1..F) \ Gone(n - 1)
               l == Lim(n - 1)
    <3>1. KeptTo(got, fields, P, l) /\ i \in 1..l
      BY <2>3, <2>4
    <3> HIDE DEF P, l
    <3>2. KeptTo(Without(got, i), fields, P \ {i}, i - 1) /\ i <= Len(got)
      BY <3>1, RemoveOne, Zenon
    <3> QED BY <2>6, <2>7, <3>2, Zenon DEF P
  <2>9. f[n] = RemoveIndex(i, [panic |-> FALSE, fields |-> got])
    BY <1>5, <2>3 DEF i
  <2>10. f[n] = [panic |-> FALSE, fields |-> Without(got, i)]
    BY <2>8, <2>9, Zenon DEF RemoveIndex
  <2> QED BY <2>8, <2>10, Zenon
<1> HIDE DEF Q
<1>8. T = {}
  <2> SUFFICES ASSUME T # {} PROVE FALSE
    OBVIOUS
  <2>0. T \subseteq Nat
    BY <1>3
  <2>1. PICK x \in T : \A y \in T : x <= y
    <3> HIDE DEF T
    <3> QED BY <2>0, LeastNat, Zenon
  <2>2. x \in 1..L /\ x - 1 \in 0..L /\ x - 1 \notin T
    BY <1>3, <1>6, <2>1
  <2> QED BY <1>7, <2>1, <2>2
<1>9. Q(L)
  BY <1>3, <1>8
<1>10. PICK got : f[L] = [panic |-> FALSE, fields |-> got] /\ KeptTo(got, fields, (1..F) \ Gone(L), Lim(L))
  BY <1>9, Zenon DEF Q
<1>11. Gone(L) = M
  <2>1. (L - L + 1)..L = 1..L
    BY <1>3
  <2> QED BY <1>1, <1>3, <2>1, Zenon
<1> HIDE DEF Gone, Lim
<1>12. Selects(got, fields, DOMAIN fields \ M)
  <2>1. DOMAIN got = 1..Len(got)
    BY <1>10, LenProperties DEF KeptTo
  <2>2. \E order \in [1..Len(got) -> 1..F] :
        /\ {order[k] : k \in 1..Len(got)} = (1..F) \ M
        /\ \A j, k \in 1..Len(got) : j < k => order[j] < order[k]
        /\ \A k \in 1..Len(got) : got[k] = fields[order[k]]
    BY <1>10, <1>11, Zenon DEF KeptTo, F
  <2> QED BY <1>2, <2>1, <2>2, Zenon DEF Selects
<1>13. FilteredFields(fields, exceptions).panic = FALSE /\ FilteredFields(fields, exceptions).fields = got
  <2> DEFINE left == FilteredFields(fields, exceptions)
  <2>1. left = [panic |-> FALSE, fields |-> got]
    BY <1>4, <1>10, Zenon
  <2> HIDE DEF left
  <2>2. left.panic = FALSE /\ left.fields = got
    BY <2>1
  <2> QED BY <2>2 DEF left
<1> QED BY <1>12, <1>13 DEF M

(* The last evaluation of every transaction is recorded. *)
FilteredInv == DOMAIN filtered = Txs

(* GetField alone changes the records. *)
LEMMA TargetsStepFiltered ==
  ASSUME FilteredInv, [TargetsNext]_targetVars
  PROVE  FilteredInv'
<1>1. ASSUME NEW t \in Txs, GetField(t) PROVE FilteredInv'
  BY <1>1, Zenon DEF GetField, FilteredInv
<1>2. ASSUME UNCHANGED filtered PROVE FilteredInv'
  BY <1>2 DEF FilteredInv
<1>3. ASSUME NEW t \in Txs,
             \/ \E key \in Keys : RemoveRuleTargetByID(t, key)
             \/ StartVariable(t) \/ AppendException(t)
      PROVE  UNCHANGED filtered
  BY <1>3 DEF RemoveRuleTargetByID, StartVariable, AppendException
<1>4. AddVariableNegation \/ UNCHANGED targetVars => UNCHANGED filtered
  BY DEF AddVariableNegation, targetVars
<1> QED BY <1>1, <1>2, <1>3, <1>4 DEF TargetsNext

(* The theorem of the targets: each evaluation of the rule sees exactly the  *)
(* targets that neither the rule nor the transaction excepts (Transaction.   *)
(* GetField, Rule.doEvaluate).                                               *)
THEOREM ExceptionsRespected == TargetsSpec => ExceptionsApplied
<1> DEFINE A == \A t \in Txs :
                 /\ pc[t] = "append" /\ pc'[t] # "append"
                 /\ MatchedOnce(t, filtered'[t].from) /\ ArrayUnshared(t)
                 => /\ pc'[t] = "idle"
                    /\ Selects(filtered'[t].got, filtered'[t].from, Targets(t, filtered'[t].from))
<1>1. TargetsInv /\ FilteredInv /\ [TargetsNext]_targetVars => [A]_targetVars
  <2> SUFFICES ASSUME TargetsInv, FilteredInv, TargetsNext, NEW t \in Txs,
                      pc[t] = "append", pc'[t] # "append",
                      MatchedOnce(t, filtered'[t].from), ArrayUnshared(t)
               PROVE  /\ pc'[t] = "idle"
                      /\ Selects(filtered'[t].got, filtered'[t].from, Targets(t, filtered'[t].from))
    BY Zenon
  <2>1. pc \in [Txs -> {"idle", "append", "panic"}]
    BY Zenon DEF TargetsInv, TargetsTypeOK
  <2>2. GetField(t)
    <3>1. ASSUME NEW u \in Txs, StartVariable(u) \/ GetField(u) PROVE u = t /\ GetField(t)
      BY <2>1, <3>1, Zenon DEF StartVariable, GetField
    <3>2. ASSUME UNCHANGED pc PROVE FALSE
      BY <3>2, Zenon
    <3>3. ASSUME NEW u \in Txs, (\E key \in Keys : RemoveRuleTargetByID(u, key)) \/ AppendException(u) PROVE UNCHANGED pc
      BY <3>3 DEF RemoveRuleTargetByID, AppendException
    <3>4. AddVariableNegation => UNCHANGED pc
      BY Zenon DEF AddVariableNegation
    <3> QED BY <3>1, <3>2, <3>3, <3>4, Zenon DEF TargetsNext
  <2>3. PICK fields \in Fields :
          LET left == FilteredFields(fields, View(t)) IN
          /\ pc' = [pc EXCEPT ![t] = IF left.panic THEN "panic" ELSE "idle"]
          /\ filtered' = [filtered EXCEPT ![t] = [from |-> fields, got |-> left.fields]]
    BY <2>2, Zenon DEF GetField
  <2> DEFINE left == FilteredFields(fields, View(t))
             E == Excepted(t)
  <2>4. filtered'[t].from = fields /\ filtered'[t].got = left.fields
    <3> HIDE DEF left
    <3>1. filtered' = [filtered EXCEPT ![t] = [from |-> fields, got |-> left.fields]]
      BY <2>3 DEF left
    <3> QED BY <3>1, Zenon DEF FilteredInv
  <2>5. left.panic = FALSE => pc'[t] = "idle"
    BY <2>1, <2>3
  <2>6. fields \in Seq(Keys)
    BY TargetsAssumption
  <2>7. E \in Seq(Exceptions) /\ View(t) = E
    <3>1. todo[t] = <<>> /\ View(t) \o todo[t] = E
      BY <2>2, Zenon DEF GetField, TargetsInv, ViewInv
    <3>2. /\ own[t].len \in 0..Len(Backing(t)) /\ Backing(t) \in Seq(Exceptions)
          /\ View(t) = SubSeq(Backing(t), 1, own[t].len)
      <4>1. /\ own[t] \in [len : Nat, private : BOOLEAN, array : Seq(Exceptions)]
            /\ array \in Seq(Exceptions)
        BY Zenon DEF TargetsInv, TargetsTypeOK
      <4>2. Backing(t) \in Seq(Exceptions)
        BY <4>1 DEF Backing
      <4>3. Len(Backing(t)) \in Nat /\ own[t].len \in Nat
        BY <4>1, <4>2, LenProperties
      <4>4. own[t].len <= Len(Backing(t))
        BY DEF TargetsInv, SlicesInv
      <4>5. own[t].len \in 0..Len(Backing(t))
        BY <4>3, <4>4
      <4>6. View(t) = SubSeq(Backing(t), 1, own[t].len)
        BY Zenon DEF Backing, View
      <4> QED BY <4>2, <4>5, <4>6
    <3>3. View(t) \in Seq(Exceptions)
      BY <3>2, FirstN, Zenon
    <3> HIDE DEF E
    <3>4. View(t) \o <<>> = View(t)
      BY <3>3, ConcatEmptySeq
    <3> QED BY <3>1, <3>3, <3>4, Zenon
  <2>8. Targets(t, fields) = DOMAIN fields \ Matched(fields, E)
    BY DEF Targets, Matched
  <2>9. \A i \in DOMAIN fields : Hits(fields[i], E) <= 1
    BY <2>4, Zenon DEF MatchedOnce
  <2> HIDE DEF E
  <2>10. left.panic = FALSE /\ Selects(left.fields, fields, DOMAIN fields \ Matched(fields, E))
    BY <2>6, <2>7, <2>9, FieldsFiltered, Zenon
  <2> HIDE DEF left
  <2> QED BY <2>4, <2>5, <2>8, <2>10, Zenon
<1>2. TargetsInit => FilteredInv
  BY DEF TargetsInit, FilteredInv
<1> HIDE DEF A
<1> QED BY <1>1, <1>2, TargetsStepFiltered, TargetsInitInv, TargetsStepInv, PTL DEF A, TargetsSpec, ExceptionsApplied
=============================================================================
