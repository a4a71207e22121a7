----------------------------- MODULE RuleTargets -----------------------------
(***************************************************************************)
(* The targets of one variable of one rule and their exceptions            *)
(* (internal/corazawaf/rule.go, transaction.go).  Exceptions come from the *)
(* rule (AddVariableNegation) and, per transaction, from ctl:rule-         *)
(* RemoveTargetById.  Transactions run concurrently and share the rule,    *)
(* with the backing array of its exceptions: appending to a slice writes   *)
(* to that array as long as it has room.                                   *)
(*                                                                         *)
(* An exception is the set of keys it matches, one for a string, several   *)
(* for a regular expression.  A target is its key.                         *)
(***************************************************************************)
EXTENDS Naturals, Sequences, FiniteSets

CONSTANTS Txs, Keys,
          Negations,      (* the lists of exceptions rules are written with  *)
          Fields,         (* what a collection may return: lists of keys     *)
          MaxRemovals,    (* bound: ctl actions per transaction              *)
          MaxEvaluations  (* bound: evaluations of the rule per transaction  *)

Exceptions == SUBSET Keys

Nil == {}    (* an unused slot of a backing array *)

ASSUME TargetsAssumption ==
    /\ Negations \subseteq Seq(Exceptions)
    /\ Fields \subseteq Seq(Keys)
    /\ MaxRemovals \in Nat /\ MaxEvaluations \in Nat

VARIABLES written,    (* the exceptions of the rule not yet compiled         *)
          array, len, (* the slice of the rule: backing array and length     *)
          removed,    (* ruleRemoveTargetByID of each transaction            *)
          pc,         (* of each transaction: "idle", "append" or "panic"    *)
          own,        (* the slice of the transaction's copy of the variable: *)
                      (* its length, and its array if it is not the rule's   *)
          todo,       (* exceptions the transaction has yet to append        *)
          filtered,   (* history: the last GetField of each transaction, and *)
                      (* the targets it was to filter                        *)
          evaluations

exceptionVars == <<written, array, len>>
targetVars    == <<exceptionVars, removed, pc, own, todo, filtered, evaluations>>

(* The first n slots of the rule's array. *)
SliceOf(n) == [len |-> n, private |-> FALSE, array |-> <<>>]
NoSlice    == SliceOf(0)

TargetsInit ==
    /\ written \in Negations
    /\ array = <<>> /\ len = 0
    /\ removed = [t \in Txs |-> <<>>]
    /\ pc = [t \in Txs |-> "idle"]
    /\ own = [t \in Txs |-> NoSlice]
    /\ todo = [t \in Txs |-> <<>>]
    /\ filtered = [t \in Txs |-> [from |-> <<>>, got |-> <<>>]]
    /\ evaluations = [t \in Txs |-> 0]
-----------------------------------------------------------------------------
(* A new backing array of twice the capacity, as the Go runtime grows a     *)
(* slice of this small size.                                                *)
Grown(a, x) == Append(a, x) \o [i \in 1..(IF Len(a) = 0 THEN 0 ELSE Len(a) - 1) |-> Nil]

(* Rule.AddVariableNegation, while the configuration is read. *)
AddVariableNegation ==
    /\ written # <<>>
    /\ array' = IF len < Len(array) THEN [array EXCEPT ![len + 1] = Head(written)]
                ELSE Grown(array, Head(written))
    /\ len' = len + 1
    /\ written' = Tail(written)
    /\ UNCHANGED <<removed, pc, own, todo, filtered, evaluations>>

(* Transaction.RemoveRuleTargetByID *)
RemoveRuleTargetByID(t, key) ==
    /\ written = <<>> /\ pc[t] = "idle"
    /\ Len(removed[t]) < MaxRemovals
    /\ removed' = [removed EXCEPT ![t] = Append(@, {key})]
    /\ UNCHANGED <<exceptionVars, pc, own, todo, filtered, evaluations>>

(* Rule.doEvaluate comes to the variable: v is a copy, its slice is not.    *)
StartVariable(t) ==
    /\ written = <<>> /\ pc[t] = "idle" /\ evaluations[t] < MaxEvaluations
    /\ pc' = [pc EXCEPT ![t] = "append"]
    /\ own' = [own EXCEPT ![t] = SliceOf(len)]
    /\ todo' = [todo EXCEPT ![t] = removed[t]]
    /\ evaluations' = [evaluations EXCEPT ![t] = @ + 1]
    /\ UNCHANGED <<exceptionVars, removed, filtered>>

(* mutant: the exception is added to the rule *)
AppendException_ToRule(t) ==
    /\ pc[t] = "append" /\ todo[t] # <<>>
    /\ todo' = [todo EXCEPT ![t] = Tail(@)]
    /\ own' = [own EXCEPT ![t].len = @ + 1]
    /\ array' = Append(SubSeq(array, 1, own[t].len), Head(todo[t])) /\ len' = Len(array')
    /\ UNCHANGED <<written, removed, pc, filtered, evaluations>>

(* v.Exceptions = append(v.Exceptions, ...) *)
AppendException(t) ==
    LET x == Head(todo[t])
        s == own[t]
    IN
    /\ pc[t] = "append" /\ todo[t] # <<>>
    /\ todo' = [todo EXCEPT ![t] = Tail(@)]
    /\ IF s.private
       THEN /\ own' = [own EXCEPT ![t].len = @ + 1, ![t].array = Append(SubSeq(@, 1, s.len), x)]
            /\ UNCHANGED array
       ELSE IF s.len < Len(array)
       THEN /\ array' = [array EXCEPT ![s.len + 1] = x]
            /\ own' = [own EXCEPT ![t].len = @ + 1]
       ELSE /\ own' = [own EXCEPT ![t] = [len |-> s.len + 1, private |-> TRUE,
                                          array |-> Append(SubSeq(array, 1, s.len), x)]]
            /\ UNCHANGED array
    /\ UNCHANGED <<written, len, removed, pc, filtered, evaluations>>

(* The exceptions the transaction sees now. *)
View(t) == SubSeq(IF own[t].private THEN own[t].array ELSE array, 1, own[t].len)
-----------------------------------------------------------------------------
(* How many exceptions match a target. *)
Hits(key, exceptions) == Cardinality({e \in DOMAIN exceptions : key \in exceptions[e]})

(* rmi: the index of a target, once for every exception that matches it.    *)
ToRemove(fields, exceptions) ==
    LET rmi[i \in 0..Len(fields)] ==
            IF i = 0 THEN <<>> ELSE rmi[i - 1] \o [e \in 1..Hits(fields[i], exceptions) |-> i]
    IN  rmi[Len(fields)]

Without(s, i) == [j \in 1..(Len(s) - 1) |-> IF j < i THEN s[j] ELSE s[j + 1]]

(* mutant: the target after the excepted one goes *)
RemoveIndex_Next(i, left) ==
    IF left.panic \/ i > Len(left.fields) THEN left
    ELSE [left EXCEPT !.fields = IF i < Len(@) THEN Without(@, i + 1) ELSE @]

(* One turn of the loop that removes them, counted from 1.  An index beyond *)
(* the end cuts the list before its neighbour, and panics at the first.     *)
RemoveIndex(i, left) ==
    IF left.panic THEN left
    ELSE IF i <= Len(left.fields) THEN [left EXCEPT !.fields = Without(@, i)]
    ELSE IF i = 1 THEN [left EXCEPT !.panic = TRUE]
    ELSE [left EXCEPT !.fields = SubSeq(@, 1, i - 2)]

(* Transaction.GetField up to the count: the indexes are read backwards.    *)
FilteredFields(fields, exceptions) ==
    LET rmi == ToRemove(fields, exceptions)
        left[n \in 0..Len(rmi)] ==
            IF n = 0 THEN [panic |-> FALSE, fields |-> fields]
            ELSE RemoveIndex(rmi[Len(rmi) + 1 - n], left[n - 1])
    IN  left[Len(rmi)]

GetField(t) ==
    /\ pc[t] = "append" /\ todo[t] = <<>>
    /\ \E fields \in Fields :
        LET left == FilteredFields(fields, View(t)) IN
        /\ pc' = [pc EXCEPT ![t] = IF left.panic THEN "panic" ELSE "idle"]
        /\ filtered' = [filtered EXCEPT ![t] = [from |-> fields, got |-> left.fields]]
    /\ own' = [own EXCEPT ![t] = NoSlice]
    /\ UNCHANGED <<exceptionVars, removed, todo, evaluations>>

TargetsNext ==
    \/ AddVariableNegation
    \/ \E t \in Txs : \/ \E key \in Keys : RemoveRuleTargetByID(t, key)
                      \/ StartVariable(t) \/ AppendException(t) \/ GetField(t)

TargetsSpec == TargetsInit /\ [][TargetsNext]_targetVars
-----------------------------------------------------------------------------
(* The exceptions of the rule and those of the transaction. *)
Excepted(t) == SubSeq(array, 1, len) \o removed[t]

(* The targets that none of them matches, by their place. *)
Targets(t, fields) == {i \in DOMAIN fields : \A e \in DOMAIN Excepted(t) : fields[i] \notin Excepted(t)[e]}

(* got has the members of fields at the given places, in order. *)
Selects(got, fields, places) ==
    \E order \in [DOMAIN got -> DOMAIN fields] :
        /\ {order[k] : k \in DOMAIN got} = places
        /\ \A j, k \in DOMAIN got : j < k => order[j] < order[k]
        /\ \A k \in DOMAIN got : got[k] = fields[order[k]]

(* No target is matched twice: GetField would remove its neighbour with it. *)
MatchedOnce(t, fields) == \A i \in DOMAIN fields : Hits(fields[i], Excepted(t)) <= 1

(* No other transaction appends to the rule's array: it is full, so that    *)
(* appending copies it, or the others have nothing to append.               *)
ArrayUnshared(t) == len = Len(array) \/ \A u \in Txs \ {t} : removed[u] = <<>>

(* A rule is evaluated against exactly the targets that neither the rule    *)
(* nor its own transaction excepts, in order, whatever other transactions   *)
(* except at the same time (GetField, doEvaluate): so long as no target is  *)
(* excepted twice, and the rule's slice has no room two transactions write  *)
(* to.                                                                      *)
ExceptionsApplied ==
    [][\A t \in Txs :
        /\ pc[t] = "append" /\ pc'[t] # "append"
        /\ MatchedOnce(t, filtered'[t].from) /\ ArrayUnshared(t)
        => /\ pc'[t] = "idle"
           /\ Selects(filtered'[t].got, filtered'[t].from, Targets(t, filtered'[t].from))]_targetVars

(* What transactions do never changes the exceptions of the rule itself.    *)
RuleKeepsExceptions ==
    [][written = <<>> => SubSeq(array', 1, len') = SubSeq(array, 1, len)]_targetVars
=============================================================================
