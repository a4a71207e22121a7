------------------------ MODULE TransformationCache ------------------------
(***************************************************************************)
(* Transformations of rule targets and the cache of their results that one *)
(* evaluation of a phase keeps (internal/corazawaf/rule.go, rulegroup.go). *)
(* Rules are compiled first, t: action by t: action, then phases are       *)
(* evaluated, of one transaction after another from the pool.              *)
(*                                                                         *)
(* A transformation is uninterpreted: a value is its origin and the names  *)
(* of the transformations applied to it, so that two results are equal     *)
(* only if they came about in the same way.  A key stands for the pointer  *)
(* of the key string: all values of an argument share it.                  *)
(***************************************************************************)
EXTENDS Naturals, Sequences, FiniteSets

CONSTANTS Rules,            (* the rules of the WAF                         *)
          Names,            (* names of transformations                     *)
          Failing,          (* those that return an error                   *)
          Requests,         (* the arguments of a request: key -> values    *)
          Origins,          (* where values come from                       *)
          MaxTransformations, (* bound: t: actions per rule                 *)
          MaxLists          (* bound: lists of transformations with an id   *)

(* A value is its origin and the transformations applied to it. *)
Raw(o) == [origin |-> o, applied |-> <<>>]

ASSUME CacheAssumption ==
    /\ Failing \subseteq Names
    /\ \A q \in Requests : \A k \in DOMAIN q : q[k] \in Seq(Origins)
    /\ MaxTransformations \in Nat /\ MaxLists \in Nat

VARIABLES transformations,    (* of each rule                               *)
          transformationsID,  (* of each rule                               *)
          multiMatch,         (* of each rule                               *)
          IDToName,           (* transformationIDToName, index 0 the empty  *)
          compiled,           (* the rules are read, phases are evaluated   *)
          args,               (* the arguments of the current request       *)
          cache,              (* transformationKey -> the values cached     *)
          lateNone,           (* history: the rules with a t:none after     *)
                              (* other transformations                      *)
          last                (* history: whether the last transformArg     *)
                              (* returned what its rule asks for, and       *)
                              (* whether its key determines the value       *)

ruleVars  == <<transformations, transformationsID, multiMatch, IDToName, compiled, lateNone>>
cacheVars == <<ruleVars, args, cache, last>>

EmptyCache == [k \in {} |-> <<>>]

CacheInit ==
    /\ transformations = [r \in Rules |-> <<>>]
    /\ transformationsID = [r \in Rules |-> 1]
    /\ multiMatch \in [Rules -> BOOLEAN]
    /\ IDToName = << <<>> >>
    /\ compiled = FALSE
    /\ args \in Requests
    /\ cache = EmptyCache
    /\ lateNone = {}
    /\ last = [exact |-> TRUE, determined |-> TRUE]
-----------------------------------------------------------------------------
(* transformationNameToID *)
IDsOf(list) == {i \in DOMAIN IDToName : IDToName[i] = list}

(* transformationID, under transformationIDsLock: the id of the list that   *)
(* current names, longer by one name.                                       *)
TransformationID(r, name) ==
    LET list == Append(IDToName[transformationsID[r]], name) IN
    IF IDsOf(list) # {}
    THEN /\ \E i \in IDsOf(list) : transformationsID' = [transformationsID EXCEPT ![r] = i]
         /\ UNCHANGED IDToName
    ELSE /\ transformationsID' = [transformationsID EXCEPT ![r] = Len(IDToName) + 1]
         /\ IDToName' = Append(IDToName, list)

(* The action t of a rule, with a transformation's name. *)
AddTransformation(r, name) ==
    /\ ~compiled
    /\ Len(IDToName[transformationsID[r]]) < MaxTransformations
    /\ transformations' = [transformations EXCEPT ![r] = Append(@, name)]
    /\ TransformationID(r, name)
    /\ Len(IDToName') <= MaxLists
    /\ UNCHANGED <<multiMatch, compiled, lateNone, args, cache, last>>

(* The action t:none. *)
ClearTransformations(r) ==
    /\ ~compiled
    /\ Len(IDToName[transformationsID[r]]) < MaxTransformations
    /\ transformations' = [transformations EXCEPT ![r] = <<>>]
    /\ lateNone' = IF transformations[r] = <<>> THEN lateNone ELSE lateNone \union {r}
    /\ UNCHANGED <<transformationsID, multiMatch, IDToName, compiled, args, cache, last>>

Compile ==
    /\ ~compiled
    /\ compiled' = TRUE
    /\ UNCHANGED <<transformations, transformationsID, multiMatch, IDToName, lateNone, args, cache, last>>
-----------------------------------------------------------------------------
Succeeding(names) == SelectSeq(names, LAMBDA n : n \notin Failing)

(* executeTransformations: a transformation that fails is passed over. *)
Transformed(v, names) == [v EXCEPT !.applied = @ \o Succeeding(names)]

(* executeTransformationsMultimatch: the value and every intermediate one.  *)
(* What a transformation that fails returns is left out, and is what the    *)
(* next one gets.                                                           *)
Multimatched(v, names) ==
    LET added == SelectSeq([i \in 1..Len(names) |-> i], LAMBDA i : names[i] \notin Failing)
    IN  <<v>> \o [j \in 1..Len(added) |-> [v EXCEPT !.applied = @ \o SubSeq(names, 1, added[j])]]

(* What the transformations of rule r make of a value. *)
Asked(r, v) ==
    IF multiMatch[r] THEN Multimatched(v, transformations[r])
    ELSE <<Transformed(v, transformations[r])>>

KeyOf(r, key, index) == [argKey |-> key, argIndex |-> index, transformationsID |-> transformationsID[r]]

(* Rule.transformArg for the value v, found under key at index of what      *)
(* GetField returned: what it returns ...                                   *)
TransformArg(r, key, index, v) ==
    LET k == KeyOf(r, key, index) IN
    IF multiMatch[r] \/ transformations[r] = <<>> \/ k \notin DOMAIN cache
    THEN Asked(r, v) ELSE cache[k]

(* ... and what it leaves in the cache. *)
Remember(r, key, index, v) ==
    LET k == KeyOf(r, key, index) IN
    cache' = IF multiMatch[r] \/ transformations[r] = <<>> \/ k \in DOMAIN cache THEN cache
             ELSE [x \in DOMAIN cache \union {k} |-> IF x = k THEN Asked(r, v) ELSE cache[x]]

Before(others) ==
    LET F[S \in SUBSET DOMAIN args] ==
            IF S = {} THEN 0
            ELSE LET k == CHOOSE k \in S : TRUE IN Len(args[k]) + F[S \ {k}]
    IN F[others]

(* Where the j-th value of key may stand in what GetField returns: it has   *)
(* the values of the key alone, or those of other keys before them, in the  *)
(* order of the map.                                                        *)
Indexes(key, j) == {Before(others) + j - 1 : others \in SUBSET (DOMAIN args \ {key})}

(* A rule is evaluated against a value of an argument. *)
EvaluateArg(r) ==
    /\ compiled
    /\ \E key \in DOMAIN args : \E j \in DOMAIN args[key] : \E i \in Indexes(key, j) :
        LET v == Raw(args[key][j]) IN
        /\ Remember(r, key, i, v)
        /\ last' = [exact |-> TransformArg(r, key, i, v) = Asked(r, v),
                    determined |-> Len(args[key]) = 1]
    /\ UNCHANGED <<ruleVars, args>>

(* mutant: the cache of the previous evaluation stays *)
StartEval_KeepsCache ==
    /\ compiled
    /\ args' \in Requests
    /\ UNCHANGED <<ruleVars, cache, last>>

(* RuleGroup.Eval: another phase, or the next transaction with the same     *)
(* map, whose strings may be where the old ones were.                       *)
StartEval ==
    /\ compiled
    /\ cache' = EmptyCache
    /\ args' \in Requests
    /\ UNCHANGED <<ruleVars, last>>

CacheNext ==
    \/ \E r \in Rules, n \in Names : AddTransformation(r, n)
    \/ \E r \in Rules : ClearTransformations(r)
    \/ Compile
    \/ \E r \in Rules : EvaluateArg(r)
    \/ StartEval

CacheSpec == CacheInit /\ [][CacheNext]_cacheVars
-----------------------------------------------------------------------------
(* The cache cannot be told from its absence: transformArg returns what the *)
(* transformations of its own rule make of the value at hand.  This holds   *)
(* only where the key of the cache determines the value: not for an         *)
(* argument with several values, whose place among the targets may differ   *)
(* from rule to rule, and not with a late t:none, for which                 *)
(* ClearTransformations empties the list of the rule and leaves its id.     *)
CacheTransparent == last.determined /\ lateNone = {} => last.exact
=============================================================================
