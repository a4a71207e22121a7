------------------------- MODULE SharedStateProofs -------------------------
(***************************************************************************)
(* What rules and transactions share, each for every value of its          *)
(* constants: the cache of transformed values (TransformationCache), the   *)
(* goroutines that calls of rbl leave behind (Rbl), and the audit log      *)
(* writer (AuditWriter).                                                   *)
(***************************************************************************)
EXTENDS TransformationCache, Rbl, AuditWriter, SequenceTheorems, TLAPS

(* Every rule has the id of a list. *)
ListsTyped ==
    /\ IDToName \in Seq(Seq(Names))
    /\ transformationsID \in [Rules -> DOMAIN IDToName]
    /\ transformations \in [Rules -> Seq(Names)]
    /\ lateNone \subseteq Rules
    /\ compiled \in BOOLEAN

(* It is the id of its own list, unless a late t:none has emptied that. *)
IDsInv == \A r \in Rules \ lateNone : IDToName[transformationsID[r]] = transformations[r]

(* What is cached of an argument with one value is that value with the      *)
(* transformations of the list applied.                                     *)
CacheInv ==
    \A k \in DOMAIN cache :
        Len(args[k.argKey]) = 1 =>
            cache[k] = <<Transformed(Raw(args[k.argKey][1]), IDToName[k.transformationsID])>>

CompileInv == ~compiled => cache = EmptyCache /\ last.exact

(* The inductive invariant. *)
CacheIInv ==
    /\ args \in Requests
    /\ ListsTyped /\ IDsInv /\ CompileInv
    /\ lateNone = {} => CacheInv
    /\ CacheTransparent

-----------------------------------------------------------------------------
(* The empty cache holds nothing wrong. *)
LEMMA EmptyCacheInv == cache = EmptyCache => CacheInv
  BY DEF EmptyCache, CacheInv

(* The initial states satisfy the invariant: every rule has the empty list, *)
(* the first one with an id.                                                *)
LEMMA CacheInitInv == CacheInit => CacheIInv
<1> SUFFICES ASSUME CacheInit PROVE CacheIInv
  OBVIOUS
<1> DEFINE e == <<>>
<1>1. e \in Seq(Names)
  OBVIOUS
<1>2. /\ IDToName = <<e>> /\ transformations = [r \in Rules |-> e]
      /\ transformationsID = [r \in Rules |-> 1] /\ lateNone = {} /\ compiled = FALSE
      /\ cache = EmptyCache /\ last = [exact |-> TRUE, determined |-> TRUE] /\ args \in Requests
  BY DEF CacheInit
<1> HIDE DEF e
<1>3. IDToName \in Seq(Seq(Names)) /\ DOMAIN IDToName = {1} /\ IDToName[1] = e
  BY <1>1, <1>2
<1>4. ListsTyped
  BY <1>1, <1>2, <1>3, Zenon DEF ListsTyped
<1>5. IDsInv
  BY <1>2, <1>3 DEF IDsInv
<1>6. last.exact
  BY <1>2
<1> QED BY <1>2, <1>4, <1>5, <1>6, EmptyCacheInv DEF CacheIInv, CompileInv, CacheTransparent

(* t:<name>: the rule goes on to the list that is longer by the name, which *)
(* has an id or gets the next one; the ids of all lists stay.               *)
LEMMA AddTransformationInv ==
    ASSUME CacheIInv, NEW r \in Rules, NEW name \in Names, AddTransformation(r, name)
    PROVE  CacheIInv'
<1> DEFINE list == Append(IDToName[transformationsID[r]], name)
<1>1. /\ IDToName \in Seq(Seq(Names))
      /\ transformationsID \in [Rules -> DOMAIN IDToName]
      /\ transformations \in [Rules -> Seq(Names)]
  BY DEF CacheIInv, ListsTyped
<1>2. /\ transformations' = [transformations EXCEPT ![r] = Append(@, name)]
      /\ ~compiled /\ compiled' = compiled /\ lateNone' = lateNone
      /\ args' = args /\ cache' = cache /\ last' = last
  BY DEF AddTransformation
<1>3. list \in Seq(Names)
  BY <1>1
<1>4. \E i \in DOMAIN IDToName' :
        /\ transformationsID' = [transformationsID EXCEPT ![r] = i]
        /\ IDToName' \in Seq(Seq(Names)) /\ IDToName'[i] = list
        /\ DOMAIN IDToName \subseteq DOMAIN IDToName'
        /\ \A j \in DOMAIN IDToName : IDToName'[j] = IDToName[j]
  <2>1. CASE IDsOf(list) # {}
    <3>1. PICK i \in IDsOf(list) : transformationsID' = [transformationsID EXCEPT ![r] = i]
      BY <2>1 DEF AddTransformation, TransformationID
    <3>2. IDToName' = IDToName /\ i \in DOMAIN IDToName /\ IDToName[i] = list
      BY <2>1, <3>1 DEF AddTransformation, TransformationID, IDsOf
    <3> QED BY <1>1, <3>1, <3>2, Zenon
  <2>2. CASE IDsOf(list) = {}
    <3> HIDE DEF list
    <3>1. /\ transformationsID' = [transformationsID EXCEPT ![r] = Len(IDToName) + 1]
          /\ IDToName' = Append(IDToName, list)
      BY <2>2 DEF AddTransformation, TransformationID, list
    <3>2. /\ IDToName' \in Seq(Seq(Names)) /\ Len(IDToName') = Len(IDToName) + 1
          /\ IDToName'[Len(IDToName) + 1] = list
          /\ \A j \in 1..Len(IDToName) : IDToName'[j] = IDToName[j]
      BY <1>1, <1>3, <3>1, AppendProperties
    <3>3. DOMAIN IDToName = 1..Len(IDToName) /\ DOMAIN IDToName' = 1..(Len(IDToName) + 1)
          /\ Len(IDToName) \in Nat
      BY <1>1, <3>2, LenProperties
    <3>4. Len(IDToName) + 1 \in DOMAIN IDToName' /\ DOMAIN IDToName \subseteq DOMAIN IDToName'
      BY <3>3
    <3>5. \A j \in DOMAIN IDToName : IDToName'[j] = IDToName[j]
      BY <3>2, <3>3
    <3> QED BY <3>1, <3>2, <3>4, <3>5, Zenon
  <2> QED BY <2>1, <2>2, Zenon
<1>5. PICK i \in DOMAIN IDToName' :
        /\ transformationsID' = [transformationsID EXCEPT ![r] = i]
        /\ IDToName' \in Seq(Seq(Names)) /\ IDToName'[i] = list
        /\ DOMAIN IDToName \subseteq DOMAIN IDToName'
        /\ \A j \in DOMAIN IDToName : IDToName'[j] = IDToName[j]
  BY <1>4, Zenon
<1>6. transformations' \in [Rules -> Seq(Names)]
  BY <1>1, <1>2
<1>7. transformationsID' \in [Rules -> DOMAIN IDToName']
  <2>1. transformationsID \in [Rules -> DOMAIN IDToName']
    BY <1>1, <1>5
  <2> QED BY <1>5, <2>1
<1>8. ListsTyped'
  BY <1>2, <1>5, <1>6, <1>7 DEF CacheIInv, ListsTyped
<1>9. IDsInv'
  <2> SUFFICES ASSUME NEW q \in Rules \ lateNone
               PROVE  IDToName'[transformationsID'[q]] = transformations'[q]
    BY <1>2 DEF IDsInv
  <2>1. IDToName[transformationsID[q]] = transformations[q]
    BY DEF CacheIInv, IDsInv
  <2>2. CASE q = r
    <3>1. transformations'[q] = Append(transformations[q], name) /\ transformationsID'[q] = i
      BY <1>1, <1>2, <1>5, <2>2
    <3> QED BY <1>5, <2>1, <2>2, <3>1, Zenon
  <2>3. CASE q # r
    <3>1. transformations'[q] = transformations[q] /\ transformationsID'[q] = transformationsID[q]
      BY <1>1, <1>2, <1>5, <2>3
    <3>2. transformationsID[q] \in DOMAIN IDToName
      BY <1>1
    <3> QED BY <1>5, <2>1, <3>1, <3>2
  <2> QED BY <2>2, <2>3
<1>10. cache' = EmptyCache /\ last'.exact
  BY <1>2 DEF CacheIInv, CompileInv
<1>11. CacheInv'
  BY <1>10 DEF EmptyCache, CacheInv
<1> QED BY <1>2, <1>8, <1>9, <1>10, <1>11 DEF CacheIInv, CompileInv, CacheTransparent

(* t:none: a list that was not empty leaves its id behind. *)
LEMMA ClearTransformationsInv ==
    ASSUME CacheIInv, NEW r \in Rules, ClearTransformations(r)
    PROVE  CacheIInv'
<1>1. /\ transformations' = [transformations EXCEPT ![r] = <<>>]
      /\ lateNone' = IF transformations[r] = <<>> THEN lateNone ELSE lateNone \union {r}
      /\ transformationsID' = transformationsID /\ IDToName' = IDToName
      /\ ~compiled /\ compiled' = compiled
      /\ args' = args /\ cache' = cache /\ last' = last
  BY DEF ClearTransformations
<1>2. /\ IDToName \in Seq(Seq(Names))
      /\ transformationsID \in [Rules -> DOMAIN IDToName]
      /\ transformations \in [Rules -> Seq(Names)]
  BY DEF CacheIInv, ListsTyped
<1>3. transformations' \in [Rules -> Seq(Names)]
  BY <1>1, <1>2
<1>4. lateNone' \subseteq Rules
  BY <1>1 DEF CacheIInv, ListsTyped
<1>5. ListsTyped'
  BY <1>1, <1>3, <1>4 DEF CacheIInv, ListsTyped
<1>6. IDsInv'
  <2> SUFFICES ASSUME NEW q \in Rules \ lateNone'
               PROVE  IDToName[transformationsID[q]] = transformations'[q]
    BY <1>1 DEF IDsInv
  <2>1. q \in Rules \ lateNone
    BY <1>1
  <2>2. transformations'[q] = transformations[q]
    BY <1>1, <1>2
  <2> QED BY <2>1, <2>2 DEF CacheIInv, IDsInv
<1>7. cache' = EmptyCache /\ last'.exact
  BY <1>1 DEF CacheIInv, CompileInv
<1>8. CacheInv'
  BY <1>7 DEF EmptyCache, CacheInv
<1> QED BY <1>1, <1>5, <1>6, <1>7, <1>8 DEF CacheIInv, CompileInv, CacheTransparent

(* transformArg: a value found in the cache was put there by a rule with    *)
(* the same id, so with the same transformations.                           *)
LEMMA EvaluateArgInv ==
    ASSUME CacheIInv, NEW r \in Rules, EvaluateArg(r)
    PROVE  CacheIInv'
<1>1. /\ UNCHANGED <<transformations, transformationsID, multiMatch, IDToName, compiled, lateNone, args>>
      /\ compiled
  BY DEF EvaluateArg, ruleVars
<1> DEFINE Step(key, j, i) ==
             /\ Remember(r, key, i, Raw(args[key][j]))
             /\ last' = [exact |-> TransformArg(r, key, i, Raw(args[key][j])) = Asked(r, Raw(args[key][j])),
                         determined |-> Len(args[key]) = 1]
<1>0. \E key \in DOMAIN args : \E j \in DOMAIN args[key] : \E i \in Indexes(key, j) : Step(key, j, i)
  BY Zenon DEF EvaluateArg
<1>2. PICK key, j, i : key \in DOMAIN args /\ j \in DOMAIN args[key] /\ Step(key, j, i)
  <2> HIDE DEF Step
  <2> QED BY <1>0, Zenon
<1> DEFINE v == Raw(args[key][j])
           k == KeyOf(r, key, i)
<1>3. k.argKey = key /\ k.transformationsID = transformationsID[r]
  BY DEF KeyOf
<1>4. last'.exact = (TransformArg(r, key, i, v) = Asked(r, v)) /\ last'.determined = (Len(args[key]) = 1)
  BY <1>2
<1>5. ASSUME Len(args[key]) = 1, lateNone = {}, ~multiMatch[r]
      PROVE  Asked(r, v) = <<Transformed(Raw(args[key][1]), IDToName[transformationsID[r]])>>
  <2>1. args[key] \in Seq(Origins)
    BY <1>2, CacheAssumption DEF CacheIInv
  <2>2. j = 1
    BY <1>2, <1>5, <2>1
  <2>3. IDToName[transformationsID[r]] = transformations[r]
    BY <1>5 DEF CacheIInv, IDsInv
  <2> QED BY <1>5, <2>2, <2>3 DEF Asked
<1> HIDE DEF v, k
<1>6. CacheTransparent'
  <2> SUFFICES ASSUME last'.determined, lateNone' = {} PROVE last'.exact
    BY DEF CacheTransparent
  <2>1. Len(args[key]) = 1 /\ lateNone = {}
    BY <1>1, <1>4, Zenon
  <2>2. TransformArg(r, key, i, v) = Asked(r, v)
    <3>1. CASE multiMatch[r] \/ transformations[r] = <<>> \/ k \notin DOMAIN cache
      BY <3>1 DEF TransformArg, k
    <3>2. CASE ~(multiMatch[r] \/ transformations[r] = <<>> \/ k \notin DOMAIN cache)
      <4>1. TransformArg(r, key, i, v) = cache[k]
        BY <3>2 DEF TransformArg, k
      <4>2. cache[k] = <<Transformed(Raw(args[key][1]), IDToName[transformationsID[r]])>>
        BY <1>3, <2>1, <3>2 DEF CacheIInv, CacheInv
      <4> QED BY <1>5, <2>1, <3>2, <4>1, <4>2
    <3> QED BY <3>1, <3>2
  <2> QED BY <1>4, <2>2, Zenon
<1>7. ASSUME lateNone' = {} PROVE CacheInv'
  <2>1. lateNone = {} /\ CacheInv
    BY <1>1, <1>7 DEF CacheIInv
  <2>2. CASE multiMatch[r] \/ transformations[r] = <<>> \/ k \in DOMAIN cache
    <3>1. cache' = cache
      BY <1>2, <2>2 DEF Remember, k, v
    <3> QED BY <1>1, <2>1, <3>1 DEF CacheInv
  <2>3. CASE ~(multiMatch[r] \/ transformations[r] = <<>> \/ k \in DOMAIN cache)
    <3>1. cache' = [x \in DOMAIN cache \union {k} |-> IF x = k THEN Asked(r, v) ELSE cache[x]]
      BY <1>2, <2>3 DEF Remember, k, v
    <3> SUFFICES ASSUME NEW x \in DOMAIN cache', Len(args[x.argKey]) = 1
                 PROVE  cache'[x] = <<Transformed(Raw(args[x.argKey][1]), IDToName[x.transformationsID])>>
      BY <1>1 DEF CacheInv
    <3>2. CASE x = k
      <4>1. cache'[x] = Asked(r, v)
        BY <3>1, <3>2
      <4> QED BY <1>3, <1>5, <2>1, <2>3, <3>2, <4>1
    <3>3. CASE x # k
      <4>1. x \in DOMAIN cache /\ cache'[x] = cache[x]
        BY <3>1, <3>3
      <4> QED BY <2>1, <4>1 DEF CacheInv
    <3> QED BY <3>2, <3>3
  <2> QED BY <2>2, <2>3
<1>8. args' \in Requests /\ ListsTyped' /\ IDsInv' /\ CompileInv'
  BY <1>1 DEF CacheIInv, ListsTyped, IDsInv, CompileInv
<1> QED BY <1>6, <1>7, <1>8 DEF CacheIInv

(* Every step keeps the invariant. *)
LEMMA CacheStepInv == CacheIInv /\ [CacheNext]_cacheVars => CacheIInv'
<1> SUFFICES ASSUME CacheIInv, [CacheNext]_cacheVars PROVE CacheIInv'
  OBVIOUS
<1>1. ASSUME NEW r \in Rules, NEW name \in Names, AddTransformation(r, name) PROVE CacheIInv'
  BY <1>1, AddTransformationInv
<1>2. ASSUME NEW r \in Rules, ClearTransformations(r) PROVE CacheIInv'
  BY <1>2, ClearTransformationsInv
<1>3. CASE Compile
  <2>1. /\ UNCHANGED <<transformations, transformationsID, IDToName, lateNone, args, cache, last>>
        /\ compiled' = TRUE
    BY <1>3 DEF Compile
  <2>2. ListsTyped' /\ IDsInv' /\ CompileInv' /\ CacheTransparent'
    BY <2>1 DEF CacheIInv, ListsTyped, IDsInv, CompileInv, CacheTransparent
  <2>3. CacheInv' <=> CacheInv
    BY <2>1 DEF CacheInv
  <2> QED BY <2>1, <2>2, <2>3 DEF CacheIInv
<1>4. ASSUME NEW r \in Rules, EvaluateArg(r) PROVE CacheIInv'
  BY <1>4, EvaluateArgInv
<1>5. CASE StartEval
  <2>1. /\ UNCHANGED <<transformations, transformationsID, IDToName, lateNone, compiled, last>>
        /\ compiled /\ args' \in Requests /\ cache' = EmptyCache
    BY <1>5 DEF StartEval, ruleVars
  <2>2. ListsTyped' /\ IDsInv' /\ CompileInv' /\ CacheTransparent'
    BY <2>1 DEF CacheIInv, ListsTyped, IDsInv, CompileInv, CacheTransparent
  <2>3. CacheInv'
    BY <2>1 DEF CacheInv, EmptyCache
  <2> QED BY <2>1, <2>2, <2>3 DEF CacheIInv
<1>6. CASE UNCHANGED cacheVars
  <2>1. UNCHANGED <<transformations, transformationsID, IDToName, lateNone, compiled, args, cache, last>>
    BY <1>6 DEF cacheVars, ruleVars
  <2>2. ListsTyped' /\ IDsInv' /\ CompileInv' /\ CacheTransparent'
    BY <2>1 DEF CacheIInv, ListsTyped, IDsInv, CompileInv, CacheTransparent
  <2>3. CacheInv' <=> CacheInv
    BY <2>1 DEF CacheInv
  <2> QED BY <2>1, <2>2, <2>3 DEF CacheIInv
<1> QED BY <1>1, <1>2, <1>3, <1>4, <1>5, <1>6 DEF CacheNext

(* Whatever the rules, their transformations and the requests, a value      *)
(* taken from the cache is the one the rule would have computed             *)
(* (Rule.transformArg, transformationID, RuleGroup.Eval's clearing of the   *)
(* cache).                                                                  *)
THEOREM CacheCorrect == CacheSpec => []CacheTransparent
<1>1. CacheIInv => CacheTransparent
  BY DEF CacheIInv
<1> QED BY <1>1, CacheInitInv, CacheStepInv, PTL DEF CacheSpec
-----------------------------------------------------------------------------
(* The rbl operator. *)
Places == {"unborn", "LookupHost", "LookupTXT", "set", "true", "false", "closed"}

RblTypeOK ==
    /\ call \in 0..MaxCalls /\ waiting \in BOOLEAN
    /\ looker \in [Calls -> [at : Places, captures : Nat]]
    /\ result \in [Calls -> {"none", "true", "false"}]
    /\ transaction \in Nat /\ owner \in [Calls -> Nat] /\ Capture \in BOOLEAN
    /\ httpbl_msg \in {0} \cup Calls /\ capture \in {0} \cup Calls

(* A call that waits was made for the transaction at hand, and only such a  *)
(* call has no result.                                                      *)
CallsInv ==
    /\ waiting => call > 0 /\ owner[call] = transaction
    /\ \A c \in Calls : /\ c > call => looker[c].at = "unborn"
                        /\ result[c] = "none" <=> c > call \/ (waiting /\ c = call)
                        /\ owner[c] <= transaction

(* Only a goroutine that has come to its end captures, its own record, and  *)
(* the goroutine of a call that reported a match is over.                   *)
LookerInv ==
    \A c \in Calls : /\ looker[c].captures \in {0, c}
                     /\ looker[c].captures # 0 => looker[c].at \in {"true", "closed"}
                     /\ result[c] = "true" => looker[c].at = "closed"

(* TX:0 was captured by a call that reported a match, by the last call when *)
(* that one did and its rule captures, and only then; TX:httpbl_msg was set *)
(* by one that found a record.                                              *)
TXInv ==
    /\ capture # 0 => looker[capture].captures = capture
    /\ ~waiting /\ call > 0 /\ owner[call] = transaction /\ result[call] = "true"
          /\ looker[call].captures # 0 /\ Capture => capture = call
    /\ capture # 0 /\ capture = call => Capture
    /\ httpbl_msg # 0 =>
          /\ looker[httpbl_msg].captures = httpbl_msg
          /\ owner[httpbl_msg] = transaction \/ result[httpbl_msg] = "false"

(* The inductive invariant. *)
RblInv == RblTypeOK /\ CallsInv /\ LookerInv /\ TXInv

-----------------------------------------------------------------------------
(* Before the first call nothing is written. *)
LEMMA RblInitInv == RblInit => RblInv
<1> SUFFICES ASSUME RblInit PROVE RblInv
  OBVIOUS
<1> USE RblAssumption DEF RblInit, Calls
<1>1. RblTypeOK
  <2>1. \A c \in Calls : [at |-> "unborn", captures |-> 0] \in [at : Places, captures : Nat]
    BY DEF Places
  <2>2. looker \in [Calls -> [at : Places, captures : Nat]]
    BY <2>1, Zenon
  <2>3. /\ result \in [Calls -> {"none", "true", "false"}] /\ owner \in [Calls -> Nat]
        /\ call \in 0..MaxCalls /\ transaction \in Nat
    OBVIOUS
  <2>4. waiting \in BOOLEAN /\ Capture \in BOOLEAN /\ httpbl_msg \in {0} \cup Calls /\ capture \in {0} \cup Calls
    BY Zenon
  <2> HIDE DEF RblInit, Calls
  <2> QED BY <2>2, <2>3, <2>4 DEF RblTypeOK
<1>2. CallsInv
  BY DEF CallsInv
<1>3. LookerInv /\ TXInv
  BY DEF LookerInv, TXInv
<1> QED BY <1>1, <1>2, <1>3 DEF RblInv

(* A step of one goroutine, whatever has become of its call. *)
LEMMA GoroutineInv ==
    ASSUME RblInv, NEW c \in Calls, Goroutine(c)
    PROVE  RblInv'
<1> USE DEF RblInv, RblTypeOK, Calls
<1>1. ASSUME NEW from \in {"LookupHost", "LookupTXT"}, NEW to \in {"LookupTXT", "set", "true", "false"},
             Goes(c, from, to),
             UNCHANGED <<call, waiting, cancelled, result, transaction, owner, Capture, httpbl_msg, capture>>
      PROVE  RblInv'
  <2>1. /\ looker' = [looker EXCEPT ![c].at = to]
        /\ looker[c].at = from
    BY <1>1 DEF Goes
  <2>2. /\ looker' \in [Calls -> [at : Places, captures : Nat]]
        /\ \A d \in Calls : /\ looker'[d].captures = looker[d].captures
                            /\ looker'[d].at = IF d = c THEN to ELSE looker[d].at
    BY <1>1, <2>1 DEF Places
  <2>3. RblTypeOK'
    BY <1>1, <2>2
  <2>4. CallsInv'
    BY <1>1, <2>1, <2>2 DEF CallsInv
  <2>5. LookerInv'
    BY <1>1, <2>1, <2>2 DEF LookerInv
  <2>6. TXInv'
    BY <1>1, <2>2 DEF TXInv
  <2> QED BY <2>3, <2>4, <2>5, <2>6
<1>2. CASE LookupHost(c) \/ LookupTXT(c)
  BY <1>1, <1>2 DEF LookupHost, LookupTXT, txVars
<1>3. CASE SetMessage(c)
  <2>1. /\ looker[c].at = "set"
        /\ looker' = [looker EXCEPT ![c] = [at |-> "true", captures |-> c]]
        /\ httpbl_msg' = c
        /\ UNCHANGED <<call, waiting, cancelled, result, transaction, owner, Capture, capture>>
    BY <1>3 DEF SetMessage, txVars
  <2>2. /\ looker' \in [Calls -> [at : Places, captures : Nat]]
        /\ looker'[c] = [at |-> "true", captures |-> c]
        /\ \A d \in Calls : d # c => looker'[d] = looker[d]
    BY <2>1 DEF Places
  <2>3. RblTypeOK'
    BY <2>1, <2>2
  <2>4. CallsInv'
    BY <2>1, <2>2 DEF CallsInv
  <2>5. LookerInv'
    BY <2>1, <2>2 DEF LookerInv
  <2>6. result[c] # "true" /\ c <= call
    BY <2>1 DEF LookerInv, CallsInv
  <2>7. owner[c] = transaction \/ result[c] = "false"
    BY <2>6 DEF CallsInv
  <2>8. capture # 0 => capture # c
    BY <2>1 DEF TXInv, LookerInv
  <2>9. TXInv'
    BY <2>1, <2>2, <2>6, <2>7, <2>8 DEF TXInv
  <2> QED BY <2>3, <2>4, <2>5, <2>9
<1> QED BY <1>2, <1>3 DEF Goroutine

(* The select of Evaluate: the answer arrives, or the timer fires. *)
LEMMA ReturnInv ==
    ASSUME RblInv, Receive \/ Timeout
    PROVE  RblInv'
<1> USE DEF RblInv, RblTypeOK, Calls
<1>1. call \in Calls /\ waiting /\ result[call] = "none" /\ owner[call] = transaction
  BY DEF Receive, Timeout, CallsInv
<1>2. CASE Receive
  <2>1. PICK res \in {"true", "false"} :
          /\ looker[call].at = res /\ looker' = [looker EXCEPT ![call].at = "closed"]
          /\ result' = [result EXCEPT ![call] = res]
          /\ capture' = IF res = "true" /\ looker[call].captures # 0 /\ Capture
                        THEN looker[call].captures ELSE capture
    BY <1>2 DEF Receive, Goes, CaptureField
  <2>2. waiting' = FALSE /\ UNCHANGED <<call, transaction, owner, Capture, httpbl_msg>>
    BY <1>2 DEF Receive, txVars
  <2>3. /\ looker' \in [Calls -> [at : Places, captures : Nat]]
        /\ \A d \in Calls : /\ looker'[d].captures = looker[d].captures
                            /\ looker'[d].at = IF d = call THEN "closed" ELSE looker[d].at
    BY <1>1, <2>1 DEF Places
  <2>4. /\ result' \in [Calls -> {"none", "true", "false"}]
        /\ \A d \in Calls : result'[d] = IF d = call THEN res ELSE result[d]
    BY <1>1, <2>1
  <2>5. RblTypeOK'
    BY <1>1, <2>1, <2>2, <2>3, <2>4, Zenon DEF LookerInv
  <2>6. CallsInv'
    BY <1>1, <2>2, <2>3, <2>4 DEF CallsInv
  <2>7. LookerInv'
    BY <2>1, <2>2, <2>3, <2>4 DEF LookerInv
  <2>8. TXInv'
    BY <1>1, <2>1, <2>2, <2>3, <2>4 DEF TXInv, LookerInv
  <2> QED BY <2>5, <2>6, <2>7, <2>8
<1>3. CASE Timeout
  <2>1. /\ waiting' = FALSE /\ UNCHANGED <<call, looker, transaction, owner, Capture, httpbl_msg, capture>>
        /\ result' \in [Calls -> {"none", "true", "false"}]
        /\ \A d \in Calls : result'[d] = IF d = call THEN "false" ELSE result[d]
    BY <1>1, <1>3 DEF Timeout, txVars
  <2>2. RblTypeOK'
    BY <2>1, Zenon
  <2>3. CallsInv'
    BY <1>1, <2>1 DEF CallsInv
  <2>4. LookerInv' /\ TXInv'
    BY <1>1, <2>1 DEF LookerInv, TXInv
  <2> QED BY <2>2, <2>3, <2>4
<1> QED BY <1>2, <1>3

(* Evaluate starts a goroutine. *)
LEMMA EvaluateInv ==
    ASSUME RblInv, Evaluate
    PROVE  RblInv'
<1> USE DEF RblInv, RblTypeOK, Calls
<1>1. /\ ~waiting /\ call + 1 \in Calls /\ call' = call + 1 /\ waiting' = TRUE /\ Capture' \in BOOLEAN
      /\ UNCHANGED <<cancelled, result, transaction, httpbl_msg, capture>>
  BY RblAssumption DEF Evaluate
<1>2. /\ looker' \in [Calls -> [at : Places, captures : Nat]]
      /\ \A d \in Calls : /\ looker'[d].captures = looker[d].captures
                          /\ looker'[d].at = IF d = call + 1 THEN "LookupHost" ELSE looker[d].at
  BY <1>1 DEF Evaluate, Places
<1>3. /\ owner' \in [Calls -> Nat]
      /\ \A d \in Calls : owner'[d] = IF d = call + 1 THEN transaction ELSE owner[d]
  BY <1>1 DEF Evaluate
<1>4. looker[call + 1].at = "unborn" /\ result[call + 1] # "true" /\ looker[call + 1].captures = 0
  BY <1>1 DEF CallsInv, LookerInv
<1>5. RblTypeOK'
  BY <1>1, <1>2, <1>3
<1>6. CallsInv'
  BY <1>1, <1>2, <1>3, <1>4 DEF CallsInv
<1>7. LookerInv'
  BY <1>1, <1>2, <1>4 DEF LookerInv
<1>8. TXInv'
  BY <1>1, <1>2, <1>3, <1>4 DEF TXInv
<1> QED BY <1>5, <1>6, <1>7, <1>8

(* Every step keeps the invariant. *)
LEMMA RblStepInv == RblInv /\ [RblNext]_rblVars => RblInv'
<1> SUFFICES ASSUME RblInv, [RblNext]_rblVars PROVE RblInv'
  OBVIOUS
<1>1. CASE Evaluate
  BY <1>1, EvaluateInv
<1>2. CASE Receive \/ Timeout
  BY <1>2, ReturnInv
<1>3. CASE Reuse
  <2>1. /\ ~waiting /\ transaction' = transaction + 1 /\ httpbl_msg' = 0 /\ capture' = 0 /\ Capture' = FALSE
        /\ UNCHANGED <<call, waiting, looker, result, owner>>
    BY <1>3 DEF Reuse
  <2>2. RblTypeOK /\ transaction \in Nat /\ owner \in [Calls -> Nat]
    BY DEF RblInv, RblTypeOK
  <2>3. RblTypeOK'
    <3>1. transaction + 1 \in Nat
      BY <2>2
    <3> QED BY <2>1, <2>2, <3>1, Zenon DEF RblTypeOK
  <2>4. CallsInv'
    <3>1. \A c \in Calls : owner[c] <= transaction'
      <4>1. \A c \in Calls : owner[c] \in Nat /\ owner[c] <= transaction
        BY <2>2 DEF RblInv, CallsInv
      <4> QED BY <2>1, <2>2, <4>1
    <3> QED BY <2>1, <3>1, Zenon DEF RblInv, CallsInv
  <2>5. LookerInv'
    BY <2>1, Zenon DEF RblInv, LookerInv
  <2>6. TXInv'
    <3>1. call > 0 => owner[call] # transaction'
      <4> SUFFICES ASSUME call > 0 PROVE owner[call] # transaction'
        OBVIOUS
      <4>1. call \in Calls
        BY <2>2, RblAssumption DEF RblTypeOK, Calls
      <4>2. owner[call] \in Nat /\ owner[call] <= transaction
        BY <2>2, <4>1 DEF RblInv, CallsInv
      <4> QED BY <2>1, <2>2, <4>2
    <3> QED BY <2>1, <3>1 DEF TXInv
  <2> QED BY <2>3, <2>4, <2>5, <2>6 DEF RblInv
<1>4. ASSUME NEW c \in Calls, Goroutine(c)
      PROVE  RblInv'
  BY <1>4, GoroutineInv
<1>5. CASE UNCHANGED rblVars
  BY <1>5 DEF rblVars, txVars, RblInv, RblTypeOK, CallsInv, LookerInv, TXInv
<1> QED BY <1>1, <1>2, <1>3, <1>4, <1>5 DEF RblNext

(* A reported match is the answer of the lookups of that call, and TX:0     *)
(* holds its record exactly when there is one and the rule captures: late   *)
(* goroutines of calls the timer gave up change neither (rbl.Evaluate).     *)
THEOREM OwnAnswer == RblSpec => []MatchIsOwnAnswer
<1>1. RblInv => MatchIsOwnAnswer
  BY DEF RblInv, RblTypeOK, LookerInv, TXInv, MatchIsOwnAnswer, Calls
<1> QED BY <1>1, RblInitInv, RblStepInv, PTL DEF RblSpec
-----------------------------------------------------------------------------
(* The audit log writers. *)
Files      == Paths \union {Empty}
Formatters == Formats \union {"nativeFormatter"}

Config == [file : Files, dir : Dirs \union {Empty}, formatter : Formatters,
           dirMode : Modes \union {"0755"}, fileMode : Modes \union {"0644"}]

Line == [file : Files, tx : Transactions, formatter : Formatters, whole : BOOLEAN]

(* The steps of the concurrent writer. *)
Storing == {"format", "open", "content", "lock"}

TypeOK ==
    /\ config \in Config
    /\ directives \in Nat
    /\ pc \in [Transactions -> {"start", "done", "error"} \union Storing]
    /\ log \in Seq(Line)

(* The writer has taken what is configured, and so has every log file that   *)
(* is not older than the file mode.                                          *)
WriterInv ==
    /\ writer.set.file = config.file
    /\ writer.set.formatter = config.formatter
    /\ writer.set.fileMode = config.fileMode
    /\ writer.type = "concurrent" => writer.set.dir = config.dir /\ writer.set.dirMode = config.dirMode
    /\ \A f \in DOMAIN logs \ older : logs[f] = config.fileMode

(* Nothing is written while the configuration is read, and only the         *)
(* concurrent writer stores files.                                          *)
IdleInv ==
    /\ ~Serving => pc = [t \in Transactions |-> "start"] /\ log = <<>> /\ files = <<>> /\ dirs = <<>>
    /\ \A t \in Transactions : pc[t] \in Storing => writer.type = "concurrent"
    /\ writer.set.file = Empty => log = <<>>

(* The lines of the log are of the transactions that are done, one of each   *)
(* whose line was not refused; and only a refused line is cut.               *)
LinesInv ==
    /\ \A i \in DOMAIN log : pc[log[i].tx] = "done"
    /\ \A i, j \in DOMAIN log : log[i].tx = log[j].tx => i = j
    /\ writer.set.file # Empty =>
          \A t \in Transactions : pc[t] = "done" /\ t \notin unprinted => \E i \in DOMAIN log : log[i].tx = t
    /\ \A i \in DOMAIN log : log[i].whole \/ log[i].tx \in unprinted

(* A record has its file before its line is printed. *)
FilesInv ==
    \A t \in Transactions :
        writer.type = "concurrent" /\ pc[t] \in {"lock", "done"} /\ OwnID(t) =>
            FilePath(t) \in DOMAIN files /\ files[FilePath(t)].tx = t

(* What is written is written as configured. *)
WrittenInv ==
    /\ \A i \in DOMAIN log : log[i].file = config.file /\ log[i].formatter = config.formatter
    /\ \A f \in DOMAIN files : f[1] = config.dir /\ files[f].formatter = config.formatter
                               /\ files[f].mode = config.fileMode
    /\ \A d \in DOMAIN dirs : dirs[d] = config.dirMode

(* The inductive invariant. *)
IInv == TypeOK /\ WriterInv /\ IdleInv /\ LinesInv /\ FilesInv /\ WrittenInv
-----------------------------------------------------------------------------
(* Either writer takes the file, the format and the mode of a file; the      *)
(* concurrent one also takes the directory and its mode (LogWriter.Init).    *)
LEMMA TakenFields ==
  ASSUME NEW type, NEW c \in Config
  PROVE  /\ Taken(type, c).file = c.file
         /\ Taken(type, c).formatter = c.formatter
         /\ Taken(type, c).fileMode = c.fileMode
         /\ type = "concurrent" => Taken(type, c).dir = c.dir /\ Taken(type, c).dirMode = c.dirMode
<1>1. CASE type = "concurrent"
  BY <1>1 DEF Taken
<1>2. CASE type # "concurrent"
  BY <1>2 DEF Taken, Config
<1> QED BY <1>1, <1>2, Zenon

(* The settings of a new WAF are settings (Config.Get). *)
LEMMA DefaultsTyped == Defaults \in Config
BY DEF Defaults, Config, Files, Formatters, Empty

(* A line names its transaction (LogWriter.Write). *)
LEMMA LinesTyped ==
  ASSUME NEW s \in Seq(Line)
  PROVE  \A i \in DOMAIN s : s[i].tx \in Transactions
<1>1. \A i \in DOMAIN s : s[i] \in Line
  BY LenProperties, ElementOfSeq
<1>2. \A l \in Line : l.tx \in Transactions
  BY DEF Line
<1> QED BY <1>1, <1>2

(* A new WAF satisfies the invariant (corazawaf.NewWAF). *)
LEMMA InitInv ==
  ASSUME Init
  PROVE  IInv
<1>1. config \in Config
  BY DefaultsTyped DEF Init
<1>2. TypeOK
  BY <1>1, EmptySeq DEF TypeOK, Init
<1>3. writer.type = "serial" /\ writer.set = Taken("serial", config) /\ DOMAIN logs = {}
  BY DEF Init
<1>4. WriterInv
  BY <1>1, <1>3, TakenFields DEF WriterInv
<1>5. log = <<>> /\ files = <<>> /\ dirs = <<>> /\ pc = [t \in Transactions |-> "start"]
  BY DEF Init
<1>6. DOMAIN log = {} /\ DOMAIN files = {} /\ DOMAIN dirs = {}
  BY <1>5
<1>7. IdleInv /\ LinesInv /\ FilesInv
  BY <1>5, <1>6 DEF IdleInv, LinesInv, FilesInv, Storing
<1>8. WrittenInv
  BY <1>6 DEF WrittenInv
<1> QED BY <1>2, <1>4, <1>7, <1>8 DEF IInv

(* A directive initialises the writer with all that is configured, and       *)
(* nothing was written yet (directives.go).                                  *)
LEMMA InitWriterInv ==
  ASSUME IInv, NEW type, NEW c \in Config, InitWriter(type, c)
  PROVE  IInv'
<1>1. directives \in Nat /\ MaxDirectives \in Nat /\ directives < MaxDirectives
  BY AuditWriterAssumption DEF IInv, TypeOK, InitWriter
<1>2. ~Serving /\ ~Serving' /\ directives' \in Nat
  BY <1>1 DEF Serving, InitWriter
<1>3. /\ log = <<>> /\ files = <<>> /\ dirs = <<>> /\ pc = [t \in Transactions |-> "start"]
      /\ log' = <<>> /\ files' = <<>> /\ dirs' = <<>> /\ pc' = [t \in Transactions |-> "start"]
  BY <1>2 DEF IInv, IdleInv, InitWriter, writeVars
<1>4. TypeOK'
  BY <1>2, <1>3, EmptySeq DEF TypeOK, InitWriter
<1>5. writer'.type = type /\ writer'.set = Taken(type, c) /\ config' = c
  BY DEF InitWriter
<1>6. WriterInv'
  <2>1. ASSUME NEW f \in DOMAIN logs' \ older'
        PROVE  logs'[f] = c.fileMode
    <3>1. \/ f \notin DOMAIN logs /\ f = c.file /\ logs' = Stored(logs, c.file, c.fileMode)
          \/ f \in DOMAIN logs /\ logs'[f] = logs[f]
      BY <2>1 DEF InitWriter, Created, Stored
    <3>2. CASE f \notin DOMAIN logs
      BY <3>1, <3>2 DEF Stored
    <3>3. CASE f \in DOMAIN logs
      <4>1. f \notin older /\ c.fileMode = config.fileMode
        BY <2>1, <3>3, Zenon DEF InitWriter
      <4> QED BY <3>1, <3>3, <4>1 DEF IInv, WriterInv
    <3> QED BY <3>2, <3>3
  <2> QED BY <1>5, <2>1, TakenFields DEF WriterInv
<1>7. DOMAIN log' = {} /\ DOMAIN files' = {} /\ DOMAIN dirs' = {}
  BY <1>3
<1>8. IdleInv' /\ LinesInv' /\ FilesInv'
  BY <1>3, <1>7 DEF IdleInv, LinesInv, FilesInv, Storing
<1>9. WrittenInv'
  BY <1>7 DEF WrittenInv
<1> QED BY <1>4, <1>6, <1>8, <1>9 DEF IInv

(* Every directive stores a setting (directives.go). *)
LEMMA DirectiveInv ==
  ASSUME IInv,
         \/ SecAuditLog \/ SecAuditLogDir \/ SecAuditLogFormat \/ SecAuditLogDirMode
         \/ SecAuditLogFileMode \/ SecAuditLogType
  PROVE  IInv'
<1>0. config \in Config
  BY DEF IInv, TypeOK
<1>1. CASE SecAuditLog
  <2>1. PICK f \in Paths : InitWriter(writer.type, [config EXCEPT !.file = f])
    BY <1>1 DEF SecAuditLog
  <2>2. [config EXCEPT !.file = f] \in Config
    BY <1>0 DEF Config, Files
  <2> QED BY <2>1, <2>2, InitWriterInv
<1>2. CASE SecAuditLogDir
  <2>1. PICK d \in Dirs : InitWriter(writer.type, [config EXCEPT !.dir = d])
    BY <1>2 DEF SecAuditLogDir
  <2>2. [config EXCEPT !.dir = d] \in Config
    BY <1>0 DEF Config
  <2> QED BY <2>1, <2>2, InitWriterInv
<1>3. CASE SecAuditLogFormat
  <2>1. PICK f \in Formats : InitWriter(writer.type, [config EXCEPT !.formatter = f])
    BY <1>3 DEF SecAuditLogFormat
  <2>2. [config EXCEPT !.formatter = f] \in Config
    BY <1>0 DEF Config, Formatters
  <2> QED BY <2>1, <2>2, InitWriterInv
<1>4. CASE SecAuditLogDirMode
  <2>1. PICK m \in Modes : InitWriter(writer.type, [config EXCEPT !.dirMode = m])
    BY <1>4 DEF SecAuditLogDirMode
  <2>2. [config EXCEPT !.dirMode = m] \in Config
    BY <1>0 DEF Config
  <2> QED BY <2>1, <2>2, InitWriterInv
<1>5. CASE SecAuditLogFileMode
  <2>1. PICK m \in Modes : InitWriter(writer.type, [config EXCEPT !.fileMode = m])
    BY <1>5 DEF SecAuditLogFileMode
  <2>2. [config EXCEPT !.fileMode = m] \in Config
    BY <1>0 DEF Config
  <2> QED BY <2>1, <2>2, InitWriterInv
<1>6. CASE SecAuditLogType
  BY <1>0, <1>6, InitWriterInv DEF SecAuditLogType
<1> QED BY <1>1, <1>2, <1>3, <1>4, <1>5, <1>6

(* The first transaction finds the configuration as the last directive left  *)
(* it.                                                                       *)
LEMMA ServeInv ==
  ASSUME IInv, Serve
  PROVE  IInv'
<1>1. directives' \in Nat /\ directives' > MaxDirectives
  BY AuditWriterAssumption DEF Serve
<1>2. /\ UNCHANGED <<ID, config, writer, logs, older, pc, dirs, files, log, unprinted>>
      /\ Serving'
  BY <1>1 DEF Serve, writeVars, Serving
<1>3. TypeOK' /\ WriterInv' /\ IdleInv'
  BY <1>1, <1>2 DEF IInv, TypeOK, WriterInv, IdleInv
<1>4. LinesInv' /\ WrittenInv'
  BY <1>2 DEF IInv, LinesInv, WrittenInv
<1>5. FilesInv'
  BY <1>2, Zenon DEF IInv, FilesInv, OwnID, FilePath
<1> QED BY <1>3, <1>4, <1>5 DEF IInv
-----------------------------------------------------------------------------
(* A call that prints no line changes neither the log nor who is done        *)
(* (LogWriter.Write).                                                        *)
LEMMA UnprintedStep ==
  ASSUME IInv, NEW t \in Transactions, NEW step \in {"error"} \union Storing,
         Serving, UNCHANGED configVars, pc[t] # "done", Goto(t, step),
         step \in Storing => writer.type = "concurrent",
         UNCHANGED <<log, unprinted>>
  PROVE  TypeOK' /\ WriterInv' /\ IdleInv' /\ LinesInv'
<1>1. /\ UNCHANGED <<ID, config, writer, directives, logs, older, log, unprinted>> /\ Serving'
      /\ pc \in [Transactions -> {"start", "done", "error"} \union Storing]
      /\ pc' = [pc EXCEPT ![t] = step] /\ step # "done"
  BY DEF configVars, Serving, IInv, TypeOK, Goto, Storing
<1>2. TypeOK'
  <2>1. pc' \in [Transactions -> {"start", "done", "error"} \union Storing]
    BY <1>1
  <2> QED BY <1>1, <2>1 DEF IInv, TypeOK
<1>3. WriterInv'
  BY <1>1 DEF IInv, WriterInv
<1>4. IdleInv'
  BY <1>1 DEF IInv, IdleInv
<1>5. \A i \in DOMAIN log : log[i].tx \in Transactions
  BY LinesTyped DEF IInv, TypeOK
<1>6. LinesInv'
  BY <1>1, <1>5 DEF IInv, LinesInv
<1> QED BY <1>2, <1>3, <1>4, <1>6

(* A call that stores no record leaves the files of the others               *)
(* (concurrentWriter.Write).                                                 *)
LEMMA UnstoredStep ==
  ASSUME IInv, NEW t \in Transactions, NEW step \in {"error", "format", "open", "content"},
         UNCHANGED configVars, Goto(t, step), UNCHANGED files
  PROVE  FilesInv'
<1>1. /\ UNCHANGED <<ID, writer, files>>
      /\ pc \in [Transactions -> {"start", "done", "error"} \union Storing]
      /\ pc' = [pc EXCEPT ![t] = step] /\ step \notin {"lock", "done"}
  BY DEF configVars, IInv, TypeOK, Goto
<1> QED BY <1>1 DEF IInv, FilesInv, OwnID, FilePath

(* A record is stored with the settings of the writer, in a file no other    *)
(* ID has (concurrentWriter.Write).                                          *)
LEMMA StoredStep ==
  ASSUME IInv, NEW t \in Transactions, NEW step, NEW content,
         UNCHANGED configVars, Goto(t, step), writer.type = "concurrent",
         step = "lock" => content = t, step # "done",
         files' = Stored(files, FilePath(t), Record(t, content)), UNCHANGED <<dirs, log>>
  PROVE  FilesInv' /\ WrittenInv'
<1>1. /\ UNCHANGED <<ID, config, writer, directives>>
      /\ pc \in [Transactions -> {"start", "done", "error"} \union Storing]
      /\ pc' = [pc EXCEPT ![t] = step]
  BY DEF configVars, IInv, TypeOK, Goto
<1>2. DOMAIN files' = DOMAIN files \union {FilePath(t)}
  BY DEF Stored
<1>3. files'[FilePath(t)] = Record(t, content)
  BY DEF Stored
<1>4. \A f \in DOMAIN files : f # FilePath(t) => files'[f] = files[f]
  BY DEF Stored
<1>5. FilesInv'
  <2> SUFFICES ASSUME NEW u \in Transactions, pc'[u] \in {"lock", "done"}, OwnID(u)'
               PROVE  FilePath(u)' \in DOMAIN files' /\ files'[FilePath(u)'].tx = u
    BY DEF FilesInv
  <2>1. FilePath(u)' = FilePath(u) /\ OwnID(u)
    BY <1>1 DEF FilePath, OwnID
  <2>2. CASE u = t
    <3>1. step = "lock"
      BY <1>1, <2>2
    <3>2. files'[FilePath(t)].tx = t /\ FilePath(t) \in DOMAIN files'
      BY <1>2, <1>3, <3>1 DEF Record
    <3> QED BY <2>1, <2>2, <3>2, Zenon
  <2>3. CASE u # t
    <3>1. pc[u] \in {"lock", "done"}
      BY <1>1, <2>3
    <3>2. FilePath(u) \in DOMAIN files /\ files[FilePath(u)].tx = u
      BY <2>1, <3>1 DEF IInv, FilesInv
    <3>3. FilePath(u) # FilePath(t)
      BY <2>1, <2>3 DEF OwnID, FilePath
    <3> QED BY <1>2, <1>4, <2>1, <3>2, <3>3, Zenon
  <2> QED BY <2>2, <2>3, Zenon
<1>6. WrittenInv'
  <2>1. ASSUME NEW f \in DOMAIN files'
        PROVE  f[1] = config.dir /\ files'[f].formatter = config.formatter
               /\ files'[f].mode = config.fileMode
    <3>1. CASE f = FilePath(t)
      <4>1. /\ writer.set.dir = config.dir /\ writer.set.formatter = config.formatter
            /\ writer.set.fileMode = config.fileMode
        BY Zenon DEF IInv, WriterInv
      <4>2. FilePath(t)[1] = writer.set.dir
        BY DEF FilePath
      <4>3. /\ files'[FilePath(t)].formatter = writer.set.formatter
            /\ files'[FilePath(t)].mode = writer.set.fileMode
        BY <1>3 DEF Record
      <4> QED BY <3>1, <4>1, <4>2, <4>3, Zenon
    <3>2. CASE f # FilePath(t)
      BY <1>2, <1>4, <3>2, Zenon DEF IInv, WrittenInv
    <3> QED BY <3>1, <3>2, Zenon
  <2> QED BY <1>1, <2>1 DEF IInv, WrittenInv
<1> QED BY <1>5, <1>6

(* The elements and indexes of a sequence to which one is appended. *)
LEMMA Appended ==
  ASSUME NEW S, NEW s \in Seq(S), NEW e \in S
  PROVE  /\ Append(s, e) \in Seq(S) /\ Len(s) \in Nat
         /\ DOMAIN s = 1..Len(s) /\ DOMAIN Append(s, e) = 1..(Len(s) + 1)
         /\ Append(s, e)[Len(s) + 1] = e
         /\ \A i \in 1..Len(s) : Append(s, e)[i] = s[i]
<1>1. Len(s) \in Nat /\ DOMAIN s = 1..Len(s)
  BY LenProperties
<1>2. Append(s, e) \in Seq(S) /\ Len(Append(s, e)) = Len(s) + 1
  BY AppendProperties
<1>3. DOMAIN Append(s, e) = 1..(Len(s) + 1)
  BY <1>2, LenProperties
<1>4. Append(s, e)[Len(s) + 1] = e /\ \A i \in 1..Len(s) : Append(s, e)[i] = s[i]
  BY AppendProperties
<1> QED BY <1>1, <1>2, <1>3, <1>4

(* A line is printed once, after its record was stored (serialWriter.Write,  *)
(* concurrentWriter.Write).                                                  *)
LEMMA PrintedStep ==
  ASSUME IInv, NEW t \in Transactions, Serving, UNCHANGED configVars,
         pc[t] # "done", writer.type = "concurrent" => pc[t] = "lock",
         Goto(t, "done"), Println(t), UNCHANGED <<dirs, files>>
  PROVE  IInv'
<1>1. /\ UNCHANGED <<ID, config, writer, directives, logs, older, files, dirs>> /\ Serving'
      /\ pc \in [Transactions -> {"start", "done", "error"} \union Storing]
      /\ pc' = [pc EXCEPT ![t] = "done"]
  BY DEF configVars, Serving, IInv, TypeOK, Goto
<1>2. WriterInv'
  BY <1>1 DEF IInv, WriterInv
<1>3. pc' \in [Transactions -> {"start", "done", "error"} \union Storing]
  BY <1>1
<1>4. FilesInv'
  BY <1>1, Zenon DEF IInv, FilesInv, OwnID, FilePath
<1>5. \A u \in Transactions : pc'[u] \in Storing => writer'.type = "concurrent"
  BY <1>1 DEF IInv, IdleInv, Storing
<1>6. ASSUME UNCHANGED log, writer.set.file = Empty \/ t \in unprinted', unprinted \subseteq unprinted'
      PROVE  IInv'
  <2>1. TypeOK'
    BY <1>1, <1>3, <1>6 DEF IInv, TypeOK
  <2>2. IdleInv' /\ WrittenInv'
    BY <1>1, <1>5, <1>6, Zenon DEF IInv, IdleInv, WrittenInv
  <2>3. \A i \in DOMAIN log : log[i].tx \in Transactions
    BY LinesTyped DEF IInv, TypeOK
  <2>4. \A i \in DOMAIN log : pc'[log[i].tx] = "done"
    BY <1>1, <2>3 DEF IInv, LinesInv
  <2>5. \A u \in Transactions : u # t => pc'[u] = pc[u]
    BY <1>1
  <2>6. LinesInv'
    BY <1>1, <1>6, <2>4, <2>5, Zenon DEF IInv, LinesInv
  <2> QED BY <1>2, <1>4, <2>1, <2>2, <2>6 DEF IInv
<1>7. ASSUME writer.set.file # Empty, NEW whole \in BOOLEAN, whole \/ t \in unprinted', unprinted \subseteq unprinted',
             log' = Append(log, [file |-> writer.set.file, tx |-> t, formatter |-> writer.set.formatter,
                                 whole |-> whole])
      PROVE  IInv'
  <2> DEFINE line == [file |-> writer.set.file, tx |-> t, formatter |-> writer.set.formatter, whole |-> whole]
             n == Len(log)
  <2>1. /\ line \in Line
        /\ line.tx = t /\ line.file = config.file /\ line.formatter = config.formatter
        /\ line.whole \/ line.tx \in unprinted'
    BY <1>7, Zenon DEF IInv, TypeOK, WriterInv, Config, Line
  <2>2. log \in Seq(Line) /\ log' = Append(log, line)
    BY <1>7 DEF IInv, TypeOK
  <2> HIDE DEF line
  <2>3. /\ log' \in Seq(Line) /\ n \in Nat /\ DOMAIN log = 1..n /\ DOMAIN log' = 1..(n + 1)
        /\ log'[n + 1] = line /\ \A i \in 1..n : log'[i] = log[i]
    <3>1. /\ Append(log, line) \in Seq(Line) /\ Len(log) \in Nat
          /\ DOMAIN log = 1..Len(log) /\ DOMAIN Append(log, line) = 1..(Len(log) + 1)
          /\ Append(log, line)[Len(log) + 1] = line
          /\ \A i \in 1..Len(log) : Append(log, line)[i] = log[i]
      <4>1. log \in Seq(Line) /\ line \in Line
        BY <2>1, <2>2, Zenon
      <4> QED BY ONLY <4>1, Appended
    <3> QED BY <2>2, <3>1, Zenon
  <2> HIDE DEF n
  <2>4. \A i \in 1..n : log[i].tx \in Transactions
    BY <2>2, <2>3, LinesTyped
  <2>5. TypeOK'
    BY <1>1, <1>3, <2>3 DEF IInv, TypeOK
  <2>6. IdleInv'
    BY <1>1, <1>5, <1>7 DEF IdleInv
  <2>7. \A i \in 1..n : pc[log[i].tx] = "done" /\ log[i].tx # t
    BY <2>3 DEF IInv, LinesInv
  <2>8. /\ \A i \in 1..(n + 1) : i = n + 1 \/ i \in 1..n
        /\ \A i \in 1..n : i \in 1..(n + 1)
    <3>1. n \in Nat
      BY <2>3, Zenon
    <3> QED BY ONLY <3>1
  <2>9. LinesInv'
    <3>1. ASSUME NEW i \in DOMAIN log' PROVE pc'[log'[i].tx] = "done"
      BY <1>1, <2>1, <2>3, <2>4, <2>7, <2>8
    <3>2. ASSUME NEW i \in DOMAIN log', NEW j \in DOMAIN log', log'[i].tx = log'[j].tx
          PROVE  i = j
      <4>1. CASE i \in 1..n /\ j \in 1..n
        BY <2>3, <3>2, <4>1 DEF IInv, LinesInv
      <4>2. CASE i = n + 1 /\ j = n + 1
        BY <4>2
      <4>3. CASE i \in 1..n /\ j = n + 1
        BY <2>1, <2>3, <2>7, <3>2, <4>3
      <4>4. CASE i = n + 1 /\ j \in 1..n
        BY <2>1, <2>3, <2>7, <3>2, <4>4
      <4> QED BY <2>3, <2>8, <4>1, <4>2, <4>3, <4>4
    <3>3. ASSUME NEW u \in Transactions, pc'[u] = "done", u \notin unprinted'
          PROVE  \E i \in DOMAIN log' : log'[i].tx = u
      <4>1. CASE u = t
        <5>1. n + 1 \in DOMAIN log' /\ log'[n + 1].tx = u
          BY <2>1, <2>3, <4>1
        <5> QED BY <5>1
      <4>2. CASE u # t
        <5>1. PICK i \in DOMAIN log : log[i].tx = u
          BY <1>1, <1>7, <3>3, <4>2 DEF IInv, LinesInv
        <5>2. i \in DOMAIN log' /\ log'[i].tx = u
          <6>1. i \in 1..n
            BY <2>3, <5>1, Zenon
          <6> QED BY <2>3, <2>8, <5>1, <6>1, Zenon
        <5> QED BY <5>2
      <4> QED BY <4>1, <4>2
    <3>4. ASSUME NEW i \in DOMAIN log' PROVE log'[i].whole \/ log'[i].tx \in unprinted'
      <4>1. CASE i \in 1..n
        BY <1>7, <2>3, <4>1, Zenon DEF IInv, LinesInv
      <4>2. CASE i = n + 1
        BY <2>1, <2>3, <4>2, Zenon
      <4> QED BY <2>3, <2>8, <4>1, <4>2
    <3> QED BY <3>1, <3>2, <3>3, <3>4 DEF LinesInv
  <2>10. WrittenInv'
    <3>1. ASSUME NEW i \in DOMAIN log'
          PROVE  log'[i].file = config.file /\ log'[i].formatter = config.formatter
      BY <2>1, <2>3, <2>8, Zenon DEF IInv, WrittenInv
    <3> QED BY <1>1, <3>1, Zenon DEF IInv, WrittenInv
  <2> QED BY <1>2, <1>4, <2>5, <2>6, <2>9, <2>10 DEF IInv
<1>8. CASE writer.set.file = Empty
  BY <1>6, <1>8, Zenon DEF Println
<1>9. CASE writer.set.file # Empty
  <2> DEFINE line(whole) == [file |-> writer.set.file, tx |-> t, formatter |-> writer.set.formatter, whole |-> whole]
  <2>1. \/ log' = Append(log, line(TRUE)) /\ UNCHANGED unprinted
        \/ log' = Append(log, line(FALSE)) /\ unprinted' = unprinted \union {t}
        \/ UNCHANGED log /\ unprinted' = unprinted \union {t}
    BY <1>9, Zenon DEF Println
  <2>2. CASE log' = Append(log, line(TRUE)) /\ UNCHANGED unprinted
    BY <1>7, <1>9, <2>2, Zenon
  <2>3. CASE log' = Append(log, line(FALSE)) /\ unprinted' = unprinted \union {t}
    BY <1>7, <1>9, <2>3, Zenon
  <2>4. CASE UNCHANGED log /\ unprinted' = unprinted \union {t}
    BY <1>6, <2>4, Zenon
  <2> QED BY <2>1, <2>2, <2>3, <2>4, Zenon
<1> QED BY <1>8, <1>9, Zenon
-----------------------------------------------------------------------------
(* serialWriter.Write keeps the invariant. *)
LEMMA WriteSerialInv ==
  ASSUME IInv, NEW t \in Transactions, WriteSerial(t)
  PROVE  IInv'
<1>1. /\ Serving /\ UNCHANGED configVars /\ pc[t] # "done" /\ writer.type # "concurrent"
      /\ UNCHANGED <<dirs, files>>
  BY DEF WriteSerial, At
<1>2. CASE Goto(t, "done") /\ Println(t)
  BY <1>1, <1>2, PrintedStep
<1>3. CASE Goto(t, "error") /\ UNCHANGED <<log, unprinted>>
  <2>1. TypeOK' /\ WriterInv' /\ IdleInv' /\ LinesInv'
    BY <1>1, <1>3, UnprintedStep DEF Storing
  <2>2. FilesInv'
    BY <1>1, <1>3, UnstoredStep
  <2>3. WrittenInv'
    BY <1>1, <1>3, Zenon DEF IInv, WrittenInv, configVars
  <2> QED BY <2>1, <2>2, <2>3 DEF IInv
<1> QED BY <1>2, <1>3 DEF WriteSerial

(* concurrentWriter.Write creates the directory with the mode configured. *)
LEMMA MkdirAllInv ==
  ASSUME IInv, NEW t \in Transactions, MkdirAll(t)
  PROVE  IInv'
<1>1. /\ Serving /\ UNCHANGED configVars /\ pc[t] # "done" /\ writer.type = "concurrent"
      /\ UNCHANGED <<files, log, unprinted>>
  BY DEF MkdirAll, At
<1>2. PICK step \in {"error", "format"} : Goto(t, step)
  BY DEF MkdirAll
<1>3. TypeOK' /\ WriterInv' /\ IdleInv' /\ LinesInv'
  BY <1>1, <1>2, UnprintedStep DEF Storing
<1>4. FilesInv'
  BY <1>1, <1>2, UnstoredStep
<1>5. ASSUME NEW d \in DOMAIN dirs' PROVE dirs'[d] = config.dirMode
  BY <1>1 DEF MkdirAll, Created, Stored, IInv, WrittenInv, WriterInv
<1>6. WrittenInv'
  BY <1>1, <1>5 DEF IInv, WrittenInv, configVars
<1> QED BY <1>3, <1>4, <1>6 DEF IInv

(* The other calls of concurrentWriter.Write keep the invariant. *)
LEMMA WriteConcurrentInv ==
  ASSUME IInv, NEW t \in Transactions, WriteConcurrent(t)
  PROVE  IInv'
<1>1. CASE MkdirAll(t)
  BY <1>1, MkdirAllInv
<1>2. CASE FormatRecord(t)
  <2>1. /\ Serving /\ UNCHANGED configVars /\ pc[t] = "format" /\ UNCHANGED <<dirs, files, log, unprinted>>
    BY <1>2 DEF FormatRecord, At
  <2>2. writer.type = "concurrent"
    BY <2>1 DEF IInv, IdleInv, Storing
  <2>3. PICK step \in {"error", "open"} : Goto(t, step)
    BY <1>2 DEF FormatRecord
  <2>4. TypeOK' /\ WriterInv' /\ IdleInv' /\ LinesInv'
    BY <2>1, <2>2, <2>3, UnprintedStep DEF Storing
  <2>5. FilesInv'
    BY <2>1, <2>3, UnstoredStep
  <2>6. WrittenInv'
    BY <2>1 DEF IInv, WrittenInv, configVars
  <2> QED BY <2>4, <2>5, <2>6 DEF IInv
<1>3. CASE OpenRecord(t)
  <2>1. /\ Serving /\ UNCHANGED configVars /\ pc[t] = "open" /\ UNCHANGED <<dirs, log, unprinted>>
    BY <1>3 DEF OpenRecord, At
  <2>2. writer.type = "concurrent"
    BY <2>1 DEF IInv, IdleInv, Storing
  <2>3. CASE Goto(t, "content") /\ files' = Stored(files, FilePath(t), Record(t, "cut"))
    <3>1. TypeOK' /\ WriterInv' /\ IdleInv' /\ LinesInv'
      BY <2>1, <2>2, <2>3, UnprintedStep DEF Storing
    <3>2. FilesInv' /\ WrittenInv'
      BY <2>1, <2>2, <2>3, StoredStep
    <3> QED BY <3>1, <3>2 DEF IInv
  <2>4. CASE Goto(t, "error") /\ UNCHANGED files
    <3>1. TypeOK' /\ WriterInv' /\ IdleInv' /\ LinesInv'
      BY <2>1, <2>2, <2>4, UnprintedStep DEF Storing
    <3>2. FilesInv'
      BY <2>1, <2>4, UnstoredStep
    <3>3. WrittenInv'
      BY <2>1, <2>4 DEF IInv, WrittenInv, configVars
    <3> QED BY <3>1, <3>2, <3>3 DEF IInv
  <2> QED BY <1>3, <2>3, <2>4 DEF OpenRecord
<1>4. CASE WriteRecord(t)
  <2>1. /\ Serving /\ UNCHANGED configVars /\ pc[t] = "content" /\ UNCHANGED <<dirs, log, unprinted>>
    BY <1>4 DEF WriteRecord, At
  <2>2. writer.type = "concurrent"
    BY <2>1 DEF IInv, IdleInv, Storing
  <2>3. CASE Goto(t, "lock") /\ files' = Stored(files, FilePath(t), Record(t, t))
    <3>1. TypeOK' /\ WriterInv' /\ IdleInv' /\ LinesInv'
      BY <2>1, <2>2, <2>3, UnprintedStep DEF Storing
    <3>2. FilesInv' /\ WrittenInv'
      BY <2>1, <2>2, <2>3, StoredStep
    <3> QED BY <3>1, <3>2 DEF IInv
  <2>4. CASE Goto(t, "error") /\ UNCHANGED files
    <3>1. TypeOK' /\ WriterInv' /\ IdleInv' /\ LinesInv'
      BY <2>1, <2>2, <2>4, UnprintedStep DEF Storing
    <3>2. FilesInv'
      BY <2>1, <2>4, UnstoredStep
    <3>3. WrittenInv'
      BY <2>1, <2>4 DEF IInv, WrittenInv, configVars
    <3> QED BY <3>1, <3>2, <3>3 DEF IInv
  <2> QED BY <1>4, <2>3, <2>4 DEF WriteRecord
<1>5. CASE PrintLine(t)
  <2>1. /\ Serving /\ UNCHANGED configVars /\ pc[t] = "lock" /\ UNCHANGED <<dirs, files>>
        /\ Goto(t, "done") /\ Println(t)
    BY <1>5 DEF PrintLine, At
  <2> QED BY <2>1, PrintedStep
<1> QED BY <1>1, <1>2, <1>3, <1>4, <1>5 DEF WriteConcurrent

(* Every directive and every call of a Write keeps the invariant. *)
LEMMA StepInv ==
  ASSUME IInv, [Next]_vars
  PROVE  IInv'
<1>1. CASE Serve
  BY <1>1, ServeInv
<1>2. CASE \/ SecAuditLog \/ SecAuditLogDir \/ SecAuditLogFormat \/ SecAuditLogDirMode
           \/ SecAuditLogFileMode \/ SecAuditLogType
  BY <1>2, DirectiveInv
<1>3. ASSUME NEW t \in Transactions, WriteSerial(t) \/ WriteConcurrent(t)
      PROVE  IInv'
  BY <1>3, WriteSerialInv, WriteConcurrentInv
<1>4. CASE UNCHANGED vars
  <2>1. UNCHANGED <<ID, config, writer, directives, logs, older, pc, dirs, files, log, unprinted>>
    BY <1>4 DEF vars, configVars, writeVars
  <2> QED BY <2>1, Zenon DEF IInv, TypeOK, WriterInv, IdleInv, Serving, LinesInv, FilesInv, OwnID,
                      FilePath, WrittenInv
<1> QED BY <1>1, <1>2, <1>3, <1>4 DEF Next

(* The invariant holds in every reachable state, whatever the directives     *)
(* read and the calls that fail (LogWriter.Init, LogWriter.Write).           *)
THEOREM Invariant == Spec => []IInv
<1>1. Init => IInv
  BY InitInv
<1>2. IInv /\ [Next]_vars => IInv'
  BY StepInv
<1> QED BY <1>1, <1>2, PTL DEF Spec

(* However many transactions write at the same time and whichever calls      *)
(* fail, the log has exactly one whole line for each transaction whose Write *)
(* returned no error and whose line the file took, none for one whose Write  *)
(* has not returned or has failed, and a line of a concurrent log is about a *)
(* file that holds the whole record, if the transaction's ID is its own      *)
(* (serialWriter.Write, concurrentWriter.Write).                             *)
THEOREM RecordsIndexed == Spec => []IndexedRecordWhole
<1>1. IInv => IndexedRecordWhole
  <2> SUFFICES ASSUME IInv PROVE IndexedRecordWhole
    OBVIOUS
  <2>1. ASSUME writer.set.file # Empty, NEW t \in Transactions
        PROVE  \/ pc[t] = "done" /\ \E i \in DOMAIN log : LinesOf(t) = {i} /\ (log[i].whole \/ t \in unprinted)
               \/ (pc[t] # "done" \/ t \in unprinted) /\ LinesOf(t) = {}
    <3>1. CASE \E k \in DOMAIN log : log[k].tx = t
      <4>1. PICK k \in DOMAIN log : log[k].tx = t
        BY <3>1
      <4>2. LinesOf(t) = {k}
        BY <4>1 DEF IInv, LinesInv, LinesOf
      <4>3. pc[t] = "done" /\ (log[k].whole \/ t \in unprinted)
        BY <4>1, Zenon DEF IInv, LinesInv
      <4> QED BY <4>1, <4>2, <4>3, Zenon
    <3>2. CASE ~\E k \in DOMAIN log : log[k].tx = t
      <4>1. LinesOf(t) = {}
        BY <3>2 DEF LinesOf
      <4>2. pc[t] # "done" \/ t \in unprinted
        BY <2>1, <3>2 DEF IInv, LinesInv
      <4> QED BY <4>1, <4>2
    <3> QED BY <3>1, <3>2
  <2>2. ASSUME writer.type = "concurrent", NEW i \in DOMAIN log, OwnID(log[i].tx)
        PROVE  FilePath(log[i].tx) \in DOMAIN files /\ files[FilePath(log[i].tx)].tx = log[i].tx
    <3>1. log[i].tx \in Transactions /\ pc[log[i].tx] = "done"
      BY LinesTyped DEF IInv, TypeOK, LinesInv
    <3> QED BY <2>2, <3>1 DEF IInv, FilesInv
  <2> QED BY <2>1, <2>2, Zenon DEF IndexedRecordWhole
<1> QED BY <1>1, Invariant, PTL

(* Whatever the order of the directives, every record is written to the log  *)
(* file, in the directory, in the format and with the modes given last; only *)
(* a log file opened before SecAuditLogFileMode has another mode, and only a *)
(* line the file refused is missing (LogWriter.Init, LogWriter.Write).       *)
THEOREM ConfigurationFollowed == Spec => []RecordsAsConfigured
<1>1. IInv => RecordsAsConfigured
  BY Zenon DEF IInv, WriterInv, LinesInv, WrittenInv, RecordsAsConfigured
<1> QED BY <1>1, Invariant, PTL
=============================================================================
