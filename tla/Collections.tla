----------------------------- MODULE Collections -----------------------------
(***************************************************************************)
(* The collections that hold the variables of a transaction (collection/): *)
(* a Map from a key to a list of named values, and the proxies that show   *)
(* several Maps as one (ARGS) or by their keys (ARGS_NAMES).               *)
(*                                                                         *)
(* A string that serves as a key is [low, upper]: what strings.ToLower     *)
(* makes of it, and whether that changes it.  A value is its length.       *)
(***************************************************************************)
EXTENDS Naturals, Sequences, SequencesExt, FiniteSets, TLC

ToLower(k) == [k EXCEPT !.upper = FALSE]

NewMap == [k \in {} |-> <<>>]

Get(m, k) == IF k \in DOMAIN m THEN m[k] ELSE <<>>

AddCS(m, key, vKey, vVal) == (key :> Append(Get(m, key), [name |-> vKey, value |-> vVal])) @@ m

AddUniqueCS(m, key, vKey, vVal) ==
    IF \E i \in DOMAIN Get(m, key) : m[key][i].value = vVal THEN m
    ELSE AddCS(m, key, vKey, vVal)

SetCS(m, key, vKey, values) ==
    (key :> [i \in DOMAIN values |-> [name |-> vKey, value |-> values[i]]]) @@ m

(* SetIndex(key, 0, value), the only index the repository uses. *)
SetFirst(m, key, value) ==
    (key :> <<[name |-> key, value |-> value]>> \o SubSeq(Get(m, key), 2, Len(Get(m, key)))) @@ m

(* Map.Data: the values without their names. *)
Data(m) == [k \in DOMAIN m |-> [i \in DOMAIN m[k] |-> m[k][i].value]]

(* Map.Remove *)
Delete(m, keys) == [k \in DOMAIN m \ keys |-> m[k]]

(* FindAll and FindString: [name, value] in the order of a Go map, so as a  *)
(* set of places.  The empty key asks for all.                              *)
FindAll(m) == UNION {{[key |-> k, at |-> i, name |-> m[k][i].name, value |-> m[k][i].value] :
                      i \in DOMAIN m[k]} : k \in DOMAIN m}
FindString(m, key) == {e \in FindAll(m) : key.low = "" \/ e.key = key}

(* Proxy: the Maps are told apart by their place in the proxy. *)
ProxyFindAll(maps) == UNION {{[map |-> i, field |-> e] : e \in FindAll(maps[i])} : i \in DOMAIN maps}
ProxyFindString(maps, key) == UNION {{[map |-> i, field |-> e] : e \in FindString(maps[i], key)} : i \in DOMAIN maps}

(* TranslationProxy: the keys of the Maps. *)
TranslationFindAll(maps) == UNION {DOMAIN maps[i] : i \in DOMAIN maps}
=============================================================================
