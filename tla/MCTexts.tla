-------------------------- MODULE MCTexts ------------------------------------
(* The texts that are read. *)
EXTENDS Transformations, Paths, RuleText, Macros

Raw(bytes) == {[form |-> "raw", byte |-> b] : b \in bytes}
In(forms, bytes) == {[form |-> f, byte |-> b] : f \in forms, b \in bytes}

(* Bytes at the ends of the ranges the decoders compare with. *)
Edges == {33, 126}
Url == Raw({B.u, B.f, 52, B.z}) \cup In({"percent"}, {0, 32, 37, 43, 255}) \cup In({"plus"}, {B.sp})
       \cup In({"%u", "%uff"}, Edges)
Escaped == Raw({B.f, 56, B.x}) \cup In({"letter"}, {7, 10}) \cup In({"self"}, {B.back, B.quote})
           \cup In({"x", "octal"}, {0, 65, 254, 255}) \cup In({"u", "uff"}, Edges)
Css == Raw({B.f, 48, B.z}) \cup In({"self"}, {B.back}) \cup In({"css", "css6"}, {0, 255, 127})
       \cup In({"css4", "css5", "css6ff"}, Edges)
Commented == Raw({B.a, B.bang, B.sp}) \cup In({"comment", "html"}, {B.a, B.star, B.dash})

(* Malformed texts. *)
Percents == Raw({B.percent, B.u, B.f, B.z})
Comments == Raw({B.slash, B.star, B.sp, B.lf})
Commands == Raw({B.back, B.sp, B.tab, B.comma, B.slash, B.paren, B.A})

(* Characters at the ends of one to six digits, of full width ASCII, and     *)
(* what an escape may be made of.                                           *)
Runes == {B.percent, B.plus, B.f, 127, 128, 255, 256, 4095, 4096, 65280, 65281, 65374, 65375, 65535, 65536, 1114111}

Of(what, pieces, max) == [reader |-> what, pieces |-> pieces, max |-> max]

PathPieces == {Slash, Back, Dot, "a"}

(* Targets: plain, counted and left out, by key, by expression and by path;  *)
(* an expression may hold a pipe, an escape or an escaped slash, or be none.*)
Target(mark, name, how, key) == [mark |-> mark, name |-> name, how |-> how, key |-> key]
TargetPieces ==
    {Target("", n, "all", <<>>) : n \in {"ARGS", "TX", "UNKNOWN"}} \cup {Target("&", "ARGS", "all", <<>>)}
    \cup {Target(m, n, "key", <<"K">>) : m \in {"", "!", "&"}, n \in {"ARGS", "TX"}}
    \cup {Target(m, "ARGS", h, k) : m \in {"", "!"}, h \in {"regex", "quoted"},
                                   k \in {<<"K">>, <<"a", "|", "b">>, <<Escape, "d">>, <<Escape, "/">>}}
    \cup {Target("", "ARGS", "regex", <<"(">>), Target("", "XML", "xpath", <<"/", "a">>)}

OperatorPieces == {"!", "@", " ", "rx", "eq", "x"}

(* Actions: known and not, without a value, plain and in quotes. *)
ActionPieces ==
    {[key |-> k, value |-> <<v>>, quoted |-> q, before |-> b, after |-> a] :
        k \in {"id", "UNKNOWN"}, v \in {"x", ":", "é"}, q \in BOOLEAN, a \in BOOLEAN, b \in {FALSE}}
    \cup {[key |-> "deny", value |-> <<>>, quoted |-> FALSE, before |-> b, after |-> a] :
            b \in BOOLEAN, a \in BOOLEAN}
    \cup {[key |-> "msg", value |-> v, quoted |-> TRUE, before |-> b, after |-> FALSE] :
            b \in BOOLEAN, v \in {<<>>, <<"x", ",", " ">>, <<Escape, Quote, "x">>}}

(* A variable of each type: set, unset and set to nothing; the first Map of  *)
(* ARGS does not have the key that the second has.                           *)
Vals(values) == (<<"k">> :> values)
MCCollections ==
    "TX"   :> [type |-> "Map", maps |-> <<Vals(<< <<"1">>, <<"2">> >>)>>, data |-> <<>>]
    @@ "ARGS" :> [type |-> "Proxy", maps |-> <<<<>> :> << <<"0">> >>, Vals(<< <<>>, <<"3">> >>)>>, data |-> <<>>]
    @@ "URI"  :> [type |-> "Simple", maps |-> <<>>, data |-> <<"4", "%">>]
    @@ "ARGS_NAMES" :> [type |-> "TranslationProxy", maps |-> <<Vals(<< <<"5">> >>)>>, data |-> <<>>]
    @@ "JSON" :> [type |-> "other", maps |-> <<>>, data |-> <<>>]

MacroPieces ==
    {[text |-> <<c>>, variable |-> "", key |-> <<>>] : c \in {"x", "%", "{", "}", "."}}
    \cup {[text |-> <<>>, variable |-> v, key |-> k] :
            v \in DOMAIN MCCollections \cup {"UNKNOWN"}, k \in {<<>>, <<"K">>, <<"j", ".", "k">>}}

MCPalettes == <<Of("bytes", Url, 3), Of("bytes", Escaped, 3), Of("bytes", Css, 3), Of("bytes", Commented, 3),
               Of("bytes", Percents, 6), Of("bytes", Comments, 6), Of("bytes", Commands, 4),
               Of("runes", Runes, 3), Of("path", PathPieces, 8),
               Of("targets", TargetPieces, 3), Of("operator", OperatorPieces, 5), Of("actions", ActionPieces, 3),
               Of("macro", MacroPieces, 3)>>
=============================================================================
