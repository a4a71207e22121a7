----------------------------- MODULE MCVariables -----------------------------
(* Requests for Variables. *)
EXTENDS Variables

Id == [low |-> "id", upper |-> FALSE]
ID == [low |-> "id", upper |-> TRUE]
Pair(k, n) == [key |-> k, value |-> n]
Field(k, n) == [key |-> k, value |-> n, file |-> ""]
Upload(n, f) == [key |-> Word("up"), value |-> n, file |-> f]
Header(k, x) == [key |-> k, value |-> x, cookies |-> <<>>]
Cookie == [key |-> Word("cookie"), value |-> "c", cookies |-> <<Pair(ID, 1), Pair(Id, 2), Pair(ID, 3)>>]

ContentTypes == {Header(Word("content-type"), x) : x \in {"URLENCODED", "MULTIPART"}}

(* Headers and cookies in two spellings and without a name, arguments of    *)
(* every source, a URI that parses and one that does not.                   *)
MCHeaders   == {Header(Id, "h"), Header(ID, "h"), Header(Word(""), "h"), Cookie} \union ContentTypes
MCArguments == {[source |-> s, key |-> Id, value |-> 4] : s \in Sources}
MCQueries   == {[parses |-> TRUE, pairs |-> <<Pair(ID, 1), Pair(Id, 2), Pair(Word(""), 3)>>],
                [parses |-> FALSE, pairs |-> <<Pair(Id, 6)>>]}
UrlBody     == [format |-> "URLENCODED", parts |-> <<Field(Id, 1), Field(ID, 2), Field(Id, 3)>>]
JsonBody    == [format |-> "JSON", parts |-> <<Field(Id, 5), Field(Word("x"), 2)>>]
FormBody    == [format |-> "MULTIPART",
                parts |-> <<Upload(3, "f"), Field(ID, 2), Upload(4, "f"), Upload(1, "g")>>]
XmlBody     == [format |-> "XML", parts |-> <<Field(Word("attr"), 1), Field(Word("text"), 2), Field(Word("text"), 0),
                                              Field(Word("attr"), 0), Field(Word("text"), 3)>>]
MCBodies    == {UrlBody, JsonBody, FormBody, XmlBody}

(* Two media types for the response, and two connections. *)
MCResponseHeaders == {[key |-> k, value |-> x] : k \in {Word("content-type")}, x \in {"html", "image"}}
                     \union {[key |-> k, value |-> "h"] : k \in {ID, Word("")}}
MCConnections     == {[client |-> c, cPort |-> 1, server |-> "s", sPort |-> 2] : c \in {"a", "b"}}
=============================================================================
