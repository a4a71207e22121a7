------------------------------- MODULE Macros -------------------------------
(***************************************************************************)
(* Macros (macro/macro.go): a text with %{variable.key} in it, compiled    *)
(* when a rule is read and expanded when the rule matches.  A character is *)
(* a token, as in RuleText.                                                *)
(***************************************************************************)
EXTENDS Texts

CONSTANT Collections    (* the variables of the transaction at the time of   *)
                        (* the match: name -> [type, maps, data], the maps   *)
                        (* of a Map (one) or a proxy, the data of a Simple   *)

TextToken(s) == IF s = <<>> THEN <<>> ELSE <<[text |-> s, variable |-> "", key |-> <<>>]>>

(* mutant: the text before a macro is kept for the text after it *)
OpenMacro_Keeps(st) ==
    [st EXCEPT !.rest = Drop(@, 2), !.ismacro = TRUE]

(* %{ ends a text, or a macro that is not closed, and starts a macro. *)
OpenMacro(st) ==
    [st EXCEPT !.rest = Drop(@, 2), !.ismacro = TRUE, !.token = <<>>,
               !.out.res = @ \o TextToken(st.token)]

(* } ends a macro. *)
CloseMacro(st) ==
    LET parts == Cut(st.token, ".")
    IN  IF \E v \in DOMAIN Collections : parts[1] = <<v>>
        THEN [st EXCEPT !.rest = Tail(@), !.ismacro = FALSE, !.token = <<>>,
                        !.out.res = Append(@, [text |-> st.token, variable |-> parts[1][1],
                                               key |-> ToLower(parts[2])])]
        ELSE [st EXCEPT !.rest = <<>>, !.out = Error]

(* compile.  At a % the next byte is read: there is none after the last.    *)
compile(input) ==
    LET Body(st) ==
            CASE st.rest[1] = "%" /\ Len(st.rest) = 1            -> [st EXCEPT !.rest = <<>>, !.out = Panicked]
              [] Len(st.rest) > 1 /\ StartsWith(st.rest, <<"%", "{">>) -> OpenMacro(st)
              [] st.ismacro /\ st.rest[1] = "}"                  -> CloseMacro(st)
              [] OTHER -> [st EXCEPT !.rest = Tail(@), !.token = Append(@, st.rest[1])]
        end == Turns(Body, [rest |-> input, token |-> <<>>, ismacro |-> FALSE, out |-> Ok(<<>>)], Len(input))
    IN  IF end.out.err THEN end.out ELSE [end.out EXCEPT !.res = @ \o TextToken(end.token)]

(* Map.Get and Proxy.Get. *)
GetAll(maps, key) == FlattenSeq([i \in DOMAIN maps |-> IF key \in DOMAIN maps[i] THEN maps[i][key] ELSE <<>>])

(* The first value of the variable; the text of the token without one.  A   *)
(* TranslationProxy is only asked for the key "" of its first Map, and the  *)
(* other types for nothing.                                                 *)
expandToken(token) ==
    LET col == Collections[token.variable]
        named == GetAll(SubSeq(col.maps, 1, 1), <<>>)
        c == CASE token.variable = ""               -> <<>>
               [] col.type \in {"Map", "Proxy"}     -> GetAll(col.maps, token.key)
               [] col.type = "Simple"               -> <<col.data>>
               [] col.type = "TranslationProxy"     -> IF named = <<>> \/ named[1] = <<>> THEN <<>> ELSE named
               [] OTHER                             -> <<>>
    IN  IF c = <<>> THEN token.text ELSE c[1]

Expand(tokens) == FlattenSeq([i \in DOMAIN tokens |-> expandToken(tokens[i])])
-----------------------------------------------------------------------------
(* What an author writes: a character, or a macro [variable, key]. *)
MacroText(p) ==
    IF p.variable = "" THEN p.text
    ELSE <<"%", "{", p.variable>> \o (IF p.key = <<>> THEN <<>> ELSE <<".">> \o p.key) \o <<"}">>

(* A % is not the last character, nor followed by a { of the text. *)
WellFormed(pieces) ==
    \A i \in DOMAIN pieces : pieces[i].text = <<"%">> =>
        i < Len(pieces) /\ pieces[i + 1].text # <<"{">>

(* The Maps of the variable that have the key, case aside. *)
Holding(p) == {m \in DOMAIN Collections[p.variable].maps :
                  ToLower(p.key) \in DOMAIN Collections[p.variable].maps[m]}

(* The variable has a value that a macro can name. *)
HasValue(p) ==
    LET col == Collections[p.variable]
    IN  col.type = "Simple" \/ (col.type \in {"Map", "Proxy"} /\ Holding(p) # {})

(* What such a macro stands for: the value, or the first under the key. *)
MacroMeant(p) ==
    LET col == Collections[p.variable]
        first == CHOOSE m \in Holding(p) : \A n \in Holding(p) : m <= n
    IN  IF p.variable = "" THEN p.text
        ELSE IF col.type = "Simple" THEN col.data
        ELSE col.maps[first][ToLower(p.key)][1]

(* compile and Expand: every macro of a message, a log entry or an argument *)
(* is replaced by its value, if each has one, and the text around it stays  *)
(* as written, also where it has percent signs and braces; a macro of an    *)
(* unknown variable is refused when the rule is read.  Nothing is said of a *)
(* macro without a value, the names of a collection among them, for which   *)
(* the code puts its name without the braces.                               *)
MacrosExpanded ==
    Reader = "macro" /\ WellFormed(text) =>
        LET compiled == compile(FlattenSeq([i \in DOMAIN text |-> MacroText(text[i])]))
            known == \A i \in DOMAIN text : text[i].variable \in DOMAIN Collections \cup {""}
        IN  /\ compiled.err = ~known
            /\ known /\ (\A i \in DOMAIN text : text[i].variable # "" => HasValue(text[i])) =>
                  Expand(compiled.res) = FlattenSeq([i \in DOMAIN text |-> MacroMeant(text[i])])
=============================================================================
