------------------------------ MODULE RuleText ------------------------------
(***************************************************************************)
(* The text of a rule (internal/seclang/rule_parser.go): its targets, its  *)
(* operator and its actions, read character by character.  A character is  *)
(* a token: a sign the parsers look for, or a word they only copy.  "é"    *)
(* stands for a character of several bytes.                                *)
(***************************************************************************)
EXTENDS Texts

CONSTANTS RuleVariables,     (* the names variables.Parse knows              *)
          XPathVariables,    (* those of them whose keys are paths: XML, JSON *)
          Operators, Actions    (* the names operators.Get and actions.Get   *)
                                (* know                                      *)

Escape == "\\"
Quote  == "'"
-----------------------------------------------------------------------------
(* AddVariable and AddVariableNegation: a key between slashes is a regular  *)
(* expression, KeyRx; KeyStr is the key in lower case.                      *)
IsRx(key) == Len(key) > 2 /\ key[1] = "/" /\ Last(key) = "/"

Selector(key) ==
    LET inner == IF IsRx(key) THEN SubSeq(key, 2, Len(key) - 1) ELSE key
    IN  [KeyRx |-> IF IsRx(key) THEN inner ELSE <<>>, KeyStr |-> ToLower(inner)]

(* regexp.MustCompile: "(" stands for what is no expression. *)
Compiles(key) == "(" \notin {key[i] : i \in DOMAIN key}

AddVariable(targets, v, key, iscount) ==
    Append(targets, [name |-> v, count |-> iscount, at |-> Selector(key), exceptions |-> <<>>])

(* Only to the targets there are so far. *)
AddVariableNegation(targets, v, key) ==
    [i \in DOMAIN targets |->
        IF targets[i].name # v THEN targets[i]
        ELSE [targets[i] EXCEPT !.exceptions = Append(@, Selector(key))]]

NoVariable == [curr |-> "name", isNegation |-> FALSE, isCount |-> FALSE, curVar |-> <<>>, curKey |-> <<>>]

(* A variable ends: its last character is kept, its name looked up, and it  *)
(* is added.  isEscaped stays as it is.                                     *)
EndVariable(st) ==
    LET c == st.rest[1]
        in == st.curr
        curVar == IF c # "|" /\ in = "name" THEN Append(st.curVar, c) ELSE st.curVar
        curKey == IF c \notin {"|", "/"} /\ in \in {"key", "xpath"} THEN Append(st.curKey, c) ELSE st.curKey
        unclosed == st.isquoted /\ c # Quote /\ (Len(st.rest) = 1 \/ st.rest[2] # Quote)
        key == IF in = "regex" THEN <<"/">> \o curKey \o <<"/">> ELSE curKey
        v == curVar[1]
    IN
    IF Len(curVar) # 1 \/ v \notin RuleVariables \/ unclosed
    THEN [st EXCEPT !.rest = <<>>, !.out = Error]
    ELSE IF IsRx(key) /\ ~Compiles(key) THEN [st EXCEPT !.rest = <<>>, !.out = Panicked]
    ELSE NoVariable @@
         [rest |-> Drop(st.rest, IF st.isquoted THEN 3 ELSE IF in = "regex" THEN 2 ELSE 1),
          isquoted |-> FALSE, isEscaped |-> st.isEscaped,
          out |-> Ok(IF st.isNegation THEN AddVariableNegation(st.out.res, v, key)
                     ELSE AddVariable(st.out.res, v, key, st.isCount))]

(* A character inside of a variable. *)
InVariable(st) ==
    LET c == st.rest[1]
        Key == [st EXCEPT !.curKey = Append(@, c)]
    IN
    CASE st.curr = "name" /\ c = "!" -> [st EXCEPT !.isNegation = TRUE]
      [] st.curr = "name" /\ c = "&" -> [st EXCEPT !.isCount = TRUE]
      [] st.curr = "name" /\ c = ":" -> [st EXCEPT !.curr = "key"]
      [] st.curr = "name" /\ c \notin {"!", "&", ":"} -> [st EXCEPT !.curVar = Append(@, c)]
      [] st.curr = "key" ->
            IF st.curKey = <<>> /\ \E x \in XPathVariables : st.curVar = <<x>> THEN [Key EXCEPT !.curr = "xpath"]
            ELSE IF c = "/" THEN [st EXCEPT !.curr = "regex"]
            ELSE IF c = Quote THEN [st EXCEPT !.isquoted = TRUE]
            ELSE Key
      [] st.curr = "regex" -> IF c = Escape THEN [Key EXCEPT !.isEscaped = ~@] ELSE Key
      [] st.curr = "xpath" -> Key

(* mutant: a pipe ends a regular expression as well *)
Ends_Pipe(st) == st.rest[1] = "|" \/ Len(st.rest) = 1 \/ (st.curr = "regex" /\ st.rest[1] = "/" /\ ~st.isEscaped)

(* Whether the character ends a variable. *)
Ends(st) ==
    \/ st.rest[1] = "|" /\ st.curr # "regex"
    \/ Len(st.rest) = 1
    \/ st.curr = "regex" /\ st.rest[1] = "/" /\ ~st.isEscaped

ParseVariables(chars) ==
    LET Body(st) == IF Ends(st) THEN EndVariable(st) ELSE [InVariable(st) EXCEPT !.rest = Tail(@)]
    IN  Turns(Body, NoVariable @@ [rest |-> chars, isEscaped |-> FALSE, isquoted |-> FALSE, out |-> Ok(<<>>)],
              Len(chars)).out
-----------------------------------------------------------------------------
(* strings.TrimSpace *)
TrimSpace(s) ==
    LET words == {i \in DOMAIN s : s[i] # " "}
    IN  IF words = {} THEN <<>>
        ELSE SubSeq(s, CHOOSE i \in words : \A k \in words : i <= k, CHOOSE i \in words : \A k \in words : k <= i)

(* The operator with the default one put in. *)
Defaulted(s) ==
    CASE s = <<>> \/ s[1] \notin {"@", "!"}   -> <<"@", "rx", " ">> \o s
      [] s = <<"!">>                          -> <<"!", "@", "rx">>
      [] Len(s) > 1 /\ s[1] = "!" /\ s[2] # "@" -> <<"!", "@", "rx", " ">> \o Tail(s)
      [] OTHER                                -> s

(* ParseOperator, and SetOperator, which reads the negation off opRaw. *)
ParseOperator(operator) ==
    LET parts == Cut(Defaulted(operator), " ")
        opRaw == parts[1]
        op == CASE opRaw[1] = "@"                          -> Tail(opRaw)
                [] Len(opRaw) > 2 /\ opRaw[1] = "!" /\ opRaw[2] = "@" -> Drop(opRaw, 2)
                [] OTHER                                   -> opRaw
    IN  IF \E o \in Operators : op = <<o>>
        THEN Ok(<<[name |-> op[1], negation |-> opRaw[1] = "!", argument |-> TrimSpace(parts[2])]>>)
        ELSE Error
-----------------------------------------------------------------------------
NoAction == [iskey |-> TRUE, ckey |-> <<>>, cval |-> <<>>]

(* An action ends: it is looked up and added. *)
EndAction(st) ==
    IF st.out.err \/ ~\E a \in Actions : st.ckey = <<a>> THEN [st EXCEPT !.rest = <<>>, !.out = Error]
    ELSE NoAction @@ [st EXCEPT !.out.res = Append(@, [key |-> st.ckey[1], value |-> st.cval])]

(* The length in bytes is what the index is compared with: after a          *)
(* character of several bytes it is not reached.                            *)
LastByte(st) == Len(st.rest) = 1 /\ st.rest[1] # "é"

(* mutant: a comma ends an action inside of quotes too *)
Separates_Quoted(st) == st.rest[1] = ","

Separates(st) == st.rest[1] = "," /\ ~st.quoted

(* A turn of parseActions; "skip" leaves out the test for the last byte. *)
InActions(st) ==
    LET c == st.rest[1]
        skip == c = " " /\ (st.iskey \/ ~st.quoted)
        to == CASE skip                        -> st
                [] ~skip /\ Separates(st)      -> EndAction(st)
                [] st.iskey /\ c = ":"         -> [st EXCEPT !.iskey = FALSE]
                [] ~st.iskey /\ c = Quote /\ st.prev # Escape ->
                      [st EXCEPT !.quoted = ~@, !.iskey = st.quoted]
                [] ~st.iskey /\ ~skip /\ ~Separates(st) /\ (c # Quote \/ st.prev = Escape) ->
                      [st EXCEPT !.cval = Append(@, c)]
                [] OTHER                       -> [st EXCEPT !.ckey = Append(@, c)]
        after == IF ~skip /\ LastByte(st) THEN EndAction(to) ELSE to
    IN  [after EXCEPT !.rest = IF @ = <<>> THEN @ ELSE Tail(@), !.prev = c]

parseActions(actions) ==
    Turns(InActions, NoAction @@ [rest |-> actions, prev |-> "", quoted |-> FALSE, out |-> Ok(<<>>)], Len(actions)).out
-----------------------------------------------------------------------------
(* What an author writes.  A target is [mark, name, how, key]: mark is "!",  *)
(* "&" or "", and how is "all", "key", "regex", "quoted" or "xpath".         *)
Joined(pieces, Text(_), separator) ==
    FlattenSeq([i \in DOMAIN pieces |-> (IF i = 1 THEN <<>> ELSE <<separator>>) \o Text(pieces[i])])

TargetText(p) ==
    (IF p.mark = "" THEN <<>> ELSE <<p.mark>>) \o <<p.name>>
    \o CASE p.how = "all"               -> <<>>
         [] p.how \in {"key", "xpath"}   -> <<":">> \o p.key
         [] p.how = "regex"             -> <<":", "/">> \o p.key \o <<"/">>
         [] p.how = "quoted"            -> <<":", Quote, "/">> \o p.key \o <<"/", Quote>>

TargetMeant(p) == [KeyRx |-> IF p.how \in {"regex", "quoted"} THEN p.key ELSE <<>>, KeyStr |-> ToLower(p.key)]

(* A target that is not negated is looked at, but for the keys that later    *)
(* targets of the same name leave out.                                       *)
TargetsMeant(pieces) ==
    LET Later(p, i) == SelectSeq(SubSeq(pieces, i, Len(pieces)), LAMBDA q : q.mark = "!" /\ q.name = p.name)
        Target(p, i) == [name |-> p.name, count |-> p.mark = "&", at |-> TargetMeant(p),
                         exceptions |-> [j \in DOMAIN Later(p, i) |-> TargetMeant(Later(p, i)[j])]]
    IN  FlattenSeq([i \in DOMAIN pieces |->
                       IF pieces[i].mark = "!" THEN <<>> ELSE <<Target(pieces[i], i)>>])

(* A regular expression with an escape is only read back where the text      *)
(* ends with it: isEscaped is never reset.                                   *)
EscapesLast(pieces) ==
    \A i \in DOMAIN pieces :
        Escape \in {pieces[i].key[j] : j \in DOMAIN pieces[i].key} => i = Len(pieces) /\ pieces[i].how = "regex"

(* Every regular expression is one: MustCompile panics otherwise. *)
ExpressionsCompile(pieces) ==
    \A i \in DOMAIN pieces : pieces[i].how \in {"regex", "quoted"} => Compiles(pieces[i].key)

(* The operator is the word after @, "rx" without one, "!" before it         *)
(* negates, and the argument is what follows, without the spaces around it.  *)
OperatorMeant(s) ==
    LET negation == s # <<>> /\ s[1] = "!"
        body == IF negation THEN Tail(s) ELSE s
        explicit == body # <<>> /\ body[1] = "@"
        parts == Cut(body, " ")
        name == IF explicit THEN Tail(parts[1]) ELSE <<"rx">>
    IN  IF \E o \in Operators : name = <<o>>
        THEN Ok(<<[name |-> name[1], negation |-> negation,
                   argument |-> TrimSpace(IF explicit THEN parts[2] ELSE body)]>>)
        ELSE Error

(* ParseVariables and ParseOperator: the condition of a rule is the one its *)
(* text says, every target with its own selector, whose name is matched     *)
(* without regard to case and whose expression as it stands, and count,     *)
(* every exception on the targets that stand before it, and an unknown name *)
(* an error and not a rule that looks elsewhere.                            *)
ConditionAsWritten ==
    /\ Reader = "targets" /\ text # <<>> /\ EscapesLast(text) /\ ExpressionsCompile(text) =>
          ParseVariables(Joined(text, TargetText, "|")) =
             IF \A i \in DOMAIN text : text[i].name \in RuleVariables THEN Ok(TargetsMeant(text)) ELSE Error
    /\ Reader = "operator" => ParseOperator(text) = OperatorMeant(text)

(* An action is [key, value, quoted, before, after]: spaces may stand before *)
(* and after it.  In quotes, a quote is written with an escape.              *)
ActionText(p) ==
    LET space(b) == IF b THEN <<" ">> ELSE <<>>
    IN  space(p.before) \o <<p.key>>
        \o (IF p.quoted THEN <<":", Quote>> \o p.value \o <<Quote>>
            ELSE IF p.value = <<>> THEN <<>> ELSE <<":">> \o p.value)
        \o space(p.after)

(* The last byte of the text is not a space, nor one of several bytes of a   *)
(* character: parseActions forgets the last action otherwise.                *)
EndsPlainly(s) == s # <<>> /\ Last(s) \notin {" ", "é"}

(* parseActions: the actions of a rule are those its text lists, in order   *)
(* and each with its value whole, separators, spaces and escaped quotes     *)
(* inside of quotes included, and an unknown action is an error.            *)
ActionsAsWritten ==
    LET chars == Joined(text, ActionText, ",")
    IN  Reader = "actions" /\ EndsPlainly(chars) =>
           parseActions(chars) =
              IF \A i \in DOMAIN text : text[i].key \in Actions
              THEN Ok([i \in DOMAIN text |-> [key |-> text[i].key, value |-> text[i].value]]) ELSE Error
=============================================================================
