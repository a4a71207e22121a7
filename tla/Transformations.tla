--------------------------- MODULE Transformations ---------------------------
(***************************************************************************)
(* The transformations that decode or normalise an argument before an      *)
(* operator sees it (transformations/), the operator validateUrlEncoding   *)
(* and the parser of query strings (internal/url), as functions on         *)
(* sequences of bytes.                                                     *)
(*                                                                         *)
(* A transformation is a loop: a turn takes bytes from the front of its    *)
(* input and puts bytes at the end of its output.  That the in-place ones  *)
(* write to the buffer they read from does not show, as no turn puts more  *)
(* than was taken; the scan for the first byte that needs work only skips  *)
(* turns that copy.                                                        *)
(*                                                                         *)
(* The inputs are texts: sequences of pieces [form, byte], a byte in one   *)
(* of the forms in which it may be written, or a comment.                  *)
(***************************************************************************)
EXTENDS Texts

(* The bytes the code names. *)
B == [nul |-> 0, tab |-> 9, lf |-> 10, cr |-> 13, sp |-> 32, bang |-> 33, dquote |-> 34, hash |-> 35,
      percent |-> 37, amp |-> 38, quote |-> 39, paren |-> 40, star |-> 42, plus |-> 43, comma |-> 44,
      dash |-> 45, slash |-> 47, zero |-> 48, semi |-> 59, less |-> 60, equal |-> 61, greater |-> 62,
      question |-> 63, A |-> 65, F |-> 70, U |-> 85, X |-> 88, Z |-> 90, back |-> 92, caret |-> 94,
      a |-> 97, f |-> 102, u |-> 117, x |-> 120, z |-> 122]

(* An index out of range in place of a byte: the goroutine panics. *)
Panic == -1

(* A turn on st = [rest, out, on]; on is the flag some loops carry. *)
Turn(st, take, put, on) == [rest |-> Drop(st.rest, take), out |-> st.out \o put, on |-> on]

(* Every turn takes a byte or more. *)
Loop(Body(_), input) == Turns(Body, [rest |-> input, out |-> <<>>, on |-> FALSE], Len(input))
-----------------------------------------------------------------------------
(* internal/strings *)
ValidHex(x) == x \in 48..57 \/ x \in 97..102 \/ x \in 65..70

xsingle2c(x) == IF x >= B.a THEN x - B.a + 10 ELSE IF x >= B.A THEN x - B.A + 10 ELSE x - B.zero

X2c(x, y) == 16 * xsingle2c(x) + xsingle2c(y)

HexAt(s, from, to) == to <= Len(s) /\ \A k \in from..to : ValidHex(s[k])

(* mutant: the last character is missed *)
Narrow_Below(s, k) ==
    LET b == X2c(s[k + 2], s[k + 3]) IN
    IF b > 0 /\ b < 94 /\ {s[k], s[k + 1]} \subseteq {B.f, B.F} THEN b + 32 ELSE b

(* The byte of four digits; full width ASCII, ff01 to ff5e, is narrowed. *)
Narrow(s, k) ==
    LET b == X2c(s[k + 2], s[k + 3]) IN
    IF b > 0 /\ b < 95 /\ {s[k], s[k + 1]} \subseteq {B.f, B.F} THEN b + 32 ELSE b

doURLDecode(st) ==
    LET s == st.rest IN
    IF s[1] = B.percent
    THEN IF HexAt(s, 2, 3) THEN Turn(st, 3, <<X2c(s[2], s[3])>>, FALSE) ELSE Turn(st, 1, <<s[1]>>, FALSE)
    ELSE Turn(st, 1, IF s[1] = B.plus THEN <<B.sp>> ELSE <<s[1]>>, FALSE)

urlDecode(data) == Loop(doURLDecode, data).out

(* %uHHHH, of which the low byte counts; an invalid %u is passed whole. *)
inplaceUniDecode(st) ==
    LET s == st.rest IN
    CASE s[1] = B.percent /\ Len(s) > 1 /\ s[2] \in {B.u, B.U} ->
            IF HexAt(s, 3, 6) THEN Turn(st, 6, <<Narrow(s, 3)>>, FALSE) ELSE Turn(st, 2, SubSeq(s, 1, 2), FALSE)
      [] s[1] = B.percent /\ HexAt(s, 2, 3) -> Turn(st, 3, <<X2c(s[2], s[3])>>, FALSE)
      [] s[1] = B.plus -> Turn(st, 1, <<B.sp>>, FALSE)
      [] OTHER -> Turn(st, 1, <<s[1]>>, FALSE)

urlDecodeUni(data) == Loop(inplaceUniDecode, data).out

(* internal/url converts the two digits one by one. *)
QueryUnescape(input) ==
    LET Body(st) ==
            LET s == st.rest IN
            CASE s[1] = B.plus -> Turn(st, 1, <<B.sp>>, FALSE)
              [] s[1] = B.percent /\ Len(s) > 2 /\ ValidHex(s[2]) /\ ValidHex(s[3]) ->
                    Turn(st, 3, <<16 * xsingle2c(s[2]) + xsingle2c(s[3])>>, FALSE)
              [] OTHER -> Turn(st, 1, <<s[1]>>, FALSE)
    IN  Loop(Body, input).out

(* The values of each name in their order; out collects [key, value]. *)
ParseQuery(query, separator) ==
    LET Body(st) ==
            LET parts == Cut(st.rest, separator)
                pair  == Cut(parts[1], B.equal)
            IN  [rest |-> parts[2], on |-> FALSE,
                 out |-> IF parts[1] = <<>> THEN st.out
                         ELSE Append(st.out, [key |-> QueryUnescape(pair[1]), value |-> QueryUnescape(pair[2])])]
        pairs == Turns(Body, [rest |-> query, out |-> <<>>, on |-> FALSE],
                       1 + Len(SelectSeq(query, LAMBDA c : c = separator))).out
    IN  [k \in {pairs[i].key : i \in DOMAIN pairs} |->
            LET own == SelectSeq(pairs, LAMBDA p : p.key = k) IN [i \in DOMAIN own |-> own[i].value]]

Digit(n) == IF n < 10 THEN B.zero + n ELSE B.a + n - 10

urlEncode(data) ==
    FlattenSeq([i \in DOMAIN data |->
        LET cc == data[i] IN
        IF cc = B.sp THEN <<B.plus>>
        ELSE IF cc = 42 \/ cc \in 48..57 \/ cc \in 65..90 \/ cc \in 97..122 THEN <<cc>>
        ELSE <<B.percent, Digit(cc \div 16), Digit(cc % 16)>>])

(* The digits of a rune, as far as the padding to four needs to know. *)
numHexDigits(c) == IF c <= 15 THEN 1 ELSE IF c <= 255 THEN 2 ELSE IF c <= 4095 THEN 3 ELSE 4

(* strconv.AppendUint(res, c, 16) *)
AppendUint(c) ==
    LET digits == CHOOSE n \in 1..6 : c < 16 ^ n /\ (n > 1 => c >= 16 ^ (n - 1))
    IN  [i \in 1..digits |-> Digit((c \div 16 ^ (digits - i)) % 16)]

(* utf8ToUnicode, of the runes of its input. *)
utf8ToUnicode(runes) ==
    FlattenSeq([i \in DOMAIN runes |->
        LET c == runes[i] IN
        IF c < 128 THEN <<c>>
        ELSE <<B.percent, B.u>> \o [k \in 1..(4 - numHexDigits(c)) |-> B.zero] \o AppendUint(c)])

(* validateUrlEncoding: whether the operator matches, so finds a fault.     *)
(* The loop returns at the first one; what it skips, two digits, has none.  *)
validateURLEncodingInternal(input) ==
    LET Truncated(i) == i + 2 > Len(input)
        faults == {i \in DOMAIN input : input[i] = B.percent /\ (Truncated(i) \/ ~HexAt(input, i + 1, i + 2))}
        first == CHOOSE i \in faults : \A k \in faults : i <= k
    IN  IF input = <<>> THEN -1 ELSE IF faults = {} THEN 1 ELSE IF Truncated(first) THEN -3 ELSE -2

validateURLEncoding(value) == value # <<>> /\ validateURLEncodingInternal(value) # 1
-----------------------------------------------------------------------------
isodigit(x) == x \in 48..55

(* The letters a, b, f, n, r, t, v after a backslash, and what they stand for. *)
Letters == {97, 98, 102, 110, 114, 116, 118}
Control == [c \in Letters |-> CASE c = 97 -> 7 [] c = 98 -> 8 [] c = 102 -> 12 [] c = 110 -> 10
                               [] c = 114 -> 13 [] c = 116 -> 9 [] c = 118 -> 11]

(* The octal digits are read from the backslash on: ParseInt gives 0, the   *)
(* byte after the first digit goes with it.                                 *)
doJsDecode(st) ==
    LET s == st.rest IN
    CASE s[1] # B.back                              -> Turn(st, 1, <<s[1]>>, FALSE)
      [] s[1] = B.back /\ Len(s) = 1                -> Turn(st, 1, s, FALSE)
      [] s[1] = B.back /\ Len(s) > 1 ->
            CASE s[2] = B.u /\ HexAt(s, 3, 6)       -> Turn(st, 6, <<Narrow(s, 3)>>, FALSE)
              [] s[2] = B.x /\ HexAt(s, 3, 4)       -> Turn(st, 4, <<X2c(s[3], s[4])>>, FALSE)
              [] isodigit(s[2])                     -> Turn(st, IF Len(s) > 2 THEN 3 ELSE 2, <<B.nul>>, FALSE)
              [] s[2] \in Letters                   -> Turn(st, 2, <<Control[s[2]]>>, FALSE)
              [] OTHER                              -> Turn(st, 2, <<s[2]>>, FALSE)

jsDecode(data) == Loop(doJsDecode, data).out

(* strconv.ParseUint(digits, 8, 8): the greatest byte when out of range. *)
ParseUint(s, n) ==
    LET value[k \in 0..n] == IF k = 0 THEN 0 ELSE 8 * value[k - 1] + s[k] - B.zero
    IN  IF value[n] > 255 THEN 255 ELSE value[n]

(* How many octal digits s begins with, at most three. *)
OctalDigits(s) ==
    CHOOSE n \in 0..3 : /\ n <= Len(s) /\ \A k \in 1..n : isodigit(s[k])
                        /\ n < 3 /\ n < Len(s) => ~isodigit(s[n + 1])

(* The byte n bytes of escape stand for.  255 is -1 as int8, which says     *)
(* "not recognised": the byte after next is copied in its place.            *)
Converted(st, n, byte) ==
    IF byte # 255 THEN Turn(st, n, <<byte>>, FALSE)
    ELSE IF n + 2 <= Len(st.rest) THEN Turn(st, n + 2, <<st.rest[n + 2]>>, FALSE)
    ELSE Turn(st, Len(st.rest), <<Panic>>, FALSE)

doEscapeSeqDecode(st) ==
    LET s == st.rest
        octal == OctalDigits(Drop(s, 1))
    IN
    IF s[1] # B.back \/ Len(s) = 1 THEN Turn(st, 1, <<s[1]>>, FALSE)
    ELSE CASE s[2] \in Letters                                -> Turn(st, 2, <<Control[s[2]]>>, FALSE)
           [] s[2] \in {B.x, B.X} /\ HexAt(s, 3, 4)           -> Converted(st, 4, X2c(s[3], s[4]))
           [] octal > 0                                       -> Converted(st, 1 + octal, ParseUint(Drop(s, 1), octal))
           [] OTHER                                           -> Turn(st, 2, <<s[2]>>, FALSE)

escapeSeqDecode(input) == Loop(doEscapeSeqDecode, input).out

isspace(x) == x \in {9, 10, 11, 12, 13, 32}

(* One to six digits, of which the last two count; a space after them goes. *)
cssDecodeInplace(st) ==
    LET s == st.rest
        j == CHOOSE n \in 0..6 : /\ n < Len(s) /\ \A k \in 2..(n + 1) : ValidHex(s[k])
                                 /\ n < 6 /\ n + 1 < Len(s) => ~ValidHex(s[n + 2])
        fullcheck == \/ j = 4
                     \/ j = 5 /\ s[2] = B.zero
                     \/ j = 6 /\ s[2] = B.zero /\ s[3] = B.zero
        byte == IF j = 1 THEN xsingle2c(s[2]) ELSE IF fullcheck THEN Narrow(s, j - 2) ELSE X2c(s[j], s[j + 1])
        space == IF j + 1 < Len(s) /\ isspace(s[j + 2]) THEN 1 ELSE 0
    IN
    CASE s[1] # B.back                        -> Turn(st, 1, <<s[1]>>, FALSE)
      [] s[1] = B.back /\ Len(s) = 1          -> Turn(st, 1, <<>>, FALSE)
      [] s[1] = B.back /\ Len(s) > 1 ->
            IF j > 0 THEN Turn(st, 1 + j + space, <<byte>>, FALSE)
            ELSE IF s[2] = B.lf THEN Turn(st, 2, <<>>, FALSE)
            ELSE Turn(st, 2, <<s[2]>>, FALSE)

cssDecode(data) == Loop(cssDecodeInplace, data).out
-----------------------------------------------------------------------------
(* mutant: nothing stands for the comment *)
Comment_Nothing == <<>>

(* What replaceComments puts for a comment. *)
Comment == <<B.sp>>

doReplaceComments(st) ==
    LET s == st.rest IN
    CASE ~st.on /\ StartsWith(s, <<B.slash, B.star>>) -> Turn(st, 2, <<>>, TRUE)
      [] st.on /\ StartsWith(s, <<B.star, B.slash>>)  -> Turn(st, 2, Comment, FALSE)
      [] OTHER                                        -> Turn(st, 1, IF st.on THEN <<>> ELSE <<s[1]>>, st.on)

Closed(st) == IF st.on THEN st.out \o Comment ELSE st.out

replaceComments(data) == Closed(Loop(doReplaceComments, data))

(* The byte after a comment is copied unseen; at the end it is the padding. *)
doRemoveComments(st) ==
    LET s == st.rest
        After(n) == Turn(st, n + 1, IF Len(s) > n THEN <<s[n + 1]>> ELSE <<B.nul>>, FALSE)
    IN
    CASE ~st.on /\ StartsWith(s, <<B.slash, B.star>>)                   -> Turn(st, 2, <<>>, TRUE)
      [] ~st.on /\ StartsWith(s, <<B.less, B.bang, B.dash, B.dash>>)    -> Turn(st, 4, <<>>, TRUE)
      [] ~st.on /\ (StartsWith(s, <<B.dash, B.dash>>) \/ s[1] = B.hash) -> Turn(st, Len(s), <<>>, FALSE)
      [] st.on /\ StartsWith(s, <<B.star, B.slash>>)                    -> After(2)
      [] st.on /\ StartsWith(s, <<B.dash, B.dash, B.greater>>)          -> After(3)
      [] OTHER -> Turn(st, 1, IF st.on THEN <<>> ELSE <<s[1]>>, st.on)

removeComments(value) == LET st == Loop(doRemoveComments, value) IN IF st.on THEN Append(st.out, B.sp) ELSE st.out

(* The signs that open and close comments. *)
Marks == {<<B.slash, B.star>>, <<B.star, B.slash>>, <<B.less, B.bang, B.dash, B.dash>>,
          <<B.dash, B.dash, B.greater>>, <<B.dash, B.dash>>, <<B.hash>>}

(* erase moves the rest up; "-->" is tried before "--". *)
removeCommentsChar(data) ==
    LET Body(st) ==
            LET here == {m \in Marks : StartsWith(st.rest, m)} IN
            IF here = {} THEN Turn(st, 1, <<st.rest[1]>>, FALSE)
            ELSE Turn(st, Len(CHOOSE m \in here : \A o \in here : Len(o) <= Len(m)), <<>>, FALSE)
    IN  Loop(Body, data).out

isLatinSpace(c) == c \in {9, 10, 11, 12, 13, 32, 133, 160}

doCompressWhitespace(st) ==
    LET space == isLatinSpace(st.rest[1]) IN
    Turn(st, 1, IF ~space THEN <<st.rest[1]>> ELSE IF st.on THEN <<>> ELSE <<B.sp>>, space)

compressWhitespace(value) == Loop(doCompressWhitespace, value).out

(* on is space: the last byte put is the space of a run. *)
doCMDLine(st) ==
    LET c == st.rest[1] IN
    CASE c \in {B.dquote, B.quote, B.back, B.caret} -> Turn(st, 1, <<>>, st.on)
      [] c \in {B.sp, B.comma, B.semi, B.tab, B.cr, B.lf} -> Turn(st, 1, IF st.on THEN <<>> ELSE <<B.sp>>, TRUE)
      [] c \in {B.slash, B.paren} -> Turn([st EXCEPT !.out = IF st.on THEN Front(@) ELSE @], 1, <<c>>, FALSE)
      [] OTHER -> Turn(st, 1, IF c \in B.A..B.Z THEN <<c + 32>> ELSE <<c>>, FALSE)

cmdLine(data) == Loop(doCMDLine, data).out
-----------------------------------------------------------------------------
(* base64DecMap, for the bytes it does not refuse; a '=' counts as 0. *)
Alphabet == (65..90) \cup (97..122) \cup (48..57) \cup {B.plus, B.slash}
Sextet(c) == CASE c \in 65..90 -> c - 65 [] c \in 97..122 -> c - 71 [] c \in 48..57 -> c + 4
               [] c = B.plus -> 62 [] c = B.slash -> 63 [] c = B.equal -> 0

(* The first pass of doBase64decode: spaces only before the end of a line,  *)
(* and at most two '=' with nothing after them.                             *)
ValidBase64(src) ==
    \A i \in DOMAIN src :
        LET before == {k \in 1..(i - 1) : src[k] = B.equal} IN
        CASE src[i] = B.sp    -> i = Len(src) \/ src[i + 1] \in {B.sp, B.lf, B.cr}
          [] src[i] = B.lf    -> TRUE
          [] src[i] = B.cr    -> i < Len(src) /\ src[i + 1] = B.lf
          [] src[i] = B.equal -> Cardinality(before) < 2
          [] OTHER            -> src[i] \in Alphabet /\ before = {}

(* The second pass: three bytes for each four signs, one less for each '='; *)
(* signs left over at the end count for nothing.                            *)
doBase64decode(src) ==
    LET signs == SelectSeq(src, LAMBDA c : c \notin {B.cr, B.lf, B.sp})
        Group(g) ==
            LET four == SubSeq(signs, 4 * g - 3, 4 * g)
                x == ((Sextet(four[1]) * 64 + Sextet(four[2])) * 64 + Sextet(four[3])) * 64 + Sextet(four[4])
                j == 3 - Cardinality({k \in 1..(4 * g) : signs[k] = B.equal})
            IN  SubSeq(<<x \div 65536, (x \div 256) % 256, x % 256>>, 1, j)
    IN  FlattenSeq([g \in 1..(Len(signs) \div 4) |-> Group(g)])

(* What is not base64, or stands for nothing, is passed as it is. *)
base64decode(data) ==
    IF ~ValidBase64(data) \/ doBase64decode(data) = <<>> THEN data ELSE doBase64decode(data)
-----------------------------------------------------------------------------
Hex(b) == <<Digit(b \div 16), Digit(b % 16)>>
FF == <<B.f, B.F>>
Zeros(n) == [k \in 1..n |-> B.zero]

(* How a piece is written. *)
Written(p) ==
    LET b == p.byte IN
    CASE p.form = "raw"        -> <<b>>
      [] p.form = "percent"    -> <<B.percent>> \o Hex(b)
      [] p.form = "plus"       -> <<B.plus>>
      [] p.form = "%u"         -> <<B.percent, B.u>> \o Zeros(2) \o Hex(b)
      [] p.form = "%uff"       -> <<B.percent, B.u>> \o FF \o Hex(b - 32)
      [] p.form = "letter"     -> <<B.back, CHOOSE c \in Letters : Control[c] = b>>
      [] p.form = "self"       -> <<B.back, b>>
      [] p.form = "x"          -> <<B.back, B.x>> \o Hex(b)
      [] p.form = "u"          -> <<B.back, B.u>> \o Zeros(2) \o Hex(b)
      [] p.form = "uff"        -> <<B.back, B.u>> \o FF \o Hex(b - 32)
      [] p.form = "octal"      -> <<B.back, B.zero + b \div 64, B.zero + ((b \div 8) % 8), B.zero + (b % 8)>>
      [] p.form = "css"        -> <<B.back>> \o Hex(b) \o <<B.sp>>
      [] p.form = "css4"       -> <<B.back>> \o FF \o Hex(b - 32) \o <<B.sp>>
      [] p.form = "css5"       -> <<B.back>> \o Zeros(1) \o FF \o Hex(b - 32) \o <<B.sp>>
      [] p.form = "css6"       -> <<B.back>> \o Zeros(4) \o Hex(b)
      [] p.form = "css6ff"     -> <<B.back>> \o Zeros(2) \o FF \o Hex(b - 32)
      [] p.form = "comment"    -> <<B.slash, B.star, b, B.star, B.slash>>
      [] p.form = "html"       -> <<B.less, B.bang, B.dash, B.dash, b, B.dash, B.dash, B.greater>>

Bytes(t) == FlattenSeq([i \in DOMAIN t |-> Written(t[i])])

(* Base64 as RFC 4648 has it, in lines of four signs. *)
Sign(n) == CHOOSE c \in Alphabet : Sextet(c) = n
Base64(s, eol) ==
    LET Line(k) ==
            LET At(i) == IF i <= Len(s) THEN s[i] ELSE 0
                x == (At(k) * 256 + At(k + 1)) * 256 + At(k + 2)
            IN  <<Sign(x \div 262144), Sign((x \div 4096) % 64)>>
                \o (IF k + 1 > Len(s) THEN <<B.equal>> ELSE <<Sign((x \div 64) % 64)>>)
                \o (IF k + 2 > Len(s) THEN <<B.equal>> ELSE <<Sign(x % 64)>>) \o eol
    IN  FlattenSeq([l \in 1..((Len(s) + 2) \div 3) |-> Line(3 * l - 2)])

(* What a reader of the text means by it: the bytes, without the comments.  *)
Meant(t) == LET kept == SelectSeq(t, LAMBDA p : p.form \notin {"comment", "html"})
            IN  [i \in DOMAIN kept |-> kept[i].byte]

Only(t, forms, special) == \A i \in DOMAIN t : /\ t[i].form \in {"raw"} \cup forms
                                               /\ t[i].form = "raw" => t[i].byte \notin special

-----------------------------------------------------------------------------
(* Every decoder gives back the bytes of a text in which each byte is       *)
(* written in any of the forms the decoder knows, in any order: urlDecode,  *)
(* urlDecodeUni and QueryUnescape, jsDecode, escapeSeqDecode (but for 255,  *)
(* which is its -1), cssDecode; removeComments takes the comments out, when *)
(* something follows each, and removeCommentsChar their signs.  jsDecode's  *)
(* octal digits are left out, as the code reads them as 0.  base64decode    *)
(* reads back what is written in lines that end in any way; of base64       *)
(* within other bytes nothing is said, as the code leaves it as it is.      *)
FormsUnderstood ==
    Reader = "bytes" =>
    LET s == Bytes(text)
        m == Meant(text)
        url == {"percent", "plus"}
    IN
    /\ Only(text, url, {B.percent, B.plus}) => urlDecode(s) = m /\ QueryUnescape(s) = m /\ ~validateURLEncoding(s)
    /\ Only(text, url \cup {"%u", "%uff"}, {B.percent, B.plus}) => urlDecodeUni(s) = m
    /\ Only(text, {"letter", "self", "x", "u", "uff"}, {B.back}) => jsDecode(s) = m
    /\ Only(text, {"letter", "self", "x", "octal"}, {B.back}) /\ 255 \notin Range(m) => escapeSeqDecode(s) = m
    /\ Only(text, {"self", "css", "css4", "css5", "css6", "css6ff"}, {B.back, B.sp}) => cssDecode(s) = m
    /\ Only(text, {"comment", "html"}, {B.slash, B.star, B.less, B.dash, B.hash}) =>
          /\ (\A i \in DOMAIN text : text[i].form # "raw" => i < Len(text) /\ text[i + 1].form = "raw")
                => removeComments(s) = m
          /\ (\A i \in DOMAIN text : text[i].byte \notin {B.star, B.dash})
                => removeCommentsChar(s) = [i \in DOMAIN text |-> text[i].byte]
    /\ \A eol \in {<<>>, <<B.cr, B.lf>>, <<B.sp, B.lf>>} : base64decode(Base64(s, eol)) = s

(* On any bytes at all the three URL decoders agree, urlDecodeUni unless    *)
(* there is a %u; they undo urlEncode, also around ParseQuery's separators; *)
(* and what validateUrlEncoding accepts has every percent sign decoded.     *)
UrlDecodersAgree ==
    Reader = "bytes" =>
    LET s == Bytes(text)
        Percents(t) == Cardinality({i \in DOMAIN t : t[i] = B.percent})
        e == urlEncode(s)
    IN
    /\ urlDecode(s) = QueryUnescape(s)
    /\ urlDecode(e) = s /\ urlDecodeUni(e) = s /\ ~validateURLEncoding(e)
    /\ (\A i \in 1..(Len(s) - 1) : s[i] = B.percent => s[i + 1] \notin {B.u, B.U}) => urlDecodeUni(s) = urlDecode(s)
    /\ ~validateURLEncoding(s) => Len(urlDecode(s)) = Len(s) - 2 * Percents(s)
    /\ LET pair == e \o <<B.equal>> \o e
       IN  ParseQuery(pair \o <<B.amp, B.amp>> \o pair, B.amp) = [k \in {s} |-> <<s, s>>]

(* t:utf8toUnicode,t:urlDecodeUni: a rune comes out as the one byte that     *)
(* urlDecodeUni has for it, whatever stands next to it, full width ASCII as  *)
(* ASCII; beyond U+FFFF the digits are too many and what is left of them     *)
(* stays.                                                                    *)
RunesDecoded ==
    LET Low(c) == IF c \in 65281..65374 THEN c - 65248 ELSE c % 256
        Left(c) == IF c > 65535 THEN Drop(AppendUint(c), 4) ELSE <<>>
        Meaning(c) == IF c < 128 THEN <<IF c = B.plus THEN B.sp ELSE c>>
                      ELSE IF c <= 65535 THEN <<Low(c)>>
                      ELSE <<Narrow(AppendUint(c), 1)>> \o Left(c)
        Escape(i) == text[i] = B.percent /\ (\E k \in (i + 1)..Len(text) : text[k] \in {B.u, B.U} \/ ValidHex(text[k]))
    IN
    Reader = "runes" /\ (\A i \in DOMAIN text : ~Escape(i)) =>
        urlDecodeUni(utf8ToUnicode(text)) = FlattenSeq([i \in DOMAIN text |-> Meaning(text[i])])

(* No two readers of an escape see different bytes: a decoder gives what    *)
(* its escapes mean, and the decoders of one notation, the validator and    *)
(* the encoders fit each other on any bytes and characters at all.          *)
EscapesDecoded == FormsUnderstood /\ UrlDecodersAgree /\ RunesDecoded

(* A normalised value is left alone by a second pass, so that a rule may    *)
(* repeat a transformation or inherit one: replaceComments leaves no opened *)
(* comment, compressWhitespace no run, cmdLine no space that it would       *)
(* remove.                                                                  *)
NormalFormsSettle ==
    Reader = "bytes" =>
    LET s == Bytes(text)
        once == replaceComments(s)
    IN
    /\ replaceComments(once) = once
    /\ \A i \in 1..(Len(once) - 1) : ~(once[i] = B.slash /\ once[i + 1] = B.star)
    /\ compressWhitespace(compressWhitespace(s)) = compressWhitespace(s)
    /\ cmdLine(cmdLine(s)) = cmdLine(s)
=============================================================================
