------------------------------ MODULE Variables ------------------------------
(***************************************************************************)
(* The variables of a transaction that its connector and the body          *)
(* processors fill: connection, headers, cookies, arguments, documents and *)
(* uploads (transaction.go, bodyprocessors/, operators/restpath.go), from  *)
(* NewTransaction to Close and through the pool, and the audit record that *)
(* is made of them.                                                        *)
(*                                                                         *)
(* Abstraction.  A query, a cookie header and a body arrive split into     *)
(* their pairs and decoded.  What the connector calls, how often and in    *)
(* which order is open; the rule engine is On and the body is accessible   *)
(* and not empty.  Variables with a single value that nobody here reads    *)
(* are left out.  A part of an XML body is an attribute or a text, one of  *)
(* length 0 being blank.                                                   *)
(***************************************************************************)
EXTENDS Collections, FiniteSetsExt

CONSTANTS Headers,          (* [key, value, cookies] for AddRequestHeader     *)
          ResponseHeaders,  (* [key, value] for AddResponseHeader             *)
          Connections,      (* [client, cPort, server, sPort]                 *)
          MimeTypes,        (* SecResponseBodyMimeType                        *)
          Arguments,        (* [source, key, value] for AddArgument           *)
          Queries,          (* [parses, pairs]: whether url.Parse takes the   *)
                            (* URI, and the pairs of its query               *)
          Bodies,           (* [format, parts], a part being [key, value, file]; *)
                            (* file is the name of an upload or ""           *)
          Processors,       (* what ctl:requestBodyProcessor may name         *)
          MaxCalls, MaxTransactions   (* bounds *)

Sources  == {"GET", "POST", "PATH"}
Known    == {"URLENCODED", "MULTIPART", "JSON", "XML"}
Word(w)  == [low |-> w, upper |-> FALSE]

ASSUME VariablesAssumption ==
    /\ \A h \in Headers : \A i \in DOMAIN h.cookies : DOMAIN h.cookies[i] = {"key", "value"}
    /\ \A a \in Arguments : a.source \in Sources /\ a.value \in Nat
    /\ \A b \in Bodies : b.format \in Known /\ b.parts # <<>>
    /\ MaxCalls \in Nat /\ MaxTransactions \in Nat

VARIABLES
    v,              (* TransactionVariables: a record of Maps and values     *)
    ForceRequestBodyVariable,
    stage,          (* "open", "inspected" (phase 2 is over), "closed"       *)
    exited,         (* log.Fatalf has ended the process                      *)
    disk,           (* temporary files of uploads, all transactions          *)
    given,          (* history: what this transaction was given: arguments   *)
                    (* [source, key, value], headers, cookies, response      *)
                    (* headers, connections, uploads, document (XML)         *)
    taken,          (* history: names the body was the last to set           *)
    unread,         (* history: the body was not read to its end             *)
    calls, count    (* histories: calls of the transaction, transactions     *)

vars == <<v, ForceRequestBodyVariable, stage, exited, disk, given, taken, unread, calls, count>>

Maps   == {"argsGet", "argsPost", "argsPath", "requestHeaders", "requestHeadersNames",
           "requestCookies", "requestCookiesNames", "files", "filesNames", "filesTmpNames", "filesSizes",
           "multipartPartHeaders", "responseHeaders", "responseHeadersNames", "requestXML"}
NothingGiven == [arguments |-> <<>>, headers |-> <<>>, cookies |-> <<>>, uploads |-> <<>>,
                 response |-> <<>>, connections |-> <<>>, document |-> <<>>]

(* The variables with a single value; "" and "0" are the same here. *)
NewValues == [reqbodyProcessor |-> "", reqbodyError |-> FALSE, filesCombinedSize |-> 0, responseContentType |-> "",
              urlencodedError |-> FALSE, remoteAddr |-> "", remotePort |-> 0, serverAddr |-> "", serverPort |-> 0]

(* NewTransactionVariables and the defaults of newTransactionWithID. *)
NewTransactionVariables == [f \in Maps |-> NewMap] @@ NewValues

Init ==
    /\ v = NewTransactionVariables
    /\ ForceRequestBodyVariable = FALSE
    /\ stage = "open" /\ exited = FALSE /\ disk = 0
    /\ given = NothingGiven /\ taken = {} /\ unread = FALSE
    /\ calls = 0 /\ count = 1

Called == stage = "open" /\ ~exited /\ calls < MaxCalls /\ calls' = calls + 1

(* The pairs in an order ParseQuery's map may be visited in: those of a     *)
(* name stay together, the names come in any order.                         *)
ParseQuery(pairs) ==
    {FlattenSeq([i \in DOMAIN names |-> SelectSeq(pairs, LAMBDA p : p.key = names[i])]) :
        names \in SetToSeqs({pairs[i].key : i \in DOMAIN pairs})}
-----------------------------------------------------------------------------
(* A cookie of a Cookie header. *)
AddCookie(u, p) ==
    LET kl == ToLower(p.key) IN
    [u EXCEPT !.requestCookiesNames = AddUniqueCS(@, kl, p.key, kl),
              !.requestCookies = AddCS(@, kl, p.key, p.value)]

(* What a Content-Type says about the body processor. *)
ProcessorOf(h, default) ==
    IF h.key.low = "content-type" /\ h.value \in {"URLENCODED", "MULTIPART"} THEN h.value ELSE default

(* A header without a name is left out by both operations. *)
AddRequestHeader(h) ==
    LET keyl == ToLower(h.key) IN
    /\ Called
    /\ IF keyl.low = "" THEN UNCHANGED <<v, given>> ELSE
       /\ \E cookies \in ParseQuery(h.cookies) :
             v' = FoldLeft(AddCookie,
                           [v EXCEPT !.requestHeadersNames = AddUniqueCS(@, keyl, h.key, keyl),
                                     !.requestHeaders = AddCS(@, keyl, h.key, h.value),
                                     !.reqbodyProcessor = ProcessorOf(h, @)],
                           cookies)
       /\ given' = [given EXCEPT !.headers = Append(@, h.key), !.cookies = @ \o h.cookies]
    /\ UNCHANGED <<ForceRequestBodyVariable, stage, exited, disk, taken, unread, count>>

(* The value of a Content-Type stands for its media type. *)
AddResponseHeader(h) ==
    LET keyl == ToLower(h.key) IN
    /\ Called
    /\ IF keyl.low = "" THEN UNCHANGED <<v, given>> ELSE
       /\ v' = [v EXCEPT !.responseHeadersNames = AddUniqueCS(@, keyl, h.key, keyl),
                         !.responseHeaders = AddCS(@, keyl, h.key, h.value),
                         !.responseContentType = IF keyl.low = "content-type" THEN h.value ELSE @]
       /\ given' = [given EXCEPT !.response = Append(@, h)]
    /\ UNCHANGED <<ForceRequestBodyVariable, stage, exited, disk, taken, unread, count>>

IsResponseBodyProcessable == v.responseContentType \in MimeTypes

ProcessConnection(c) ==
    /\ Called
    /\ v' = [v EXCEPT !.remoteAddr = c.client, !.remotePort = c.cPort,
                      !.serverAddr = c.server, !.serverPort = c.sPort]
    /\ given' = [given EXCEPT !.connections = Append(@, c)]
    /\ UNCHANGED <<ForceRequestBodyVariable, stage, exited, disk, taken, unread, count>>

(* Transaction.AddArgument *)
Added(u, source, p) ==
    LET Add(m) == AddCS(m, ToLower(p.key), p.key, p.value) IN
    CASE source = "GET"  -> [u EXCEPT !.argsGet = Add(@)]
      [] source = "POST" -> [u EXCEPT !.argsPost = Add(@)]
      [] source = "PATH" -> [u EXCEPT !.argsPath = Add(@)]

Give(source, pairs) ==
    given' = [given EXCEPT !.arguments =
                  @ \o [i \in DOMAIN pairs |-> [source |-> source, key |-> pairs[i].key, value |-> pairs[i].value]]]

AddArgument(a) ==
    /\ Called
    /\ v' = Added(v, a.source, a)
    /\ Give(a.source, <<a>>)
    /\ UNCHANGED <<ForceRequestBodyVariable, stage, exited, disk, taken, unread, count>>

(* ProcessURI, as far as ExtractArguments and URLENCODED_ERROR go: nothing  *)
(* is extracted from a URI that url.Parse refuses.                          *)
ProcessURI(q) ==
    /\ Called
    /\ IF q.parses
       THEN \E pairs \in ParseQuery(q.pairs) :
               v' = FoldLeft(LAMBDA u, p : Added(u, "GET", p), v, pairs)
       ELSE v' = [v EXCEPT !.urlencodedError = TRUE]
    /\ Give(IF q.parses THEN "GET" ELSE "REFUSED", q.pairs)
    /\ UNCHANGED <<ForceRequestBodyVariable, stage, exited, disk, taken, unread, count>>

(* ctl:requestBodyProcessor and ctl:forceRequestBodyVariable. *)
CtlBody(p) ==
    /\ Called
    /\ v' = [v EXCEPT !.reqbodyProcessor = p]
    /\ UNCHANGED <<ForceRequestBodyVariable, stage, exited, disk, given, taken, unread, count>>

CtlForce ==
    /\ Called
    /\ ForceRequestBodyVariable' = TRUE
    /\ UNCHANGED <<v, stage, exited, disk, given, taken, unread, count>>
-----------------------------------------------------------------------------
(* A body processor answers with one of several outcomes: the variables,    *)
(* whether it failed, what it has read and the names it set anew.           *)
Outcome(u, error, parts, temps, set) ==
    [v |-> [u EXCEPT !.reqbodyError = error], read |-> parts, temps |-> temps, set |-> set,
     unread |-> error, document |-> <<>>]

Unreadable(u) == Outcome(u, TRUE, <<>>, 0, {})

KeysOf(parts)   == {parts[i].key : i \in DOMAIN parts}
IsFile(p)       == p.file # ""
ValuesOf(parts, k) == LET of == SelectSeq(parts, LAMBDA p : p.key = k)
                      IN  [i \in DOMAIN of |-> of[i].value]

(* urlencodedBodyProcessor: any bytes are a query. *)
Urlencoded(u, b) ==
    LET pairs == IF b.format = "URLENCODED" THEN b.parts
                 ELSE <<[key |-> Word("opaque"), value |-> 1, file |-> ""]>>
        Set(m, k) == SetCS(m, k, k, ValuesOf(pairs, k))
    IN {Outcome([u EXCEPT !.argsPost = FoldLeft(Set, @, SetToSeq(KeysOf(pairs)))],
                FALSE, pairs, 0, KeysOf(pairs)),
        Unreadable(u)}

(* jsonBodyProcessor: a member of the body displaces the GET arguments of   *)
(* its name.  gjson.Parse finds no members in what is not JSON.             *)
Json(u, b) ==
    LET members == IF b.format = "JSON" THEN b.parts ELSE <<>>
        Member(x, p) == [x EXCEPT !.argsGet = Delete(@, {p.key}), !.argsPost = SetFirst(@, p.key, p.value)]
    IN {[Outcome(FoldLeft(Member, u, members), FALSE, members, 0, KeysOf(members))
            EXCEPT !.unread = b.format # "JSON"],
        Unreadable(u)}

(* xmlBodyProcessor: the attributes and the texts that are not blank, once  *)
(* all has been read.  What is not XML is a text for the decoder, or fails. *)
Xml(u, b) ==
    LET parts == IF b.format = "XML" THEN SelectSeq(b.parts, LAMBDA p : p.key = Word("attr") \/ p.value # 0)
                 ELSE <<[key |-> Word("text"), value |-> 1, file |-> ""]>>
        Set(m, path, k) == SetCS(m, Word(path), Word(path), ValuesOf(parts, Word(k)))
    IN {[Outcome([u EXCEPT !.requestXML = Set(Set(@, "//@*", "attr"), "/*", "text")], FALSE, <<>>, 0, {})
            EXCEPT !.document = parts],
        Unreadable(u)}

(* mutant: FILES_NAMES gets the name before the upload is stored *)
AddPart_SizeOnly(u, p) ==
    IF IsFile(p)
    THEN [u EXCEPT !.filesTmpNames = AddCS(@, Word(""), Word(""), p.file),
                   !.filesSizes = SetFirst(@, Word(p.file), p.value),
                   !.filesCombinedSize = @ + p.value]
    ELSE [u EXCEPT !.argsPost = AddCS(@, p.key, p.key, p.value),
                   !.filesCombinedSize = @ + p.value]

(* A part of a multipart body: an upload or a field. *)
AddPart(u, p) ==
    IF IsFile(p)
    THEN [u EXCEPT !.filesTmpNames = AddCS(@, Word(""), Word(""), p.file),
                   !.files = AddCS(@, Word(""), Word(""), p.file),
                   !.filesSizes = SetFirst(@, Word(p.file), p.value),
                   !.filesNames = AddCS(@, Word(""), Word(""), p.key),
                   !.filesCombinedSize = @ + p.value]
    ELSE [u EXCEPT !.argsPost = AddCS(@, p.key, p.key, p.value),
                   !.filesCombinedSize = @ + p.value]

(* The headers of a part, here its Content-Disposition. *)
AddHeaders(u, p) == [u EXCEPT !.multipartPartHeaders = AddCS(@, p.key, p.key, "disposition")]

(* multipartBodyProcessor stops at the first part it cannot find, store or  *)
(* read; it has kept the headers of one it found, and a file it could not   *)
(* fill stays behind.                                                       *)
Multipart(u, b, mime) ==
    IF mime # "MULTIPART" \/ b.format # "MULTIPART" THEN {Unreadable(u)}
    ELSE {LET done  == SubSeq(b.parts, 1, n)
              fails == n < Len(b.parts)
              found == SubSeq(b.parts, 1, IF fails /\ step # "NextPart" THEN n + 1 ELSE n)
              left  == IF fails /\ step = "Copy" /\ IsFile(b.parts[n + 1]) THEN 1 ELSE 0
          IN  Outcome(FoldLeft(AddPart, FoldLeft(AddHeaders, u, found), done), fails, done,
                      Len(SelectSeq(done, IsFile)) + left, {}) :
          n \in 0..Len(b.parts), step \in {"NextPart", "CreateTemp", "Copy"}}

(* The first Content-Type: "" for none and "bad" for what                   *)
(* mime.ParseMediaType refuses.                                             *)
Mime == LET m == Get(v.requestHeaders, Word("content-type")) IN IF m = <<>> THEN "" ELSE m[1].value

(* The outcomes of processor rbp; without one the body is not looked at. *)
Processed(u, rbp, b) ==
    CASE rbp = "URLENCODED" -> Urlencoded(u, b)
      [] rbp = "MULTIPART"  -> Multipart(u, b, Mime)
      [] rbp = "JSON"       -> Json(u, b)
      [] rbp = "XML"        -> Xml(u, b)
      [] rbp = ""           -> {Outcome(u, FALSE, <<>>, 0, {})}
      [] OTHER              -> {Unreadable(u)}

(* ProcessRequestBody up to the rules of phase 2. *)
ProcessRequestBody(b) ==
    LET rbp == IF ForceRequestBodyVariable THEN "URLENCODED" ELSE v.reqbodyProcessor
        u   == [v EXCEPT !.reqbodyProcessor = rbp]
    IN
    /\ stage = "open" /\ ~exited
    /\ IF rbp = "MULTIPART" /\ Mime \in {"", "bad"}
       THEN /\ exited' = TRUE                            (* log.Fatalf *)
            /\ UNCHANGED <<v, stage, disk, given, taken, unread>>
       ELSE \E o \in Processed(u, rbp, b) :
               /\ v' = o.v
               /\ stage' = "inspected"
               /\ disk' = disk + o.temps
               /\ taken' = o.set
               /\ unread' = o.unread
               /\ given' = [given EXCEPT
                     !.arguments = @ \o [i \in DOMAIN SelectSeq(o.read, LAMBDA p : ~IsFile(p)) |->
                                           LET p == SelectSeq(o.read, LAMBDA q : ~IsFile(q))[i]
                                           IN [source |-> "BODY", key |-> p.key, value |-> p.value]],
                     !.uploads = SelectSeq(o.read, IsFile),
                     !.document = o.document]
               /\ UNCHANGED exited
    /\ UNCHANGED <<ForceRequestBodyVariable, calls, count>>


(* TransactionVariables.reset: every Map and every value. *)
Reset(u) == [f \in DOMAIN u |-> IF f \in Maps THEN NewMap ELSE NewValues[f]]

Close ==
    /\ stage # "closed" /\ ~exited
    /\ stage' = "closed"
    /\ v' = Reset(v)
    /\ UNCHANGED <<ForceRequestBodyVariable, exited, disk, given, taken, unread, calls, count>>

(* The transaction comes out of the pool with the variables Close left. *)
NewTransaction ==
    /\ stage = "closed" /\ count < MaxTransactions
    /\ stage' = "open"
    /\ v' = [v EXCEPT !.reqbodyError = FALSE, !.filesCombinedSize = 0, !.urlencodedError = FALSE]
    /\ ForceRequestBodyVariable' = FALSE
    /\ given' = NothingGiven /\ taken' = {} /\ unread' = FALSE
    /\ calls' = 0 /\ count' = count + 1
    /\ UNCHANGED <<exited, disk>>

Next ==
    \/ \E h \in Headers : AddRequestHeader(h)
    \/ \E h \in ResponseHeaders : AddResponseHeader(h)
    \/ \E c \in Connections : ProcessConnection(c)
    \/ \E a \in Arguments : AddArgument(a)
    \/ \E q \in Queries : ProcessURI(q)
    \/ \E p \in Processors : CtlBody(p)
    \/ CtlForce
    \/ \E b \in Bodies : ProcessRequestBody(b)
    \/ Close
    \/ NewTransaction

Spec == Init /\ [][Next]_vars
-----------------------------------------------------------------------------
(* The Maps behind ARGS and ARGS_NAMES. *)
Args == <<v.argsGet, v.argsPost, v.argsPath>>

(* The uploads in the record of Transaction.AuditLog, and the rest of it    *)
(* that comes from the variables here.                                      *)
AuditFiles ==
    [i \in DOMAIN Get(v.files, Word("")) |->
        LET file == v.files[Word("")][i].value
            sizes == Get(v.filesSizes, Word(file))
        IN  [Name |-> file, Size |-> IF sizes = <<>> THEN 0 ELSE sizes[1].value]]

AuditTransaction ==
    [ClientIP |-> v.remoteAddr, ClientPort |-> v.remotePort, HostIP |-> v.serverAddr, HostPort |-> v.serverPort,
     Request |-> Data(v.requestHeaders), Response |-> Data(v.responseHeaders)]

(* values and names hold what was given, folded, and each name once. *)
Follows(names, values, keys) ==
    /\ DOMAIN values = {ToLower(keys[i]) : i \in DOMAIN keys}
    /\ DOMAIN names = DOMAIN values
    /\ \A k \in DOMAIN values :
          /\ Len(names[k]) = 1
          /\ Len(values[k]) = Cardinality({i \in DOMAIN keys : ToLower(keys[i]) = k})

(* REQUEST_HEADERS, REQUEST_COOKIES and RESPONSE_HEADERS hold every header  *)
(* and cookie of this transaction, repeated ones as often as given, none of *)
(* the transaction that used the object before; their _NAMES hold each name *)
(* once.                                                                    *)
HeadersKept ==
    stage # "closed" =>
        /\ Follows(v.requestHeadersNames, v.requestHeaders, given.headers)
        /\ Follows(v.requestCookiesNames, v.requestCookies,
                   [i \in DOMAIN given.cookies |-> given.cookies[i].key])
        /\ Follows(v.responseHeadersNames, v.responseHeaders,
                   [i \in DOMAIN given.response |-> given.response[i].key])

(* The last of a sequence, or what stands for none. *)
LastOr(s, none) == IF s = <<>> THEN none ELSE s[Len(s)]

(* The body of the response is inspected if its latest Content-Type says    *)
(* so, the audit record has the connection and the response headers of this *)
(* transaction, and the XML variable the attributes and texts of its        *)
(* document, in order.                                                      *)
OwnResponse ==
    LET types == SelectSeq(given.response, LAMBDA h : h.key.low = "content-type")
        c == LastOr(given.connections, [client |-> "", cPort |-> 0, server |-> "", sPort |-> 0])
        Texts(path) == LET t == Get(v.requestXML, Word(path)) IN [i \in DOMAIN t |-> t[i].value]
    IN stage # "closed" =>
        /\ IsResponseBodyProcessable <=> LastOr(types, [value |-> ""]).value \in MimeTypes
        /\ <<AuditTransaction.ClientIP, AuditTransaction.ClientPort>> = <<c.client, c.cPort>>
        /\ <<AuditTransaction.HostIP, AuditTransaction.HostPort>> = <<c.server, c.sPort>>
        /\ \A k \in DOMAIN AuditTransaction.Response :
              AuditTransaction.Response[k] =
                  LET of == SelectSeq(given.response, LAMBDA h : ToLower(h.key) = k)
                  IN  [i \in DOMAIN of |-> of[i].value]
        /\ Texts("//@*") = ValuesOf(given.document, Word("attr"))
        /\ Texts("/*") = ValuesOf(given.document, Word("text"))

(* ARGS holds every argument of the query, of the connector and of the body *)
(* with its name as given, and no other; only a body that has an argument   *)
(* of the same name displaces one.  ARGS_NAMES has its name.  A selector,   *)
(* which AddVariable folds, finds it, unless a body processor added it      *)
(* under its name as written.  The arguments of a URI that does not parse   *)
(* are missing, and then URLENCODED_ERROR says so, in that case only.       *)
ArgumentsKept ==
    stage # "closed" =>
        /\ \A i \in DOMAIN given.arguments :
              LET g == given.arguments[i] IN
              \/ /\ \E e \in IF g.source = "BODY" THEN ProxyFindAll(Args) ELSE ProxyFindString(Args, ToLower(g.key)) :
                       e.field.name = g.key /\ e.field.value = g.value
                 /\ \E k \in TranslationFindAll(Args) : k.low = g.key.low
              \/ g.source \in {"GET", "POST"} /\ ToLower(g.key) \in taken
              \/ g.source = "REFUSED"
        /\ v.urlencodedError <=> \E i \in DOMAIN given.arguments : given.arguments[i].source = "REFUSED"
        /\ Cardinality(ProxyFindAll(Args)) <= Len(given.arguments)


(* FILES, FILES_NAMES and FILES_TMPNAMES agree on the uploads that were     *)
(* stored, also when the processor stopped in the middle of the body; and   *)
(* phase 2 of a body that was not read to its end runs with REQBODY_ERROR   *)
(* set (gjson alone reports nothing).  The audit record lists the same      *)
(* uploads in order, each with its size, or with that of the last upload    *)
(* of its name.                                                             *)
UploadsListed ==
    /\ stage # "closed" =>
          /\ \A f \in {"files", "filesNames", "filesTmpNames"} :
                Len(Get(v[f], Word(""))) = Len(given.uploads)
          /\ DOMAIN v.filesSizes = {Word(given.uploads[i].file) : i \in DOMAIN given.uploads}
          /\ AuditFiles = [i \in DOMAIN given.uploads |->
                LET file == given.uploads[i].file
                IN  [Name |-> file,
                     Size |-> LastOr(SelectSeq(given.uploads, LAMBDA p : p.file = file), <<>>).value]]
    /\ stage = "inspected" /\ unread /\ v.reqbodyProcessor # "JSON" => v.reqbodyError
=============================================================================
