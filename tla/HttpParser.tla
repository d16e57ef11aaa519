----------------------------- MODULE HttpParser -----------------------------
(***************************************************************************)
(* The scanners of src/src/http.c: http_10_parse_request splits a request  *)
(* line, http_10_parse_header a header line.  Each is a loop over the      *)
(* bytes received so far, which notes pointers to the parts; one action    *)
(* here is one case of its switch.  When the bytes end before the line     *)
(* does, the call returns "hungry" and the next one begins again from the  *)
(* start of the line, on bytes that the last one may have changed.         *)
(*                                                                         *)
(* A pointer is the index of its byte, from 1 on; 0 is NULL.               *)
(***************************************************************************)
EXTENDS Integers, Sequences

CONSTANTS
    Others,        \* the bytes without a meaning of their own
    LowerCase,     \* tolower, for the bytes it changes
    Methods,       \* what http_method_from_string knows
    Versions,      \* what http_version_from_string knows
    VersionSlash,  \* offset of "/" in a version: 4 in the code
    VersionLast,   \* offset of its last byte: 7 in the code
    Http, Https,   \* "http://" and "https://"
    Inputs         \* what the peer may send: [kind, text] with text \in Seq(Bytes)

NUL == "nul"
SP == " "
Special == {SP, ":", "/", "?", "\n", "\r"}
Bytes == Others \cup Special \cup {NUL}
Kinds == {"request", "header"}

ASSUME ParserAssumption ==
    /\ Others \cap (Special \cup {NUL}) = {}
    /\ LowerCase \in [DOMAIN LowerCase -> Others] /\ DOMAIN LowerCase \subseteq Others
    /\ \A c \in DOMAIN LowerCase : LowerCase[c] \notin DOMAIN LowerCase
    /\ Methods \subseteq Seq(Others)
    /\ VersionSlash \in Nat /\ VersionLast \in Nat
    /\ Versions \subseteq Seq(Others \cup {"/"})
    /\ \A v \in Versions :
          /\ Len(v) = VersionLast + 1 /\ v[1] # "/"
          /\ \A k \in 1 .. Len(v) : v[k] = "/" => k = VersionSlash + 1
    /\ Http \in Seq(Bytes) /\ Https \in Seq(Bytes)
    /\ \E k \in 1 .. Len(Http) : k <= Len(Https) /\ Http[k] # Https[k]
    /\ \A x \in Inputs : x.kind \in Kinds /\ x.text \in Seq(Bytes)

VARIABLES
    kind,     \* which of the two lines is parsed
    text,     \* what the peer sends, to its end
    buf,      \* what of it was received, as the scanners left it
    pc,       \* "wait" for the peer, "scan", or "done"
    at,       \* data: the byte that is looked at
    ptr,      \* the pointers
    verdict,  \* the parser status
    given     \* the strings handed to the stream

vars == <<kind, text, buf, pc, at, ptr, verdict, given>>

Pointers == [method_end : Nat, uri : Nat, uri_end : Nat, host : Nat, port : Nat,
             path : Nat, query : Nat, version : Nat,
             colon : Nat, val : Nat, val_end : Nat, newline : Nat]

Null == [method_end |-> 0, uri |-> 0, uri_end |-> 0, host |-> 0, port |-> 0,
         path |-> 0, query |-> 0, version |-> 0,
         colon |-> 0, val |-> 0, val_end |-> 0, newline |-> 0]

Init ==
    /\ \E x \in Inputs : kind = x.kind /\ text = x.text
    /\ buf = <<>>
    /\ pc = "wait" /\ at = 1 /\ ptr = Null
    /\ verdict = "hungry"
    /\ given = <<>>

-----------------------------------------------------------------------------
(* Helpers.                                                                *)

Lower(c) == IF c \in DOMAIN LowerCase THEN LowerCase[c] ELSE c

(* strncmp with the whole of w, on bytes that may end before it does.      *)
StartsAt(b, i, w) ==
    \A k \in 1 .. Len(w) : i + k - 1 \in 1 .. Len(b) /\ b[i + k - 1] = w[k]

(* Zeros written over some bytes.                                          *)
Zeroed(b, at0) == [i \in 1 .. Len(b) |-> IF i \in at0 THEN NUL ELSE b[i]]

(* Whether a string that begins at i ends in b, and the string.            *)
Ends(b, i) == \E j \in i .. Len(b) : b[j] = NUL
String(b, i) ==
    LET end == CHOOSE j \in i .. Len(b) :
                  b[j] = NUL /\ \A k \in i .. j - 1 : b[k] # NUL
    IN SubSeq(b, i, end - 1)

-----------------------------------------------------------------------------
(* A call and its end.                                                     *)

(* Mutant of Receive: what was received already is stored again.           *)
Receive_again ==
    /\ pc = "wait"
    /\ \E n \in Len(buf) + 1 .. Len(text) : buf' = buf \o SubSeq(text, 1, n)
    /\ pc' = "scan" /\ at' = 1 /\ ptr' = Null
    /\ UNCHANGED <<kind, text, verdict, given>>

(* More arrives, and the line is scanned from its start.                   *)
Receive ==
    /\ pc = "wait"
    /\ \E n \in Len(buf) + 1 .. Len(text) : buf' = buf \o SubSeq(text, Len(buf) + 1, n)
    /\ pc' = "scan" /\ at' = 1 /\ ptr' = Null
    /\ UNCHANGED <<kind, text, verdict, given>>

(* The byte at which the loop of the parser of k is.                       *)
On(k, bytes) ==
    /\ pc = "scan" /\ kind = k
    /\ ptr.newline = 0 /\ at <= Len(buf) /\ buf[at] \in bytes

Move(p) ==
    /\ at' = at + 1 /\ ptr' = p
    /\ UNCHANGED <<kind, text, buf, pc, verdict, given>>

(* The bytes of a line that is rejected are not looked at again.           *)
Fail ==
    /\ pc' = "done" /\ verdict' = "error"
    /\ UNCHANGED <<kind, text, buf, at, ptr, given>>

Succeed(b, strings) ==
    /\ pc' = "done" /\ verdict' = "success"
    /\ buf' = b /\ given' = strings
    /\ UNCHANGED <<kind, text, at, ptr>>

(* The bytes end before the line does.                                     *)
Hungry ==
    /\ pc = "scan" /\ ptr.newline = 0 /\ at > Len(buf)
    /\ pc' = "wait" /\ verdict' = "hungry"
    /\ UNCHANGED <<kind, text, buf, at, ptr, given>>

-----------------------------------------------------------------------------
(* http_10_parse_request.                                                  *)

(* Mutant of RequestSpace: a target need not hold a path.                  *)
RequestSpace_no_path ==
    /\ On("request", {SP})
    /\ Move(IF ptr.method_end = 0 THEN [ptr EXCEPT !.method_end = at]
            ELSE IF ptr.uri_end = 0 THEN [ptr EXCEPT !.uri_end = at]
            ELSE ptr)

RequestSpace ==
    /\ On("request", {SP})
    /\ \/ ptr.method_end = 0 /\ Move([ptr EXCEPT !.method_end = at])
       \/ /\ ptr.method_end # 0 /\ ptr.path # 0 /\ ptr.uri_end = 0
          /\ Move([ptr EXCEPT !.uri_end = at])
       \/ ptr.method_end # 0 /\ (ptr.path = 0 \/ ptr.uri_end # 0) /\ Move(ptr)

(* The first colon in the target is taken for the one before "//host".     *)
RequestColon ==
    LET isHost == ptr.uri # 0 /\ ptr.host = 0
        isPort == ptr.host # 0 /\ ptr.port = 0 IN
    /\ On("request", {":"})
    /\ \/ isHost /\ Move([ptr EXCEPT !.host = at + 3])
       \/ isPort /\ Move([ptr EXCEPT !.port = at + 1])
       \/ ~isHost /\ ~isPort /\ ptr.version # 0 /\ Fail
       \/ ~isHost /\ ~isPort /\ ptr.version = 0 /\ Move(ptr)

RequestSlash ==
    LET isPath == ptr.path = 0 /\ at > ptr.host
        misplaced == ptr.version # 0 /\ at - ptr.version # VersionSlash IN
    /\ On("request", {"/"})
    /\ \/ isPath /\ Move([ptr EXCEPT !.path = at, !.uri = IF @ = 0 THEN at ELSE @])
       \/ ~isPath /\ misplaced /\ Fail
       \/ ~isPath /\ ~misplaced /\ Move(ptr)

(* Mutant of RequestQuestion: the query begins after the last one.         *)
RequestQuestion_last ==
    /\ On("request", {"?"})
    /\ Move([ptr EXCEPT !.query = at + 1])

RequestQuestion ==
    /\ On("request", {"?"})
    /\ \/ ptr.query = 0 /\ Move([ptr EXCEPT !.query = at + 1])
       \/ ptr.query # 0 /\ ptr.version # 0 /\ Fail
       \/ ptr.query # 0 /\ ptr.version = 0 /\ Move(ptr)

RequestNewline ==
    /\ On("request", {"\n"})
    /\ Move([ptr EXCEPT !.newline = at])

RequestReturn ==
    /\ On("request", {"\r"})
    /\ \/ ptr.version = 0 /\ Fail
       \/ ptr.version # 0 /\ Move(ptr)

RequestOther ==
    LET isUri == ptr.uri = 0 /\ ptr.method_end # 0
        isVersion == ptr.version = 0 /\ ptr.uri_end # 0
        tooLong == ptr.version # 0 /\ at - ptr.version > VersionLast IN
    /\ On("request", Others \cup {NUL})
    /\ \/ isUri /\ Move([ptr EXCEPT !.uri = at])
       \/ ~isUri /\ isVersion /\ Move([ptr EXCEPT !.version = at])
       \/ ~isUri /\ tooLong /\ Fail
       \/ ~isUri /\ ~isVersion /\ ~tooLong /\ Move(ptr)

(* The line is split: zeros end its parts.                                 *)
RequestParts ==
    Zeroed(buf, {ptr.method_end, ptr.newline, ptr.uri_end})

RequestComplete ==
    \A part \in {ptr.method_end, ptr.path, ptr.uri_end, ptr.version} : part # 0

(* Mutant of KnownMethod: only the bytes of the known name are compared.   *)
KnownMethod_prefix == \E m \in Methods : StartsAt(buf, 1, m)

KnownMethod == SubSeq(buf, 1, ptr.method_end - 1) \in Methods

KnownVersion == \E v \in Versions : StartsAt(RequestParts, ptr.version, v)

(* Mutant of AcceptedUri: the scheme is not looked at.                     *)
AcceptedUri_any == TRUE

(* "Not the one or not the other": no URI with a host passes.              *)
AcceptedUri ==
    ptr.host = 0 \/ (StartsAt(buf, ptr.uri, Http) /\ StartsAt(buf, ptr.uri, Https))

Accepted == RequestComplete /\ KnownMethod /\ KnownVersion /\ AcceptedUri

AtEnd(k) == pc = "scan" /\ kind = k /\ ptr.newline # 0

RequestRejected == AtEnd("request") /\ ~Accepted /\ Fail

RequestAccepted ==
    /\ AtEnd("request")
    /\ Accepted
    /\ LET b == IF ptr.query = 0 THEN RequestParts
                                 ELSE Zeroed(RequestParts, {ptr.query - 1})
           query == IF ptr.query = 0 THEN ptr.uri_end ELSE ptr.query IN
       Succeed(b, [path |-> String(b, ptr.path), query |-> String(b, query)])

-----------------------------------------------------------------------------
(* http_10_parse_header.                                                   *)

(* The value ends here, if it has begun and not ended yet.                 *)
ValueEnd == IF ptr.val # 0 /\ ptr.val_end = 0 THEN at ELSE ptr.val_end

HeaderSpace ==
    /\ On("header", {SP})
    /\ Move([ptr EXCEPT !.val_end = ValueEnd])

(* The check for a name that is missing compares NULL and never applies.   *)
HeaderColon ==
    /\ On("header", {":"})
    /\ Move([ptr EXCEPT !.colon = IF @ = 0 THEN at ELSE @])

HeaderNewline ==
    /\ On("header", {"\n"})
    /\ Move([ptr EXCEPT !.newline = at, !.val_end = ValueEnd])

HeaderReturn ==
    /\ On("header", {"\r"})
    /\ Move([ptr EXCEPT !.val_end = ValueEnd])

(* Mutant of HeaderOther: the first space ends the value for good.         *)
HeaderOther_first_word ==
    /\ On("header", Bytes \ {SP, ":", "\n", "\r"})
    /\ buf' = IF ptr.colon = 0 THEN [buf EXCEPT ![at] = Lower(@)] ELSE buf
    /\ ptr' = [ptr EXCEPT !.val = IF ptr.colon # 0 /\ @ = 0 THEN at ELSE @]
    /\ at' = at + 1
    /\ UNCHANGED <<kind, text, pc, verdict, given>>

(* A byte of the name is made lower case where it stands.                  *)
HeaderOther ==
    /\ On("header", Bytes \ {SP, ":", "\n", "\r"})
    /\ buf' = IF ptr.colon = 0 THEN [buf EXCEPT ![at] = Lower(@)] ELSE buf
    /\ ptr' = [ptr EXCEPT !.val = IF ptr.colon # 0 /\ @ = 0 THEN at ELSE @,
                          !.val_end = 0]
    /\ at' = at + 1
    /\ UNCHANGED <<kind, text, pc, verdict, given>>

HeaderComplete == ptr.colon # 0 /\ ptr.val # 0 /\ ptr.val_end # 0

BlankLine == ptr.newline = 1 \/ (ptr.newline = 2 /\ buf[1] = "\r")

HeaderAccepted ==
    /\ AtEnd("header") /\ HeaderComplete
    /\ LET b == Zeroed(buf, {ptr.colon, ptr.val_end}) IN
       Succeed(b, [key |-> String(b, 1), value |-> String(b, ptr.val)])

(* The blank line ends the headers.                                        *)
HeadersEnd ==
    /\ AtEnd("header") /\ ~HeaderComplete /\ BlankLine
    /\ Succeed(buf, <<>>)

HeaderRejected == AtEnd("header") /\ ~HeaderComplete /\ ~BlankLine /\ Fail

Done == pc = "done" /\ UNCHANGED vars

(* The peer has sent all and the line is not complete.                     *)
Starved == pc = "wait" /\ Len(buf) = Len(text) /\ UNCHANGED vars

Request == \/ RequestSpace \/ RequestColon \/ RequestSlash \/ RequestQuestion
           \/ RequestNewline \/ RequestReturn \/ RequestOther
           \/ RequestRejected \/ RequestAccepted

Header == \/ HeaderSpace \/ HeaderColon \/ HeaderNewline \/ HeaderReturn \/ HeaderOther
          \/ HeaderAccepted \/ HeadersEnd \/ HeaderRejected

Next == Receive \/ Request \/ Header \/ Hungry \/ Done \/ Starved

Spec == Init /\ [][Next]_vars

-----------------------------------------------------------------------------
(* Properties.                                                             *)

TypeOK ==
    /\ kind \in Kinds /\ text \in Seq(Bytes) /\ buf \in Seq(Bytes)
    /\ Len(buf) <= Len(text)
    /\ pc \in {"wait", "scan", "done"}
    /\ at \in 1 .. Len(buf) + 1
    /\ ptr \in Pointers
    /\ verdict \in {"hungry", "success", "error"}

(* While a line is scanned no pointer is ahead of the scan, the target     *)
(* ends after the method and after its path began, the version comes after *)
(* the target, and a value after its colon; each string handed to the      *)
(* application ends in the line.                                           *)
PointersOrdered ==
    /\ \A i \in {ptr.method_end, ptr.uri_end, ptr.path, ptr.version, ptr.newline,
                 ptr.colon, ptr.val, ptr.val_end} : i < at
    /\ ptr.query <= at
    /\ ptr.uri_end # 0 => /\ 0 < ptr.method_end /\ ptr.method_end < ptr.uri_end
                          /\ 0 < ptr.path /\ ptr.path < ptr.uri_end
    /\ ptr.version # 0 => 0 < ptr.uri_end /\ ptr.uri_end < ptr.version
    /\ ptr.val # 0 => 0 < ptr.colon /\ ptr.colon < ptr.val
    /\ ptr.val_end # 0 => 0 < ptr.val /\ ptr.val < ptr.val_end
    /\ verdict = "success" /\ given # <<>> =>
          \A i \in IF kind = "request"
                   THEN {ptr.path, IF ptr.query = 0 THEN ptr.uri_end ELSE ptr.query}
                   ELSE {1, ptr.val} :
             \E j \in i .. ptr.newline : buf[j] = NUL

(* In a request line that was accepted neither the path nor the query      *)
(* begins in the method, the path ends with the target at the latest, and  *)
(* a query that begins after the path has it end before.                   *)
PartsApart ==
    verdict = "success" /\ kind = "request" =>
        /\ ptr.method_end < ptr.path
        /\ ptr.path + Len(given.path) <= ptr.uri_end
        /\ ptr.query # 0 => ptr.method_end + 1 < ptr.query /\ ptr.query <= ptr.newline
        /\ ptr.path < ptr.query => ptr.path + Len(given.path) < ptr.query

(* Each part of a line is where it should be, as far as the code cares for *)
(* any line whatever.  It does not care for these: during the scan a path  *)
(* may begin inside the method ("g/x y"; such a line is rejected later), a *)
(* "?" may come before the path, whose bytes are then those of the query   *)
(* as well ("GET ?/ HTTP/1.1"), or after the target.                       *)
PartsInLine == PointersOrdered /\ PartsApart

(* A path that was accepted begins with "/" and holds no space, no colon   *)
(* and no byte of a line's end, whatever else was sent around it.  It may  *)
(* hold a "?" only if the line's first one came before the path: the code  *)
(* looks at no other, and "GET ?/?a HTTP/1.1" has the path "/?a".          *)
AcceptedPath ==
    verdict = "success" /\ kind = "request" =>
        /\ given.path # <<>> /\ given.path[1] = "/"
        /\ \A i \in 1 .. Len(given.path) :
              /\ given.path[i] \notin {SP, ":", "\n", "\r"}
              /\ given.path[i] = "?" => 0 < ptr.query /\ ptr.query <= ptr.path

(* The first line of text, with its end.                                   *)
FirstLine(n) == text[n] = "\n" /\ \A k \in 1 .. n - 1 : text[k] # "\n"

LineEnds == {<<"\n">>, <<"\r", "\n">>}

(* A method, a target of the form path?query without a colon, a version.   *)
IsRequest(i, j, n) ==
    /\ i < j /\ j < n
    /\ FirstLine(n)
    /\ text[i] = SP /\ text[j] = SP
    /\ SubSeq(text, 1, i - 1) \in Methods
    /\ i + 1 < j /\ text[i + 1] = "/"
    /\ \A k \in i + 1 .. j - 1 : text[k] \in Others \cup {"/", "?"}
    /\ \E v \in Versions, e \in LineEnds : SubSeq(text, j + 1, n) = v \o e

(* Where the query of the target in line begins; its end if there is none. *)
QueryAt(line, i, j) ==
    IF \E k \in i .. j : line[k] = "?"
    THEN (CHOOSE k \in i .. j : line[k] = "?" /\ \A l \in i .. k - 1 : line[l] # "?") + 1
    ELSE j + 1

(* A request line of the documented form is read as it was meant, however  *)
(* the peer's segments cut it: never rejected, and, when all of it is      *)
(* there, split into its path and its query.  (Targets that hold a colon   *)
(* are left out: the code takes the first for that before a host.)         *)
RequestRead ==
    kind = "request" /\ pc # "scan" =>
      \A n, i, j \in 1 .. Len(text) :
        IsRequest(i, j, n) =>
            /\ verdict # "error"
            /\ pc = "wait" => Len(buf) < n
            /\ verdict = "success" =>
                  /\ at = n + 1
                  /\ given = [path |-> SubSeq(text, i + 1, QueryAt(text, i, j) - 2),
                              query |-> SubSeq(text, QueryAt(text, i, j), j - 1)]

(* A name, a colon, and a value between spaces, which may hold colons but  *)
(* neither begins nor ends with one.                                       *)
IsHeader(c, i, j, n) ==
    LET plain(k) == text[k] \notin {SP, ":", "\n", "\r", NUL} IN
    /\ 1 < c /\ c < i /\ i <= j /\ j < n
    /\ FirstLine(n)
    /\ \A k \in 1 .. c - 1 : plain(k)
    /\ text[c] = ":"
    /\ \A k \in c + 1 .. i - 1 : text[k] = SP
    /\ plain(i) /\ plain(j)
    /\ \A k \in i .. j : text[k] \notin {"\r", NUL}
    /\ \A k \in j + 1 .. n - 1 : text[k] = SP \/ (text[k] = "\r" /\ k = n - 1)

(* The same for a header: its name is delivered in lower case and its      *)
(* value without the spaces around it, though the name was changed in      *)
(* place by every earlier attempt.  (A colon before the value, or after a  *)
(* space at its end, is dropped by the code: "a: x :" gives "x".  So       *)
(* IsHeader leaves out values with a colon at either end.)                 *)
HeaderRead ==
    kind = "header" /\ pc # "scan" =>
      \A n, c, i, j \in 1 .. Len(text) :
        IsHeader(c, i, j, n) =>
            /\ verdict # "error"
            /\ pc = "wait" => Len(buf) < n
            /\ verdict = "success" =>
                  /\ at = n + 1
                  /\ given = [key |-> [k \in 1 .. c - 1 |-> Lower(text[k])],
                              value |-> SubSeq(text, i, j)]

(* What comments say and the code does not do.                             *)

(* http.c shows how the data are split by the request line                 *)
(*   GET http://lowenware.com:80/index.html?param=value HTTP/1.1           *)
(* so a URI with a scheme and a host is accepted.                          *)
IsAbsolute(i, j, n) ==
    /\ SubSeq(text, 1, i - 1) \in Methods
    /\ text[i] = SP /\ text[j] = SP
    /\ StartsAt(text, i + 1, Http)
    /\ \E k \in i + Len(Http) + 2 .. j - 1 : text[k] = "/"
    /\ \A k \in i + Len(Http) + 1 .. j - 1 : text[k] \in Others \cup {"/"}
    /\ \E v \in Versions, e \in LineEnds : SubSeq(text, j + 1, n) = v \o e

AbsoluteUriAccepted ==
    kind = "request" /\ pc = "done" =>
      \A n, i, j \in 1 .. Len(text) :
        FirstLine(n) /\ i < j /\ j < n /\ IsAbsolute(i, j, n) => verdict # "error"
=============================================================================
