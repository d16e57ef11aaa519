-------------------------- MODULE HttpParserProofs --------------------------
(***************************************************************************)
(* Proofs about HttpParser, for any bytes, methods and versions and        *)
(* whatever the peer sends: the parts of a line are where they should be,  *)
(* a path that is accepted holds no byte that ends it, and lines of the    *)
(* documented form are read as they were meant, however they were cut.     *)
(***************************************************************************)
EXTENDS HttpParser, SequenceTheorems, NaturalsInduction, WellFoundedInduction, TLAPS

(* A scan has no verdict yet; its newline is the byte before.              *)
ScanInv ==
    /\ pc # "done" => verdict = "hungry" /\ given = <<>>
    /\ pc = "wait" => ptr.newline = 0
    /\ ptr.newline # 0 => at = ptr.newline + 1 /\ ptr.query <= ptr.newline

(* The bytes at the pointers of a request line, the query after the first  *)
(* "?", and what is not between the path and its end: a space, unless the  *)
(* path began before the method ended, a colon, unless it was taken for a  *)
(* host's, and the line's end.                                             *)
RequestBytes ==
    kind = "request" /\ pc # "done" =>
        /\ ptr.method_end # 0 => buf[ptr.method_end] = SP
        /\ ptr.uri_end # 0 => buf[ptr.uri_end] = SP
        /\ ptr.path # 0 => buf[ptr.path] = "/" /\ ptr.uri # 0
        /\ ptr.query # 0 => ptr.query > 1 /\ buf[ptr.query - 1] = "?"
        /\ ptr.newline # 0 => buf[ptr.newline] = "\n"
        /\ \A k \in 1 .. at - 1 :
              /\ buf[k] = "\n" => k = ptr.newline
              /\ buf[k] = "\r" => ptr.version # 0 /\ ptr.version < k
              /\ buf[k] = "?" => ptr.query # 0 /\ ptr.query - 1 <= k
              /\ buf[k] = ":" /\ ptr.host = 0 => k < ptr.path \/ ptr.path = 0
              /\ buf[k] = SP /\ 0 < ptr.method_end /\ ptr.method_end < ptr.path /\ ptr.path < k =>
                    ptr.uri_end # 0 /\ ptr.uri_end <= k

ParserInv == TypeOK /\ PointersOrdered /\ ScanInv /\ RequestBytes

-----------------------------------------------------------------------------
(* The scanners of a request line, one byte a step.                        *)

(* A byte that is looked at is one of the line.                            *)
LEMMA OnByte ==
    ASSUME NEW k, NEW bytes, TypeOK, On(k, bytes)
    PROVE  at \in 1 .. Len(buf) /\ buf[at] \in bytes /\ kind = k /\ pc = "scan"
BY DEF TypeOK, On

(* What the types say of the numbers of a scan.                            *)
LEMMA ScanTyped ==
    ASSUME TypeOK
    PROVE  /\ ptr \in Pointers /\ buf \in Seq(Bytes) /\ Len(buf) \in Nat
           /\ at \in Nat /\ 1 <= at /\ at <= Len(buf) + 1
<1>1. ptr \in Pointers /\ buf \in Seq(Bytes)
  BY DEF TypeOK
<1>2. Len(buf) \in Nat
  BY <1>1, LenProperties
<1> QED BY <1>1, <1>2 DEF TypeOK

(* A scan that moves on changes its place and its pointers.                *)
LEMMA MoveTyped ==
    ASSUME TypeOK, at <= Len(buf), NEW p \in Pointers, Move(p)
    PROVE  TypeOK' /\ ptr' = p /\ at' = at + 1 /\ buf' = buf /\ kind' = kind /\ pc' = pc
           /\ verdict' = verdict /\ given' = given
<1>1. ptr' = p /\ at' = at + 1 /\ buf' = buf /\ kind' = kind /\ pc' = pc
      /\ verdict' = verdict /\ given' = given /\ text' = text
  BY DEF Move
<1>2. at' \in 1 .. Len(buf) + 1
  BY <1>1, ScanTyped
<1> QED BY <1>1, <1>2 DEF TypeOK

(* What the pointers of a request line may become at one byte: each is     *)
(* set once, by its own byte, and a byte with a meaning sets one unless    *)
(* the line is past the place for it.                                      *)
RequestMove(p) ==
    /\ \/ p.method_end = ptr.method_end
       \/ ptr.method_end = 0 /\ p.method_end = at /\ buf[at] = SP
    /\ \/ p.uri_end = ptr.uri_end
       \/ ptr.uri_end = 0 /\ ptr.method_end # 0 /\ ptr.path # 0 /\ p.uri_end = at /\ buf[at] = SP
    /\ \/ p.path = ptr.path
       \/ ptr.path = 0 /\ p.path = at /\ p.uri # 0 /\ buf[at] = "/"
    /\ \/ p.version = ptr.version
       \/ ptr.version = 0 /\ ptr.uri_end # 0 /\ p.version = at /\ buf[at] \notin Special
    /\ \/ p.query = ptr.query
       \/ ptr.query = 0 /\ p.query = at + 1 /\ buf[at] = "?"
    /\ IF buf[at] = "\n" THEN p.newline = at ELSE p.newline = 0
    /\ ptr.uri # 0 => p.uri # 0
    /\ ptr.host # 0 => p.host # 0
    /\ p.colon = ptr.colon /\ p.val = ptr.val /\ p.val_end = ptr.val_end
    /\ buf[at] = "\r" => ptr.version # 0
    /\ buf[at] = ":" => p.host # 0 \/ ptr.uri = 0
    /\ buf[at] = "?" => p.query # 0
    /\ buf[at] = SP => ptr.method_end = 0 \/ ptr.path = 0 \/ p.uri_end # 0

(* Such a move keeps the invariant.                                        *)
LEMMA RequestMoveKept ==
    ASSUME ParserInv, pc = "scan", kind = "request", ptr.newline = 0, at <= Len(buf),
           NEW p \in Pointers, Move(p), RequestMove(p)
    PROVE  ParserInv'
<1>1. /\ ptr \in Pointers /\ at \in Nat /\ at >= 1 /\ Len(buf) \in Nat
      /\ TypeOK /\ PointersOrdered /\ ScanInv /\ RequestBytes
  BY ScanTyped DEF ParserInv
<1>2. TypeOK' /\ ptr' = p /\ at' = at + 1 /\ buf' = buf /\ kind' = kind /\ pc' = pc
           /\ verdict' = verdict /\ given' = given
  BY <1>1, MoveTyped
<1>3. /\ ptr.method_end \in Nat /\ ptr.uri_end \in Nat /\ ptr.path \in Nat /\ ptr.version \in Nat
      /\ ptr.query \in Nat /\ ptr.newline \in Nat /\ ptr.colon \in Nat /\ ptr.val \in Nat
      /\ ptr.val_end \in Nat /\ ptr.uri \in Nat /\ ptr.host \in Nat
  BY <1>1 DEF Pointers
<1>4. /\ p.method_end \in Nat /\ p.uri_end \in Nat /\ p.path \in Nat /\ p.version \in Nat
      /\ p.query \in Nat /\ p.newline \in Nat /\ p.colon \in Nat /\ p.val \in Nat
      /\ p.val_end \in Nat /\ p.uri \in Nat /\ p.host \in Nat
  BY DEF Pointers
<1> DEFINE c == buf[at]
<1>5. /\ p.method_end = ptr.method_end \/ (ptr.method_end = 0 /\ p.method_end = at /\ c = SP)
      /\ \/ p.uri_end = ptr.uri_end
         \/ ptr.uri_end = 0 /\ ptr.method_end # 0 /\ ptr.path # 0 /\ p.uri_end = at /\ c = SP
      /\ p.path = ptr.path \/ (ptr.path = 0 /\ p.path = at /\ p.uri # 0 /\ c = "/")
      /\ \/ p.version = ptr.version
         \/ ptr.version = 0 /\ ptr.uri_end # 0 /\ p.version = at /\ c \notin Special
      /\ p.query = ptr.query \/ (ptr.query = 0 /\ p.query = at + 1 /\ c = "?")
      /\ c = "\n" => p.newline = at
      /\ c # "\n" => p.newline = 0
      /\ p.colon = ptr.colon /\ p.val = ptr.val /\ p.val_end = ptr.val_end
      /\ ptr.uri # 0 => p.uri # 0
      /\ ptr.host # 0 => p.host # 0
      /\ c = "\r" => ptr.version # 0
      /\ c = ":" => p.host # 0 \/ ptr.uri = 0
      /\ c = "?" => p.query # 0
      /\ c = SP => ptr.method_end = 0 \/ ptr.path = 0 \/ p.uri_end # 0
  BY DEF RequestMove
<1>6. /\ ptr.method_end < at /\ ptr.uri_end < at /\ ptr.path < at /\ ptr.version < at
      /\ ptr.colon < at /\ ptr.val < at /\ ptr.val_end < at /\ ptr.query <= at
      /\ ptr.uri_end # 0 => /\ 0 < ptr.method_end /\ ptr.method_end < ptr.uri_end
                            /\ 0 < ptr.path /\ ptr.path < ptr.uri_end
      /\ ptr.version # 0 => 0 < ptr.uri_end /\ ptr.uri_end < ptr.version
      /\ ptr.val # 0 => 0 < ptr.colon /\ ptr.colon < ptr.val
      /\ ptr.val_end # 0 => 0 < ptr.val /\ ptr.val < ptr.val_end
  BY <1>1 DEF PointersOrdered
<1>7. /\ ptr.method_end # 0 => buf[ptr.method_end] = SP
      /\ ptr.uri_end # 0 => buf[ptr.uri_end] = SP
      /\ ptr.path # 0 => buf[ptr.path] = "/" /\ ptr.uri # 0
      /\ ptr.query # 0 => ptr.query > 1 /\ buf[ptr.query - 1] = "?"
  BY <1>1 DEF RequestBytes
<1>8. PointersOrdered'
  <2>2. /\ p.method_end < at + 1 /\ p.uri_end < at + 1 /\ p.path < at + 1 /\ p.version < at + 1
        /\ p.colon < at + 1 /\ p.val < at + 1 /\ p.val_end < at + 1 /\ p.newline < at + 1
        /\ p.query <= at + 1
    <3>1. /\ p.method_end < at + 1 /\ p.uri_end < at + 1 /\ p.path < at + 1
          /\ p.version < at + 1
      BY SMTT(30), <1>1, <1>3, <1>4, <1>5, <1>6
    <3>2. p.query <= at + 1 /\ p.newline < at + 1
      BY SMTT(30), <1>1, <1>3, <1>4, <1>5, <1>6
    <3>3. p.colon < at + 1 /\ p.val < at + 1 /\ p.val_end < at + 1
      BY <1>1, <1>3, <1>5, <1>6
    <3> QED BY <3>1, <3>2, <3>3
  <2>3. p.uri_end # 0 => /\ 0 < p.method_end /\ p.method_end < p.uri_end
                         /\ 0 < p.path /\ p.path < p.uri_end
    BY SMTT(30), <1>1, <1>3, <1>4, <1>5, <1>6
  <2>4. p.version # 0 => 0 < p.uri_end /\ p.uri_end < p.version
    BY <1>1, <1>3, <1>4, <1>5, <1>6
  <2>5. /\ p.val # 0 => 0 < p.colon /\ p.colon < p.val
        /\ p.val_end # 0 => 0 < p.val /\ p.val < p.val_end
    BY <1>5, <1>6
  <2>6. verdict' # "success"
    BY <1>1, <1>2 DEF ScanInv
  <2> QED BY <1>2, <2>2, <2>3, <2>4, <2>5, <2>6 DEF PointersOrdered
<1>9. ScanInv'
  BY <1>1, <1>2, <1>3, <1>4, <1>5, <1>6 DEF ScanInv
<1>10. RequestBytes'
  <2>3. /\ p.method_end # 0 => buf[p.method_end] = SP
        /\ p.uri_end # 0 => buf[p.uri_end] = SP
        /\ p.path # 0 => buf[p.path] = "/" /\ p.uri # 0
        /\ p.query # 0 => p.query > 1 /\ buf[p.query - 1] = "?"
        /\ p.newline # 0 => buf[p.newline] = "\n"
    BY SMTT(30), <1>1, <1>3, <1>4, <1>5, <1>7
  <2>4. ASSUME NEW k \in 1 .. at
        PROVE  /\ buf[k] = "\n" => k = p.newline
               /\ buf[k] = "\r" => p.version # 0 /\ p.version < k
               /\ buf[k] = "?" => p.query # 0 /\ p.query - 1 <= k
               /\ buf[k] = ":" /\ p.host = 0 => k < p.path \/ p.path = 0
               /\ buf[k] = SP /\ 0 < p.method_end /\ p.method_end < p.path /\ p.path < k =>
                     p.uri_end # 0 /\ p.uri_end <= k
    <3>1. CASE k = at
      BY SMTT(30), <3>1, <1>1, <1>3, <1>4, <1>5, <1>6, <1>7
    <3>2. CASE k # at
      <4>1. k \in 1 .. at - 1
        BY <3>2, <1>1
      <4>2. /\ buf[k] # "\n"
            /\ buf[k] = "\r" => ptr.version # 0 /\ ptr.version < k
            /\ buf[k] = "?" => ptr.query # 0 /\ ptr.query - 1 <= k
            /\ buf[k] = ":" /\ ptr.host = 0 => k < ptr.path \/ ptr.path = 0
            /\ buf[k] = SP /\ 0 < ptr.method_end /\ ptr.method_end < ptr.path /\ ptr.path < k =>
                  ptr.uri_end # 0 /\ ptr.uri_end <= k
        BY <4>1, <1>1 DEF RequestBytes
      <4> QED BY SMTT(30), <4>1, <4>2, <1>1, <1>3, <1>4, <1>5, <1>6
    <3> QED BY <3>1, <3>2
  <2>5. 1 .. at' - 1 = 1 .. at
    BY <1>1, <1>2
  <2> QED BY <1>2, <2>3, <2>4, <2>5 DEF RequestBytes
<1> QED BY <1>2, <1>8, <1>9, <1>10 DEF ParserInv

(* The byte of a step of the request's scanner.                            *)
LEMMA RequestByte ==
    ASSUME NEW bytes, TypeOK, On("request", bytes)
    PROVE  /\ pc = "scan" /\ kind = "request" /\ ptr.newline = 0
           /\ at \in Nat /\ 1 <= at /\ at <= Len(buf) /\ buf[at] \in bytes
           /\ ptr \in Pointers
BY ScanTyped DEF On

(* Every byte of a request line makes such a move, or ends the scan.       *)
LEMMA SpaceMoves ==
    ASSUME ParserInv, RequestSpace PROVE Fail \/ \E p \in Pointers : Move(p) /\ RequestMove(p)
<1>1. TypeOK /\ On("request", {SP})
  BY DEF ParserInv, RequestSpace
<1>2. /\ at \in Nat /\ at >= 1 /\ buf[at] = SP /\ ptr \in Pointers /\ ptr.newline = 0
  BY <1>1, RequestByte
<1>3. SP \notin {"\n", "\r", ":", "/", "?"}
  BY Zenon DEF SP
<1>4. CASE ptr.method_end = 0 /\ Move([ptr EXCEPT !.method_end = at])
  <2> DEFINE p == [ptr EXCEPT !.method_end = at]
  <2>1. p \in Pointers
    BY <1>2 DEF Pointers
  <2>2. RequestMove(p)
    BY <1>2, <1>3, <1>4 DEF RequestMove, Pointers
  <2> QED BY <1>4, <2>1, <2>2
<1>5. CASE /\ ptr.method_end # 0 /\ ptr.path # 0 /\ ptr.uri_end = 0
           /\ Move([ptr EXCEPT !.uri_end = at])
  <2> DEFINE p == [ptr EXCEPT !.uri_end = at]
  <2>1. p \in Pointers
    BY <1>2 DEF Pointers
  <2>2. RequestMove(p)
    BY <1>2, <1>3, <1>5 DEF RequestMove, Pointers
  <2> QED BY <1>5, <2>1, <2>2
<1>6. CASE ptr.method_end # 0 /\ (ptr.path = 0 \/ ptr.uri_end # 0) /\ Move(ptr)
  <2>1. RequestMove(ptr)
    BY <1>2, <1>3, <1>6 DEF RequestMove, Pointers
  <2> QED BY <1>2, <1>6, <2>1
<1> QED BY <1>4, <1>5, <1>6 DEF RequestSpace
(* At a colon the request line fails or moves one pointer forward. *)
LEMMA ColonMoves ==
    ASSUME ParserInv, RequestColon PROVE Fail \/ \E p \in Pointers : Move(p) /\ RequestMove(p)
<1>1. TypeOK /\ On("request", {":"})
  BY DEF ParserInv, RequestColon
<1>2. /\ at \in Nat /\ at >= 1 /\ buf[at] = ":" /\ ptr \in Pointers /\ ptr.newline = 0
  BY <1>1, RequestByte
<1>3. SP \notin {"\n", "\r", ":", "/", "?"}
  BY Zenon DEF SP
<1>4. CASE ptr.uri # 0 /\ ptr.host = 0 /\ Move([ptr EXCEPT !.host = at + 3])
  <2> DEFINE p == [ptr EXCEPT !.host = at + 3]
  <2>1. p \in Pointers
    BY <1>2 DEF Pointers
  <2>2. RequestMove(p)
    BY <1>2, <1>3, <1>4 DEF RequestMove, Pointers
  <2> QED BY <1>4, <2>1, <2>2
<1>5. CASE ptr.host # 0 /\ ptr.port = 0 /\ Move([ptr EXCEPT !.port = at + 1])
  <2> DEFINE p == [ptr EXCEPT !.port = at + 1]
  <2>1. p \in Pointers
    BY <1>2 DEF Pointers
  <2>2. RequestMove(p)
    BY <1>2, <1>3, <1>5 DEF RequestMove, Pointers
  <2> QED BY <1>5, <2>1, <2>2
<1>6. CASE ~(ptr.uri # 0 /\ ptr.host = 0) /\ Move(ptr)
  <2>1. RequestMove(ptr)
    BY <1>2, <1>3, <1>6 DEF RequestMove, Pointers
  <2> QED BY <1>2, <1>6, <2>1
<1> QED BY <1>4, <1>5, <1>6 DEF RequestColon

(* At a slash the request line fails or moves one pointer forward. *)
LEMMA SlashMoves ==
    ASSUME ParserInv, RequestSlash PROVE Fail \/ \E p \in Pointers : Move(p) /\ RequestMove(p)
<1>1. TypeOK /\ On("request", {"/"})
  BY DEF ParserInv, RequestSlash
<1>2. /\ at \in Nat /\ at >= 1 /\ buf[at] = "/" /\ ptr \in Pointers /\ ptr.newline = 0
  BY <1>1, RequestByte
<1>3. SP \notin {"\n", "\r", ":", "/", "?"}
  BY Zenon DEF SP
<1>4. CASE ptr.path = 0 /\ Move([ptr EXCEPT !.path = at, !.uri = IF @ = 0 THEN at ELSE @])
  <2> DEFINE p == [ptr EXCEPT !.path = at, !.uri = IF @ = 0 THEN at ELSE @]
  <2>1. p \in Pointers
    BY <1>2 DEF Pointers
  <2>2. RequestMove(p)
    BY <1>2, <1>3, <1>4 DEF RequestMove, Pointers
  <2> QED BY <1>4, <2>1, <2>2
<1>5. CASE Move(ptr)
  <2>1. RequestMove(ptr)
    BY <1>2, <1>3, <1>5 DEF RequestMove, Pointers
  <2> QED BY <1>2, <1>5, <2>1
<1> QED BY <1>4, <1>5 DEF RequestSlash

(* At a question mark the request line fails or moves one pointer forward. *)
LEMMA QuestionMoves ==
    ASSUME ParserInv, RequestQuestion PROVE Fail \/ \E p \in Pointers : Move(p) /\ RequestMove(p)
<1>1. TypeOK /\ On("request", {"?"})
  BY DEF ParserInv, RequestQuestion
<1>2. /\ at \in Nat /\ at >= 1 /\ buf[at] = "?" /\ ptr \in Pointers /\ ptr.newline = 0
  BY <1>1, RequestByte
<1>3. SP \notin {"\n", "\r", ":", "/", "?"}
  BY Zenon DEF SP
<1>4. CASE ptr.query = 0 /\ Move([ptr EXCEPT !.query = at + 1])
  <2> DEFINE p == [ptr EXCEPT !.query = at + 1]
  <2>1. p \in Pointers
    BY <1>2 DEF Pointers
  <2>2. RequestMove(p)
    BY <1>2, <1>3, <1>4 DEF RequestMove, Pointers
  <2> QED BY <1>4, <2>1, <2>2
<1>5. CASE ptr.query # 0 /\ Move(ptr)
  <2>1. RequestMove(ptr)
    BY <1>2, <1>3, <1>5 DEF RequestMove, Pointers
  <2> QED BY <1>2, <1>5, <2>1
<1> QED BY <1>4, <1>5 DEF RequestQuestion

(* At the end of the line the request line fails or moves one pointer
   forward. *)
LEMMA NewlineMoves ==
    ASSUME ParserInv, RequestNewline PROVE Fail \/ \E p \in Pointers : Move(p) /\ RequestMove(p)
<1>1. TypeOK /\ On("request", {"\n"})
  BY DEF ParserInv, RequestNewline
<1>2. /\ at \in Nat /\ at >= 1 /\ buf[at] = "\n" /\ ptr \in Pointers /\ ptr.newline = 0
  BY <1>1, RequestByte
<1>3. SP \notin {"\n", "\r", ":", "/", "?"}
  BY Zenon DEF SP
<1>4. CASE Move([ptr EXCEPT !.newline = at])
  <2> DEFINE p == [ptr EXCEPT !.newline = at]
  <2>1. p \in Pointers
    BY <1>2 DEF Pointers
  <2>2. RequestMove(p)
    BY <1>2, <1>3, <1>4 DEF RequestMove, Pointers
  <2> QED BY <1>4, <2>1, <2>2
<1> QED BY <1>4 DEF RequestNewline

(* At a carriage return the request line fails or moves one pointer
   forward. *)
LEMMA ReturnMoves ==
    ASSUME ParserInv, RequestReturn PROVE Fail \/ \E p \in Pointers : Move(p) /\ RequestMove(p)
<1>1. TypeOK /\ On("request", {"\r"})
  BY DEF ParserInv, RequestReturn
<1>2. /\ at \in Nat /\ at >= 1 /\ buf[at] = "\r" /\ ptr \in Pointers /\ ptr.newline = 0
  BY <1>1, RequestByte
<1>3. SP \notin {"\n", "\r", ":", "/", "?"}
  BY Zenon DEF SP
<1>4. CASE ptr.version # 0 /\ Move(ptr)
  <2>1. RequestMove(ptr)
    BY <1>2, <1>3, <1>4 DEF RequestMove, Pointers
  <2> QED BY <1>2, <1>4, <2>1
<1> QED BY <1>4 DEF RequestReturn

(* At any other byte the request line fails or moves one pointer forward. *)
LEMMA OtherMoves ==
    ASSUME ParserInv, RequestOther PROVE Fail \/ \E p \in Pointers : Move(p) /\ RequestMove(p)
<1>1. TypeOK /\ On("request", Others \cup {NUL})
  BY DEF ParserInv, RequestOther
<1>2. /\ at \in Nat /\ at >= 1 /\ buf[at] \in Others \cup {NUL} /\ ptr \in Pointers /\ ptr.newline = 0
  BY <1>1, RequestByte
<1>3. buf[at] \notin Special
  <2>1. NUL \notin Special
    BY Zenon DEF NUL, Special, SP
  <2> QED BY <1>2, <2>1, ParserAssumption
<1>4. buf[at] \notin {SP, "\n", "\r", ":", "/", "?"}
  BY <1>3 DEF Special
<1>5. CASE ptr.uri = 0 /\ Move([ptr EXCEPT !.uri = at])
  <2> DEFINE p == [ptr EXCEPT !.uri = at]
  <2>1. p \in Pointers
    BY <1>2 DEF Pointers
  <2>2. RequestMove(p)
    BY <1>2, <1>3, <1>5, <1>4 DEF RequestMove, Pointers
  <2> QED BY <1>5, <2>1, <2>2
<1>6. CASE ptr.version = 0 /\ ptr.uri_end # 0 /\ Move([ptr EXCEPT !.version = at])
  <2> DEFINE p == [ptr EXCEPT !.version = at]
  <2>1. p \in Pointers
    BY <1>2 DEF Pointers
  <2>2. RequestMove(p)
    BY <1>2, <1>3, <1>6, <1>4 DEF RequestMove, Pointers
  <2> QED BY <1>6, <2>1, <2>2
<1>7. CASE Move(ptr)
  <2>1. RequestMove(ptr)
    BY <1>2, <1>3, <1>7, <1>4 DEF RequestMove, Pointers
  <2> QED BY <1>2, <1>7, <2>1
<1> QED BY <1>5, <1>6, <1>7 DEF RequestOther
-----------------------------------------------------------------------------
(* The scanner of a header line.                                           *)

(* What its pointers may become at one byte: the value begins after a      *)
(* colon, and its end is after its beginning, or forgotten.                *)
HeaderMove(p) ==
    /\ p.method_end = ptr.method_end /\ p.uri_end = ptr.uri_end /\ p.path = ptr.path
    /\ p.version = ptr.version /\ p.query = ptr.query
    /\ p.newline = 0 \/ p.newline = at
    /\ p.colon = ptr.colon \/ (ptr.colon = 0 /\ p.colon = at)
    /\ p.val = ptr.val \/ (ptr.val = 0 /\ ptr.colon # 0 /\ p.colon = ptr.colon /\ p.val = at)
    /\ \/ p.val_end = 0
       \/ p.val_end = ptr.val_end
       \/ ptr.val # 0 /\ p.val_end = at /\ p.val = ptr.val

(* The scan of a header moves, and may rewrite the byte it is at.          *)
HeaderStep(p) ==
    /\ at' = at + 1 /\ ptr' = p
    /\ buf' \in Seq(Bytes) /\ Len(buf') = Len(buf)
    /\ UNCHANGED <<kind, text, pc, verdict, given>>

(* Such a move keeps the invariant.                                        *)
LEMMA HeaderMoveKept ==
    ASSUME ParserInv, pc = "scan", kind = "header", ptr.newline = 0, at <= Len(buf),
           NEW p \in Pointers, HeaderStep(p), HeaderMove(p)
    PROVE  ParserInv'
<1>1. /\ ptr \in Pointers /\ at \in Nat /\ at >= 1 /\ Len(buf) \in Nat
      /\ TypeOK /\ PointersOrdered /\ ScanInv
  BY ScanTyped DEF ParserInv
<1>2. /\ ptr' = p /\ at' = at + 1 /\ kind' = kind /\ pc' = pc /\ Len(buf') = Len(buf)
      /\ verdict' = verdict /\ given' = given /\ text' = text /\ buf' \in Seq(Bytes)
  BY DEF HeaderStep
<1>3. TypeOK'
  <2>1. at' \in 1 .. Len(buf') + 1
    BY <1>1, <1>2
  <2> QED BY <1>1, <1>2, <2>1 DEF TypeOK
<1>4. /\ ptr.colon \in Nat /\ ptr.val \in Nat /\ ptr.val_end \in Nat /\ ptr.newline \in Nat
      /\ p.colon \in Nat /\ p.val \in Nat /\ p.val_end \in Nat /\ p.newline \in Nat
      /\ ptr.method_end \in Nat /\ ptr.uri_end \in Nat /\ ptr.path \in Nat
      /\ ptr.version \in Nat /\ ptr.query \in Nat
  BY <1>1 DEF Pointers
<1>5. /\ ptr.method_end < at /\ ptr.uri_end < at /\ ptr.path < at /\ ptr.version < at
      /\ ptr.colon < at /\ ptr.val < at /\ ptr.val_end < at /\ ptr.query <= at
      /\ ptr.uri_end # 0 => /\ 0 < ptr.method_end /\ ptr.method_end < ptr.uri_end
                            /\ 0 < ptr.path /\ ptr.path < ptr.uri_end
      /\ ptr.version # 0 => 0 < ptr.uri_end /\ ptr.uri_end < ptr.version
      /\ ptr.val # 0 => 0 < ptr.colon /\ ptr.colon < ptr.val
      /\ ptr.val_end # 0 => 0 < ptr.val /\ ptr.val < ptr.val_end
  BY <1>1 DEF PointersOrdered
<1>6. /\ p.colon < at + 1 /\ p.val < at + 1 /\ p.val_end < at + 1 /\ p.newline < at + 1
      /\ p.val # 0 => 0 < p.colon /\ p.colon < p.val
      /\ p.val_end # 0 => 0 < p.val /\ p.val < p.val_end
  BY SMTT(30), <1>1, <1>4, <1>5 DEF HeaderMove
<1>7. /\ p.method_end = ptr.method_end /\ p.uri_end = ptr.uri_end /\ p.path = ptr.path
      /\ p.version = ptr.version /\ p.query = ptr.query
  BY DEF HeaderMove
<1>8. verdict' # "success"
  BY <1>1, <1>2 DEF ScanInv
<1>9. PointersOrdered'
  <2>1. /\ p.method_end < at + 1 /\ p.uri_end < at + 1 /\ p.path < at + 1 /\ p.version < at + 1
        /\ p.query <= at + 1
    BY SMTT(30), <1>1, <1>4, <1>5, <1>7
  <2>2. /\ p.uri_end # 0 => /\ 0 < p.method_end /\ p.method_end < p.uri_end
                             /\ 0 < p.path /\ p.path < p.uri_end
        /\ p.version # 0 => 0 < p.uri_end /\ p.uri_end < p.version
    BY <1>5, <1>7
  <2> QED BY <1>2, <1>6, <1>8, <2>1, <2>2 DEF PointersOrdered
<1>10. ScanInv'
  <2>1. p.newline # 0 => p.newline = at /\ p.query <= p.newline
    BY <1>1, <1>4, <1>5, <1>7 DEF HeaderMove
  <2> QED BY <1>1, <1>2, <1>4, <2>1 DEF ScanInv
<1>11. RequestBytes'
  BY <1>2 DEF RequestBytes
<1> QED BY <1>3, <1>9, <1>10, <1>11 DEF ParserInv

(* Every byte of a header line makes such a move.                          *)
LEMMA HeaderMoves ==
    ASSUME ParserInv, HeaderSpace \/ HeaderColon \/ HeaderNewline \/ HeaderReturn \/ HeaderOther
    PROVE  /\ pc = "scan" /\ kind = "header" /\ ptr.newline = 0 /\ at <= Len(buf)
           /\ \E p \in Pointers : HeaderStep(p) /\ HeaderMove(p)
<1>1. TypeOK
  BY DEF ParserInv
<1>2. /\ ptr \in Pointers /\ buf \in Seq(Bytes) /\ Len(buf) \in Nat /\ at \in Nat /\ at >= 1
  BY <1>1, ScanTyped
<1>3. /\ pc = "scan" /\ kind = "header" /\ ptr.newline = 0 /\ at <= Len(buf)
  BY DEF HeaderSpace, HeaderColon, HeaderNewline, HeaderReturn, HeaderOther, On
<1>4. ValueEnd \in Nat /\ (ValueEnd = ptr.val_end \/ (ptr.val # 0 /\ ValueEnd = at))
  BY <1>2 DEF ValueEnd, Pointers
<1>5. ASSUME NEW p, Move(p) PROVE HeaderStep(p)
  BY <1>2, <1>5 DEF Move, HeaderStep
<1>6. CASE HeaderSpace \/ HeaderReturn
  <2> DEFINE p == [ptr EXCEPT !.val_end = ValueEnd]
  <2>1. p \in Pointers /\ HeaderMove(p)
    BY <1>2, <1>3, <1>4 DEF Pointers, HeaderMove
  <2>2. Move(p)
    BY <1>6 DEF HeaderSpace, HeaderReturn
  <2> QED BY <1>3, <1>5, <2>1, <2>2
<1>7. CASE HeaderColon
  <2> DEFINE p == [ptr EXCEPT !.colon = IF @ = 0 THEN at ELSE @]
  <2>1. p \in Pointers /\ HeaderMove(p)
    BY <1>2, <1>3 DEF Pointers, HeaderMove
  <2>2. Move(p)
    BY <1>7 DEF HeaderColon
  <2> QED BY <1>3, <1>5, <2>1, <2>2
<1>8. CASE HeaderNewline
  <2> DEFINE p == [ptr EXCEPT !.newline = at, !.val_end = ValueEnd]
  <2>1. p \in Pointers /\ HeaderMove(p)
    BY <1>2, <1>3, <1>4 DEF Pointers, HeaderMove
  <2>2. Move(p)
    BY <1>8 DEF HeaderNewline
  <2> QED BY <1>3, <1>5, <2>1, <2>2
<1>9. CASE HeaderOther
  <2> DEFINE p == [ptr EXCEPT !.val = IF ptr.colon # 0 /\ @ = 0 THEN at ELSE @, !.val_end = 0]
             b == [buf EXCEPT ![at] = Lower(@)]
  <2>1. p \in Pointers /\ HeaderMove(p)
    BY <1>2, <1>3 DEF Pointers, HeaderMove
  <2>2. buf' = IF ptr.colon = 0 THEN b ELSE buf
    BY <1>9 DEF HeaderOther
  <2>3. at \in 1 .. Len(buf)
    BY <1>2, <1>3
  <2>4. Lower(buf[at]) \in Bytes
    <3>1. buf[at] \in Bytes
      BY <1>2, <2>3, ElementOfSeq
    <3>2. \A c \in DOMAIN LowerCase : LowerCase[c] \in Others
      BY ParserAssumption
    <3> QED BY <3>1, <3>2 DEF Lower, Bytes
  <2>5. b \in Seq(Bytes) /\ Len(b) = Len(buf)
    <3>1. b = [buf EXCEPT ![at] = Lower(buf[at])]
      OBVIOUS
    <3> HIDE DEF b
    <3> QED BY <1>2, <2>3, <2>4, <3>1, ExceptSeq
  <2>6. HeaderStep(p)
    BY <1>2, <1>9, <2>2, <2>5 DEF HeaderStep, HeaderOther
  <2> QED BY <1>3, <2>1, <2>6
<1> QED BY <1>6, <1>7, <1>8, <1>9
-----------------------------------------------------------------------------
(* Calls and their ends.                                                   *)

(* A peer's segment is scanned from the start of the line.                 *)
LEMMA ReceiveKept == ASSUME ParserInv, Receive PROVE ParserInv'
<1>1. TypeOK /\ ScanInv /\ text \in Seq(Bytes) /\ buf \in Seq(Bytes)
  BY DEF ParserInv, TypeOK
<1>2. /\ pc = "wait" /\ pc' = "scan" /\ at' = 1 /\ ptr' = Null
      /\ kind' = kind /\ text' = text /\ verdict' = verdict /\ given' = given
  BY DEF Receive
<1>3. PICK n \in Len(buf) + 1 .. Len(text) : buf' = buf \o SubSeq(text, Len(buf) + 1, n)
  BY DEF Receive
<1>4. buf' \in Seq(Bytes) /\ Len(buf') <= Len(text) /\ Len(buf') \in Nat
  <2>1. Len(buf) \in Nat /\ Len(text) \in Nat
    BY <1>1, LenProperties
  <2>2. SubSeq(text, Len(buf) + 1, n) \in Seq(Bytes)
        /\ Len(SubSeq(text, Len(buf) + 1, n)) = n - Len(buf)
    BY <1>1, <2>1, SubSeqProperties
  <2> QED BY <1>1, <1>3, <2>1, <2>2, ConcatProperties
<1>5. Null \in Pointers
  BY DEF Null, Pointers
<1>6. TypeOK'
  <2>1. at' \in 1 .. Len(buf') + 1
    BY <1>2, <1>4
  <2> QED BY <1>1, <1>2, <1>4, <1>5, <2>1 DEF TypeOK
<1>7. verdict = "hungry" /\ given = <<>>
  BY <1>1, <1>2 DEF ScanInv
<1>8. PointersOrdered'
  BY <1>2, <1>7 DEF PointersOrdered, Null
<1>9. ScanInv'
  BY <1>2, <1>7 DEF ScanInv, Null
<1>10. RequestBytes'
  BY <1>2 DEF RequestBytes, Null
<1> QED BY <1>6, <1>8, <1>9, <1>10 DEF ParserInv

(* The bytes end: the scanners' state stays as it is until more arrive.    *)
LEMMA HungryKept == ASSUME ParserInv, Hungry PROVE ParserInv'
<1>1. TypeOK /\ PointersOrdered /\ ScanInv /\ RequestBytes
  BY DEF ParserInv
<1>2. /\ pc = "scan" /\ pc' = "wait" /\ verdict' = "hungry" /\ ptr.newline = 0
      /\ kind' = kind /\ text' = text /\ buf' = buf /\ at' = at /\ ptr' = ptr /\ given' = given
  BY DEF Hungry
<1>3. TypeOK'
  BY <1>1, <1>2 DEF TypeOK
<1>4. PointersOrdered'
  BY <1>1, <1>2 DEF PointersOrdered
<1>5. ScanInv'
  BY <1>1, <1>2 DEF ScanInv
<1>6. RequestBytes'
  BY <1>1, <1>2 DEF RequestBytes
<1> QED BY <1>3, <1>4, <1>5, <1>6 DEF ParserInv

(* A line that is rejected gives nothing.                                  *)
LEMMA FailKept == ASSUME ParserInv, Fail PROVE ParserInv' /\ verdict' = "error"
<1>1. TypeOK /\ PointersOrdered /\ ScanInv
  BY DEF ParserInv
<1>2. /\ pc' = "done" /\ verdict' = "error"
      /\ kind' = kind /\ text' = text /\ buf' = buf /\ at' = at /\ ptr' = ptr /\ given' = given
  BY DEF Fail
<1>3. TypeOK'
  BY <1>1, <1>2 DEF TypeOK
<1>4. PointersOrdered'
  BY <1>1, <1>2 DEF PointersOrdered
<1>5. ScanInv'
  BY <1>1, <1>2 DEF ScanInv
<1>6. RequestBytes'
  BY <1>2 DEF RequestBytes
<1> QED BY <1>2, <1>3, <1>4, <1>5, <1>6 DEF ParserInv

(* Zeros are written over bytes and add none.                              *)
LEMMA ZeroedProperties ==
    ASSUME NEW b \in Seq(Bytes), NEW where
    PROVE  /\ Zeroed(b, where) \in Seq(Bytes) /\ Len(Zeroed(b, where)) = Len(b)
           /\ \A i \in 1 .. Len(b) :
                 Zeroed(b, where)[i] = IF i \in where THEN NUL ELSE b[i]
<1>1. Len(b) \in Nat /\ \A i \in 1 .. Len(b) : b[i] \in Bytes
  BY LenProperties, ElementOfSeq
<1>2. NUL \in Bytes
  BY DEF Bytes
<1>3. Zeroed(b, where) = [i \in 1 .. Len(b) |-> IF i \in where THEN NUL ELSE b[i]]
  BY DEF Zeroed
<1>4. \A i \in 1 .. Len(b) : (IF i \in where THEN NUL ELSE b[i]) \in Bytes
  BY <1>1, <1>2
<1> QED BY <1>1, <1>3, <1>4

(* A line that was accepted: its strings end where zeros were written.     *)
LEMMA SucceedKept ==
    ASSUME ParserInv, NEW k, AtEnd(k), NEW b \in Seq(Bytes), NEW strings, Len(b) = Len(buf),
           Succeed(b, strings),
           strings # <<>> =>
             \A i \in IF kind = "request"
                      THEN {ptr.path, IF ptr.query = 0 THEN ptr.uri_end ELSE ptr.query}
                      ELSE {1, ptr.val} :
                \E j \in i .. ptr.newline : b[j] = NUL
    PROVE  ParserInv'
<1>1. TypeOK /\ PointersOrdered /\ ScanInv
  BY DEF ParserInv
<1>2. /\ pc' = "done" /\ verdict' = "success" /\ buf' = b /\ given' = strings
      /\ kind' = kind /\ text' = text /\ at' = at /\ ptr' = ptr
  BY DEF Succeed
<1>3. TypeOK'
  BY <1>1, <1>2 DEF TypeOK
<1>4. PointersOrdered'
  BY <1>1, <1>2 DEF PointersOrdered
<1>5. ScanInv'
  BY <1>1, <1>2 DEF ScanInv
<1>6. RequestBytes'
  BY <1>2 DEF RequestBytes
<1> QED BY <1>3, <1>4, <1>5, <1>6 DEF ParserInv
(* The bytes of an accepted request line, as its strings are taken.        *)
RequestSplit == IF ptr.query = 0 THEN RequestParts ELSE Zeroed(RequestParts, {ptr.query - 1})

(* The zeros of a request line: the two spaces, the end, and the "?".      *)
LEMMA SplitProperties ==
    ASSUME ParserInv
    PROVE  /\ RequestSplit \in Seq(Bytes) /\ Len(RequestSplit) = Len(buf)
           /\ \A i \in 1 .. Len(buf) :
                 RequestSplit[i] =
                     IF i \in {ptr.method_end, ptr.newline, ptr.uri_end}
                        \/ (ptr.query # 0 /\ i = ptr.query - 1)
                     THEN NUL ELSE buf[i]
<1>1. buf \in Seq(Bytes)
  BY DEF ParserInv, TypeOK
<1> DEFINE ends == {ptr.method_end, ptr.newline, ptr.uri_end}
           mark == {ptr.query - 1}
<1>2. /\ RequestParts \in Seq(Bytes) /\ Len(RequestParts) = Len(buf)
      /\ \A i \in 1 .. Len(buf) : RequestParts[i] = IF i \in ends THEN NUL ELSE buf[i]
  <2> HIDE DEF ends
  <2>1. RequestParts = Zeroed(buf, ends)
    BY DEF RequestParts, ends
  <2> QED BY <1>1, <2>1, ZeroedProperties
<1>3. CASE ptr.query = 0
  BY <1>2, <1>3 DEF RequestSplit
<1>4. CASE ptr.query # 0
  <2>1. /\ Zeroed(RequestParts, mark) \in Seq(Bytes)
        /\ Len(Zeroed(RequestParts, mark)) = Len(buf)
        /\ \A i \in 1 .. Len(buf) :
              Zeroed(RequestParts, mark)[i] = IF i \in mark THEN NUL ELSE RequestParts[i]
    <3> HIDE DEF mark, ends
    <3> QED BY <1>2, ZeroedProperties
  <2>2. RequestSplit = Zeroed(RequestParts, mark)
    BY <1>4 DEF RequestSplit
  <2>3. ASSUME NEW i \in 1 .. Len(buf)
        PROVE  RequestSplit[i] = IF i \in ends \/ i \in mark THEN NUL ELSE buf[i]
    <3>1. RequestSplit[i] = IF i \in mark THEN NUL ELSE RequestParts[i]
      <4> HIDE DEF mark, ends
      <4> QED BY <2>1, <2>2, <2>3
    <3>2. RequestParts[i] = IF i \in ends THEN NUL ELSE buf[i]
      <4> HIDE DEF mark, ends
      <4> QED BY <1>2, <2>3
    <3> HIDE DEF mark, ends
    <3> QED BY <3>1, <3>2
  <2>4. \A i : i \in mark <=> ptr.query # 0 /\ i = ptr.query - 1
    BY <1>4
  <2> HIDE DEF mark
  <2> QED BY <2>1, <2>2, <2>3, <2>4
<1> QED BY <1>3, <1>4

(* At the end of a request line that is complete its parts are in order.   *)
LEMMA EndOrder ==
    ASSUME ParserInv, AtEnd("request"), RequestComplete
    PROVE  /\ ptr.method_end \in Nat /\ ptr.uri_end \in Nat /\ ptr.path \in Nat
           /\ ptr.version \in Nat /\ ptr.query \in Nat /\ ptr.newline \in Nat
           /\ Len(buf) \in Nat /\ ptr.newline <= Len(buf)
           /\ 0 < ptr.method_end /\ ptr.method_end < ptr.uri_end
           /\ 0 < ptr.path /\ ptr.path < ptr.uri_end
           /\ ptr.uri_end < ptr.version /\ ptr.version <= ptr.newline
           /\ ptr.query <= ptr.newline /\ at = ptr.newline + 1
<1>1. TypeOK /\ PointersOrdered /\ ScanInv /\ ptr.newline # 0
  BY DEF ParserInv, AtEnd
<1>2. /\ ptr \in Pointers /\ Len(buf) \in Nat /\ at \in Nat /\ at <= Len(buf) + 1
  BY <1>1, ScanTyped
<1>3. /\ ptr.method_end \in Nat /\ ptr.uri_end \in Nat /\ ptr.path \in Nat
      /\ ptr.version \in Nat /\ ptr.query \in Nat /\ ptr.newline \in Nat
  BY <1>2 DEF Pointers
<1>4. at = ptr.newline + 1 /\ ptr.query <= ptr.newline
  BY <1>1 DEF ScanInv
<1>5. ptr.method_end # 0 /\ ptr.path # 0 /\ ptr.uri_end # 0 /\ ptr.version # 0
  BY DEF RequestComplete
<1>6. /\ 0 < ptr.method_end /\ ptr.method_end < ptr.uri_end
      /\ 0 < ptr.path /\ ptr.path < ptr.uri_end /\ ptr.uri_end < ptr.version
      /\ ptr.version < at
  BY <1>1, <1>5 DEF PointersOrdered
<1> QED BY <1>2, <1>3, <1>4, <1>6

(* An accepted request line.                                               *)
LEMMA RequestAcceptedKept == ASSUME ParserInv, RequestAccepted PROVE ParserInv'
<1>1. AtEnd("request") /\ RequestComplete /\ kind = "request"
  BY DEF RequestAccepted, Accepted, AtEnd
<1>2. PICK strings : Succeed(RequestSplit, strings)
  BY DEF RequestAccepted, RequestSplit
<1>3. /\ RequestSplit \in Seq(Bytes) /\ Len(RequestSplit) = Len(buf)
      /\ \A i \in 1 .. Len(buf) :
            i \in {ptr.method_end, ptr.newline, ptr.uri_end} => RequestSplit[i] = NUL
  BY SplitProperties
<1>4. RequestSplit[ptr.uri_end] = NUL /\ RequestSplit[ptr.newline] = NUL
  BY <1>1, <1>3, EndOrder
<1>5. /\ ptr.uri_end \in ptr.path .. ptr.newline
      /\ ptr.uri_end \in ptr.uri_end .. ptr.newline
      /\ ptr.newline \in ptr.query .. ptr.newline
  BY <1>1, EndOrder
<1>6. \A i \in {ptr.path, IF ptr.query = 0 THEN ptr.uri_end ELSE ptr.query} :
         \E j \in i .. ptr.newline : RequestSplit[j] = NUL
  BY <1>4, <1>5
<1> HIDE DEF RequestSplit
<1> QED BY <1>1, <1>2, <1>3, <1>6, SucceedKept

(* An accepted header line.                                                *)
LEMMA HeaderAcceptedKept == ASSUME ParserInv, HeaderAccepted PROVE ParserInv'
<1> DEFINE ends == {ptr.colon, ptr.val_end}
           b == Zeroed(buf, ends)
<1>1. TypeOK /\ PointersOrdered /\ ScanInv /\ buf \in Seq(Bytes)
  BY DEF ParserInv, TypeOK
<1>2. /\ AtEnd("header") /\ kind = "header" /\ ptr.newline # 0
      /\ ptr.colon # 0 /\ ptr.val # 0 /\ ptr.val_end # 0
  BY DEF HeaderAccepted, AtEnd, HeaderComplete
<1>3. PICK strings : Succeed(b, strings)
  BY DEF HeaderAccepted
<1>4. /\ b \in Seq(Bytes) /\ Len(b) = Len(buf)
      /\ \A i \in 1 .. Len(buf) : b[i] = IF i \in ends THEN NUL ELSE buf[i]
  <2> HIDE DEF ends
  <2> QED BY <1>1, ZeroedProperties
<1>5. /\ ptr \in Pointers /\ Len(buf) \in Nat /\ at \in Nat /\ at <= Len(buf) + 1
  BY <1>1, ScanTyped
<1>6. ptr.colon \in Nat /\ ptr.val \in Nat /\ ptr.val_end \in Nat /\ ptr.newline \in Nat
  BY <1>5 DEF Pointers
<1>7. /\ at = ptr.newline + 1 /\ 0 < ptr.colon /\ ptr.colon < ptr.val
      /\ ptr.val < ptr.val_end /\ ptr.val_end < at
  BY <1>1, <1>2 DEF ScanInv, PointersOrdered
<1>8. /\ ptr.colon \in 1 .. ptr.newline /\ ptr.val_end \in ptr.val .. ptr.newline
      /\ ptr.colon \in 1 .. Len(buf) /\ ptr.val_end \in 1 .. Len(buf)
  BY <1>5, <1>6, <1>7
<1>9. b[ptr.colon] = NUL /\ b[ptr.val_end] = NUL
  BY <1>4, <1>8
<1> HIDE DEF b
<1>10. \A i \in {1, ptr.val} : \E j \in i .. ptr.newline : b[j] = NUL
  BY <1>8, <1>9
<1> QED BY <1>2, <1>3, <1>4, <1>10, SucceedKept

-----------------------------------------------------------------------------
(* The invariant holds initially and every step keeps it.                  *)
LEMMA ParserInit == Init => ParserInv
<1> SUFFICES ASSUME Init PROVE ParserInv
  OBVIOUS
<1>1. /\ kind \in Kinds /\ text \in Seq(Bytes) /\ buf = <<>> /\ pc = "wait" /\ at = 1 /\ ptr = Null
      /\ verdict = "hungry" /\ given = <<>>
  BY ParserAssumption DEF Init
<1>2. TypeOK
  <2>1. Null \in Pointers
    BY DEF Null, Pointers
  <2>2. <<>> \in Seq(Bytes) /\ Len(<<>>) = 0 /\ Len(text) \in Nat
    BY <1>1, EmptySeq, LenProperties
  <2> QED BY <1>1, <2>1, <2>2 DEF TypeOK
<1>3. PointersOrdered
  BY <1>1 DEF PointersOrdered, Null
<1>4. ScanInv /\ RequestBytes
  BY <1>1 DEF ScanInv, RequestBytes, Null
<1> QED BY <1>2, <1>3, <1>4 DEF ParserInv

(* Every step of the scan keeps the pointers typed, in order and inside the
   line. *)
LEMMA ParserStep == ParserInv /\ [Next]_vars => ParserInv'
<1> SUFFICES ASSUME ParserInv, [Next]_vars PROVE ParserInv'
  OBVIOUS
<1>1. CASE Receive
  BY <1>1, ReceiveKept
<1>2. CASE Fail
  BY <1>2, FailKept
<1>3. ASSUME NEW bytes, On("request", bytes), NEW p \in Pointers, Move(p), RequestMove(p)
      PROVE  ParserInv'
  <2>1. pc = "scan" /\ kind = "request" /\ ptr.newline = 0 /\ at <= Len(buf)
    BY <1>3 DEF On
  <2> QED BY <1>3, <2>1, RequestMoveKept
<1>4. CASE \/ RequestSpace \/ RequestColon \/ RequestSlash \/ RequestQuestion
           \/ RequestNewline \/ RequestReturn \/ RequestOther
  <2>1. \E bytes : On("request", bytes)
    BY <1>4 DEF RequestSpace, RequestColon, RequestSlash, RequestQuestion, RequestNewline,
                RequestReturn, RequestOther
  <2>2. Fail \/ \E p \in Pointers : Move(p) /\ RequestMove(p)
    BY <1>4, SpaceMoves, ColonMoves, SlashMoves, QuestionMoves, NewlineMoves, ReturnMoves,
       OtherMoves
  <2> QED BY <1>2, <1>3, <2>1, <2>2
<1>5. CASE RequestRejected \/ HeaderRejected
  BY <1>2, <1>5 DEF RequestRejected, HeaderRejected
<1>6. CASE RequestAccepted
  BY <1>6, RequestAcceptedKept
<1>7. CASE HeaderSpace \/ HeaderColon \/ HeaderNewline \/ HeaderReturn \/ HeaderOther
  BY <1>7, HeaderMoves, HeaderMoveKept
<1>8. CASE HeaderAccepted
  BY <1>8, HeaderAcceptedKept
<1>9. CASE HeadersEnd
  <2>1. AtEnd("header") /\ Succeed(buf, <<>>) /\ buf \in Seq(Bytes)
    BY <1>9 DEF HeadersEnd, ParserInv, TypeOK
  <2> QED BY <2>1, SucceedKept
<1>10. CASE Hungry
  BY <1>10, HungryKept
<1>11. CASE UNCHANGED vars
  BY <1>11 DEF vars, ParserInv, TypeOK, PointersOrdered, ScanInv, RequestBytes
<1> QED
  BY <1>1, <1>4, <1>5, <1>6, <1>7, <1>8, <1>9, <1>10, <1>11
  DEF Next, Request, Header, Done, Starved

(* The invariant of the scan holds in every reachable state. *)
LEMMA ParserInvariant == Spec => []ParserInv
BY ParserInit, ParserStep, PTL DEF Spec

(* The scanners' state has its type, however the bytes arrive: at never    *)
(* leaves what was received, and no byte is made one that is not.          *)
THEOREM TypeCorrect == Spec => []TypeOK
<1>1. ParserInv => TypeOK
  BY DEF ParserInv
<1> QED BY <1>1, ParserInvariant, PTL

-----------------------------------------------------------------------------
(* The path of an accepted request.                                        *)

(* Among some numbers one is the least, so "the first byte that" is one.   *)
LEMMA Least ==
    ASSUME NEW S \in SUBSET Nat, S # {}
    PROVE  \E n \in S : \A m \in S : n <= m
<1> DEFINE R == OpToRel(<, Nat)
<1>1. IsWellFoundedOn(R, Nat)
  BY NatLessThanWellFounded
<1>2. \A m, n \in Nat : m < n => <<m, n>> \in R
  BY Zenon DEF OpToRel
<1> HIDE DEF R
<1>3. PICK n \in S : \A m \in S : <<m, n>> \notin R
  BY <1>1, WFMin
<1>4. \A m \in S : ~(m < n)
  BY <1>2, <1>3, Zenon
<1> QED BY <1>4

(* A string goes to the first zero, which is where one is known, or before.*)
LEMMA StringProperties ==
    ASSUME NEW b \in Seq(Bytes), NEW i \in 1 .. Len(b), NEW e \in i .. Len(b), b[e] = NUL
    PROVE  \E end \in i .. e :
               /\ b[end] = NUL /\ \A k \in i .. end - 1 : b[k] # NUL
               /\ String(b, i) = SubSeq(b, i, end - 1)
<1> DEFINE First(j) == b[j] = NUL /\ \A k \in i .. j - 1 : b[k] # NUL
           zeros == {j \in i .. Len(b) : b[j] = NUL}
           end == CHOOSE j \in i .. Len(b) : First(j)
<1>1. Len(b) \in Nat
  BY LenProperties
<1>2. PICK n \in zeros : \A m \in zeros : n <= m
  <2>1. zeros \in SUBSET Nat /\ e \in zeros
    BY <1>1
  <2> HIDE DEF zeros
  <2> QED BY <2>1, Least
<1>3. n \in i .. Len(b) /\ First(n)
  BY <1>1, <1>2
<1>4. end \in i .. Len(b) /\ First(end)
  <2> HIDE DEF First
  <2> QED BY <1>3
<1>5. end <= e
  BY <1>1, <1>4
<1>6. String(b, i) = SubSeq(b, i, end - 1)
  BY Zenon DEF String
<1> HIDE DEF end
<1> QED BY <1>1, <1>4, <1>5, <1>6

(* No line begins with "http://" and with "https://".                      *)
LEMMA NoHost == ASSUME AcceptedUri PROVE ptr.host = 0
<1>1. SUFFICES ASSUME StartsAt(buf, ptr.uri, Http), StartsAt(buf, ptr.uri, Https) PROVE FALSE
  BY DEF AcceptedUri
<1>2. PICK k \in 1 .. Len(Http) : k <= Len(Https) /\ Http[k] # Https[k]
  BY ParserAssumption
<1>3. Len(Http) \in Nat /\ Len(Https) \in Nat
  BY ParserAssumption, LenProperties
<1>4. k \in 1 .. Len(Https)
  BY <1>2, <1>3
<1>5. buf[ptr.uri + k - 1] = Http[k]
  BY <1>1, <1>2 DEF StartsAt
<1>6. buf[ptr.uri + k - 1] = Https[k]
  BY <1>1, <1>4 DEF StartsAt
<1> QED BY <1>2, <1>5, <1>6

(* A method that is known holds neither slash nor question mark, so the    *)
(* path and the query begin after it.                                      *)
LEMMA PathAfterMethod ==
    ASSUME ParserInv, AtEnd("request"), RequestComplete, KnownMethod
    PROVE  /\ ptr.method_end < ptr.path
           /\ ptr.query # 0 => ptr.method_end + 1 < ptr.query
<1>1. buf \in Seq(Bytes) /\ RequestBytes /\ kind = "request" /\ pc = "scan"
  BY DEF ParserInv, TypeOK, AtEnd
<1>2. /\ buf[ptr.path] = "/" /\ buf[ptr.method_end] = SP
      /\ ptr.query # 0 => ptr.query > 1 /\ buf[ptr.query - 1] = "?"
  BY <1>1 DEF RequestBytes, RequestComplete
<1>3. SP # "/" /\ SP # "?"
  BY Zenon DEF SP
<1> DEFINE method == SubSeq(buf, 1, ptr.method_end - 1)
<1>4. method \in Seq(Others)
  BY ParserAssumption DEF KnownMethod
<1>5. "/" \notin Others /\ "?" \notin Others
  BY ParserAssumption DEF Special
<1>6. ASSUME NEW k \in Nat, 0 < k, k < ptr.method_end
      PROVE  buf[k] \in Others
  <2>1. Len(method) = ptr.method_end - 1 /\ \A m \in 1 .. ptr.method_end - 1 : method[m] = buf[m]
    BY <1>1, EndOrder, SubSeqProperties
  <2>2. k \in 1 .. Len(method) /\ k \in 1 .. ptr.method_end - 1
    BY <1>6, <2>1, EndOrder
  <2>3. method[k] \in Others
    <3> HIDE DEF method
    <3> QED BY <1>4, <2>2, ElementOfSeq
  <2> QED BY <2>1, <2>2, <2>3
<1> HIDE DEF method
<1>7. ptr.method_end < ptr.path
  BY <1>2, <1>3, <1>5, <1>6, EndOrder
<1>8. ptr.query # 0 => ptr.method_end < ptr.query - 1
  BY <1>2, <1>3, <1>5, <1>6, EndOrder
<1> QED BY <1>7, <1>8, EndOrder

(* The bytes of the path, up to its end, are none that separate parts.     *)
LEMMA PathBytes ==
    ASSUME ParserInv, AtEnd("request"), Accepted,
           NEW k \in ptr.path .. ptr.uri_end - 1
    PROVE  buf[k] \notin {SP, ":", "\n", "\r"}
<1>1. RequestBytes /\ kind = "request" /\ pc = "scan" /\ RequestComplete
  BY DEF ParserInv, AtEnd, Accepted
<1>2. ptr.host = 0 /\ ptr.method_end < ptr.path
  BY <1>1, NoHost, PathAfterMethod DEF Accepted
<1>3. /\ ptr.path \in Nat /\ ptr.uri_end \in Nat /\ ptr.newline \in Nat
      /\ ptr.version \in Nat /\ ptr.method_end \in Nat
      /\ 0 < ptr.path /\ 0 < ptr.method_end /\ ptr.uri_end < ptr.newline
      /\ ptr.uri_end < ptr.version /\ at = ptr.newline + 1
  BY <1>1, EndOrder
<1>4. k \in 1 .. at - 1 /\ k \in Nat /\ ptr.path <= k /\ k < ptr.uri_end
  BY <1>3
<1>5. /\ buf[k] = "\n" => k = ptr.newline
      /\ buf[k] = "\r" => ptr.version # 0 /\ ptr.version < k
      /\ buf[k] = ":" /\ ptr.host = 0 => k < ptr.path \/ ptr.path = 0
      /\ buf[k] = SP /\ 0 < ptr.method_end /\ ptr.method_end < ptr.path /\ ptr.path < k =>
            ptr.uri_end # 0 /\ ptr.uri_end <= k
  BY <1>1, <1>4 DEF RequestBytes
<1>6. buf[ptr.path] = "/" /\ SP # "/"
  <2>1. SP # "/"
    BY Zenon DEF SP
  <2> QED BY <1>1, <2>1 DEF RequestBytes, RequestComplete
<1>7. buf[k] # SP
  <2>1. CASE k = ptr.path
    BY <1>6, <2>1
  <2>2. CASE k # ptr.path
    BY <1>2, <1>3, <1>4, <1>5, <2>2
  <2> QED BY <2>1, <2>2
<1>8. buf[k] # "\n" /\ buf[k] # "\r" /\ buf[k] # ":"
  BY <1>2, <1>3, <1>4, <1>5
<1> QED BY <1>7, <1>8

(* The string that RequestAccepted gives as the path is one.               *)
LEMMA PathGiven ==
    ASSUME ParserInv, RequestAccepted
    PROVE  /\ given'.path # <<>> /\ given'.path[1] = "/"
           /\ \A i \in 1 .. Len(given'.path) :
                 /\ given'.path[i] \notin {SP, ":", "\n", "\r"}
                 /\ given'.path[i] = "?" => 0 < ptr.query /\ ptr.query <= ptr.path
           /\ ptr.path + Len(given'.path) <= ptr.uri_end
           /\ ptr.path < ptr.query => ptr.path + Len(given'.path) < ptr.query
<1> DEFINE b == RequestSplit
           path == String(b, ptr.path)
<1>1. AtEnd("request") /\ Accepted /\ RequestComplete /\ RequestBytes /\ kind = "request" /\ pc = "scan"
  BY DEF RequestAccepted, Accepted, AtEnd, ParserInv
<1>2. given'.path = path
  BY DEF RequestAccepted, RequestSplit, Succeed
<1>3. /\ b \in Seq(Bytes) /\ Len(b) = Len(buf)
      /\ \A i \in 1 .. Len(buf) :
            b[i] = IF i \in {ptr.method_end, ptr.newline, ptr.uri_end}
                      \/ (ptr.query # 0 /\ i = ptr.query - 1)
                   THEN NUL ELSE buf[i]
  BY SplitProperties
<1> HIDE DEF b
<1>4. /\ ptr.path \in Nat /\ ptr.uri_end \in Nat /\ ptr.newline \in Nat /\ ptr.query \in Nat
      /\ ptr.method_end \in Nat /\ Len(buf) \in Nat /\ 0 < ptr.path /\ ptr.path < ptr.uri_end
      /\ ptr.uri_end < ptr.newline /\ ptr.newline <= Len(buf)
  BY <1>1, EndOrder
<1>5. /\ ptr.path \in 1 .. Len(b) /\ ptr.uri_end \in ptr.path .. Len(b) /\ b[ptr.uri_end] = NUL
  BY <1>3, <1>4
<1>6. PICK end \in ptr.path .. ptr.uri_end :
         /\ b[end] = NUL /\ \A k \in ptr.path .. end - 1 : b[k] # NUL
         /\ path = SubSeq(b, ptr.path, end - 1)
  BY <1>3, <1>5, StringProperties
<1> HIDE DEF path
<1>7. b[ptr.path] = "/" /\ end # ptr.path
  <2>1. /\ buf[ptr.path] = "/" /\ buf[ptr.method_end] = SP /\ buf[ptr.uri_end] = SP
        /\ buf[ptr.newline] = "\n" /\ (ptr.query # 0 => buf[ptr.query - 1] = "?")
    BY <1>1, <1>4 DEF RequestBytes, RequestComplete
  <2>2. SP # "/" /\ NUL # "/" /\ "\n" # "/" /\ "?" # "/"
    BY Zenon DEF SP, NUL
  <2>3. /\ ptr.path # ptr.method_end /\ ptr.path # ptr.newline /\ ptr.path # ptr.uri_end
        /\ (ptr.query # 0 => ptr.path # ptr.query - 1)
    BY <2>1, <2>2
  <2>4. b[ptr.path] = buf[ptr.path]
    BY <1>3, <1>4, <2>3
  <2> QED BY <1>6, <2>1, <2>2, <2>4
<1>8. /\ Len(path) = end - ptr.path /\ Len(path) > 0
      /\ \A i \in 1 .. Len(path) : path[i] = b[ptr.path + i - 1]
  <2>1. ptr.path \in 1 .. Len(b) + 1 /\ end - 1 \in ptr.path - 1 .. Len(b)
    BY <1>3, <1>4
  <2>2. /\ Len(path) = (end - 1) - ptr.path + 1
        /\ \A i \in 1 .. (end - 1) - ptr.path + 1 : path[i] = b[ptr.path + i - 1]
    BY SMTT(30), <1>3, <1>6, <2>1, SubSeqProperties
  <2> QED BY <1>4, <1>7, <2>2
<1>9. path # <<>> /\ path[1] = "/"
  BY SMTT(30), <1>4, <1>7, <1>8
<1>11. end <= ptr.uri_end /\ (ptr.path < ptr.query => end < ptr.query)
  <2>1. ASSUME ptr.path < ptr.query, ptr.query <= end PROVE FALSE
    <3>1. buf[ptr.query - 1] = "?" /\ ptr.query - 1 \in 1 .. Len(buf)
      BY <1>1, <1>4, <2>1 DEF RequestBytes
    <3>2. b[ptr.query - 1] = NUL
      BY <1>3, <1>4, <2>1, <3>1
    <3>3. ptr.query - 1 \in ptr.path .. end - 1
      BY <1>4, <2>1
    <3> QED BY <1>6, <3>2, <3>3
  <2> QED BY <1>4, <2>1
<1>12. ptr.path + Len(path) = end
  BY <1>4, <1>8
<1>10. ASSUME NEW i \in 1 .. Len(path)
       PROVE  /\ path[i] \notin {SP, ":", "\n", "\r"}
              /\ path[i] = "?" => 0 < ptr.query /\ ptr.query <= ptr.path
  <2> DEFINE k == ptr.path + i - 1
  <2>1. k \in ptr.path .. end - 1 /\ k \in 1 .. Len(buf) /\ k \in ptr.path .. ptr.uri_end - 1
    BY SMTT(30), <1>4, <1>8
  <2>2. path[i] = b[k]
    BY <1>8
  <2> HIDE DEF k
  <2>3. b[k] = buf[k]
    BY <1>3, <1>6, <2>1
  <2>4. path[i] \notin {SP, ":", "\n", "\r"}
    BY <1>1, <2>1, <2>2, <2>3, PathBytes
  <2>5. ASSUME path[i] = "?" PROVE 0 < ptr.query /\ ptr.query <= ptr.path
    <3>1. buf[k] = "?" /\ k \in 1 .. at - 1
      BY <1>1, <1>4, <2>1, <2>2, <2>3, <2>5, EndOrder
    <3>2. ptr.query # 0 /\ ptr.query - 1 <= k
      BY <1>1, <3>1 DEF RequestBytes
    <3>3. ptr.query - 1 # ptr.path
      BY <1>1, <1>4, <3>2 DEF RequestBytes, RequestComplete
    <3>4. ~(ptr.path < ptr.query)
      <4>1. SUFFICES ASSUME ptr.path < ptr.query PROVE FALSE
        OBVIOUS
      <4>2. end < ptr.query /\ k < end
        BY <1>4, <1>11, <2>1, <4>1
      <4> QED BY <1>4, <2>1, <3>2, <4>2
    <3> QED BY <1>4, <3>2, <3>4
  <2> QED BY <2>4, <2>5
<1> HIDE DEF path
<1> QED BY <1>2, <1>9, <1>10, <1>11, <1>12

(* What a line that was accepted gives, and nothing before it.             *)
LineGiven == AcceptedPath /\ PartsApart

(* Every step keeps it: only accepting a line can give something.          *)
LEMMA LineGivenStep == ParserInv /\ LineGiven /\ [Next]_vars => LineGiven'
<1> SUFFICES ASSUME ParserInv, LineGiven, [Next]_vars PROVE LineGiven'
  OBVIOUS
<1> USE DEF LineGiven
<1>1. pc # "done" => verdict = "hungry"
  BY DEF ParserInv, ScanInv
<1>2. CASE RequestAccepted
  <2>1. AtEnd("request") /\ RequestComplete /\ KnownMethod /\ ptr' = ptr
    BY <1>2 DEF RequestAccepted, Accepted, AtEnd, Succeed
  <2>2. /\ ptr.method_end < ptr.path /\ ptr.query <= ptr.newline
        /\ ptr.query # 0 => ptr.method_end + 1 < ptr.query
    BY <2>1, PathAfterMethod, EndOrder
  <2> QED BY <1>2, <2>1, <2>2, PathGiven DEF AcceptedPath, PartsApart
<1>3. CASE Fail
  BY <1>3, FailKept DEF AcceptedPath, PartsApart
<1>4. CASE UNCHANGED vars
  BY <1>4 DEF vars, AcceptedPath, PartsApart
<1>5. CASE kind' = kind /\ kind = "header"
  BY <1>5 DEF AcceptedPath, PartsApart, Kinds
<1>6. CASE verdict' = "hungry"
  BY <1>6 DEF AcceptedPath, PartsApart
<1>7. ASSUME NEW bytes, NEW p, On("request", bytes), Move(p) PROVE LineGiven'
  BY <1>1, <1>7 DEF On, Move, AcceptedPath, PartsApart
<1>8. CASE \/ RequestSpace \/ RequestColon \/ RequestSlash \/ RequestQuestion
           \/ RequestNewline \/ RequestReturn \/ RequestOther
  <2>1. \E bytes : On("request", bytes)
    BY <1>8 DEF RequestSpace, RequestColon, RequestSlash, RequestQuestion, RequestNewline,
                RequestReturn, RequestOther
  <2>2. Fail \/ \E p \in Pointers : Move(p) /\ RequestMove(p)
    BY <1>8, SpaceMoves, ColonMoves, SlashMoves, QuestionMoves, NewlineMoves, ReturnMoves,
       OtherMoves
  <2> QED BY <1>3, <1>7, <2>1, <2>2
<1>9. CASE Header
  <2>1. kind = "header" /\ kind' = kind
    BY <1>9 DEF Header, HeaderSpace, HeaderColon, HeaderNewline, HeaderReturn, HeaderOther,
                HeaderAccepted, HeadersEnd, HeaderRejected, On, AtEnd, Move, Succeed, Fail
  <2> QED BY <1>5, <2>1
<1>10. CASE Receive \/ Hungry
  BY <1>1, <1>6, <1>10 DEF Receive, Hungry
<1>11. CASE RequestRejected
  BY <1>3, <1>11 DEF RequestRejected
<1> QED BY <1>2, <1>4, <1>8, <1>9, <1>10, <1>11 DEF Next, Request, Done, Starved

(* What a line gives is in order in every reachable state.                 *)
LEMMA LineGivenInvariant == Spec => []LineGiven
<1>1. Init => LineGiven
  BY DEF Init, LineGiven, AcceptedPath, PartsApart
<1> QED BY <1>1, LineGivenStep, ParserInvariant, PTL DEF Spec

(* The parts of a line are where they should be for any methods, versions  *)
(* and bytes: the scanned pointers stay in the line, the target ends after *)
(* the method and the path's start, and in a line that was accepted the    *)
(* path and the query begin after the method, and the path ends before a   *)
(* query that begins after it.                                             *)
THEOREM PointersInLine == Spec => []PartsInLine
<1>1. ParserInv /\ LineGiven => PartsInLine
  BY DEF ParserInv, LineGiven, PartsInLine
<1> QED BY <1>1, ParserInvariant, LineGivenInvariant, PTL

(* The path that a stream gets begins with "/" and holds no space, colon   *)
(* or line end, and a "?" only when the line's first one came before the   *)
(* path, for any methods, versions and bytes: the scanner looks for none   *)
(* of this by itself.                                                      *)
THEOREM PathIsPath == Spec => []AcceptedPath
<1>1. LineGiven => AcceptedPath
  BY DEF LineGiven
<1> QED BY <1>1, LineGivenInvariant, PTL

-----------------------------------------------------------------------------
(* A request line of the documented form.                                  *)

(* What is scanned is what the peer sent.                                  *)
Received ==
    kind = "request" /\ pc # "done" => \A k \in 1 .. Len(buf) : buf[k] = text[k]

(* What the pointers p are when the scan is at byte a of such a line and   *)
(* its query begins at q, or there is none and q is after the target.      *)
RequestAt(p, a, q, i, j, n) ==
    /\ a <= n + 1
    /\ p.method_end = IF a <= i THEN 0 ELSE i
    /\ p.path = IF a <= i + 1 THEN 0 ELSE i + 1
    /\ p.uri = IF a <= i + 1 THEN 0 ELSE i + 1
    /\ p.host = 0
    /\ p.query = IF q = j + 1 \/ a < q THEN 0 ELSE q
    /\ p.uri_end = IF a <= j THEN 0 ELSE j
    /\ p.version = IF a <= j + 1 THEN 0 ELSE j + 1
    /\ p.newline = IF a <= n THEN 0 ELSE n

(* The scan of such a line is under way, or has given its parts.           *)
ReadingRequest(i, j, n) ==
    /\ pc = "wait" => Len(buf) < n
    /\ pc = "scan" => RequestAt(ptr, at, QueryAt(text, i, j), i, j, n)
    /\ pc = "done" =>
          /\ verdict = "success" /\ at = n + 1
          /\ given = [path |-> SubSeq(text, i + 1, QueryAt(text, i, j) - 2),
                      query |-> SubSeq(text, QueryAt(text, i, j), j - 1)]

RequestInv ==
    kind = "request" =>
      \A n, i, j \in 1 .. Len(text) : IsRequest(i, j, n) => ReadingRequest(i, j, n)

(* The bytes without a meaning are none of those that have one.            *)
LEMMA BytesDiffer ==
    /\ \A c \in Others : c \notin {SP, ":", "/", "?", "\n", "\r", NUL}
    /\ SP \notin {":", "/", "?", "\n", "\r", NUL}
    /\ NUL \notin {":", "/", "?", "\n", "\r"}
<1>1. SP \notin {":", "/", "?", "\n", "\r", NUL} /\ NUL \notin {":", "/", "?", "\n", "\r"}
  BY Zenon DEF SP, NUL
<1>2. \A c \in Others : c \notin Special \cup {NUL}
  BY ParserAssumption
<1>3. {SP, ":", "/", "?", "\n", "\r"} \subseteq Special
  BY DEF Special
<1> QED BY <1>1, <1>2, <1>3

(* Which byte such a line has at each of its places.                       *)
RequestByteAt(i, j, n, k) ==
    \/ k < i /\ text[k] \in Others
    \/ k = i /\ text[k] = SP
    \/ k = i + 1 /\ text[k] = "/"
    \/ i + 1 < k /\ k < j /\ text[k] \in Others \cup {"/", "?"}
    \/ k = j /\ text[k] = SP
    \/ k = j + 1 /\ text[k] \in Others
    \/ /\ j + 1 < k /\ k <= j + 1 + VersionLast
       /\ text[k] \in Others \/ (text[k] = "/" /\ k = j + 1 + VersionSlash)
    \/ j + 1 + VersionLast < k /\ k < n /\ text[k] = "\r"
    \/ j + 1 + VersionLast < k /\ k = n /\ text[k] = "\n"

(* A request line of the documented form, byte by byte: its method, its
   path and its version, and where they end. *)
LEMMA RequestLine ==
    ASSUME text \in Seq(Bytes), NEW n \in 1 .. Len(text), NEW i \in 1 .. Len(text),
           NEW j \in 1 .. Len(text), IsRequest(i, j, n)
    PROVE  /\ i + 1 < j /\ j + 1 + VersionLast < n
           /\ text[i] = SP /\ text[j] = SP /\ text[i + 1] = "/"
           /\ \A k \in 1 .. n : RequestByteAt(i, j, n, k)
           /\ SubSeq(text, 1, i - 1) \in Methods
           /\ \E v \in Versions : \A k \in 1 .. Len(v) :
                 j + k \in 1 .. n - 1 /\ text[j + k] = v[k]
<1>1. Len(text) \in Nat
  BY LenProperties
<1>2. /\ i < j /\ j < n /\ text[n] = "\n" /\ text[i] = SP /\ text[j] = SP
      /\ SubSeq(text, 1, i - 1) \in Methods /\ i + 1 < j /\ text[i + 1] = "/"
      /\ \A k \in i + 1 .. j - 1 : text[k] \in Others \cup {"/", "?"}
  BY DEF IsRequest, FirstLine
<1>3. PICK v \in Versions, e \in LineEnds : SubSeq(text, j + 1, n) = v \o e
  BY DEF IsRequest
<1>4. /\ v \in Seq(Others \cup {"/"}) /\ Len(v) = VersionLast + 1 /\ v[1] # "/"
      /\ \A k \in 1 .. Len(v) : v[k] = "/" => k = VersionSlash + 1
      /\ VersionLast \in Nat /\ VersionSlash \in Nat
  BY ParserAssumption
<1>5. /\ e \in Seq({"\n", "\r"}) /\ Len(e) \in Nat
      /\ Len(e) = 1 \/ Len(e) = 2
      /\ Len(e) = 2 => e[1] = "\r"
  <2>1. CASE e = <<"\n">>
    BY <2>1
  <2>2. CASE e = <<"\r", "\n">>
    BY <2>2
  <2> QED BY <1>3, <2>1, <2>2 DEF LineEnds
<1> DEFINE tail == SubSeq(text, j + 1, n)
<1>6. /\ Len(tail) = n - j
      /\ \A k \in 1 .. n - j : tail[k] = text[j + k]
  <2>1. j + 1 \in 1 .. Len(text) + 1 /\ n \in j .. Len(text)
    BY <1>1, <1>2
  <2>2. Len(tail) = n - (j + 1) + 1 /\ \A k \in 1 .. n - (j + 1) + 1 : tail[k] = text[(j + 1) + k - 1]
    BY <2>1, SubSeqProperties
  <2> QED BY <1>1, <2>2
<1>7. /\ Len(tail) = Len(v) + Len(e)
      /\ \A k \in 1 .. Len(v) : tail[k] = v[k]
      /\ \A k \in 1 .. Len(e) : tail[Len(v) + k] = e[k]
  <2>1. /\ Len(v \o e) = Len(v) + Len(e)
        /\ \A k \in 1 .. Len(v) + Len(e) :
              (v \o e)[k] = IF k <= Len(v) THEN v[k] ELSE e[k - Len(v)]
    <3> DEFINE S == Others \cup {"/", "\n", "\r"}
    <3>1. v \in Seq(S) /\ e \in Seq(S)
      BY <1>4, <1>5
    <3> HIDE DEF S
    <3> QED BY <3>1, ConcatProperties
  <2>2. Len(v) \in Nat /\ Len(e) \in Nat
    BY <1>4, <1>5
  <2>3. tail = v \o e
    BY <1>3
  <2> DEFINE ve == v \o e
  <2>4. Len(ve) = Len(v) + Len(e) /\ (\A k \in 1 .. Len(v) : ve[k] = v[k])
    BY <2>1, <2>2
  <2>5. ASSUME NEW k \in 1 .. Len(e) PROVE ve[Len(v) + k] = e[k]
    <3>1. Len(v) + k \in 1 .. Len(v) + Len(e) /\ ~(Len(v) + k <= Len(v)) /\ (Len(v) + k) - Len(v) = k
      BY <2>2
    <3> QED BY <2>1, <3>1
  <2> HIDE DEF ve
  <2> QED BY <2>3, <2>4, <2>5 DEF ve
<1> HIDE DEF tail
<1>8. j + 1 + VersionLast < n /\ n = j + 1 + VersionLast + Len(e)
  <2>1. Len(tail) = n - j /\ Len(tail) = Len(v) + Len(e) /\ Len(v) = VersionLast + 1
    BY <1>4, <1>6, <1>7
  <2>2. Len(e) \in Nat /\ Len(e) > 0
    BY SMTT(30), <1>5
  <2>3. VersionLast \in Nat
    BY <1>4
  <2> QED BY <1>1, <2>1, <2>2, <2>3
<1>9. \A k \in 1 .. Len(v) : j + k \in 1 .. n - 1 /\ text[j + k] = v[k]
  <2> SUFFICES ASSUME NEW k \in 1 .. Len(v) PROVE j + k \in 1 .. n - 1 /\ text[j + k] = v[k]
    OBVIOUS
  <2>1. k \in 1 .. VersionLast + 1 /\ VersionLast \in Nat
    BY <1>4
  <2>2. j + k \in 1 .. n - 1 /\ k \in 1 .. n - j
    BY <1>1, <1>8, <2>1
  <2>3. tail[k] = v[k] /\ tail[k] = text[j + k]
    BY <1>6, <1>7, <2>2
  <2> QED BY <2>2, <2>3
<1>10. ASSUME NEW k \in 1 .. n PROVE RequestByteAt(i, j, n, k)
  <2>1. CASE k < i
    <3> DEFINE method == SubSeq(text, 1, i - 1)
    <3>1. method \in Seq(Others)
      BY <1>2, ParserAssumption
    <3>2. Len(method) = i - 1 /\ \A m \in 1 .. i - 1 : method[m] = text[m]
      BY <1>1, SubSeqProperties
    <3>3. k \in 1 .. Len(method) /\ method[k] = text[k]
      BY <2>1, <1>1, <3>2
    <3>4. text[k] \in Others
      <4> HIDE DEF method
      <4> QED BY <3>1, <3>3, ElementOfSeq
    <3> QED BY <2>1, <3>4 DEF RequestByteAt
  <2>2. CASE i <= k /\ k <= j
    BY <2>2, <1>1, <1>2 DEF RequestByteAt
  <2>3. CASE j < k /\ k <= j + 1 + VersionLast
    <3> DEFINE m == k - j
    <3>1. m \in 1 .. Len(v) /\ text[k] = v[m] /\ v[m] \in Others \cup {"/"}
      <4>1. m \in 1 .. Len(v) /\ k = j + m
        BY <2>3, <1>1, <1>4
      <4> HIDE DEF m
      <4>2. text[j + m] = v[m] /\ v[m] \in Others \cup {"/"}
        BY <4>1, <1>9, <1>4, ElementOfSeq
      <4> QED BY <4>1, <4>2
    <3>2. v[m] = "/" => m = VersionSlash + 1 /\ m # 1
      BY <3>1, <1>4
    <3>3. k = j + 1 => text[k] \in Others
      BY <3>1, <3>2, <1>1
    <3>4. text[k] \in Others \/ (text[k] = "/" /\ k = j + 1 + VersionSlash)
      BY <3>1, <3>2, <1>1, <1>4
    <3> QED BY <2>3, <3>3, <3>4, <1>1 DEF RequestByteAt
  <2>4. CASE j + 1 + VersionLast < k
    <3>1. k = n \/ (k = n - 1 /\ Len(e) = 2)
      <4>1. Len(e) = 1 \/ Len(e) = 2
        BY <1>5
      <4>2. VersionLast \in Nat /\ n = j + 1 + VersionLast + Len(e)
        BY <1>4, <1>8
      <4>3. k \in Nat /\ n \in Nat /\ j \in Nat /\ k <= n
        BY <1>1
      <4>4. Len(e) = 1 => n = j + 1 + VersionLast + 1
        BY <4>2
      <4>5. Len(e) = 2 => n = j + 1 + VersionLast + 2
        BY <4>2
      <4> QED BY <2>4, <4>1, <4>2, <4>3, <4>4, <4>5
    <3>2. k = n - 1 /\ Len(e) = 2 => text[k] = "\r"
      <4>1. SUFFICES ASSUME k = n - 1, Len(e) = 2 PROVE text[k] = "\r"
        OBVIOUS
      <4>2. k = j + (Len(v) + 1) /\ Len(v) + 1 \in 1 .. n - j /\ 1 \in 1 .. Len(e)
        BY <4>1, <1>1, <1>4, <1>8
      <4>3. tail[Len(v) + 1] = e[1] /\ tail[Len(v) + 1] = text[j + (Len(v) + 1)]
        BY <4>2, <1>6, <1>7
      <4> QED BY <4>1, <4>2, <4>3, <1>5
    <3> QED BY <2>4, <3>1, <3>2, <1>1, <1>2 DEF RequestByteAt
  <2> QED BY <2>1, <2>2, <2>3, <2>4, <1>1, <1>2, <1>4
<1> QED BY <1>2, <1>8, <1>9, <1>10

(* The query begins after the first "?", which is in the target.           *)
LEMMA QueryPlace ==
    ASSUME text \in Seq(Bytes), NEW n \in 1 .. Len(text), NEW i \in 1 .. Len(text),
           NEW j \in 1 .. Len(text), IsRequest(i, j, n)
    PROVE  /\ QueryAt(text, i, j) \in Nat /\ i + 2 < QueryAt(text, i, j) /\ QueryAt(text, i, j) <= j + 1
           /\ QueryAt(text, i, j) # j + 1 => text[QueryAt(text, i, j) - 1] = "?"
           /\ \A k \in i .. QueryAt(text, i, j) - 2 : text[k] # "?"
<1> DEFINE First(k) == text[k] = "?" /\ \A l \in i .. k - 1 : text[l] # "?"
           first == CHOOSE k \in i .. j : First(k)
           marks == {k \in i .. j : text[k] = "?"}
<1>1. /\ text[i] = SP /\ text[i + 1] = "/" /\ text[j] = SP /\ i + 1 < j
      /\ i \in Nat /\ j \in Nat
  BY LenProperties, RequestLine
<1>2. SP # "?"
  BY BytesDiffer
<1>3. CASE \E k \in i .. j : text[k] = "?"
  <2>1. PICK k \in marks : \A m \in marks : k <= m
    <3>1. marks \in SUBSET Nat /\ marks # {}
      BY <1>1, <1>3
    <3> HIDE DEF marks
    <3> QED BY <3>1, Least
  <2>2. k \in i .. j /\ First(k)
    BY <1>1, <2>1
  <2>3. first \in i .. j /\ First(first)
    <3> HIDE DEF First
    <3> QED BY <2>2
  <2>4. QueryAt(text, i, j) = first + 1
    BY <1>3 DEF QueryAt
  <2> HIDE DEF first
  <2>5. first # i /\ first # i + 1 /\ first # j
    BY <1>1, <1>2, <2>3
  <2> QED BY <1>1, <2>3, <2>4, <2>5
<1>4. CASE ~ \E k \in i .. j : text[k] = "?"
  <2>1. QueryAt(text, i, j) = j + 1
    BY <1>4 DEF QueryAt
  <2> QED BY <1>1, <1>4, <2>1
<1> QED BY <1>3, <1>4

(* A scan of such a line.                                                  *)
Reads(i, j, n) ==
    /\ ParserInv /\ Received /\ kind = "request" /\ pc = "scan"
    /\ n \in 1 .. Len(text) /\ i \in 1 .. Len(text) /\ j \in 1 .. Len(text)
    /\ IsRequest(i, j, n) /\ RequestAt(ptr, at, QueryAt(text, i, j), i, j, n)

(* What the scan of a request line of the documented form knows of its
   place. *)
LEMMA ReadsAt ==
    ASSUME NEW i, NEW j, NEW n, NEW bytes, Reads(i, j, n), On("request", bytes)
    PROVE  /\ i \in Nat /\ j \in Nat /\ n \in Nat /\ at \in Nat /\ QueryAt(text, i, j) \in Nat
           /\ VersionLast \in Nat /\ VersionSlash \in Nat
           /\ 1 <= i /\ i + 1 < j /\ j + 1 + VersionLast < n /\ 1 <= at /\ at <= n
           /\ i + 2 < QueryAt(text, i, j) /\ QueryAt(text, i, j) <= j + 1
           /\ QueryAt(text, i, j) # j + 1 => text[QueryAt(text, i, j) - 1] = "?"
           /\ \A k \in i .. QueryAt(text, i, j) - 2 : text[k] # "?"
           /\ buf[at] = text[at] /\ text[at] \in bytes
           /\ RequestByteAt(i, j, n, at)
           /\ ptr \in Pointers
<1>1. TypeOK /\ text \in Seq(Bytes) /\ Len(text) \in Nat
  BY LenProperties DEF Reads, ParserInv, TypeOK
<1>2. /\ at \in Nat /\ 1 <= at /\ at <= Len(buf) /\ buf[at] \in bytes /\ ptr.newline = 0
      /\ ptr \in Pointers /\ Len(buf) \in Nat /\ pc = "scan" /\ kind = "request"
  BY <1>1, RequestByte, ScanTyped
<1>3. /\ n \in 1 .. Len(text) /\ i \in 1 .. Len(text) /\ j \in 1 .. Len(text)
      /\ IsRequest(i, j, n)
  BY DEF Reads
<1>4. buf[at] = text[at]
  BY <1>2 DEF Reads, Received
<1>5. at <= n
  BY <1>1, <1>2, <1>3 DEF Reads, RequestAt
<1>6. VersionLast \in Nat /\ VersionSlash \in Nat
  BY ParserAssumption
<1>7. /\ QueryAt(text, i, j) \in Nat /\ i + 2 < QueryAt(text, i, j) /\ QueryAt(text, i, j) <= j + 1
      /\ QueryAt(text, i, j) # j + 1 => text[QueryAt(text, i, j) - 1] = "?"
      /\ \A k \in i .. QueryAt(text, i, j) - 2 : text[k] # "?"
  BY <1>1, <1>3, QueryPlace
<1>8. i + 1 < j /\ j + 1 + VersionLast < n /\ RequestByteAt(i, j, n, at)
  <2>1. at \in 1 .. n
    BY <1>1, <1>2, <1>3, <1>5
  <2> QED BY <1>1, <1>3, <2>1, RequestLine
<1> QED BY <1>1, <1>2, <1>3, <1>4, <1>5, <1>6, <1>7, <1>8

(* One byte further each pointer has been set that this byte sets.         *)
LEMMA RequestAtNext ==
    ASSUME NEW i \in Nat, NEW j \in Nat, NEW n \in Nat, NEW a \in Nat, NEW q \in Nat,
           1 <= i, i + 1 < j, j + 1 < n, i + 2 < q, q <= j + 1, a <= n,
           NEW p, NEW r, RequestAt(p, a, q, i, j, n),
           r.method_end = IF a = i THEN a ELSE p.method_end,
           r.path = IF a = i + 1 THEN a ELSE p.path,
           r.uri = IF a = i + 1 THEN a ELSE p.uri,
           r.host = p.host,
           r.query = IF a + 1 = q /\ q # j + 1 THEN q ELSE p.query,
           r.uri_end = IF a = j THEN a ELSE p.uri_end,
           r.version = IF a = j + 1 THEN a ELSE p.version,
           r.newline = IF a = n THEN a ELSE p.newline
    PROVE  RequestAt(r, a + 1, q, i, j, n)
<1>1. /\ p.method_end = IF a <= i THEN 0 ELSE i
      /\ p.path = IF a <= i + 1 THEN 0 ELSE i + 1
      /\ p.uri = IF a <= i + 1 THEN 0 ELSE i + 1
      /\ p.host = 0
      /\ p.query = IF q = j + 1 \/ a < q THEN 0 ELSE q
      /\ p.uri_end = IF a <= j THEN 0 ELSE j
      /\ p.version = IF a <= j + 1 THEN 0 ELSE j + 1
      /\ p.newline = IF a <= n THEN 0 ELSE n
  BY DEF RequestAt
<1>2. r.method_end = IF a + 1 <= i THEN 0 ELSE i
  BY <1>1
<1>3. /\ r.path = IF a + 1 <= i + 1 THEN 0 ELSE i + 1
      /\ r.uri = IF a + 1 <= i + 1 THEN 0 ELSE i + 1
  BY <1>1
<1>4. r.query = IF q = j + 1 \/ a + 1 < q THEN 0 ELSE q
  BY <1>1
<1>5. r.uri_end = IF a + 1 <= j THEN 0 ELSE j
  BY <1>1
<1>6. r.version = IF a + 1 <= j + 1 THEN 0 ELSE j + 1
  BY <1>1
<1>7. r.newline = IF a + 1 <= n THEN 0 ELSE n
  BY <1>1
<1>8. r.host = 0 /\ a + 1 <= n + 1
  BY <1>1
<1> QED BY <1>2, <1>3, <1>4, <1>5, <1>6, <1>7, <1>8 DEF RequestAt

(* The moves of the scan on such a line, a byte each: none is rejected.    *)
LEMMA SpaceReads ==
    ASSUME NEW i, NEW j, NEW n, Reads(i, j, n), RequestSpace
    PROVE  \E p : Move(p) /\ RequestAt(p, at + 1, QueryAt(text, i, j), i, j, n)
<1> DEFINE q == QueryAt(text, i, j)
<1>1. On("request", {SP})
  BY DEF RequestSpace
<1>2. /\ i \in Nat /\ j \in Nat /\ n \in Nat /\ at \in Nat /\ q \in Nat
      /\ VersionLast \in Nat /\ VersionSlash \in Nat
      /\ 1 <= i /\ i + 1 < j /\ j + 1 < n /\ j + 1 + VersionLast < n
      /\ 1 <= at /\ at <= n /\ i + 2 < q /\ q <= j + 1
  BY <1>1, ReadsAt
<1>3. /\ text[at] \in {SP} /\ RequestByteAt(i, j, n, at)
      /\ q # j + 1 => text[q - 1] = "?"
      /\ \A k \in i .. q - 2 : text[k] # "?"
  BY <1>1, ReadsAt
<1>4. RequestAt(ptr, at, q, i, j, n) /\ ptr \in Pointers
  BY <1>1, ReadsAt DEF Reads
<1> HIDE DEF q
<1>5. at = i \/ at = j
  BY <1>2, <1>3, BytesDiffer DEF RequestByteAt
<1>6. CASE at = i
  <2> DEFINE p == [ptr EXCEPT !.method_end = at]
  <2>1. Move(p)
    BY <1>2, <1>4, <1>5, <1>6 DEF RequestSpace, RequestAt
  <2>2. /\ p.method_end = at /\ p.path = ptr.path /\ p.uri = ptr.uri /\ p.host = ptr.host
        /\ p.query = ptr.query /\ p.uri_end = ptr.uri_end /\ p.version = ptr.version /\ p.newline = ptr.newline
    BY <1>4 DEF Pointers
  <2> HIDE DEF p
  <2>3. RequestAt(p, at + 1, q, i, j, n)
    BY <1>2, <1>4, <1>5, <1>6, <2>2, RequestAtNext
  <2> QED BY <2>1, <2>3 DEF q
<1>7. CASE at = j
  <2> DEFINE p == [ptr EXCEPT !.uri_end = at]
  <2>1. Move(p)
    BY <1>2, <1>4, <1>5, <1>7 DEF RequestSpace, RequestAt
  <2>2. /\ p.method_end = ptr.method_end /\ p.path = ptr.path /\ p.uri = ptr.uri /\ p.host = ptr.host
        /\ p.query = ptr.query /\ p.uri_end = at /\ p.version = ptr.version /\ p.newline = ptr.newline
    BY <1>4 DEF Pointers
  <2> HIDE DEF p
  <2>3. RequestAt(p, at + 1, q, i, j, n)
    BY <1>2, <1>4, <1>5, <1>7, <2>2, RequestAtNext
  <2> QED BY <2>1, <2>3 DEF q
<1> QED BY <1>5, <1>6, <1>7

(* A slash of such a line is passed and the pointers stay those of the
   place. *)
LEMMA SlashReads ==
    ASSUME NEW i, NEW j, NEW n, Reads(i, j, n), RequestSlash
    PROVE  \E p : Move(p) /\ RequestAt(p, at + 1, QueryAt(text, i, j), i, j, n)
<1> DEFINE q == QueryAt(text, i, j)
<1>1. On("request", {"/"})
  BY DEF RequestSlash
<1>2. /\ i \in Nat /\ j \in Nat /\ n \in Nat /\ at \in Nat /\ q \in Nat
      /\ VersionLast \in Nat /\ VersionSlash \in Nat
      /\ 1 <= i /\ i + 1 < j /\ j + 1 < n /\ j + 1 + VersionLast < n
      /\ 1 <= at /\ at <= n /\ i + 2 < q /\ q <= j + 1
  BY <1>1, ReadsAt
<1>3. /\ text[at] \in {"/"} /\ RequestByteAt(i, j, n, at)
      /\ q # j + 1 => text[q - 1] = "?"
      /\ \A k \in i .. q - 2 : text[k] # "?"
  BY <1>1, ReadsAt
<1>4. RequestAt(ptr, at, q, i, j, n) /\ ptr \in Pointers
  BY <1>1, ReadsAt DEF Reads
<1> HIDE DEF q
<1>5. /\ at = i + 1 \/ (i + 1 < at /\ at < j) \/ (j + 1 < at /\ at = j + 1 + VersionSlash /\ at < n)
      /\ at + 1 = q => q = j + 1
  <2>1. at = i + 1 \/ (i + 1 < at /\ at < j) \/ (j + 1 < at /\ at = j + 1 + VersionSlash /\ at < n)
    BY <1>2, <1>3, BytesDiffer DEF RequestByteAt
  <2> QED BY <1>2, <1>3, <2>1
<1>6. CASE at = i + 1
  <2> DEFINE p == [ptr EXCEPT !.path = at, !.uri = IF @ = 0 THEN at ELSE @]
  <2>1. Move(p)
    BY <1>2, <1>4, <1>5, <1>6 DEF RequestSlash, RequestAt
  <2>2. /\ p.method_end = ptr.method_end /\ p.path = at /\ p.uri = (IF ptr.uri = 0 THEN at ELSE ptr.uri) /\ p.host = ptr.host
        /\ p.query = ptr.query /\ p.uri_end = ptr.uri_end /\ p.version = ptr.version /\ p.newline = ptr.newline
    BY <1>4 DEF Pointers
  <2>3. ptr.uri = 0
    BY <1>2, <1>4, <1>6 DEF RequestAt
  <2> HIDE DEF p
  <2>4. RequestAt(p, at + 1, q, i, j, n)
    BY <1>2, <1>4, <1>5, <1>6, <2>2, <2>3, RequestAtNext
  <2> QED BY <2>1, <2>4 DEF q
<1>7. CASE at # i + 1
  <2>1. Move(ptr)
    BY <1>2, <1>4, <1>5, <1>7 DEF RequestSlash, RequestAt
  <2>2. RequestAt(ptr, at + 1, q, i, j, n)
    BY SMTT(30), <1>2, <1>4, <1>5, <1>7, RequestAtNext
  <2> QED BY <2>1, <2>2 DEF q
<1> QED BY <1>5, <1>6, <1>7

(* Any other byte of such a line is passed and the pointers stay those of
   the place. *)
LEMMA OtherReads ==
    ASSUME NEW i, NEW j, NEW n, Reads(i, j, n), RequestOther
    PROVE  \E p : Move(p) /\ RequestAt(p, at + 1, QueryAt(text, i, j), i, j, n)
<1> DEFINE q == QueryAt(text, i, j)
<1>1. On("request", Others \cup {NUL})
  BY DEF RequestOther
<1>2. /\ i \in Nat /\ j \in Nat /\ n \in Nat /\ at \in Nat /\ q \in Nat
      /\ VersionLast \in Nat /\ VersionSlash \in Nat
      /\ 1 <= i /\ i + 1 < j /\ j + 1 < n /\ j + 1 + VersionLast < n
      /\ 1 <= at /\ at <= n /\ i + 2 < q /\ q <= j + 1
  BY <1>1, ReadsAt
<1>3. /\ text[at] \in Others \cup {NUL} /\ RequestByteAt(i, j, n, at)
      /\ q # j + 1 => text[q - 1] = "?"
      /\ \A k \in i .. q - 2 : text[k] # "?"
  BY <1>1, ReadsAt
<1>4. RequestAt(ptr, at, q, i, j, n) /\ ptr \in Pointers
  BY <1>1, ReadsAt DEF Reads
<1> HIDE DEF q
<1>5. /\ at < i \/ (i + 1 < at /\ at < j) \/ (j < at /\ at <= j + 1 + VersionLast)
      /\ at + 1 = q => q = j + 1
  <2>1. text[at] # "?" /\ text[at] # "/"
    BY <1>3, BytesDiffer
  <2>2. at < i \/ (i + 1 < at /\ at < j) \/ (j < at /\ at <= j + 1 + VersionLast)
    BY <1>2, <1>3, BytesDiffer DEF RequestByteAt
  <2> QED BY <1>2, <1>3, <2>1, <2>2
<1>6. CASE at = j + 1
  <2> DEFINE p == [ptr EXCEPT !.version = at]
  <2>1. Move(p)
    BY <1>2, <1>4, <1>5, <1>6 DEF RequestOther, RequestAt
  <2>2. /\ p.method_end = ptr.method_end /\ p.path = ptr.path /\ p.uri = ptr.uri /\ p.host = ptr.host
        /\ p.query = ptr.query /\ p.uri_end = ptr.uri_end /\ p.version = at /\ p.newline = ptr.newline
    BY <1>4 DEF Pointers
  <2> HIDE DEF p
  <2>3. RequestAt(p, at + 1, q, i, j, n)
    BY <1>2, <1>4, <1>5, <1>6, <2>2, RequestAtNext
  <2> QED BY <2>1, <2>3 DEF q
<1>7. CASE at # j + 1
  <2>1. Move(ptr)
    BY <1>2, <1>4, <1>5, <1>7 DEF RequestOther, RequestAt
  <2>2. RequestAt(ptr, at + 1, q, i, j, n)
    BY SMTT(30), <1>2, <1>4, <1>5, <1>7, RequestAtNext
  <2> QED BY <2>1, <2>2 DEF q
<1> QED BY <1>5, <1>6, <1>7

(* A question mark of such a line is passed and the pointers stay those of
   the place. *)
LEMMA QuestionReads ==
    ASSUME NEW i, NEW j, NEW n, Reads(i, j, n), RequestQuestion
    PROVE  \E p : Move(p) /\ RequestAt(p, at + 1, QueryAt(text, i, j), i, j, n)
<1> DEFINE q == QueryAt(text, i, j)
<1>1. On("request", {"?"})
  BY DEF RequestQuestion
<1>2. /\ i \in Nat /\ j \in Nat /\ n \in Nat /\ at \in Nat /\ q \in Nat
      /\ VersionLast \in Nat /\ VersionSlash \in Nat
      /\ 1 <= i /\ i + 1 < j /\ j + 1 < n /\ j + 1 + VersionLast < n
      /\ 1 <= at /\ at <= n /\ i + 2 < q /\ q <= j + 1
  BY <1>1, ReadsAt
<1>3. /\ text[at] \in {"?"} /\ RequestByteAt(i, j, n, at)
      /\ q # j + 1 => text[q - 1] = "?"
      /\ \A k \in i .. q - 2 : text[k] # "?"
  BY <1>1, ReadsAt
<1>4. RequestAt(ptr, at, q, i, j, n) /\ ptr \in Pointers
  BY <1>1, ReadsAt DEF Reads
<1> HIDE DEF q
<1>5. /\ i + 1 < at /\ at < j /\ q # j + 1 /\ q <= at + 1
  <2>1. i + 1 < at /\ at < j
    BY <1>2, <1>3, BytesDiffer DEF RequestByteAt
  <2>2. ~(at <= q - 2)
    BY <1>2, <1>3, <2>1
  <2> QED BY <1>2, <2>1, <2>2
<1>6. CASE at + 1 = q
  <2> DEFINE p == [ptr EXCEPT !.query = at + 1]
  <2>1. Move(p)
    BY <1>2, <1>4, <1>5, <1>6 DEF RequestQuestion, RequestAt
  <2>2. /\ p.method_end = ptr.method_end /\ p.path = ptr.path /\ p.uri = ptr.uri /\ p.host = ptr.host
        /\ p.query = at + 1 /\ p.uri_end = ptr.uri_end /\ p.version = ptr.version /\ p.newline = ptr.newline
    BY <1>4 DEF Pointers
  <2> HIDE DEF p
  <2>3. RequestAt(p, at + 1, q, i, j, n)
    BY <1>2, <1>4, <1>5, <1>6, <2>2, RequestAtNext
  <2> QED BY <2>1, <2>3 DEF q
<1>7. CASE at + 1 # q
  <2>1. Move(ptr)
    BY <1>2, <1>4, <1>5, <1>7 DEF RequestQuestion, RequestAt
  <2>2. RequestAt(ptr, at + 1, q, i, j, n)
    BY <1>2, <1>4, <1>5, <1>7, RequestAtNext
  <2> QED BY <2>1, <2>2 DEF q
<1> QED BY <1>5, <1>6, <1>7

(* The end of such a line is passed and the pointers stay those of the
   place. *)
LEMMA NewlineReads ==
    ASSUME NEW i, NEW j, NEW n, Reads(i, j, n), RequestNewline
    PROVE  \E p : Move(p) /\ RequestAt(p, at + 1, QueryAt(text, i, j), i, j, n)
<1> DEFINE q == QueryAt(text, i, j)
<1>1. On("request", {"\n"})
  BY DEF RequestNewline
<1>2. /\ i \in Nat /\ j \in Nat /\ n \in Nat /\ at \in Nat /\ q \in Nat
      /\ VersionLast \in Nat /\ VersionSlash \in Nat
      /\ 1 <= i /\ i + 1 < j /\ j + 1 < n /\ j + 1 + VersionLast < n
      /\ 1 <= at /\ at <= n /\ i + 2 < q /\ q <= j + 1
  BY <1>1, ReadsAt
<1>3. /\ text[at] \in {"\n"} /\ RequestByteAt(i, j, n, at)
      /\ q # j + 1 => text[q - 1] = "?"
      /\ \A k \in i .. q - 2 : text[k] # "?"
  BY <1>1, ReadsAt
<1>4. RequestAt(ptr, at, q, i, j, n) /\ ptr \in Pointers
  BY <1>1, ReadsAt DEF Reads
<1> HIDE DEF q
<1>5. at = n
  BY <1>2, <1>3, BytesDiffer DEF RequestByteAt
<1>6. CASE at = n
  <2> DEFINE p == [ptr EXCEPT !.newline = at]
  <2>1. Move(p)
    BY <1>2, <1>4, <1>5, <1>6 DEF RequestNewline, RequestAt
  <2>2. /\ p.method_end = ptr.method_end /\ p.path = ptr.path /\ p.uri = ptr.uri /\ p.host = ptr.host
        /\ p.query = ptr.query /\ p.uri_end = ptr.uri_end /\ p.version = ptr.version /\ p.newline = at
    BY <1>4 DEF Pointers
  <2> HIDE DEF p
  <2>3. RequestAt(p, at + 1, q, i, j, n)
    BY <1>2, <1>4, <1>5, <1>6, <2>2, RequestAtNext
  <2> QED BY <2>1, <2>3 DEF q
<1> QED BY <1>5, <1>6

(* A carriage return of such a line is passed and the pointers stay those
   of the place. *)
LEMMA ReturnReads ==
    ASSUME NEW i, NEW j, NEW n, Reads(i, j, n), RequestReturn
    PROVE  \E p : Move(p) /\ RequestAt(p, at + 1, QueryAt(text, i, j), i, j, n)
<1> DEFINE q == QueryAt(text, i, j)
<1>1. On("request", {"\r"})
  BY DEF RequestReturn
<1>2. /\ i \in Nat /\ j \in Nat /\ n \in Nat /\ at \in Nat /\ q \in Nat
      /\ VersionLast \in Nat /\ VersionSlash \in Nat
      /\ 1 <= i /\ i + 1 < j /\ j + 1 < n /\ j + 1 + VersionLast < n
      /\ 1 <= at /\ at <= n /\ i + 2 < q /\ q <= j + 1
  BY <1>1, ReadsAt
<1>3. /\ text[at] \in {"\r"} /\ RequestByteAt(i, j, n, at)
      /\ q # j + 1 => text[q - 1] = "?"
      /\ \A k \in i .. q - 2 : text[k] # "?"
  BY <1>1, ReadsAt
<1>4. RequestAt(ptr, at, q, i, j, n) /\ ptr \in Pointers
  BY <1>1, ReadsAt DEF Reads
<1> HIDE DEF q
<1>5. j + 1 < at /\ at < n
  BY <1>2, <1>3, BytesDiffer DEF RequestByteAt
<1>6. CASE j + 1 < at
  <2>1. Move(ptr)
    BY <1>2, <1>4, <1>5, <1>6 DEF RequestReturn, RequestAt
  <2>2. RequestAt(ptr, at + 1, q, i, j, n)
    BY <1>2, <1>4, <1>5, <1>6, RequestAtNext
  <2> QED BY <2>1, <2>2 DEF q
<1> QED BY <1>5, <1>6

(* There is no colon in it.                                                *)
LEMMA ColonReads ==
    ASSUME NEW i, NEW j, NEW n, Reads(i, j, n), RequestColon PROVE FALSE
<1>1. On("request", {":"})
  BY DEF RequestColon
<1>2. text[at] = ":" /\ RequestByteAt(i, j, n, at)
  BY <1>1, ReadsAt
<1> QED BY <1>2, BytesDiffer DEF RequestByteAt

(* The bytes of a part do not depend on the others.                        *)
LEMMA SameSubSeq ==
    ASSUME NEW b, NEW t, NEW lo \in Int, NEW hi \in Int,
           \A k \in lo .. hi : b[k] \in Bytes /\ b[k] = t[k]
    PROVE  SubSeq(b, lo, hi) = SubSeq(t, lo, hi)
<1>1. /\ SubSeq(b, lo, hi) \in Seq(Bytes)
      /\ Len(SubSeq(b, lo, hi)) = IF lo <= hi THEN hi - lo + 1 ELSE 0
      /\ \A k \in 1 .. hi - lo + 1 : SubSeq(b, lo, hi)[k] = b[lo + k - 1]
  BY SubSeqProperties
<1>2. /\ SubSeq(t, lo, hi) \in Seq(Bytes)
      /\ Len(SubSeq(t, lo, hi)) = IF lo <= hi THEN hi - lo + 1 ELSE 0
      /\ \A k \in 1 .. hi - lo + 1 : SubSeq(t, lo, hi)[k] = t[lo + k - 1]
  BY SubSeqProperties
<1> DEFINE sb == SubSeq(b, lo, hi)
           st == SubSeq(t, lo, hi)
<1>3. \A k \in 1 .. hi - lo + 1 : b[lo + k - 1] = t[lo + k - 1]
  OBVIOUS
<1>4. Len(sb) = Len(st) /\ \A k \in 1 .. Len(sb) : sb[k] = st[k]
  BY <1>1, <1>2, <1>3
<1> QED
  <2> HIDE DEF sb, st
  <2>1. sb \in Seq(Bytes) /\ st \in Seq(Bytes)
    BY <1>1, <1>2 DEF sb, st
  <2>2. sb = st
    BY <1>4, <2>1, SeqEqual
  <2> QED BY <2>2 DEF sb, st

(* The zeros between the parts.                                            *)
LEMMA PartsProperties ==
    ASSUME buf \in Seq(Bytes)
    PROVE  /\ RequestParts \in Seq(Bytes) /\ Len(RequestParts) = Len(buf)
           /\ \A i \in 1 .. Len(buf) :
                 RequestParts[i] = IF i \in {ptr.method_end, ptr.newline, ptr.uri_end}
                                   THEN NUL ELSE buf[i]
<1> DEFINE ends == {ptr.method_end, ptr.newline, ptr.uri_end}
<1>1. RequestParts = Zeroed(buf, ends)
  BY DEF RequestParts
<1> HIDE DEF ends
<1>2. /\ RequestParts \in Seq(Bytes) /\ Len(RequestParts) = Len(buf)
      /\ \A i \in 1 .. Len(buf) : RequestParts[i] = IF i \in ends THEN NUL ELSE buf[i]
  BY <1>1, ZeroedProperties
<1> QED BY <1>2 DEF ends

(* At the end of such a line the pointers are at its parts.                *)
LEMMA ReadsEnd ==
    ASSUME NEW i, NEW j, NEW n, Reads(i, j, n), AtEnd("request")
    PROVE  /\ i \in Nat /\ j \in Nat /\ n \in Nat /\ QueryAt(text, i, j) \in Nat
           /\ 1 <= i /\ i + 1 < j /\ j + 1 < n
           /\ i + 2 < QueryAt(text, i, j) /\ QueryAt(text, i, j) <= j + 1
           /\ buf \in Seq(Bytes) /\ Len(buf) \in Nat /\ n <= Len(buf)
           /\ at = n + 1 /\ ptr.method_end = i /\ ptr.path = i + 1 /\ ptr.uri_end = j
           /\ ptr.version = j + 1 /\ ptr.newline = n /\ ptr.host = 0
           /\ ptr.query = IF QueryAt(text, i, j) = j + 1 THEN 0 ELSE QueryAt(text, i, j)
           /\ \A k \in 1 .. n : buf[k] = text[k] /\ RequestByteAt(i, j, n, k)
<1> DEFINE q == QueryAt(text, i, j)
<1>1. TypeOK /\ text \in Seq(Bytes) /\ Len(text) \in Nat /\ buf \in Seq(Bytes)
  BY LenProperties DEF Reads, ParserInv, TypeOK
<1>2. at \in Nat /\ at <= Len(buf) + 1 /\ Len(buf) \in Nat
  BY <1>1, ScanTyped
<1>3. /\ n \in 1 .. Len(text) /\ i \in 1 .. Len(text) /\ j \in 1 .. Len(text)
      /\ IsRequest(i, j, n)
  BY DEF Reads
<1>4. VersionLast \in Nat
  BY ParserAssumption
<1>5. /\ i + 1 < j /\ j + 1 + VersionLast < n /\ \A k \in 1 .. n : RequestByteAt(i, j, n, k)
  BY <1>1, <1>3, RequestLine
<1>6. q \in Nat /\ i + 2 < q /\ q <= j + 1
  BY <1>1, <1>3, QueryPlace
<1> HIDE DEF q
<1>7. RequestAt(ptr, at, q, i, j, n) /\ ptr.newline # 0
  BY DEF Reads, AtEnd, q
<1>8. at = n + 1 /\ n <= Len(buf) /\ 1 <= i /\ j + 1 < n /\ i \in Nat /\ j \in Nat /\ n \in Nat
  BY <1>1, <1>2, <1>3, <1>4, <1>5, <1>7 DEF RequestAt
<1>9. /\ ptr.method_end = i /\ ptr.path = i + 1 /\ ptr.uri_end = j
      /\ ptr.version = j + 1 /\ ptr.newline = n /\ ptr.host = 0
      /\ ptr.query = IF q = j + 1 THEN 0 ELSE q
  BY <1>5, <1>6, <1>7, <1>8 DEF RequestAt
<1>10. \A k \in 1 .. n : buf[k] = text[k]
  BY <1>2, <1>8 DEF Reads, Received, AtEnd
<1> QED BY <1>1, <1>2, <1>5, <1>6, <1>8, <1>9, <1>10 DEF q

(* The line is accepted.                                                   *)
LEMMA ReadsAccepted ==
    ASSUME NEW i, NEW j, NEW n, Reads(i, j, n), AtEnd("request")
    PROVE  Accepted
<1>1. /\ i \in Nat /\ j \in Nat /\ n \in Nat /\ 1 <= i /\ i + 1 < j /\ j + 1 < n
      /\ buf \in Seq(Bytes) /\ Len(buf) \in Nat /\ n <= Len(buf)
      /\ ptr.method_end = i /\ ptr.path = i + 1 /\ ptr.uri_end = j
      /\ ptr.version = j + 1 /\ ptr.newline = n /\ ptr.host = 0
      /\ \A k \in 1 .. n : buf[k] = text[k]
  BY ReadsEnd
<1>2. RequestComplete /\ AcceptedUri
  BY <1>1 DEF RequestComplete, AcceptedUri
<1>3. text \in Seq(Bytes) /\ \A k \in 1 .. n : buf[k] \in Bytes
  <2>1. text \in Seq(Bytes)
    BY DEF Reads, ParserInv, TypeOK
  <2>2. \A k \in 1 .. Len(buf) : buf[k] \in Bytes
    BY <1>1, ElementOfSeq
  <2> QED BY <1>1, <2>1, <2>2
<1>4. /\ SubSeq(text, 1, i - 1) \in Methods
      /\ \E v \in Versions : \A k \in 1 .. Len(v) :
                 j + k \in 1 .. n - 1 /\ text[j + k] = v[k]
  BY <1>3, RequestLine DEF Reads
<1>5. KnownMethod
  <2>1. \A k \in 1 .. i - 1 : buf[k] \in Bytes /\ buf[k] = text[k]
    BY <1>1, <1>3
  <2>2. SubSeq(buf, 1, i - 1) = SubSeq(text, 1, i - 1)
    BY <1>1, <2>1, SameSubSeq
  <2> QED BY <1>1, <1>4, <2>2 DEF KnownMethod
<1>6. KnownVersion
  <2>1. PICK v \in Versions :
            \A k \in 1 .. Len(v) : j + k \in 1 .. n - 1 /\ text[j + k] = v[k]
    BY <1>4
  <2>2. /\ Len(RequestParts) = Len(buf)
        /\ \A k \in 1 .. Len(buf) :
              RequestParts[k] = IF k \in {ptr.method_end, ptr.newline, ptr.uri_end}
                                THEN NUL ELSE buf[k]
    BY <1>1, PartsProperties
  <2>3. ASSUME NEW k \in 1 .. Len(v)
        PROVE  /\ (j + 1) + k - 1 \in 1 .. Len(RequestParts)
               /\ RequestParts[(j + 1) + k - 1] = v[k]
    <3>1. Len(v) \in Nat
      BY ParserAssumption
    <3>2. k \in Nat /\ k >= 1 /\ (j + 1) + k - 1 = j + k
      BY <1>1, <3>1
    <3> DEFINE m == j + k
    <3>3. m \in 1 .. n - 1 /\ text[m] = v[k] /\ m > j
      BY <1>1, <2>1, <3>2
    <3> HIDE DEF m
    <3>4. RequestParts[m] = buf[m] /\ buf[m] = text[m] /\ m \in 1 .. Len(RequestParts)
      BY <1>1, <2>2, <3>3
    <3> QED BY <3>2, <3>3, <3>4 DEF m
  <2>4. StartsAt(RequestParts, ptr.version, v)
    BY <1>1, <2>3 DEF StartsAt
  <2> QED BY <2>4 DEF KnownVersion
<1> QED BY <1>2, <1>5, <1>6 DEF Accepted

(* A string between two places, the second of them the first zero.         *)
LEMMA StringIs ==
    ASSUME NEW b \in Seq(Bytes), NEW lo \in 1 .. Len(b), NEW e \in lo .. Len(b), b[e] = NUL,
           \A k \in lo .. e - 1 : b[k] # NUL
    PROVE  String(b, lo) = SubSeq(b, lo, e - 1)
<1>1. Len(b) \in Nat
  BY LenProperties
<1>2. PICK end \in lo .. e :
          /\ b[end] = NUL /\ \A k \in lo .. end - 1 : b[k] # NUL
          /\ String(b, lo) = SubSeq(b, lo, end - 1)
  BY StringProperties
<1>3. end = e
  BY <1>1, <1>2
<1> QED BY <1>2, <1>3

(* It is split into its path and its query.                                *)
LEMMA ReadsGiven ==
    ASSUME NEW i, NEW j, NEW n, Reads(i, j, n), RequestAccepted
    PROVE  given' = [path |-> SubSeq(text, i + 1, QueryAt(text, i, j) - 2),
                     query |-> SubSeq(text, QueryAt(text, i, j), j - 1)]
<1> DEFINE q == QueryAt(text, i, j)
           b == RequestSplit
           first == IF ptr.query = 0 THEN ptr.uri_end ELSE ptr.query
<1>1. AtEnd("request")
  BY DEF RequestAccepted
<1>2. given' = [path |-> String(b, ptr.path), query |-> String(b, first)]
  BY DEF RequestAccepted, RequestSplit, Succeed
<1>3. /\ i \in Nat /\ j \in Nat /\ n \in Nat /\ q \in Nat
      /\ 1 <= i /\ i + 1 < j /\ j + 1 < n /\ i + 2 < q /\ q <= j + 1
      /\ buf \in Seq(Bytes) /\ Len(buf) \in Nat /\ n <= Len(buf)
      /\ ptr.method_end = i /\ ptr.path = i + 1 /\ ptr.uri_end = j /\ ptr.newline = n
      /\ ptr.query = IF q = j + 1 THEN 0 ELSE q
  BY <1>1, ReadsEnd
<1>4. \A k \in 1 .. n : buf[k] = text[k] /\ RequestByteAt(i, j, n, k)
  BY <1>1, ReadsEnd
<1>5. /\ b \in Seq(Bytes) /\ Len(b) = Len(buf)
      /\ \A k \in 1 .. Len(buf) :
            b[k] = IF k \in {ptr.method_end, ptr.newline, ptr.uri_end}
                      \/ (ptr.query # 0 /\ k = ptr.query - 1)
                   THEN NUL ELSE buf[k]
  BY SplitProperties DEF Reads
<1> HIDE DEF b, q
<1>6. \A k \in i + 1 .. j - 1 : text[k] # NUL /\ text[k] \in Bytes /\ k \in 1 .. n
  <2> SUFFICES ASSUME NEW k \in i + 1 .. j - 1
               PROVE  text[k] # NUL /\ text[k] \in Bytes /\ k \in 1 .. n
    OBVIOUS
  <2>1. k \in 1 .. n /\ k \in 1 .. Len(buf)
    BY <1>3
  <2>2. RequestByteAt(i, j, n, k) /\ buf[k] = text[k]
    BY <1>4, <2>1
  <2>3. text[k] \in Others \cup {"/", "?"}
    <3>1. VersionLast \in Nat
      BY ParserAssumption
    <3> QED BY <1>3, <2>2, <3>1 DEF RequestByteAt
  <2>4. buf[k] \in Bytes
    BY <1>3, <2>1, ElementOfSeq
  <2> QED BY <2>1, <2>2, <2>3, <2>4, BytesDiffer
<1>7. ASSUME NEW k \in i + 1 .. j - 1, k # q - 1
      PROVE  b[k] = text[k] /\ b[k] # NUL /\ b[k] \in Bytes
  <2>1. k \in 1 .. Len(buf) /\ k # i /\ k # j /\ k # n /\ buf[k] = text[k]
    BY <1>3, <1>4, <1>6
  <2>2. b[k] = buf[k]
    BY <1>3, <1>5, <1>7, <2>1
  <2> QED BY <1>6, <2>1, <2>2
<1>8. b[j] = NUL /\ b[q - 1] = NUL
  <2>1. j \in 1 .. Len(buf) /\ q - 1 \in 1 .. Len(buf)
    BY <1>3
  <2> QED BY <1>3, <1>5, <2>1
<1>9. String(b, ptr.path) = SubSeq(text, i + 1, q - 2)
  <2>1. i + 1 \in 1 .. Len(b) /\ q - 1 \in i + 1 .. Len(b)
    BY <1>3, <1>5
  <2>2. \A k \in i + 1 .. (q - 1) - 1 : b[k] = text[k] /\ b[k] # NUL /\ b[k] \in Bytes
    BY <1>3, <1>7
  <2>3. String(b, i + 1) = SubSeq(b, i + 1, (q - 1) - 1)
    BY <1>5, <1>8, <2>1, <2>2, StringIs
  <2>4. (q - 1) - 1 = q - 2 /\ q - 2 \in Int /\ i + 1 \in Int
    BY <1>3
  <2>5. \A k \in i + 1 .. q - 2 : b[k] \in Bytes /\ b[k] = text[k]
    BY <2>2, <2>4
  <2>6. SubSeq(b, i + 1, q - 2) = SubSeq(text, i + 1, q - 2)
    BY <2>4, <2>5, SameSubSeq
  <2> QED BY <1>3, <2>3, <2>4, <2>6
<1>10. String(b, first) = SubSeq(text, q, j - 1)
  <2>1. CASE q = j + 1
    <3>1. first = j
      BY <1>3, <2>1
    <3>2. j \in 1 .. Len(b) /\ j \in j .. Len(b) /\ \A k \in j .. j - 1 : b[k] # NUL
      BY <1>3, <1>5
    <3>3. String(b, j) = SubSeq(b, j, j - 1)
      BY <1>5, <1>8, <3>2, StringIs
    <3>4. SubSeq(b, j, j - 1) = <<>> /\ SubSeq(text, q, j - 1) = <<>>
      BY <1>3, <2>1, SubSeqEmpty
    <3> QED BY <3>1, <3>3, <3>4
  <2>2. CASE q # j + 1
    <3>1. first = q
      BY <1>3, <2>2
    <3>2. q \in 1 .. Len(b) /\ j \in q .. Len(b)
      BY <1>3, <1>5, <2>2
    <3>3. \A k \in q .. j - 1 : b[k] = text[k] /\ b[k] # NUL /\ b[k] \in Bytes
      BY <1>3, <1>7
    <3>4. String(b, q) = SubSeq(b, q, j - 1)
      BY <1>5, <1>8, <3>2, <3>3, StringIs
    <3>5. SubSeq(b, q, j - 1) = SubSeq(text, q, j - 1)
      BY <1>3, <3>3, SameSubSeq
    <3> QED BY <3>1, <3>4, <3>5
  <2> QED BY <2>1, <2>2
<1> QED BY <1>2, <1>9, <1>10 DEF q

(* The bytes of a request line stay as they were sent until it is split.   *)
LEMMA ReceivedStep == ParserInv /\ Received /\ [Next]_vars => Received'
<1> SUFFICES ASSUME ParserInv, Received, [Next]_vars, kind' = "request", pc' # "done"
             PROVE  \A k \in 1 .. Len(buf') : buf'[k] = text'[k]
  BY DEF Received
<1>1. CASE Receive
  <2>1. TypeOK /\ text \in Seq(Bytes) /\ buf \in Seq(Bytes)
    BY DEF ParserInv, TypeOK
  <2>2. Len(buf) \in Nat /\ Len(text) \in Nat
    BY <2>1, LenProperties
  <2>3. PICK m \in Len(buf) + 1 .. Len(text) : buf' = buf \o SubSeq(text, Len(buf) + 1, m)
    BY <1>1 DEF Receive
  <2>4. /\ text' = text /\ \A k \in 1 .. Len(buf) : buf[k] = text[k]
    BY <1>1 DEF Receive, Received
  <2> DEFINE more == SubSeq(text, Len(buf) + 1, m)
  <2>5. /\ more \in Seq(Bytes) /\ Len(more) = m - Len(buf)
        /\ \A k \in 1 .. m - Len(buf) : more[k] = text[Len(buf) + k]
    <3>1. \A k \in Len(buf) + 1 .. m : text[k] \in Bytes
      BY <2>1, <2>2, ElementOfSeq
    <3>2. /\ more \in Seq(Bytes)
          /\ Len(more) = IF Len(buf) + 1 <= m THEN m - (Len(buf) + 1) + 1 ELSE 0
          /\ \A k \in 1 .. m - (Len(buf) + 1) + 1 : more[k] = text[(Len(buf) + 1) + k - 1]
      BY <2>2, <3>1, SubSeqProperties
    <3> QED BY <2>2, <3>2
  <2> HIDE DEF more
  <2>6. buf' = buf \o more
    BY <2>3 DEF more
  <2>7. /\ Len(buf \o more) = Len(buf) + Len(more)
        /\ \A k \in 1 .. Len(buf) + Len(more) :
              (buf \o more)[k] = IF k <= Len(buf) THEN buf[k] ELSE more[k - Len(buf)]
    BY <2>1, <2>5, ConcatProperties
  <2> QED BY <2>2, <2>4, <2>5, <2>6, <2>7
<1>2. CASE UNCHANGED <<kind, text, buf>> /\ pc # "done"
  BY <1>2 DEF Received
<1>3. pc # "done" \/ Receive
  BY DEF Next, Request, Header, Done, Starved, vars, On, AtEnd, Hungry,
    RequestSpace, RequestColon, RequestSlash, RequestQuestion, RequestNewline, RequestReturn,
    RequestOther, RequestRejected, RequestAccepted, HeaderSpace, HeaderColon, HeaderNewline,
    HeaderReturn, HeaderOther, HeaderAccepted, HeadersEnd, HeaderRejected
<1>4. CASE Request \/ Hungry \/ Done \/ Starved \/ UNCHANGED vars
  <2>1. UNCHANGED <<kind, text, buf>>
    BY <1>4 DEF Request, Hungry, Done, Starved, vars, Move, Fail, Succeed, RequestSpace,
      RequestColon, RequestSlash, RequestQuestion, RequestNewline, RequestReturn, RequestOther,
      RequestRejected, RequestAccepted
  <2> QED BY <1>1, <1>2, <1>3, <2>1
<1>5. CASE Header
  <2>1. kind = "header" /\ kind' = kind
    BY <1>5 DEF Header, HeaderSpace, HeaderColon, HeaderNewline, HeaderReturn, HeaderOther,
                HeaderAccepted, HeadersEnd, HeaderRejected, On, AtEnd, Move, Succeed, Fail
  <2> QED BY <2>1
<1> QED BY <1>1, <1>4, <1>5 DEF Next

(* A step of the scan of a request line of the documented form.            *)
LEMMA RequestReadsStep ==
    ASSUME ParserInv, Received, [Next]_vars, kind = "request",
           NEW n \in 1 .. Len(text), NEW i \in 1 .. Len(text), NEW j \in 1 .. Len(text),
           IsRequest(i, j, n), ReadingRequest(i, j, n)
    PROVE  /\ kind' = kind /\ text' = text
           /\ pc' = "wait" => Len(buf') < n
           /\ pc' = "scan" => RequestAt(ptr', at', QueryAt(text, i, j), i, j, n)
           /\ pc' = "done" =>
                 /\ verdict' = "success" /\ at' = n + 1
                 /\ given' = [path |-> SubSeq(text, i + 1, QueryAt(text, i, j) - 2),
                              query |-> SubSeq(text, QueryAt(text, i, j), j - 1)]
<1> DEFINE q == QueryAt(text, i, j)
<1>1. /\ text \in Seq(Bytes) /\ Len(text) \in Nat /\ at \in Nat /\ Len(buf) \in Nat
      /\ at <= Len(buf) + 1
  BY LenProperties, ScanTyped DEF ParserInv, TypeOK
<1>2. i + 1 < j /\ j + 1 < n /\ q \in Nat /\ i + 2 < q /\ q <= j + 1 /\ 1 <= i /\ n \in Nat
      /\ i \in Nat /\ j \in Nat
  <2>1. VersionLast \in Nat
    BY ParserAssumption
  <2>2. i + 1 < j /\ j + 1 + VersionLast < n
    BY <1>1, RequestLine
  <2>3. q \in Nat /\ i + 2 < q /\ q <= j + 1
    BY <1>1, QueryPlace
  <2> HIDE DEF q
  <2> QED BY <1>1, <2>1, <2>2, <2>3
<1>3. pc = "scan" => Reads(i, j, n)
  BY DEF Reads, ReadingRequest
<1> HIDE DEF q
<1>4. CASE Receive
  <2>1. pc' = "scan" /\ at' = 1 /\ ptr' = Null /\ kind' = kind /\ text' = text
    BY <1>4 DEF Receive
  <2>2. RequestAt(ptr', at', q, i, j, n)
    BY <1>2, <2>1 DEF RequestAt, Null
  <2> QED BY <2>1, <2>2 DEF q
<1>5. CASE \/ RequestSpace \/ RequestColon \/ RequestSlash \/ RequestQuestion
           \/ RequestNewline \/ RequestReturn \/ RequestOther
  <2>1. pc = "scan"
    BY <1>5 DEF RequestSpace, RequestColon, RequestSlash, RequestQuestion, RequestNewline,
                RequestReturn, RequestOther, On
  <2>2. \E p : Move(p) /\ RequestAt(p, at + 1, q, i, j, n)
    BY <1>3, <1>5, <2>1, SpaceReads, ColonReads, SlashReads, QuestionReads, NewlineReads,
       ReturnReads, OtherReads DEF q
  <2>3. PICK p : Move(p) /\ RequestAt(p, at + 1, q, i, j, n)
    BY <2>2
  <2>4. /\ pc' = "scan" /\ ptr' = p /\ at' = at + 1 /\ kind' = kind /\ text' = text
    BY <2>1, <2>3 DEF Move
  <2> QED BY <2>3, <2>4 DEF q
<1>6. CASE RequestRejected
  <2>1. AtEnd("request") /\ pc = "scan" /\ ~Accepted
    BY <1>6 DEF RequestRejected, AtEnd
  <2> QED BY <1>3, <2>1, ReadsAccepted
<1>7. CASE RequestAccepted
  <2>1. AtEnd("request") /\ pc = "scan"
    BY <1>7 DEF RequestAccepted, AtEnd
  <2>2. Reads(i, j, n)
    BY <1>3, <2>1
  <2>3. at = n + 1
    BY <2>1, <2>2, ReadsEnd
  <2>4. /\ pc' = "done" /\ verdict' = "success" /\ at' = at /\ kind' = kind /\ text' = text
    BY <1>7 DEF RequestAccepted, Succeed
  <2> QED BY <1>7, <2>2, <2>3, <2>4, ReadsGiven
<1>8. CASE Hungry
  <2>1. /\ pc = "scan" /\ pc' = "wait" /\ ptr.newline = 0 /\ at > Len(buf) /\ buf' = buf
        /\ kind' = kind /\ text' = text
    BY <1>8 DEF Hungry
  <2>2. RequestAt(ptr, at, q, i, j, n)
    BY <1>3, <2>1 DEF Reads, q
  <2>3. at <= n
    BY <1>1, <1>2, <2>1, <2>2 DEF RequestAt
  <2> QED BY <1>1, <1>2, <2>1, <2>3
<1>9. CASE UNCHANGED vars
  BY <1>9 DEF vars, ReadingRequest
<1>10. CASE Header
  BY <1>10 DEF Header, HeaderSpace, HeaderColon, HeaderNewline, HeaderReturn, HeaderOther,
               HeaderAccepted, HeadersEnd, HeaderRejected, On, AtEnd
<1> QED
  BY <1>4, <1>5, <1>6, <1>7, <1>8, <1>9, <1>10 DEF Next, Request, Done, Starved

(* A step keeps the kind of line and what the peer sends.                  *)
LEMMA SameLine == [Next]_vars => kind' = kind /\ text' = text
BY DEF Next, Request, Header, Done, Starved, vars, Hungry, Receive, Move, Fail, Succeed,
    RequestSpace, RequestColon, RequestSlash, RequestQuestion, RequestNewline, RequestReturn,
    RequestOther, RequestRejected, RequestAccepted, HeaderSpace, HeaderColon, HeaderNewline,
    HeaderReturn, HeaderOther, HeaderAccepted, HeadersEnd, HeaderRejected

(* While a line of the documented form is scanned, the pointers are a
   function of the place the scan has reached. *)
LEMMA RequestInvariant == Spec => []RequestInv
<1>1. Init => Received /\ RequestInv
  <2> SUFFICES ASSUME Init PROVE Received /\ RequestInv
    OBVIOUS
  <2>1. Len(buf) = 0 /\ pc = "wait"
    BY DEF Init
  <2> QED BY <2>1 DEF Received, RequestInv, ReadingRequest
<1>2. ParserInv /\ Received /\ RequestInv /\ [Next]_vars => RequestInv'
  <2> SUFFICES ASSUME ParserInv, Received, RequestInv, [Next]_vars, kind' = "request",
                      NEW n \in 1 .. Len(text'), NEW i \in 1 .. Len(text'),
                      NEW j \in 1 .. Len(text'), IsRequest(i, j, n)'
               PROVE  ReadingRequest(i, j, n)'
    BY DEF RequestInv
  <2>1. kind' = kind /\ text' = text
    BY SameLine
  <2>2. IsRequest(i, j, n) /\ QueryAt(text, i, j)' = QueryAt(text, i, j)
    <3>1. IsRequest(i, j, n)
      BY <2>1 DEF IsRequest, FirstLine
    <3>2. QueryAt(text, i, j)' = QueryAt(text, i, j)
      BY <2>1
    <3> QED BY <3>1, <3>2
  <2>3. /\ n \in 1 .. Len(text) /\ i \in 1 .. Len(text) /\ j \in 1 .. Len(text)
        /\ kind = "request"
    BY <2>1
  <2>4. ReadingRequest(i, j, n)
    BY <2>2, <2>3 DEF RequestInv
  <2>5. /\ pc' = "wait" => Len(buf') < n
        /\ pc' = "scan" => RequestAt(ptr', at', QueryAt(text, i, j), i, j, n)
        /\ pc' = "done" =>
              /\ verdict' = "success" /\ at' = n + 1
              /\ given' = [path |-> SubSeq(text, i + 1, QueryAt(text, i, j) - 2),
                           query |-> SubSeq(text, QueryAt(text, i, j), j - 1)]
    BY <2>2, <2>3, <2>4, RequestReadsStep
  <2>6. RequestAt(ptr, at, QueryAt(text, i, j), i, j, n)' <=> RequestAt(ptr', at', QueryAt(text, i, j), i, j, n)
    BY <2>2 DEF RequestAt
  <2> QED BY <2>1, <2>2, <2>5, <2>6 DEF ReadingRequest
<1> QED BY <1>1, <1>2, ReceivedStep, ParserInvariant, PTL DEF Spec

(* A request line of the documented form is never rejected and is split    *)
(* into its path and its query, however the peer's segments cut it, for    *)
(* methods, versions, paths and queries of any length.                     *)
THEOREM RequestLinesRead == Spec => []RequestRead
<1>1. ParserInv /\ RequestInv => RequestRead
  <2> SUFFICES ASSUME ParserInv, RequestInv, kind = "request", pc # "scan",
                      NEW n \in 1 .. Len(text), NEW i \in 1 .. Len(text),
                      NEW j \in 1 .. Len(text), IsRequest(i, j, n)
               PROVE  /\ verdict # "error"
                      /\ pc = "wait" => Len(buf) < n
                      /\ verdict = "success" =>
                            /\ at = n + 1
                            /\ given = [path |-> SubSeq(text, i + 1, QueryAt(text, i, j) - 2),
                                        query |-> SubSeq(text, QueryAt(text, i, j), j - 1)]
    BY DEF RequestRead
  <2>1. ReadingRequest(i, j, n)
    BY DEF RequestInv
  <2>2. /\ pc # "done" => verdict = "hungry"
        /\ pc \in {"wait", "scan", "done"}
    BY DEF ParserInv, ScanInv, TypeOK
  <2> QED BY <2>1, <2>2 DEF ReadingRequest
<1> QED BY <1>1, ParserInvariant, RequestInvariant, PTL

-----------------------------------------------------------------------------
(* A header line of the documented form.                                   *)

(* What is scanned is what the peer sent, but for the bytes of the name,   *)
(* which the scan, or an earlier one, may have made lower case.            *)
AsSent(b, line, c) ==
    \A k \in 1 .. Len(b) : b[k] = line[k] \/ (k < c /\ b[k] = Lower(line[k]))

(* Those that the scan has passed are in lower case.                       *)
NameLowered(b, line, a, c) == \A k \in 1 .. c - 1 : k < a => b[k] = Lower(line[k])

(* What the pointers p are when the scan is at byte a: within the value    *)
(* its end may be noted at a space, and is forgotten at the next byte.     *)
HeaderAt(p, a, c, i, j, n) ==
    /\ a <= n + 1
    /\ p.colon = IF a <= c THEN 0 ELSE c
    /\ p.val = IF a <= i THEN 0 ELSE i
    /\ a <= i \/ a = j + 1 => p.val_end = 0
    /\ a > j + 1 => p.val_end = j + 1
    /\ p.newline = IF a <= n THEN 0 ELSE n

(* The scan of such a line is under way, or has given its parts.           *)
ReadingHeader(c, i, j, n) ==
    /\ pc # "done" => AsSent(buf, text, c)
    /\ pc = "wait" => Len(buf) < n
    /\ pc = "scan" => HeaderAt(ptr, at, c, i, j, n) /\ NameLowered(buf, text, at, c)
    /\ pc = "done" =>
          /\ verdict = "success" /\ at = n + 1
          /\ given = [key |-> [k \in 1 .. c - 1 |-> Lower(text[k])],
                      value |-> SubSeq(text, i, j)]

HeaderInv ==
    kind = "header" =>
      \A n, c, i, j \in 1 .. Len(text) : IsHeader(c, i, j, n) => ReadingHeader(c, i, j, n)

(* A byte that separates no parts.                                         *)
Plain(byte) == byte \notin {SP, ":", "\n", "\r", NUL}

(* Which byte such a line has at each of its places.                       *)
HeaderByteAt(c, i, j, n, byte, k) ==
    \/ k < c /\ Plain(byte)
    \/ k = c /\ byte = ":"
    \/ c < k /\ k < i /\ byte = SP
    \/ (k = i \/ k = j) /\ Plain(byte)
    \/ i < k /\ k < j /\ byte \notin {"\n", "\r", NUL}
    \/ j < k /\ k < n /\ byte \in {SP, "\r"}
    \/ k = n /\ byte = "\n"

(* Lower case is plain where the byte is, and does not change again.       *)
LEMMA LowerProperties ==
    ASSUME NEW byte
    PROVE  /\ Plain(byte) => Plain(Lower(byte))
           /\ Lower(Lower(byte)) = Lower(byte)
           /\ byte \in Bytes => Lower(byte) \in Bytes
<1>1. CASE byte \in DOMAIN LowerCase
  <2>1. Lower(byte) = LowerCase[byte]
    BY <1>1 DEF Lower
  <2>2. LowerCase[byte] \in Others /\ LowerCase[byte] \notin DOMAIN LowerCase
    BY <1>1, ParserAssumption
  <2>3. Lower(LowerCase[byte]) = LowerCase[byte]
    BY <2>2 DEF Lower
  <2> QED BY <2>1, <2>2, <2>3, BytesDiffer DEF Plain, Bytes
<1>2. CASE byte \notin DOMAIN LowerCase
  <2>1. Lower(byte) = byte
    BY <1>2 DEF Lower
  <2> QED BY <2>1
<1> QED BY <1>1, <1>2

(* A header line of the documented form, byte by byte: name, colon, spaces
   and value. *)
LEMMA HeaderLine ==
    ASSUME text \in Seq(Bytes), NEW n \in 1 .. Len(text), NEW c \in 1 .. Len(text),
           NEW i \in 1 .. Len(text), NEW j \in 1 .. Len(text), IsHeader(c, i, j, n)
    PROVE  /\ 1 < c /\ c < i /\ i <= j /\ j < n
           /\ \A k \in 1 .. n : HeaderByteAt(c, i, j, n, text[k], k)
<1>1. Len(text) \in Nat
  BY LenProperties
<1>2. /\ 1 < c /\ c < i /\ i <= j /\ j < n
      /\ text[n] = "\n" /\ \A k \in 1 .. n - 1 : text[k] # "\n"
      /\ \A k \in 1 .. c - 1 : Plain(text[k])
      /\ text[c] = ":"
      /\ \A k \in c + 1 .. i - 1 : text[k] = SP
      /\ Plain(text[i]) /\ Plain(text[j])
      /\ \A k \in i .. j : text[k] \notin {"\r", NUL}
      /\ \A k \in j + 1 .. n - 1 : text[k] = SP \/ text[k] = "\r"
  BY DEF IsHeader, FirstLine, Plain
<1>3. ASSUME NEW k \in 1 .. n PROVE HeaderByteAt(c, i, j, n, text[k], k)
  <2>1. CASE k < i
    BY <2>1, <1>1, <1>2 DEF HeaderByteAt
  <2>2. CASE i <= k /\ k <= j
    BY <2>2, <1>1, <1>2 DEF HeaderByteAt
  <2>3. CASE j < k
    BY <2>3, <1>1, <1>2 DEF HeaderByteAt
  <2> QED BY <2>1, <2>2, <2>3, <1>1
<1> QED BY <1>2, <1>3

(* A scan of such a line.                                                  *)
ReadsHeader(c, i, j, n) ==
    /\ ParserInv /\ kind = "header" /\ pc = "scan"
    /\ n \in 1 .. Len(text) /\ c \in 1 .. Len(text)
    /\ i \in 1 .. Len(text) /\ j \in 1 .. Len(text)
    /\ IsHeader(c, i, j, n) /\ AsSent(buf, text, c)
    /\ HeaderAt(ptr, at, c, i, j, n) /\ NameLowered(buf, text, at, c)

(* What the scan of a header line of the documented form knows of its
   place. *)
LEMMA HeaderReadsAt ==
    ASSUME NEW c, NEW i, NEW j, NEW n, NEW bytes, ReadsHeader(c, i, j, n), On("header", bytes)
    PROVE  /\ c \in Nat /\ i \in Nat /\ j \in Nat /\ n \in Nat /\ at \in Nat
           /\ 1 < c /\ c < i /\ i <= j /\ j < n /\ 1 <= at /\ at <= n
           /\ at <= Len(buf) /\ Len(buf) \in Nat /\ buf \in Seq(Bytes)
           /\ buf[at] \in bytes /\ HeaderByteAt(c, i, j, n, buf[at], at)
           /\ buf[at] = text[at] \/ (at < c /\ buf[at] = Lower(text[at]))
           /\ ptr \in Pointers /\ HeaderAt(ptr, at, c, i, j, n)
<1>1. TypeOK /\ text \in Seq(Bytes) /\ Len(text) \in Nat /\ buf \in Seq(Bytes)
  BY LenProperties DEF ReadsHeader, ParserInv, TypeOK
<1>2. /\ at \in Nat /\ 1 <= at /\ at <= Len(buf) /\ buf[at] \in bytes /\ ptr.newline = 0
      /\ ptr \in Pointers /\ Len(buf) \in Nat
  BY <1>1, ScanTyped DEF On
<1>3. /\ n \in 1 .. Len(text) /\ i \in 1 .. Len(text) /\ j \in 1 .. Len(text)
      /\ c \in 1 .. Len(text) /\ IsHeader(c, i, j, n) /\ HeaderAt(ptr, at, c, i, j, n)
  BY DEF ReadsHeader
<1>4. at <= n
  BY <1>1, <1>2, <1>3 DEF HeaderAt
<1>5. buf[at] = text[at] \/ (at < c /\ buf[at] = Lower(text[at]))
  <2>1. at \in 1 .. Len(buf)
    BY <1>2
  <2> QED BY <2>1 DEF ReadsHeader, AsSent
<1>6. 1 < c /\ c < i /\ i <= j /\ j < n /\ HeaderByteAt(c, i, j, n, text[at], at)
  <2>1. at \in 1 .. n
    BY <1>1, <1>2, <1>3, <1>4
  <2> QED BY <1>1, <1>3, <2>1, HeaderLine
<1>7. HeaderByteAt(c, i, j, n, buf[at], at)
  <2>1. CASE buf[at] = text[at]
    BY <1>6, <2>1
  <2>2. CASE at < c /\ buf[at] = Lower(text[at])
    <3>1. Plain(text[at])
      BY <1>1, <1>2, <1>3, <1>6, <2>2 DEF HeaderByteAt
    <3>2. Plain(buf[at])
      BY <2>2, <3>1, LowerProperties
    <3> QED BY <2>2, <3>2 DEF HeaderByteAt
  <2> QED BY <1>5, <2>1, <2>2
<1> QED BY <1>1, <1>2, <1>3, <1>4, <1>5, <1>6, <1>7

(* The moves of the scan on such a line, a byte each.                      *)
LEMMA HeaderSpaceReads ==
    ASSUME NEW c, NEW i, NEW j, NEW n, ReadsHeader(c, i, j, n), HeaderSpace
    PROVE  \E p : Move(p) /\ at >= c /\ HeaderAt(p, at + 1, c, i, j, n)
<1> DEFINE p == [ptr EXCEPT !.val_end = ValueEnd]
<1>1. On("header", {SP}) /\ Move(p)
  BY DEF HeaderSpace
<1>2. /\ c \in Nat /\ i \in Nat /\ j \in Nat /\ n \in Nat /\ at \in Nat
      /\ 1 < c /\ c < i /\ i <= j /\ j < n /\ 1 <= at /\ at <= n
      /\ buf[at] = SP /\ HeaderByteAt(c, i, j, n, buf[at], at)
      /\ ptr \in Pointers /\ HeaderAt(ptr, at, c, i, j, n)
  BY <1>1, HeaderReadsAt
<1>3. (c < at /\ at < i) \/ (i < at /\ at < j) \/ (j < at /\ at < n)
  BY <1>2, BytesDiffer DEF HeaderByteAt, Plain
<1>4. /\ p.colon = ptr.colon /\ p.val = ptr.val /\ p.newline = ptr.newline
      /\ p.val_end = (IF ptr.val # 0 /\ ptr.val_end = 0 THEN at ELSE ptr.val_end)
  BY <1>2 DEF Pointers, ValueEnd
<1> HIDE DEF p
<1>5. HeaderAt(p, at + 1, c, i, j, n)
  BY <1>2, <1>3, <1>4 DEF HeaderAt
<1> QED BY <1>1, <1>2, <1>3, <1>5

(* A colon of such a line ends the name or belongs to the value. *)
LEMMA HeaderColonReads ==
    ASSUME NEW c, NEW i, NEW j, NEW n, ReadsHeader(c, i, j, n), HeaderColon
    PROVE  \E p : Move(p) /\ at >= c /\ HeaderAt(p, at + 1, c, i, j, n)
<1> DEFINE p == [ptr EXCEPT !.colon = IF @ = 0 THEN at ELSE @]
<1>1. On("header", {":"}) /\ Move(p)
  BY DEF HeaderColon
<1>2. /\ c \in Nat /\ i \in Nat /\ j \in Nat /\ n \in Nat /\ at \in Nat
      /\ 1 < c /\ c < i /\ i <= j /\ j < n /\ 1 <= at /\ at <= n
      /\ buf[at] = ":" /\ HeaderByteAt(c, i, j, n, buf[at], at)
      /\ ptr \in Pointers /\ HeaderAt(ptr, at, c, i, j, n)
  BY <1>1, HeaderReadsAt
<1>3. at = c \/ (i < at /\ at < j)
  BY <1>2, BytesDiffer DEF HeaderByteAt, Plain
<1>4. /\ p.colon = (IF ptr.colon = 0 THEN at ELSE ptr.colon)
      /\ p.val = ptr.val /\ p.newline = ptr.newline /\ p.val_end = ptr.val_end
  BY <1>2 DEF Pointers
<1> HIDE DEF p
<1>5. HeaderAt(p, at + 1, c, i, j, n)
  BY <1>2, <1>3, <1>4 DEF HeaderAt
<1> QED BY <1>1, <1>2, <1>3, <1>5

(* The end of such a line is passed after the colon. *)
LEMMA HeaderNewlineReads ==
    ASSUME NEW c, NEW i, NEW j, NEW n, ReadsHeader(c, i, j, n), HeaderNewline
    PROVE  \E p : Move(p) /\ at >= c /\ HeaderAt(p, at + 1, c, i, j, n)
<1> DEFINE p == [ptr EXCEPT !.newline = at, !.val_end = ValueEnd]
<1>1. On("header", {"\n"}) /\ Move(p)
  BY DEF HeaderNewline
<1>2. /\ c \in Nat /\ i \in Nat /\ j \in Nat /\ n \in Nat /\ at \in Nat
      /\ 1 < c /\ c < i /\ i <= j /\ j < n /\ 1 <= at /\ at <= n
      /\ buf[at] = "\n" /\ HeaderByteAt(c, i, j, n, buf[at], at)
      /\ ptr \in Pointers /\ HeaderAt(ptr, at, c, i, j, n)
  BY <1>1, HeaderReadsAt
<1>3. at = n
  BY <1>2, BytesDiffer DEF HeaderByteAt, Plain
<1>4. /\ p.colon = ptr.colon /\ p.val = ptr.val /\ p.newline = at
      /\ p.val_end = (IF ptr.val # 0 /\ ptr.val_end = 0 THEN at ELSE ptr.val_end)
  BY <1>2 DEF Pointers, ValueEnd
<1> HIDE DEF p
<1>5. HeaderAt(p, at + 1, c, i, j, n)
  BY <1>2, <1>3, <1>4 DEF HeaderAt
<1> QED BY <1>1, <1>2, <1>3, <1>5

(* A carriage return of such a line is passed after the colon. *)
LEMMA HeaderReturnReads ==
    ASSUME NEW c, NEW i, NEW j, NEW n, ReadsHeader(c, i, j, n), HeaderReturn
    PROVE  \E p : Move(p) /\ at >= c /\ HeaderAt(p, at + 1, c, i, j, n)
<1> DEFINE p == [ptr EXCEPT !.val_end = ValueEnd]
<1>1. On("header", {"\r"}) /\ Move(p)
  BY DEF HeaderReturn
<1>2. /\ c \in Nat /\ i \in Nat /\ j \in Nat /\ n \in Nat /\ at \in Nat
      /\ 1 < c /\ c < i /\ i <= j /\ j < n /\ 1 <= at /\ at <= n
      /\ buf[at] = "\r" /\ HeaderByteAt(c, i, j, n, buf[at], at)
      /\ ptr \in Pointers /\ HeaderAt(ptr, at, c, i, j, n)
  BY <1>1, HeaderReadsAt
<1>3. j < at /\ at < n
  BY <1>2, BytesDiffer DEF HeaderByteAt, Plain
<1>4. /\ p.colon = ptr.colon /\ p.val = ptr.val /\ p.newline = ptr.newline
      /\ p.val_end = (IF ptr.val # 0 /\ ptr.val_end = 0 THEN at ELSE ptr.val_end)
  BY <1>2 DEF Pointers, ValueEnd
<1> HIDE DEF p
<1>5. HeaderAt(p, at + 1, c, i, j, n)
  BY <1>2, <1>3, <1>4 DEF HeaderAt
<1> QED BY <1>1, <1>2, <1>3, <1>5

(* Any other byte of such a line is passed; before the colon it is lowered
   in place. *)
LEMMA HeaderOtherReads ==
    ASSUME NEW c, NEW i, NEW j, NEW n, ReadsHeader(c, i, j, n), HeaderOther
    PROVE  /\ HeaderAt(ptr', at + 1, c, i, j, n) /\ at' = at + 1 /\ pc' = pc
           /\ AsSent(buf', text, c) /\ NameLowered(buf', text, at + 1, c)
<1> DEFINE p == [ptr EXCEPT !.val = IF ptr.colon # 0 /\ @ = 0 THEN at ELSE @, !.val_end = 0]
<1>1. On("header", Bytes \ {SP, ":", "\n", "\r"})
  BY DEF HeaderOther
<1>2. /\ ptr' = p /\ at' = at + 1 /\ pc' = pc
      /\ buf' = IF ptr.colon = 0 THEN [buf EXCEPT ![at] = Lower(buf[at])] ELSE buf
  BY DEF HeaderOther
<1>3. /\ c \in Nat /\ i \in Nat /\ j \in Nat /\ n \in Nat /\ at \in Nat
      /\ 1 < c /\ c < i /\ i <= j /\ j < n /\ 1 <= at /\ at <= n
      /\ buf[at] \in Bytes \ {SP, ":", "\n", "\r"} /\ HeaderByteAt(c, i, j, n, buf[at], at)
      /\ ptr \in Pointers /\ HeaderAt(ptr, at, c, i, j, n)
      /\ buf[at] = text[at] \/ (at < c /\ buf[at] = Lower(text[at]))
      /\ at <= Len(buf) /\ Len(buf) \in Nat /\ buf \in Seq(Bytes)
  BY <1>1, HeaderReadsAt
<1>4. at < c \/ (i <= at /\ at <= j)
  BY <1>3, BytesDiffer DEF HeaderByteAt, Plain
<1>5. /\ p.colon = ptr.colon /\ p.newline = ptr.newline /\ p.val_end = 0
      /\ p.val = (IF ptr.colon # 0 /\ ptr.val = 0 THEN at ELSE ptr.val)
  BY <1>3 DEF Pointers
<1> HIDE DEF p
<1>6. HeaderAt(p, at + 1, c, i, j, n)
  BY <1>3, <1>4, <1>5 DEF HeaderAt
<1>7. AsSent(buf, text, c) /\ NameLowered(buf, text, at, c)
  BY DEF ReadsHeader
<1>8. CASE at < c
  <2>1. ptr.colon = 0
    BY <1>3, <1>8 DEF HeaderAt
  <2>2. /\ Len(buf') = Len(buf) /\ buf'[at] = Lower(buf[at])
        /\ \A k \in 1 .. Len(buf) : k # at => buf'[k] = buf[k]
    <3>1. Lower(buf[at]) \in Bytes /\ at \in 1 .. Len(buf)
      BY <1>3, LowerProperties
    <3>2. buf' = [buf EXCEPT ![at] = Lower(buf[at])]
      BY <1>2, <2>1
    <3> QED BY <1>3, <3>1, <3>2, ExceptSeq
  <2>3. buf'[at] = Lower(text[at])
    BY <1>3, <2>2, LowerProperties
  <2>4. AsSent(buf', text, c)
    BY <1>7, <1>8, <2>2, <2>3 DEF AsSent
  <2>5. NameLowered(buf', text, at + 1, c)
    <3> SUFFICES ASSUME NEW k \in 1 .. c - 1, k < at + 1 PROVE buf'[k] = Lower(text[k])
      BY DEF NameLowered
    <3>1. CASE k = at
      BY <2>3, <3>1
    <3>2. CASE k # at
      <4>1. k < at /\ k \in 1 .. Len(buf)
        BY <1>3, <3>2
      <4>2. buf[k] = Lower(text[k])
        BY <1>7, <4>1 DEF NameLowered
      <4> QED BY <2>2, <3>2, <4>1, <4>2
    <3> QED BY <3>1, <3>2
  <2> QED BY <1>2, <1>6, <2>4, <2>5
<1>9. CASE i <= at
  <2>1. ptr.colon # 0
    BY <1>3, <1>9 DEF HeaderAt
  <2>2. buf' = buf
    BY <1>2, <2>1
  <2>3. NameLowered(buf', text, at + 1, c)
    BY <1>3, <1>7, <1>9, <2>2 DEF NameLowered
  <2> QED BY <1>2, <1>6, <1>7, <2>2, <2>3
<1> QED BY <1>4, <1>8, <1>9

(* At the end of such a line the pointers are at its parts, and the line   *)
(* gives its name in lower case and its value.                             *)
LEMMA HeaderReadsEnd ==
    ASSUME NEW c, NEW i, NEW j, NEW n, ReadsHeader(c, i, j, n), AtEnd("header")
    PROVE  HeaderComplete /\ at = n + 1
           /\ (HeaderAccepted =>
                 given' = [key |-> [k \in 1 .. c - 1 |-> Lower(text[k])],
                           value |-> SubSeq(text, i, j)])
<1>1. TypeOK /\ text \in Seq(Bytes) /\ Len(text) \in Nat /\ buf \in Seq(Bytes)
  BY LenProperties DEF ReadsHeader, ParserInv, TypeOK
<1>2. /\ at \in Nat /\ at <= Len(buf) + 1 /\ Len(buf) \in Nat /\ ptr.newline # 0
  BY <1>1, ScanTyped DEF AtEnd
<1>3. /\ n \in 1 .. Len(text) /\ i \in 1 .. Len(text) /\ j \in 1 .. Len(text)
      /\ c \in 1 .. Len(text) /\ IsHeader(c, i, j, n) /\ HeaderAt(ptr, at, c, i, j, n)
      /\ AsSent(buf, text, c) /\ NameLowered(buf, text, at, c)
  BY DEF ReadsHeader
<1>4. /\ 1 < c /\ c < i /\ i <= j /\ j < n
      /\ \A k \in 1 .. n : HeaderByteAt(c, i, j, n, text[k], k)
  BY <1>1, <1>3, HeaderLine
<1>5. /\ c \in Nat /\ i \in Nat /\ j \in Nat /\ n \in Nat /\ at = n + 1 /\ n <= Len(buf)
      /\ ptr.colon = c /\ ptr.val = i /\ ptr.val_end = j + 1
  BY <1>1, <1>2, <1>3, <1>4 DEF HeaderAt
<1>6. HeaderComplete
  BY <1>4, <1>5 DEF HeaderComplete
<1> DEFINE ends == {ptr.colon, ptr.val_end}
           b == Zeroed(buf, ends)
<1>7. /\ b \in Seq(Bytes) /\ Len(b) = Len(buf)
      /\ \A k \in 1 .. Len(buf) : b[k] = IF k = c \/ k = j + 1 THEN NUL ELSE buf[k]
  <2>1. /\ b \in Seq(Bytes) /\ Len(b) = Len(buf)
        /\ \A k \in 1 .. Len(buf) : b[k] = IF k \in ends THEN NUL ELSE buf[k]
    <3> HIDE DEF ends
    <3> QED BY <1>1, ZeroedProperties
  <2>2. \A k : k \in ends <=> k = c \/ k = j + 1
    BY <1>5
  <2> HIDE DEF b, ends
  <2> QED BY <2>1, <2>2
<1>8. SUFFICES ASSUME HeaderAccepted
               PROVE  given' = [key |-> [k \in 1 .. c - 1 |-> Lower(text[k])],
                                value |-> SubSeq(text, i, j)]
  BY <1>5, <1>6
<1>9. given' = [key |-> String(b, 1), value |-> String(b, ptr.val)]
  BY <1>8 DEF HeaderAccepted, Succeed
<1> HIDE DEF b
<1>10. \A k \in 1 .. Len(buf) : b[k] \in Bytes
  BY <1>7, ElementOfSeq
<1>11. String(b, 1) = [k \in 1 .. c - 1 |-> Lower(text[k])]
  <2>1. \A k \in 1 .. c - 1 : b[k] = Lower(text[k]) /\ b[k] # NUL
    <3> SUFFICES ASSUME NEW k \in 1 .. c - 1 PROVE b[k] = Lower(text[k]) /\ b[k] # NUL
      OBVIOUS
    <3>1. k \in 1 .. n /\ k \in 1 .. Len(buf) /\ k < at /\ k # c /\ k # j + 1 /\ k < c
      BY <1>4, <1>5
    <3>2. b[k] = buf[k] /\ buf[k] = Lower(text[k])
      BY <1>3, <1>7, <3>1 DEF NameLowered
    <3>3. Plain(text[k])
      BY <1>4, <1>5, <3>1 DEF HeaderByteAt
    <3>4. Plain(Lower(text[k]))
      BY <3>3, LowerProperties
    <3> QED BY <3>2, <3>4 DEF Plain
  <2>2. 1 \in 1 .. Len(b) /\ c \in 1 .. Len(b) /\ b[c] = NUL
    BY <1>4, <1>5, <1>7
  <2>3. String(b, 1) = SubSeq(b, 1, c - 1)
    BY <1>7, <2>1, <2>2, StringIs
  <2> DEFINE key == SubSeq(b, 1, c - 1)
             name == [k \in 1 .. c - 1 |-> Lower(text[k])]
  <2>4. /\ key \in Seq(Bytes) /\ Len(key) = c - 1
        /\ \A k \in 1 .. c - 1 : key[k] = b[k]
    <3>1. \A k \in 1 .. c - 1 : b[k] \in Bytes
      BY <1>4, <1>5, <1>10
    <3>2. /\ key \in Seq(Bytes) /\ Len(key) = IF 1 <= c - 1 THEN c - 1 - 1 + 1 ELSE 0
          /\ \A k \in 1 .. c - 1 - 1 + 1 : key[k] = b[1 + k - 1]
      BY <1>5, <3>1, SubSeqProperties
    <3> QED BY <1>4, <1>5, <3>2
  <2>5. /\ name \in Seq(Bytes) /\ Len(name) = c - 1
        /\ \A k \in 1 .. c - 1 : name[k] = Lower(text[k])
    <3>1. \A k \in 1 .. c - 1 : Lower(text[k]) \in Bytes
      <4> SUFFICES ASSUME NEW k \in 1 .. c - 1 PROVE Lower(text[k]) \in Bytes
        OBVIOUS
      <4>1. k \in 1 .. Len(buf)
        BY <1>4, <1>5
      <4> QED BY <1>10, <2>1, <4>1
    <3> QED BY <1>4, <1>5, <3>1
  <2> HIDE DEF key, name
  <2>6. key = name
    BY <2>1, <2>4, <2>5, SeqEqual
  <2> QED BY <2>3, <2>6 DEF key, name
<1>12. String(b, i) = SubSeq(text, i, j)
  <2>1. \A k \in i .. j : b[k] \in Bytes /\ b[k] = text[k] /\ b[k] # NUL
    <3> SUFFICES ASSUME NEW k \in i .. j PROVE b[k] \in Bytes /\ b[k] = text[k] /\ b[k] # NUL
      OBVIOUS
    <3>1. k \in 1 .. n /\ k \in 1 .. Len(buf) /\ k # c /\ k # j + 1 /\ ~(k < c) /\ i <= k /\ k <= j
      BY <1>4, <1>5
    <3>2. b[k] = buf[k] /\ buf[k] = text[k]
      BY <1>3, <1>7, <3>1 DEF AsSent
    <3>3. text[k] # NUL
      <4>1. HeaderByteAt(c, i, j, n, text[k], k)
        BY <1>4, <3>1
      <4> QED BY <1>4, <1>5, <3>1, <4>1 DEF HeaderByteAt, Plain
    <3> QED BY <1>10, <3>1, <3>2, <3>3
  <2>2. i \in 1 .. Len(b) /\ j + 1 \in i .. Len(b) /\ b[j + 1] = NUL /\ (j + 1) - 1 = j
    BY <1>4, <1>5, <1>7
  <2>3. \A k \in i .. (j + 1) - 1 : b[k] # NUL
    BY <2>1, <2>2
  <2>4. String(b, i) = SubSeq(b, i, (j + 1) - 1)
    BY <1>7, <2>2, <2>3, StringIs
  <2>5. SubSeq(b, i, j) = SubSeq(text, i, j)
    BY SMTT(30), <1>5, <2>1, SameSubSeq
  <2> QED BY <2>2, <2>4, <2>5
<1> QED BY <1>5, <1>9, <1>11, <1>12

(* More of the bytes arrive as they were sent.                             *)
LEMMA ReceivedAsSent ==
    ASSUME TypeOK, NEW c, AsSent(buf, text, c), Receive
    PROVE  AsSent(buf', text, c)
<1>1. text \in Seq(Bytes) /\ buf \in Seq(Bytes) /\ Len(buf) \in Nat /\ Len(text) \in Nat
  BY LenProperties DEF TypeOK
<1>2. PICK m \in Len(buf) + 1 .. Len(text) : buf' = buf \o SubSeq(text, Len(buf) + 1, m)
  BY DEF Receive
<1> DEFINE more == SubSeq(text, Len(buf) + 1, m)
<1>3. /\ more \in Seq(Bytes) /\ Len(more) = m - Len(buf)
      /\ \A k \in 1 .. m - Len(buf) : more[k] = text[Len(buf) + k]
  <2>1. \A k \in Len(buf) + 1 .. m : text[k] \in Bytes
    BY <1>1, ElementOfSeq
  <2>2. /\ more \in Seq(Bytes)
        /\ Len(more) = IF Len(buf) + 1 <= m THEN m - (Len(buf) + 1) + 1 ELSE 0
        /\ \A k \in 1 .. m - (Len(buf) + 1) + 1 : more[k] = text[(Len(buf) + 1) + k - 1]
    BY <1>1, <2>1, SubSeqProperties
  <2> QED BY <1>1, <2>2
<1> HIDE DEF more
<1>4. buf' = buf \o more
  BY <1>2 DEF more
<1>5. /\ Len(buf \o more) = Len(buf) + Len(more)
      /\ \A k \in 1 .. Len(buf) + Len(more) :
            (buf \o more)[k] = IF k <= Len(buf) THEN buf[k] ELSE more[k - Len(buf)]
  BY <1>1, <1>3, ConcatProperties
<1>6. ASSUME NEW k \in 1 .. Len(buf')
      PROVE  buf'[k] = text[k] \/ (k < c /\ buf'[k] = Lower(text[k]))
  <2>1. CASE k <= Len(buf)
    <3>1. k \in 1 .. Len(buf) /\ buf'[k] = buf[k]
      BY <1>1, <1>3, <1>4, <1>5, <2>1
    <3> QED BY <3>1 DEF AsSent
  <2>2. CASE k > Len(buf)
    <3>1. buf'[k] = text[k]
      BY <1>1, <1>3, <1>4, <1>5, <2>2
    <3> QED BY <3>1
  <2> QED BY <1>1, <1>3, <1>4, <1>5, <2>1, <2>2
<1> QED BY <1>6 DEF AsSent

(* A step of the scan of a header line of the documented form.             *)
LEMMA HeaderReadsStep ==
    ASSUME ParserInv, [Next]_vars, kind = "header",
           NEW n \in 1 .. Len(text), NEW c \in 1 .. Len(text),
           NEW i \in 1 .. Len(text), NEW j \in 1 .. Len(text),
           IsHeader(c, i, j, n), ReadingHeader(c, i, j, n)
    PROVE  /\ pc' # "done" => AsSent(buf', text, c)
           /\ pc' = "wait" => Len(buf') < n
           /\ pc' = "scan" => HeaderAt(ptr', at', c, i, j, n) /\ NameLowered(buf', text, at', c)
           /\ pc' = "done" =>
                 /\ verdict' = "success" /\ at' = n + 1
                 /\ given' = [key |-> [k \in 1 .. c - 1 |-> Lower(text[k])],
                              value |-> SubSeq(text, i, j)]
<1>1. /\ text \in Seq(Bytes) /\ Len(text) \in Nat /\ at \in Nat /\ Len(buf) \in Nat
      /\ at <= Len(buf) + 1 /\ TypeOK
  BY LenProperties, ScanTyped DEF ParserInv, TypeOK
<1>2. 1 < c /\ c < i /\ i <= j /\ j < n /\ c \in Nat /\ i \in Nat /\ j \in Nat /\ n \in Nat
  BY <1>1, HeaderLine
<1>3. pc = "scan" => ReadsHeader(c, i, j, n)
  BY DEF ReadsHeader, ReadingHeader
<1>4. pc # "done" => AsSent(buf, text, c)
  BY DEF ReadingHeader
<1>5. CASE Receive
  <2>1. pc = "wait" /\ pc' = "scan" /\ at' = 1 /\ ptr' = Null
    BY <1>5 DEF Receive
  <2>2. HeaderAt(ptr', at', c, i, j, n) /\ NameLowered(buf', text, at', c)
    BY <1>2, <2>1 DEF HeaderAt, NameLowered, Null
  <2> QED BY <1>1, <1>4, <1>5, <2>1, <2>2, ReceivedAsSent
<1>6. CASE HeaderSpace \/ HeaderColon \/ HeaderNewline \/ HeaderReturn
  <2>1. pc = "scan"
    BY <1>6 DEF HeaderSpace, HeaderColon, HeaderNewline, HeaderReturn, On
  <2>2. \E p : Move(p) /\ at >= c /\ HeaderAt(p, at + 1, c, i, j, n)
    BY <1>3, <1>6, <2>1, HeaderSpaceReads, HeaderColonReads, HeaderNewlineReads,
       HeaderReturnReads
  <2>3. PICK p : Move(p) /\ at >= c /\ HeaderAt(p, at + 1, c, i, j, n)
    BY <2>2
  <2>4. pc' = "scan" /\ ptr' = p /\ at' = at + 1 /\ buf' = buf
    BY <2>1, <2>3 DEF Move
  <2>5. NameLowered(buf', text, at', c)
    <3>1. NameLowered(buf, text, at, c)
      BY <1>3, <2>1 DEF ReadsHeader
    <3> QED BY <1>1, <1>2, <2>3, <2>4, <3>1 DEF NameLowered
  <2> QED BY <1>4, <2>1, <2>3, <2>4, <2>5
<1>7. CASE HeaderOther
  <2>1. pc = "scan"
    BY <1>7 DEF HeaderOther, On
  <2>2. /\ HeaderAt(ptr', at + 1, c, i, j, n) /\ at' = at + 1 /\ pc' = pc
        /\ AsSent(buf', text, c) /\ NameLowered(buf', text, at + 1, c)
    BY <1>3, <1>7, <2>1, HeaderOtherReads
  <2> QED BY <2>1, <2>2
<1>8. CASE HeaderAccepted
  <2>1. AtEnd("header") /\ pc = "scan" /\ pc' = "done" /\ verdict' = "success" /\ at' = at
    BY <1>8 DEF HeaderAccepted, AtEnd, Succeed
  <2> QED BY <1>3, <1>8, <2>1, HeaderReadsEnd
<1>9. CASE HeadersEnd \/ HeaderRejected
  <2>1. AtEnd("header") /\ pc = "scan" /\ ~HeaderComplete
    BY <1>9 DEF HeadersEnd, HeaderRejected, AtEnd
  <2> QED BY <1>3, <2>1, HeaderReadsEnd
<1>10. CASE Hungry
  <2>1. pc = "scan" /\ pc' = "wait" /\ ptr.newline = 0 /\ at > Len(buf) /\ buf' = buf
    BY <1>10 DEF Hungry
  <2>2. HeaderAt(ptr, at, c, i, j, n)
    BY <1>3, <2>1 DEF ReadsHeader
  <2>3. at <= n
    BY <1>1, <1>2, <2>1, <2>2 DEF HeaderAt
  <2> QED BY <1>1, <1>2, <1>4, <2>1, <2>3
<1>11. CASE UNCHANGED vars
  BY <1>11 DEF vars, ReadingHeader
<1>12. CASE Request
  BY <1>12 DEF Request, On, AtEnd, RequestSpace, RequestColon, RequestSlash, RequestQuestion,
               RequestNewline, RequestReturn, RequestOther, RequestRejected, RequestAccepted
<1> QED
  BY <1>5, <1>6, <1>7, <1>8, <1>9, <1>10, <1>11, <1>12 DEF Next, Header, Done, Starved

(* While a header line of the documented form is scanned, its name is
   lowered up to the place and its value is as it was sent. *)
LEMMA HeaderInvariant == Spec => []HeaderInv
<1>1. Init => HeaderInv
  <2> SUFFICES ASSUME Init PROVE HeaderInv
    OBVIOUS
  <2>1. Len(buf) = 0 /\ pc = "wait"
    BY DEF Init
  <2> QED BY <2>1 DEF HeaderInv, ReadingHeader, AsSent
<1>2. ParserInv /\ HeaderInv /\ [Next]_vars => HeaderInv'
  <2> SUFFICES ASSUME ParserInv, HeaderInv, [Next]_vars, kind' = "header",
                      NEW n \in 1 .. Len(text'), NEW c \in 1 .. Len(text'),
                      NEW i \in 1 .. Len(text'), NEW j \in 1 .. Len(text'),
                      IsHeader(c, i, j, n)'
               PROVE  ReadingHeader(c, i, j, n)'
    BY DEF HeaderInv
  <2>1. kind' = kind /\ text' = text
    BY SameLine
  <2>2. IsHeader(c, i, j, n)
    BY <2>1 DEF IsHeader, FirstLine
  <2>3. /\ n \in 1 .. Len(text) /\ i \in 1 .. Len(text) /\ j \in 1 .. Len(text)
        /\ c \in 1 .. Len(text) /\ kind = "header"
    BY <2>1
  <2>4. ReadingHeader(c, i, j, n)
    BY <2>2, <2>3 DEF HeaderInv
  <2>5. /\ pc' # "done" => AsSent(buf', text, c)
        /\ pc' = "wait" => Len(buf') < n
        /\ pc' = "scan" => HeaderAt(ptr', at', c, i, j, n) /\ NameLowered(buf', text, at', c)
        /\ pc' = "done" =>
              /\ verdict' = "success" /\ at' = n + 1
              /\ given' = [key |-> [k \in 1 .. c - 1 |-> Lower(text[k])],
                           value |-> SubSeq(text, i, j)]
    BY <2>2, <2>3, <2>4, HeaderReadsStep
  <2> QED BY <2>1, <2>5 DEF ReadingHeader
<1> QED BY <1>1, <1>2, ParserInvariant, PTL DEF Spec

(* A header line of the documented form is never rejected: its name is     *)
(* delivered in lower case and its value without the spaces around it, for *)
(* names and values of any length and segments cut anywhere, though every  *)
(* attempt changes the name where it stands.                               *)
THEOREM HeaderLinesRead == Spec => []HeaderRead
<1>1. ParserInv /\ HeaderInv => HeaderRead
  <2> SUFFICES ASSUME ParserInv, HeaderInv, kind = "header", pc # "scan",
                      NEW n \in 1 .. Len(text), NEW c \in 1 .. Len(text),
                      NEW i \in 1 .. Len(text), NEW j \in 1 .. Len(text), IsHeader(c, i, j, n)
               PROVE  /\ verdict # "error"
                      /\ pc = "wait" => Len(buf) < n
                      /\ verdict = "success" =>
                            /\ at = n + 1
                            /\ given = [key |-> [k \in 1 .. c - 1 |-> Lower(text[k])],
                                        value |-> SubSeq(text, i, j)]
    BY DEF HeaderRead
  <2>1. ReadingHeader(c, i, j, n)
    BY DEF HeaderInv
  <2>2. /\ pc # "done" => verdict = "hungry"
        /\ pc \in {"wait", "scan", "done"}
    BY DEF ParserInv, ScanInv, TypeOK
  <2> QED BY <2>1, <2>2 DEF ReadingHeader
<1> QED BY <1>1, ParserInvariant, HeaderInvariant, PTL
=============================================================================
