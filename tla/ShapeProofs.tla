---------------------------- MODULE ShapeProofs ----------------------------
(***************************************************************************)
(* Proofs about the form of the response that Client sends, for any calls  *)
(* of the application and any cut of the output: a response that is        *)
(* completed, and to which nothing happened of what the marks of the       *)
(* history name, is a status line, its headers, a blank line and the body, *)
(* with the length that the body has.                                      *)
(***************************************************************************)
EXTENDS ResponseProofs

-----------------------------------------------------------------------------
(* The parts of a response.                                                *)

Start == <<Token("status")>>

Blank == <<Token("blank")>>

(* The headers, of which the stream knows those it need not add.           *)
Heading(h, sent) ==
    /\ h \in Seq(Tokens) /\ Only(h, Names \cup {"other"})
    /\ \A x \in Names : x \in sent <=> Has(h, x)

Content(b) == b \in Seq(Tokens) /\ Only(b, {"body"})

Whole(h, b) == (Start \o h) \o (Blank \o b)

(* One of the headers is a length, and it is n.                            *)
OneLength(h, n) ==
    \E i \in 1 .. Len(h) :
        /\ h[i].name = "length" /\ h[i].n = n
        /\ \A j \in 1 .. Len(h) : h[j].name = "length" => j = i

(* A response whose headers are open.                                      *)
HeadOf(w, sent) == \E h \in Seq(Tokens) : Heading(h, sent) /\ w = Start \o h

(* One whose headers are closed; the blank line may be known to be at off. *)
BodyOf(w, sent, known, off) ==
    \E h, b \in Seq(Tokens) :
        /\ Heading(h, sent) /\ Content(b) /\ w = Whole(h, b)
        /\ {"server", "connection"} \subseteq sent
        /\ known => off = Len(h) + 2

(* One that is flushed; explicit if the application gave a length.         *)
DoneOf(w, sent, explicit) ==
    \E h, b \in Seq(Tokens) :
        /\ Heading(h, sent) /\ Content(b) /\ w = Whole(h, b)
        /\ {"server", "connection", "length"} \subseteq sent
        /\ explicit \/ OneLength(h, Len(b))

(* What a stream in each of its states has of a response, when w was sent. *)
Shape(s, w, explicit) ==
    /\ s.state = SEND_HEADER => HeadOf(w \o s.buf, s.sent)
    /\ s.state = SEND_BODY => BodyOf(w \o s.buf, s.sent, w = <<>>, s.bodyOff)
    /\ s.state = DONE => DoneOf(w \o s.buf, s.sent, explicit)
    /\ explicit \/ ( /\ s.state \in {SEND_HEADER, SEND_BODY} => "length" \notin s.sent
                     /\ s.state >= SEND_HEADER => s.clen = AUTO )

-----------------------------------------------------------------------------
(* How the parts grow.                                                     *)

(* A sequence of one token.                                                *)
LEMMA OneToken ==
    ASSUME NEW e \in Tokens
    PROVE  /\ <<e>> \in Seq(Tokens) /\ Len(<<e>>) = 1 /\ <<e>>[1] = e
           /\ Only(<<e>>, {e.name}) /\ \A x : Has(<<e>>, x) <=> x = e.name
<1>. DEFINE w == <<e>>
<1>1. w \in Seq(Tokens) /\ Len(w) = 1 /\ w[1] = e
  OBVIOUS
<1>. HIDE DEF w
<1>2. \A i : i \in 1 .. 1 <=> i = 1
  OBVIOUS
<1>3. Only(w, {e.name}) /\ \A x : Has(w, x) <=> x = e.name
  BY <1>1, <1>2 DEF Only, Has
<1>. QED  BY <1>1, <1>3 DEF w

(* The status line and the blank line are such.                            *)
LEMMA LineTokens ==
    /\ Start \in Seq(Tokens) /\ Len(Start) = 1 /\ Start[1].name = "status"
    /\ Blank \in Seq(Tokens) /\ Len(Blank) = 1 /\ Blank[1].name = "blank"
<1>1. /\ Token("status") \in Tokens /\ Token("status").name = "status"
      /\ Token("blank") \in Tokens /\ Token("blank").name = "blank"
  BY TokenTyped DEF TokenNames
<1>. QED  BY <1>1 DEF Start, Blank

(* Headers are added to headers.                                           *)
LEMMA HeadingGrows ==
    ASSUME NEW h, NEW sent, Heading(h, sent), NEW added \in Seq(Tokens), NEW now,
           Only(added, Names \cup {"other"}),
           \A x \in Names : x \in now <=> x \in sent \/ Has(added, x)
    PROVE  Heading(h \o added, now) /\ Len(h \o added) = Len(h) + Len(added)
<1>1. /\ h \in Seq(Tokens) /\ Only(h, Names \cup {"other"})
      /\ \A x \in Names : x \in sent <=> Has(h, x)
  BY DEF Heading
<1>2. /\ h \o added \in Seq(Tokens) /\ Len(h \o added) = Len(h) + Len(added)
      /\ \A name : Has(h \o added, name) <=> Has(h, name) \/ Has(added, name)
      /\ \A names : Only(h \o added, names) <=> Only(h, names) /\ Only(added, names)
  BY <1>1, ConcatNames
<1>. DEFINE u == h \o added
<1>. HIDE DEF u
<1>3. /\ u \in Seq(Tokens) /\ \A name : Has(u, name) <=> Has(h, name) \/ Has(added, name)
      /\ Only(u, Names \cup {"other"}) /\ Len(u) = Len(h) + Len(added)
  BY <1>1, <1>2 DEF u
<1>4. Heading(u, now)
  BY <1>1, <1>3 DEF Heading
<1>. QED  BY <1>3, <1>4 DEF u

(* Headers not sent before can be added to a well-formed head. *)
LEMMA HeadGrows ==
    ASSUME NEW w, NEW sent, HeadOf(w, sent), NEW added \in Seq(Tokens), NEW now,
           Only(added, Names \cup {"other"}),
           \A x \in Names : x \in now <=> x \in sent \/ Has(added, x)
    PROVE  HeadOf(w \o added, now)
<1>1. PICK h \in Seq(Tokens) : Heading(h, sent) /\ w = Start \o h
  BY DEF HeadOf
<1>2. Heading(h \o added, now)
  BY <1>1, HeadingGrows
<1>3. h \o added \in Seq(Tokens)
  BY <1>2 DEF Heading
<1>4. w \o added = Start \o (h \o added)
  BY <1>1, LineTokens, Together
<1>. QED  BY <1>2, <1>3, <1>4 DEF HeadOf

(* The headers are closed: missing ones are added, and the blank line.     *)
LEMMA HeadCloses ==
    ASSUME NEW w, NEW sent, HeadOf(w, sent), NEW added \in Seq(Tokens), NEW now,
           Only(added, Names), NEW known, NEW off,
           \A x \in Names : x \in now <=> x \in sent \/ Has(added, x),
           {"server", "connection"} \subseteq now,
           known => off = Len(w \o (added \o Blank))
    PROVE  BodyOf(w \o (added \o Blank), now, known, off)
<1>1. PICK h \in Seq(Tokens) : Heading(h, sent) /\ w = Start \o h
  BY DEF HeadOf
<1>. DEFINE h2 == h \o added
            none == SubSeq(Blank, 1, 0)
<1>2. Only(added, Names \cup {"other"})
  BY DEF Only
<1>3. Heading(h2, now) /\ h2 \in Seq(Tokens)
  <2>1. Heading(h \o added, now)
    BY <1>1, <1>2, HeadingGrows
  <2>. QED  BY <2>1 DEF Heading
<1>4. none = <<>> /\ none \in Seq(Tokens) /\ Len(none) = 0
  BY SubSeqEmpty, EmptySeq
<1>. HIDE DEF none
<1>5. Content(none)
  BY <1>4 DEF Content, Only
<1>6. Blank \o none = Blank
  BY <1>4, LineTokens, ConcatEmptySeq
<1>7. w \o (added \o Blank) = (Start \o h2) \o Blank
  <2>1. w \o (added \o Blank) = (w \o added) \o Blank
    <3>1. w \in Seq(Tokens)
      BY <1>1, LineTokens, ConcatProperties
    <3>. QED  BY <3>1, LineTokens, Together
  <2>2. w \o added = Start \o h2
    BY <1>1, LineTokens, Together
  <2>. QED  BY <2>1, <2>2
<1>8. w \o (added \o Blank) = Whole(h2, none)
  BY <1>6, <1>7 DEF Whole
<1>. HIDE DEF h2
<1>9. Len((Start \o h2) \o Blank) = Len(h2) + 2
  <2>1. Start \o h2 \in Seq(Tokens) /\ Len(Start \o h2) = 1 + Len(h2) /\ Len(h2) \in Nat
    <3>1. Start \in Seq(Tokens) /\ h2 \in Seq(Tokens) /\ Len(Start) = 1
      BY <1>3, LineTokens
    <3>2. Start \o h2 \in Seq(Tokens) /\ Len(Start \o h2) = Len(Start) + Len(h2)
      BY <3>1, ConcatNames
    <3>3. Len(h2) \in Nat
      BY <3>1, LenProperties
    <3>. QED  BY <3>1, <3>2, <3>3
  <2>2. Len((Start \o h2) \o Blank) = Len(Start \o h2) + 1
    BY <2>1, LineTokens, ConcatProperties
  <2>. QED  BY <2>1, <2>2
<1>10. known => off = Len(h2) + 2
  BY <1>7, <1>9
<1>. QED  BY <1>3, <1>4, <1>5, <1>8, <1>10 DEF BodyOf

(* The body grows.                                                         *)
LEMMA BodyGrows ==
    ASSUME NEW w, NEW sent, NEW known, NEW off, BodyOf(w, sent, known, off)
    PROVE  BodyOf(w \o <<Token("body")>>, sent, known, off)
<1>. DEFINE e == <<Token("body")>>
<1>1. PICK h, b \in Seq(Tokens) :
        /\ Heading(h, sent) /\ Content(b) /\ w = Whole(h, b)
        /\ {"server", "connection"} \subseteq sent
        /\ known => off = Len(h) + 2
  BY DEF BodyOf
<1>2. e \in Seq(Tokens) /\ Only(e, {"body"})
  <2>1. Token("body") \in Tokens /\ Token("body").name = "body"
    BY TokenTyped DEF TokenNames
  <2>2. e \in Seq(Tokens) /\ Only(e, {Token("body").name})
    BY <2>1, OneToken
  <2>. QED  BY <2>1, <2>2
<1>. HIDE DEF e
<1>3. b \o e \in Seq(Tokens) /\ Only(b \o e, {"body"})
  BY <1>1, <1>2, ConcatNames DEF Content
<1>4. Whole(h, b) \o e = Whole(h, b \o e)
  <2>1. Start \o h \in Seq(Tokens) /\ Blank \o b \in Seq(Tokens)
    BY <1>1, LineTokens, ConcatProperties
  <2>2. (Blank \o b) \o e = Blank \o (b \o e)
    BY ZenonT(40), <1>1, <1>2, LineTokens, Together
  <2>3. ((Start \o h) \o (Blank \o b)) \o e = (Start \o h) \o ((Blank \o b) \o e)
    BY ZenonT(40), <2>1, <1>2, Together
  <2>. QED  BY <2>2, <2>3 DEF Whole
<1>5. BodyOf(w \o e, sent, known, off)
  <2>1. Content(b \o e) /\ w \o e = Whole(h, b \o e)
    BY <1>1, <1>3, <1>4 DEF Content
  <2>. QED  BY <2>1, <1>1, <1>3 DEF BodyOf
<1>. QED  BY <1>5 DEF e

(* What is inserted between two parts follows the first of them.           *)
LEMMA InsertBetween ==
    ASSUME NEW u \in Seq(Tokens), NEW v \in Seq(Tokens), NEW e \in Tokens
    PROVE  InsertAt(u \o v, Len(u) + 1, e) = (u \o <<e>>) \o v
<1>. DEFINE one == <<e>>
            s == u \o v
            k == Len(u) + 1
            ue == u \o one
            l == InsertAt(s, k, e)
            r == ue \o v
<1>1. Len(u) \in Nat /\ Len(v) \in Nat
  BY LenProperties
<1>2. one \in Seq(Tokens) /\ Len(one) = 1 /\ one[1] = e
  OBVIOUS
<1>3. /\ s \in Seq(Tokens) /\ Len(s) = Len(u) + Len(v)
      /\ \A i \in 1 .. Len(u) + Len(v) : s[i] = IF i <= Len(u) THEN u[i] ELSE v[i - Len(u)]
  BY ConcatProperties
<1>. HIDE DEF one, s
<1>4. /\ ue \in Seq(Tokens) /\ Len(ue) = Len(u) + 1
      /\ \A i \in 1 .. Len(u) + 1 : ue[i] = IF i <= Len(u) THEN u[i] ELSE one[i - Len(u)]
  BY <1>2, ConcatProperties
<1>. HIDE DEF ue
<1>5. /\ r \in Seq(Tokens) /\ Len(r) = Len(ue) + Len(v)
      /\ \A i \in 1 .. Len(ue) + Len(v) : r[i] = IF i <= Len(ue) THEN ue[i] ELSE v[i - Len(ue)]
  BY ZenonT(40), <1>4, ConcatProperties
<1>6. k \in 1 .. Len(s) + 1
  BY <1>1, <1>3
<1>. HIDE DEF k
<1>7. /\ l \in Seq(Tokens) /\ Len(l) = Len(s) + 1
      /\ \A j \in 1 .. Len(s) + 1 : l[j] = IF j < k THEN s[j] ELSE IF j = k THEN e ELSE s[j - 1]
  <2>1. s \in Seq(Tokens) /\ k \in 1 .. Len(s) + 1
    BY <1>3, <1>6
  <2>2. Inserted(InsertAt(s, k, e), s, k, e)
    BY <2>1, InsertedIs
  <2>. QED  BY <2>2 DEF Inserted
<1>. HIDE DEF l, r
<1>8. Len(l) = Len(r)
  BY <1>1, <1>3, <1>4, <1>5, <1>7
<1>9. ASSUME NEW j \in 1 .. Len(l)
      PROVE  l[j] = r[j]
  <2>0. j \in 1 .. Len(u) + Len(v) + 1 /\ k = Len(u) + 1
    BY <1>3, <1>7 DEF k
  <2>1. CASE j <= Len(u)
    <3>1. l[j] = s[j] /\ s[j] = u[j] /\ r[j] = ue[j] /\ ue[j] = u[j]
      BY <2>0, <2>1, <1>1, <1>3, <1>4, <1>5, <1>7
    <3>. QED  BY <3>1
  <2>2. CASE j = Len(u) + 1
    <3>1. l[j] = e /\ r[j] = ue[j] /\ ue[j] = one[1]
      BY SMTT(30), <2>0, <2>2, <1>1, <1>3, <1>4, <1>5, <1>7
    <3>. QED  BY <3>1, <1>2
  <2>3. CASE j > Len(u) + 1
    <3>1. j - 1 \in 1 .. Len(u) + Len(v) /\ ~(j - 1 <= Len(u)) /\ (j - 1) - Len(u) = j - Len(ue)
      BY <2>0, <2>3, <1>1, <1>4
    <3>2. l[j] = s[j - 1] /\ s[j - 1] = v[(j - 1) - Len(u)]
      BY <2>0, <2>3, <3>1, <1>1, <1>3, <1>7
    <3>3. r[j] = v[j - Len(ue)]
      BY <2>0, <2>3, <1>1, <1>4, <1>5
    <3>. QED  BY <3>1, <3>2, <3>3
  <2>. QED  BY <2>0, <2>1, <2>2, <2>3, <1>1
<1>10. l = r
  BY <1>5, <1>7, <1>8, <1>9, SeqEqual
<1>. QED  BY <1>10 DEF l, r, s, k, ue, one

(* The number of tokens of a response.                                     *)
LEMMA WholeLength ==
    ASSUME NEW h \in Seq(Tokens), NEW b \in Seq(Tokens)
    PROVE  /\ Start \o h \in Seq(Tokens) /\ Len(Start \o h) = Len(h) + 1
           /\ Blank \o b \in Seq(Tokens) /\ Len(Blank \o b) = Len(b) + 1
           /\ Whole(h, b) \in Seq(Tokens) /\ Len(Whole(h, b)) = Len(h) + Len(b) + 2
<1>1. Len(h) \in Nat /\ Len(b) \in Nat
  BY LenProperties
<1>2. /\ Start \o h \in Seq(Tokens) /\ Len(Start \o h) = Len(Start) + Len(h)
      /\ Blank \o b \in Seq(Tokens) /\ Len(Blank \o b) = Len(Blank) + Len(b)
  BY LineTokens, ConcatNames
<1>. DEFINE u == Start \o h
            v == Blank \o b
<1>3. /\ u \in Seq(Tokens) /\ Len(u) = Len(h) + 1
      /\ v \in Seq(Tokens) /\ Len(v) = Len(b) + 1 /\ Whole(h, b) = u \o v
  BY <1>1, <1>2, LineTokens DEF Whole
<1>. HIDE DEF u, v
<1>4. u \o v \in Seq(Tokens) /\ Len(u \o v) = Len(u) + Len(v)
  BY <1>3, ConcatNames
<1>5. Whole(h, b) \in Seq(Tokens) /\ Len(Whole(h, b)) = Len(h) + Len(b) + 2
  BY <1>1, <1>3, <1>4
<1>. QED  BY <1>3, <1>5 DEF u, v

(* The length that is inserted before the blank line is one of the         *)
(* headers, and the only one that is a length.                             *)
LEMMA LengthInserted ==
    ASSUME NEW w, NEW sent, NEW off, BodyOf(w, sent, TRUE, off), "length" \notin sent,
           NEW explicit \in BOOLEAN
    PROVE  DoneOf(InsertAt(w, off, Header("length", Len(w) - off)), sent \cup {"length"}, explicit)
<1>. DEFINE now == sent \cup {"length"}
            n == Len(w) - off
            e == Header("length", n)
            one == <<e>>
<1>1. PICK h, b \in Seq(Tokens) :
        /\ Heading(h, sent) /\ Content(b) /\ w = Whole(h, b)
        /\ {"server", "connection"} \subseteq sent
        /\ off = Len(h) + 2
  BY DEF BodyOf
<1>2. Len(h) \in Nat /\ Len(b) \in Nat
  BY <1>1, LenProperties
<1>3. n = Len(b)
  BY <1>1, <1>2, WholeLength
<1>. HIDE DEF n
<1>4. e \in Tokens /\ e.name = "length" /\ e.n = Len(b)
  BY <1>2, <1>3, HeaderTyped DEF Names
<1>. HIDE DEF e
<1>5. /\ one \in Seq(Tokens) /\ Len(one) = 1 /\ one[1] = e
      /\ Only(one, {"length"}) /\ \A x : Has(one, x) <=> x = "length"
  BY <1>4, OneToken
<1>. DEFINE h2 == h \o one
<1>6. Heading(h2, now) /\ Len(h2) = Len(h) + 1
  <2>. HIDE DEF one
  <2>1. Only(one, Names \cup {"other"})
    BY <1>5 DEF Only, Names
  <2>2. \A x \in Names : x \in now <=> x \in sent \/ Has(one, x)
    BY <1>5
  <2>. HIDE DEF now
  <2>3. Heading(h \o one, now) /\ Len(h \o one) = Len(h) + Len(one)
    BY <1>1, <1>5, <2>1, <2>2, HeadingGrows
  <2>. QED  BY <2>3, <1>5
<1>7. InsertAt(w, off, e) = Whole(h2, b)
  <2>. DEFINE u == Start \o h
              v == Blank \o b
  <2>1. u \in Seq(Tokens) /\ v \in Seq(Tokens) /\ w = u \o v /\ off = Len(u) + 1
    <3>1. /\ Start \o h \in Seq(Tokens) /\ Len(Start \o h) = Len(h) + 1
          /\ Blank \o b \in Seq(Tokens)
      BY <1>1, WholeLength
    <3>2. w = (Start \o h) \o (Blank \o b)
      BY <1>1 DEF Whole
    <3>. HIDE DEF u, v
    <3>3. u \in Seq(Tokens) /\ v \in Seq(Tokens) /\ w = u \o v /\ Len(u) = Len(h) + 1
      BY <3>1, <3>2 DEF u, v
    <3>. QED  BY <3>3, <1>1, <1>2
  <2>2. u \o one = Start \o h2
    <3>. HIDE DEF one
    <3>. QED  BY ZenonT(40), <1>1, <1>5, LineTokens, Together
  <2>. HIDE DEF u, v
  <2>3. InsertAt(u \o v, Len(u) + 1, e) = (u \o one) \o v
    BY <2>1, <1>4, InsertBetween
  <2>. QED  BY <2>1, <2>2, <2>3 DEF Whole, v
<1>8. OneLength(h2, Len(b))
  <2>. HIDE DEF one
  <2>1. \A i \in 1 .. Len(h) + 1 : h2[i] = IF i <= Len(h) THEN h[i] ELSE one[i - Len(h)]
    BY ZenonT(40), <1>5, ConcatProperties
  <2>. DEFINE i == Len(h) + 1
  <2>2. i \in 1 .. Len(h2) /\ h2[i] = e
    BY <2>1, <1>2, <1>5, <1>6
  <2>3. ASSUME NEW j \in 1 .. Len(h2), h2[j].name = "length"
        PROVE  j = i
    <3>1. CASE j <= Len(h)
      <4>1. j \in 1 .. Len(h) /\ h2[j] = h[j]
        BY <3>1, <2>1, <1>2, <1>6
      <4>2. Has(h, "length")
        BY <4>1, <2>3 DEF Has
      <4>. QED  BY <4>2, <1>1 DEF Heading, Names
    <3>2. CASE ~(j <= Len(h))
      BY <3>2, <1>2, <1>6
    <3>. QED  BY <3>1, <3>2
  <2>. HIDE DEF i, h2
  <2>. QED  BY <2>2, <2>3, <1>4 DEF OneLength
<1>9. h2 \in Seq(Tokens) /\ {"server", "connection", "length"} \subseteq now
  BY <1>1, <1>6 DEF Heading
<1>10. DoneOf(InsertAt(w, off, e), now, explicit)
  <2>. HIDE DEF h2, now
  <2>. QED  BY <1>1, <1>6, <1>7, <1>8, <1>9 DEF DoneOf
<1>. QED  BY <1>10 DEF e, n

-----------------------------------------------------------------------------
(* What a whole response is for its peer.                                  *)

(* Where the tokens of a response are, whose blank line is at n.           *)
Placed(w, h, n) ==
    /\ w \in Seq(Tokens) /\ n = Len(h) + 2 /\ n <= Len(w)
    /\ w[1].name = "status" /\ w[n].name = "blank"
    /\ \A i \in 2 .. n - 1 : w[i] = h[i - 1] /\ w[i].name \in Names \cup {"other"}
    /\ \A i \in n + 1 .. Len(w) : w[i].name = "body"

(* In a whole response the blank line comes right after the headers. *)
LEMMA WholePlaced ==
    ASSUME NEW h, NEW b, NEW sent, Heading(h, sent), Content(b)
    PROVE  /\ Placed(Whole(h, b), h, Len(h) + 2)
           /\ Len(Whole(h, b)) = Len(h) + 2 + Len(b)
           /\ Len(h) \in Nat /\ Len(b) \in Nat
<1>. DEFINE u == Start \o h
            v == Blank \o b
            w == u \o v
            n == Len(h) + 2
<1>1. h \in Seq(Tokens) /\ b \in Seq(Tokens) /\ Len(h) \in Nat /\ Len(b) \in Nat
  BY LenProperties DEF Heading, Content
<1>2. /\ u \in Seq(Tokens) /\ Len(u) = Len(h) + 1
      /\ \A i \in 1 .. Len(h) + 1 : u[i] = IF i <= 1 THEN Start[i] ELSE h[i - 1]
  <2>1. /\ u \in Seq(Tokens) /\ Len(u) = Len(Start) + Len(h)
        /\ \A i \in 1 .. Len(Start) + Len(h) :
              u[i] = IF i <= Len(Start) THEN Start[i] ELSE h[i - Len(Start)]
    BY <1>1, LineTokens, ConcatProperties
  <2>. HIDE DEF u
  <2>2. Len(Start) + Len(h) = Len(h) + 1 /\ Len(Start) = 1
    BY <1>1, LineTokens
  <2>. QED  BY <2>1, <2>2
<1>3. /\ v \in Seq(Tokens) /\ Len(v) = Len(b) + 1
      /\ \A i \in 1 .. Len(b) + 1 : v[i] = IF i <= 1 THEN Blank[i] ELSE b[i - 1]
  <2>1. /\ v \in Seq(Tokens) /\ Len(v) = Len(Blank) + Len(b)
        /\ \A i \in 1 .. Len(Blank) + Len(b) :
              v[i] = IF i <= Len(Blank) THEN Blank[i] ELSE b[i - Len(Blank)]
    BY <1>1, LineTokens, ConcatProperties
  <2>. HIDE DEF v
  <2>2. Len(Blank) + Len(b) = Len(b) + 1 /\ Len(Blank) = 1
    BY <1>1, LineTokens
  <2>. QED  BY <2>1, <2>2
<1>. HIDE DEF u, v
<1>4. /\ w \in Seq(Tokens) /\ Len(w) = Len(u) + Len(v)
      /\ \A i \in 1 .. Len(u) + Len(v) : w[i] = IF i <= Len(u) THEN u[i] ELSE v[i - Len(u)]
  BY <1>2, <1>3, ConcatProperties
<1>5. w = Whole(h, b)
  BY DEF Whole, u, v
<1>. HIDE DEF w
<1>6. Len(w) = Len(h) + 2 + Len(b)
  BY <1>1, <1>2, <1>3, <1>4
<1>7. w[1].name = "status"
  <2>1. w[1] = u[1] /\ u[1] = Start[1]
    BY <1>1, <1>2, <1>3, <1>4
  <2>. QED  BY <2>1, LineTokens
<1>8. w[n].name = "blank"
  <2>1. n \in 1 .. Len(u) + Len(v) /\ ~(n <= Len(u)) /\ n - Len(u) = 1 /\ 1 \in 1 .. Len(b) + 1
    BY <1>1, <1>2, <1>3
  <2>2. w[n] = v[1] /\ v[1] = Blank[1]
    BY <2>1, <1>3, <1>4
  <2>. QED  BY <2>2, LineTokens
<1>9. ASSUME NEW i \in 2 .. n - 1
      PROVE  w[i] = h[i - 1] /\ w[i].name \in Names \cup {"other"}
  <2>1. i - 1 \in 1 .. Len(h) /\ i \in 1 .. Len(h) + 1 /\ ~(i <= 1)
    BY <1>1
  <2>2. i \in 1 .. Len(u) + Len(v) /\ i <= Len(u)
    BY <2>1, <1>1, <1>2, <1>3
  <2>3. w[i] = u[i] /\ u[i] = h[i - 1]
    BY <2>1, <2>2, <1>2, <1>4
  <2>. QED  BY <2>1, <2>3 DEF Heading, Only
<1>10. ASSUME NEW i \in n + 1 .. Len(w)
       PROVE  w[i].name = "body"
  <2>1. i \in 1 .. Len(u) + Len(v) /\ ~(i <= Len(u)) /\ i - Len(u) \in 1 .. Len(b) + 1
    BY <1>1, <1>2, <1>3, <1>4
  <2>2. ~(i - Len(u) <= 1) /\ (i - Len(u)) - 1 \in 1 .. Len(b)
    BY <2>1, <1>1, <1>2, <1>6
  <2>3. w[i] = b[(i - Len(u)) - 1]
    BY <2>1, <2>2, <1>3, <1>4
  <2>. QED  BY <2>2, <2>3 DEF Content, Only
<1>11. n <= Len(w)
  BY <1>1, <1>6
<1>. HIDE DEF n
<1>12. Placed(w, h, n)
  BY <1>4, <1>7, <1>8, <1>9, <1>10, <1>11 DEF Placed, n
<1>. QED  BY <1>1, <1>5, <1>6, <1>12 DEF n

(* The places of the tokens with a name.                                   *)
Places(w, name) == {i \in DOMAIN w : w[i].name = name}

(* Counting a name in a sequence of tokens counts the places where it
   stands. *)
LEMMA PlaceFacts ==
    ASSUME NEW w \in Seq(Tokens), NEW name
    PROVE  /\ Count(w, name) = Cardinality(Places(w, name)) /\ IsFiniteSet(Places(w, name))
           /\ Count(w, name) \in Nat
           /\ Count(w, name) = 0 <=> Places(w, name) = {}
           /\ \A i : i \in Places(w, name) <=> i \in 1 .. Len(w) /\ w[i].name = name
<1>1. DOMAIN w = 1 .. Len(w) /\ Len(w) \in Nat
  BY LenProperties
<1>2. IsFiniteSet(1 .. Len(w))
  BY <1>1, FS_Interval
<1>3. Places(w, name) \in SUBSET (1 .. Len(w))
  BY <1>1 DEF Places
<1>4. IsFiniteSet(Places(w, name))
  BY <1>2, <1>3, FS_Subset
<1>5. Count(w, name) = Cardinality(Places(w, name))
  BY DEF Count, Places
<1>. QED  BY <1>1, <1>4, <1>5, FS_CardinalityType, FS_EmptySet DEF Places

(* One token is at one place.                                              *)
LEMMA OnePlace ==
    ASSUME NEW w \in Seq(Tokens), NEW name, NEW m \in 1 .. Len(w), w[m].name = name,
           \A i \in 1 .. Len(w) : w[i].name = name => i = m
    PROVE  Count(w, name) = 1
<1>1. \A i : i \in Places(w, name) <=> i = m
  BY PlaceFacts
<1>2. Places(w, name) = {m}
  BY <1>1
<1>. QED  BY <1>2, PlaceFacts, FS_Singleton

(* The parts make a response that is well formed.                          *)
LEMMA WholeShaped ==
    ASSUME NEW w \in Seq(Tokens), NEW h \in Seq(Tokens), NEW n, NEW sent,
           Placed(w, h, n), Heading(h, sent), {"server", "connection", "length"} \subseteq sent
    PROVE  Shaped(w) /\ Count(w, "length") >= 1
<1>1. Len(h) \in Nat /\ Len(w) \in Nat
  BY LenProperties
<1>2. /\ n = Len(h) + 2 /\ n <= Len(w) /\ n \in Nat
      /\ w[1].name = "status" /\ w[n].name = "blank"
      /\ \A i \in 2 .. n - 1 : w[i] = h[i - 1] /\ w[i].name \in Names \cup {"other"}
      /\ \A i \in n + 1 .. Len(w) : w[i].name = "body"
  BY <1>1 DEF Placed
<1>3. \A i \in 1 .. Len(w) : i = 1 \/ i \in 2 .. n - 1 \/ i = n \/ i \in n + 1 .. Len(w)
  BY <1>1, <1>2
<1>4. \A i \in 1 .. Len(w) : w[i].name = "status" => i = 1
  BY <1>2, <1>3 DEF Names
<1>5. \A i \in 1 .. Len(w) : w[i].name = "blank" => i = n
  BY <1>2, <1>3 DEF Names
<1>6. \A i \in 1 .. Len(w) : w[i].name # "cut"
  BY <1>2, <1>3 DEF Names
<1>7. \A i \in 1 .. Len(w) : w[i].name = "body" <=> i > n
  <2>1. ASSUME NEW i \in 1 .. Len(w), w[i].name = "body"
        PROVE  i > n
    <3>1. i \in n + 1 .. Len(w)
      BY <2>1, <1>2, <1>3 DEF Names
    <3>. QED  BY <3>1, <1>2
  <2>2. ASSUME NEW i \in 1 .. Len(w), i > n
        PROVE  w[i].name = "body"
    <3>1. i \in n + 1 .. Len(w)
      BY <2>2, <1>1, <1>2
    <3>. QED  BY <3>1, <1>2
  <2>. QED  BY <2>1, <2>2
<1>8. 1 \in 1 .. Len(w) /\ n \in 1 .. Len(w)
  BY <1>1, <1>2
<1>9. Count(w, "status") = 1 /\ Count(w, "blank") = 1
  BY <1>2, <1>4, <1>5, <1>8, OnePlace
<1>10. Count(w, "cut") = 0
  <2>1. Places(w, "cut") = {}
    BY <1>6, PlaceFacts
  <2>. QED  BY <2>1, PlaceFacts
<1>11. ASSUME NEW x \in {"server", "connection", "length"}
       PROVE  Count(w, x) >= 1
  <2>1. Has(h, x)
    BY DEF Heading, Names
  <2>2. PICK i \in 1 .. Len(h) : h[i].name = x
    BY <2>1 DEF Has
  <2>. DEFINE k == i + 1
  <2>3. k \in 2 .. n - 1 /\ k \in 1 .. Len(w) /\ k - 1 = i
    BY <1>1, <1>2
  <2>. HIDE DEF k
  <2>4. k \in Places(w, x)
    <3>1. w[k].name = x
      BY <2>2, <2>3, <1>2
    <3>. QED  BY <3>1, <2>3, PlaceFacts
  <2>5. Count(w, x) # 0 /\ Count(w, x) \in Nat
    BY <2>4, PlaceFacts
  <2>. QED  BY <2>5
<1>12. w # <<>>
  BY <1>8
<1>13. \A i, j \in 1 .. Len(w) : w[i].name = "blank" /\ i # j => (i < j <=> w[j].name = "body")
  <2>1. ASSUME NEW i \in 1 .. Len(w), NEW j \in 1 .. Len(w), w[i].name = "blank", i # j
        PROVE  i < j <=> w[j].name = "body"
    <3>1. i = n /\ (w[j].name = "body" <=> j > n)
      BY <2>1, <1>5, <1>7
    <3>. QED  BY <3>1, <1>2
  <2>. QED  BY <2>1
<1>. QED  BY <1>2, <1>9, <1>10, <1>11, <1>12, <1>13 DEF Shaped

(* Its length is that of the body.                                         *)
LEMMA WholeLengthTold ==
    ASSUME NEW w \in Seq(Tokens), NEW h \in Seq(Tokens), NEW n, Placed(w, h, n),
           NEW size \in Nat, Len(w) = n + size, OneLength(h, size)
    PROVE  Count(w, "length") = 1 /\ LengthOf(w) = Count(w, "body")
<1>1. Len(h) \in Nat /\ Len(w) \in Nat
  BY LenProperties
<1>2. /\ n = Len(h) + 2 /\ n <= Len(w) /\ n \in Nat
      /\ w[1].name = "status" /\ w[n].name = "blank"
      /\ \A i \in 2 .. n - 1 : w[i] = h[i - 1] /\ w[i].name \in Names \cup {"other"}
      /\ \A i \in n + 1 .. Len(w) : w[i].name = "body"
  BY <1>1 DEF Placed
<1>3. \A i \in 1 .. Len(w) : i = 1 \/ i \in 2 .. n - 1 \/ i = n \/ i \in n + 1 .. Len(w)
  BY <1>1, <1>2
<1>4. PICK k \in 1 .. Len(h) : h[k].name = "length" /\ h[k].n = size
                               /\ \A j \in 1 .. Len(h) : h[j].name = "length" => j = k
  BY DEF OneLength
<1>. DEFINE m == k + 1
<1>5. m \in 1 .. Len(w) /\ m \in 2 .. n - 1 /\ m - 1 = k /\ m \in Nat
  BY <1>1, <1>2
<1>6. w[m] = h[k]
  BY <1>2, <1>5
<1>7. ASSUME NEW i \in 1 .. Len(w), w[i].name = "length"
      PROVE  i = m
  <2>1. i \in 2 .. n - 1
    BY <1>2, <1>3, <1>7
  <2>2. w[i] = h[i - 1] /\ i - 1 \in 1 .. Len(h)
    BY <2>1, <1>1, <1>2
  <2>3. i - 1 = k
    BY <2>2, <1>4, <1>7
  <2>. QED  BY <2>3
<1>. HIDE DEF m
<1>8. Count(w, "length") = 1
  BY <1>4, <1>5, <1>6, <1>7, OnePlace
<1>9. LengthOf(w) = size
  <2>. DEFINE I == {i \in 1 .. Len(w) : w[i].name = "length"}
  <2>1. I = {m}
    BY <1>4, <1>5, <1>6, <1>7
  <2>2. SelectInSeq(w, LAMBDA t : t.name = "length") = Min(I)
    BY <2>1 DEF SelectInSeq
  <2>3. Min(I) = m
    <3>1. I \in SUBSET Nat /\ I # {}
      BY <2>1, <1>5
    <3>2. Min(I) \in I
      BY <3>1, LeastNumber
    <3>. QED  BY <3>2, <2>1
  <2>. HIDE DEF I
  <2>. QED  BY <2>2, <2>3, <1>4, <1>6 DEF LengthOf
<1>10. Count(w, "body") = size
  <2>1. Places(w, "body") = n + 1 .. Len(w)
    <3>1. ASSUME NEW i \in 1 .. Len(w), w[i].name = "body"
          PROVE  i \in n + 1 .. Len(w)
      BY <3>1, <1>2, <1>3 DEF Names
    <3>2. \A i \in n + 1 .. Len(w) : i \in 1 .. Len(w) /\ w[i].name = "body"
      BY <1>1, <1>2
    <3>. QED  BY <3>1, <3>2, PlaceFacts
  <2>2. Cardinality(n + 1 .. Len(w)) = IF n + 1 > Len(w) THEN 0 ELSE Len(w) - (n + 1) + 1
    <3>1. n + 1 \in Int /\ Len(w) \in Int
      BY <1>1, <1>2
    <3>. QED  BY <3>1, FS_Interval
  <2>3. (IF n + 1 > Len(w) THEN 0 ELSE Len(w) - (n + 1) + 1) = size
    BY <1>2
  <2>. QED  BY <2>1, <2>2, <2>3, PlaceFacts
<1>. QED  BY <1>8, <1>9, <1>10

(* A response that is flushed, and of which all was sent, is well formed.  *)
LEMMA DoneIsWhole ==
    ASSUME NEW w, NEW sent, NEW explicit \in BOOLEAN, DoneOf(w, sent, explicit)
    PROVE  /\ Shaped(w) /\ Count(w, "length") >= 1
           /\ ~explicit => Count(w, "length") = 1 /\ LengthOf(w) = Count(w, "body")
<1>1. PICK h, b \in Seq(Tokens) :
        /\ Heading(h, sent) /\ Content(b) /\ w = Whole(h, b)
        /\ {"server", "connection", "length"} \subseteq sent
        /\ explicit \/ OneLength(h, Len(b))
  BY DEF DoneOf
<1>. DEFINE n == Len(h) + 2
            size == Len(b)
<1>2. Placed(w, h, n) /\ Len(w) = n + size /\ size \in Nat
  BY <1>1, WholePlaced
<1>3. w \in Seq(Tokens)
  BY <1>2 DEF Placed
<1>4. explicit \/ OneLength(h, size)
  BY <1>1
<1>. HIDE DEF n, size
<1>5. Shaped(w) /\ Count(w, "length") >= 1
  BY <1>1, <1>2, <1>3, WholeShaped
<1>6. ~explicit => Count(w, "length") = 1 /\ LengthOf(w) = Count(w, "body")
  BY <1>2, <1>3, <1>4, WholeLengthTold
<1>. QED  BY <1>5, <1>6

-----------------------------------------------------------------------------
(* The calls.                                                              *)

(* A stream in each of the states.                                         *)
LEMMA ShapeHead ==
    ASSUME NEW t \in Streams, NEW w, NEW x \in BOOLEAN, t.state = SEND_HEADER,
           HeadOf(w \o t.buf, t.sent), x \/ ("length" \notin t.sent /\ t.clen = AUTO)
    PROVE  Shape(t, w, x)
BY StatesAre DEF Shape

(* A stream at the body whose bytes are headers, blank line and body is in
   shape. *)
LEMMA ShapeBody ==
    ASSUME NEW t \in Streams, NEW w, NEW x \in BOOLEAN, t.state = SEND_BODY,
           BodyOf(w \o t.buf, t.sent, w = <<>>, t.bodyOff),
           x \/ ("length" \notin t.sent /\ t.clen = AUTO)
    PROVE  Shape(t, w, x)
BY StatesAre DEF Shape

(* A stream that is done and whose bytes are a whole response is in shape. *)
LEMMA ShapeDone ==
    ASSUME NEW t \in Streams, NEW w, NEW x \in BOOLEAN, t.state = DONE,
           DoneOf(w \o t.buf, t.sent, x), x \/ t.clen = AUTO
    PROVE  Shape(t, w, x)
BY StatesAre DEF Shape

(* A length of the application's own may be there or not.                  *)
LEMMA ShapeWeaker ==
    ASSUME NEW s, NEW w, NEW x \in BOOLEAN, NEW y \in BOOLEAN, x => y, Shape(s, w, x)
    PROVE  Shape(s, w, y)
<1>1. DoneOf(w \o s.buf, s.sent, x) => DoneOf(w \o s.buf, s.sent, y)
  BY DEF DoneOf
<1>. QED  BY <1>1 DEF Shape

(* Nothing is a response without a status line.                            *)
LEMMA ShapeBegun ==
    ASSUME NEW t \in Streams, NEW w, w = <<>>, NEW explicit \in BOOLEAN,
           t.state = SEND_HEADER, t.buf = Start, t.sent = {}, explicit \/ t.clen = AUTO
    PROVE  Shape(t, w, explicit)
<1>. DEFINE none == SubSeq(Start, 1, 0)
<1>1. none = <<>> /\ none \in Seq(Tokens) /\ Len(none) = 0
  BY SubSeqEmpty, EmptySeq
<1>. HIDE DEF none
<1>2. Heading(none, {})
  BY <1>1 DEF Heading, Only, Has
<1>3. Start \o none = Start /\ w \o t.buf = Start
  BY <1>1, LineTokens, ConcatEmptySeq
<1>4. HeadOf(w \o t.buf, t.sent)
  BY <1>1, <1>2, <1>3 DEF HeadOf
<1>. QED  BY <1>4, ShapeHead

(* aisl_response: the length given then is the application's own.          *)
LEMMA ShapeResponse ==
    ASSUME NEW s, Legal(s), New(s), NEW x \in BOOLEAN, Shape(s, wire, x),
           NEW c_len \in Nat \cup {AUTO}, NEW y \in BOOLEAN, x => y,
           s.state <= READY /\ c_len # AUTO => y, NEW o \in Response(s, c_len), o.ok
    PROVE  Shape(o.s, wire, y)
<1>1. s \in Streams /\ s.state \in 0 .. 6
  BY StreamFields DEF Legal
<1>2. /\ o \in Outcomes
      /\ s.state > READY => o.ok /\ o.s = s
      /\ s.state <= READY =>
           /\ o.s.clen = c_len /\ o.s.sent = s.sent
           /\ o.s.state = SEND_HEADER /\ o.s.buf = Start
  BY <1>1, ResponseFacts DEF Start
<1>3. CASE s.state > READY
  BY <1>2, <1>3, ShapeWeaker
<1>4. CASE ~(s.state > READY)
  <2>. DEFINE t == o.s
              w == wire
  <2>1. s.state <= READY
    BY <1>1, <1>4, StatesAre
  <2>2. /\ t \in Streams /\ w = <<>> /\ t.state = SEND_HEADER /\ t.buf = Start /\ t.sent = {}
        /\ y \/ t.clen = AUTO
    BY <2>1, <1>2 DEF Outcomes, New
  <2>. HIDE DEF t, w
  <2>3. Shape(t, w, y)
    BY <2>2, ShapeBegun
  <2>. QED  BY <2>3 DEF t, w
<1>. QED  BY <1>3, <1>4

(* A header: one that is a length is the application's own.                *)
LEMMA ShapeHeader ==
    ASSUME NEW v \in Streams, NEW t \in Streams, NEW w \in Seq(Tokens),
           NEW x \in BOOLEAN, NEW y \in BOOLEAN, Shape(v, w, x),
           v.state = SEND_HEADER, t.state = SEND_HEADER, t.clen = v.clen,
           NEW e \in Tokens, e.name \in Names \cup {"other"}, t.buf = v.buf \o <<e>>,
           t.sent = v.sent \cup ({e.name} \ {"other"}), x \/ e.name = "length" => y
    PROVE  Shape(t, w, y)
<1>. DEFINE one == <<e>>
            u == w \o v.buf
<1>1. one \in Seq(Tokens) /\ Only(one, {e.name}) /\ \A z : Has(one, z) <=> z = e.name
  BY OneToken
<1>2. v.buf \in Seq(Tokens) /\ t.buf = v.buf \o one
  BY StreamFields
<1>. HIDE DEF one
<1>3. w \o t.buf = u \o one
  <2>1. (w \o v.buf) \o one = w \o (v.buf \o one)
    BY <1>1, <1>2, Together
  <2>. QED  BY <2>1, <1>2
<1>4. HeadOf(u, v.sent)
  BY DEF Shape
<1>5. Only(one, Names \cup {"other"})
  BY <1>1 DEF Only
<1>6. \A z \in Names : z \in t.sent <=> z \in v.sent \/ Has(one, z)
  BY <1>1 DEF Names
<1>. HIDE DEF u
<1>7. HeadOf(u \o one, t.sent)
  BY <1>1, <1>4, <1>5, <1>6, HeadGrows
<1>8. y \/ ("length" \notin t.sent /\ t.clen = AUTO)
  BY StatesAre DEF Shape
<1>. QED  BY <1>3, <1>7, <1>8, ShapeHead

(* The headers are closed.                                                 *)
LEMMA ShapeClosed ==
    ASSUME NEW r \in Outcomes, wire \in Seq(Tokens), NEW x \in BOOLEAN, Shape(r.s, wire, x),
           r.s.state = SEND_HEADER, NEW o, Closed(r, o), o.ok, conn.keepalive \in BOOLEAN
    PROVE  /\ Shape(o.s, wire, x) /\ o.s.state = SEND_BODY
           /\ o.s.clen # AUTO => "length" \in o.s.sent
<1>. DEFINE v == r.s
            m == MissingHeaders(v)
            u == wire \o v.buf
            t == o.s
<1>0. v \in Streams
  BY DEF Outcomes
<1>1. PICK added \in Seq(Tokens) :
        /\ o \in Outcomes /\ t.clen = v.clen
        /\ t.buf = v.buf \o added
        /\ \A z \in Names : z \in t.sent <=> z \in v.sent \/ Has(added, z)
        /\ added = Head_(v)
        /\ t.state = SEND_BODY /\ t.bodyOff = Len(t.buf)
  BY DEF Closed
<1>. HIDE DEF v
<1>2. /\ m \in Seq(Tokens) /\ Only(m, Names)
      /\ \A z : Has(m, z) <=> z \in Names \ v.sent /\ (z = "length" => v.clen # AUTO)
  BY <1>0, MissingFacts
<1>3. added = m \o Blank
  BY <1>0, <1>1, HeadFacts DEF Blank
<1>. HIDE DEF m, t
<1>4. \A z \in Names : Has(added, z) <=> Has(m, z)
  <2>1. \A z : Has(m \o Blank, z) <=> Has(m, z) \/ Has(Blank, z)
    BY <1>2, LineTokens, ConcatNames
  <2>2. \A z \in Names : ~Has(Blank, z)
    BY LineTokens DEF Has, Names
  <2>. QED  BY <2>1, <2>2, <1>3
<1>5. \A z \in Names : z \in t.sent <=> z \in v.sent \/ Has(m, z)
  BY <1>1, <1>4
<1>6. v.buf \in Seq(Tokens) /\ wire \o t.buf = u \o (m \o Blank)
  <2>1. v.buf \in Seq(Tokens)
    BY <1>0, StreamFields
  <2>2. added \in Seq(Tokens) /\ (wire \o v.buf) \o added = wire \o (v.buf \o added)
    BY <2>1, Together
  <2>. QED  BY <2>1, <2>2, <1>1, <1>3
<1>7. HeadOf(u, v.sent)
  BY DEF Shape, v
<1>8. {"server", "connection"} \subseteq t.sent
  BY <1>2, <1>5 DEF Names
<1>9. wire = <<>> => t.bodyOff = Len(u \o (m \o Blank))
  <2>1. t.buf \in Seq(Tokens)
    <3>1. t \in Streams
      BY <1>1 DEF Outcomes, t
    <3>. QED  BY <3>1, StreamFields
  <2>2. wire = <<>> => wire \o t.buf = t.buf
    BY <2>1, ConcatEmptySeq
  <2>. QED  BY <2>2, <1>1, <1>6
<1>. DEFINE known == (wire = <<>>)
<1>. HIDE DEF u, known
<1>10. BodyOf(u \o (m \o Blank), t.sent, known, t.bodyOff)
  <2>1. known => t.bodyOff = Len(u \o (m \o Blank))
    BY <1>9 DEF known
  <2>. QED  BY <2>1, <1>2, <1>5, <1>7, <1>8, HeadCloses
<1>11. x \/ ("length" \notin t.sent /\ t.clen = AUTO)
  <2>1. x \/ ("length" \notin v.sent /\ v.clen = AUTO)
    BY StatesAre DEF Shape, v
  <2>. QED  BY <2>1, <1>1, <1>2, <1>5 DEF Names
<1>12. t.clen # AUTO => "length" \in t.sent
  BY <1>1, <1>2, <1>5 DEF Names
<1>13. Shape(t, wire, x)
  <2>1. t \in Streams
    BY <1>1 DEF Outcomes, t
  <2>2. BodyOf(wire \o t.buf, t.sent, wire = <<>>, t.bodyOff)
    BY <1>6, <1>10 DEF known
  <2>. QED  BY <2>1, <2>2, <1>1, <1>11, ShapeBody
<1>. QED  BY <1>1, <1>12, <1>13 DEF t

(* Closing the headers of a response in shape leaves it in shape, at the
   body. *)
LEMMA ShapeClose ==
    ASSUME NEW s, Legal(s), New(s), NEW x \in BOOLEAN, Shape(s, wire, x), wire \in Seq(Tokens),
           s.state <= SEND_HEADER, conn.keepalive \in BOOLEAN,
           NEW o \in aisl_stream_close_headers(s), o.ok
    PROVE  /\ Shape(o.s, wire, x) /\ o.s.state = SEND_BODY
           /\ o.s.clen # AUTO => "length" \in o.s.sent
<1>1. s \in Streams /\ s.state \in 0 .. 6
  BY StreamFields DEF Legal
<1>2. PICK r \in Response(s, AUTO) : r \in Outcomes /\ IF r.ok THEN Closed(r, o) ELSE o = r
  BY <1>1, CloseFacts
<1>3. r.ok /\ Closed(r, o)
  BY <1>2
<1>4. AUTO \in Nat \cup {AUTO}
  OBVIOUS
<1>5. Shape(r.s, wire, x)
  BY <1>3, <1>4, ShapeResponse
<1>6. r.s.state = SEND_HEADER
  <2>1. /\ s.state > READY => r.s = s
        /\ s.state <= READY => r.s.state = SEND_HEADER
    <3>1. \A c_len \in Nat \cup {AUTO} : \A a \in Response(s, c_len) :
             /\ s.state > READY => a.ok /\ a.s = s
             /\ s.state <= READY /\ a.ok => a.s.state = SEND_HEADER
      BY <1>1, ResponseFacts
    <3>. QED  BY <3>1, <1>3, <1>4
  <2>. QED  BY <2>1, <1>1, StatesAre
<1>. QED  BY <1>2, <1>3, <1>5, <1>6, ShapeClosed

(* The body is written, to a response that is not flushed.                 *)
LEMMA ShapeWrite ==
    ASSUME NEW s, Legal(s), New(s), NEW x \in BOOLEAN, Shape(s, wire, x), wire \in Seq(Tokens),
           s.state # DONE, conn.keepalive \in BOOLEAN, NEW o \in Write(s), o.ok
    PROVE  Shape(o.s, wire, x)
<1>1. PICK r \in IF s.state < SEND_BODY THEN aisl_stream_close_headers(s)
                                        ELSE {[ok |-> TRUE, s |-> s]} :
         o \in IF r.ok THEN Appended(r.s, <<Token("body")>>) ELSE {r}
  BY DEF Write
<1>2. s \in Streams /\ s.state \in 0 .. 6
  BY StreamFields DEF Legal
<1>3. r.ok /\ o \in Appended(r.s, <<Token("body")>>)
  BY <1>1
<1>4. r.s \in Streams /\ Shape(r.s, wire, x) /\ r.s.state = SEND_BODY
  <2>1. CASE s.state < SEND_BODY
    <3>1. s.state <= SEND_HEADER /\ r \in aisl_stream_close_headers(s)
      BY <2>1, <1>1, <1>2, StatesAre
    <3>2. r.s \in Streams
      BY <3>1, CloseResult DEF Result, Outcomes
    <3>. QED  BY <3>1, <3>2, <1>3, ShapeClose
  <2>2. CASE ~(s.state < SEND_BODY)
    <3>1. r.s = s
      BY <2>2, <1>1
    <3>. QED  BY <3>1, <2>2, <1>2, StatesAre
  <2>. QED  BY <2>1, <2>2
<1>. DEFINE v == r.s
            t == o.s
            e == Token("body")
            one == <<e>>
<1>5. e \in Tokens /\ e.name = "body"
  BY TokenTyped DEF TokenNames
<1>6. t \in Streams /\ SameButBuf(t, v) /\ t.buf = v.buf \o one
  BY <1>3, <1>4, <1>5, AppendedOne DEF Outcomes
<1>7. /\ v \in Streams /\ Shape(v, wire, x) /\ v.state = SEND_BODY
      /\ one \in Seq(Tokens)
  BY <1>4, <1>5
<1>. HIDE DEF v, t
<1>8. v.buf \in Seq(Tokens)
  BY <1>7, StreamFields
<1>9. BodyOf(wire \o v.buf, v.sent, wire = <<>>, v.bodyOff)
  BY <1>7 DEF Shape
<1>. DEFINE u == wire \o v.buf
            known == (wire = <<>>)
<1>10. wire \o t.buf = u \o one
  <2>. HIDE DEF one
  <2>1. (wire \o v.buf) \o one = wire \o (v.buf \o one)
    BY <1>7, <1>8, Together
  <2>. QED  BY <2>1, <1>6
<1>11. BodyOf(u \o one, v.sent, known, v.bodyOff)
  <2>1. BodyOf(u, v.sent, known, v.bodyOff)
    BY <1>9
  <2>. HIDE DEF u, known
  <2>. QED  BY <2>1, BodyGrows
<1>12. /\ t.sent = v.sent /\ t.bodyOff = v.bodyOff /\ t.state = SEND_BODY
       /\ t.clen = v.clen
  BY <1>6, <1>7 DEF SameButBuf
<1>13. x \/ ("length" \notin t.sent /\ t.clen = AUTO)
  BY <1>7, <1>12, StatesAre DEF Shape
<1>14. BodyOf(wire \o t.buf, t.sent, wire = <<>>, t.bodyOff)
  <2>. HIDE DEF u, one
  <2>. QED  BY <1>10, <1>11, <1>12
<1>15. Shape(t, wire, x)
  BY <1>6, <1>12, <1>13, <1>14, ShapeBody
<1>. QED  BY <1>15 DEF t

(* A response whose length is known is flushed.                            *)
LEMMA ShapeKnown ==
    ASSUME NEW s \in Streams, NEW t \in Streams, NEW w, NEW x \in BOOLEAN, Shape(s, w, x),
           s.state \in {SEND_BODY, DONE}, "length" \in s.sent, IsFlushed(t, s)
    PROVE  Shape(t, w, x)
<1>1. /\ t.buf = s.buf /\ t.state = DONE /\ t.clen = s.clen
      /\ t.sent = s.sent
  BY DEF IsFlushed
<1>2. x \/ (s.clen = AUTO /\ s.state # SEND_BODY)
  BY StatesAre DEF Shape
<1>3. DoneOf(w \o s.buf, s.sent, x)
  <2>1. CASE s.state = DONE
    BY <2>1 DEF Shape
  <2>2. CASE s.state = SEND_BODY
    <3>1. x
      BY <2>2, <1>2
    <3>2. BodyOf(w \o s.buf, s.sent, w = <<>>, s.bodyOff)
      BY <2>2 DEF Shape
    <3>. QED  BY <3>1, <3>2 DEF BodyOf, DoneOf
  <2>. QED  BY <2>1, <2>2
<1>. QED  BY <1>1, <1>2, <1>3, ShapeDone

(* aisl_flush, when it does nothing that the marks tell of.                *)
LEMMA ShapeFlush ==
    ASSUME NEW s, Legal(s), New(s), NEW x \in BOOLEAN, Shape(s, wire, x), wire \in Seq(Tokens),
           conn.keepalive \in BOOLEAN, NEW o \in Flush(s), o.ok,
           wire # <<>> => "length" \in s.sent, o.s.bodyOff # 0,
           "length" \notin s.sent /\ s.bodyOff = 0 => o.s.clen # AUTO
    PROVE  Shape(o.s, wire, x)
<1>1. s \in Streams /\ s.state \in 0 .. 6 /\ StreamOK(s, wire) /\ s.buf \in Seq(Tokens)
  BY StreamFields DEF Legal
<1>2. o.s \in Streams
  BY FlushFacts DEF Outcomes
<1>3. CASE "length" \in s.sent /\ IsFlushed(o.s, s)
  <2>1. s.bodyOff # 0
    BY <1>3 DEF IsFlushed
  <2>2. s.state \in {SEND_BODY, DONE}
    BY <2>1, <1>1, StatesAre DEF StreamOK
  <2>. QED  BY <2>2, <1>1, <1>2, <1>3, ShapeKnown
<1>4. ASSUME "length" \notin s.sent, s.bodyOff # 0, NEW a \in InsertLength(s),
             a.ok, IsFlushed(o.s, a.s)
      PROVE  Shape(o.s, wire, x)
  <2>1. s.state = SEND_BODY /\ wire = <<>>
    BY <1>1, <1>4, StatesAre DEF StreamOK
  <2>2. /\ a \in Outcomes /\ SameButBuf(a.s, s)
        /\ \E i \in 1 .. Len(s.buf) + 1 : \E n \in Int :
              /\ a.s.buf = InsertAt(s.buf, i, Header("length", n))
              /\ wire = <<>> => i = s.bodyOff /\ n = Len(s.buf) - s.bodyOff
    BY <1>4, InsertLengthFacts
  <2>. DEFINE w == s.buf
              off == s.bodyOff
              sent == s.sent
              t == o.s
  <2>3. a.s.buf = InsertAt(w, off, Header("length", Len(w) - off))
    BY <2>1, <2>2
  <2>4. /\ t \in Streams /\ t.buf = InsertAt(w, off, Header("length", Len(w) - off))
        /\ t.sent = sent \cup {"length"} /\ t.state = DONE /\ t.clen = s.clen
    BY <2>2, <2>3, <1>2, <1>4 DEF IsFlushed, SameButBuf
  <2>5. wire \o s.buf = w /\ wire \o t.buf = t.buf
    <3>1. s.buf \in Seq(Tokens) /\ t.buf \in Seq(Tokens)
      BY <1>1, <1>2, StreamFields
    <3>. QED  BY <3>1, <2>1, ConcatEmptySeq
  <2>6. BodyOf(w, sent, TRUE, off)
    <3>1. BodyOf(wire \o s.buf, s.sent, wire = <<>>, s.bodyOff)
      BY <2>1 DEF Shape
    <3>. QED  BY <3>1, <2>1, <2>5 DEF BodyOf
  <2>7. x \/ t.clen = AUTO
    BY <2>1, <2>4, StatesAre DEF Shape
  <2>. HIDE DEF w, off, t
  <2>8. DoneOf(InsertAt(w, off, Header("length", Len(w) - off)), sent \cup {"length"}, x)
    BY <2>6, <1>4, LengthInserted
  <2>9. Shape(t, wire, x)
    BY <2>4, <2>5, <2>7, <2>8, ShapeDone
  <2>. QED  BY <2>9 DEF t
<1>5. ASSUME "length" \notin s.sent, s.bodyOff = 0, s.state <= SEND_HEADER,
             NEW a \in aisl_stream_close_headers(s), IsFlushed(o.s, a.s)
      PROVE  Shape(o.s, wire, x)
  <2>1. /\ Result(a, s)
        /\ ~a.ok => a.s.state <= SEND_HEADER
    BY <1>5, CloseResult
  <2>2. a.s \in Streams /\ StreamOK(a.s, wire) /\ a.s.state \in 0 .. 6
    <3>1. a.s \in Streams
      BY <2>1 DEF Result, Outcomes
    <3>. QED  BY <3>1, <2>1, StreamFields DEF Result
  <2>3. a.s.bodyOff # 0 /\ a.s.clen # AUTO
    BY <1>5 DEF IsFlushed
  <2>4. a.ok
    BY <2>1, <2>2, <2>3, StatesAre DEF StreamOK
  <2>5. Shape(a.s, wire, x) /\ a.s.state = SEND_BODY /\ "length" \in a.s.sent
    BY <2>3, <2>4, <1>5, ShapeClose
  <2>. QED  BY <2>2, <2>5, <1>2, <1>5, ShapeKnown
<1>. QED  BY <1>3, <1>4, <1>5, FlushFacts

-----------------------------------------------------------------------------
(* The invariants.                                                         *)

(* Nothing happened to the response that its form depends on.              *)
Clean == log.marks \subseteq {"explicit", "formatted", "torn"}

ShapeInv == Clean => Shape(stream, wire, "explicit" \in log.marks)

(* A completed response stays as it was sent: nothing is buffered or read, *)
(* and the application does not know the stream any more.                  *)
Over ==
    \/ log.raised \in {"none", "CLOSE"}
    \/ pc = "finish"
    \/ pc \in {"timer", "reap"} /\ ~conn.online

CompleteInv ==
    log.complete => /\ Clean => WellFormed(wire)
                    /\ stream.buf = <<>> /\ ~conn.canRead /\ Over

(* Nothing is asked of a stream whose response is not begun.               *)
LEMMA ShapeEarly ==
    ASSUME NEW s, s.state \in 0 .. 6, s.state <= READY, NEW w, NEW x
    PROVE  Shape(s, w, x)
BY StatesAre DEF Shape

(* Sending changes the parts, not the whole.                               *)
LEMMA ShapeSent ==
    ASSUME NEW s, NEW t, NEW w, NEW u, NEW x, Shape(s, w, x), SameButBuf(t, s),
           u \o t.buf = w \o s.buf, u # <<>>
    PROVE  Shape(t, u, x)
<1>1. BodyOf(w \o s.buf, s.sent, w = <<>>, s.bodyOff)
        => BodyOf(u \o t.buf, t.sent, u = <<>>, t.bodyOff)
  BY DEF BodyOf, SameButBuf
<1>. QED  BY <1>1 DEF Shape, SameButBuf

(* The marks of a clean history after one that had fewer.                  *)
LEMMA CleanBefore ==
    ASSUME log.marks \subseteq log'.marks, Clean'
    PROVE  Clean /\ ("explicit" \in log.marks => "explicit" \in log'.marks)
BY DEF Clean

(* A step that makes no call keeps the response in shape. *)
LEMMA ShapeQuiet ==
    ASSUME ClientInv, ShapeInv, QuietKeeps
    PROVE  ShapeInv'
<1>. SUFFICES ASSUME Clean'
              PROVE  Shape(stream', wire', "explicit" \in log'.marks)
  BY DEF ShapeInv
<1>1. CASE stream' = stream /\ wire' = wire /\ log'.marks = log.marks
  BY <1>1 DEF ShapeInv, Clean
<1>2. CASE stream' = FreshStream
  <2>1. stream'.state \in 0 .. 6 /\ stream'.state <= READY
    BY <1>2, StatesAre DEF FreshStream
  <2>. QED  BY <2>1, ShapeEarly
<1>3. CASE /\ SameButBuf(stream', stream) /\ wire' # <<>>
           /\ "lost" \notin log'.marks => Sofar(stream)' = Sofar(stream)
           /\ log.marks \subseteq log'.marks /\ log'.marks \subseteq log.marks \cup {"lost"}
  <2>1. Clean /\ ("explicit" \in log.marks <=> "explicit" \in log'.marks)
        /\ "lost" \notin log'.marks
    BY <1>3 DEF Clean
  <2>2. Shape(stream, wire, "explicit" \in log'.marks)
    BY <2>1 DEF ShapeInv
  <2>3. wire' \o stream'.buf = wire \o stream.buf
    BY <1>3, <2>1 DEF Sofar
  <2>. QED  BY <1>3, <2>2, <2>3, ShapeSent
<1>. QED  BY <1>1, <1>2, <1>3 DEF QuietKeeps

(* A parse keeps the response in shape, or opens a stream with none. *)
LEMMA ShapeParse ==
    ASSUME ClientInv, ShapeInv, ParseKeeps, stream' \in Streams
    PROVE  ShapeInv'
<1>. SUFFICES ASSUME Clean'
              PROVE  Shape(stream', wire', "explicit" \in log'.marks)
  BY DEF ShapeInv
<1>0. stream.state \in 0 .. 6 /\ stream'.state \in 0 .. 6
  BY StreamFields DEF ClientInv, Typed
<1>1. CASE stream.state <= READY
  BY <1>0, <1>1, ShapeEarly DEF ParseKeeps
<1>2. CASE ~(stream.state <= READY)
  <2>1. stream.state > READY
    BY <1>0, <1>2, StatesAre
  <2>2. /\ stream'.state = stream.state /\ stream'.bodyOff = stream.bodyOff
        /\ stream'.clen \in {stream.clen, AUTO} /\ wire' = wire
        /\ stream'.sent = stream.sent /\ stream'.buf = stream.buf
        /\ log'.marks \in {log.marks, log.marks \cup {"torn"}}
    BY <1>2, <2>1 DEF ParseKeeps
  <2>3. Clean /\ ("explicit" \in log'.marks <=> "explicit" \in log.marks)
    BY <2>2 DEF Clean
  <2>4. Shape(stream, wire, "explicit" \in log'.marks)
    BY <2>3 DEF ShapeInv
  <2>. QED  BY <2>2, <2>4 DEF Shape
<1>. QED  BY <1>1, <1>2

(* The application's calls.                                                *)
LEMMA ShapeApi ==
    ASSUME ClientInv, LiveInv, ShapeInv, Api, CallEffect
    PROVE  ShapeInv'
<1>. DEFINE x == "explicit" \in log.marks
            y == "explicit" \in log'.marks
<1>. SUFFICES ASSUME Clean'
              PROVE  Shape(stream', wire', y)
  BY DEF ShapeInv
<1>1. /\ stream \in Streams /\ stream.state \in 0 .. 6 /\ Legal(stream) /\ Typed
      /\ StreamOK(stream, wire) /\ wire \in Seq(Tokens) /\ conn.keepalive \in BOOLEAN
      /\ log \in Logs
  BY StreamFields DEF ClientInv, Typed, Conns, Legal
<1>2. wire' = wire /\ log.marks \subseteq log'.marks /\ Knows
  BY DEF CallEffect, Kept, SameLog
<1>3. New(stream)
  BY <1>2, KnownNew
<1>4. Clean /\ (x => y) /\ x \in BOOLEAN /\ y \in BOOLEAN
  BY <1>2, CleanBefore
<1>5. Shape(stream, wire, x)
  BY <1>4 DEF ShapeInv
<1>6. "failed" \notin log'.marks /\ "late_length" \notin log'.marks
      /\ "unterminated" \notin log'.marks /\ "bodiless" \notin log'.marks
      /\ "after_flush" \notin log'.marks
  BY DEF Clean
<1>7. ASSUME NEW o, NEW marks \in SUBSET Marks, Marked(o, marks)
      PROVE  (o.ok \/ "failed" \in log'.marks) /\ marks \subseteq log'.marks
  BY <1>1, <1>7, MarkedLog
<1>8. CASE CallResponse
  <2>. DEFINE marks(c) == IF stream.state <= READY /\ c # AUTO THEN {"explicit"} ELSE {}
  <2>1. PICK c_len \in Lengths : \E o \in Response(stream, c_len) :
           stream' = o.s /\ Marked(o, marks(c_len))
    BY <1>8 DEF CallResponse
  <2>2. PICK o \in Response(stream, c_len) : stream' = o.s /\ Marked(o, marks(c_len))
    BY <2>1
  <2>3. c_len \in Nat \cup {AUTO}
    BY ClientAssumption
  <2>4. marks(c_len) \in SUBSET Marks
    BY DEF Marks
  <2>5. o.ok /\ marks(c_len) \subseteq log'.marks
    <3>. HIDE DEF marks
    <3>. QED  BY <2>2, <2>4, <1>6, <1>7
  <2>6. stream.state <= READY /\ c_len # AUTO => y
    BY <2>5
  <2>. HIDE DEF x, y
  <2>7. Shape(o.s, wire, y)
    BY <2>3, <2>5, <2>6, <1>1, <1>3, <1>4, <1>5, ShapeResponse
  <2>. QED  BY <2>2, <2>7, <1>2
<1>9. CASE CallHeader \/ CallHeaderPrintf
  <2>1. PICK h \in AppHeaders \cup Formatted, passed \in BOOLEAN : AddHeader(h, passed)
    BY <1>9 DEF CallHeader, CallHeaderPrintf
  <2>2. PICK r \in Outcomes, o \in Outcomes : HeaderCall(h, passed, r, o)
    BY <2>1, <1>1, AddHeaderFacts
  <2>. DEFINE marks == HeaderMarks(h, passed)
  <2>3. marks \in SUBSET Marks /\ {} \in SUBSET Marks
    BY DEF Marks, HeaderMarks
  <2>4. stream' = o.s /\ (r.ok => Marked(o, marks)) /\ (~r.ok => Marked(o, {}) /\ ~o.ok)
    BY <2>2 DEF HeaderCall, Outcomes
  <2>. HIDE DEF marks
  <2>5. o.ok /\ r.ok /\ marks \subseteq log'.marks
    BY <2>3, <2>4, <1>6, <1>7
  <2>. DEFINE v == r.s
              t == o.s
  <2>6. /\ v \in Streams /\ t \in Streams /\ v.state = SEND_HEADER /\ t.state = SEND_HEADER
        /\ t.clen = v.clen /\ t.buf = v.buf \o <<h>>
        /\ t.sent = v.sent \cup ({h.name} \ {"other"})
    BY <2>2, <2>5 DEF HeaderCall, Outcomes
  <2>7. h \in Tokens /\ h.name \in Names \cup {"other"}
    BY HeaderTokens DEF HeaderNames, Names
  <2>8. x \/ h.name = "length" => y
    BY <2>5, <1>4 DEF marks, HeaderMarks
  <2>. HIDE DEF x, y
  <2>9. Shape(v, wire, x)
    <3>1. CASE stream.state < SEND_HEADER
      <4>1. r \in Response(stream, AUTO) /\ AUTO \in Nat \cup {AUTO}
        BY <3>1, <2>2 DEF HeaderCall
      <4>2. Shape(r.s, wire, x)
        BY <4>1, <2>5, <1>1, <1>3, <1>4, <1>5, ShapeResponse
      <4>. QED  BY <4>2
    <3>2. CASE ~(stream.state < SEND_HEADER)
      <4>1. r.s = stream
        BY <3>2, <2>2 DEF HeaderCall
      <4>. QED  BY <4>1, <1>5
    <3>. QED  BY <3>1, <3>2
  <2>10. Shape(t, wire, y)
    <3>1. wire \in Seq(Tokens) /\ x \in BOOLEAN /\ y \in BOOLEAN
      BY <1>1, <1>4
    <3>. HIDE DEF v, t
    <3>. QED  BY <3>1, <2>6, <2>7, <2>8, <2>9, ShapeHeader
  <2>. QED  BY <2>4, <2>10, <1>2
<1>10. CASE CallWrite
  <2>. DEFINE marks == IF stream.state = DONE THEN {"after_flush"} ELSE {}
  <2>1. PICK o \in Write(stream) : stream' = o.s /\ Marked(o, marks)
    BY <1>10 DEF CallWrite
  <2>2. marks \in SUBSET Marks
    BY DEF Marks
  <2>3. stream.state = DONE => "after_flush" \in marks
    OBVIOUS
  <2>. HIDE DEF marks
  <2>4. o.ok /\ stream.state # DONE
    BY <2>1, <2>2, <2>3, <1>6, <1>7
  <2>. HIDE DEF x, y
  <2>5. Shape(o.s, wire, x)
    BY <2>1, <2>4, <1>1, <1>3, <1>4, <1>5, ShapeWrite
  <2>6. Shape(o.s, wire, y)
    BY <2>5, <1>4, ShapeWeaker
  <2>. QED  BY <2>1, <2>6, <1>2
<1>11. CASE CallFlush
  <2>. DEFINE marks(o) == (IF wire # <<>> /\ "length" \notin stream.sent
                           THEN {"late_length"} ELSE {}) \cup
                          (IF o.ok /\ o.s.bodyOff = 0 THEN {"unterminated"} ELSE {}) \cup
                          (IF "length" \notin stream.sent /\ stream.bodyOff = 0
                              /\ o.s.clen = AUTO
                           THEN {"bodiless"} ELSE {})
  <2>1. PICK o \in Flush(stream) : stream' = o.s /\ Marked(o, marks(o))
    BY <1>11 DEF CallFlush
  <2>2. marks(o) \in SUBSET Marks
    BY DEF Marks
  <2>3. /\ wire # <<>> /\ "length" \notin stream.sent => "late_length" \in marks(o)
        /\ o.ok /\ o.s.bodyOff = 0 => "unterminated" \in marks(o)
        /\ "length" \notin stream.sent /\ stream.bodyOff = 0 /\ o.s.clen = AUTO
              => "bodiless" \in marks(o)
    OBVIOUS
  <2>. HIDE DEF marks
  <2>4. o.ok /\ marks(o) \subseteq log'.marks
    BY <2>1, <2>2, <1>6, <1>7
  <2>5. /\ wire # <<>> => "length" \in stream.sent
        /\ o.s.bodyOff # 0
        /\ "length" \notin stream.sent /\ stream.bodyOff = 0 => o.s.clen # AUTO
    BY <2>3, <2>4, <1>6
  <2>. HIDE DEF x, y
  <2>6. Shape(o.s, wire, x)
    BY <2>1, <2>4, <2>5, <1>1, <1>3, <1>4, <1>5, ShapeFlush
  <2>7. Shape(o.s, wire, y)
    BY <2>6, <1>4, ShapeWeaker
  <2>. QED  BY <2>1, <2>7, <1>2
<1>12. CASE CallSetOutputEvent \/ CallReject
  <2>1. log' = log
    BY <1>12 DEF CallSetOutputEvent, CallReject
  <2>2. /\ stream'.state = stream.state /\ stream'.clen = stream.clen
        /\ stream'.sent = stream.sent /\ stream'.buf = stream.buf
        /\ stream'.bodyOff = stream.bodyOff
    <3>1. stream' = stream \/ \E value : stream' = [stream EXCEPT !.chunked = value]
      BY <1>12 DEF CallSetOutputEvent, CallReject
    <3>. QED  BY <3>1, <1>1 DEF Streams
  <2>. QED  BY <2>1, <2>2, <1>2, <1>5 DEF Shape
<1>. QED  BY <1>8, <1>9, <1>10, <1>11, <1>12 DEF Api

(* Every step of the connection keeps the response in shape. *)
LEMMA ShapeStep ==
    ASSUME ClientInv, LiveInv, ShapeInv, [Next]_vars
    PROVE  ShapeInv'
<1>1. stream' \in Streams
  BY ClientStep DEF ClientInv, Typed
<1>. QED  BY <1>1, StepContents, ShapeQuiet, ShapeParse, ShapeApi

(* A connection whose response is over stays so while nothing is parsed    *)
(* and the application does not call.                                      *)
LEMMA OverStays ==
    ASSUME ClientInv, Over, Quiet,
           Touch \/ Input \/ Output \/ Return \/ Tick \/ Gone \/ UNCHANGED vars
    PROVE  Over'
<1>1. conn \in Conns /\ log \in Logs
  BY DEF ClientInv, Typed
<1>2. CASE log.raised \in {"none", "CLOSE"}
  BY <1>2 DEF Over, Quiet
<1>3. CASE pc = "finish"
  <2>1. CASE FinishKeep \/ FinishNoStream
    <3>1. \E e \in {"none", "CLOSE"} : log' = [log EXCEPT !.raised = e]
      BY <2>1 DEF FinishKeep, FinishNoStream
    <3>2. log'.raised \in {"none", "CLOSE"}
      BY <3>1, <1>1 DEF Logs
    <3>. QED  BY <3>2 DEF Over
  <2>2. CASE FinishClose
    <3>1. pc' = "timer" /\ conn' = [conn EXCEPT !.online = FALSE]
      BY <2>2 DEF FinishClose, Offline
    <3>2. ~conn'.online
      BY <3>1, <1>1 DEF Conns
    <3>. QED  BY <3>1, <3>2 DEF Over
  <2>3. CASE UNCHANGED vars
    BY <2>3, <1>3 DEF Over, vars
  <2>. QED  BY <1>3, <2>1, <2>2, <2>3 DEF Touch, Input, InputSkipped, InputReceived, InputBlocked,
            InputFailed, AtInput, Output, OutputSkipped, OutputEvent, OutputNoEvent, SendNothing,
            SendSome, SendBlocked, SendFailed, TimerHeard, TimerWaits, TimerExpires, Reap,
            Return, Tick, Gone
<1>4. CASE pc \in {"timer", "reap"} /\ ~conn.online
  <2>1. CASE TimerHeard \/ TimerWaits \/ TimerExpires
    <3>1. PICK c \in {conn, [conn EXCEPT !.silence = 0], [conn EXCEPT !.online = FALSE]} : Leave(c)
      BY <2>1 DEF TimerHeard, TimerWaits, TimerExpires, Offline
    <3>2. ~c.online
      BY <3>1, <1>1, <1>4 DEF Conns
    <3>3. conn' = c /\ pc' = "reap"
      BY <3>1, <3>2 DEF Leave, Left
    <3>. QED  BY <3>2, <3>3 DEF Over
  <2>2. CASE Reap
    <3>1. log' = [log EXCEPT !.raised = "CLOSE"]
      BY <2>2 DEF Reap
    <3>2. log'.raised = "CLOSE"
      BY <3>1, <1>1 DEF Logs
    <3>. QED  BY <3>2 DEF Over
  <2>3. CASE UNCHANGED vars
    BY <2>3, <1>4 DEF Over, vars
  <2>. QED  BY <1>4, <2>1, <2>2, <2>3 DEF Touch, Input, InputSkipped, InputReceived, InputBlocked,
            InputFailed, AtInput, Output, OutputSkipped, OutputEvent, OutputNoEvent, SendNothing,
            SendSome, SendBlocked, SendFailed, FinishKeep, FinishNoStream, FinishClose,
            Return, Tick, Gone
<1>. QED  BY <1>2, <1>3, <1>4 DEF Over

(* A response is completed when the last of it was sent, and stays as it   *)
(* is until the next request.                                              *)
LEMMA CompleteStep ==
    ASSUME ClientInv, LiveInv, ShapeInv, CompleteInv, [Next]_vars
    PROVE  CompleteInv'
<1>. SUFFICES ASSUME log'.complete
              PROVE  /\ Clean' => WellFormed(wire)'
                     /\ stream'.buf = <<>> /\ ~conn'.canRead /\ Over'
  BY DEF CompleteInv
<1>1. CASE Parse /\ ParseEffect /\ ParseKeeps
  <2>1. log.complete
    BY <1>1 DEF ParseKeeps
  <2>2. conn.canRead
    BY <1>1, ParseReads
  <2>. QED  BY <2>1, <2>2 DEF CompleteInv
<1>2. CASE Api /\ CallEffect
  <2>1. log.complete /\ Knows
    BY <1>2 DEF CallEffect, SameLog
  <2>2. Over
    BY <2>1 DEF CompleteInv
  <2>. QED  BY <2>1, <2>2 DEF Over, Knows, ClientInv, RaisedInv
<1>3. ASSUME Quiet, QuietKeeps,
             Touch \/ Input \/ Output \/ Return \/ Tick \/ Gone \/ UNCHANGED vars
      PROVE  /\ Clean' => WellFormed(wire)'
             /\ stream'.buf = <<>> /\ ~conn'.canRead /\ Over'
  <2>1. CASE /\ wire' = wire /\ log'.marks = log.marks /\ log'.complete = log.complete
             /\ stream' = stream \/ stream' = FreshStream
    <3>1. /\ Clean => WellFormed(wire)
          /\ stream.buf = <<>> /\ ~conn.canRead /\ Over
      BY <2>1 DEF CompleteInv
    <3>2. stream'.buf = <<>>
      BY <2>1, <3>1 DEF FreshStream
    <3>3. ~conn'.canRead
      BY <3>1, <1>3 DEF Quiet
    <3>4. Over'
      BY <3>1, <1>3, OverStays
    <3>5. Clean' => WellFormed(wire)'
      BY <2>1, <3>1 DEF Clean, WellFormed
    <3>. QED  BY <3>2, <3>3, <3>4, <3>5
  <2>2. CASE /\ wire' # <<>> /\ log'.complete = aisl_stream_is_done(stream')
             /\ pc' = IF log'.complete THEN "finish" ELSE "timer"
    <3>1. stream'.buf = <<>> /\ stream'.state = DONE /\ pc' = "finish"
      BY <2>2 DEF aisl_stream_is_done
    <3>2. ClientInv' /\ ShapeInv'
      BY ClientStep, ShapeStep
    <3>3. ~conn'.canRead
      BY <2>2, <3>2 DEF ClientInv, ControlInv
    <3>4. Clean' => WellFormed(wire)'
      <4>1. SUFFICES ASSUME Clean' PROVE WellFormed(wire)'
        OBVIOUS
      <4>. DEFINE x == "explicit" \in log'.marks
      <4>2. DoneOf(wire' \o stream'.buf, stream'.sent, x)
        BY <4>1, <3>1, <3>2 DEF ShapeInv, Shape
      <4>3. wire' \o stream'.buf = wire'
        <5>1. wire' \in Seq(Tokens)
          BY <3>2 DEF ClientInv, Typed
        <5>. QED  BY <5>1, <3>1, ConcatEmptySeq
      <4>4. DoneOf(wire', stream'.sent, x) /\ x \in BOOLEAN
        BY <4>2, <4>3
      <4>. HIDE DEF x
      <4>5. /\ Shaped(wire') /\ Count(wire', "length") >= 1
            /\ ~x => Count(wire', "length") = 1 /\ LengthOf(wire') = Count(wire', "body")
        BY <4>4, DoneIsWhole
      <4>. QED  BY <4>5 DEF WellFormed, x
    <3>5. Over'
      BY <3>1 DEF Over
    <3>. QED  BY <3>1, <3>3, <3>4, <3>5
  <2>. QED  BY <1>3, <2>1, <2>2 DEF QuietKeeps
<1>4. \/ Touch \/ Input \/ Output \/ Return \/ Tick \/ Gone \/ UNCHANGED vars
      \/ Parse \/ Api
  BY DEF Next, Library
<1>5. CASE Parse
  BY <1>1, <1>5, ParseMoves, ParseContents
<1>6. CASE Api
  BY <1>2, <1>6, ApiEffect DEF ClientInv
<1>7. CASE Touch \/ Input \/ Output \/ Return \/ Tick \/ Gone \/ UNCHANGED vars
  BY <1>3, <1>7, QuietSteps, QuietContents
<1>. QED  BY <1>4, <1>5, <1>6, <1>7

(* A response that was completed is whole: a status line, its headers, one *)
(* blank line and the body; and, unless the application gave a length of   *)
(* its own, its Content-Length is the length of its body.  Whatever the    *)
(* application called and in whatever order, however the output was cut,   *)
(* but for what the marks of the history name (aisl_response, aisl_header, *)
(* aisl_write, aisl_flush, aisl_stream_close_headers, client_output).      *)
THEOREM CompletedIsWhole == Spec => []CompleteIsWellFormed
<1>1. Init => LiveInv /\ ShapeInv /\ CompleteInv
  <2>. SUFFICES ASSUME Init PROVE LiveInv /\ ShapeInv /\ CompleteInv
    OBVIOUS
  <2>1. stream.state = IDLE /\ stream.sent = {} /\ wire = <<>> /\ log.complete = FALSE
    BY DEF Init, FreshStream, FreshLog
  <2>. QED  BY <2>1, ShapeEarly, StatesAre DEF LiveInv, ShapeInv, CompleteInv
<1>2. ClientInv /\ LiveInv /\ ShapeInv /\ CompleteInv /\ [Next]_vars
        => (ClientInv /\ LiveInv /\ ShapeInv /\ CompleteInv)'
  BY ClientStep, LiveStep, ShapeStep, CompleteStep
<1>3. CompleteInv => CompleteIsWellFormed
  BY DEF CompleteInv, CompleteIsWellFormed, Clean
<1>. QED  BY <1>1, <1>2, <1>3, InitInv, PTL DEF Spec
=============================================================================
