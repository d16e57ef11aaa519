---------------------------- MODULE ClientProofs ----------------------------
(***************************************************************************)
(* Proofs about Client, for any units the peer sends, any sizes and        *)
(* bounds, and any calls of the application: the types, the separation of  *)
(* reading from writing, the account of the body, the order of events, and *)
(* that only a flushed response completes.                                 *)
(***************************************************************************)
EXTENDS Client, SequenceTheorems, FiniteSetTheorems, NaturalsInduction, WellFoundedInduction,
        TLAPS

-----------------------------------------------------------------------------
(* The state, typed as the records and sequences it consists of.           *)

Names == {"server", "type", "length", "connection"}

Tokens == [name : TokenNames, n : Int]

Conns == [in : Seq(PeerUnits), torn : BOOLEAN, online : BOOLEAN, canRead : BOOLEAN,
          canWrite : BOOLEAN, keepalive : BOOLEAN, http2 : BOOLEAN, silence : 0 .. Timeout]

Streams == [state : States, clen : Nat \cup {AUTO}, chunked : BOOLEAN,
            sent : SUBSET Names, buf : Seq(Tokens), bodyOff : Nat]

Logs == [raised : Events!Events, declared : Nat \cup {AUTO}, got : Nat,
         complete : BOOLEAN, marks : SUBSET Marks]

Typed ==
    /\ conn \in Conns /\ stream \in Streams /\ log \in Logs
    /\ Len(conn.in) <= InSize
    /\ wire \in Seq(Tokens)
    /\ pc \in {"app", "input", "parse", "fail", "callback", "output", "send",
               "finish", "timer", "reap", "gone"}
    /\ ret \in {"app", "parse", "fail", "output", "send"}
    /\ p \in {"success", "hungry", "ready", "error"}
    /\ parsed \in 0 .. Len(conn.in)
    /\ result \in {"idle", "success"}

(* A stream: nothing is buffered before the status line; the end of the    *)
(* head is known when the body is written, and lies in the buffer while    *)
(* nothing was sent; a flushed stream needs no Content-Length any more.    *)
StreamOK(s, w) ==
    /\ s.state <= READY => s.buf = <<>>
    /\ s.state < SEND_BODY => s.bodyOff = 0
    /\ s.state = SEND_BODY => s.bodyOff # 0
    /\ s.state = DONE => "length" \in s.sent
    /\ w = <<>> => s.bodyOff <= Len(s.buf)

Legal(s) == s \in Streams /\ StreamOK(s, wire)

(* The thread is at a point, or in a handler that returns to it.           *)
Towards(point) == pc = point \/ (pc = "callback" /\ ret = point)

-----------------------------------------------------------------------------
(* Sequences.                                                              *)

(* What is left of a sequence when its first k elements are dropped.       *)
LEMMA DropFacts ==
    ASSUME NEW S, NEW s \in Seq(S), NEW k \in 0 .. Len(s)
    PROVE  /\ Drop(s, k) \in Seq(S)
           /\ Len(Drop(s, k)) = Len(s) - k
           /\ \A i \in 1 .. Len(s) - k : Drop(s, k)[i] = s[k + i]
<1>1. Len(s) \in Nat /\ \A i \in k + 1 .. Len(s) : s[i] \in S
  BY LenProperties, ElementOfSeq
<1>2. /\ SubSeq(s, k + 1, Len(s)) \in Seq(S)
      /\ Len(SubSeq(s, k + 1, Len(s))) = IF k + 1 <= Len(s) THEN Len(s) - (k + 1) + 1 ELSE 0
      /\ \A i \in 1 .. Len(s) - (k + 1) + 1 : SubSeq(s, k + 1, Len(s))[i] = s[k + 1 + i - 1]
  <2>. k + 1 \in Int /\ Len(s) \in Int
    BY <1>1
  <2>. QED  BY <1>1, SubSeqProperties
<1>3. \A i \in 1 .. Len(s) - k : k + 1 + i - 1 = k + i /\ i \in 1 .. Len(s) - (k + 1) + 1
  BY <1>1
<1>. QED  BY <1>1, <1>2, <1>3 DEF Drop

(* The first k elements of a sequence.                                     *)
LEMMA FirstFacts ==
    ASSUME NEW S, NEW s \in Seq(S), NEW k \in 0 .. Len(s)
    PROVE  /\ SubSeq(s, 1, k) \in Seq(S)
           /\ Len(SubSeq(s, 1, k)) = k
           /\ \A i \in 1 .. k : SubSeq(s, 1, k)[i] = s[i]
<1>1. Len(s) \in Nat /\ \A i \in 1 .. k : s[i] \in S
  BY LenProperties, ElementOfSeq
<1>2. /\ SubSeq(s, 1, k) \in Seq(S)
      /\ Len(SubSeq(s, 1, k)) = IF 1 <= k THEN k - 1 + 1 ELSE 0
      /\ \A i \in 1 .. k - 1 + 1 : SubSeq(s, 1, k)[i] = s[1 + i - 1]
  <2>. 1 \in Int /\ k \in Int
    BY <1>1
  <2>. QED  BY <1>1, SubSeqProperties
<1>3. \A i \in 1 .. k : 1 + i - 1 = i /\ i \in 1 .. k - 1 + 1
  BY <1>1
<1>. QED  BY <1>1, <1>2, <1>3

(* A sequence is what was taken of it and what was left.                   *)
LEMMA SplitFacts ==
    ASSUME NEW S, NEW s \in Seq(S), NEW k \in 0 .. Len(s)
    PROVE  SubSeq(s, 1, k) \o Drop(s, k) = s
<1>. DEFINE u == SubSeq(s, 1, k)
            v == Drop(s, k)
<1>1. /\ u \in Seq(S) /\ Len(u) = k /\ \A i \in 1 .. k : u[i] = s[i]
      /\ v \in Seq(S) /\ Len(v) = Len(s) - k /\ \A i \in 1 .. Len(s) - k : v[i] = s[k + i]
  BY FirstFacts, DropFacts
<1>. HIDE DEF u, v
<1>2. /\ u \o v \in Seq(S) /\ Len(u \o v) = Len(u) + Len(v)
      /\ \A i \in 1 .. Len(u) + Len(v) :
            (u \o v)[i] = IF i <= Len(u) THEN u[i] ELSE v[i - Len(u)]
  BY <1>1, ConcatProperties
<1>3. Len(s) \in Nat
  BY LenProperties
<1>4. \A i \in 1 .. Len(s) : (u \o v)[i] = s[i]
  <2>1. ASSUME NEW i \in 1 .. Len(s)
        PROVE  (u \o v)[i] = s[i]
    <3>1. CASE i <= k
      BY <3>1, <1>1, <1>2, <1>3
    <3>2. CASE ~(i <= k)
      <4>1. i - k \in 1 .. Len(s) - k /\ k + (i - k) = i
        BY <3>2, <1>3
      <4>. QED  BY <4>1, <3>2, <1>1, <1>2, <1>3
    <3>. QED  BY <3>1, <3>2
  <2>. QED  BY <2>1
<1>5. u \o v = s
  <2>1. Len(u \o v) = Len(s) /\ \A i \in 1 .. Len(u \o v) : (u \o v)[i] = s[i]
    BY <1>1, <1>2, <1>3, <1>4
  <2>. QED  BY <2>1, <1>2, SeqEqual
<1>. QED  BY <1>5 DEF u, v

(* An element that is inserted: what was behind it moves by one.           *)
LEMMA InsertFacts ==
    ASSUME NEW S, NEW s \in Seq(S), NEW i \in 1 .. Len(s) + 1, NEW e \in S
    PROVE  /\ InsertAt(s, i, e) \in Seq(S)
           /\ Len(InsertAt(s, i, e)) = Len(s) + 1
           /\ \A j \in 1 .. Len(s) + 1 :
                 InsertAt(s, i, e)[j] = IF j < i THEN s[j] ELSE IF j = i THEN e ELSE s[j - 1]
<1>. DEFINE u == SubSeq(s, 1, i - 1)
            v == SubSeq(s, i, Len(s))
            one == <<e>>
<1>1. Len(s) \in Nat /\ i - 1 \in 0 .. Len(s) /\ i - 1 + 1 = i
  BY LenProperties
<1>2. u \in Seq(S) /\ Len(u) = i - 1 /\ \A j \in 1 .. i - 1 : u[j] = s[j]
  BY <1>1, FirstFacts
<1>3. /\ v \in Seq(S) /\ Len(v) = Len(s) - (i - 1)
      /\ \A j \in 1 .. Len(s) - (i - 1) : v[j] = s[i - 1 + j]
  BY <1>1, DropFacts DEF Drop
<1>4. one \in Seq(S) /\ Len(one) = 1 /\ one[1] = e
  OBVIOUS
<1>. DEFINE w == u \o one
<1>5. InsertAt(s, i, e) = w \o v
  BY DEF InsertAt
<1>. HIDE DEF u, v, one
<1>6. /\ w \in Seq(S) /\ Len(w) = i
      /\ \A j \in 1 .. i : w[j] = IF j <= i - 1 THEN u[j] ELSE one[j - (i - 1)]
  <2>1. /\ w \in Seq(S) /\ Len(w) = Len(u) + Len(one)
        /\ \A j \in 1 .. Len(u) + Len(one) :
              w[j] = IF j <= Len(u) THEN u[j] ELSE one[j - Len(u)]
    BY <1>2, <1>4, ConcatProperties
  <2>. QED  BY <2>1, <1>1, <1>2, <1>4
<1>. HIDE DEF w
<1>7. /\ w \o v \in Seq(S) /\ Len(w \o v) = Len(w) + Len(v)
      /\ \A j \in 1 .. Len(w) + Len(v) :
            (w \o v)[j] = IF j <= Len(w) THEN w[j] ELSE v[j - Len(w)]
  BY <1>3, <1>6, ConcatProperties
<1>8. ASSUME NEW j \in 1 .. Len(s) + 1
      PROVE  (w \o v)[j] = IF j < i THEN s[j] ELSE IF j = i THEN e ELSE s[j - 1]
  <2>. j \in 1 .. Len(w) + Len(v)
    BY <1>1, <1>3, <1>6
  <2>1. CASE j < i
    <3>1. j \in 1 .. i - 1 /\ j \in 1 .. i /\ j <= i /\ j <= i - 1
      BY <2>1, <1>1
    <3>. QED  BY <3>1, <2>1, <1>1, <1>2, <1>3, <1>6, <1>7
  <2>2. CASE j = i
    <3>1. j \in 1 .. i /\ j <= i /\ ~(j <= i - 1) /\ j - (i - 1) = 1
      BY <2>2, <1>1
    <3>. QED  BY SMTT(30), <3>1, <2>2, <1>1, <1>3, <1>4, <1>6, <1>7
  <2>3. CASE j > i
    <3>1. j - i \in 1 .. Len(s) - (i - 1) /\ ~(j <= i) /\ i - 1 + (j - i) = j - 1
      BY <2>3, <1>1
    <3>. QED  BY <3>1, <2>3, <1>1, <1>3, <1>6, <1>7
  <2>. QED  BY <2>1, <2>2, <2>3, <1>1
<1>9. Len(w \o v) = Len(s) + 1
  BY <1>1, <1>3, <1>6, <1>7
<1>. QED  BY <1>5, <1>7, <1>8, <1>9

-----------------------------------------------------------------------------
(* Streams, and what the functions on them yield.                          *)

Outcomes == [ok : BOOLEAN, s : Streams]

(* Everything but the buffer is the same.                                  *)
SameButBuf(t, s) ==
    /\ t.state = s.state /\ t.clen = s.clen /\ t.chunked = s.chunked
    /\ t.sent = s.sent /\ t.bodyOff = s.bodyOff

(* A token without a value.                                                *)
LEMMA TokenTyped ==
    \A name \in TokenNames : Token(name) \in Tokens /\ Token(name).name = name
BY DEF Token, Header, Tokens, TokenNames

(* Headers are tokens.                                                     *)
LEMMA HeaderTyped ==
    ASSUME NEW name \in Names \cup {"other"}, NEW n \in Int
    PROVE  /\ Header(name, n) \in Tokens
           /\ Header(name, n).name = name /\ Header(name, n).n = n
BY DEF Header, Tokens, TokenNames, Names

(* A stream whose buffer is replaced.                                      *)
LEMMA BufReplaced ==
    ASSUME NEW s \in Streams, NEW buf \in Seq(Tokens)
    PROVE  /\ [s EXCEPT !.buf = buf] \in Streams
           /\ [s EXCEPT !.buf = buf].buf = buf
           /\ SameButBuf([s EXCEPT !.buf = buf], s)
BY DEF Streams, SameButBuf

(* Appending tokens appends all of them, or, when an allocation fails,     *)
(* those before it.                                                        *)
LEMMA AppendedFacts ==
    ASSUME NEW s \in Streams, NEW tokens \in Seq(Tokens), NEW o \in Appended(s, tokens)
    PROVE  \E j \in 0 .. Len(tokens) :
              /\ o \in Outcomes /\ SameButBuf(o.s, s)
              /\ o.s.buf = s.buf \o SubSeq(tokens, 1, j)
              /\ o.ok <=> j = Len(tokens)
              /\ ~o.ok => OutOfMemory
<1>1. s.buf \in Seq(Tokens) /\ Len(tokens) \in Nat
  BY LenProperties DEF Streams
<1>2. \A j \in 0 .. Len(tokens) : s.buf \o SubSeq(tokens, 1, j) \in Seq(Tokens)
  BY <1>1, FirstFacts, ConcatProperties
<1>3. SubSeq(tokens, 1, Len(tokens)) = tokens
  BY SubSeqFull
<1>4. CASE o = [ok |-> TRUE, s |-> [s EXCEPT !.buf = @ \o tokens]]
  <2>1. Len(tokens) \in 0 .. Len(tokens)
    BY <1>1
  <2>2. o.ok = TRUE /\ o.s = [s EXCEPT !.buf = s.buf \o tokens]
    BY <1>4
  <2>3. s.buf \o tokens \in Seq(Tokens)
    BY <2>1, <1>2, <1>3
  <2>4. /\ o.s \in Streams /\ o.s.buf = s.buf \o tokens /\ SameButBuf(o.s, s)
    BY <2>2, <2>3, BufReplaced
  <2>5. o \in Outcomes
    BY <2>4, <1>4 DEF Outcomes
  <2>. QED  BY <2>1, <2>2, <2>4, <2>5, <1>3
<1>5. CASE o # [ok |-> TRUE, s |-> [s EXCEPT !.buf = @ \o tokens]]
  <2>1. PICK j \in 0 .. Len(tokens) - 1 :
           /\ OutOfMemory
           /\ o = [ok |-> FALSE, s |-> [s EXCEPT !.buf = @ \o SubSeq(tokens, 1, j)]]
    BY <1>5 DEF Appended
  <2>2. j \in 0 .. Len(tokens) /\ j # Len(tokens)
    BY <1>1
  <2>3. o.ok = FALSE /\ o.s = [s EXCEPT !.buf = s.buf \o SubSeq(tokens, 1, j)]
    BY <2>1
  <2>4. s.buf \o SubSeq(tokens, 1, j) \in Seq(Tokens)
    BY <2>2, <1>2
  <2>. DEFINE buf == s.buf \o SubSeq(tokens, 1, j)
  <2>. HIDE DEF buf
  <2>5. /\ o.s \in Streams /\ o.s.buf = s.buf \o SubSeq(tokens, 1, j) /\ SameButBuf(o.s, s)
    <3>1. buf \in Seq(Tokens) /\ o.s = [s EXCEPT !.buf = buf]
      BY <2>3, <2>4 DEF buf
    <3>2. o.s \in Streams /\ o.s.buf = buf /\ SameButBuf(o.s, s)
      BY <3>1, BufReplaced
    <3>. QED  BY <3>2 DEF buf
  <2>6. o \in Outcomes
    BY <2>5, <2>1 DEF Outcomes
  <2>. QED  BY <2>1, <2>2, <2>3, <2>5, <2>6
<1>. QED  BY <1>4, <1>5

(* One token is appended, or nothing is.                                   *)
LEMMA AppendedOne ==
    ASSUME NEW s \in Streams, NEW token \in Tokens, NEW o \in Appended(s, <<token>>)
    PROVE  /\ o \in Outcomes /\ SameButBuf(o.s, s)
           /\ o.ok => o.s.buf = s.buf \o <<token>>
           /\ ~o.ok => OutOfMemory /\ o.s.buf = s.buf
<1>1. <<token>> \in Seq(Tokens) /\ Len(<<token>>) = 1
  OBVIOUS
<1>2. PICK j \in 0 .. 1 :
              /\ o \in Outcomes /\ SameButBuf(o.s, s)
              /\ o.s.buf = s.buf \o SubSeq(<<token>>, 1, j)
              /\ o.ok <=> j = 1
              /\ ~o.ok => OutOfMemory
  BY <1>1, AppendedFacts
<1>. DEFINE one == <<token>>
<1>. HIDE DEF one
<1>3. SubSeq(one, 1, 1) = one /\ SubSeq(one, 1, 0) = <<>>
  <2>1. one \in Seq(Tokens) /\ Len(one) = 1
    BY <1>1 DEF one
  <2>. QED  BY <2>1, SubSeqFull, SubSeqEmpty
<1>4. s.buf \o <<>> = s.buf
  BY ConcatEmptySeq DEF Streams
<1>5. o.s.buf = s.buf \o SubSeq(one, 1, j)
  BY <1>2 DEF one
<1>6. CASE j = 1
  BY <1>2, <1>3, <1>5, <1>6 DEF one
<1>7. CASE j = 0
  <2>. DEFINE none == SubSeq(one, 1, 0)
  <2>1. none = <<>>
    BY <1>3
  <2>2. o.s.buf = s.buf \o none
    BY <1>5, <1>7
  <2>. HIDE DEF none
  <2>3. o.s.buf = s.buf
    BY <2>1, <2>2, <1>4
  <2>. QED  BY <2>3, <1>2, <1>7
<1>8. j = 0 \/ j = 1
  BY <1>2
<1>. QED  BY <1>6, <1>7, <1>8

(* A response is begun by its status line; the length is kept whatever     *)
(* becomes of it.                                                          *)
LEMMA ResponseFacts ==
    ASSUME NEW s \in Streams, NEW c_len \in Nat \cup {AUTO}, NEW o \in Response(s, c_len)
    PROVE  /\ o \in Outcomes
           /\ s.state > READY => o.ok /\ o.s = s
           /\ s.state <= READY =>
                /\ o.s.clen = c_len /\ o.s.chunked = s.chunked
                /\ o.s.sent = s.sent /\ o.s.bodyOff = s.bodyOff
                /\ o.ok => o.s.state = SEND_HEADER /\ o.s.buf = <<Token("status")>>
                /\ ~o.ok => OutOfMemory /\ o.s.state = s.state /\ o.s.buf = <<>>
<1>1. CASE s.state > READY
  <2>1. o = [ok |-> TRUE, s |-> s] /\ ~(s.state <= READY)
    BY <1>1 DEF Response, Streams, States, IDLE, DONE, READY
  <2>. QED  BY <2>1 DEF Outcomes
<1>2. CASE ~(s.state > READY)
  <2>. DEFINE e == [s EXCEPT !.clen = c_len, !.buf = <<>>]
  <2>1. /\ e \in Streams /\ e.clen = c_len /\ e.buf = <<>> /\ e.state = s.state
        /\ e.chunked = s.chunked /\ e.sent = s.sent /\ e.bodyOff = s.bodyOff
    <3>. <<>> \in Seq(Tokens)
      BY EmptySeq
    <3>. QED  BY DEF Streams
  <2>2. PICK a \in Appended(e, <<Token("status")>>) :
           o = [a EXCEPT !.s.state = IF a.ok THEN SEND_HEADER ELSE @]
    BY <1>2 DEF Response
  <2>. HIDE DEF e
  <2>3. Token("status") \in Tokens
    BY TokenTyped DEF TokenNames
  <2>4. /\ a \in Outcomes /\ SameButBuf(a.s, e)
        /\ a.ok => a.s.buf = e.buf \o <<Token("status")>>
        /\ ~a.ok => OutOfMemory /\ a.s.buf = e.buf
    BY <2>1, <2>3, AppendedOne
  <2>5. <<>> \o <<Token("status")>> = <<Token("status")>>
    BY <2>3, ConcatEmptySeq
  <2>6. a.s \in Streams /\ SEND_HEADER \in States /\ a.ok \in BOOLEAN
    BY <2>4 DEF Outcomes, States, SEND_HEADER, IDLE, DONE
  <2>7. /\ o.ok = a.ok
        /\ o.s = [a.s EXCEPT !.state = IF a.ok THEN SEND_HEADER ELSE @]
        /\ o \in [ok : BOOLEAN, s : {o.s}]
    BY <2>2, <2>4, <2>6 DEF Outcomes
  <2>8. /\ o.s \in Streams
        /\ o.s.state = IF a.ok THEN SEND_HEADER ELSE a.s.state
        /\ o.s.clen = a.s.clen /\ o.s.chunked = a.s.chunked /\ o.s.sent = a.s.sent
        /\ o.s.buf = a.s.buf /\ o.s.bodyOff = a.s.bodyOff
    BY <2>6, <2>7 DEF Streams
  <2>9. o \in Outcomes
    BY <2>7, <2>8 DEF Outcomes
  <2>. QED  BY <1>2, <2>1, <2>4, <2>5, <2>7, <2>8, <2>9 DEF SameButBuf
<1>. QED  BY <1>1, <1>2

(* A sequence has an element of that name.                                 *)
Has(w, name) == \E i \in 1 .. Len(w) : w[i].name = name

(* All its elements have names in a set.                                   *)
Only(w, names) == \A i \in 1 .. Len(w) : w[i].name \in names

(* Its first Connection header, if it has one, reads as the code spells    *)
(* it exactly if the connection is kept.                                   *)
Honest(w, keepalive) ==
    \A i \in 1 .. Len(w) :
        w[i].name = "connection" /\ (\A j \in 1 .. i - 1 : w[j].name # "connection") =>
            (w[i].n = 1 <=> keepalive)

(* The names of a concatenation.                                           *)
LEMMA ConcatNames ==
    ASSUME NEW u \in Seq(Tokens), NEW v \in Seq(Tokens)
    PROVE  /\ u \o v \in Seq(Tokens) /\ Len(u \o v) = Len(u) + Len(v)
           /\ \A name : Has(u \o v, name) <=> Has(u, name) \/ Has(v, name)
           /\ \A names : Only(u \o v, names) <=> Only(u, names) /\ Only(v, names)
<1>. DEFINE w == u \o v
<1>1. /\ w \in Seq(Tokens) /\ Len(w) = Len(u) + Len(v)
      /\ \A i \in 1 .. Len(u) + Len(v) :
            w[i] = IF i <= Len(u) THEN u[i] ELSE v[i - Len(u)]
  BY ConcatProperties
<1>2. Len(u) \in Nat /\ Len(v) \in Nat
  BY LenProperties
<1>. HIDE DEF w
<1>3. \A i \in 1 .. Len(u) : i \in 1 .. Len(w) /\ w[i] = u[i]
  BY <1>1, <1>2
<1>4. \A i \in 1 .. Len(v) : Len(u) + i \in 1 .. Len(w) /\ w[Len(u) + i] = v[i]
  <2>1. ASSUME NEW i \in 1 .. Len(v)
        PROVE  Len(u) + i \in 1 .. Len(w) /\ w[Len(u) + i] = v[i]
    <3>1. Len(u) + i \in 1 .. Len(u) + Len(v) /\ ~(Len(u) + i <= Len(u)) /\ Len(u) + i - Len(u) = i
      BY <1>2
    <3>. QED  BY <3>1, <1>1
  <2>. QED  BY <2>1
<1>5. \A i \in 1 .. Len(w) : \/ i \in 1 .. Len(u) /\ w[i] = u[i]
                             \/ i - Len(u) \in 1 .. Len(v) /\ w[i] = v[i - Len(u)]
  BY <1>1, <1>2
<1>6. ASSUME NEW name
      PROVE  Has(w, name) <=> Has(u, name) \/ Has(v, name)
  <2>1. Has(w, name) => Has(u, name) \/ Has(v, name)
    BY <1>5 DEF Has
  <2>2. Has(u, name) => Has(w, name)
    BY <1>3 DEF Has
  <2>3. Has(v, name) => Has(w, name)
    BY <1>4 DEF Has
  <2>. QED  BY <2>1, <2>2, <2>3
<1>7. ASSUME NEW names
      PROVE  Only(w, names) <=> Only(u, names) /\ Only(v, names)
  BY <1>3, <1>4, <1>5 DEF Only
<1>. QED  BY <1>1, <1>6, <1>7 DEF w

(* The first Connection header of a concatenation.                         *)
LEMMA ConcatHonest ==
    ASSUME NEW u \in Seq(Tokens), NEW v \in Seq(Tokens), NEW keepalive \in BOOLEAN,
           Honest(u, keepalive), Has(u, "connection") \/ Honest(v, keepalive)
    PROVE  Honest(u \o v, keepalive)
<1>. DEFINE w == u \o v
<1>1. /\ w \in Seq(Tokens) /\ Len(w) = Len(u) + Len(v)
      /\ \A i \in 1 .. Len(u) + Len(v) :
            w[i] = IF i <= Len(u) THEN u[i] ELSE v[i - Len(u)]
  BY ConcatProperties
<1>2. Len(u) \in Nat /\ Len(v) \in Nat
  BY LenProperties
<1>. HIDE DEF w
<1>3. \A i \in 1 .. Len(u) : i \in 1 .. Len(w) /\ w[i] = u[i]
  BY <1>1, <1>2
<1>4. \A i \in 1 .. Len(v) : w[Len(u) + i] = v[i]
  <2>1. ASSUME NEW i \in 1 .. Len(v)
        PROVE  w[Len(u) + i] = v[i]
    <3>1. Len(u) + i \in 1 .. Len(u) + Len(v) /\ ~(Len(u) + i <= Len(u)) /\ Len(u) + i - Len(u) = i
      BY <1>2
    <3>. QED  BY <3>1, <1>1
  <2>. QED  BY <2>1
<1>5. ASSUME NEW i \in 1 .. Len(w), w[i].name = "connection",
             \A j \in 1 .. i - 1 : w[j].name # "connection"
      PROVE  w[i].n = 1 <=> keepalive
  <2>1. CASE i <= Len(u)
    <3>1. i \in 1 .. Len(u) /\ w[i] = u[i]
      BY <2>1, <1>1, <1>2
    <3>2. \A j \in 1 .. i - 1 : j \in 1 .. Len(u) /\ w[j] = u[j]
      BY <3>1, <1>2, <1>3
    <3>. QED  BY <3>1, <3>2, <1>5 DEF Honest
  <2>2. CASE ~(i <= Len(u))
    <3>. DEFINE k == i - Len(u)
    <3>1. k \in 1 .. Len(v) /\ i = Len(u) + k /\ w[i] = v[k]
      BY <2>2, <1>1, <1>2
    <3>2. \A j \in 1 .. Len(u) : j \in 1 .. i - 1 /\ w[j] = u[j]
      BY <2>2, <1>1, <1>2, <1>3
    <3>3. Honest(v, keepalive)
      BY <3>2, <1>5 DEF Has
    <3>4. \A j \in 1 .. k - 1 : v[j].name # "connection"
      <4>1. ASSUME NEW j \in 1 .. k - 1
            PROVE  v[j].name # "connection"
        <5>1. Len(u) + j \in 1 .. i - 1 /\ j \in 1 .. Len(v)
          BY <3>1, <1>2
        <5>. QED  BY <5>1, <1>4, <1>5
      <4>. QED  BY <4>1
    <3>. HIDE DEF k
    <3>. QED  BY <3>1, <3>3, <3>4, <1>5 DEF Honest
  <2>. QED  BY <2>1, <2>2
<1>6. Honest(w, keepalive)
  BY <1>5 DEF Honest
<1>. QED  BY <1>6 DEF w

(* One of the headers that are added when they are missing.                *)
Piece(s, name, n) == IF name \in s.sent THEN <<>> ELSE <<Header(name, n)>>

(* Piece adds its header exactly when it has not been sent yet, and the
   connection header it adds tells what keepalive says. *)
LEMMA PieceFacts ==
    ASSUME NEW s \in Streams, NEW name \in Names, NEW n \in Int, NEW keepalive \in BOOLEAN,
           name = "connection" => (n = 1 <=> keepalive)
    PROVE  /\ Piece(s, name, n) \in Seq(Tokens)
           /\ Only(Piece(s, name, n), Names)
           /\ \A x : Has(Piece(s, name, n), x) <=> x = name /\ name \notin s.sent
           /\ Honest(Piece(s, name, n), keepalive)
<1>. DEFINE h == Header(name, n)
<1>1. h \in Tokens /\ h.name = name /\ h.n = n
  BY HeaderTyped
<1>. HIDE DEF h
<1>2. CASE name \in s.sent
  <2>1. Piece(s, name, n) = <<>>
    BY <1>2 DEF Piece
  <2>2. <<>> \in Seq(Tokens) /\ Len(<<>>) = 0
    BY EmptySeq
  <2>3. \A i : i \notin 1 .. 0
    OBVIOUS
  <2>. QED  BY <2>1, <2>2, <2>3, <1>2 DEF Only, Has, Honest
<1>3. CASE name \notin s.sent
  <2>. DEFINE w == Piece(s, name, n)
  <2>1. w = <<h>>
    BY <1>3 DEF Piece, h
  <2>2. w \in Seq(Tokens) /\ Len(w) = 1 /\ w[1] = h
    BY <2>1, <1>1
  <2>. HIDE DEF w
  <2>3. \A i : i \in 1 .. 1 <=> i = 1
    OBVIOUS
  <2>4. Only(w, Names) /\ Honest(w, keepalive)
    BY <2>2, <2>3, <1>1 DEF Only, Honest
  <2>5. \A x : Has(w, x) <=> x = name
    BY <2>2, <2>3, <1>1 DEF Has
  <2>. QED  BY <2>2, <2>4, <2>5, <1>3 DEF w
<1>. QED  BY <1>2, <1>3

(* The headers that are missing are those not sent, and a length only if   *)
(* one is known.                                                           *)
LEMMA MissingFacts ==
    ASSUME NEW s \in Streams, conn.keepalive \in BOOLEAN
    PROVE  /\ MissingHeaders(s) \in Seq(Tokens)
           /\ Only(MissingHeaders(s), Names)
           /\ \A x : Has(MissingHeaders(s), x) <=>
                        x \in Names \ s.sent /\ (x = "length" => s.clen # AUTO)
           /\ Honest(MissingHeaders(s), conn.keepalive)
<1>. DEFINE k == IF conn.keepalive THEN 1 ELSE 0
            a == Piece(s, "server", 0)
            b == Piece(s, "type", 0)
            c == IF s.clen = AUTO THEN <<>> ELSE Piece(s, "length", s.clen)
            d == Piece(s, "connection", k)
<1>1. MissingHeaders(s) = ((a \o b) \o c) \o d
  BY DEF MissingHeaders, Piece
<1>2. /\ a \in Seq(Tokens) /\ Only(a, Names) /\ Honest(a, conn.keepalive)
      /\ \A x : Has(a, x) <=> x = "server" /\ "server" \notin s.sent
  BY SMTT(30), PieceFacts DEF Names
<1>3. /\ b \in Seq(Tokens) /\ Only(b, Names) /\ Honest(b, conn.keepalive)
      /\ \A x : Has(b, x) <=> x = "type" /\ "type" \notin s.sent
  BY PieceFacts DEF Names
<1>4. /\ c \in Seq(Tokens) /\ Only(c, Names) /\ Honest(c, conn.keepalive)
      /\ \A x : Has(c, x) <=> x = "length" /\ "length" \notin s.sent /\ s.clen # AUTO
  <2>1. CASE s.clen = AUTO
    <3>1. c = <<>>
      BY <2>1
    <3>2. <<>> \in Seq(Tokens) /\ Len(<<>>) = 0 /\ \A i : i \notin 1 .. 0
      BY EmptySeq
    <3>. QED  BY <2>1, <3>1, <3>2 DEF Only, Has, Honest
  <2>2. CASE s.clen # AUTO
    <3>1. s.clen \in Int
      BY DEF Streams, AUTO
    <3>2. c = Piece(s, "length", s.clen)
      BY <2>2
    <3>3. /\ Piece(s, "length", s.clen) \in Seq(Tokens)
          /\ Only(Piece(s, "length", s.clen), Names)
          /\ Honest(Piece(s, "length", s.clen), conn.keepalive)
          /\ \A x : Has(Piece(s, "length", s.clen), x) <=> x = "length" /\ "length" \notin s.sent
      BY <3>1, PieceFacts DEF Names
    <3>. QED  BY <2>2, <3>2, <3>3
  <2>. QED  BY <2>1, <2>2
<1>5. /\ d \in Seq(Tokens) /\ Only(d, Names) /\ Honest(d, conn.keepalive)
      /\ \A x : Has(d, x) <=> x = "connection" /\ "connection" \notin s.sent
  <2>1. k \in Int /\ (k = 1 <=> conn.keepalive)
    OBVIOUS
  <2>. HIDE DEF k
  <2>. QED  BY <2>1, PieceFacts DEF Names
<1>. HIDE DEF a, b, c, d
<1>6. /\ a \o b \in Seq(Tokens) /\ Only(a \o b, Names) /\ Honest(a \o b, conn.keepalive)
      /\ \A x : Has(a \o b, x) <=> Has(a, x) \/ Has(b, x)
  BY <1>2, <1>3, ConcatNames, ConcatHonest
<1>. DEFINE e == a \o b
<1>. HIDE DEF e
<1>7. /\ e \in Seq(Tokens) /\ Only(e, Names) /\ Honest(e, conn.keepalive)
      /\ \A x : Has(e, x) <=> Has(a, x) \/ Has(b, x)
  BY <1>6 DEF e
<1>8. /\ e \o c \in Seq(Tokens) /\ Only(e \o c, Names) /\ Honest(e \o c, conn.keepalive)
      /\ \A x : Has(e \o c, x) <=> Has(e, x) \/ Has(c, x)
  BY <1>4, <1>7, ConcatNames, ConcatHonest
<1>. DEFINE f == e \o c
<1>. HIDE DEF f
<1>9. /\ f \in Seq(Tokens) /\ Only(f, Names) /\ Honest(f, conn.keepalive)
      /\ \A x : Has(f, x) <=> Has(e, x) \/ Has(c, x)
  BY <1>8 DEF f
<1>10. /\ f \o d \in Seq(Tokens) /\ Only(f \o d, Names) /\ Honest(f \o d, conn.keepalive)
       /\ \A x : Has(f \o d, x) <=> Has(f, x) \/ Has(d, x)
  BY <1>5, <1>9, ConcatNames, ConcatHonest
<1>11. MissingHeaders(s) = f \o d
  BY <1>1 DEF e, f
<1>. QED
  <2>1. \A x : Has(MissingHeaders(s), x) <=>
                  x \in Names \ s.sent /\ (x = "length" => s.clen # AUTO)
    BY <1>2, <1>3, <1>4, <1>5, <1>7, <1>9, <1>10, <1>11 DEF Names
  <2>. QED  BY <2>1, <1>10, <1>11

(* What holds of the names of a sequence holds of its first elements.      *)
LEMMA FirstNames ==
    ASSUME NEW w \in Seq(Tokens), NEW j \in 0 .. Len(w)
    PROVE  /\ \A names : Only(w, names) => Only(SubSeq(w, 1, j), names)
           /\ \A name : Has(SubSeq(w, 1, j), name) => Has(w, name)
           /\ \A keepalive : Honest(w, keepalive) => Honest(SubSeq(w, 1, j), keepalive)
<1>. DEFINE u == SubSeq(w, 1, j)
<1>1. Len(u) = j /\ \A i \in 1 .. j : u[i] = w[i]
  BY FirstFacts
<1>2. Len(w) \in Nat
  BY LenProperties
<1>. HIDE DEF u
<1>3. \A i \in 1 .. Len(u) : i \in 1 .. Len(w) /\ u[i] = w[i] /\ 1 .. i - 1 \subseteq 1 .. Len(u)
  BY <1>1, <1>2
<1>4. \A names : Only(w, names) => Only(u, names)
  BY <1>3 DEF Only
<1>5. \A name : Has(u, name) => Has(w, name)
  BY <1>3 DEF Has
<1>6. ASSUME NEW keepalive, Honest(w, keepalive)
      PROVE  Honest(u, keepalive)
  <2>1. ASSUME NEW i \in 1 .. Len(u), u[i].name = "connection",
               \A k \in 1 .. i - 1 : u[k].name # "connection"
        PROVE  u[i].n = 1 <=> keepalive
    <3>1. \A k \in 1 .. i - 1 : w[k].name # "connection"
      BY <2>1, <1>3
    <3>. QED  BY <3>1, <2>1, <1>3, <1>6 DEF Honest
  <2>. QED  BY <2>1 DEF Honest
<1>. QED  BY <1>4, <1>5, <1>6 DEF u

(* The head that is added to close the headers.                            *)
Head_(s) == Append(MissingHeaders(s), Token("blank"))

(* The head that close_headers writes: every header that is missing, each
   once, then the blank line. *)
LEMMA HeadFacts ==
    ASSUME NEW s \in Streams, conn.keepalive \in BOOLEAN
    PROVE  /\ Head_(s) \in Seq(Tokens)
           /\ Head_(s) = MissingHeaders(s) \o <<Token("blank")>>
           /\ Only(Head_(s), Names \cup {"blank"})
           /\ \A x \in Names : Has(Head_(s), x) => x \notin s.sent
           /\ Honest(Head_(s), conn.keepalive)
<1>. DEFINE m == MissingHeaders(s)
            b == <<Token("blank")>>
<1>1. Token("blank") \in Tokens /\ Token("blank").name = "blank"
  BY TokenTyped DEF TokenNames
<1>2. /\ m \in Seq(Tokens) /\ Only(m, Names) /\ Honest(m, conn.keepalive)
      /\ \A x \in Names : Has(m, x) => x \notin s.sent
  BY MissingFacts
<1>3. b \in Seq(Tokens) /\ Len(b) = 1 /\ b[1] = Token("blank")
  BY <1>1
<1>4. Head_(s) = m \o b
  BY <1>1, <1>2, AppendIsConcat DEF Head_
<1>. HIDE DEF m, b
<1>5. \A i : i \in 1 .. 1 <=> i = 1
  OBVIOUS
<1>6. Only(b, {"blank"}) /\ Honest(b, conn.keepalive) /\ \A x \in Names : ~Has(b, x)
  BY <1>1, <1>3, <1>5 DEF Only, Honest, Has, Names
<1>7. Only(m, Names \cup {"blank"}) /\ Only(b, Names \cup {"blank"})
  BY <1>2, <1>6 DEF Only
<1>8. /\ m \o b \in Seq(Tokens) /\ Only(m \o b, Names \cup {"blank"})
      /\ \A x : Has(m \o b, x) <=> Has(m, x) \/ Has(b, x)
  BY <1>2, <1>3, <1>7, ConcatNames
<1>9. Honest(m \o b, conn.keepalive)
  BY <1>2, <1>3, <1>6, ConcatHonest
<1>. QED  BY <1>2, <1>4, <1>6, <1>8, <1>9 DEF m, b

(* Closing the headers begins a response if need be, and then appends what *)
(* is missing of the head, or, when memory ends, a part of it.             *)
Closed(r, o) ==
    \E added \in Seq(Tokens) :
        /\ o \in Outcomes
        /\ o.s.clen = r.s.clen /\ o.s.chunked = r.s.chunked
        /\ o.s.buf = r.s.buf \o added
        /\ Only(added, Names \cup {"blank"})
        /\ \A x \in Names : Has(added, x) => x \notin r.s.sent
        /\ \A x \in Names : x \in o.s.sent <=> x \in r.s.sent \/ Has(added, x)
        /\ Honest(added, conn.keepalive)
        /\ o.ok => /\ added = Head_(r.s)
                   /\ o.s.state = SEND_BODY /\ o.s.bodyOff = Len(o.s.buf)
        /\ ~o.ok => OutOfMemory /\ o.s.state = r.s.state /\ o.s.bodyOff = r.s.bodyOff

LEMMA CloseFacts ==
    ASSUME NEW s \in Streams, conn.keepalive \in BOOLEAN,
           NEW o \in aisl_stream_close_headers(s)
    PROVE  \E r \in Response(s, AUTO) : r \in Outcomes /\ IF r.ok THEN Closed(r, o) ELSE o = r
<1>1. PICK r \in Response(s, AUTO) :
         o \in IF ~r.ok THEN {r} ELSE
               {LET t == [a.s EXCEPT !.sent = @ \cup (AddedBetween(r.s, a.s) \ {"blank"})] IN
                [a EXCEPT !.s = IF ~a.ok THEN t
                                ELSE [t EXCEPT !.bodyOff = Len(t.buf), !.state = SEND_BODY]] :
                  a \in Appended(r.s, Append(MissingHeaders(r.s), Token("blank")))}
  BY DEF aisl_stream_close_headers
<1>2. r \in Outcomes /\ r.s \in Streams
  <2>1. AUTO \in Nat \cup {AUTO}
    OBVIOUS
  <2>2. r \in Outcomes
    BY <2>1, ResponseFacts
  <2>. QED  BY <2>2 DEF Outcomes
<1>3. CASE ~r.ok
  BY <1>1, <1>2, <1>3
<1>4. CASE r.ok
  <2>1. PICK a \in Appended(r.s, Head_(r.s)) :
           o = LET t == [a.s EXCEPT !.sent = @ \cup (AddedBetween(r.s, a.s) \ {"blank"})] IN
               [a EXCEPT !.s = IF ~a.ok THEN t
                               ELSE [t EXCEPT !.bodyOff = Len(t.buf), !.state = SEND_BODY]]
    BY <1>1, <1>4 DEF Head_
  <2>. DEFINE h == Head_(r.s)
  <2>2. /\ h \in Seq(Tokens) /\ Only(h, Names \cup {"blank"}) /\ Honest(h, conn.keepalive)
        /\ \A x \in Names : Has(h, x) => x \notin r.s.sent
    BY <1>2, HeadFacts
  <2>3. a \in Appended(r.s, h)
    OBVIOUS
  <2>. HIDE DEF h
  <2>4. PICK j \in 0 .. Len(h) :
           /\ a \in Outcomes /\ SameButBuf(a.s, r.s)
           /\ a.s.buf = r.s.buf \o SubSeq(h, 1, j)
           /\ a.ok <=> j = Len(h)
           /\ ~a.ok => OutOfMemory
    BY <1>2, <2>2, <2>3, AppendedFacts
  <2>. DEFINE added == SubSeq(h, 1, j)
  <2>5. /\ added \in Seq(Tokens) /\ Only(added, Names \cup {"blank"})
        /\ Honest(added, conn.keepalive)
        /\ \A x \in Names : Has(added, x) => x \notin r.s.sent
    BY <2>2, FirstFacts, FirstNames
  <2>6. a.ok => added = h
    BY <2>2, <2>4, SubSeqFull
  <2>7. a.s.buf = r.s.buf \o added
    BY <2>4
  <2>. HIDE DEF added
  <2>8. r.s.buf \in Seq(Tokens) /\ Len(r.s.buf) \in Nat /\ Len(added) \in Nat
    BY <1>2, <2>5, LenProperties DEF Streams
  <2>9. /\ Len(a.s.buf) = Len(r.s.buf) + Len(added)
        /\ \A i \in 1 .. Len(added) : a.s.buf[Len(r.s.buf) + i] = added[i]
    <3>1. /\ Len(a.s.buf) = Len(r.s.buf) + Len(added)
          /\ \A i \in 1 .. Len(r.s.buf) + Len(added) :
                a.s.buf[i] = IF i <= Len(r.s.buf) THEN r.s.buf[i] ELSE added[i - Len(r.s.buf)]
      BY <2>5, <2>7, <2>8, ConcatProperties
    <3>2. ASSUME NEW i \in 1 .. Len(added)
          PROVE  a.s.buf[Len(r.s.buf) + i] = added[i]
      <4>. DEFINE m == Len(r.s.buf)
                  n == m + i
      <4>1. n \in 1 .. m + Len(added) /\ ~(n <= m) /\ n - m = i
        BY <2>8
      <4>. HIDE DEF n
      <4>2. a.s.buf[n] = added[i]
        BY <4>1, <3>1
      <4>. QED  BY <4>2 DEF n
    <3>. QED  BY <3>1, <3>2
  <2>. DEFINE names == AddedBetween(r.s, a.s) \ {"blank"}
  <2>10. \A x : x \in AddedBetween(r.s, a.s) <=> Has(added, x)
    <3>1. ASSUME NEW x, x \in AddedBetween(r.s, a.s)
          PROVE  Has(added, x)
      <4>1. PICK i \in Len(r.s.buf) + 1 .. Len(a.s.buf) : x = a.s.buf[i].name
        BY <3>1 DEF AddedBetween
      <4>2. i - Len(r.s.buf) \in 1 .. Len(added) /\ Len(r.s.buf) + (i - Len(r.s.buf)) = i
        BY <2>8, <2>9
      <4>3. a.s.buf[i] = added[i - Len(r.s.buf)]
        BY <4>2, <2>9
      <4>. QED  BY <4>1, <4>2, <4>3 DEF Has
    <3>2. ASSUME NEW x, Has(added, x)
          PROVE  x \in AddedBetween(r.s, a.s)
      <4>1. PICK i \in 1 .. Len(added) : added[i].name = x
        BY <3>2 DEF Has
      <4>2. Len(r.s.buf) + i \in Len(r.s.buf) + 1 .. Len(a.s.buf)
        BY <2>8, <2>9
      <4>. QED  BY <4>1, <4>2, <2>9 DEF AddedBetween
    <3>. QED  BY <3>1, <3>2
  <2>11. /\ \A x \in Names : x \in names <=> Has(added, x)
         /\ names \subseteq Names
    <3>1. \A x : Has(added, x) => x \in Names \cup {"blank"}
      BY <2>5 DEF Has, Only
    <3>. QED  BY <2>10, <3>1 DEF Names
  <2>. HIDE DEF names
  <2>. DEFINE t == [a.s EXCEPT !.sent = @ \cup names]
              f == [t EXCEPT !.bodyOff = Len(t.buf), !.state = SEND_BODY]
  <2>12. o = [a EXCEPT !.s = IF ~a.ok THEN t ELSE f]
    BY <2>1 DEF names
  <2>13. a.s \in Streams /\ a.ok \in BOOLEAN
    BY <2>4 DEF Outcomes
  <2>14. /\ t \in Streams /\ t.sent = a.s.sent \cup names
         /\ t.state = a.s.state /\ t.clen = a.s.clen /\ t.chunked = a.s.chunked
         /\ t.buf = a.s.buf /\ t.bodyOff = a.s.bodyOff
    BY <2>13, <2>11 DEF Streams
  <2>. HIDE DEF t
  <2>15. SEND_BODY \in States /\ Len(t.buf) \in Nat
    BY <2>14, LenProperties DEF Streams, States, IDLE, DONE, SEND_BODY
  <2>16. /\ f \in Streams /\ f.sent = t.sent /\ f.state = SEND_BODY /\ f.clen = t.clen
         /\ f.chunked = t.chunked /\ f.buf = t.buf /\ f.bodyOff = Len(t.buf)
    BY <2>14, <2>15 DEF Streams
  <2>. HIDE DEF f
  <2>17. o.ok = a.ok /\ o.s = (IF ~a.ok THEN t ELSE f) /\ o \in Outcomes
    BY <2>4, <2>12, <2>14, <2>16 DEF Outcomes
  <2>18. /\ o.s.clen = r.s.clen /\ o.s.chunked = r.s.chunked
         /\ o.s.buf = r.s.buf \o added /\ o.s.sent = r.s.sent \cup names
         /\ o.ok => o.s.state = SEND_BODY /\ o.s.bodyOff = Len(o.s.buf)
         /\ ~o.ok => o.s.state = r.s.state /\ o.s.bodyOff = r.s.bodyOff
    BY <2>4, <2>7, <2>14, <2>16, <2>17 DEF SameButBuf
  <2>19. Closed(r, o)
    BY <2>4, <2>5, <2>6, <2>11, <2>17, <2>18 DEF Closed, h
  <2>. QED  BY <2>19, <1>2, <1>4
<1>. QED  BY <1>3, <1>4

(* What every call keeps of a stream: it stays legal, goes forward, and    *)
(* goes on only with memory: a call that does not begin the response has   *)
(* failed.                                                                 *)
Result(o, s) ==
    /\ o \in Outcomes /\ StreamOK(o.s, wire)
    /\ o.s.chunked = s.chunked /\ s.state <= o.s.state
    /\ o.s.state <= READY => /\ ~o.ok /\ OutOfMemory
                             /\ o.s.state = s.state /\ o.s.sent = s.sent

(* The states, as numbers.                                                 *)
LEMMA StatesAre ==
    /\ States = 0 .. 6 /\ IDLE = 0 /\ WAIT_HEADER = 1 /\ WAIT_BODY = 2 /\ READY = 3
    /\ SEND_HEADER = 4 /\ SEND_BODY = 5 /\ DONE = 6
BY DEF States, IDLE, WAIT_HEADER, WAIT_BODY, READY, SEND_HEADER, SEND_BODY, DONE

(* The fields of a stream.                                                 *)
LEMMA StreamFields ==
    ASSUME NEW s \in Streams
    PROVE  /\ s.state \in 0 .. 6 /\ s.clen \in Nat \cup {AUTO} /\ s.chunked \in BOOLEAN
           /\ s.sent \subseteq Names /\ s.buf \in Seq(Tokens) /\ s.bodyOff \in Nat
           /\ Len(s.buf) \in Nat
BY StatesAre, LenProperties DEF Streams

(* aisl_response.                                                          *)
LEMMA ResponseResult ==
    ASSUME NEW s, Legal(s), NEW c_len \in Nat \cup {AUTO}, NEW o \in Response(s, c_len)
    PROVE  Result(o, s)
<1>1. /\ o \in Outcomes
      /\ s.state > READY => o.ok /\ o.s = s
      /\ s.state <= READY =>
           /\ o.s.clen = c_len /\ o.s.chunked = s.chunked
           /\ o.s.sent = s.sent /\ o.s.bodyOff = s.bodyOff
           /\ o.ok => o.s.state = SEND_HEADER /\ o.s.buf = <<Token("status")>>
           /\ ~o.ok => OutOfMemory /\ o.s.state = s.state /\ o.s.buf = <<>>
  BY ResponseFacts DEF Legal
<1>2. s.state \in 0 .. 6 /\ s.bodyOff \in Nat /\ o.s \in Streams /\ o.ok \in BOOLEAN
  BY <1>1, StreamFields DEF Legal, Outcomes
<1>3. CASE s.state > READY
  <2>1. ~(s.state <= READY) /\ s.state <= s.state
    BY <1>2, <1>3, StatesAre
  <2>. QED  BY <2>1, <1>1, <1>3 DEF Result, Legal
<1>4. CASE s.state <= READY
  <2>1. s.bodyOff = 0 /\ Len(o.s.buf) \in Nat
    BY <1>2, <1>4, StatesAre, StreamFields DEF Legal, StreamOK
  <2>2. CASE o.ok
    BY <2>1, <2>2, <1>1, <1>2, <1>4, StatesAre DEF Result, StreamOK
  <2>3. CASE ~o.ok
    BY <2>1, <2>3, <1>1, <1>2, <1>4, StatesAre DEF Result, StreamOK
  <2>. QED  BY <2>2, <2>3
<1>. QED  BY <1>2, <1>3, <1>4, StatesAre

(* aisl_stream_close_headers.                                              *)
LEMMA CloseResult ==
    ASSUME NEW s, Legal(s), s.state <= SEND_HEADER, conn.keepalive \in BOOLEAN,
           NEW o \in aisl_stream_close_headers(s)
    PROVE  /\ Result(o, s)
           /\ o.ok => o.s.state = SEND_BODY
           /\ ~o.ok => o.s.state <= SEND_HEADER
<1>1. s \in Streams /\ s.state \in 0 .. 6 /\ s.bodyOff = 0
  BY StreamFields, StatesAre DEF Legal, StreamOK
<1>2. PICK r \in Response(s, AUTO) : r \in Outcomes /\ IF r.ok THEN Closed(r, o) ELSE o = r
  BY <1>1, CloseFacts
<1>3. Result(r, s)
  BY ResponseResult
<1>4. r.s \in Streams /\ o.s \in Streams /\ o.ok \in BOOLEAN /\ r.ok \in BOOLEAN
  BY <1>2 DEF Outcomes, Closed
<1>5. r.s.state \in 0 .. 6 /\ o.s.state \in 0 .. 6 /\ Len(o.s.buf) \in Nat
  BY <1>4, StreamFields
<1>6. (r.ok => r.s.state = SEND_HEADER) /\ (~r.ok => r.s.state = s.state) /\ r.s.bodyOff = 0
  <2>1. /\ s.state > READY => r.ok /\ r.s = s
        /\ s.state <= READY =>
             /\ r.s.clen = AUTO /\ r.s.chunked = s.chunked
             /\ r.s.sent = s.sent /\ r.s.bodyOff = s.bodyOff
             /\ r.ok => r.s.state = SEND_HEADER /\ r.s.buf = <<Token("status")>>
             /\ ~r.ok => OutOfMemory /\ r.s.state = s.state /\ r.s.buf = <<>>
    <3>1. AUTO \in Nat \cup {AUTO} /\ s \in Streams
      BY <1>1
    <3>. QED  BY ZenonT(40), <3>1, ResponseFacts
  <2>2. s.state <= READY \/ (s.state = SEND_HEADER /\ s.state > READY)
    BY <1>1, StatesAre
  <2>. QED  BY <2>1, <2>2, <1>1
<1>7. CASE ~r.ok
  <2>1. o = r
    BY <1>2, <1>7
  <2>. QED  BY <2>1, <1>3, <1>6, <1>7
<1>8. CASE r.ok
  <2>1. Closed(r, o)
    BY <1>2, <1>8
  <2>2. PICK added \in Seq(Tokens) :
          /\ o \in Outcomes
          /\ o.s.chunked = r.s.chunked
          /\ o.s.buf = r.s.buf \o added
          /\ o.ok => added = Head_(r.s) /\ o.s.state = SEND_BODY /\ o.s.bodyOff = Len(o.s.buf)
          /\ ~o.ok => OutOfMemory /\ o.s.state = r.s.state /\ o.s.bodyOff = r.s.bodyOff
    BY <2>1 DEF Closed
  <2>3. r.s.chunked = s.chunked /\ s.state <= r.s.state
    BY <1>3 DEF Result
  <2>4. CASE o.ok
    <3>1. Len(o.s.buf) # 0
      <4>1. MissingHeaders(r.s) \in Seq(Tokens) /\ Token("blank") \in Tokens
        BY <1>4, MissingFacts, TokenTyped DEF TokenNames
      <4>2. Len(added) = Len(MissingHeaders(r.s)) + 1
        BY <4>1, <2>2, <2>4, AppendProperties DEF Head_
      <4>3. r.s.buf \in Seq(Tokens) /\ Len(r.s.buf) \in Nat /\ Len(MissingHeaders(r.s)) \in Nat
        BY <4>1, <1>4, StreamFields, LenProperties
      <4>4. Len(o.s.buf) = Len(r.s.buf) + Len(added)
        BY <4>3, <2>2, ConcatProperties
      <4>. DEFINE n == Len(o.s.buf)
                  k == Len(r.s.buf)
                  l == Len(added)
                  m == Len(MissingHeaders(r.s))
      <4>5. l = m + 1 /\ k \in Nat /\ m \in Nat /\ n = k + l
        BY <4>2, <4>3, <4>4
      <4>. HIDE DEF n, k, l, m
      <4>6. n # 0
        BY <4>5
      <4>. QED  BY <4>6 DEF n
    <3>. QED  BY <3>1, <2>2, <2>3, <2>4, <1>1, <1>5, StatesAre DEF Result, StreamOK
  <2>5. CASE ~o.ok
    BY <2>2, <2>3, <2>5, <1>1, <1>4, <1>5, <1>6, <1>8, StatesAre DEF Result, StreamOK
  <2>. QED  BY <2>4, <2>5
<1>. QED  BY <1>7, <1>8

(* aisl_write, aisl_printf and aisl_puts.                                  *)
LEMMA WriteResult ==
    ASSUME NEW s, Legal(s), conn.keepalive \in BOOLEAN, NEW o \in Write(s)
    PROVE  Result(o, s)
<1>1. PICK r \in IF s.state < SEND_BODY THEN aisl_stream_close_headers(s)
                                        ELSE {[ok |-> TRUE, s |-> s]} :
         o \in IF r.ok THEN Appended(r.s, <<Token("body")>>) ELSE {r}
  BY DEF Write
<1>2. s \in Streams /\ s.state \in 0 .. 6
  BY StreamFields DEF Legal
<1>3. Result(r, s) /\ (r.ok => r.s.state >= SEND_BODY)
  <2>1. CASE s.state < SEND_BODY
    <3>1. s.state <= SEND_HEADER /\ r \in aisl_stream_close_headers(s)
      BY <2>1, <1>1, <1>2, StatesAre
    <3>. QED  BY <3>1, CloseResult, StatesAre
  <2>2. CASE ~(s.state < SEND_BODY)
    <3>1. r = [ok |-> TRUE, s |-> s]
      BY <2>2, <1>1
    <3>. QED  BY <3>1, <2>2, <1>2, StatesAre DEF Result, Outcomes, Legal
  <2>. QED  BY <2>1, <2>2
<1>4. r.ok \in BOOLEAN /\ r.s \in Streams
  BY <1>3 DEF Result, Outcomes
<1>5. CASE ~r.ok
  BY <1>1, <1>3, <1>5
<1>6. CASE r.ok
  <2>1. Token("body") \in Tokens
    BY TokenTyped DEF TokenNames
  <2>2. /\ o \in Outcomes /\ SameButBuf(o.s, r.s)
        /\ o.ok => o.s.buf = r.s.buf \o <<Token("body")>>
        /\ ~o.ok => o.s.buf = r.s.buf
    BY <2>1, <1>1, <1>4, <1>6, AppendedOne
  <2>3. o.s \in Streams /\ o.ok \in BOOLEAN
    BY <2>2 DEF Outcomes
  <2>4. /\ r.s.state \in 0 .. 6 /\ r.s.bodyOff \in Nat /\ r.s.buf \in Seq(Tokens)
        /\ Len(r.s.buf) \in Nat
    BY <1>4, StreamFields
  <2>5. Len(o.s.buf) \in Nat /\ Len(o.s.buf) >= Len(r.s.buf)
    <3>1. <<Token("body")>> \in Seq(Tokens) /\ Len(<<Token("body")>>) = 1
      BY <2>1
    <3>2. Len(r.s.buf \o <<Token("body")>>) = Len(r.s.buf) + 1
      BY <3>1, <2>4, ConcatProperties
    <3>. QED  BY <3>2, <2>2, <2>3, <2>4
  <2>6. /\ o.s.state = r.s.state /\ o.s.chunked = r.s.chunked /\ o.s.sent = r.s.sent
        /\ o.s.bodyOff = r.s.bodyOff
    BY <2>2 DEF SameButBuf
  <2>7. /\ StreamOK(r.s, wire) /\ r.s.chunked = s.chunked /\ s.state <= r.s.state
        /\ r.s.state >= SEND_BODY
    BY <1>3, <1>6 DEF Result
  <2>. QED  BY SMTT(30), <2>2, <2>4, <2>5, <2>6, <2>7, StatesAre DEF Result, StreamOK
<1>. QED  BY <1>4, <1>5, <1>6

(* A stream that is flushed.                                               *)
IsFlushed(t, s) ==
    /\ t \in Streams
    /\ t.state = DONE /\ t.clen = s.clen /\ t.chunked = s.chunked
    /\ t.buf = s.buf /\ t.bodyOff = s.bodyOff /\ t.sent = s.sent \cup {"length"}

(* A flush that only marks the stream as done keeps the rest of it. *)
LEMMA FlushedStream ==
    ASSUME NEW s \in Streams
    PROVE  IsFlushed([s EXCEPT !.sent = @ \cup {"length"}, !.state = DONE], s)
<1>. DEFINE t == [s EXCEPT !.sent = @ \cup {"length"}, !.state = DONE]
            sent == s.sent \cup {"length"}
<1>1. DONE \in States /\ sent \in SUBSET Names
  BY StatesAre DEF Streams, Names
<1>. HIDE DEF sent
<1>2. t = [s EXCEPT !.sent = sent, !.state = DONE]
  BY DEF sent
<1>. HIDE DEF t
<1>3. /\ t \in Streams
      /\ t.state = DONE /\ t.clen = s.clen /\ t.chunked = s.chunked
      /\ t.buf = s.buf /\ t.bodyOff = s.bodyOff /\ t.sent = sent
  BY <1>1, <1>2 DEF Streams
<1>. QED  BY <1>3 DEF IsFlushed, sent, t

(* Content-Length is inserted before the blank line, if nothing was sent.  *)
LEMMA InsertLengthFacts ==
    ASSUME NEW s, Legal(s), s.bodyOff # 0, NEW o \in InsertLength(s)
    PROVE  /\ o \in Outcomes /\ SameButBuf(o.s, s)
           /\ o.ok => \E i \in 1 .. Len(s.buf) + 1 : \E n \in Int :
                 /\ o.s.buf = InsertAt(s.buf, i, Header("length", n))
                 /\ wire = <<>> => i = s.bodyOff /\ n = Len(s.buf) - s.bodyOff
           /\ ~o.ok => o.s = s
<1>. DEFINE at(i, n) == [ok |-> TRUE,
                         s |-> [s EXCEPT !.buf = InsertAt(@, i, Header("length", n))]]
            refused == [ok |-> FALSE, s |-> s]
<1>1. s \in Streams /\ s.buf \in Seq(Tokens) /\ Len(s.buf) \in Nat /\ s.bodyOff \in Nat
  BY StreamFields DEF Legal
<1>2. ASSUME NEW i \in 1 .. Len(s.buf) + 1, NEW n \in Int
      PROVE  /\ at(i, n) \in Outcomes /\ SameButBuf(at(i, n).s, s) /\ at(i, n).ok = TRUE
             /\ at(i, n).s.buf = InsertAt(s.buf, i, Header("length", n))
  <2>. DEFINE buf == InsertAt(s.buf, i, Header("length", n))
  <2>1. buf \in Seq(Tokens)
    <3>1. Header("length", n) \in Tokens
      BY HeaderTyped DEF Names
    <3>. QED  BY <3>1, <1>1, InsertFacts
  <2>2. at(i, n) = [ok |-> TRUE, s |-> [s EXCEPT !.buf = buf]]
    OBVIOUS
  <2>. HIDE DEF buf, at
  <2>3. /\ [s EXCEPT !.buf = buf] \in Streams
        /\ [s EXCEPT !.buf = buf].buf = buf
        /\ SameButBuf([s EXCEPT !.buf = buf], s)
    BY <1>1, <2>1, BufReplaced
  <2>4. at(i, n).s = [s EXCEPT !.buf = buf] /\ at(i, n).ok = TRUE
    BY <2>2
  <2>5. at(i, n) \in Outcomes
    BY <2>2, <2>3 DEF Outcomes
  <2>. QED  BY <2>3, <2>4, <2>5 DEF buf
<1>3. /\ refused \in Outcomes /\ SameButBuf(refused.s, s) /\ refused.ok = FALSE
      /\ refused.s = s
  BY <1>1 DEF Outcomes, SameButBuf
<1>. DEFINE Inserted(i, n) == o = at(i, n)
<1>4. \/ o = refused
      \/ wire = <<>> /\ Inserted(s.bodyOff, Len(s.buf) - s.bodyOff)
      \/ wire # <<>> /\ \E i \in 1 .. Len(s.buf) + 1 : Inserted(i, WRONG)
  BY DEF InsertLength
<1>5. WRONG \in Int /\ Len(s.buf) - s.bodyOff \in Int
  BY <1>1 DEF WRONG
<1>6. wire = <<>> => s.bodyOff \in 1 .. Len(s.buf) + 1
  BY <1>1 DEF Legal, StreamOK
<1>. HIDE DEF at, refused
<1>7. CASE o = refused
  BY <1>3, <1>7
<1>8. CASE wire = <<>> /\ Inserted(s.bodyOff, Len(s.buf) - s.bodyOff)
  BY <1>2, <1>5, <1>6, <1>8
<1>9. CASE wire # <<>> /\ \E i \in 1 .. Len(s.buf) + 1 : Inserted(i, WRONG)
  BY <1>2, <1>5, <1>9
<1>. QED  BY <1>4, <1>7, <1>8, <1>9

(* aisl_flush.                                                             *)
LEMMA FlushFacts ==
    ASSUME NEW s, Legal(s), conn.keepalive \in BOOLEAN, NEW o \in Flush(s)
    PROVE  /\ o \in Outcomes
           /\ \/ "length" \in s.sent /\ o.ok /\ IsFlushed(o.s, s)
              \/ /\ "length" \notin s.sent /\ s.bodyOff # 0
                 /\ \E a \in InsertLength(s) :
                       \/ a.ok /\ o.ok /\ IsFlushed(o.s, a.s)
                       \/ ~a.ok /\ ~o.ok /\ o.s = s
              \/ /\ "length" \notin s.sent /\ s.bodyOff = 0 /\ s.state <= SEND_HEADER
                 /\ \E a \in aisl_stream_close_headers(s) : o.ok /\ IsFlushed(o.s, a.s)
<1>. DEFINE flushed(t) == [t EXCEPT !.sent = @ \cup {"length"}, !.state = DONE]
<1>1. \A t \in Streams : IsFlushed(flushed(t), t) /\ flushed(t) \in Streams
  BY FlushedStream DEF IsFlushed
<1>2. s \in Streams /\ s.state \in 0 .. 6 /\ s.bodyOff \in Nat
  BY StreamFields DEF Legal
<1>3. CASE "length" \in s.sent
  <2>1. o = [ok |-> TRUE, s |-> flushed(s)]
    BY <1>3 DEF Flush
  <2>. HIDE DEF flushed
  <2>. QED  BY <2>1, <1>1, <1>2, <1>3 DEF Outcomes
<1>4. CASE "length" \notin s.sent /\ s.bodyOff # 0
  <2>1. PICK a \in InsertLength(s) : o = [a EXCEPT !.s = IF a.ok THEN flushed(@) ELSE @]
    BY <1>4 DEF Flush
  <2>2. a \in Outcomes /\ (~a.ok => a.s = s)
    BY <1>4, InsertLengthFacts
  <2>3. a.s \in Streams /\ a.ok \in BOOLEAN
    BY <2>2 DEF Outcomes
  <2>. HIDE DEF flushed
  <2>4. o.ok = a.ok /\ o.s = (IF a.ok THEN flushed(a.s) ELSE a.s) /\ o \in Outcomes
    BY <2>1, <2>2, <2>3, <1>1 DEF Outcomes
  <2>. QED  BY <2>2, <2>3, <2>4, <1>1, <1>4
<1>5. CASE "length" \notin s.sent /\ s.bodyOff = 0
  <2>1. o \in {[ok |-> TRUE, s |-> flushed(a.s)] : a \in aisl_stream_close_headers(s)}
    BY <1>5 DEF Flush
  <2>2. PICK a \in aisl_stream_close_headers(s) : o = [ok |-> TRUE, s |-> flushed(a.s)]
    BY <2>1
  <2>3. s.state <= SEND_HEADER
    BY <1>2, <1>5, StatesAre DEF Legal, StreamOK
  <2>4. Result(a, s)
    BY <2>3, CloseResult
  <2>5. a.s \in Streams
    BY <2>4 DEF Result, Outcomes
  <2>. HIDE DEF flushed
  <2>6. o.ok = TRUE /\ o.s = flushed(a.s) /\ o \in Outcomes
    BY <2>2, <2>5, <1>1 DEF Outcomes
  <2>. QED  BY <2>3, <2>5, <2>6, <1>1, <1>5
<1>. QED  BY <1>3, <1>4, <1>5

(* A legal stream that is flushed is legal.                                *)
LEMMA FlushedLegal ==
    ASSUME NEW s, NEW t, StreamOK(s, wire), s \in Streams, IsFlushed(t, s)
    PROVE  StreamOK(t, wire)
BY StatesAre DEF StreamOK, IsFlushed

(* aisl_stream_flush returns a typed outcome and never takes the stream
   back to an earlier state. *)
LEMMA FlushResult ==
    ASSUME NEW s, Legal(s), conn.keepalive \in BOOLEAN, NEW o \in Flush(s)
    PROVE  Result(o, s)
<1>1. s \in Streams /\ s.state \in 0 .. 6 /\ s.bodyOff \in Nat /\ StreamOK(s, wire)
      /\ Len(s.buf) \in Nat /\ s.buf \in Seq(Tokens)
  BY StreamFields DEF Legal
<1>2. o \in Outcomes
  BY FlushFacts
<1>3. ASSUME NEW t \in Streams, StreamOK(t, wire), t.chunked = s.chunked, IsFlushed(o.s, t)
      PROVE  Result(o, s)
  <2>1. StreamOK(o.s, wire)
    BY <1>3, FlushedLegal
  <2>2. o.s.state = DONE /\ o.s.chunked = s.chunked
    BY <1>3 DEF IsFlushed
  <2>. QED  BY <2>1, <2>2, <1>1, <1>2, StatesAre DEF Result
<1>4. CASE "length" \in s.sent /\ o.ok /\ IsFlushed(o.s, s)
  BY <1>1, <1>3, <1>4
<1>5. CASE /\ "length" \notin s.sent /\ s.bodyOff # 0
           /\ \E a \in InsertLength(s) : \/ a.ok /\ o.ok /\ IsFlushed(o.s, a.s)
                                         \/ ~a.ok /\ ~o.ok /\ o.s = s
  <2>1. PICK a \in InsertLength(s) : \/ a.ok /\ o.ok /\ IsFlushed(o.s, a.s)
                                     \/ ~a.ok /\ ~o.ok /\ o.s = s
    BY <1>5
  <2>2. s.state >= SEND_BODY
    BY <1>1, <1>5, StatesAre DEF StreamOK
  <2>3. CASE ~a.ok /\ ~o.ok /\ o.s = s
    BY <2>2, <2>3, <1>1, <1>2, StatesAre DEF Result
  <2>4. CASE a.ok /\ o.ok /\ IsFlushed(o.s, a.s)
    <3>1. /\ a \in Outcomes /\ SameButBuf(a.s, s)
          /\ \E i \in 1 .. Len(s.buf) + 1 : \E n \in Int :
                a.s.buf = InsertAt(s.buf, i, Header("length", n))
      BY <1>5, <2>4, InsertLengthFacts
    <3>2. PICK i \in 1 .. Len(s.buf) + 1, n \in Int :
             a.s.buf = InsertAt(s.buf, i, Header("length", n))
      BY <3>1
    <3>3. Len(a.s.buf) = Len(s.buf) + 1
      <4>1. Header("length", n) \in Tokens
        BY HeaderTyped DEF Names
      <4>. QED  BY <4>1, <3>2, <1>1, InsertFacts
    <3>4. a.s \in Streams
      BY <3>1 DEF Outcomes
    <3>5. /\ a.s.state = s.state /\ a.s.chunked = s.chunked /\ a.s.sent = s.sent
          /\ a.s.bodyOff = s.bodyOff
      BY <3>1 DEF SameButBuf
    <3>6. StreamOK(a.s, wire)
      BY <2>2, <3>3, <3>5, <1>1, StatesAre DEF StreamOK
    <3>. QED  BY <3>4, <3>5, <3>6, <2>4, <1>3
  <2>. QED  BY <2>1, <2>3, <2>4
<1>6. CASE /\ "length" \notin s.sent /\ s.bodyOff = 0 /\ s.state <= SEND_HEADER
           /\ \E a \in aisl_stream_close_headers(s) : o.ok /\ IsFlushed(o.s, a.s)
  <2>1. PICK a \in aisl_stream_close_headers(s) : IsFlushed(o.s, a.s)
    BY <1>6
  <2>2. Result(a, s)
    BY <1>6, CloseResult
  <2>3. a.s \in Streams /\ StreamOK(a.s, wire) /\ a.s.chunked = s.chunked
    BY <2>2 DEF Result, Outcomes
  <2>. QED  BY <2>1, <2>3, <1>3
<1>. QED  BY <1>4, <1>5, <1>6, FlushFacts

-----------------------------------------------------------------------------
(* The calls of the application.                                           *)

(* A stream with nothing less in its buffer, and perhaps more.             *)
Adds(t, s) == \E added \in Seq(Tokens) : t.buf = s.buf \o added

(* It may be nothing.                                                      *)
LEMMA AddsNothing ==
    ASSUME NEW s \in Streams, NEW t, t.buf = s.buf
    PROVE  Adds(t, s)
<1>1. s.buf \in Seq(Tokens) /\ <<>> \in Seq(Tokens)
  BY EmptySeq DEF Streams
<1>2. s.buf \o <<>> = s.buf
  BY <1>1, ConcatEmptySeq
<1>. QED  BY <1>1, <1>2 DEF Adds

(* It may be one token.                                                    *)
LEMMA AddsOne ==
    ASSUME NEW s \in Streams, NEW t, NEW e \in Tokens, t.buf = s.buf \o <<e>>
    PROVE  Adds(t, s)
<1>1. <<e>> \in Seq(Tokens)
  OBVIOUS
<1>. QED  BY <1>1 DEF Adds

(* A header reaches the buffer, or a part of it, or none.                  *)
LEMMA HeaderAppendedFacts ==
    ASSUME NEW s \in Streams, NEW h \in Tokens, NEW passed, NEW o \in HeaderAppended(h, passed, s)
    PROVE  /\ o \in Outcomes /\ SameButBuf(o.s, s)
           /\ o.ok => o.s.buf = s.buf \o <<h>>
           /\ ~o.ok => OutOfMemory
           /\ Adds(o.s, s)
<1>1. CASE o \in Appended(s, <<h>>)
  <2>1. /\ o \in Outcomes /\ SameButBuf(o.s, s)
        /\ o.ok => o.s.buf = s.buf \o <<h>>
        /\ ~o.ok => OutOfMemory /\ o.s.buf = s.buf
    BY <1>1, AppendedOne
  <2>2. CASE o.ok
    BY <2>1, <2>2, AddsOne
  <2>3. CASE ~o.ok
    BY <2>1, <2>3, AddsNothing
  <2>. QED  BY <2>1, <2>2, <2>3
<1>2. CASE o \notin Appended(s, <<h>>)
  <2>. DEFINE buf == Append(s.buf, Token("cut"))
  <2>1. OutOfMemory /\ o = [ok |-> FALSE, s |-> [s EXCEPT !.buf = buf]]
    BY <1>2 DEF HeaderAppended
  <2>2. buf \in Seq(Tokens)
    BY TokenTyped, StreamFields, AppendProperties DEF TokenNames
  <2>. HIDE DEF buf
  <2>3. [s EXCEPT !.buf = buf] \in Streams /\ SameButBuf([s EXCEPT !.buf = buf], s)
    BY <2>2, BufReplaced
  <2>4. o.ok = FALSE /\ o.s = [s EXCEPT !.buf = buf] /\ o \in Outcomes
    BY <2>1, <2>3 DEF Outcomes
  <2>5. Adds(o.s, s)
    <3>1. Token("cut") \in Tokens /\ s.buf \in Seq(Tokens)
      BY TokenTyped, StreamFields DEF TokenNames
    <3>2. buf = s.buf \o <<Token("cut")>>
      BY <3>1, AppendIsConcat DEF buf
    <3>. QED  BY <3>1, <3>2, <2>3, <2>4, AddsOne, BufReplaced, <2>2, ZenonT(40)
  <2>. QED  BY <2>1, <2>3, <2>4, <2>5
<1>. QED  BY <1>1, <1>2

(* Nothing moves but the stream, the keepalive and the descriptor.         *)
SameInput ==
    /\ conn'.in = conn.in /\ conn'.torn = conn.torn /\ conn'.canRead = conn.canRead
    /\ conn'.canWrite = conn.canWrite /\ conn'.http2 = conn.http2

SameLog ==
    /\ log'.raised = log.raised /\ log'.declared = log.declared /\ log'.got = log.got
    /\ log'.complete = log.complete /\ log.marks \subseteq log'.marks

(* An answer is begun or continued: the outcome o is the new stream.       *)
Answers(o) ==
    /\ Result(o, stream)
    /\ stream' = o.s
    /\ ~o.ok => "failed" \in log'.marks
    /\ EarlyAnswer \/ log.raised \in {"REQUEST", "OUTPUT"}

(* Only the request for output events changes.                             *)
SameAnswer ==
    /\ stream'.state = stream.state /\ stream'.clen = stream.clen /\ stream'.sent = stream.sent
    /\ stream'.buf = stream.buf /\ stream'.bodyOff = stream.bodyOff
    /\ log' = log

CallEffect ==
    /\ Knows /\ Kept
    /\ conn' \in Conns /\ SameInput /\ (conn'.online => conn.online)
    /\ stream' \in Streams /\ StreamOK(stream', wire)
    /\ log' \in Logs /\ SameLog
    /\ (\E o \in Outcomes : Answers(o)) \/ SameAnswer

(* The history after a call.                                               *)
LEMMA MarkedLog ==
    ASSUME log \in Logs, NEW o, NEW marks \in SUBSET Marks, Marked(o, marks)
    PROVE  /\ log' \in Logs /\ SameLog
           /\ ~o.ok => "failed" \in log'.marks
           /\ log'.marks = log.marks \cup marks \cup (IF o.ok THEN {} ELSE {"failed"})
<1>. DEFINE all == log.marks \cup marks \cup (IF o.ok THEN {} ELSE {"failed"})
<1>1. all \in SUBSET Marks
  BY DEF Logs, Marks
<1>2. log' = [log EXCEPT !.marks = all]
  BY DEF Marked
<1>3. log.marks \subseteq all /\ (~o.ok => "failed" \in all)
  OBVIOUS
<1>. HIDE DEF all
<1>4. /\ log' \in Logs /\ log'.marks = all
      /\ log'.raised = log.raised /\ log'.declared = log.declared /\ log'.got = log.got
      /\ log'.complete = log.complete
  BY <1>1, <1>2 DEF Logs
<1>5. SameLog /\ (~o.ok => "failed" \in log'.marks)
  BY <1>3, <1>4 DEF SameLog
<1>. QED  BY <1>4, <1>5 DEF all

(* A call that only answers.                                               *)
LEMMA AnswerEffect ==
    ASSUME Typed, NEW o, Result(o, stream), stream' = o.s,
           NEW marks \in SUBSET Marks, Marked(o, marks),
           Knows, EarlyAnswer \/ log.raised \in {"REQUEST", "OUTPUT"},
           Kept, UNCHANGED conn
    PROVE  CallEffect
<1>1. log' \in Logs /\ SameLog /\ (~o.ok => "failed" \in log'.marks)
  BY MarkedLog DEF Typed
<1>2. o \in Outcomes /\ stream' \in Streams /\ StreamOK(stream', wire)
  BY DEF Result, Outcomes
<1>3. Answers(o)
  BY <1>1 DEF Answers
<1>4. conn' \in Conns /\ SameInput /\ (conn'.online => conn.online)
  BY DEF SameInput, Typed
<1>. QED  BY <1>1, <1>2, <1>3, <1>4 DEF CallEffect

(* aisl_response has an effect a call may have. *)
LEMMA ResponseEffect ==
    ASSUME Typed, StreamOK(stream, wire), CallResponse
    PROVE  CallEffect
<1>. DEFINE marked(c_len) == IF stream.state <= READY /\ c_len # AUTO THEN {"explicit"} ELSE {}
<1>0. PICK c_len \in Lengths : \E o \in Response(stream, c_len) :
         stream' = o.s /\ Marked(o, marked(c_len))
  BY DEF CallResponse
<1>1. PICK o \in Response(stream, c_len) : stream' = o.s /\ Marked(o, marked(c_len))
  BY <1>0
<1>2. c_len \in Nat \cup {AUTO}
  BY ClientAssumption
<1>3. Result(o, stream)
  BY <1>2, ResponseResult DEF Typed, Legal
<1>. DEFINE marks == marked(c_len)
<1>4. marks \in SUBSET Marks /\ Marked(o, marks)
  BY <1>1 DEF Marks
<1>. HIDE DEF marks, marked
<1>. QED  BY <1>1, <1>3, <1>4, AnswerEffect DEF CallResponse, MayAnswer

(* aisl_write has an effect a call may have. *)
LEMMA WriteEffect ==
    ASSUME Typed, StreamOK(stream, wire), CallWrite
    PROVE  CallEffect
<1>. DEFINE marks == IF stream.state = DONE THEN {"after_flush"} ELSE {}
<1>1. PICK o \in Write(stream) : stream' = o.s /\ Marked(o, marks)
  BY DEF CallWrite
<1>2. conn.keepalive \in BOOLEAN
  BY DEF Typed, Conns
<1>3. Result(o, stream)
  BY <1>2, WriteResult DEF Typed, Legal
<1>4. marks \in SUBSET Marks
  BY DEF Marks
<1>. HIDE DEF marks
<1>. QED  BY <1>1, <1>3, <1>4, AnswerEffect DEF CallWrite, MayAnswer

(* aisl_flush has an effect a call may have. *)
LEMMA FlushEffect ==
    ASSUME Typed, StreamOK(stream, wire), CallFlush
    PROVE  CallEffect
<1>. DEFINE marks(o) == (IF wire # <<>> /\ "length" \notin stream.sent
                         THEN {"late_length"} ELSE {}) \cup
                        (IF o.ok /\ o.s.bodyOff = 0 THEN {"unterminated"} ELSE {}) \cup
                        (IF "length" \notin stream.sent /\ stream.bodyOff = 0
                            /\ o.s.clen = AUTO
                         THEN {"bodiless"} ELSE {})
<1>1. PICK o \in Flush(stream) : stream' = o.s /\ Marked(o, marks(o))
  BY DEF CallFlush
<1>2. conn.keepalive \in BOOLEAN
  BY DEF Typed, Conns
<1>3. Result(o, stream)
  BY <1>2, FlushResult DEF Typed, Legal
<1>4. marks(o) \in SUBSET Marks
  BY DEF Marks
<1>. HIDE DEF marks
<1>. QED  BY <1>1, <1>3, <1>4, AnswerEffect DEF CallFlush, MayAnswer

(* aisl_header and aisl_header_printf: the response is begun if need be,   *)
(* and then the header is appended.                                        *)
HeaderCall(h, passed, r, o) ==
    /\ IF stream.state < SEND_HEADER THEN r \in Response(stream, AUTO)
                                     ELSE r = [ok |-> TRUE, s |-> stream]
    /\ r \in Outcomes /\ Result(r, stream)
    /\ ~r.ok => o = r /\ Marked(o, {}) /\ conn' = conn
    /\ r.ok => /\ r.s.state = SEND_HEADER
               /\ o \in Outcomes
               /\ o.s.state = SEND_HEADER /\ o.s.clen = r.s.clen /\ o.s.chunked = r.s.chunked
               /\ o.s.bodyOff = r.s.bodyOff /\ o.s.sent = r.s.sent \cup ({h.name} \ {"other"})
               /\ o.ok => o.s.buf = r.s.buf \o <<h>>
               /\ ~o.ok => OutOfMemory
               /\ Adds(o.s, r.s)
               /\ Marked(o, HeaderMarks(h, passed))
               /\ conn' = IF TellsConnection(h, passed, r.s)
                          THEN [conn EXCEPT !.keepalive = (h.n = 1)]
                          ELSE conn
    /\ Result(o, stream) /\ stream' = o.s

(* Every header the application may send is a token with a name of a
   header. *)
LEMMA HeaderTokens ==
    \A h \in AppHeaders \cup Formatted :
        /\ h \in Tokens /\ h.name \in HeaderNames /\ h.n \in {0, 1, 2}
        /\ {h.name} \ {"other"} \subseteq Names
BY ClientAssumption DEF Tokens, TokenNames, HeaderNames, Names

(* Adding a header starts the response when nothing started it, and then
   appends or refuses the header. *)
LEMMA AddHeaderFacts ==
    ASSUME Typed, StreamOK(stream, wire), NEW h \in AppHeaders \cup Formatted,
           NEW passed \in BOOLEAN, AddHeader(h, passed)
    PROVE  \E r, o \in Outcomes : HeaderCall(h, passed, r, o)
<1>1. /\ stream \in Streams /\ Legal(stream) /\ stream.state \in 0 .. 6
      /\ stream.state <= SEND_HEADER /\ stream.bodyOff = 0
  BY StreamFields, StatesAre DEF Typed, Legal, AddHeader, StreamOK
<1>2. PICK r \in IF stream.state < SEND_HEADER THEN Response(stream, AUTO)
                                               ELSE {[ok |-> TRUE, s |-> stream]} :
          IF ~r.ok
          THEN stream' = r.s /\ Marked(r, {}) /\ UNCHANGED conn
          ELSE \E o \in HeaderAppended(h, passed,
                              [r.s EXCEPT !.sent = @ \cup ({h.name} \ {"other"})]) :
                  /\ stream' = o.s
                  /\ Marked(o, HeaderMarks(h, passed))
                  /\ conn' = IF TellsConnection(h, passed, r.s)
                             THEN [conn EXCEPT !.keepalive = (h.n = 1)]
                             ELSE conn
  BY DEF AddHeader
<1>3. /\ r \in Outcomes /\ Result(r, stream) /\ (r.ok => r.s.state = SEND_HEADER)
      /\ r.s.bodyOff = 0
  <2>1. CASE stream.state < SEND_HEADER
    <3>1. r \in Response(stream, AUTO) /\ AUTO \in Nat \cup {AUTO}
      BY <2>1, <1>2
    <3>2. Result(r, stream)
      BY <3>1, <1>1, ResponseResult
    <3>3. stream.state <= READY
      BY <2>1, <1>1, StatesAre
    <3>4. r.s.bodyOff = stream.bodyOff /\ (r.ok => r.s.state = SEND_HEADER)
      BY ZenonT(40), <3>1, <3>3, <1>1, ResponseFacts
    <3>. QED  BY <3>2, <3>4, <1>1 DEF Result
  <2>2. CASE ~(stream.state < SEND_HEADER)
    <3>1. r = [ok |-> TRUE, s |-> stream] /\ stream.state = SEND_HEADER
      BY <2>2, <1>1, <1>2, StatesAre
    <3>. QED  BY <3>1, <1>1, StatesAre DEF Result, Outcomes, Legal
  <2>. QED  BY <2>1, <2>2
<1>4. /\ stream.state < SEND_HEADER => r \in Response(stream, AUTO)
      /\ ~(stream.state < SEND_HEADER) => r = [ok |-> TRUE, s |-> stream]
  BY <1>2
<1>5. CASE ~r.ok
  <2>1. stream' = r.s /\ Marked(r, {}) /\ conn' = conn
    BY <1>2, <1>5
  <2>2. HeaderCall(h, passed, r, r)
    BY <2>1, <1>3, <1>4, <1>5 DEF HeaderCall
  <2>. QED  BY <2>2, <1>3
<1>6. CASE r.ok
  <2>. DEFINE sent == r.s.sent \cup ({h.name} \ {"other"})
              s == [r.s EXCEPT !.sent = sent]
  <2>1. PICK o \in HeaderAppended(h, passed, s) :
           /\ stream' = o.s
           /\ Marked(o, HeaderMarks(h, passed))
           /\ conn' = IF TellsConnection(h, passed, r.s)
                      THEN [conn EXCEPT !.keepalive = (h.n = 1)]
                      ELSE conn
    BY <1>2, <1>6
  <2>2. r.s \in Streams
    BY <1>3 DEF Outcomes
  <2>3. sent \in SUBSET Names
    BY <2>2, HeaderTokens, StreamFields
  <2>. HIDE DEF sent
  <2>4. /\ s \in Streams /\ s.state = r.s.state /\ s.clen = r.s.clen
        /\ s.chunked = r.s.chunked /\ s.buf = r.s.buf /\ s.bodyOff = r.s.bodyOff
        /\ s.sent = sent
    BY <2>2, <2>3 DEF Streams
  <2>. HIDE DEF s
  <2>5. /\ o \in Outcomes /\ SameButBuf(o.s, s)
        /\ o.ok => o.s.buf = s.buf \o <<h>>
        /\ ~o.ok => OutOfMemory
        /\ Adds(o.s, r.s)
    BY <2>4, HeaderTokens, HeaderAppendedFacts, ZenonT(40) DEF Adds
  <2>6. /\ o.s.state = SEND_HEADER /\ o.s.clen = r.s.clen /\ o.s.chunked = r.s.chunked
        /\ o.s.bodyOff = 0 /\ o.s.sent = sent
    BY <2>4, <2>5, <1>3, <1>6 DEF SameButBuf
  <2>7. o.s \in Streams /\ Len(o.s.buf) \in Nat
    BY <2>5, StreamFields DEF Outcomes
  <2>8. r.s.chunked = stream.chunked
    BY <1>3 DEF Result
  <2>9. Result(o, stream)
    BY <2>5, <2>6, <2>7, <2>8, <1>1, StatesAre DEF Result, StreamOK
  <2>10. HeaderCall(h, passed, r, o)
    BY <2>1, <2>4, <2>5, <2>6, <2>9, <1>3, <1>4, <1>6 DEF HeaderCall, sent
  <2>. QED  BY <2>10, <2>5, <1>3
<1>. QED  BY <1>5, <1>6

(* aisl_header and its printf form have an effect a call may have. *)
LEMMA HeaderEffect ==
    ASSUME Typed, StreamOK(stream, wire), CallHeader \/ CallHeaderPrintf
    PROVE  CallEffect
<1>1. PICK h \in AppHeaders \cup Formatted, passed \in BOOLEAN : AddHeader(h, passed)
  BY DEF CallHeader, CallHeaderPrintf
<1>2. PICK r \in Outcomes, o \in Outcomes : HeaderCall(h, passed, r, o)
  BY <1>1, AddHeaderFacts
<1>. DEFINE marks == HeaderMarks(h, passed)
<1>3. marks \in SUBSET Marks /\ {} \in SUBSET Marks
  BY DEF Marks, HeaderMarks
<1>4. Marked(o, marks) \/ Marked(o, {})
  BY <1>2 DEF HeaderCall, Outcomes
<1>. HIDE DEF marks
<1>5. log' \in Logs /\ SameLog /\ (~o.ok => "failed" \in log'.marks)
  BY <1>3, <1>4, MarkedLog DEF Typed
<1>6. conn' = conn \/ conn' = [conn EXCEPT !.keepalive = (h.n = 1)]
  BY <1>2 DEF HeaderCall, Outcomes
<1>7. conn' \in Conns /\ SameInput /\ (conn'.online => conn.online)
  <2>1. conn \in Conns /\ (h.n = 1) \in BOOLEAN
    BY DEF Typed
  <2>2. CASE conn' = conn
    BY <2>1, <2>2 DEF SameInput
  <2>. DEFINE k == (h.n = 1)
  <2>3. k \in BOOLEAN
    BY <2>1
  <2>. HIDE DEF k
  <2>4. CASE conn' = [conn EXCEPT !.keepalive = k]
    BY <2>1, <2>3, <2>4 DEF SameInput, Conns
  <2>. QED  BY <1>6, <2>2, <2>4 DEF k
<1>8. /\ Knows /\ Kept
      /\ EarlyAnswer \/ log.raised \in {"REQUEST", "OUTPUT"}
  BY DEF CallHeader, CallHeaderPrintf, MayAnswer, AddHeader
<1>9. Result(o, stream) /\ stream' = o.s
  BY <1>2 DEF HeaderCall
<1>10. Answers(o) /\ stream' \in Streams /\ StreamOK(stream', wire)
  BY <1>5, <1>8, <1>9 DEF Answers, Result, Outcomes
<1>. QED  BY <1>5, <1>7, <1>8, <1>10 DEF CallEffect

(* aisl_set_output_event and aisl_reject have an effect a call may have. *)
LEMMA OtherEffect ==
    ASSUME Typed, StreamOK(stream, wire), CallSetOutputEvent \/ CallReject
    PROVE  CallEffect
<1>1. CASE CallSetOutputEvent
  <2>1. PICK value \in BOOLEAN : stream' = [stream EXCEPT !.chunked = value]
    BY <1>1 DEF CallSetOutputEvent
  <2>2. Knows /\ Kept /\ conn' = conn /\ log' = log
    BY <1>1 DEF CallSetOutputEvent
  <2>3. /\ stream' \in Streams /\ stream'.state = stream.state /\ stream'.clen = stream.clen
        /\ stream'.sent = stream.sent /\ stream'.buf = stream.buf
        /\ stream'.bodyOff = stream.bodyOff
    BY <2>1 DEF Typed, Streams
  <2>. QED  BY <2>2, <2>3 DEF CallEffect, SameAnswer, SameLog, SameInput, StreamOK, Typed
<1>2. CASE CallReject
  <2>1. Knows /\ Kept /\ stream' = stream /\ log' = log /\ conn' = [conn EXCEPT !.online = FALSE]
    BY <1>2 DEF CallReject, Offline
  <2>2. conn' \in Conns /\ SameInput /\ ~conn'.online
    BY <2>1 DEF Typed, Conns, SameInput
  <2>. QED  BY <2>1, <2>2 DEF CallEffect, SameAnswer, SameLog, StreamOK, Typed
<1>. QED  BY <1>1, <1>2

(* Every call of the application.                                          *)
LEMMA ApiEffect ==
    ASSUME Typed, StreamOK(stream, wire), Api
    PROVE  CallEffect
BY ResponseEffect, HeaderEffect, WriteEffect, FlushEffect, OtherEffect DEF Api

-----------------------------------------------------------------------------
(* The inductive invariant.                                                *)

(* A connection reads or writes, and where the thread is tells which; the  *)
(* request is complete in the parser only; a client is reaped when it is   *)
(* down, and its last event is then the close.                             *)
ControlInv ==
    /\ conn.canWrite <=> ~conn.canRead
    /\ wire # <<>> => conn.canWrite
    /\ Towards("parse") \/ Towards("fail") => conn.canRead
    /\ Towards("send") \/ pc = "finish" \/ (pc = "callback" /\ ret = "output") => conn.canWrite
    /\ pc = "callback" => ret # "app"
    /\ pc = "reap" => ~conn.online
    /\ pc = "gone" => log.raised = "CLOSE"
    /\ pc = "finish" => conn.online /\ aisl_stream_is_done(stream) /\ log.complete
    /\ p = "ready" => Towards("parse")

(* What the last event tells: before the first the stream is new; while    *)
(* the request is read and while it is answered other events are raised;   *)
(* after an error the connection goes down.                                *)
RaisedInv ==
    /\ log.raised = "none" => stream = FreshStream /\ p # "ready"
    /\ conn.canRead => log.raised \notin {"REQUEST", "OUTPUT"}
    /\ conn.canWrite => log.raised \in {"none", "REQUEST", "OUTPUT", "CLOSE"}
    /\ log.raised = "ERROR" =>
          Towards("fail") \/ (pc \in {"output", "timer", "reap"} /\ ~conn.online)
    /\ log.raised = "CLOSE" => pc \in {"timer", "reap", "gone"} /\ ~conn.online

ClientInv == Typed /\ StreamOK(stream, wire) /\ ControlInv /\ RaisedInv

(* A stream just opened and its log are typed and empty. *)
LEMMA FreshFacts ==
    /\ FreshStream \in Streams
    /\ FreshStream.state = IDLE /\ FreshStream.clen = 0 /\ FreshStream.chunked = FALSE
    /\ FreshStream.buf = <<>> /\ FreshStream.bodyOff = 0
    /\ FreshLog \in Logs
    /\ FreshLog.raised = "none" /\ FreshLog.declared = 0 /\ FreshLog.got = 0
    /\ FreshLog.complete = FALSE /\ FreshLog.marks = {}
    /\ \A w : StreamOK(FreshStream, w)
<1>1. <<>> \in Seq(Tokens) /\ Len(<<>>) = 0
  BY EmptySeq
<1>2. /\ FreshStream \in Streams
      /\ FreshStream.state = IDLE /\ FreshStream.clen = 0 /\ FreshStream.chunked = FALSE
      /\ FreshStream.buf = <<>> /\ FreshStream.bodyOff = 0
  BY <1>1, StatesAre DEF FreshStream, Streams
<1>3. /\ FreshLog \in Logs
      /\ FreshLog.raised = "none" /\ FreshLog.declared = 0 /\ FreshLog.got = 0
      /\ FreshLog.complete = FALSE /\ FreshLog.marks = {}
  BY DEF FreshLog, Logs, Events!Events
<1>4. \A w : StreamOK(FreshStream, w)
  BY <1>1, <1>2, StatesAre DEF StreamOK
<1>. QED  BY <1>2, <1>3, <1>4

(* The invariant holds when the client has been accepted. *)
LEMMA InitInv == Init => ClientInv
<1>. SUFFICES ASSUME Init PROVE ClientInv
  OBVIOUS
<1>1. <<>> \in Seq(PeerUnits) /\ <<>> \in Seq(Tokens) /\ Len(<<>>) = 0
  BY EmptySeq
<1>2. conn \in Conns /\ Len(conn.in) = 0
  BY <1>1, ClientAssumption DEF Init, Conns
<1>3. Typed
  BY <1>1, <1>2, FreshFacts, ClientAssumption DEF Typed, Init
<1>4. ControlInv /\ RaisedInv
  BY FreshFacts DEF ControlInv, RaisedInv, Init, Towards
<1>. QED  BY <1>3, <1>4, FreshFacts DEF ClientInv, Init

(* Steps of the thread that change nothing else.                           *)
LEMMA MoveSteps ==
    ASSUME ClientInv,
           Touch \/ InputSkipped \/ InputBlocked \/ OutputSkipped \/ OutputNoEvent
           \/ SendNothing \/ SendBlocked \/ Return
    PROVE  ClientInv'
<1>1. /\ conn' = conn /\ stream' = stream /\ wire' = wire /\ log' = log /\ p' = p
      /\ parsed' = parsed /\ result' = result
  BY DEF Touch, InputSkipped, InputBlocked, OutputSkipped, OutputNoEvent, SendNothing,
         SendBlocked, Return
<1>2. Typed'
  <2>1. pc' \in {"input", "output", "timer", "send", ret}
    BY DEF Touch, InputSkipped, InputBlocked, OutputSkipped, OutputNoEvent, SendNothing,
           SendBlocked, Return
  <2>2. ret' \in {"app", ret}
    BY DEF Touch, InputSkipped, InputBlocked, OutputSkipped, OutputNoEvent, SendNothing,
           SendBlocked, Return
  <2>. QED  BY <1>1, <2>1, <2>2 DEF Typed, ClientInv
<1>3. StreamOK(stream', wire')
  BY <1>1 DEF ClientInv
<1>4. CASE Touch \/ InputSkipped \/ InputBlocked \/ SendNothing \/ SendBlocked
  BY <1>1, <1>2, <1>3, <1>4
     DEF ClientInv, ControlInv, RaisedInv, Towards, AtInput,
         Touch, InputSkipped, InputBlocked, SendNothing, SendBlocked
<1>5. CASE OutputSkipped
  BY <1>1, <1>2, <1>3, <1>5 DEF ClientInv, ControlInv, RaisedInv, Towards, OutputSkipped
<1>6. CASE OutputNoEvent
  BY <1>1, <1>2, <1>3, <1>6 DEF ClientInv, ControlInv, RaisedInv, Towards, OutputNoEvent
<1>7. CASE Return
  BY <1>1, <1>2, <1>3, <1>7
     DEF ClientInv, ControlInv, RaisedInv, Towards, Return, Typed
<1>. QED  BY <1>4, <1>5, <1>6, <1>7

(* A call keeps it, whatever it does to the stream.                        *)
LEMMA CallKeeps ==
    ASSUME ClientInv, CallEffect
    PROVE  ClientInv'
<1>2. Knows /\ Kept /\ SameInput /\ SameLog
  BY DEF CallEffect
<1>3. Typed'
  BY <1>2 DEF CallEffect, Kept, SameInput, Typed, ClientInv
<1>4. StreamOK(stream', wire')
  BY <1>2 DEF CallEffect, Kept
<1>5. ControlInv'
  BY <1>2 DEF CallEffect, Kept, Knows, SameInput, SameLog, ControlInv, Towards, ClientInv
<1>6. RaisedInv'
  BY <1>2 DEF CallEffect, Kept, Knows, SameInput, SameLog, RaisedInv, Towards, ClientInv
<1>. QED  BY <1>3, <1>4, <1>5, <1>6 DEF ClientInv

(* Calls of the application.                                               *)
LEMMA ApiStep ==
    ASSUME ClientInv, Api
    PROVE  ClientInv'
BY ApiEffect, CallKeeps DEF ClientInv

(* What is received.                                                       *)
LEMMA InputSteps ==
    ASSUME ClientInv, InputReceived \/ InputFailed \/ Tick
    PROVE  ClientInv'
<1>1. conn \in Conns /\ Len(conn.in) \in Nat /\ conn.in \in Seq(PeerUnits)
  BY LenProperties DEF ClientInv, Typed, Conns
<1>2. CASE InputReceived
  <2>1. PICK k \in 1 .. MaxRecv, units \in Seq(PeerUnits) :
           /\ k <= Free /\ Len(units) = k
           /\ conn' = [conn EXCEPT !.in = @ \o units]
    <3>1. PICK k \in 1 .. MaxRecv : k <= Free /\ \E units \in [1 .. k -> PeerUnits] :
             conn' = [conn EXCEPT !.in = @ \o units]
      BY <1>2 DEF InputReceived
    <3>2. PICK units \in [1 .. k -> PeerUnits] : conn' = [conn EXCEPT !.in = @ \o units]
      BY <3>1
    <3>3. k \in Nat
      BY ClientAssumption
    <3>4. units \in Seq(PeerUnits) /\ Len(units) = k
      BY <3>3
    <3>. QED  BY <3>1, <3>2, <3>4
  <2>. DEFINE in == conn.in \o units
  <2>2. in \in Seq(PeerUnits) /\ Len(in) = Len(conn.in) + Len(units)
    BY <1>1, ConcatProperties
  <2>3. conn' = [conn EXCEPT !.in = in]
    BY <2>1
  <2>. HIDE DEF in
  <2>4. /\ conn' \in Conns /\ conn'.in = in /\ conn'.canRead = conn.canRead
        /\ conn'.canWrite = conn.canWrite /\ conn'.online = conn.online
    BY <2>2, <2>3, <1>1 DEF Conns
  <2>5. Len(in) <= InSize /\ 0 \in 0 .. Len(in)
    BY <2>1, <2>2, <1>1, ClientAssumption DEF Free
  <2>6. /\ p' = "success" /\ parsed' = 0 /\ result' = "success"
        /\ pc = "input" /\ conn.canRead /\ pc' \in {"output", "parse"}
        /\ stream' = stream /\ ret' = ret /\ wire' = wire /\ log' = log
    BY <1>2 DEF InputReceived, AtInput
  <2>7. Typed'
    BY <2>4, <2>5, <2>6 DEF Typed, ClientInv
  <2>8. ControlInv' /\ RaisedInv' /\ StreamOK(stream', wire')
    BY <2>4, <2>6 DEF ControlInv, RaisedInv, Towards, ClientInv
  <2>. QED  BY <2>7, <2>8 DEF ClientInv
<1>3. CASE InputFailed
  <2>1. /\ conn' = [conn EXCEPT !.online = FALSE] /\ pc = "input" /\ pc' = "reap" /\ conn.canRead
        /\ UNCHANGED <<stream, ret, p, parsed, result, wire, log>>
    BY <1>3 DEF InputFailed, AtInput, Offline
  <2>2. /\ conn' \in Conns /\ conn'.in = conn.in /\ conn'.canRead = conn.canRead
        /\ conn'.canWrite = conn.canWrite /\ conn'.online = FALSE
    BY <2>1, <1>1 DEF Conns
  <2>3. Typed'
    BY <2>1, <2>2 DEF Typed, ClientInv
  <2>4. ControlInv' /\ RaisedInv' /\ StreamOK(stream', wire')
    BY <2>1, <2>2 DEF ControlInv, RaisedInv, Towards, ClientInv
  <2>. QED  BY <2>3, <2>4 DEF ClientInv
<1>4. CASE Tick
  <2>1. /\ conn' = [conn EXCEPT !.silence = @ + 1] /\ conn.silence < Timeout
        /\ UNCHANGED <<stream, pc, ret, p, parsed, result, wire, log>>
    BY <1>4 DEF Tick
  <2>2. /\ conn' \in Conns /\ conn'.in = conn.in /\ conn'.canRead = conn.canRead
        /\ conn'.canWrite = conn.canWrite /\ conn'.online = conn.online
    BY <2>1, <1>1, ClientAssumption DEF Conns
  <2>3. Typed'
    BY <2>1, <2>2 DEF Typed, ClientInv
  <2>4. ControlInv' /\ RaisedInv' /\ StreamOK(stream', wire')
    BY <2>1, <2>2 DEF ControlInv, RaisedInv, Towards, ClientInv
  <2>. QED  BY <2>3, <2>4 DEF ClientInv
<1>. QED  BY <1>2, <1>3, <1>4

-----------------------------------------------------------------------------
(* The parser.                                                             *)

(* Among some numbers one is the least, so "the first unit that" is one.   *)
LEMMA LeastNumber ==
    ASSUME NEW S \in SUBSET Nat, S # {}
    PROVE  Min(S) \in S /\ \A m \in S : Min(S) <= m
<1>. DEFINE R == OpToRel(<, Nat)
<1>1. IsWellFoundedOn(R, Nat)
  BY NatLessThanWellFounded
<1>2. \A m, n \in Nat : m < n => <<m, n>> \in R
  BY Zenon DEF OpToRel
<1>. HIDE DEF R
<1>3. PICK n \in S : \A m \in S : <<m, n>> \notin R
  BY <1>1, WFMin
<1>4. \A m \in S : ~(m < n)
  BY <1>2, <1>3, Zenon
<1>5. \A m \in S : n <= m
  BY <1>4
<1>. QED  BY <1>5 DEF Min

(* The units that are left to parse, and the end of the first line.        *)
LEMMA LineFacts ==
    ASSUME Typed
    PROVE  /\ Rest \in Seq(PeerUnits) /\ Len(Rest) = Len(conn.in) - parsed
           /\ Len(conn.in) \in Nat /\ parsed \in Nat /\ parsed <= Len(conn.in)
           /\ LineEnd \in 0 .. Len(Rest)
           /\ LineEnd # 0 => Rest[LineEnd] \in PeerUnits
<1>1. conn.in \in Seq(PeerUnits) /\ Len(conn.in) \in Nat /\ parsed \in 0 .. Len(conn.in)
  BY LenProperties DEF Typed, Conns
<1>2. Rest \in Seq(PeerUnits) /\ Len(Rest) = Len(conn.in) - parsed
  BY <1>1, DropFacts DEF Rest
<1>. DEFINE I == {i \in 1 .. Len(Rest) : Rest[i].kind # "fragment"}
<1>3. LineEnd = IF I # {} THEN Min(I) ELSE 0
  BY DEF LineEnd, SelectInSeq
<1>4. I \in SUBSET Nat /\ I \subseteq 1 .. Len(Rest) /\ Len(Rest) \in Nat
  BY <1>1, <1>2
<1>. HIDE DEF I
<1>5. I # {} => Min(I) \in I
  BY <1>4, LeastNumber
<1>6. LineEnd \in 0 .. Len(Rest)
  <2>1. CASE I = {}
    <3>1. LineEnd = 0
      BY <2>1, <1>3
    <3>. QED  BY <3>1, <1>4
  <2>2. CASE I # {}
    <3>1. LineEnd \in I
      BY <2>2, <1>3, <1>5
    <3>2. LineEnd \in 1 .. Len(Rest)
      BY <3>1, <1>4
    <3>. QED  BY <3>2, <1>4
  <2>. QED  BY <2>1, <2>2
<1>7. LineEnd # 0 => Rest[LineEnd] \in PeerUnits
  BY <1>2, <1>6, ElementOfSeq
<1>. QED  BY <1>1, <1>2, <1>6, <1>7

(* How the first line reads.                                               *)
LEMMA FirstLineFacts ==
    ASSUME Typed, LineEnd # 0, NEW u \in FirstLine
    PROVE  /\ u.n \in Nat \cup {AUTO}
           /\ ~conn.torn => u = Rest[LineEnd]
           /\ u = Rest[LineEnd] \/ u = Line("header") \/ u = Line("bad")
<1>1. Rest[LineEnd] \in PeerUnits
  BY LineFacts
<1>2. Rest[LineEnd].n \in Nat \cup {AUTO}
  BY <1>1, ClientAssumption DEF IsUnit
<1>3. Line("header").n = 0 /\ Line("bad").n = 0
  BY DEF Line
<1>. QED  BY <1>2, <1>3 DEF FirstLine

(* A step of the parser that goes on, or calls a handler: the connection   *)
(* still reads.                                                            *)
LEMMA ReaderStep ==
    ASSUME ClientInv, pc = "parse",
           conn' \in Conns, conn'.in = conn.in, conn'.canRead = conn.canRead,
           conn'.canWrite = conn.canWrite,
           stream' \in Streams, log' \in Logs, StreamOK(stream', wire'),
           wire' \in Seq(Tokens), wire' = <<>> \/ wire' = wire,
           parsed' \in 0 .. Len(conn.in), result' = result,
           p' \in {"success", "hungry", "ready", "error"},
           \/ pc' = "parse" /\ ret' = ret
              /\ log' = log /\ (p' = "ready" \/ stream' # stream => log.raised # "none")
           \/ pc' = "callback" /\ ret' = "parse" /\ log'.raised \in {"OPEN", "HEADER", "INPUT"}
           \/ pc' = "callback" /\ ret' = "fail" /\ log'.raised = "ERROR" /\ p' = "error"
    PROVE  ClientInv'
<1>1. Typed'
  BY DEF Typed, ClientInv
<1>2. ControlInv'
  BY DEF ClientInv, ControlInv, Towards
<1>3. RaisedInv'
  BY DEF ClientInv, ControlInv, RaisedInv, Towards
<1>. QED  BY <1>1, <1>2, <1>3 DEF ClientInv

(* The request line opens the stream.                                      *)
LEMMA RequestLineStep ==
    ASSUME ClientInv, ParseRequestLine
    PROVE  ClientInv'
<1>1. /\ pc = "parse" /\ p = "success" /\ stream.state = IDLE /\ LineEnd # 0
      /\ stream' = [stream EXCEPT !.state = WAIT_HEADER]
      /\ parsed' = parsed + LineEnd
      /\ pc' = "callback" /\ ret' = "parse"
      /\ log' = [FreshLog EXCEPT !.raised = "OPEN"]
      /\ wire' = <<>> /\ p' = p /\ result' = result
  BY DEF ParseRequestLine, AtLine, AtParse
<1>2. PICK u \in FirstLine :
         conn' = [conn EXCEPT !.http2 = (u.kind = "request2"), !.torn = FALSE]
  BY DEF ParseRequestLine
<1>. DEFINE http2 == (u.kind = "request2")
<1>3. http2 \in BOOLEAN /\ conn' = [conn EXCEPT !.http2 = http2, !.torn = FALSE]
  BY <1>2
<1>. HIDE DEF http2
<1>4. /\ conn' \in Conns /\ conn'.in = conn.in /\ conn'.canRead = conn.canRead
      /\ conn'.canWrite = conn.canWrite
  BY <1>3 DEF ClientInv, Typed, Conns
<1>5. /\ stream' \in Streams /\ stream'.state = WAIT_HEADER
      /\ stream'.buf = stream.buf /\ stream'.bodyOff = stream.bodyOff
  <2>1. WAIT_HEADER \in States /\ stream \in Streams
    BY StatesAre DEF ClientInv, Typed
  <2>. QED  BY <2>1, <1>1 DEF Streams
<1>6. log' \in Logs /\ log'.raised = "OPEN"
  BY <1>1, FreshFacts DEF Logs, Events!Events
<1>7. StreamOK(stream', wire')
  <2>1. stream.buf = <<>> /\ stream.bodyOff = 0
    BY <1>1, StatesAre DEF ClientInv, StreamOK
  <2>. QED  BY <2>1, <1>5, StatesAre, EmptySeq DEF StreamOK
<1>8. wire' \in Seq(Tokens) /\ parsed' \in 0 .. Len(conn.in)
  BY <1>1, LineFacts, EmptySeq DEF ClientInv
<1>. QED  BY <1>1, <1>4, <1>5, <1>6, <1>7, <1>8, ReaderStep

(* A header line.                                                          *)
LEMMA HeaderLineStep ==
    ASSUME ClientInv, ParseHeaderLine
    PROVE  ClientInv'
<1>1. /\ pc = "parse" /\ p = "success" /\ stream.state = WAIT_HEADER /\ LineEnd # 0
      /\ parsed' = parsed + LineEnd
      /\ pc' = "callback" /\ ret' = "parse"
      /\ log' = [log EXCEPT !.raised = "HEADER",
                  !.declared = IF Rest[LineEnd].kind = "length" THEN Rest[LineEnd].n ELSE @]
      /\ wire' = wire /\ p' = p /\ result' = result
  BY DEF ParseHeaderLine, AtLine, AtParse
<1>2. PICK u \in FirstLine :
      /\ conn' = [conn EXCEPT !.torn = FALSE,
                    !.keepalive = CASE u.kind = "close" -> FALSE
                                    [] u.kind = "alive" -> TRUE
                                    [] OTHER -> @]
      /\ stream' = IF u.kind = "length" THEN [stream EXCEPT !.clen = u.n] ELSE stream
  BY DEF ParseHeaderLine
<1>3. conn \in Conns /\ stream \in Streams /\ log \in Logs
  BY DEF ClientInv, Typed
<1>. DEFINE k == CASE u.kind = "close" -> FALSE
                   [] u.kind = "alive" -> TRUE
                   [] OTHER -> conn.keepalive
<1>4. k \in BOOLEAN /\ conn' = [conn EXCEPT !.torn = FALSE, !.keepalive = k]
  BY <1>2, <1>3 DEF Conns
<1>. HIDE DEF k
<1>5. /\ conn' \in Conns /\ conn'.in = conn.in /\ conn'.canRead = conn.canRead
      /\ conn'.canWrite = conn.canWrite
  BY <1>3, <1>4 DEF Conns
<1>6. u.n \in Nat \cup {AUTO} /\ Rest[LineEnd].n \in Nat \cup {AUTO}
  BY <1>1, FirstLineFacts, LineFacts, ClientAssumption DEF ClientInv, IsUnit
<1>7. /\ stream' \in Streams /\ stream'.state = stream.state /\ stream'.sent = stream.sent
      /\ stream'.buf = stream.buf /\ stream'.bodyOff = stream.bodyOff
  BY <1>2, <1>3, <1>6 DEF Streams
<1>. DEFINE d == IF Rest[LineEnd].kind = "length" THEN Rest[LineEnd].n ELSE log.declared
<1>8. d \in Nat \cup {AUTO} /\ log' = [log EXCEPT !.raised = "HEADER", !.declared = d]
  BY <1>1, <1>3, <1>6 DEF Logs
<1>. HIDE DEF d
<1>9. log' \in Logs /\ log'.raised = "HEADER"
  BY <1>3, <1>8 DEF Logs, Events!Events
<1>10. StreamOK(stream', wire')
  BY <1>1, <1>7 DEF ClientInv, StreamOK
<1>11. wire' \in Seq(Tokens) /\ parsed' \in 0 .. Len(conn.in)
  BY <1>1, LineFacts DEF ClientInv, Typed
<1>. QED  BY <1>1, <1>5, <1>7, <1>9, <1>10, <1>11, ReaderStep

(* The end of the headers.                                                 *)
LEMMA EndOfHeadersStep ==
    ASSUME ClientInv, ParseEndOfHeaders
    PROVE  ClientInv'
<1>1. /\ pc = "parse" /\ p = "success" /\ stream.state = WAIT_HEADER /\ LineEnd # 0
      /\ conn' = [conn EXCEPT !.torn = FALSE]
      /\ stream' = [stream EXCEPT !.state = IF stream.clen = 0 THEN READY ELSE WAIT_BODY]
      /\ p' \in {"ready", "success"}
      /\ parsed' = parsed + LineEnd
      /\ UNCHANGED <<pc, ret, result, wire, log>>
  BY DEF ParseEndOfHeaders, AtLine, AtParse
<1>2. conn \in Conns /\ stream \in Streams /\ log \in Logs /\ wire \in Seq(Tokens)
  BY DEF ClientInv, Typed
<1>3. /\ conn' \in Conns /\ conn'.in = conn.in /\ conn'.canRead = conn.canRead
      /\ conn'.canWrite = conn.canWrite
  BY <1>1, <1>2 DEF Conns
<1>. DEFINE next == IF stream.clen = 0 THEN READY ELSE WAIT_BODY
<1>4. next \in States /\ next \in {READY, WAIT_BODY} /\ stream' = [stream EXCEPT !.state = next]
  BY <1>1, StatesAre
<1>. HIDE DEF next
<1>5. /\ stream' \in Streams /\ stream'.state = next
      /\ stream'.buf = stream.buf /\ stream'.bodyOff = stream.bodyOff
  BY <1>2, <1>4 DEF Streams
<1>6. stream.buf = <<>> /\ stream.bodyOff = 0 /\ log.raised # "none"
  BY <1>1, StatesAre, FreshFacts DEF ClientInv, StreamOK, RaisedInv
<1>7. StreamOK(stream', wire')
  BY <1>4, <1>5, <1>6, StatesAre, EmptySeq DEF StreamOK
<1>8. parsed' \in 0 .. Len(conn.in)
  BY <1>1, LineFacts DEF ClientInv
<1>. QED  BY <1>1, <1>2, <1>3, <1>5, <1>6, <1>7, <1>8, ReaderStep

(* What ends the parsing of what is there.                                 *)
LEMMA VerdictSteps ==
    ASSUME ClientInv, ParseBadLine \/ ParseBodyTooLong \/ ParseHungry \/ ParseAnswered
    PROVE  ClientInv'
<1>1. /\ pc = "parse" /\ p' \in {"error", "hungry"}
      /\ UNCHANGED <<conn, stream, pc, ret, parsed, result, wire, log>>
  BY DEF ParseBadLine, ParseBodyTooLong, ParseHungry, ParseAnswered, AtLine, AtParse
<1>2. /\ conn \in Conns /\ stream \in Streams /\ log \in Logs /\ wire \in Seq(Tokens)
      /\ parsed \in 0 .. Len(conn.in) /\ StreamOK(stream, wire)
  BY DEF ClientInv, Typed
<1>. QED  BY <1>1, <1>2, ReaderStep

(* A piece of the body.                                                    *)
LEMMA BodyStep ==
    ASSUME ClientInv, ParseBody
    PROVE  /\ ClientInv'
           /\ Len(Rest) \in Nat
           /\ stream.clen # AUTO => Len(Rest) <= stream.clen
                                    /\ stream'.clen = stream.clen - Len(Rest)
                                    /\ (stream'.clen = 0 => stream'.state = READY /\ p' = "ready")
                                    /\ (stream'.clen # 0 => stream'.state = WAIT_BODY /\ p' = "success")
                                    /\ log'.got = log.got + Len(Rest)
           /\ stream.clen = AUTO => /\ stream'.clen = AUTO /\ stream'.state = WAIT_BODY
                                    /\ p' = "success" /\ log'.got = log.got
           /\ log'.declared = log.declared /\ log'.marks = log.marks /\ log'.raised = "INPUT"
<1>. DEFINE n == Len(Rest)
            left == BodyLeft(n)
            got == IF stream.clen = AUTO THEN log.got ELSE log.got + n
            next == IF left = 0 THEN READY ELSE stream.state
<1>1. /\ pc = "parse" /\ p = "success" /\ stream.state = WAIT_BODY
      /\ BodyFits(n)
      /\ stream' = [stream EXCEPT !.clen = left, !.state = next]
      /\ p' = IF left = 0 THEN "ready" ELSE "success"
      /\ pc' = "callback" /\ ret' = "parse"
      /\ parsed' = Len(conn.in)
      /\ UNCHANGED <<conn, result, wire>>
  BY DEF ParseBody, AtParse
<1>2. log' = [log EXCEPT !.raised = "INPUT", !.got = got]
  BY DEF ParseBody
<1>3. conn \in Conns /\ stream \in Streams /\ log \in Logs /\ wire \in Seq(Tokens)
  BY DEF ClientInv, Typed
<1>4. n \in Nat /\ Len(conn.in) \in Nat
  BY LineFacts, LenProperties DEF ClientInv
<1>5. stream.clen \in Nat \cup {AUTO} /\ AUTO = -1 /\ log.got \in Nat
  BY <1>3 DEF Streams, AUTO, Logs
<1>6. /\ left \in Nat \cup {AUTO}
      /\ stream.clen # AUTO => n <= stream.clen /\ left = stream.clen - n /\ got = log.got + n
      /\ stream.clen = AUTO => left = AUTO /\ left # 0 /\ got = log.got
      /\ got \in Nat
  BY <1>1, <1>4, <1>5 DEF BodyFits, BodyLeft
<1>7. /\ next \in States /\ (left = 0 => next = READY) /\ (left # 0 => next = WAIT_BODY)
  BY <1>1, StatesAre
<1>. HIDE DEF n, left, got, next
<1>8. /\ stream' \in Streams /\ stream'.state = next /\ stream'.clen = left
      /\ stream'.buf = stream.buf /\ stream'.bodyOff = stream.bodyOff
  BY <1>1, <1>3, <1>6, <1>7 DEF Streams
<1>9. /\ log' \in Logs /\ log'.raised = "INPUT" /\ log'.got = got
      /\ log'.declared = log.declared /\ log'.marks = log.marks
  BY <1>2, <1>3, <1>6 DEF Logs, Events!Events
<1>10. StreamOK(stream', wire')
  <2>1. stream.buf = <<>> /\ stream.bodyOff = 0
    BY <1>1, StatesAre DEF ClientInv, StreamOK
  <2>2. next \in {READY, WAIT_BODY}
    BY <1>7
  <2>. QED  BY <2>1, <2>2, <1>8, StatesAre, EmptySeq DEF StreamOK
<1>11. p' \in {"ready", "success"} /\ parsed' \in 0 .. Len(conn.in) /\ conn' = conn
  BY <1>1, <1>4
<1>12. ClientInv'
  BY <1>1, <1>3, <1>8, <1>9, <1>10, <1>11, ReaderStep
<1>. QED  BY <1>1, <1>4, <1>5, <1>6, <1>7, <1>8, <1>9, <1>12 DEF n

(* An error is raised.                                                     *)
LEMMA ErrorStep ==
    ASSUME ClientInv, ParseError
    PROVE  ClientInv'
<1>1. /\ pc = "parse" /\ p = "error" /\ pc' = "callback" /\ ret' = "fail"
      /\ log' = [log EXCEPT !.raised = "ERROR"]
      /\ UNCHANGED <<conn, stream, p, parsed, result, wire>>
  BY DEF ParseError, Raise
<1>2. /\ conn \in Conns /\ stream \in Streams /\ log \in Logs /\ wire \in Seq(Tokens)
      /\ parsed \in 0 .. Len(conn.in) /\ StreamOK(stream, wire)
  BY DEF ClientInv, Typed
<1>3. log' \in Logs /\ log'.raised = "ERROR"
  BY <1>1, <1>2 DEF Logs, Events!Events
<1>. QED  BY <1>1, <1>2, <1>3, ReaderStep

(* The parsed units leave the input buffer.                                *)
LEMMA ShiftFacts ==
    ASSUME Typed, NEW c \in Conns, NEW event \in Events!Events, ShiftInput(c, event)
    PROVE  \E in \in Seq(PeerUnits) :
              /\ Len(in) <= Len(conn.in) /\ conn'.in = in /\ conn' \in Conns
              /\ conn'.canRead = c.canRead /\ conn'.canWrite = c.canWrite
              /\ conn'.online = c.online /\ conn'.keepalive = c.keepalive
              /\ log' \in Logs /\ log'.raised = event
              /\ log'.declared = log.declared /\ log'.got = log.got
              /\ log'.complete = log.complete /\ log.marks \subseteq log'.marks
              /\ log'.marks \subseteq log.marks \cup {"torn"}
              /\ conn'.torn => c.torn \/ "torn" \in log'.marks
<1>1. PICK in \in Shifted(conn.in, parsed) :
        LET torn == in = <<>> /\ Rest # <<>> IN
        /\ conn' = [c EXCEPT !.in = in, !.torn = @ \/ torn]
        /\ log' = [log EXCEPT !.raised = event,
                              !.marks = IF torn THEN @ \cup {"torn"} ELSE @]
  BY DEF ShiftInput
<1>. DEFINE torn == in = <<>> /\ Rest # <<>>
            marks == IF torn THEN log.marks \cup {"torn"} ELSE log.marks
            ct == c.torn \/ torn
<1>2. log \in Logs /\ parsed \in 0 .. Len(conn.in) /\ conn.in \in Seq(PeerUnits)
      /\ Len(conn.in) \in Nat
  BY LenProperties DEF Typed, Conns
<1>3. in \in Seq(PeerUnits) /\ Len(in) <= Len(conn.in)
  <2>1. /\ Drop(conn.in, parsed) \in Seq(PeerUnits)
        /\ Len(Drop(conn.in, parsed)) = Len(conn.in) - parsed
    BY <1>2, DropFacts
  <2>2. <<>> \in Seq(PeerUnits) /\ Len(<<>>) = 0
    BY EmptySeq
  <2>3. in = conn.in \/ in = Drop(conn.in, parsed) \/ in = <<>>
    BY <1>1 DEF Shifted
  <2>. DEFINE d == Drop(conn.in, parsed)
  <2>4. d \in Seq(PeerUnits) /\ Len(d) <= Len(conn.in)
    BY <2>1, <1>2
  <2>. HIDE DEF d
  <2>5. CASE in = d
    BY <2>4, <2>5
  <2>6. CASE in = <<>>
    BY <2>2, <2>6, <1>2
  <2>7. CASE in = conn.in
    BY <2>7, <1>2
  <2>. QED  BY <2>3, <2>5, <2>6, <2>7 DEF d
<1>4. marks \in SUBSET Marks /\ log.marks \subseteq marks /\ (torn => "torn" \in marks)
      /\ marks \subseteq log.marks \cup {"torn"}
  BY <1>2 DEF Logs, Marks
<1>5. ct \in BOOLEAN /\ (ct => c.torn \/ torn)
  BY DEF Conns
<1>6. conn' = [c EXCEPT !.in = in, !.torn = ct] /\ log' = [log EXCEPT !.raised = event, !.marks = marks]
  BY <1>1
<1>. HIDE DEF torn, marks, ct
<1>7. /\ conn' \in Conns /\ conn'.in = in /\ conn'.torn = ct
      /\ conn'.canRead = c.canRead /\ conn'.canWrite = c.canWrite
      /\ conn'.online = c.online /\ conn'.keepalive = c.keepalive
  BY <1>3, <1>5, <1>6 DEF Conns
<1>8. /\ log' \in Logs /\ log'.raised = event /\ log'.marks = marks
      /\ log'.declared = log.declared /\ log'.got = log.got
      /\ log'.complete = log.complete
  BY <1>2, <1>4, <1>6 DEF Logs
<1>. QED  BY <1>3, <1>4, <1>5, <1>7, <1>8

(* The end of aisl_client_parse.                                           *)
LEMMA ParseEndSteps ==
    ASSUME ClientInv, ParseWaits \/ ParseReady \/ ParseFail
    PROVE  ClientInv'
<1>0. conn \in Conns /\ log \in Logs /\ Len(conn.in) <= InSize /\ Len(conn.in) \in Nat
      /\ stream \in Streams
  BY LenProperties DEF ClientInv, Typed, Conns
<1>1. CASE ParseWaits
  <2>1. /\ ShiftInput(conn, log.raised) /\ pc = "parse"
        /\ pc' = "output" /\ p' = "success" /\ parsed' = 0
        /\ UNCHANGED <<stream, ret, result, wire>>
    BY <1>1 DEF ParseWaits
  <2>2. log.raised \in Events!Events /\ Typed
    BY <1>0 DEF Logs, ClientInv
  <2>3. PICK in \in Seq(PeerUnits) :
              /\ Len(in) <= Len(conn.in) /\ conn'.in = in /\ conn' \in Conns
              /\ conn'.canRead = conn.canRead /\ conn'.canWrite = conn.canWrite
              /\ conn'.online = conn.online
              /\ log' \in Logs /\ log'.raised = log.raised
    BY <2>1, <2>2, <1>0, ShiftFacts
  <2>4. Len(in) \in Nat
    BY LenProperties
  <2>5. Typed'
    BY <2>1, <2>3, <2>4, <1>0, ClientAssumption DEF Typed, ClientInv
  <2>6. ControlInv' /\ RaisedInv' /\ StreamOK(stream', wire')
    BY <2>1, <2>3 DEF ControlInv, RaisedInv, Towards, ClientInv
  <2>. QED  BY <2>5, <2>6 DEF ClientInv
<1>2. CASE ParseReady
  <2>. DEFINE c == [conn EXCEPT !.canRead = FALSE, !.canWrite = TRUE]
  <2>1. /\ ShiftInput(c, "REQUEST") /\ pc = "parse"
        /\ stream' = [stream EXCEPT !.clen = AUTO]
        /\ pc' = "callback" /\ ret' = "output" /\ p' = "success" /\ parsed' = 0
        /\ UNCHANGED <<result, wire>>
    BY <1>2 DEF ParseReady
  <2>2. c \in Conns /\ c.canRead = FALSE /\ c.canWrite = TRUE
    BY <1>0 DEF Conns
  <2>. HIDE DEF c
  <2>3. "REQUEST" \in Events!Events /\ Typed
    BY DEF Events!Events, ClientInv
  <2>4. PICK in \in Seq(PeerUnits) :
              /\ Len(in) <= Len(conn.in) /\ conn'.in = in /\ conn' \in Conns
              /\ conn'.canRead = c.canRead /\ conn'.canWrite = c.canWrite
              /\ log' \in Logs /\ log'.raised = "REQUEST"
    BY <2>1, <2>2, <2>3, ShiftFacts
  <2>5. Len(in) \in Nat
    BY LenProperties
  <2>6. /\ stream' \in Streams /\ stream'.state = stream.state /\ stream'.sent = stream.sent
        /\ stream'.buf = stream.buf /\ stream'.bodyOff = stream.bodyOff
    BY <2>1, <1>0 DEF Streams
  <2>7. Typed'
    BY <2>1, <2>4, <2>5, <2>6, <1>0, ClientAssumption DEF Typed, ClientInv
  <2>8. ControlInv' /\ RaisedInv'
    BY <2>1, <2>2, <2>4 DEF ControlInv, RaisedInv, Towards, ClientInv
  <2>9. StreamOK(stream', wire')
    BY <2>1, <2>6 DEF StreamOK, ClientInv
  <2>. QED  BY <2>7, <2>8, <2>9 DEF ClientInv
<1>3. CASE ParseFail
  <2>1. /\ conn' = [conn EXCEPT !.online = FALSE] /\ pc = "fail"
        /\ pc' = "output" /\ p' = "success" /\ parsed' = 0
        /\ UNCHANGED <<stream, ret, result, wire, log>>
    BY <1>3 DEF ParseFail, Offline
  <2>2. /\ conn' \in Conns /\ conn'.in = conn.in /\ conn'.canRead = conn.canRead
        /\ conn'.canWrite = conn.canWrite /\ conn'.online = FALSE
    BY <2>1, <1>0 DEF Conns
  <2>3. Typed'
    BY <2>1, <2>2, <1>0 DEF Typed, ClientInv
  <2>4. ControlInv' /\ RaisedInv' /\ StreamOK(stream', wire')
    BY <2>1, <2>2 DEF ControlInv, RaisedInv, Towards, ClientInv
  <2>. QED  BY <2>3, <2>4 DEF ClientInv
<1>. QED  BY <1>1, <1>2, <1>3

-----------------------------------------------------------------------------
(* Output.                                                                 *)

(* The peer takes the first tokens of the buffer; the rest stays, or is    *)
(* lost and leaves a mark.                                                 *)
LEMMA SentFacts ==
    ASSUME Typed, SendSome
    PROVE  \E k \in 1 .. Len(stream.buf) :
             /\ wire' = wire \o SubSeq(stream.buf, 1, k) /\ wire' \in Seq(Tokens) /\ wire' # <<>>
             /\ stream' \in Streams /\ SameButBuf(stream', stream)
             /\ stream'.buf = Drop(stream.buf, k) \/ stream'.buf = <<>>
             /\ stream'.buf = <<>> /\ k # Len(stream.buf) => "lost" \in log'.marks
             /\ pc' = IF aisl_stream_is_done(stream') THEN "finish" ELSE "timer"
             /\ log' \in Logs /\ log'.raised = log.raised /\ log'.declared = log.declared
             /\ log'.got = log.got /\ log'.complete = aisl_stream_is_done(stream')
             /\ log.marks \subseteq log'.marks /\ log'.marks \subseteq log.marks \cup {"lost"}
<1>1. PICK k \in 1 .. Len(stream.buf) : \E s \in aisl_stream_shift(stream, k) :
          /\ wire' = wire \o SubSeq(stream.buf, 1, k)
          /\ stream' = s
          /\ pc' = IF aisl_stream_is_done(s) THEN "finish" ELSE "timer"
          /\ log' = [log EXCEPT
                       !.complete = aisl_stream_is_done(s),
                       !.marks = IF s.buf = <<>> /\ k < Len(stream.buf)
                                 THEN @ \cup {"lost"} ELSE @]
  BY DEF SendSome
<1>2. PICK s \in aisl_stream_shift(stream, k) :
          /\ stream' = s
          /\ pc' = IF aisl_stream_is_done(s) THEN "finish" ELSE "timer"
          /\ log' = [log EXCEPT
                       !.complete = aisl_stream_is_done(s),
                       !.marks = IF s.buf = <<>> /\ k < Len(stream.buf)
                                 THEN @ \cup {"lost"} ELSE @]
  BY <1>1
<1>3. /\ stream \in Streams /\ stream.buf \in Seq(Tokens) /\ Len(stream.buf) \in Nat
      /\ log \in Logs /\ wire \in Seq(Tokens) /\ Len(wire) \in Nat
  BY StreamFields, LenProperties DEF Typed
<1>4. k \in 0 .. Len(stream.buf) /\ k # 0 /\ k \in Nat
  BY <1>3
<1>5. PICK buf \in Shifted(stream.buf, k) : s = [stream EXCEPT !.buf = buf]
  BY DEF aisl_stream_shift
<1>6. buf = Drop(stream.buf, k) \/ buf = <<>>
  BY <1>4, <1>5 DEF Shifted
<1>7. buf \in Seq(Tokens)
  <2>1. Drop(stream.buf, k) \in Seq(Tokens) /\ <<>> \in Seq(Tokens)
    BY <1>3, <1>4, DropFacts, EmptySeq
  <2>. QED  BY <2>1, <1>6
<1>8. s \in Streams /\ s.buf = buf /\ SameButBuf(s, stream)
  BY <1>3, <1>5, <1>7, BufReplaced
<1>. DEFINE first == SubSeq(stream.buf, 1, k)
<1>9. first \in Seq(Tokens) /\ Len(first) = k
  BY <1>3, <1>4, FirstFacts
<1>. HIDE DEF first
<1>10. wire \o first \in Seq(Tokens) /\ wire \o first # <<>>
  <2>. DEFINE w == wire \o first
  <2>1. w \in Seq(Tokens) /\ Len(w) = Len(wire) + Len(first)
    BY <1>3, <1>9, ConcatProperties
  <2>. HIDE DEF w
  <2>2. Len(w) # 0
    BY <2>1, <1>3, <1>4, <1>9
  <2>. QED  BY <2>1, <2>2 DEF w
<1>. DEFINE done == aisl_stream_is_done(s)
            marks == IF s.buf = <<>> /\ k < Len(stream.buf) THEN log.marks \cup {"lost"}
                                                            ELSE log.marks
<1>11. done \in BOOLEAN
  BY DEF aisl_stream_is_done
<1>12. /\ marks \in SUBSET Marks /\ log.marks \subseteq marks /\ marks \subseteq log.marks \cup {"lost"}
       /\ s.buf = <<>> /\ k # Len(stream.buf) => "lost" \in marks
  BY <1>3 DEF Logs, Marks
<1>13. log' = [log EXCEPT !.complete = done, !.marks = marks]
  BY <1>2
<1>. HIDE DEF done, marks
<1>14. /\ log' \in Logs /\ log'.raised = log.raised /\ log'.declared = log.declared
       /\ log'.got = log.got /\ log'.complete = done /\ log'.marks = marks
  BY <1>3, <1>11, <1>12, <1>13 DEF Logs
<1>. QED  BY <1>1, <1>2, <1>6, <1>8, <1>10, <1>12, <1>14 DEF first, done

(* Sending a part of the buffer keeps the invariant: what leaves the buffer
   reaches the wire. *)
LEMMA SendStep ==
    ASSUME ClientInv, SendSome
    PROVE  ClientInv'
<1>1. PICK k \in 1 .. Len(stream.buf) :
             /\ wire' \in Seq(Tokens) /\ wire' # <<>>
             /\ stream' \in Streams /\ SameButBuf(stream', stream)
             /\ stream'.buf = Drop(stream.buf, k) \/ stream'.buf = <<>>
             /\ pc' = IF aisl_stream_is_done(stream') THEN "finish" ELSE "timer"
             /\ log' \in Logs /\ log'.raised = log.raised
             /\ log'.complete = aisl_stream_is_done(stream')
  BY SentFacts DEF ClientInv
<1>2. /\ pc = "send" /\ conn.online /\ result' = "success" /\ conn' = conn /\ ret' = ret
      /\ p' = p /\ parsed' = parsed
  BY DEF SendSome
<1>3. Typed'
  BY <1>1, <1>2 DEF ClientInv, Typed
<1>4. stream.buf # <<>>
  BY EmptySeq
<1>5. stream.state \in 0 .. 6 /\ stream.state > READY
  BY <1>4, StreamFields, StatesAre DEF ClientInv, Typed, StreamOK
<1>6. StreamOK(stream', wire')
  BY <1>1, <1>5, StatesAre DEF ClientInv, StreamOK, SameButBuf
<1>7. log.raised # "none"
  BY <1>4, FreshFacts DEF ClientInv, RaisedInv
<1>8. ControlInv'
  BY <1>1, <1>2 DEF ClientInv, ControlInv, Towards
<1>9. RaisedInv'
  BY <1>1, <1>2, <1>7 DEF ClientInv, RaisedInv, Towards
<1>. QED  BY <1>3, <1>6, <1>8, <1>9 DEF ClientInv

(* The descriptor is closed, or the stream replaced.                       *)
LEMMA DownSteps ==
    ASSUME ClientInv, SendFailed \/ FinishClose \/ FinishKeep \/ FinishNoStream
    PROVE  ClientInv'
<1>1. conn \in Conns /\ stream \in Streams /\ log \in Logs
  BY DEF ClientInv, Typed
<1>2. CASE SendFailed \/ FinishClose
  <2>1. /\ conn' = [conn EXCEPT !.online = FALSE] /\ pc \in {"send", "finish"}
        /\ pc = "send" => pc' = "reap"
        /\ pc = "finish" => pc' = "timer"
        /\ UNCHANGED <<stream, ret, p, parsed, result, wire, log>>
    BY <1>2 DEF SendFailed, FinishClose, Offline
  <2>2. /\ conn' \in Conns /\ conn'.in = conn.in /\ conn'.canRead = conn.canRead
        /\ conn'.canWrite = conn.canWrite /\ conn'.online = FALSE
    BY <2>1, <1>1 DEF Conns
  <2>3. Typed'
    BY <2>1, <2>2, <1>1 DEF Typed, ClientInv
  <2>4. ControlInv' /\ RaisedInv' /\ StreamOK(stream', wire')
    BY <2>1, <2>2 DEF ControlInv, RaisedInv, Towards, ClientInv
  <2>. QED  BY <2>3, <2>4 DEF ClientInv
<1>3. CASE FinishKeep \/ FinishNoStream
  <2>1. /\ pc = "finish" /\ pc' = "timer" /\ stream' = FreshStream
        /\ UNCHANGED <<ret, p, parsed, result, wire>>
    BY <1>3 DEF FinishKeep, FinishNoStream
  <2>2. /\ conn' \in Conns /\ conn'.in = conn.in /\ conn'.canRead = conn.canRead
        /\ conn'.canWrite = conn.canWrite
        /\ log' \in Logs /\ log'.complete = log.complete
        /\ log'.raised = "none" \/ (log'.raised = "CLOSE" /\ ~conn'.online)
    <3>1. CASE FinishKeep
      <4>1. PICK dropped \in BOOLEAN : conn' = [conn EXCEPT !.online = @ /\ ~dropped]
        BY <3>1 DEF FinishKeep
      <4>. DEFINE online == conn.online /\ ~dropped
      <4>2. online \in BOOLEAN /\ conn' = [conn EXCEPT !.online = online]
        BY <4>1
      <4>. HIDE DEF online
      <4>3. log' = [log EXCEPT !.raised = "none"]
        BY <3>1 DEF FinishKeep
      <4>4. /\ conn' \in Conns /\ conn'.in = conn.in /\ conn'.canRead = conn.canRead
            /\ conn'.canWrite = conn.canWrite
        BY <4>2, <1>1 DEF Conns
      <4>5. log' \in Logs /\ log'.complete = log.complete /\ log'.raised = "none"
        BY <4>3, <1>1 DEF Logs, Events!Events
      <4>. QED  BY <4>4, <4>5
    <3>2. CASE FinishNoStream
      <4>1. conn' = [conn EXCEPT !.online = FALSE] /\ log' = [log EXCEPT !.raised = "CLOSE"]
        BY <3>2 DEF FinishNoStream, Offline
      <4>2. /\ conn' \in Conns /\ conn'.in = conn.in /\ conn'.canRead = conn.canRead
            /\ conn'.canWrite = conn.canWrite /\ conn'.online = FALSE
        BY <4>1, <1>1 DEF Conns
      <4>3. log' \in Logs /\ log'.complete = log.complete /\ log'.raised = "CLOSE"
        BY <4>1, <1>1 DEF Logs, Events!Events
      <4>. QED  BY <4>2, <4>3
    <3>. QED  BY <1>3, <3>1, <3>2
  <2>3. Typed'
    BY <2>1, <2>2, FreshFacts DEF Typed, ClientInv
  <2>4. StreamOK(stream', wire')
    BY <2>1, FreshFacts
  <2>5. ControlInv'
    BY <2>1, <2>2 DEF ControlInv, Towards, ClientInv
  <2>6. p # "ready"
    BY <2>1 DEF ControlInv, Towards, ClientInv
  <2>7. conn.canWrite /\ ~conn.canRead
    BY <2>1 DEF ControlInv, ClientInv
  <2>8. RaisedInv'
    BY <2>1, <2>2, <2>6, <2>7 DEF RaisedInv, Towards
  <2>. QED  BY <2>3, <2>4, <2>5, <2>8 DEF ClientInv
<1>. QED  BY <1>2, <1>3

(* The end of a touch, the event of output, and the end of the client.     *)
LEMMA EndSteps ==
    ASSUME ClientInv, TimerHeard \/ TimerWaits \/ TimerExpires \/ OutputEvent \/ Reap
    PROVE  ClientInv'
<1>1. conn \in Conns /\ stream \in Streams /\ log \in Logs
  BY DEF ClientInv, Typed
<1>2. CASE TimerHeard \/ TimerWaits \/ TimerExpires
  <2>1. /\ conn' \in {[conn EXCEPT !.silence = 0], conn, [conn EXCEPT !.online = FALSE]}
        /\ pc = "timer" /\ pc' = IF conn'.online THEN "app" ELSE "reap"
        /\ result' = "idle" /\ UNCHANGED <<stream, ret, p, parsed, wire, log>>
    BY <1>2 DEF TimerHeard, TimerWaits, TimerExpires, Leave, Left, Offline
  <2>2. /\ conn' \in Conns /\ conn'.in = conn.in /\ conn'.canRead = conn.canRead
        /\ conn'.canWrite = conn.canWrite /\ (conn'.online => conn.online)
    <3>1. 0 \in 0 .. Timeout
      BY ClientAssumption
    <3>. QED  BY <3>1, <2>1, <1>1 DEF Conns
  <2>3. Typed'
    BY <2>1, <2>2, <1>1 DEF Typed, ClientInv
  <2>4. ControlInv' /\ RaisedInv' /\ StreamOK(stream', wire')
    BY <2>1, <2>2 DEF ControlInv, RaisedInv, Towards, ClientInv
  <2>. QED  BY <2>3, <2>4 DEF ClientInv
<1>3. CASE OutputEvent
  <2>1. /\ pc = "output" /\ conn.canWrite /\ stream.chunked
        /\ pc' = "callback" /\ ret' = "send" /\ log' = [log EXCEPT !.raised = "OUTPUT"]
        /\ UNCHANGED <<conn, stream, p, parsed, result, wire>>
    BY <1>3 DEF OutputEvent, Raise
  <2>2. log' \in Logs /\ log'.raised = "OUTPUT"
    BY <2>1, <1>1 DEF Logs, Events!Events
  <2>3. Typed'
    BY <2>1, <2>2 DEF Typed, ClientInv
  <2>4. ControlInv' /\ RaisedInv' /\ StreamOK(stream', wire')
    BY <2>1, <2>2 DEF ControlInv, RaisedInv, Towards, ClientInv
  <2>. QED  BY <2>3, <2>4 DEF ClientInv
<1>4. CASE Reap
  <2>1. /\ pc = "reap" /\ pc' = "gone" /\ log' = [log EXCEPT !.raised = "CLOSE"]
        /\ UNCHANGED <<conn, stream, ret, p, parsed, result, wire>>
    BY <1>4 DEF Reap
  <2>2. log' \in Logs /\ log'.raised = "CLOSE"
    BY <2>1, <1>1 DEF Logs, Events!Events
  <2>3. Typed'
    BY <2>1, <2>2 DEF Typed, ClientInv
  <2>4. ControlInv' /\ RaisedInv' /\ StreamOK(stream', wire')
    BY <2>1, <2>2 DEF ControlInv, RaisedInv, Towards, ClientInv
  <2>. QED  BY <2>3, <2>4 DEF ClientInv
<1>. QED  BY <1>2, <1>3, <1>4

(* Every step keeps the invariant.                                         *)
LEMMA ClientStep == ClientInv /\ [Next]_vars => ClientInv'
<1>. SUFFICES ASSUME ClientInv, [Next]_vars PROVE ClientInv'
  OBVIOUS
<1>1. CASE Next
  <2>1. CASE Library
    <3>1. CASE Touch
      BY <3>1, MoveSteps
    <3>2. CASE Input
      BY <3>2, MoveSteps, InputSteps DEF Input
    <3>3. CASE Parse
      BY <3>3, RequestLineStep, HeaderLineStep, EndOfHeadersStep, VerdictSteps, BodyStep,
         ErrorStep, ParseEndSteps DEF Parse
    <3>4. CASE Output
      BY <3>4, MoveSteps, SendStep, DownSteps, EndSteps DEF Output
    <3>. QED  BY <2>1, <3>1, <3>2, <3>3, <3>4 DEF Library
  <2>2. CASE Return \/ Api \/ Tick
    BY <2>2, MoveSteps, ApiStep, InputSteps
  <2>3. CASE Gone
    BY <2>3 DEF Gone, vars, ClientInv, Typed, ControlInv, RaisedInv, Towards
  <2>. QED  BY <1>1, <2>1, <2>2, <2>3 DEF Next
<1>2. CASE UNCHANGED vars
  BY <1>2 DEF vars, ClientInv, Typed, ControlInv, RaisedInv, Towards
<1>. QED  BY <1>1, <1>2

(* The invariant of the connection holds in every reachable state. *)
LEMMA ClientInvariant == Spec => []ClientInv
BY InitInv, ClientStep, PTL DEF Spec

(* The variables hold what the code's do: lengths within the buffer,       *)
(* states of the stream, tokens, marks (struct aisl_client and             *)
(* aisl_stream).                                                           *)
THEOREM TypeCorrect == Spec => []TypeOK
<1>1. ASSUME ClientInv
      PROVE  TypeOK
  <2>1. /\ conn \in Conns /\ stream \in Streams /\ log \in Logs
        /\ Len(conn.in) <= InSize /\ wire \in Seq(Tokens)
        /\ parsed \in 0 .. Len(conn.in) /\ conn.in \in Seq(PeerUnits)
        /\ Len(conn.in) \in Nat /\ stream.buf \in Seq(Tokens)
    BY <1>1, LenProperties DEF ClientInv, Typed, Conns, Streams
  <2>2. \A i \in 1 .. Len(conn.in) : conn.in[i] \in PeerUnits
    BY <2>1, ElementOfSeq
  <2>3. \A t \in Tokens : IsToken(t)
    BY DEF IsToken, Tokens
  <2>4. /\ \A i \in 1 .. Len(stream.buf) : IsToken(stream.buf[i])
        /\ \A i \in 1 .. Len(wire) : IsToken(wire[i])
    BY <2>1, <2>3, ElementOfSeq
  <2>5. parsed \in 0 .. InSize
    BY <2>1, ClientAssumption
  <2>6. \A flag \in {conn.torn, conn.online, conn.canRead, conn.canWrite,
                    conn.keepalive, conn.http2, stream.chunked, log.complete} : flag \in BOOLEAN
    BY <2>1 DEF Conns, Streams, Logs
  <2>7. /\ conn.silence \in 0 .. Timeout /\ stream.state \in States
        /\ stream.clen \in Nat \cup {AUTO}
        /\ stream.sent \subseteq {"server", "type", "length", "connection"}
        /\ stream.bodyOff \in Nat /\ log.marks \subseteq Marks
    BY <2>1 DEF Conns, Streams, Logs, Names
  <2>8. /\ pc \in {"app", "input", "parse", "fail", "callback", "output", "send",
               "finish", "timer", "reap", "gone"}
        /\ ret \in {"app", "parse", "fail", "output", "send"}
        /\ p \in {"success", "hungry", "ready", "error"}
        /\ result \in {"idle", "success"}
    BY <1>1 DEF ClientInv, Typed
  <2>. QED  BY <2>1, <2>2, <2>4, <2>5, <2>6, <2>7, <2>8 DEF TypeOK
<1>2. ClientInv => TypeOK
  BY <1>1
<1>. QED  BY <1>2, ClientInvariant, PTL

(* A connection never reads the next request while it writes a response,   *)
(* and nothing is sent before the request was parsed to its end            *)
(* (client_input, client_output and aisl_client_parse).                    *)
THEOREM ReadsOrWrites == Spec => []ReadXorWrite
<1>1. ClientInv => ReadXorWrite
  BY DEF ClientInv, ControlInv, ReadXorWrite
<1>. QED  BY <1>1, ClientInvariant, PTL

-----------------------------------------------------------------------------
(* What the steps do to the last event, the state of the stream and the    *)
(* connection.                                                             *)

(* What neither parses nor is called by the application: the stream stays  *)
(* in its state until it is replaced, and an event that is raised belongs  *)
(* to the answer, or closes the stream.                                    *)
Quiet ==
    /\ conn'.torn = conn.torn /\ conn'.canRead = conn.canRead
    /\ \/ stream'.state = stream.state /\ stream'.clen = stream.clen
       \/ pc = "finish" /\ stream' = FreshStream
    /\ log'.declared = log.declared /\ log'.got = log.got /\ log.marks \subseteq log'.marks
    /\ p' \in {p, "success"}
    /\ \/ log'.raised = log.raised /\ (conn'.online => conn.online) /\ stream'.state = stream.state
       \/ /\ conn.canWrite /\ conn'.online = conn.online /\ log'.raised = "OUTPUT"
          /\ log.raised \in {"REQUEST", "OUTPUT"}
       \/ ~conn.online /\ conn'.online = conn.online /\ log'.raised = "CLOSE"
       \/ /\ pc = "finish" /\ conn.online /\ log.raised \in {"REQUEST", "OUTPUT"}
          /\ conn'.online \in BOOLEAN
          /\ log'.raised = "none" \/ (log'.raised = "CLOSE" /\ ~conn'.online)

(* The steps that are quiet in that sense.                                 *)
LEMMA QuietSteps ==
    ASSUME ClientInv, Touch \/ Input \/ Output \/ Return \/ Tick \/ Gone \/ UNCHANGED vars
    PROVE  Quiet
<1>1. conn \in Conns /\ stream \in Streams /\ log \in Logs
  BY DEF ClientInv, Typed
<1>2. CASE \/ Touch \/ InputSkipped \/ InputBlocked \/ OutputSkipped \/ OutputNoEvent
           \/ SendNothing \/ SendBlocked \/ Return \/ Gone \/ UNCHANGED vars
  BY <1>2 DEF Touch, InputSkipped, InputBlocked, OutputSkipped, OutputNoEvent, SendNothing,
              SendBlocked, Return, Gone, vars, Quiet
<1>3. CASE InputReceived
  <2>1. \E in : conn' = [conn EXCEPT !.in = in]
    BY <1>3 DEF InputReceived
  <2>2. conn'.torn = conn.torn /\ conn'.canRead = conn.canRead /\ conn'.online = conn.online
    BY <2>1, <1>1 DEF Conns
  <2>. QED  BY <2>2, <1>3 DEF InputReceived, Quiet
<1>4. CASE InputFailed \/ SendFailed \/ FinishClose \/ Tick
           \/ TimerHeard \/ TimerWaits \/ TimerExpires
  <2>1. /\ conn' \in {conn, [conn EXCEPT !.online = FALSE], [conn EXCEPT !.silence = 0],
                      [conn EXCEPT !.silence = @ + 1]}
        /\ stream' = stream /\ log' = log /\ p' = p
    BY <1>4 DEF InputFailed, SendFailed, FinishClose, Tick, TimerHeard, TimerWaits,
                TimerExpires, Leave, Offline
  <2>2. /\ conn'.torn = conn.torn /\ conn'.canRead = conn.canRead
        /\ conn'.online => conn.online
    BY <2>1, <1>1 DEF Conns
  <2>. QED  BY <2>1, <2>2 DEF Quiet
<1>5. CASE SendSome
  <2>1. /\ SameButBuf(stream', stream)
        /\ log'.raised = log.raised /\ log'.declared = log.declared /\ log'.got = log.got
        /\ log.marks \subseteq log'.marks
    BY <1>5, SentFacts DEF ClientInv
  <2>. QED  BY <2>1, <1>5 DEF SendSome, SameButBuf, Quiet
<1>6. CASE FinishKeep \/ FinishNoStream
  <2>1. /\ \E online \in BOOLEAN :
              /\ conn' = [conn EXCEPT !.online = online]
              /\ \/ log' = [log EXCEPT !.raised = "none"]
                 \/ ~online /\ log' = [log EXCEPT !.raised = "CLOSE"]
        /\ pc = "finish" /\ stream' = FreshStream /\ p' = p
    BY <1>6, <1>1 DEF FinishKeep, FinishNoStream, Offline, Conns
  <2>2. PICK online \in BOOLEAN :
              /\ conn' = [conn EXCEPT !.online = online]
              /\ \/ log' = [log EXCEPT !.raised = "none"]
                 \/ ~online /\ log' = [log EXCEPT !.raised = "CLOSE"]
    BY <2>1
  <2>3. conn'.torn = conn.torn /\ conn'.canRead = conn.canRead /\ conn'.online = online
    BY <2>2, <1>1 DEF Conns
  <2>4. /\ log'.declared = log.declared /\ log'.got = log.got /\ log'.marks = log.marks
        /\ log'.raised = "none" \/ (log'.raised = "CLOSE" /\ ~online)
    BY <2>2, <1>1 DEF Logs
  <2>5. conn.online /\ log.raised \in {"REQUEST", "OUTPUT"}
    <3>1. conn.canWrite /\ conn.online /\ stream.state = DONE
      BY <2>1 DEF ClientInv, ControlInv, aisl_stream_is_done
    <3>2. log.raised # "none"
      BY <3>1, FreshFacts, StatesAre DEF ClientInv, RaisedInv
    <3>3. log.raised # "CLOSE"
      BY <3>1 DEF ClientInv, RaisedInv
    <3>. QED  BY <3>1, <3>2, <3>3 DEF ClientInv, RaisedInv
  <2>. QED  BY <2>1, <2>3, <2>4, <2>5 DEF Quiet
<1>7. CASE OutputEvent
  <2>1. /\ log' = [log EXCEPT !.raised = "OUTPUT"]
        /\ conn' = conn /\ stream' = stream /\ p' = p /\ conn.canWrite /\ stream.chunked
    BY <1>7 DEF OutputEvent, Raise
  <2>2. /\ log'.declared = log.declared /\ log'.got = log.got /\ log'.marks = log.marks
        /\ log'.raised = "OUTPUT"
    BY <2>1, <1>1 DEF Logs
  <2>3. log.raised \in {"REQUEST", "OUTPUT"}
    <3>1. log.raised # "none"
      BY <2>1, FreshFacts DEF ClientInv, RaisedInv
    <3>2. pc = "output"
      BY <1>7 DEF OutputEvent
    <3>. QED  BY <2>1, <3>1, <3>2 DEF ClientInv, RaisedInv
  <2>. QED  BY <2>1, <2>2, <2>3 DEF Quiet
<1>8. CASE Reap
  <2>1. /\ log' = [log EXCEPT !.raised = "CLOSE"]
        /\ conn' = conn /\ stream' = stream /\ p' = p /\ pc = "reap"
    BY <1>8 DEF Reap
  <2>2. /\ log'.declared = log.declared /\ log'.got = log.got /\ log'.marks = log.marks
        /\ log'.raised = "CLOSE"
    BY <2>1, <1>1 DEF Logs
  <2>3. ~conn.online
    BY <2>1 DEF ClientInv, ControlInv
  <2>. QED  BY <2>1, <2>2, <2>3 DEF Quiet
<1>. QED  BY <1>2, <1>3, <1>4, <1>5, <1>6, <1>7, <1>8 DEF Input, Output

(* What a step of the parser does: it reads a line or a piece of the body  *)
(* and raises the event of that, or comes to a verdict, or carries it out. *)
ParseEffect ==
    \/ /\ pc = "parse" /\ conn'.online = conn.online /\ conn'.canRead = conn.canRead
       /\ \/ /\ stream.state = IDLE /\ stream'.state = WAIT_HEADER /\ p' # "ready"
             /\ stream'.clen = stream.clen /\ log'.raised = "OPEN"
          \/ /\ stream.state = WAIT_HEADER /\ stream'.state = WAIT_HEADER /\ p' # "ready"
             /\ log'.raised = "HEADER"
          \/ /\ stream.state = WAIT_HEADER /\ log'.raised = log.raised
             /\ IF stream.clen = 0 THEN stream'.state = READY
                ELSE stream'.state = WAIT_BODY /\ p' # "ready"
          \/ /\ stream.state = WAIT_BODY /\ log'.raised = "INPUT"
             /\ \/ stream'.state = READY
                \/ stream'.state = WAIT_BODY /\ p' # "ready"
    \/ /\ pc = "parse" /\ p = "ready" /\ p' # "ready" /\ stream'.state = stream.state
       /\ conn'.online = conn.online /\ ~conn'.canRead /\ log'.raised = "REQUEST"
    \/ /\ p' # "ready" /\ conn'.canRead = conn.canRead
       /\ stream'.state = stream.state /\ stream'.clen = stream.clen
       /\ \/ log'.raised = log.raised /\ (conn'.online => conn.online)
          \/ pc = "parse" /\ conn'.online = conn.online /\ log'.raised = "ERROR"

(* The parser's steps.                                                     *)
LEMMA ParseMoves ==
    ASSUME ClientInv, Parse
    PROVE  ParseEffect
<1>1. conn \in Conns /\ stream \in Streams /\ log \in Logs
  BY DEF ClientInv, Typed
<1>2. CASE ParseRequestLine
  <2>1. /\ \E http2 : conn' = [conn EXCEPT !.http2 = http2, !.torn = FALSE]
        /\ stream.state = IDLE /\ stream' = [stream EXCEPT !.state = WAIT_HEADER]
        /\ log' = [FreshLog EXCEPT !.raised = "OPEN"]
        /\ p = "success" /\ p' = p /\ pc = "parse"
    BY <1>2 DEF ParseRequestLine, AtLine, AtParse
  <2>2. conn'.online = conn.online /\ conn'.canRead = conn.canRead
    BY <2>1, <1>1 DEF Conns
  <2>3. log'.raised = "OPEN"
    BY <2>1, FreshFacts DEF Logs
  <2>4. stream'.state = WAIT_HEADER /\ stream'.clen = stream.clen
    BY <2>1, <1>1 DEF Streams
  <2>. QED  BY <2>1, <2>2, <2>3, <2>4 DEF ParseEffect
<1>3. CASE ParseHeaderLine
  <2>1. /\ stream.state = WAIT_HEADER /\ pc = "parse" /\ p = "success" /\ p' = p
        /\ \E d : log' = [log EXCEPT !.raised = "HEADER", !.declared = d]
        /\ \E k : conn' = [conn EXCEPT !.torn = FALSE, !.keepalive = k]
        /\ \E n : stream' \in {stream, [stream EXCEPT !.clen = n]}
    BY <1>3 DEF ParseHeaderLine, AtLine, AtParse
  <2>2. conn'.online = conn.online /\ conn'.canRead = conn.canRead
    BY <2>1, <1>1 DEF Conns
  <2>3. log'.raised = "HEADER"
    BY <2>1, <1>1 DEF Logs
  <2>4. stream'.state = WAIT_HEADER
    BY <2>1, <1>1 DEF Streams
  <2>. QED  BY <2>1, <2>2, <2>3, <2>4 DEF ParseEffect
<1>4. CASE ParseEndOfHeaders
  <2>1. /\ stream.state = WAIT_HEADER /\ pc = "parse"
        /\ conn' = [conn EXCEPT !.torn = FALSE] /\ log' = log
        /\ stream' = [stream EXCEPT !.state = IF stream.clen = 0 THEN READY ELSE WAIT_BODY]
        /\ p' = IF stream.clen = 0 THEN "ready" ELSE "success"
    BY <1>4 DEF ParseEndOfHeaders, AtLine, AtParse
  <2>2. conn'.online = conn.online /\ conn'.canRead = conn.canRead
    BY <2>1, <1>1 DEF Conns
  <2>3. stream'.state = IF stream.clen = 0 THEN READY ELSE WAIT_BODY
    BY <2>1, <1>1 DEF Streams
  <2>. QED  BY <2>1, <2>2, <2>3 DEF ParseEffect
<1>5. CASE ParseBody
  <2>1. /\ \/ stream'.state = READY
           \/ stream'.state = WAIT_BODY /\ p' # "ready"
        /\ log'.raised = "INPUT"
    BY <1>5, BodyStep
  <2>2. conn' = conn /\ stream.state = WAIT_BODY /\ pc = "parse"
    BY <1>5 DEF ParseBody, AtParse
  <2>. QED  BY <2>1, <2>2 DEF ParseEffect
<1>6. CASE ParseBadLine \/ ParseBodyTooLong \/ ParseHungry \/ ParseAnswered
  <2>1. p' # "ready" /\ conn' = conn /\ stream' = stream /\ log' = log
    BY <1>6 DEF ParseBadLine, ParseBodyTooLong, ParseHungry, ParseAnswered
  <2>. QED  BY <2>1 DEF ParseEffect
<1>7. CASE ParseWaits \/ ParseReady
  <2>. DEFINE c == IF ParseWaits THEN conn ELSE [conn EXCEPT !.canRead = FALSE, !.canWrite = TRUE]
              e == IF ParseWaits THEN log.raised ELSE "REQUEST"
  <2>1. /\ ShiftInput(c, e) /\ p' = "success" /\ pc = "parse"
        /\ ParseWaits => stream' = stream
        /\ ~ParseWaits => p = "ready" /\ stream' = [stream EXCEPT !.clen = AUTO]
    BY <1>7 DEF ParseWaits, ParseReady
  <2>2. /\ c \in Conns /\ c.online = conn.online
        /\ c.canRead = (IF ParseWaits THEN conn.canRead ELSE FALSE)
    BY <1>1 DEF Conns
  <2>3. e \in Events!Events
    BY <1>1 DEF Logs, Events!Events
  <2>4. PICK in : \E torn : conn' = [c EXCEPT !.in = in, !.torn = torn]
    BY <2>1 DEF ShiftInput
  <2>5. log'.raised = e
    <3>1. \E marks : log' = [log EXCEPT !.raised = e, !.marks = marks]
      BY <2>1 DEF ShiftInput
    <3>. HIDE DEF e
    <3>. QED  BY <3>1, <1>1 DEF Logs
  <2>6. conn'.online = c.online /\ conn'.canRead = c.canRead
    <3>. HIDE DEF c
    <3>. QED  BY <2>2, <2>4 DEF Conns
  <2>7. stream'.state = stream.state /\ (ParseWaits => stream'.clen = stream.clen)
    BY <2>1, <1>1 DEF Streams
  <2>8. CASE ParseWaits
    BY <2>1, <2>2, <2>5, <2>6, <2>7, <2>8 DEF ParseEffect
  <2>9. CASE ~ParseWaits
    BY <2>1, <2>2, <2>5, <2>6, <2>7, <2>9 DEF ParseEffect
  <2>. QED  BY <2>8, <2>9
<1>8. CASE ParseError \/ ParseFail
  <2>1. /\ stream' = stream /\ p' # "ready"
        /\ \/ pc = "parse" /\ conn' = conn /\ log' = [log EXCEPT !.raised = "ERROR"]
           \/ conn' = [conn EXCEPT !.online = FALSE] /\ log' = log
    BY <1>8 DEF ParseError, ParseFail, Raise, Offline
  <2>2. conn'.canRead = conn.canRead /\ (conn' = conn \/ ~conn'.online)
    BY <2>1, <1>1 DEF Conns
  <2>3. log' = log \/ (pc = "parse" /\ conn' = conn /\ log'.raised = "ERROR")
    BY <2>1, <1>1 DEF Logs
  <2>. QED  BY <2>1, <2>2, <2>3 DEF ParseEffect
<1>. QED  BY <1>2, <1>3, <1>4, <1>5, <1>6, <1>7, <1>8 DEF Parse

(* Every step is quiet, or one of the parser's, or a call.                 *)
LEMMA StepsAre ==
    ASSUME ClientInv, [Next]_vars
    PROVE  Quiet \/ Parse \/ Api
BY QuietSteps DEF Next, Library

-----------------------------------------------------------------------------
(* The state of the stream and the last event.                             *)

(* While the request is read, the state of the stream says which events    *)
(* may have been the last.  A body is waited for only after a header, but  *)
(* an answer that is begun before the headers end and fails for lack of    *)
(* memory leaves its own length to be taken for the body's.                *)
StageInv ==
    /\ p = "ready" => stream.state >= READY
    /\ conn.canRead /\ log.raised \notin {"ERROR", "CLOSE"} =>
        /\ stream.state = IDLE => log.raised = "none"
        /\ stream.state = WAIT_HEADER => log.raised \in {"OPEN", "HEADER"}
        /\ stream.state = WAIT_BODY => log.raised \in {"OPEN", "HEADER", "INPUT"}
        /\ log.raised = "OPEN" /\ ~(EarlyAnswer /\ OutOfMemory) =>
              /\ stream.state = WAIT_HEADER => stream.clen = 0
              /\ stream.state # WAIT_BODY

(* Before its first line is read the stream is new.                        *)
LEMMA OpensFresh ==
    ASSUME ClientInv, StageInv, pc = "parse", stream.state = IDLE
    PROVE  log.raised = "none" /\ stream.clen = 0
<1>1. conn.canRead /\ log.raised \notin {"ERROR", "CLOSE"}
  BY DEF ClientInv, ControlInv, RaisedInv, Towards
<1>. QED  BY <1>1, FreshFacts DEF StageInv, ClientInv, RaisedInv

(* A call keeps it: it goes forward, or fails without memory.              *)
LEMMA StageCall ==
    ASSUME ClientInv, StageInv, CallEffect
    PROVE  StageInv'
<1>1. stream.state \in 0 .. 6 /\ stream'.state \in 0 .. 6
  BY StreamFields DEF ClientInv, Typed, CallEffect
<1>2. p' = p /\ conn'.canRead = conn.canRead /\ log'.raised = log.raised
  BY DEF CallEffect, Kept, SameInput, SameLog
<1>3. CASE SameAnswer
  BY <1>2, <1>3 DEF SameAnswer, StageInv
<1>4. ASSUME NEW o \in Outcomes, Answers(o)
      PROVE  StageInv'
  <2>1. /\ stream.state <= stream'.state
        /\ stream'.state <= READY => OutOfMemory /\ stream'.state = stream.state
        /\ EarlyAnswer \/ log.raised \in {"REQUEST", "OUTPUT"}
    BY <1>4 DEF Answers, Result
  <2>2. conn.canRead => log.raised \notin {"REQUEST", "OUTPUT"}
    BY DEF ClientInv, RaisedInv
  <2>. QED  BY <1>1, <1>2, <2>1, <2>2, StatesAre DEF StageInv
<1>. QED  BY <1>3, <1>4 DEF CallEffect

(* Every step keeps it.                                                    *)
LEMMA StageStep ==
    ASSUME ClientInv, StageInv, [Next]_vars
    PROVE  StageInv'
<1>. ClientInv'
  BY ClientStep
<1>1. /\ stream.state \in 0 .. 6 /\ stream'.state \in 0 .. 6
      /\ conn.canWrite <=> ~conn.canRead
  BY StreamFields DEF ClientInv, Typed, ControlInv
<1>2. CASE Quiet
  <2>1. pc = "finish" => p # "ready" /\ ~conn.canRead
    BY DEF ClientInv, ControlInv, Towards
  <2>2. CASE stream'.state = stream.state /\ stream'.clen = stream.clen
    BY <1>1, <1>2, <2>1, <2>2 DEF StageInv, Quiet
  <2>3. CASE pc = "finish" /\ stream' = FreshStream
    BY <1>2, <2>1, <2>3 DEF StageInv, Quiet
  <2>. QED  BY <1>2, <2>2, <2>3 DEF Quiet
<1>3. CASE Parse
  <2>1. ParseEffect
    BY <1>3, ParseMoves
  <2>2. stream.state = IDLE /\ pc = "parse" => stream.clen = 0
    BY OpensFresh
  <2>3. pc = "parse" => conn.canRead /\ log.raised \notin {"ERROR", "CLOSE"}
    BY DEF ClientInv, ControlInv, RaisedInv, Towards
  <2>. QED  BY <1>1, <2>1, <2>2, <2>3, StatesAre DEF StageInv, ParseEffect
<1>4. CASE Api
  BY <1>4, ApiEffect, StageCall DEF ClientInv
<1>. QED  BY <1>2, <1>3, <1>4, StepsAre

(* It holds from the start.                                                *)
LEMMA StageInvariant == Spec => [](ClientInv /\ StageInv)
<1>1. Init => StageInv
  BY FreshFacts, StatesAre DEF Init, StageInv
<1>2. ClientInv /\ StageInv /\ [Next]_vars => (ClientInv /\ StageInv)'
  BY StageStep, ClientStep
<1>. QED  BY <1>1, <1>2, InitInv, PTL DEF Spec

-----------------------------------------------------------------------------
(* The body, accounted for.                                                *)

(* No part of the request was lost and no call failed.                     *)
Undisturbed == log.marks \cap {"torn", "failed"} = {}

(* While the headers are read the length of the stream is the one that     *)
(* was announced; then it is what is missing of it.                        *)
BodyInv ==
    /\ conn.torn => "torn" \in log.marks
    /\ Undisturbed =>
        /\ stream.state = WAIT_HEADER => stream.clen = log.declared /\ log.got = 0
        /\ stream.state = WAIT_BODY /\ stream.clen # AUTO =>
              log.got + stream.clen = log.declared
        /\ p = "ready" \/ log.raised \in {"REQUEST", "OUTPUT"} => log.got = log.declared

(* A step that reads nothing leaves the account of the body alone. *)
LEMMA BodyQuiet ==
    ASSUME ClientInv, BodyInv, Quiet
    PROVE  BodyInv'
<1>1. CASE stream'.state = stream.state /\ stream'.clen = stream.clen
  BY <1>1 DEF BodyInv, Quiet, Undisturbed
<1>2. CASE stream' = FreshStream
  <2>1. stream'.state = IDLE
    BY <1>2, FreshFacts
  <2>. QED  BY <2>1, StatesAre DEF BodyInv, Quiet, Undisturbed
<1>. QED  BY <1>1, <1>2 DEF Quiet

(* A call of the application either begins the answer, or changes nothing  *)
(* that counts, or fails and leaves its mark.                              *)
LEMMA BodyApi ==
    ASSUME ClientInv, BodyInv, Api
    PROVE  BodyInv'
<1>1. CallEffect
  BY ApiEffect DEF ClientInv
<1>2. /\ p' = p /\ conn'.torn = conn.torn /\ log'.raised = log.raised
      /\ log'.declared = log.declared /\ log'.got = log.got /\ log.marks \subseteq log'.marks
  BY <1>1 DEF CallEffect, Kept, SameInput, SameLog
<1>3. CASE SameAnswer
  BY <1>2, <1>3 DEF SameAnswer, BodyInv, Undisturbed
<1>4. ASSUME NEW o \in Outcomes, Answers(o)
      PROVE  BodyInv'
  <2>1. stream'.state \in 0 .. 6
    BY <1>1, StreamFields DEF CallEffect
  <2>2. CASE stream'.state <= READY
    <3>1. "failed" \in log'.marks
      BY <2>2, <1>4 DEF Answers, Result
    <3>. QED  BY <3>1, <1>2 DEF BodyInv, Undisturbed
  <2>3. CASE ~(stream'.state <= READY)
    <3>1. stream'.state # WAIT_HEADER /\ stream'.state # WAIT_BODY
      BY <2>1, <2>3, StatesAre
    <3>. QED  BY <3>1, <1>2 DEF BodyInv, Undisturbed
  <2>. QED  BY <2>2, <2>3
<1>. QED  BY <1>1, <1>3, <1>4 DEF CallEffect

(* A parse hands over body bytes only within the length the request
   declared. *)
LEMMA BodyParse ==
    ASSUME ClientInv, StageInv, BodyInv, Parse
    PROVE  BodyInv'
<1>1. conn \in Conns /\ stream \in Streams /\ log \in Logs /\ Typed
  BY DEF ClientInv, Typed
<1>2. CASE ParseRequestLine
  <2>1. /\ \E http2 : conn' = [conn EXCEPT !.http2 = http2, !.torn = FALSE]
        /\ stream.state = IDLE /\ stream' = [stream EXCEPT !.state = WAIT_HEADER]
        /\ log' = [FreshLog EXCEPT !.raised = "OPEN"]
        /\ p = "success" /\ p' = p
        /\ pc = "parse"
    BY <1>2 DEF ParseRequestLine, AtLine, AtParse
  <2>2. conn'.torn = FALSE
    BY <2>1, <1>1 DEF Conns
  <2>3. log'.raised = "OPEN" /\ log'.declared = 0 /\ log'.got = 0
    BY <2>1, FreshFacts DEF Logs
  <2>4. stream'.state = WAIT_HEADER /\ stream'.clen = stream.clen
    BY <2>1, <1>1 DEF Streams
  <2>5. stream.clen = 0
    BY <2>1, OpensFresh
  <2>. QED  BY <2>1, <2>2, <2>3, <2>4, <2>5, StatesAre DEF BodyInv
<1>3. CASE ParseHeaderLine
  <2>1. /\ stream.state = WAIT_HEADER /\ LineEnd # 0
        /\ log' = [log EXCEPT !.raised = "HEADER",
                    !.declared = IF Rest[LineEnd].kind = "length" THEN Rest[LineEnd].n ELSE @]
        /\ p = "success" /\ p' = p
    BY <1>3 DEF ParseHeaderLine, AtLine, AtParse
  <2>2. PICK u \in FirstLine :
        /\ \E k : conn' = [conn EXCEPT !.torn = FALSE, !.keepalive = k]
        /\ stream' = IF u.kind = "length" THEN [stream EXCEPT !.clen = u.n] ELSE stream
    BY <1>3 DEF ParseHeaderLine
  <2>3. conn'.torn = FALSE
    BY <2>2, <1>1 DEF Conns
  <2>4. /\ log'.raised = "HEADER" /\ log'.got = log.got /\ log'.marks = log.marks
        /\ log'.declared = IF Rest[LineEnd].kind = "length" THEN Rest[LineEnd].n
                                                            ELSE log.declared
    BY <2>1, <1>1 DEF Logs
  <2>5. /\ stream'.state = stream.state
        /\ stream'.clen = IF u.kind = "length" THEN u.n ELSE stream.clen
    BY <2>2, <1>1 DEF Streams
  <2>6. CASE conn.torn
    BY <2>3, <2>4, <2>6 DEF BodyInv, Undisturbed
  <2>7. CASE ~conn.torn
    <3>1. u = Rest[LineEnd]
      BY <2>1, <2>7, <1>1, FirstLineFacts
    <3>. QED  BY <3>1, <2>1, <2>3, <2>4, <2>5, StatesAre DEF BodyInv, Undisturbed
  <2>. QED  BY <2>6, <2>7
<1>4. CASE ParseEndOfHeaders
  <2>1. /\ stream.state = WAIT_HEADER /\ conn' = [conn EXCEPT !.torn = FALSE] /\ log' = log
        /\ stream' = [stream EXCEPT !.state = IF stream.clen = 0 THEN READY ELSE WAIT_BODY]
        /\ p' = IF stream.clen = 0 THEN "ready" ELSE "success"
    BY <1>4 DEF ParseEndOfHeaders, AtLine, AtParse
  <2>2. conn'.torn = FALSE
    BY <2>1, <1>1 DEF Conns
  <2>3. /\ stream'.state = (IF stream.clen = 0 THEN READY ELSE WAIT_BODY)
        /\ stream'.clen = stream.clen
    BY <2>1, <1>1 DEF Streams
  <2>4. stream.clen \in Int
    BY <1>1 DEF Streams, AUTO
  <2>. QED  BY <2>1, <2>2, <2>3, <2>4, StatesAre DEF BodyInv, Undisturbed
<1>5. CASE ParseBody
  <2>1. /\ Len(Rest) \in Nat
        /\ stream.clen # AUTO => Len(Rest) <= stream.clen
                                 /\ stream'.clen = stream.clen - Len(Rest)
                                 /\ (stream'.clen = 0 => stream'.state = READY /\ p' = "ready")
                                 /\ (stream'.clen # 0 => stream'.state = WAIT_BODY /\ p' = "success")
                                 /\ log'.got = log.got + Len(Rest)
        /\ stream.clen = AUTO => /\ stream'.clen = AUTO /\ stream'.state = WAIT_BODY
                                 /\ p' = "success" /\ log'.got = log.got
        /\ log'.declared = log.declared /\ log'.marks = log.marks /\ log'.raised = "INPUT"
    BY <1>5, BodyStep
  <2>2. conn' = conn /\ stream.state = WAIT_BODY
    BY <1>5 DEF ParseBody, AtParse
  <2>3. stream.clen \in Nat \cup {AUTO} /\ log.got \in Nat /\ log.declared \in Int
    BY <1>1 DEF Streams, Logs, AUTO
  <2>. HIDE DEF Rest
  <2>4. conn'.torn => "torn" \in log'.marks
    BY <2>1, <2>2 DEF BodyInv
  <2>5. CASE stream.clen = AUTO
    BY <2>1, <2>2, <2>4, <2>5, StatesAre DEF BodyInv, Undisturbed
  <2>6. CASE stream.clen # AUTO
    <3>. DEFINE n == Len(Rest)
    <3>1. /\ n \in Nat /\ n <= stream.clen /\ stream'.clen = stream.clen - n
          /\ stream'.clen = 0 => stream'.state = READY /\ p' = "ready"
          /\ stream'.clen # 0 => stream'.state = WAIT_BODY /\ p' = "success"
          /\ log'.got = log.got + n
      BY <2>1, <2>6
    <3>. HIDE DEF n
    <3>2. Undisturbed => log.got + stream.clen = log.declared
      BY <2>2, <2>6 DEF BodyInv
    <3>3. Undisturbed' => Undisturbed
      BY <2>1 DEF Undisturbed
    <3>4. Undisturbed' => log'.got + stream'.clen = log'.declared
      BY <3>1, <3>2, <3>3, <2>1, <2>3, <2>6
    <3>5. Undisturbed' /\ p' = "ready" => log'.got = log'.declared
      BY <3>1, <3>4, <2>3, <2>6
    <3>. QED  BY <3>1, <3>4, <3>5, <2>1, <2>4, StatesAre DEF BodyInv
  <2>. QED  BY <2>5, <2>6
<1>6. CASE ParseBadLine \/ ParseBodyTooLong \/ ParseHungry \/ ParseAnswered
  <2>1. p' # "ready" /\ conn' = conn /\ stream' = stream /\ log' = log
    BY <1>6 DEF ParseBadLine, ParseBodyTooLong, ParseHungry, ParseAnswered
  <2>. QED  BY <2>1 DEF BodyInv, Undisturbed
<1>7. CASE ParseWaits
  <2>1. ShiftInput(conn, log.raised) /\ p' = "success" /\ stream' = stream
    BY <1>7 DEF ParseWaits
  <2>2. log.raised \in Events!Events
    BY <1>1 DEF Logs
  <2>3. /\ log'.raised = log.raised
        /\ log'.declared = log.declared /\ log'.got = log.got
        /\ log.marks \subseteq log'.marks
        /\ conn'.torn => conn.torn \/ "torn" \in log'.marks
    BY <2>1, <2>2, <1>1, ShiftFacts
  <2>. QED  BY <2>1, <2>3 DEF BodyInv, Undisturbed
<1>8. CASE ParseReady
  <2>. DEFINE c == [conn EXCEPT !.canRead = FALSE, !.canWrite = TRUE]
  <2>1. /\ ShiftInput(c, "REQUEST") /\ p' = "success" /\ p = "ready"
        /\ stream' = [stream EXCEPT !.clen = AUTO]
    BY <1>8 DEF ParseReady
  <2>2. c \in Conns /\ c.torn = conn.torn
    BY <1>1 DEF Conns
  <2>. HIDE DEF c
  <2>3. "REQUEST" \in Events!Events
    BY DEF Events!Events
  <2>4. /\ log'.declared = log.declared /\ log'.got = log.got
        /\ log.marks \subseteq log'.marks
        /\ conn'.torn => c.torn \/ "torn" \in log'.marks
    BY <2>1, <2>2, <2>3, <1>1, ShiftFacts
  <2>5. stream'.state = stream.state /\ stream'.clen = AUTO
    BY <2>1, <1>1 DEF Streams
  <2>6. stream.state # WAIT_HEADER
    BY <2>1, StatesAre DEF StageInv
  <2>. QED  BY <2>1, <2>2, <2>4, <2>5, <2>6 DEF BodyInv, Undisturbed
<1>9. CASE ParseError \/ ParseFail
  <2>1. /\ stream' = stream /\ p' \in {p, "success"}
        /\ conn' \in {conn, [conn EXCEPT !.online = FALSE]}
        /\ log' \in {log, [log EXCEPT !.raised = "ERROR"]}
    BY <1>9 DEF ParseError, ParseFail, Raise, Offline
  <2>2. conn'.torn = conn.torn
    BY <2>1, <1>1 DEF Conns
  <2>3. /\ log'.declared = log.declared /\ log'.got = log.got /\ log'.marks = log.marks
        /\ log'.raised \in {log.raised, "ERROR"}
    BY <2>1, <1>1 DEF Logs
  <2>. QED  BY <2>1, <2>2, <2>3 DEF BodyInv, Undisturbed
<1>. QED  BY <1>2, <1>3, <1>4, <1>5, <1>6, <1>7, <1>8, <1>9 DEF Parse

(* The account of the body is kept.                                        *)
LEMMA BodyInvariant == Spec => [](ClientInv /\ BodyInv)
<1>1. Init => BodyInv
  BY FreshFacts, StatesAre DEF Init, BodyInv
<1>2. ClientInv /\ StageInv /\ BodyInv /\ [Next]_vars => (ClientInv /\ StageInv /\ BodyInv)'
  BY StageStep, ClientStep, StepsAre, BodyQuiet, BodyParse, BodyApi
<1>3. Init => ClientInv /\ StageInv
  BY InitInv, FreshFacts, StatesAre DEF Init, StageInv
<1>. QED  BY <1>1, <1>2, <1>3, PTL DEF Spec

(* When the request is announced as complete the application was given the *)
(* body that the peer announced, however it was cut and whatever was       *)
(* called meanwhile, unless the buffer dropped the start of a header line  *)
(* or an allocation failed (http_10_parse, aisl_client_parse).             *)
THEOREM BodyDelivered == Spec => []BodyAccounted
<1>1. BodyInv => BodyAccounted
  BY DEF BodyInv, BodyAccounted, Undisturbed
<1>. QED  BY <1>1, BodyInvariant, PTL

(* A stream goes back to an earlier state only when it is replaced, which  *)
(* is when it was flushed and nothing of its response remains.             *)
LEMMA ReplacedWhenDone ==
    ASSUME ClientInv, [Next]_vars, stream'.state < stream.state
    PROVE  stream.state = DONE /\ stream.buf = <<>> /\ log.complete
<1>. ClientInv'
  BY ClientStep
<1>1. stream.state \in 0 .. 6 /\ stream'.state \in 0 .. 6
  BY StreamFields DEF ClientInv, Typed
<1>2. CASE Quiet
  <2>1. pc = "finish" => stream.state = DONE /\ stream.buf = <<>> /\ log.complete
    BY DEF ClientInv, ControlInv, aisl_stream_is_done
  <2>. QED  BY <1>1, <1>2, <2>1 DEF Quiet
<1>3. CASE Parse
  <2>1. ParseEffect
    BY <1>3, ParseMoves
  <2>. QED  BY <1>1, <2>1, StatesAre DEF ParseEffect
<1>4. CASE Api
  <2>1. CallEffect
    BY <1>4, ApiEffect DEF ClientInv
  <2>2. stream.state <= stream'.state
    BY <1>1, <2>1 DEF CallEffect, SameAnswer, Answers, Result
  <2>. QED  BY <1>1, <2>2
<1>. QED  BY <1>2, <1>3, <1>4, StepsAre

(* The events of a stream come in the order that StreamEvents states, and  *)
(* every stream is closed once: unless the application may answer before   *)
(* the request is complete while allocations fail, for then a body can be  *)
(* delivered that no header announced (aisl_raise_stream_event and its     *)
(* callers).                                                               *)
THEOREM EventsInOrder ==
    ASSUME ~(EarlyAnswer /\ OutOfMemory)
    PROVE  Spec => EventOrder
<1>1. Init => Events!Init
  BY DEF Init, FreshLog, Events!Init
<1>2. ClientInv /\ StageInv /\ [Next]_vars => [Events!Next]_(Events!vars)
  <2>. SUFFICES ASSUME ClientInv, StageInv, [Next]_vars PROVE [Events!Next]_(Events!vars)
    OBVIOUS
  <2>. USE DEF Events!vars, Events!Next, Events!Raise, Events!Drop, Events!Close, Events!Renew,
               Events!Answering
  <2>. ClientInv'
    BY ClientStep
  <2>1. conn.online \in BOOLEAN /\ conn'.online \in BOOLEAN /\ log.raised \in Events!Events
    BY DEF ClientInv, Typed, Conns, Logs
  <2>2. CASE Quiet
    <3>1. CASE log'.raised = log.raised /\ (conn'.online => conn.online)
      BY <2>1, <3>1
    <3>2. CASE /\ conn'.online = conn.online /\ log'.raised = "OUTPUT"
               /\ log.raised \in {"REQUEST", "OUTPUT"}
      BY <3>2 DEF Events!After
    <3>3. CASE ~conn.online /\ conn'.online = conn.online /\ log'.raised = "CLOSE"
      BY <2>1, <3>3
    <3>4. CASE /\ conn.online /\ log.raised \in {"REQUEST", "OUTPUT"}
               /\ log'.raised = "none" \/ (log'.raised = "CLOSE" /\ ~conn'.online)
      BY <2>1, <3>4
    <3>. QED  BY <2>2, <3>1, <3>2, <3>3, <3>4 DEF Quiet
  <2>3. CASE Parse
    <3>1. ParseEffect
      BY <2>3, ParseMoves
    <3>2. pc = "parse" => conn.canRead /\ log.raised \notin {"ERROR", "CLOSE", "REQUEST", "OUTPUT"}
      BY DEF ClientInv, ControlInv, RaisedInv, Towards
    <3>3. p = "ready" => log.raised # "none"
      BY DEF ClientInv, RaisedInv
    <3>4. CASE log'.raised = log.raised /\ (conn'.online => conn.online)
      BY <2>1, <3>4
    <3>5. CASE pc = "parse" /\ conn'.online = conn.online /\ log'.raised = "ERROR"
      <4>1. log.raised \in {"none", "OPEN", "HEADER", "INPUT"}
        BY <2>1, <3>2, <3>5 DEF Events!Events
      <4>2. "ERROR" \in Events!After(log.raised)
        BY <4>1 DEF Events!After
      <4>. QED  BY <4>2, <3>5
    <3>6. CASE pc = "parse" /\ p = "ready" /\ conn'.online = conn.online /\ log'.raised = "REQUEST"
      <4>1. log.raised \in {"OPEN", "HEADER", "INPUT"}
        BY <2>1, <3>2, <3>3, <3>6 DEF Events!Events
      <4>2. "REQUEST" \in Events!After(log.raised)
        BY <4>1 DEF Events!After
      <4>. QED  BY <4>2, <3>6
    <3>7. CASE /\ pc = "parse" /\ conn'.online = conn.online
               /\ \/ stream.state = IDLE /\ log'.raised = "OPEN"
                  \/ stream.state = WAIT_HEADER /\ log'.raised = "HEADER"
                  \/ stream.state = WAIT_BODY /\ log'.raised = "INPUT"
      <4>1. /\ stream.state = IDLE => log.raised = "none"
            /\ stream.state = WAIT_HEADER => log.raised \in {"OPEN", "HEADER"}
            /\ stream.state = WAIT_BODY => log.raised \in {"HEADER", "INPUT"}
        BY <3>2, <3>7 DEF StageInv
      <4>2. log'.raised \in Events!After(log.raised)
        BY <4>1, <3>7 DEF Events!After
      <4>. QED  BY <4>2, <3>7
    <3>. QED  BY <3>1, <3>4, <3>5, <3>6, <3>7 DEF ParseEffect
  <2>4. CASE Api
    <3>1. CallEffect
      BY <2>4, ApiEffect DEF ClientInv
    <3>2. log'.raised = log.raised /\ (conn'.online => conn.online)
      BY <3>1 DEF CallEffect, SameLog
    <3>. QED  BY <2>1, <3>2
  <2>. QED  BY <2>2, <2>3, <2>4, StepsAre
<1>. QED  BY <1>1, <1>2, StageInvariant, PTL DEF Spec, EventOrder, Events!Spec
=============================================================================
