--------------------------- MODULE ResponseProofs ---------------------------
(***************************************************************************)
(* Proofs about what Client sends as a response, for any calls of the      *)
(* application and any cut of the output: what a step does to the bytes    *)
(* sent and buffered, that the Connection header among them decides what   *)
(* becomes of the connection, and that what is written is sent in order.   *)
(***************************************************************************)
EXTENDS ClientProofs

-----------------------------------------------------------------------------
(* The response so far.                                                    *)

(* It does not matter how a sequence is put together.                      *)
LEMMA Together ==
    \A u, v, w \in Seq(Tokens) : (u \o v) \o w = u \o (v \o w)
BY ConcatAssociative

(* Before the response is begun nothing is sent or set of it.              *)
LiveInv ==
    stream.state <= READY =>
        /\ stream.sent = {}
        /\ log.raised \notin {"none", "CLOSE"} => wire = <<>>

(* The parser touches neither what was sent nor what is buffered, but for  *)
(* a request line, with which a new response begins.                       *)
ParseKeeps ==
    /\ wire = <<>> /\ wire' = <<>>
    /\ stream'.sent = stream.sent /\ stream'.buf = stream.buf
    /\ stream.state <= READY => stream'.state <= READY
    /\ \/ /\ log'.marks \in {log.marks, log.marks \cup {"torn"}}
          /\ log'.complete = log.complete
       \/ stream.state <= READY /\ log'.marks = {} /\ log'.complete = FALSE
    /\ conn'.keepalive = conn.keepalive \/ stream.state <= READY
    /\ stream.state > READY =>
          /\ stream'.state = stream.state /\ stream'.bodyOff = stream.bodyOff
          /\ stream'.clen \in {stream.clen, AUTO}

(* The parser runs while the request is read.                              *)
LEMMA ParseReads ==
    ASSUME ClientInv, Parse
    PROVE  conn.canRead /\ wire = <<>>
<1>1. pc \in {"parse", "fail"}
  BY DEF Parse, ParseRequestLine, ParseHeaderLine, ParseEndOfHeaders, ParseBadLine, ParseBody,
         ParseBodyTooLong, ParseHungry, ParseAnswered, ParseWaits, ParseReady, ParseError,
         ParseFail, AtLine, AtParse
<1>. QED  BY <1>1 DEF ClientInv, ControlInv, Towards

(* A parse sends nothing and leaves the response alone, or opens a new one. *)
LEMMA ParseContents ==
    ASSUME ClientInv, Parse
    PROVE  ParseKeeps
<1>0. wire = <<>>
  BY ParseReads
<1>1. conn \in Conns /\ stream \in Streams /\ log \in Logs
  BY DEF ClientInv, Typed
<1>2. CASE ParseRequestLine
  <2>1. /\ \E http2 : conn' = [conn EXCEPT !.http2 = http2, !.torn = FALSE]
        /\ stream.state = IDLE /\ stream' = [stream EXCEPT !.state = WAIT_HEADER]
        /\ log' = [FreshLog EXCEPT !.raised = "OPEN"] /\ wire' = <<>>
    BY <1>2 DEF ParseRequestLine, AtLine, AtParse
  <2>2. conn'.keepalive = conn.keepalive
    BY <2>1, <1>1 DEF Conns
  <2>3. log'.marks = {} /\ log'.complete = FALSE
    BY <2>1, FreshFacts DEF Logs
  <2>4. /\ stream'.state = WAIT_HEADER /\ stream'.sent = stream.sent
        /\ stream'.buf = stream.buf
    BY <2>1, <1>1 DEF Streams
  <2>. QED  BY <1>0, <2>1, <2>2, <2>3, <2>4, StatesAre DEF ParseKeeps
<1>3. CASE ParseHeaderLine
  <2>1. /\ stream.state = WAIT_HEADER /\ wire' = wire
        /\ \E d : log' = [log EXCEPT !.raised = "HEADER", !.declared = d]
        /\ \E n : stream' \in {stream, [stream EXCEPT !.clen = n]}
    BY <1>3 DEF ParseHeaderLine, AtLine, AtParse
  <2>2. log'.marks = log.marks /\ log'.complete = log.complete
    BY <2>1, <1>1 DEF Logs
  <2>3. /\ stream'.state = stream.state /\ stream'.sent = stream.sent
        /\ stream'.buf = stream.buf
    BY <2>1, <1>1 DEF Streams
  <2>. QED  BY <1>0, <2>1, <2>2, <2>3, StatesAre DEF ParseKeeps
<1>4. CASE ParseEndOfHeaders
  <2>1. /\ conn' = [conn EXCEPT !.torn = FALSE] /\ log' = log /\ wire' = wire
        /\ stream.state = WAIT_HEADER
        /\ stream' = [stream EXCEPT !.state = IF stream.clen = 0 THEN READY ELSE WAIT_BODY]
    BY <1>4 DEF ParseEndOfHeaders, AtLine, AtParse
  <2>2. conn'.keepalive = conn.keepalive
    BY <2>1, <1>1 DEF Conns
  <2>3. /\ stream'.state <= READY /\ stream'.sent = stream.sent
        /\ stream'.buf = stream.buf
    BY <2>1, <1>1, StatesAre DEF Streams
  <2>. QED  BY <1>0, <2>1, <2>2, <2>3, StatesAre DEF ParseKeeps
<1>5. CASE ParseBody
  <2>1. /\ conn' = conn /\ stream.state = WAIT_BODY /\ wire' = wire
        /\ \E n, st : /\ stream' = [stream EXCEPT !.clen = n, !.state = st]
                      /\ st \in {READY, WAIT_BODY}
        /\ \E g : log' = [log EXCEPT !.raised = "INPUT", !.got = g]
    BY <1>5 DEF ParseBody, AtParse
  <2>2. log'.marks = log.marks /\ log'.complete = log.complete
    BY <2>1, <1>1 DEF Logs
  <2>3. /\ stream'.state <= READY /\ stream'.sent = stream.sent
        /\ stream'.buf = stream.buf
    BY <2>1, <1>1, StatesAre DEF Streams
  <2>. QED  BY <1>0, <2>1, <2>2, <2>3, StatesAre DEF ParseKeeps
<1>6. CASE ParseBadLine \/ ParseBodyTooLong \/ ParseHungry \/ ParseAnswered
  <2>1. conn' = conn /\ stream' = stream /\ log' = log /\ wire' = wire
    BY <1>6 DEF ParseBadLine, ParseBodyTooLong, ParseHungry, ParseAnswered
  <2>. QED  BY <1>0, <2>1 DEF ParseKeeps
<1>7. CASE ParseWaits \/ ParseReady
  <2>. DEFINE c == IF ParseWaits THEN conn ELSE [conn EXCEPT !.canRead = FALSE, !.canWrite = TRUE]
              e == IF ParseWaits THEN log.raised ELSE "REQUEST"
  <2>1. /\ ShiftInput(c, e) /\ wire' = wire
        /\ stream' \in {stream, [stream EXCEPT !.clen = AUTO]}
    BY <1>7 DEF ParseWaits, ParseReady
  <2>2. c \in Conns /\ c.keepalive = conn.keepalive
    BY <1>1 DEF Conns
  <2>3. PICK in : \E torn : conn' = [c EXCEPT !.in = in, !.torn = torn]
    BY <2>1 DEF ShiftInput
  <2>4. /\ log'.marks \in {log.marks, log.marks \cup {"torn"}}
        /\ log'.complete = log.complete
    <3>1. \E marks \in {log.marks, log.marks \cup {"torn"}} :
             log' = [log EXCEPT !.raised = e, !.marks = marks]
      BY <2>1 DEF ShiftInput
    <3>. HIDE DEF e
    <3>. QED  BY <3>1, <1>1 DEF Logs
  <2>5. conn'.keepalive = c.keepalive
    <3>. HIDE DEF c
    <3>. QED  BY <2>2, <2>3 DEF Conns
  <2>6. /\ stream'.state = stream.state /\ stream'.sent = stream.sent
        /\ stream'.buf = stream.buf /\ stream'.bodyOff = stream.bodyOff
        /\ stream'.clen \in {stream.clen, AUTO}
    BY <2>1, <1>1 DEF Streams
  <2>. QED  BY <1>0, <2>1, <2>2, <2>4, <2>5, <2>6 DEF ParseKeeps
<1>8. CASE ParseError \/ ParseFail
  <2>1. /\ stream' = stream /\ wire' = wire
        /\ conn' \in {conn, [conn EXCEPT !.online = FALSE]}
        /\ log' \in {log, [log EXCEPT !.raised = "ERROR"]}
    BY <1>8 DEF ParseError, ParseFail, Raise, Offline
  <2>2. conn'.keepalive = conn.keepalive
    BY <2>1, <1>1 DEF Conns
  <2>3. log'.marks = log.marks /\ log'.complete = log.complete
    BY <2>1, <1>1 DEF Logs
  <2>. QED  BY <1>0, <2>1, <2>2, <2>3 DEF ParseKeeps
<1>. QED  BY <1>2, <1>3, <1>4, <1>5, <1>6, <1>7, <1>8 DEF Parse

(* The quiet steps send what is buffered, or lose it, or do neither.       *)
QuietKeeps ==
    /\ conn'.keepalive = conn.keepalive
    /\ \/ /\ wire' = wire /\ log'.marks = log.marks /\ log'.complete = log.complete
          /\ \/ stream' = stream
             \/ /\ pc = "finish" /\ stream.buf = <<>> /\ stream' = FreshStream
                /\ log'.raised \in {"none", "CLOSE"} /\ pc' = "timer"
       \/ /\ stream.state > READY /\ SameButBuf(stream', stream) /\ stream.buf # <<>>
          /\ wire' # <<>> /\ wire' \in Seq(Tokens)
          /\ \E u \in Seq(Tokens) : wire' = wire \o u
          /\ "lost" \notin log'.marks => Sofar(stream)' = Sofar(stream)
          /\ log.marks \subseteq log'.marks /\ log'.marks \subseteq log.marks \cup {"lost"}
          /\ log'.complete = aisl_stream_is_done(stream')
          /\ log'.raised = log.raised /\ conn'.online = conn.online
          /\ pc' = IF log'.complete THEN "finish" ELSE "timer"

(* A step that makes no call of the application leaves the response alone. *)
LEMMA QuietContents ==
    ASSUME ClientInv, Touch \/ Input \/ Output \/ Return \/ Tick \/ Gone \/ UNCHANGED vars
    PROVE  QuietKeeps
<1>1. conn \in Conns /\ stream \in Streams /\ log \in Logs /\ wire \in Seq(Tokens)
  BY DEF ClientInv, Typed
<1>2. CASE \/ Touch \/ InputSkipped \/ InputBlocked \/ OutputSkipped \/ OutputNoEvent
           \/ SendNothing \/ SendBlocked \/ Return \/ Gone \/ UNCHANGED vars
  BY <1>2 DEF Touch, InputSkipped, InputBlocked, OutputSkipped, OutputNoEvent, SendNothing,
              SendBlocked, Return, Gone, vars, QuietKeeps
<1>3. CASE InputReceived
  <2>1. \E in : conn' = [conn EXCEPT !.in = in]
    BY <1>3 DEF InputReceived
  <2>2. conn'.keepalive = conn.keepalive
    BY <2>1, <1>1 DEF Conns
  <2>. QED  BY <2>2, <1>3 DEF InputReceived, QuietKeeps
<1>4. CASE InputFailed \/ SendFailed \/ FinishClose \/ Tick
           \/ TimerHeard \/ TimerWaits \/ TimerExpires
  <2>1. /\ conn' \in {conn, [conn EXCEPT !.online = FALSE], [conn EXCEPT !.silence = 0],
                      [conn EXCEPT !.silence = @ + 1]}
        /\ stream' = stream /\ log' = log /\ wire' = wire
    BY <1>4 DEF InputFailed, SendFailed, FinishClose, Tick, TimerHeard, TimerWaits,
                TimerExpires, Leave, Offline
  <2>2. conn'.keepalive = conn.keepalive
    BY <2>1, <1>1 DEF Conns
  <2>. QED  BY <2>1, <2>2 DEF QuietKeeps
<1>5. CASE SendSome
  <2>1. PICK k \in 1 .. Len(stream.buf) :
             /\ wire' = wire \o SubSeq(stream.buf, 1, k) /\ wire' \in Seq(Tokens) /\ wire' # <<>>
             /\ stream' \in Streams /\ SameButBuf(stream', stream)
             /\ stream'.buf = Drop(stream.buf, k) \/ stream'.buf = <<>>
             /\ stream'.buf = <<>> /\ k # Len(stream.buf) => "lost" \in log'.marks
             /\ pc' = IF aisl_stream_is_done(stream') THEN "finish" ELSE "timer"
             /\ log'.raised = log.raised
             /\ log'.complete = aisl_stream_is_done(stream')
             /\ log.marks \subseteq log'.marks /\ log'.marks \subseteq log.marks \cup {"lost"}
    BY <1>5, SentFacts DEF ClientInv
  <2>2. stream.buf \in Seq(Tokens) /\ Len(stream.buf) \in Nat /\ stream.state \in 0 .. 6
    BY <1>1, StreamFields
  <2>3. k \in 0 .. Len(stream.buf) /\ stream.buf # <<>>
    BY <2>2, EmptySeq
  <2>4. stream.state > READY
    BY <2>2, <2>3, StatesAre DEF ClientInv, StreamOK
  <2>. DEFINE u == SubSeq(stream.buf, 1, k)
              v == Drop(stream.buf, k)
  <2>5. u \in Seq(Tokens) /\ v \in Seq(Tokens) /\ u \o v = stream.buf
    BY <2>2, <2>3, FirstFacts, DropFacts, SplitFacts
  <2>6. k = Len(stream.buf) => v = <<>>
    <3>1. Len(v) = Len(stream.buf) - k
      BY <2>2, <2>3, DropFacts
    <3>2. k = Len(stream.buf) => Len(v) = 0
      BY <3>1, <2>2
    <3>. QED  BY <3>2, <2>5, EmptySeq
  <2>. HIDE DEF u, v
  <2>7. "lost" \notin log'.marks => stream'.buf = v
    BY <2>1, <2>6 DEF v
  <2>8. "lost" \notin log'.marks => wire' \o stream'.buf = wire \o stream.buf
    <3>1. (wire \o u) \o v = wire \o (u \o v)
      BY <1>1, <2>5, Together
    <3>. QED  BY <3>1, <2>1, <2>5, <2>7 DEF u
  <2>9. conn' = conn
    BY <1>5 DEF SendSome
  <2>10. pc' = IF log'.complete THEN "finish" ELSE "timer"
    BY <2>1
  <2>11. \E w \in Seq(Tokens) : wire' = wire \o w
    BY <2>1, <2>5 DEF u
  <2>. QED  BY <2>1, <2>3, <2>4, <2>8, <2>9, <2>10, <2>11 DEF QuietKeeps, Sofar
<1>6. CASE FinishKeep \/ FinishNoStream
  <2>1. /\ \E online : conn' = [conn EXCEPT !.online = online]
        /\ \E e \in {"none", "CLOSE"} : log' = [log EXCEPT !.raised = e]
        /\ pc = "finish" /\ stream' = FreshStream /\ wire' = wire /\ pc' = "timer"
    BY <1>6 DEF FinishKeep, FinishNoStream, Offline
  <2>2. conn'.keepalive = conn.keepalive
    BY <2>1, <1>1 DEF Conns
  <2>3. /\ log'.marks = log.marks /\ log'.complete = log.complete
        /\ log'.raised \in {"none", "CLOSE"}
    BY <2>1, <1>1 DEF Logs
  <2>4. stream.buf = <<>>
    BY <2>1 DEF ClientInv, ControlInv, aisl_stream_is_done
  <2>. QED  BY <2>1, <2>2, <2>3, <2>4 DEF QuietKeeps
<1>7. CASE OutputEvent \/ Reap
  <2>1. /\ \E e : log' = [log EXCEPT !.raised = e]
        /\ conn' = conn /\ stream' = stream /\ wire' = wire
    BY <1>7 DEF OutputEvent, Raise, Reap
  <2>2. log'.marks = log.marks /\ log'.complete = log.complete
    BY <2>1, <1>1 DEF Logs
  <2>. QED  BY <2>1, <2>2 DEF QuietKeeps
<1>. QED  BY <1>2, <1>3, <1>4, <1>5, <1>6, <1>7 DEF Input, Output

(* Every step is one of those, or a call.                                  *)
LEMMA StepContents ==
    ASSUME ClientInv, [Next]_vars
    PROVE  (Quiet /\ QuietKeeps) \/ (Parse /\ ParseEffect /\ ParseKeeps) \/ (Api /\ CallEffect)
BY QuietSteps, QuietContents, ParseMoves, ParseContents, ApiEffect DEF Next, Library, ClientInv

(* A call keeps that nothing is sent or set before the response is begun.  *)
LEMMA LiveCall ==
    ASSUME LiveInv, CallEffect
    PROVE  LiveInv'
<1>1. wire' = wire /\ log'.raised = log.raised
  BY DEF CallEffect, Kept, SameLog
<1>2. CASE SameAnswer
  BY <1>1, <1>2 DEF SameAnswer, LiveInv
<1>3. ASSUME NEW o \in Outcomes, Answers(o)
      PROVE  LiveInv'
  <2>1. stream'.state <= READY => stream'.state = stream.state /\ stream'.sent = stream.sent
    BY <1>3 DEF Answers, Result
  <2>. QED  BY <2>1, <1>1 DEF LiveInv
<1>. QED  BY <1>2, <1>3 DEF CallEffect

(* Every step keeps it.                                                    *)
LEMMA LiveStep ==
    ASSUME ClientInv, LiveInv, [Next]_vars
    PROVE  LiveInv'
<1>1. stream.state \in 0 .. 6
  BY StreamFields DEF ClientInv, Typed
<1>2. CASE Quiet /\ QuietKeeps
  <2>1. CASE stream'.sent = stream.sent /\ wire' = wire /\ stream'.state = stream.state
    BY <1>2, <2>1 DEF LiveInv, Quiet
  <2>2. CASE stream' = FreshStream /\ log'.raised \in {"none", "CLOSE"}
    BY <2>2 DEF LiveInv, FreshStream
  <2>3. CASE stream.state > READY /\ SameButBuf(stream', stream)
    BY <1>1, <2>3, StatesAre DEF LiveInv, SameButBuf
  <2>. QED  BY <1>2, <2>1, <2>2, <2>3 DEF QuietKeeps
<1>3. CASE Parse /\ ParseEffect /\ ParseKeeps
  <2>1. CASE stream.state <= READY
    BY <2>1, <1>3 DEF LiveInv, ParseKeeps
  <2>3. CASE ~(stream.state <= READY)
    <3>1. ~(stream'.state <= READY)
      BY <2>3, <1>1, <1>3, StatesAre DEF ParseEffect
    <3>. QED  BY <3>1 DEF LiveInv
  <2>. QED  BY <2>1, <2>3
<1>4. CASE Api /\ CallEffect
  BY <1>4, LiveCall
<1>. QED  BY <1>2, <1>3, <1>4, StepContents

-----------------------------------------------------------------------------
(* The Connection header.                                                  *)

(* The first Connection header in a response says what becomes of the      *)
(* connection, and from the headers on the stream knows whether there is   *)
(* one.                                                                    *)
Told(s, w, keepalive) ==
    /\ Honest(w \o s.buf, keepalive)
    /\ s.state >= SEND_HEADER =>
          ("connection" \in s.sent <=> Has(w \o s.buf, "connection"))

(* A stream before its response is begun has nothing of it.                *)
New(s) == s.state <= READY => s.sent = {} /\ wire = <<>>

(* A sequence without a Connection header is honest.                       *)
LEMMA HonestAlone ==
    ASSUME NEW w \in Seq(Tokens), ~Has(w, "connection"), NEW keepalive
    PROVE  Honest(w, keepalive)
BY DEF Honest, Has

(* What is sent first of an honest response is honest.                     *)
LEMMA HonestFirst ==
    ASSUME NEW u \in Seq(Tokens), NEW v \in Seq(Tokens), NEW keepalive,
           Honest(u \o v, keepalive)
    PROVE  Honest(u, keepalive)
<1>. DEFINE w == u \o v
<1>1. /\ Len(w) = Len(u) + Len(v)
      /\ \A i \in 1 .. Len(u) + Len(v) :
            w[i] = IF i <= Len(u) THEN u[i] ELSE v[i - Len(u)]
  BY ConcatProperties
<1>2. Len(u) \in Nat /\ Len(v) \in Nat
  BY LenProperties
<1>. HIDE DEF w
<1>3. \A i \in 1 .. Len(u) : i \in 1 .. Len(w) /\ w[i] = u[i]
  BY <1>1, <1>2
<1>4. Honest(w, keepalive)
  BY DEF w
<1>5. ASSUME NEW i \in 1 .. Len(u), u[i].name = "connection",
             \A j \in 1 .. i - 1 : u[j].name # "connection"
      PROVE  u[i].n = 1 <=> keepalive
  <2>1. \A j \in 1 .. i - 1 : j \in 1 .. Len(u)
    BY <1>2
  <2>2. \A j \in 1 .. i - 1 : w[j].name # "connection"
    BY <2>1, <1>3, <1>5
  <2>. QED  BY <2>2, <1>3, <1>4, <1>5 DEF Honest
<1>. QED  BY <1>5 DEF Honest

(* Tokens that are appended: to an honest response without a Connection    *)
(* header an honest one may be added.                                      *)
LEMMA ToldAppended ==
    ASSUME NEW s \in Streams, NEW t \in Streams, NEW w \in Seq(Tokens),
           NEW keepalive \in BOOLEAN, NEW k2 \in BOOLEAN, NEW added \in Seq(Tokens),
           Told(s, w, keepalive), s.state >= SEND_HEADER, t.buf = s.buf \o added,
           \/ "connection" \in s.sent /\ k2 = keepalive
           \/ "connection" \notin s.sent /\ Honest(added, k2),
           "connection" \in t.sent <=> "connection" \in s.sent \/ Has(added, "connection")
    PROVE  Told(t, w, k2)
<1>. DEFINE c == "connection"
            u == w \o s.buf
<1>1. s.buf \in Seq(Tokens)
  BY DEF Streams
<1>2. u \in Seq(Tokens)
  BY <1>1, ConcatProperties
<1>3. w \o t.buf = u \o added
  <2>1. (w \o s.buf) \o added = w \o (s.buf \o added)
    BY <1>1, Together
  <2>. QED  BY <2>1
<1>4. Honest(u, keepalive) /\ (c \in s.sent <=> Has(u, c))
  BY DEF Told
<1>. HIDE DEF u
<1>5. \A name : Has(u \o added, name) <=> Has(u, name) \/ Has(added, name)
  BY <1>2, ConcatNames, Zenon
<1>6. Honest(u \o added, k2)
  <2>1. CASE c \in s.sent /\ k2 = keepalive
    BY <2>1, <1>2, <1>4, ConcatHonest
  <2>2. CASE c \notin s.sent /\ Honest(added, k2)
    <3>1. Honest(u, k2)
      BY <2>2, <1>2, <1>4, HonestAlone
    <3>. QED  BY <3>1, <2>2, <1>2, ConcatHonest
  <2>. QED  BY <2>1, <2>2
<1>. QED  BY <1>3, <1>4, <1>5, <1>6 DEF Told

(* The same, when nothing changes what becomes of the connection.          *)
LEMMA ToldExtended ==
    ASSUME NEW s \in Streams, NEW t \in Streams, NEW w \in Seq(Tokens),
           NEW keepalive \in BOOLEAN, NEW added \in Seq(Tokens), Honest(added, keepalive),
           Told(s, w, keepalive), s.state >= SEND_HEADER, t.buf = s.buf \o added,
           "connection" \in t.sent <=> "connection" \in s.sent \/ Has(added, "connection")
    PROVE  Told(t, w, keepalive)
<1>1. \/ "connection" \in s.sent /\ keepalive = keepalive
      \/ "connection" \notin s.sent /\ Honest(added, keepalive)
  OBVIOUS
<1>. QED  BY <1>1, ToldAppended

(* The same, of one token.                                                 *)
LEMMA ToldOne ==
    ASSUME NEW s \in Streams, NEW t \in Streams, NEW w \in Seq(Tokens),
           NEW keepalive \in BOOLEAN, NEW e \in Tokens, e.name # "connection",
           Told(s, w, keepalive), s.state >= SEND_HEADER, t.buf = s.buf \o <<e>>,
           "connection" \in t.sent <=> "connection" \in s.sent
    PROVE  Told(t, w, keepalive)
<1>. DEFINE b == <<e>>
<1>1. b \in Seq(Tokens) /\ Len(b) = 1 /\ b[1] = e /\ t.buf = s.buf \o b
  OBVIOUS
<1>. HIDE DEF b
<1>2. ~Has(b, "connection")
  BY <1>1 DEF Has
<1>3. b \in Seq(Tokens) /\ Honest(b, keepalive)
  BY <1>1, <1>2, HonestAlone
<1>4. "connection" \in t.sent <=> "connection" \in s.sent \/ Has(b, "connection")
  BY <1>2
<1>. QED  BY <1>1, <1>3, <1>4, ToldExtended

(* The same, of a Connection header: the first decides.                    *)
LEMMA ToldConnection ==
    ASSUME NEW s \in Streams, NEW t \in Streams, NEW w \in Seq(Tokens),
           NEW keepalive \in BOOLEAN, NEW k2 \in BOOLEAN,
           NEW e \in Tokens, e.name = "connection",
           Told(s, w, keepalive), s.state >= SEND_HEADER, t.buf = s.buf \o <<e>>,
           "connection" \in t.sent,
           \/ "connection" \in s.sent /\ k2 = keepalive
           \/ "connection" \notin s.sent /\ (e.n = 1 <=> k2)
    PROVE  Told(t, w, k2)
<1>. DEFINE b == <<e>>
<1>1. b \in Seq(Tokens) /\ Len(b) = 1 /\ b[1] = e /\ t.buf = s.buf \o b
  OBVIOUS
<1>. HIDE DEF b
<1>2. Has(b, "connection")
  BY <1>1 DEF Has
<1>3. \/ "connection" \in s.sent /\ k2 = keepalive
      \/ "connection" \notin s.sent /\ Honest(b, k2)
  <2>1. (e.n = 1 <=> k2) => Honest(b, k2)
    BY <1>1 DEF Honest
  <2>. QED  BY <2>1
<1>4. "connection" \in t.sent <=> "connection" \in s.sent \/ Has(b, "connection")
  BY <1>2
<1>. QED  BY SMTT(30), <1>1, <1>3, <1>4, ToldAppended

(* A sequence with an element inserted.                                    *)
Inserted(x, u, m, e) ==
    /\ x \in Seq(Tokens) /\ Len(x) = Len(u) + 1
    /\ \A j \in 1 .. Len(u) + 1 : x[j] = IF j < m THEN u[j] ELSE IF j = m THEN e ELSE u[j - 1]

(* InsertAt puts one token in its place and keeps the others in order. *)
LEMMA InsertedIs ==
    ASSUME NEW u \in Seq(Tokens), NEW m \in 1 .. Len(u) + 1, NEW e \in Tokens
    PROVE  Inserted(InsertAt(u, m, e), u, m, e)
BY InsertFacts DEF Inserted

(* Inserting in the buffer is inserting in the response.                   *)
LEMMA InsertedSofar ==
    ASSUME NEW w \in Seq(Tokens), NEW s \in Seq(Tokens), NEW i \in 1 .. Len(s) + 1,
           NEW e \in Tokens
    PROVE  /\ w \o InsertAt(s, i, e) = InsertAt(w \o s, Len(w) + i, e)
           /\ Len(w) + i \in 1 .. Len(w \o s) + 1
<1>. DEFINE u == w \o s
            t == InsertAt(s, i, e)
            m == Len(w) + i
<1>1. Len(w) \in Nat /\ Len(s) \in Nat /\ i \in Nat /\ i >= 1
  BY LenProperties
<1>2. /\ u \in Seq(Tokens) /\ Len(u) = Len(w) + Len(s)
      /\ \A j \in 1 .. Len(w) + Len(s) : u[j] = IF j <= Len(w) THEN w[j] ELSE s[j - Len(w)]
  BY ConcatProperties
<1>3. /\ t \in Seq(Tokens) /\ Len(t) = Len(s) + 1
      /\ \A j \in 1 .. Len(s) + 1 :
            t[j] = IF j < i THEN s[j] ELSE IF j = i THEN e ELSE s[j - 1]
  BY InsertFacts
<1>. HIDE DEF u, t
<1>4. m \in 1 .. Len(u) + 1
  BY <1>1, <1>2
<1>. HIDE DEF m
<1>5. /\ InsertAt(u, m, e) \in Seq(Tokens) /\ Len(InsertAt(u, m, e)) = Len(u) + 1
      /\ \A j \in 1 .. Len(u) + 1 :
            InsertAt(u, m, e)[j] = IF j < m THEN u[j] ELSE IF j = m THEN e ELSE u[j - 1]
  <2>1. u \in Seq(Tokens)
    BY <1>2
  <2>. QED  BY <2>1, <1>4, InsertFacts
<1>. USE DEF m
<1>6. /\ w \o t \in Seq(Tokens) /\ Len(w \o t) = Len(w) + Len(t)
      /\ \A j \in 1 .. Len(w) + Len(t) :
            (w \o t)[j] = IF j <= Len(w) THEN w[j] ELSE t[j - Len(w)]
  BY <1>3, ConcatProperties
<1>. DEFINE x == InsertAt(u, m, e)
            y == w \o t
            a == Len(w)
            b == Len(s)
<1>7. /\ a \in Nat /\ b \in Nat /\ m = a + i /\ i <= b + 1
      /\ \A j \in 1 .. a + b : u[j] = IF j <= a THEN w[j] ELSE s[j - a]
      /\ \A j \in 1 .. b + 1 : t[j] = IF j < i THEN s[j] ELSE IF j = i THEN e ELSE s[j - 1]
      /\ x \in Seq(Tokens) /\ Len(x) = a + b + 1
      /\ \A j \in 1 .. a + b + 1 : x[j] = IF j < m THEN u[j] ELSE IF j = m THEN e ELSE u[j - 1]
      /\ y \in Seq(Tokens) /\ Len(y) = a + b + 1
      /\ \A j \in 1 .. a + b + 1 : y[j] = IF j <= a THEN w[j] ELSE t[j - a]
  <2>1. Len(u) + 1 = a + b + 1 /\ Len(w) + Len(t) = a + b + 1
    BY <1>1, <1>2, <1>3
  <2>. QED  BY <2>1, <1>1, <1>2, <1>3, <1>5, <1>6
<1>. HIDE DEF x, y, a, b, m
<1>8. ASSUME NEW j \in 1 .. a + b + 1
      PROVE  x[j] = y[j]
  <2>1. CASE j <= a
    <3>1. j < m /\ j \in 1 .. a + b
      BY <2>1, <1>1, <1>7
    <3>. QED  BY <3>1, <2>1, <1>7
  <2>2. CASE j > a /\ j < m
    <3>0. j \in Int /\ a \in Int /\ b \in Int /\ i \in Int /\ m = a + i /\ i <= b + 1
      BY <1>1, <1>7
    <3>1. j \in 1 .. a + b /\ ~(j <= a) /\ j - a \in 1 .. b + 1 /\ j - a < i
      BY <2>2, <3>0
    <3>. QED  BY <3>1, <2>2, <1>7
  <2>3. CASE j = m
    <3>1. ~(j <= a) /\ j - a \in 1 .. b + 1 /\ j - a = i /\ ~(j < m)
      BY <2>3, <1>1, <1>7
    <3>. QED  BY <3>1, <2>3, <1>7
  <2>4. CASE j > m
    <3>1. /\ ~(j <= a) /\ j - a \in 1 .. b + 1 /\ ~(j - a < i) /\ j - a # i
          /\ ~(j < m) /\ j # m /\ j - 1 \in 1 .. a + b /\ ~(j - 1 <= a)
          /\ j - 1 - a = j - a - 1
      BY <2>4, <1>1, <1>7
    <3>2. y[j] = s[j - a - 1]
      BY <3>1, <1>7
    <3>3. x[j] = s[j - 1 - a]
      BY <3>1, <1>7
    <3>. QED  BY <3>1, <3>2, <3>3
  <2>. QED  BY <2>1, <2>2, <2>3, <2>4, <1>1, <1>7
<1>9. x = y
  <2>1. Len(x) = Len(y) /\ \A j \in 1 .. Len(x) : x[j] = y[j]
    BY <1>7, <1>8
  <2>. QED  BY <2>1, <1>7, SeqEqual
<1>. QED  BY <1>4, <1>9 DEF x, y, m, u, t

(* A header of another name that is inserted changes nothing.              *)
LEMMA ToldInserted ==
    ASSUME NEW s \in Streams, NEW t \in Streams, NEW w \in Seq(Tokens), NEW keepalive \in BOOLEAN,
           NEW i \in 1 .. Len(s.buf) + 1, NEW e \in Tokens, e.name # "connection",
           Told(s, w, keepalive), s.state >= SEND_HEADER,
           t.buf = InsertAt(s.buf, i, e), t.sent = s.sent
    PROVE  Told(t, w, keepalive)
<1>. DEFINE c == "connection"
            u == w \o s.buf
            m == Len(w) + i
            x == InsertAt(u, m, e)
<1>1. s.buf \in Seq(Tokens)
  BY DEF Streams
<1>2. u \in Seq(Tokens) /\ m \in 1 .. Len(u) + 1 /\ w \o t.buf = x
  BY ZenonT(40), <1>1, ConcatProperties, InsertedSofar
<1>3. Honest(u, keepalive) /\ (c \in s.sent <=> Has(u, c))
  BY DEF Told
<1>. HIDE DEF u, m
<1>4. /\ x \in Seq(Tokens) /\ Len(x) = Len(u) + 1
      /\ \A j \in 1 .. Len(u) + 1 : x[j] = IF j < m THEN u[j] ELSE IF j = m THEN e ELSE u[j - 1]
  <2>1. Inserted(x, u, m, e)
    BY <1>2, InsertedIs
  <2>. HIDE DEF x
  <2>. QED  BY <2>1 DEF Inserted
<1>5. Len(u) \in Nat /\ m \in Nat
  BY <1>2, LenProperties
<1>. HIDE DEF x
<1>6. Has(x, c) <=> Has(u, c)
  <2>1. ASSUME NEW j \in 1 .. Len(u), u[j].name = c
        PROVE  \E k \in 1 .. Len(x) : x[k].name = c
    <3>1. CASE j < m
      BY <3>1, <2>1, <1>4, <1>5
    <3>2. CASE ~(j < m)
      <4>1. j + 1 \in 1 .. Len(u) + 1 /\ ~(j + 1 < m) /\ j + 1 # m /\ j + 1 - 1 = j
        BY <3>2, <1>5, <1>2
      <4>2. x[j + 1] = u[j]
        BY <4>1, <1>4
      <4>. QED  BY <4>1, <4>2, <2>1, <1>4
    <3>. QED  BY <3>1, <3>2
  <2>2. ASSUME NEW j \in 1 .. Len(x), x[j].name = c
        PROVE  \E k \in 1 .. Len(u) : u[k].name = c
    <3>1. j # m /\ (j < m => j \in 1 .. Len(u)) /\ (j > m => j - 1 \in 1 .. Len(u))
      BY <2>2, <1>2, <1>4, <1>5
    <3>. QED  BY <3>1, <2>2, <1>4, <1>5
  <2>. QED  BY <2>1, <2>2 DEF Has
<1>7. Honest(x, keepalive)
  <2>1. ASSUME NEW j \in 1 .. Len(x), x[j].name = c, \A k \in 1 .. j - 1 : x[k].name # c
        PROVE  x[j].n = 1 <=> keepalive
    <3>1. j # m
      BY <2>1, <1>4
    <3>2. CASE j < m
      <4>1. j \in 1 .. Len(u) /\ \A k \in 1 .. j - 1 : k \in 1 .. Len(u) + 1 /\ k < m
        BY <3>2, <1>2, <1>4, <1>5
      <4>2. x[j] = u[j] /\ \A k \in 1 .. j - 1 : x[k] = u[k]
        BY <4>1, <3>2, <1>4, <1>5
      <4>. QED  BY <4>1, <4>2, <2>1, <1>3 DEF Honest
    <3>3. CASE j > m
      <4>1. j - 1 \in 1 .. Len(u) /\ x[j] = u[j - 1]
        BY <3>3, <1>2, <1>4, <1>5
      <4>2. ASSUME NEW k \in 1 .. j - 1 - 1
            PROVE  u[k].name # c
        <5>1. CASE k < m
          <6>1. k \in 1 .. j - 1 /\ x[k] = u[k]
            BY <5>1, <3>3, <1>4, <1>5
          <6>. QED  BY <6>1, <2>1
        <5>2. CASE ~(k < m)
          <6>1. k + 1 \in 1 .. j - 1 /\ ~(k + 1 < m) /\ k + 1 # m /\ k + 1 - 1 = k
                /\ k + 1 \in 1 .. Len(u) + 1
            BY <5>2, <3>3, <1>2, <1>4, <1>5
          <6>2. x[k + 1] = u[k]
            BY <6>1, <1>4
          <6>. QED  BY <6>1, <6>2, <2>1
        <5>. QED  BY <5>1, <5>2
      <4>. QED  BY <4>1, <4>2, <2>1, <1>3 DEF Honest
    <3>. QED  BY <3>1, <3>2, <3>3, <1>2, <1>4, <1>5
  <2>. QED  BY <2>1 DEF Honest
<1>. QED  BY <1>2, <1>3, <1>6, <1>7 DEF Told, x

(* aisl_response begins it with a status line, or fails with nothing.      *)
LEMMA ToldResponse ==
    ASSUME NEW s, Legal(s), New(s), NEW k \in BOOLEAN, Told(s, wire, k), wire \in Seq(Tokens),
           NEW c_len \in Nat \cup {AUTO}, NEW o \in Response(s, c_len)
    PROVE  Told(o.s, wire, k) /\ New(o.s)
<1>. DEFINE c == "connection"
<1>1. s \in Streams /\ s.state \in 0 .. 6
  BY StreamFields DEF Legal
<1>2. /\ o \in Outcomes
      /\ s.state > READY => o.ok /\ o.s = s
      /\ s.state <= READY =>
            /\ o.s.sent = s.sent
            /\ o.ok => o.s.state = SEND_HEADER /\ o.s.buf = <<Token("status")>>
            /\ ~o.ok => o.s.state = s.state /\ o.s.buf = <<>>
  BY <1>1, ResponseFacts
<1>3. CASE s.state > READY
  BY <1>2, <1>3
<1>4. CASE s.state <= READY
  <2>1. wire = <<>> /\ s.sent = {} /\ ~Has(wire, c)
    <3>1. wire = <<>> /\ s.sent = {}
      BY <1>4 DEF New
    <3>2. Len(wire) = 0
      BY <3>1
    <3>. QED  BY <3>1, <3>2 DEF Has
  <2>2. o.s.buf \in Seq(Tokens)
    BY <1>2 DEF Outcomes, Streams
  <2>3. ~Has(o.s.buf, c)
    <3>1. CASE o.s.buf = <<>>
      <4>1. Len(o.s.buf) = 0
        BY <3>1
      <4>. QED  BY <4>1 DEF Has
    <3>2. CASE o.s.buf = <<Token("status")>>
      <4>1. Len(o.s.buf) = 1 /\ o.s.buf[1].name = "status"
        BY <3>2, TokenTyped DEF TokenNames
      <4>. QED  BY <4>1 DEF Has
    <3>. QED  BY <3>1, <3>2, <1>2, <1>4 DEF Outcomes
  <2>4. ~Has(wire \o o.s.buf, c) /\ wire \o o.s.buf \in Seq(Tokens)
    BY ZenonT(40), <2>1, <2>2, <2>3, ConcatNames
  <2>5. Honest(wire \o o.s.buf, k)
    BY <2>4, HonestAlone
  <2>. QED  BY <2>1, <2>4, <2>5, <1>2, <1>4, StatesAre DEF Told, New
<1>. QED  BY <1>1, <1>3, <1>4, StatesAre

(* Closing the headers tells what the client will do, unless it was told.  *)
LEMMA ToldClose ==
    ASSUME NEW s, Legal(s), New(s), s.state <= SEND_HEADER, conn.keepalive \in BOOLEAN,
           Told(s, wire, conn.keepalive), wire \in Seq(Tokens),
           NEW o \in aisl_stream_close_headers(s)
    PROVE  Told(o.s, wire, conn.keepalive) /\ New(o.s)
<1>1. s \in Streams /\ s.state \in 0 .. 6
  BY StreamFields DEF Legal
<1>2. PICK r \in Response(s, AUTO) : r \in Outcomes /\ IF r.ok THEN Closed(r, o) ELSE o = r
  BY <1>1, CloseFacts
<1>3. AUTO \in Nat \cup {AUTO}
  OBVIOUS
<1>4. Told(r.s, wire, conn.keepalive) /\ New(r.s)
  BY <1>3, ToldResponse
<1>5. CASE ~r.ok
  BY <1>2, <1>4, <1>5
<1>6. CASE r.ok
  <2>1. r.s.state = SEND_HEADER /\ r.s \in Streams
    <3>1. /\ r \in Outcomes
          /\ s.state > READY => r.ok /\ r.s = s
          /\ s.state <= READY =>
                /\ r.s.clen = AUTO /\ r.s.chunked = s.chunked
                /\ r.s.sent = s.sent /\ r.s.bodyOff = s.bodyOff
                /\ r.ok => r.s.state = SEND_HEADER /\ r.s.buf = <<Token("status")>>
                /\ ~r.ok => OutOfMemory /\ r.s.state = s.state /\ r.s.buf = <<>>
      BY <1>1, <1>3, ResponseFacts, Zenon
    <3>2. r.s.state = SEND_HEADER
      BY <3>1, <1>1, <1>6, StatesAre
    <3>. QED  BY <3>2, <1>2 DEF Outcomes
  <2>2. Closed(r, o)
    BY <1>2, <1>6
  <2>3. PICK added \in Seq(Tokens) :
           /\ o \in Outcomes
           /\ o.s.buf = r.s.buf \o added
           /\ \A x \in Names : x \in o.s.sent <=> x \in r.s.sent \/ Has(added, x)
           /\ Honest(added, conn.keepalive)
           /\ o.ok => o.s.state = SEND_BODY
           /\ ~o.ok => o.s.state = r.s.state
    BY <2>2 DEF Closed
  <2>4. o.s \in Streams /\ (o.s.state = SEND_BODY \/ o.s.state = SEND_HEADER)
    BY <2>1, <2>3 DEF Outcomes
  <2>5. "connection" \in o.s.sent <=> "connection" \in r.s.sent \/ Has(added, "connection")
    BY <2>3 DEF Names
  <2>6. r.s.state >= SEND_HEADER
    BY <2>1, StatesAre
  <2>7. Told(o.s, wire, conn.keepalive)
    <3>. DEFINE k == conn.keepalive
                v == r.s
                t == o.s
    <3>1. /\ t.buf = v.buf \o added /\ Honest(added, k) /\ k \in BOOLEAN /\ Told(v, wire, k)
          /\ v \in Streams /\ t \in Streams /\ v.state >= SEND_HEADER
          /\ "connection" \in t.sent <=> "connection" \in v.sent \/ Has(added, "connection")
      BY <1>4, <2>1, <2>3, <2>4, <2>5, <2>6
    <3>. HIDE DEF k, v, t
    <3>2. Told(t, wire, k)
      BY SMTT(30), <3>1, ToldExtended
    <3>. QED  BY <3>2 DEF k, t
  <2>. QED  BY <2>4, <2>7, StatesAre DEF New
<1>. QED  BY <1>5, <1>6

(* Flushing sends nothing by itself.                                       *)
LEMMA ToldFlushed ==
    ASSUME NEW s \in Streams, NEW t, StreamOK(s, wire), New(s), IsFlushed(t, s),
           NEW k \in BOOLEAN, Told(s, wire, k)
    PROVE  Told(t, wire, k)
<1>1. s.state \in 0 .. 6 /\ t.buf = s.buf /\ t.sent = s.sent \cup {"length"}
  BY StreamFields DEF IsFlushed
<1>2. "connection" \in t.sent <=> "connection" \in s.sent
  BY <1>1
<1>3. CASE s.state >= SEND_HEADER
  BY <1>1, <1>2, <1>3 DEF Told
<1>4. CASE s.state <= READY
  <2>1. s.sent = {} /\ wire = <<>> /\ s.buf = <<>>
    BY <1>4 DEF New, StreamOK
  <2>2. Len(wire \o s.buf) = 0
    BY <2>1
  <2>3. ~Has(wire \o s.buf, "connection")
    BY <2>2 DEF Has
  <2>. QED  BY <1>1, <1>2, <2>1, <2>3 DEF Told
<1>. QED  BY <1>1, <1>3, <1>4, StatesAre

(* aisl_write, aisl_printf and aisl_puts add a piece of the body.          *)
LEMMA ToldWrite ==
    ASSUME NEW s, Legal(s), New(s), conn.keepalive \in BOOLEAN,
           Told(s, wire, conn.keepalive), wire \in Seq(Tokens), NEW o \in Write(s)
    PROVE  Told(o.s, wire, conn.keepalive)
<1>1. s \in Streams /\ s.state \in 0 .. 6
  BY StreamFields DEF Legal
<1>2. PICK r \in IF s.state < SEND_BODY THEN aisl_stream_close_headers(s)
                                        ELSE {[ok |-> TRUE, s |-> s]} :
         o \in IF r.ok THEN Appended(r.s, <<Token("body")>>) ELSE {r}
  BY DEF Write
<1>3. /\ Told(r.s, wire, conn.keepalive) /\ r \in Outcomes
      /\ r.ok => r.s.state >= SEND_BODY
  <2>1. CASE s.state < SEND_BODY
    <3>1. s.state <= SEND_HEADER /\ r \in aisl_stream_close_headers(s)
      BY <2>1, <1>1, <1>2, StatesAre
    <3>2. Told(r.s, wire, conn.keepalive)
      BY <3>1, ToldClose
    <3>3. r \in Outcomes /\ (r.ok => r.s.state = SEND_BODY)
      BY <3>1, CloseResult DEF Result
    <3>. QED  BY <3>2, <3>3, StatesAre
  <2>2. CASE ~(s.state < SEND_BODY)
    <3>1. r = [ok |-> TRUE, s |-> s]
      BY <2>2, <1>2
    <3>. QED  BY <3>1, <2>2, <1>1, StatesAre DEF Outcomes
  <2>. QED  BY <2>1, <2>2
<1>4. CASE ~r.ok
  BY <1>2, <1>3, <1>4
<1>5. CASE r.ok
  <2>. DEFINE b == <<Token("body")>>
  <2>1. Token("body") \in Tokens /\ Token("body").name = "body"
    BY TokenTyped DEF TokenNames
  <2>2. r.s \in Streams /\ o \in Appended(r.s, b)
    BY <1>2, <1>3, <1>5 DEF Outcomes
  <2>3. /\ o \in Outcomes /\ SameButBuf(o.s, r.s)
        /\ o.ok => o.s.buf = r.s.buf \o b
        /\ ~o.ok => o.s.buf = r.s.buf
    BY SMTT(30), <2>1, <2>2, AppendedOne
  <2>4. o.s.sent = r.s.sent /\ o.s.state = r.s.state /\ o.s \in Streams
    BY <2>3 DEF SameButBuf, Outcomes
  <2>7. CASE o.ok
    <3>. DEFINE k == conn.keepalive
                v == r.s
                t == o.s
                e == Token("body")
    <3>1. r.s.state >= SEND_HEADER
      <4>1. r.s.state \in 0 .. 6 /\ r.s.state >= SEND_BODY
        BY <1>3, <1>5, <2>2, StreamFields
      <4>. QED  BY <4>1, StatesAre
    <3>2. /\ t.buf = v.buf \o <<e>> /\ k \in BOOLEAN /\ Told(v, wire, k)
          /\ v \in Streams /\ t \in Streams /\ v.state >= SEND_HEADER
          /\ "connection" \in t.sent <=> "connection" \in v.sent
          /\ e \in Tokens /\ e.name # "connection"
      BY <1>3, <2>1, <2>2, <2>3, <2>4, <2>7, <3>1
    <3>. HIDE DEF k, v, t, e
    <3>3. Told(t, wire, k)
      BY <3>2, ToldOne
    <3>. QED  BY <3>3 DEF k, t
  <2>8. CASE ~o.ok
    BY <2>3, <2>4, <2>8, <1>3 DEF Told
  <2>. QED  BY <2>7, <2>8
<1>. QED  BY <1>4, <1>5

(* aisl_flush adds a length, or what is missing of the head.               *)
LEMMA ToldFlush ==
    ASSUME NEW s, Legal(s), New(s), conn.keepalive \in BOOLEAN,
           Told(s, wire, conn.keepalive), wire \in Seq(Tokens), NEW o \in Flush(s)
    PROVE  Told(o.s, wire, conn.keepalive)
<1>1. s \in Streams /\ s.state \in 0 .. 6 /\ StreamOK(s, wire)
  BY StreamFields DEF Legal
<1>2. CASE IsFlushed(o.s, s)
  BY <1>1, <1>2, ToldFlushed
<1>3. ASSUME "length" \notin s.sent, s.bodyOff # 0, NEW a \in InsertLength(s),
             a.ok, IsFlushed(o.s, a.s)
      PROVE  Told(o.s, wire, conn.keepalive)
  <2>1. /\ a \in Outcomes /\ SameButBuf(a.s, s)
        /\ \E i \in 1 .. Len(s.buf) + 1 : \E n \in Int :
              a.s.buf = InsertAt(s.buf, i, Header("length", n))
    BY <1>3, InsertLengthFacts
  <2>2. PICK i \in 1 .. Len(s.buf) + 1, n \in Int :
           a.s.buf = InsertAt(s.buf, i, Header("length", n))
    BY <2>1
  <2>3. a.s \in Streams /\ a.s.sent = s.sent /\ a.s.state = s.state
    BY <2>1 DEF Outcomes, SameButBuf
  <2>4. s.state >= SEND_HEADER
    BY <1>1, <1>3, StatesAre DEF StreamOK
  <2>5. Header("length", n) \in Tokens /\ Header("length", n).name # "connection"
    BY HeaderTyped DEF Names
  <2>6. Told(a.s, wire, conn.keepalive)
    BY <1>1, <2>2, <2>3, <2>4, <2>5, ToldInserted
  <2>7. /\ o.s.buf = a.s.buf /\ o.s.sent = a.s.sent \cup {"length"}
        /\ o.s.state = DONE
    BY <1>3 DEF IsFlushed
  <2>. QED  BY <2>3, <2>4, <2>6, <2>7, StatesAre DEF Told
<1>4. ASSUME s.state <= SEND_HEADER, NEW a \in aisl_stream_close_headers(s), IsFlushed(o.s, a.s)
      PROVE  Told(o.s, wire, conn.keepalive)
  <2>1. Told(a.s, wire, conn.keepalive) /\ New(a.s)
    BY <1>4, ToldClose
  <2>2. a.s \in Streams /\ StreamOK(a.s, wire)
    BY <1>4, CloseResult DEF Result, Outcomes
  <2>. QED  BY <1>4, <2>1, <2>2, ToldFlushed
<1>5. ASSUME ~o.ok, o.s = s
      PROVE  Told(o.s, wire, conn.keepalive)
  BY <1>5
<1>. QED  BY <1>2, <1>3, <1>4, <1>5, FlushFacts

(* Nothing of the response was lost, and no Connection header formatted,   *)
(* since aisl_header_printf does not look at its value.                    *)
NoLoss == log.marks \cap {"lost", "failed", "formatted"} = {}

HonestInv == NoLoss => Told(stream, wire, conn.keepalive)

(* A Connection header that reaches the connection is the first one.       *)
LEMMA ToldHeader ==
    ASSUME Typed, StreamOK(stream, wire), New(stream),
           CallHeader \/ CallHeaderPrintf, Told(stream, wire, conn.keepalive)
    PROVE  NoLoss' => Told(stream', wire, conn'.keepalive)
<1>1. PICK h \in AppHeaders \cup Formatted, passed \in BOOLEAN : AddHeader(h, passed)
  BY DEF CallHeader, CallHeaderPrintf
<1>2. PICK r \in Outcomes, o \in Outcomes : HeaderCall(h, passed, r, o)
  BY <1>1, AddHeaderFacts
<1>3. /\ stream \in Streams /\ stream.state \in 0 .. 6 /\ Legal(stream)
      /\ conn \in Conns /\ conn.keepalive \in BOOLEAN /\ wire \in Seq(Tokens)
  BY StreamFields DEF Typed, Legal, Conns
<1>4. \A x \in Outcomes, marks \in SUBSET Marks : Marked(x, marks) /\ ~x.ok => "failed" \in log'.marks
  BY MarkedLog DEF Typed
<1>5. SUFFICES ASSUME r.ok, o.ok, h.name = "connection" => passed
               PROVE  Told(stream', wire, conn'.keepalive)
  <2>. DEFINE marks == HeaderMarks(h, passed)
  <2>1. /\ marks \in SUBSET Marks /\ {} \in SUBSET Marks
        /\ h.name = "connection" /\ ~passed => "formatted" \in marks
    BY DEF Marks, HeaderMarks
  <2>2. /\ r.ok => Marked(o, marks)
        /\ ~r.ok => Marked(o, {}) /\ ~o.ok
    BY <1>2 DEF HeaderCall, Outcomes
  <2>. HIDE DEF marks
  <2>3. ~r.ok \/ ~o.ok => "failed" \in log'.marks
    BY <2>1, <2>2, <1>2, <1>4
  <2>4. r.ok => marks \subseteq log'.marks
    BY <2>1, <2>2, MarkedLog DEF Typed
  <2>. QED  BY <2>1, <2>3, <2>4 DEF NoLoss, Outcomes
<1>. DEFINE v == r.s
            t == o.s
            k == conn.keepalive
            k2 == conn'.keepalive
            c == "connection"
<1>6. /\ v \in Streams /\ t \in Streams
      /\ v.state = SEND_HEADER /\ t.state = SEND_HEADER
      /\ t.buf = v.buf \o <<h>> /\ t.sent = v.sent \cup ({h.name} \ {"other"})
      /\ conn' = IF TellsConnection(h, passed, v) THEN [conn EXCEPT !.keepalive = (h.n = 1)]
                                                  ELSE conn
      /\ stream' = t
  BY <1>2, <1>5 DEF HeaderCall, Outcomes
<1>7. Told(v, wire, k)
  <2>1. CASE stream.state < SEND_HEADER
    <3>1. r \in Response(stream, AUTO) /\ AUTO \in Nat \cup {AUTO}
      BY <2>1, <1>2 DEF HeaderCall
    <3>2. Told(r.s, wire, conn.keepalive)
      BY <3>1, <1>3, ToldResponse
    <3>. QED  BY <3>2
  <2>2. CASE ~(stream.state < SEND_HEADER)
    <3>1. r.s = stream
      BY <2>2, <1>2 DEF HeaderCall
    <3>. QED  BY <3>1
  <2>. QED  BY <2>1, <2>2
<1>8. h \in Tokens /\ h.n \in Nat
  <2>1. h.n \in {0, 1, 2}
    BY HeaderTokens
  <2>. QED  BY <2>1, HeaderTokens
<1>9. v.state >= SEND_HEADER /\ wire \in Seq(Tokens) /\ k \in BOOLEAN
  BY <1>3, <1>6, StatesAre
<1>10. CASE h.name # c
  <2>1. conn' = conn /\ (c \in t.sent <=> c \in v.sent)
    BY <1>6, <1>10 DEF TellsConnection
  <2>2. Told(t, wire, k)
    <3>. HIDE DEF t, v, k
    <3>. QED  BY <2>1, <1>6, <1>7, <1>8, <1>9, <1>10, ToldOne
  <2>. QED  BY <2>1, <2>2, <1>6
<1>11. CASE h.name = c
  <2>1. \/ c \in v.sent /\ k2 = k
        \/ c \notin v.sent /\ (h.n = 1 <=> k2)
    <3>1. CASE c \in v.sent
      BY <3>1, <1>6, <1>11 DEF TellsConnection
    <3>2. CASE c \notin v.sent
      <4>1. conn' = [conn EXCEPT !.keepalive = (h.n = 1)]
        BY <3>2, <1>5, <1>6, <1>11 DEF TellsConnection
      <4>2. k2 <=> h.n = 1
        BY <4>1, <1>3 DEF Conns
      <4>. QED  BY <4>2, <3>2
    <3>. QED  BY <3>1, <3>2
  <2>2. k2 \in BOOLEAN
    BY <1>3, <1>6 DEF Conns
  <2>3. /\ v \in Streams /\ t \in Streams /\ wire \in Seq(Tokens) /\ k \in BOOLEAN
        /\ k2 \in BOOLEAN /\ h \in Tokens /\ h.name = "connection" /\ Told(v, wire, k)
        /\ v.state >= SEND_HEADER /\ t.buf = v.buf \o <<h>> /\ "connection" \in t.sent
        /\ \/ "connection" \in v.sent /\ k2 = k
           \/ "connection" \notin v.sent /\ (h.n = 1 <=> k2)
    BY <2>1, <2>2, <1>6, <1>7, <1>8, <1>9, <1>11
  <2>4. Told(t, wire, k2)
    <3>. HIDE DEF t, v, k, k2, c
    <3>. QED  BY <2>3, ToldConnection
  <2>. QED  BY <2>4, <1>6
<1>. QED  BY <1>10, <1>11

(* Before the response is begun a stream of which the application may know *)
(* is new.                                                                 *)
LEMMA KnownNew ==
    ASSUME ClientInv, LiveInv, Knows
    PROVE  New(stream)
<1>1. log.raised # "none" /\ log.raised # "CLOSE"
  BY DEF ClientInv, RaisedInv, Knows
<1>. QED  BY <1>1 DEF LiveInv, New

(* Every step keeps the header honest.                                     *)
LEMMA HonestStep ==
    ASSUME ClientInv, LiveInv, HonestInv, [Next]_vars
    PROVE  HonestInv'
<1>1. /\ stream \in Streams /\ stream.state \in 0 .. 6 /\ stream.buf \in Seq(Tokens)
      /\ wire \in Seq(Tokens) /\ conn.keepalive \in BOOLEAN /\ StreamOK(stream, wire)
      /\ Legal(stream) /\ Typed
  BY StreamFields DEF ClientInv, Typed, Conns, Legal
<1>2. CASE Quiet /\ QuietKeeps
  <2>1. CASE /\ wire' = wire /\ log'.marks = log.marks /\ stream'.sent = stream.sent
             /\ stream'.buf = stream.buf /\ stream'.state = stream.state
    BY <2>1, <1>2 DEF HonestInv, NoLoss, Told, QuietKeeps
  <2>2. CASE /\ wire' = wire /\ log'.marks = log.marks /\ stream.buf = <<>>
             /\ stream' = FreshStream
    <3>1. stream'.buf = stream.buf /\ stream'.state < SEND_HEADER
      BY <2>2, FreshFacts, StatesAre
    <3>. QED  BY <2>2, <3>1, <1>2, StatesAre DEF HonestInv, NoLoss, Told, QuietKeeps, FreshStream
  <2>3. CASE /\ SameButBuf(stream', stream) /\ log.marks \subseteq log'.marks
             /\ "lost" \notin log'.marks => Sofar(stream)' = Sofar(stream)
    <3>1. stream'.state = stream.state /\ stream'.sent = stream.sent
      BY <2>3 DEF SameButBuf
    <3>2. NoLoss' => NoLoss /\ wire' \o stream'.buf = wire \o stream.buf
      BY <2>3 DEF NoLoss, Sofar
    <3>. QED  BY <3>1, <3>2, <1>2 DEF HonestInv, Told, QuietKeeps
  <2>. QED  BY <1>2, <2>1, <2>2, <2>3 DEF QuietKeeps
<1>3. CASE Parse /\ ParseEffect /\ ParseKeeps
  <2>1. /\ stream'.sent = stream.sent /\ stream'.buf = stream.buf
        /\ wire = <<>> /\ wire' = <<>>
    BY <1>3 DEF ParseKeeps
  <2>2. CASE stream.state <= READY
    <3>1. stream'.state <= READY /\ stream'.buf = <<>>
      BY <2>1, <2>2, <1>1, <1>3 DEF ParseKeeps, StreamOK
    <3>2. Len(wire' \o stream'.buf) = 0
      BY <2>1, <3>1
    <3>3. Honest(wire' \o stream'.buf, conn'.keepalive)
      BY <3>2 DEF Honest
    <3>4. ~(stream'.state >= SEND_HEADER)
      <4>1. stream'.state \in 0 .. 6
        BY ClientStep, StreamFields DEF ClientInv, Typed
      <4>. QED  BY <4>1, <3>1, StatesAre
    <3>. QED  BY <3>3, <3>4 DEF HonestInv, Told
  <2>3. CASE ~(stream.state <= READY)
    <3>1. stream.state >= SEND_HEADER
      BY <2>3, <1>1, StatesAre
    <3>2. NoLoss' => NoLoss
      BY <2>3, <1>3 DEF ParseKeeps, NoLoss
    <3>3. conn'.keepalive = conn.keepalive
      BY <2>3, <1>3 DEF ParseKeeps
    <3>. QED  BY <2>1, <3>1, <3>2, <3>3 DEF HonestInv, Told
  <2>. QED  BY <2>2, <2>3
<1>4. CASE Api /\ CallEffect
  <2>1. /\ New(stream) /\ wire' = wire /\ (NoLoss' => NoLoss)
    <3>1. Knows /\ wire' = wire /\ log.marks \subseteq log'.marks
      BY <1>4 DEF CallEffect, Kept, SameLog
    <3>. QED  BY <3>1, KnownNew DEF NoLoss
  <2>2. SUFFICES ASSUME NoLoss' PROVE Told(stream', wire, conn'.keepalive)
    BY <2>1 DEF HonestInv
  <2>3. Told(stream, wire, conn.keepalive)
    BY <2>1, <2>2 DEF HonestInv
  <2>4. CASE CallResponse
    <3>1. \E c_len \in Lengths : \E o \in Response(stream, c_len) : stream' = o.s
      BY <2>4 DEF CallResponse
    <3>2. PICK c_len \in Lengths : \E o \in Response(stream, c_len) : stream' = o.s
      BY <3>1
    <3>3. c_len \in Nat \cup {AUTO}
      BY ClientAssumption
    <3>4. Told(stream', wire, conn.keepalive)
      BY <3>2, <3>3, <2>1, <2>3, <1>1, ToldResponse
    <3>. QED  BY <3>4, <2>4 DEF CallResponse
  <2>5. CASE CallHeader \/ CallHeaderPrintf
    BY <2>1, <2>2, <2>3, <2>5, <1>1, ToldHeader
  <2>6. CASE CallWrite
    <3>1. Told(stream', wire, conn.keepalive)
      BY <2>1, <2>3, <2>6, <1>1, ToldWrite DEF CallWrite
    <3>. QED  BY <3>1, <2>6 DEF CallWrite
  <2>7. CASE CallFlush
    <3>1. Told(stream', wire, conn.keepalive)
      BY <2>1, <2>3, <2>7, <1>1, ToldFlush DEF CallFlush
    <3>. QED  BY <3>1, <2>7 DEF CallFlush
  <2>8. CASE CallSetOutputEvent
    <3>1. conn' = conn /\ \E value : stream' = [stream EXCEPT !.chunked = value]
      BY <2>8 DEF CallSetOutputEvent
    <3>2. /\ stream'.state = stream.state /\ stream'.sent = stream.sent
          /\ stream'.buf = stream.buf
      BY <3>1, <1>1 DEF Streams
    <3>. QED  BY <3>1, <3>2, <2>3 DEF Told
  <2>9. CASE CallReject
    <3>1. stream' = stream /\ conn' = [conn EXCEPT !.online = FALSE]
      BY <2>9 DEF CallReject, Offline
    <3>2. conn'.keepalive = conn.keepalive
      BY <3>1 DEF ClientInv, Typed, Conns
    <3>. QED  BY <3>1, <3>2, <2>3
  <2>. QED  BY <1>4, <2>4, <2>5, <2>6, <2>7, <2>8, <2>9 DEF Api
<1>. QED  BY <1>2, <1>3, <1>4, StepContents

(* A completed response keeps the connection exactly if its first          *)
(* Connection header reads "keepalive", unless such a header was formatted *)
(* (aisl_stream_verify_header, aisl_stream_close_headers, client_output).  *)
THEOREM ConnectionTold == Spec => []KeptAsSpelled
<1>1. Init => LiveInv /\ HonestInv
  <2>. SUFFICES ASSUME Init PROVE LiveInv /\ HonestInv
    OBVIOUS
  <2>1. wire = <<>> /\ stream.buf = <<>> /\ stream.state = IDLE /\ stream.sent = {}
    BY DEF Init, FreshStream
  <2>2. Len(wire \o stream.buf) = 0
    BY <2>1
  <2>. QED  BY <2>1, <2>2, StatesAre DEF LiveInv, HonestInv, Told, Honest
<1>2. ClientInv /\ LiveInv /\ HonestInv /\ [Next]_vars => (ClientInv /\ LiveInv /\ HonestInv)'
  BY ClientStep, LiveStep, HonestStep
<1>3. ClientInv /\ HonestInv => KeptAsSpelled
  <2>. SUFFICES ASSUME ClientInv, HonestInv, NoLoss PROVE KeptAsSpelled
    BY DEF KeptAsSpelled, NoLoss
  <2>. DEFINE I == {i \in 1 .. Len(wire) : wire[i].name = "connection"}
  <2>1. Honest(wire, conn.keepalive)
    <3>1. wire \in Seq(Tokens) /\ stream.buf \in Seq(Tokens) /\ conn.keepalive \in BOOLEAN
      BY DEF ClientInv, Typed, Streams, Conns
    <3>2. Honest(wire \o stream.buf, conn.keepalive)
      BY DEF HonestInv, Told
    <3>. QED  BY <3>1, <3>2, HonestFirst
  <2>2. CASE I = {}
    <3>1. SelectInSeq(wire, LAMBDA t : t.name = "connection") = 0
      BY <2>2 DEF SelectInSeq
    <3>. QED  BY <3>1 DEF KeptAsSpelled, FirstConnection
  <2>3. CASE I # {}
    <3>1. SelectInSeq(wire, LAMBDA t : t.name = "connection") = Min(I)
      BY <2>3 DEF SelectInSeq
    <3>. DEFINE i == Min(I)
    <3>2. Len(wire) \in Nat
      BY LenProperties DEF ClientInv, Typed
    <3>3. I \in SUBSET Nat
      BY <3>2
    <3>4. i \in I /\ \A m \in I : i <= m
      BY <2>3, <3>3, LeastNumber
    <3>. HIDE DEF i
    <3>5. i \in 1 .. Len(wire) /\ wire[i].name = "connection"
          /\ \A j \in 1 .. i - 1 : wire[j].name # "connection"
      BY <3>2, <3>4
    <3>6. wire[i].n = 1 <=> conn.keepalive
      BY <3>5, <2>1 DEF Honest
    <3>. QED  BY <3>1, <3>6 DEF KeptAsSpelled, FirstConnection, i
  <2>. QED  BY <2>2, <2>3
<1>. QED  BY <1>1, <1>2, <1>3, InitInv, PTL DEF Spec
-----------------------------------------------------------------------------
(* What is written is sent in its order.                                   *)

(* What comes first of a sequence is a prefix of it.                       *)
LEMMA PrefixOf ==
    ASSUME NEW u \in Seq(Tokens), NEW v \in Seq(Tokens)
    PROVE  IsPrefix(u, u \o v)
<1>. DEFINE w == u \o v
            n == Len(u)
            a == SubSeq(u, 1, n)
            b == SubSeq(w, 1, n)
<1>1. /\ w \in Seq(Tokens) /\ Len(w) = Len(u) + Len(v)
      /\ \A i \in 1 .. Len(u) + Len(v) : w[i] = IF i <= Len(u) THEN u[i] ELSE v[i - Len(u)]
  BY ConcatProperties
<1>2. n \in Nat /\ Len(v) \in Nat
  BY LenProperties
<1>. HIDE DEF w
<1>3. n \in 0 .. Len(u) /\ n \in 0 .. Len(w) /\ n <= Len(w)
  BY <1>1, <1>2
<1>4. /\ a \in Seq(Tokens) /\ Len(a) = n /\ \A i \in 1 .. n : a[i] = u[i]
      /\ b \in Seq(Tokens) /\ Len(b) = n /\ \A i \in 1 .. n : b[i] = w[i]
  BY <1>1, <1>3, FirstFacts
<1>. HIDE DEF a, b
<1>5. \A i \in 1 .. Len(a) : a[i] = b[i]
  BY <1>1, <1>2, <1>4
<1>6. a = b
  BY <1>4, <1>5, SeqEqual
<1>. QED  BY <1>3, <1>6 DEF IsPrefix, a, b, w

(* More than more.                                                         *)
LEMMA AddsTwice ==
    ASSUME NEW s \in Streams, NEW t, NEW u, Adds(t, s), Adds(u, t)
    PROVE  Adds(u, s)
<1>1. PICK x \in Seq(Tokens) : t.buf = s.buf \o x
  BY DEF Adds
<1>2. PICK y \in Seq(Tokens) : u.buf = t.buf \o y
  BY DEF Adds
<1>3. s.buf \in Seq(Tokens)
  BY DEF Streams
<1>4. u.buf = s.buf \o (x \o y)
  <2>1. (s.buf \o x) \o y = s.buf \o (x \o y)
    BY <1>1, <1>2, <1>3, Together
  <2>. QED  BY <2>1, <1>1, <1>2
<1>5. x \o y \in Seq(Tokens)
  BY <1>1, <1>2, ConcatProperties
<1>. QED  BY <1>4, <1>5 DEF Adds

(* aisl_response writes into a buffer that is empty.                       *)
LEMMA ResponseAdds ==
    ASSUME NEW s, Legal(s), NEW c_len \in Nat \cup {AUTO}, NEW o \in Response(s, c_len)
    PROVE  Adds(o.s, s)
<1>1. s \in Streams /\ s.state \in 0 .. 6 /\ s.buf \in Seq(Tokens)
  BY StreamFields DEF Legal
<1>2. /\ s.state > READY => o.s = s
      /\ s.state <= READY => o.s.buf = <<Token("status")>> \/ o.s.buf = <<>>
  BY <1>1, ResponseFacts, ZenonT(40)
<1>3. CASE s.state > READY
  BY <1>1, <1>2, <1>3, AddsNothing
<1>4. CASE s.state <= READY
  <2>1. s.buf = <<>>
    BY <1>4 DEF Legal, StreamOK
  <2>2. CASE o.s.buf = <<>>
    BY <2>1, <2>2, <1>1, AddsNothing
  <2>3. CASE o.s.buf = <<Token("status")>>
    <3>1. Token("status") \in Tokens
      BY TokenTyped DEF TokenNames
    <3>. DEFINE b == <<Token("status")>>
    <3>2. b \in Seq(Tokens)
      BY <3>1
    <3>. HIDE DEF b
    <3>3. <<>> \o b = b
      BY <3>2, ConcatEmptySeq
    <3>4. o.s.buf = s.buf \o b
      BY <3>3, <2>1, <2>3 DEF b
    <3>. QED  BY <3>2, <3>4 DEF Adds
  <2>. QED  BY <2>2, <2>3, <1>2, <1>4
<1>. QED  BY <1>1, <1>3, <1>4, StatesAre

(* So does what closes the headers.                                        *)
LEMMA CloseAdds ==
    ASSUME NEW s, Legal(s), conn.keepalive \in BOOLEAN,
           NEW o \in aisl_stream_close_headers(s)
    PROVE  Adds(o.s, s)
<1>1. s \in Streams
  BY DEF Legal
<1>2. PICK r \in Response(s, AUTO) : r \in Outcomes /\ IF r.ok THEN Closed(r, o) ELSE o = r
  BY <1>1, CloseFacts
<1>3. AUTO \in Nat \cup {AUTO}
  OBVIOUS
<1>4. Adds(r.s, s)
  BY <1>3, ResponseAdds
<1>5. CASE ~r.ok
  BY <1>2, <1>4, <1>5
<1>6. CASE r.ok
  <2>1. Closed(r, o)
    BY <1>2, <1>6
  <2>2. Adds(o.s, r.s)
    BY <2>1 DEF Closed, Adds
  <2>. QED  BY <2>2, <1>1, <1>4, AddsTwice
<1>. QED  BY <1>5, <1>6

(* An append of one token adds it, or nothing.                             *)
LEMMA AppendedAdds ==
    ASSUME NEW s \in Streams, NEW e \in Tokens, NEW o \in Appended(s, <<e>>)
    PROVE  Adds(o.s, s)
<1>1. /\ o \in Outcomes /\ SameButBuf(o.s, s)
      /\ o.ok => o.s.buf = s.buf \o <<e>>
      /\ ~o.ok => OutOfMemory /\ o.s.buf = s.buf
  BY AppendedOne
<1>2. CASE o.ok
  <2>1. o.s.buf = s.buf \o <<e>>
    BY <1>1, <1>2, Zenon
  <2>. QED  BY <2>1, AddsOne
<1>3. CASE ~o.ok
  <2>1. o.s.buf = s.buf
    BY <1>1, <1>3, Zenon
  <2>. QED  BY <2>1, AddsNothing
<1>. QED  BY <1>2, <1>3, Zenon

(* So do aisl_write, aisl_printf and aisl_puts.                            *)
LEMMA WriteAdds ==
    ASSUME NEW s, Legal(s), s.state \in 0 .. 6, conn.keepalive \in BOOLEAN, NEW o \in Write(s)
    PROVE  Adds(o.s, s)
<1>1. s \in Streams
  BY DEF Legal
<1>2. PICK r \in IF s.state < SEND_BODY THEN aisl_stream_close_headers(s)
                                        ELSE {[ok |-> TRUE, s |-> s]} :
         o \in IF r.ok THEN Appended(r.s, <<Token("body")>>) ELSE {r}
  BY DEF Write
<1>3. Adds(r.s, s) /\ r.s \in Streams
  <2>1. CASE s.state < SEND_BODY
    <3>1. s.state <= SEND_HEADER /\ r \in aisl_stream_close_headers(s)
      BY <2>1, <1>2, StatesAre
    <3>2. r \in Outcomes
      BY <3>1, CloseResult DEF Result
    <3>. QED  BY <3>1, <3>2, CloseAdds DEF Outcomes
  <2>2. CASE ~(s.state < SEND_BODY)
    <3>1. r.s = s
      BY <2>2, <1>2
    <3>. QED  BY <3>1, <1>1, AddsNothing
  <2>. QED  BY <2>1, <2>2
<1>4. CASE ~r.ok
  BY <1>2, <1>3, <1>4
<1>5. CASE r.ok
  <2>1. o \in Appended(r.s, <<Token("body")>>)
    BY <1>2, <1>5
  <2>2. Token("body") \in Tokens
    BY TokenTyped DEF TokenNames
  <2>. DEFINE b == Token("body")
  <2>3. b \in Tokens /\ o \in Appended(r.s, <<b>>)
    BY <2>1, <2>2
  <2>. HIDE DEF b
  <2>4. Adds(o.s, r.s)
    BY <2>3, <1>3, AppendedAdds
  <2>. QED  BY <2>4, <1>1, <1>3, AddsTwice
<1>. QED  BY <1>4, <1>5

(* A stream with one Content-Length more in its buffer.                    *)
Lengthened(t, s) ==
    \E i \in 1 .. Len(s.buf) + 1, n \in Int :
        t.buf = InsertAt(s.buf, i, Header("length", n))

(* aisl_flush adds what is missing of the head, or puts a length in.       *)
LEMMA FlushAdds ==
    ASSUME NEW s, Legal(s), conn.keepalive \in BOOLEAN, NEW o \in Flush(s)
    PROVE  Adds(o.s, s) \/ Lengthened(o.s, s)
<1>1. s \in Streams
  BY DEF Legal
<1>2. CASE IsFlushed(o.s, s)
  BY <1>1, <1>2, AddsNothing DEF IsFlushed
<1>3. ASSUME s.bodyOff # 0, NEW a \in InsertLength(s), a.ok, IsFlushed(o.s, a.s)
      PROVE  Lengthened(o.s, s)
  <2>1. \E i \in 1 .. Len(s.buf) + 1 : \E n \in Int :
           a.s.buf = InsertAt(s.buf, i, Header("length", n))
    BY <1>3, InsertLengthFacts
  <2>2. o.s.buf = a.s.buf
    BY <1>3 DEF IsFlushed
  <2>. QED  BY <2>1, <2>2 DEF Lengthened
<1>4. ASSUME NEW a \in aisl_stream_close_headers(s), IsFlushed(o.s, a.s)
      PROVE  Adds(o.s, s)
  <2>1. Adds(a.s, s) /\ o.s.buf = a.s.buf
    BY <1>4, CloseAdds DEF IsFlushed
  <2>. QED  BY <2>1 DEF Adds
<1>5. ASSUME o.s = s
      PROVE  Adds(o.s, s)
  BY <1>1, <1>5, AddsNothing
<1>. QED  BY <1>2, <1>3, <1>4, <1>5, FlushFacts

(* Whatever is called, nothing that was written goes.                      *)
LEMMA CallAdds ==
    ASSUME ClientInv, Api
    PROVE  Adds(stream', stream) \/ Lengthened(stream', stream)
<1>1. /\ stream \in Streams /\ stream.state \in 0 .. 6 /\ stream.buf \in Seq(Tokens)
      /\ conn.keepalive \in BOOLEAN /\ StreamOK(stream, wire) /\ Legal(stream) /\ Typed
  BY StreamFields DEF ClientInv, Typed, Conns, Legal
<1>2. CASE CallResponse
  <2>1. PICK c_len \in Lengths : \E o \in Response(stream, c_len) : stream' = o.s
    BY <1>2 DEF CallResponse
  <2>2. c_len \in Nat \cup {AUTO}
    BY ClientAssumption
  <2>. QED  BY <2>1, <2>2, <1>1, ResponseAdds
<1>3. CASE CallHeader \/ CallHeaderPrintf
  <2>1. PICK h \in AppHeaders \cup Formatted, passed \in BOOLEAN : AddHeader(h, passed)
    BY <1>3 DEF CallHeader, CallHeaderPrintf
  <2>2. PICK r \in Outcomes, o \in Outcomes : HeaderCall(h, passed, r, o)
    BY <2>1, <1>1, AddHeaderFacts
  <2>3. /\ stream' = o.s /\ (r.ok => Adds(o.s, r.s)) /\ (~r.ok => o = r)
        /\ stream.state < SEND_HEADER => r \in Response(stream, AUTO)
        /\ ~(stream.state < SEND_HEADER) => r.s = stream
    BY <2>2 DEF HeaderCall, Outcomes
  <2>4. Adds(r.s, stream)
    <3>1. AUTO \in Nat \cup {AUTO}
      OBVIOUS
    <3>2. CASE stream.state < SEND_HEADER
      BY <3>1, <3>2, <2>3, <1>1, ResponseAdds
    <3>3. CASE ~(stream.state < SEND_HEADER)
      BY <3>3, <2>3, <1>1, AddsNothing
    <3>. QED  BY <3>2, <3>3
  <2>5. CASE r.ok
    BY <2>3, <2>4, <2>5, <1>1, AddsTwice
  <2>6. CASE ~r.ok
    BY <2>3, <2>4, <2>6
  <2>. QED  BY <2>5, <2>6
<1>4. CASE CallWrite
  <2>1. PICK o \in Write(stream) : stream' = o.s
    BY <1>4 DEF CallWrite
  <2>. QED  BY <2>1, <1>1, WriteAdds
<1>5. CASE CallFlush
  <2>1. PICK o \in Flush(stream) : stream' = o.s
    BY <1>5 DEF CallFlush
  <2>. QED  BY <2>1, <1>1, FlushAdds
<1>6. CASE CallSetOutputEvent
  <2>1. \E value : stream' = [stream EXCEPT !.chunked = value]
    BY <1>6 DEF CallSetOutputEvent
  <2>2. stream'.buf = stream.buf
    BY <2>1, <1>1 DEF Streams
  <2>. QED  BY <2>2, <1>1, AddsNothing
<1>7. CASE CallReject
  <2>1. stream' = stream
    BY <1>7 DEF CallReject
  <2>. QED  BY <2>1, <1>1, AddsNothing
<1>. QED  BY <1>2, <1>3, <1>4, <1>5, <1>6, <1>7 DEF Api

(* So the response grows.                                                  *)
LEMMA CallGrows ==
    ASSUME ClientInv, Api
    PROVE  Grown(Sofar(stream), Sofar(stream)') /\ wire' = wire
<1>1. /\ wire \in Seq(Tokens) /\ stream.buf \in Seq(Tokens) /\ wire' = wire
  BY ApiEffect DEF ClientInv, Typed, Streams, CallEffect, Kept
<1>. DEFINE u == wire \o stream.buf
            x == wire \o stream'.buf
<1>2. u \in Seq(Tokens)
  BY <1>1, ConcatProperties
<1>3. CASE Adds(stream', stream)
  <2>1. PICK added \in Seq(Tokens) : stream'.buf = stream.buf \o added
    BY <1>3 DEF Adds
  <2>2. (wire \o stream.buf) \o added = wire \o (stream.buf \o added)
    BY <2>1, <1>1, Together
  <2>3. x = u \o added
    BY <2>1, <2>2
  <2>. HIDE DEF u, x
  <2>4. IsPrefix(u, x)
    BY <2>1, <2>3, <1>2, PrefixOf
  <2>. QED  BY <2>4, <1>1 DEF Grown, Sofar, u, x
<1>4. CASE Lengthened(stream', stream)
  <2>1. PICK i \in 1 .. Len(stream.buf) + 1, n \in Int :
           stream'.buf = InsertAt(stream.buf, i, Header("length", n))
    BY <1>4 DEF Lengthened
  <2>. DEFINE e == Header("length", n)
              m == Len(wire) + i
  <2>2. e \in Tokens /\ e.name = "length"
    BY HeaderTyped DEF Names
  <2>. HIDE DEF e
  <2>3. x = InsertAt(u, m, e) /\ m \in 1 .. Len(u) + 1
    BY <2>1, <2>2, <1>1, InsertedSofar, ZenonT(40) DEF e
  <2>. HIDE DEF u, x, m
  <2>4. Inserted(x, u, m, e)
    BY <2>2, <2>3, <1>2, InsertedIs
  <2>5. Len(u) \in Nat
    BY <1>2, LenProperties
  <2>6. m \in DOMAIN x /\ x[m] = e
    <3>1. x \in Seq(Tokens) /\ m \in 1 .. Len(x) /\ x[m] = e
      BY <2>3, <2>4, <2>5 DEF Inserted
    <3>2. DOMAIN x = 1 .. Len(x)
      BY <3>1, LenProperties
    <3>. QED  BY <3>1, <3>2
  <2>7. Grown(u, x)
    BY <2>2, <2>3, <2>6 DEF Grown
  <2>. QED  BY <2>7, <1>1 DEF Sofar, u, x
<1>. QED  BY <1>1, <1>3, <1>4, CallAdds

(* While a connection writes, what was sent stays and what was written is  *)
(* sent in its order, unless the buffer drops the rest, and no stream is   *)
(* replaced before it was flushed and nothing of its response remains      *)
(* (client_output, aisl_stream_shift, aisl_stream_is_done, aisl_flush).    *)
THEOREM FlushedThenCompleted == Spec => OnlyFlushedCompletes
<1>. DEFINE Good == conn.canWrite =>
               /\ IsPrefix(wire, wire')
               /\ "lost" \in log'.marks \/ Grown(Sofar(stream), Sofar(stream)')
               /\ stream'.state < stream.state =>
                     stream.state = DONE /\ stream.buf = <<>> /\ log.complete
<1>1. ASSUME ClientInv, [Next]_vars, conn.canWrite
      PROVE  IsPrefix(wire, wire') /\ ("lost" \in log'.marks \/ Grown(Sofar(stream), Sofar(stream)'))
  <2>1. /\ wire \in Seq(Tokens) /\ stream.buf \in Seq(Tokens) /\ Sofar(stream) \in Seq(Tokens)
        /\ <<>> \in Seq(Tokens)
    BY <1>1, ConcatProperties, EmptySeq DEF ClientInv, Typed, Streams, Sofar
  <2>2. \A u \in Seq(Tokens) : IsPrefix(u, u)
    <3>1. ASSUME NEW u \in Seq(Tokens) PROVE IsPrefix(u, u)
      <4>1. u \o <<>> = u
        BY ConcatEmptySeq
      <4>2. IsPrefix(u, u \o <<>>)
        BY <2>1, PrefixOf
      <4>. QED  BY <4>1, <4>2
    <3>. QED  BY <3>1
  <2>3. Grown(Sofar(stream), Sofar(stream))
    BY <2>1, <2>2 DEF Grown
  <2>4. CASE Quiet /\ QuietKeeps
    <3>1. CASE wire' = wire /\ stream'.buf = stream.buf
      <4>1. Sofar(stream)' = Sofar(stream)
        BY <3>1 DEF Sofar
      <4>. QED  BY <3>1, <4>1, <2>1, <2>2, <2>3
    <3>2. CASE /\ \E u \in Seq(Tokens) : wire' = wire \o u
               /\ "lost" \notin log'.marks => Sofar(stream)' = Sofar(stream)
      BY <3>2, <2>1, <2>3, PrefixOf
    <3>3. CASE wire' = wire /\ stream' = stream
      BY <3>1, <3>3
    <3>4. CASE wire' = wire /\ stream.buf = <<>> /\ stream' = FreshStream
      <4>1. stream'.buf = stream.buf
        BY <3>4, FreshFacts
      <4>. QED  BY <3>1, <3>4, <4>1
    <3>. QED  BY <2>4, <3>2, <3>3, <3>4 DEF QuietKeeps
  <2>5. CASE Parse
    BY <2>5, <1>1, ParseReads DEF ClientInv, ControlInv
  <2>6. CASE Api
    <3>1. Grown(Sofar(stream), Sofar(stream)') /\ wire' = wire
      BY <2>6, <1>1, CallGrows
    <3>. QED  BY <3>1, <2>1, <2>2
  <2>. QED  BY <2>4, <2>5, <2>6, <1>1, StepContents
<1>2. ClientInv /\ [Next]_vars => [Good]_vars
  BY <1>1, ReplacedWhenDone
<1>. QED  BY <1>2, ClientInvariant, PTL DEF Spec, OnlyFlushedCompletes
=============================================================================
