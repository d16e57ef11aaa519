------------------------------- MODULE Client -------------------------------
(***************************************************************************)
(* One connection: what aisl_client_touch does with a client, from the     *)
(* bytes received to the response sent (src/src/client.c), its stream and  *)
(* the calls of the application on it (stream.c), and the control of the   *)
(* request parser (http.c).                                                *)
(*                                                                         *)
(* A touch is one call, but handlers run inside it: the thread stops at    *)
(* "callback" and the application may call the library before it goes on.  *)
(* It may also call between two touches, at "app".                         *)
(*                                                                         *)
(* Input is a sequence of units.  A unit is the end of a line, named by    *)
(* what the whole line says, or a fragment of a line; "bad" is also what   *)
(* shows before its end that a line is malformed.  As part of a request    *)
(* body each unit counts as one byte.  Output is a sequence of tokens: a   *)
(* status line, a header, the blank line, a piece of the body.             *)
(***************************************************************************)
EXTENDS Integers, Sequences, FiniteSets, SequencesExt

CONSTANTS
    PeerUnits,    \* the units that the peer sends
    Lengths,      \* the lengths the application gives to aisl_response
    InSize,       \* client->in.size, in units
    MaxRecv,      \* bound: the units one recv returns
    AppHeaders,   \* the headers that the application passes to aisl_header
    Formatted,    \* those that it passes to aisl_header_printf
    MaxOut,       \* bound: the headers, and the pieces of body, it adds
    Timeout,      \* client_silence_timeout, in clock ticks
    Calls,        \* the stream functions that the application uses
    EarlyAnswer,  \* whether it may answer before STREAM_REQUEST
    OutOfMemory   \* whether allocations may fail

AUTO == -1    \* AISL_AUTO_LENGTH, all ones as an unsigned number
WRONG == -2   \* a Content-Length that counts something else than the body

ApiCalls == {"response", "header", "header_printf", "write", "flush",
             "set_output_event", "reject"}

RequestLines == {"request", "request2"}  \* HTTP/0.9 to 1.1, HTTP/2.0
HeaderLines  == {"length", "close", "alive", "header"}
Line(k) == [kind |-> k, n |-> 0]
Length(n) == [kind |-> "length", n |-> n]
HeaderNames == {"connection", "type", "length", "other"}
Header(name, n) == [name |-> name, n |-> n]
(* Values of a Connection header: 0 is "close", 1 is "keepalive", as the   *)
(* code spells it, 2 is "keep-alive", which the code takes for a close.    *)
IsUnit(u) == /\ u.kind \in RequestLines \cup HeaderLines \cup {"fragment", "end", "bad"}
             /\ u.n \in Nat \cup {AUTO}

ASSUME ClientAssumption ==
    /\ \A u \in PeerUnits : IsUnit(u)
    /\ Lengths \subseteq Nat \cup {AUTO}
    /\ AppHeaders \cup Formatted \subseteq [name : HeaderNames, n : {0, 1, 2}]
    /\ InSize \in Nat \ {0} /\ MaxRecv \in Nat \ {0} /\ MaxOut \in Nat
    /\ Timeout \in Nat
    /\ Calls \subseteq ApiCalls
    /\ EarlyAnswer \in BOOLEAN /\ OutOfMemory \in BOOLEAN

(* Stream states, in the order in which the code compares them.            *)
IDLE == 0
WAIT_HEADER == 1
WAIT_BODY == 2
READY == 3
SEND_HEADER == 4
SEND_BODY == 5
DONE == 6
States == IDLE .. DONE

VARIABLES
    conn,    \* the client: input buffer, flags and descriptor
    stream,  \* its stream, and the stream's output buffer
    pc,      \* where the thread is
    ret,     \* where it goes when the callback returns
    p,       \* parser status
    parsed,  \* units of conn.in parsed by this aisl_client_parse
    result,  \* result of this touch so far
    wire,    \* the tokens of the last response that were sent
    log      \* history, see FreshLog

vars == <<conn, stream, pc, ret, p, parsed, result, wire, log>>

FreshStream ==
    [state |-> IDLE, clen |-> 0, chunked |-> FALSE,
     sent |-> {},      \* the headers that need not be added any more
     buf |-> <<>>, bodyOff |-> 0]

(* raised: the last event of the stream.  declared, got: the body length   *)
(* that the peer announced, and the body handed to the application.        *)
(* complete: the response was sent to its end.  marks: what happened to    *)
(* the response that its contents depend on.                               *)
FreshLog ==
    [raised |-> "none", declared |-> 0, got |-> 0, complete |-> FALSE, marks |-> {}]

Init ==
    /\ conn = [in |-> <<>>, torn |-> FALSE, online |-> TRUE, canRead |-> TRUE,
               canWrite |-> FALSE, keepalive |-> TRUE, http2 |-> FALSE, silence |-> 0]
    /\ stream = FreshStream
    /\ pc = "app" /\ ret = "app"
    /\ p = "success" /\ parsed = 0
    /\ result = "idle"
    /\ wire = <<>>
    /\ log = FreshLog

-----------------------------------------------------------------------------
(* Helpers.                                                                *)

Count(w, name) == Cardinality({i \in DOMAIN w : w[i].name = name})

Drop(s, k) == SubSeq(s, k + 1, Len(s))

(* buffer_shift by k of the units or tokens in s.  Which of the two parts  *)
(* is longer depends on their bytes: the rest is kept or dropped.          *)
Shifted(s, k) ==
    IF k = 0 THEN {s} ELSE {Drop(s, k), <<>>}

Raise(e, then) ==
    /\ pc' = "callback"
    /\ ret' = then
    /\ log' = [log EXCEPT !.raised = e]

Offline(c) == [c EXCEPT !.online = FALSE]

-----------------------------------------------------------------------------
(* aisl_client_touch: input.                                               *)

Touch ==
    /\ pc = "app"
    /\ pc' = "input"
    /\ UNCHANGED <<conn, stream, ret, p, parsed, result, wire, log>>

InputSkipped ==
    /\ pc = "input"
    /\ ~conn.canRead
    /\ pc' = "output"
    /\ UNCHANGED <<conn, stream, ret, p, parsed, result, wire, log>>

AtInput == pc = "input" /\ conn.canRead

(* Mutant of Free: the space that is used is forgotten.                    *)
Free_all == InSize

Free == InSize - Len(conn.in)

(* Something is received; what came before is still in the buffer.  After  *)
(* an HTTP/2.0 request line nothing is parsed any more.                    *)
InputReceived ==
    /\ AtInput /\ conn.online
    /\ \E k \in 1 .. MaxRecv :
          /\ k <= Free
          /\ \E units \in [1 .. k -> PeerUnits] : conn' = [conn EXCEPT !.in = @ \o units]
    /\ p' = "success" /\ parsed' = 0
    /\ result' = "success"
    /\ pc' = IF conn.http2 THEN "output" ELSE "parse"
    /\ UNCHANGED <<stream, ret, wire, log>>

InputBlocked ==
    /\ AtInput /\ conn.online
    /\ pc' = "output"
    /\ UNCHANGED <<conn, stream, ret, p, parsed, result, wire, log>>

(* The peer left, recv failed, or it was asked for no bytes because the    *)
(* buffer is full; a descriptor that is closed already fails always.       *)
InputFailed ==
    /\ AtInput
    /\ conn' = Offline(conn)
    /\ pc' = "reap"
    /\ UNCHANGED <<stream, ret, p, parsed, result, wire, log>>

-----------------------------------------------------------------------------
(* aisl_client_parse.                                                      *)

Rest == Drop(conn.in, parsed)

(* Position in Rest of the unit that ends the first line; 0 if none does.  *)
LineEnd == SelectInSeq(Rest, LAMBDA u : u.kind # "fragment")

AtParse(states) == pc = "parse" /\ p = "success" /\ stream.state \in states

(* How the first line reads.  If an earlier part of it was dropped from    *)
(* the buffer, it may read as another header, or be malformed.             *)
FirstLine ==
    LET u == Rest[LineEnd] IN
    IF conn.torn THEN {u, Line("header"), Line("bad")} ELSE {u}

AtLine(states) == AtParse(states) /\ LineEnd # 0

ParseRequestLine ==
    /\ AtLine({IDLE})
    /\ \E u \in FirstLine :
          /\ u.kind \in RequestLines
          /\ conn' = [conn EXCEPT !.http2 = (u.kind = "request2"), !.torn = FALSE]
    /\ stream' = [stream EXCEPT !.state = WAIT_HEADER]
    /\ parsed' = parsed + LineEnd
    /\ pc' = "callback" /\ ret' = "parse"
    /\ log' = [FreshLog EXCEPT !.raised = "OPEN"]
    /\ wire' = <<>>
    /\ UNCHANGED <<p, result>>

ParseHeaderLine ==
    /\ AtLine({WAIT_HEADER})
    /\ \E u \in FirstLine :
          /\ u.kind \in HeaderLines
          /\ conn' = [conn EXCEPT !.torn = FALSE,
                        !.keepalive = CASE u.kind = "close" -> FALSE
                                        [] u.kind = "alive" -> TRUE
                                        [] OTHER -> @]
          /\ stream' = IF u.kind = "length" THEN [stream EXCEPT !.clen = u.n] ELSE stream
    /\ parsed' = parsed + LineEnd
    /\ pc' = "callback" /\ ret' = "parse"
    /\ log' = [log EXCEPT !.raised = "HEADER",
                 !.declared = IF Rest[LineEnd].kind = "length" THEN Rest[LineEnd].n ELSE @]
    /\ UNCHANGED <<p, result, wire>>

ParseEndOfHeaders ==
    /\ AtLine({WAIT_HEADER})
    /\ \E u \in FirstLine : u.kind = "end"
    /\ conn' = [conn EXCEPT !.torn = FALSE]
    /\ stream' = [stream EXCEPT !.state = IF stream.clen = 0 THEN READY ELSE WAIT_BODY]
    /\ p' = IF stream.clen = 0 THEN "ready" ELSE "success"
    /\ parsed' = parsed + LineEnd
    /\ UNCHANGED <<pc, ret, result, wire, log>>

(* A line that does not fit, or is malformed.                              *)
ParseBadLine ==
    /\ AtLine({IDLE, WAIT_HEADER})
    /\ \E u \in FirstLine :
          u.kind \notin (IF stream.state = IDLE THEN RequestLines ELSE HeaderLines \cup {"end"})
    /\ p' = "error"
    /\ UNCHANGED <<conn, stream, pc, ret, parsed, result, wire, log>>

(* Mutant of BodyFits: an empty piece is taken too.                        *)
BodyFits_empty(n) == n >= 0 /\ (stream.clen = AUTO \/ n <= stream.clen)

(* A piece of n units is not more than what is missing of the body.        *)
BodyFits(n) == n > 0 /\ (stream.clen = AUTO \/ n <= stream.clen)

(* Mutant of BodyLeft: the first piece is taken for the whole.             *)
BodyLeft_none(n) == 0

(* What is missing of the body after it.                                   *)
BodyLeft(n) == IF stream.clen = AUTO THEN AUTO ELSE stream.clen - n

(* All that is left is taken for the body.  A length that strtoll reads as *)
(* -1 is AISL_AUTO_LENGTH: such a body has no end, and is not counted.     *)
ParseBody ==
    /\ AtParse({WAIT_BODY})
    /\ LET n == Len(Rest)
           left == BodyLeft(n) IN
          /\ BodyFits(n)
          /\ stream' = [stream EXCEPT !.clen = left,
                                      !.state = IF left = 0 THEN READY ELSE @]
          /\ p' = IF left = 0 THEN "ready" ELSE "success"
          /\ pc' = "callback" /\ ret' = "parse"
          /\ log' = [log EXCEPT !.raised = "INPUT", !.got = IF stream.clen = AUTO THEN @ ELSE @ + n]
    /\ parsed' = Len(conn.in)
    /\ UNCHANGED <<conn, result, wire>>

(* More than the announced body.                                           *)
ParseBodyTooLong ==
    /\ AtParse({WAIT_BODY})
    /\ stream.clen # AUTO /\ Len(Rest) > stream.clen
    /\ p' = "error"
    /\ UNCHANGED <<conn, stream, pc, ret, parsed, result, wire, log>>

ParseHungry ==
    /\ \/ AtParse({IDLE, WAIT_HEADER}) /\ LineEnd = 0
       \/ AtParse({WAIT_BODY}) /\ Rest = <<>>
    /\ p' = "hungry"
    /\ UNCHANGED <<conn, stream, pc, ret, parsed, result, wire, log>>

(* The application has begun its answer in a handler: "misleading request  *)
(* length", whether or not anything is left to parse.                      *)
ParseAnswered ==
    /\ AtParse(States \ {IDLE, WAIT_HEADER, WAIT_BODY})
    /\ p' = "error"
    /\ UNCHANGED <<conn, stream, pc, ret, parsed, result, wire, log>>

(* The parsed units are removed from the input buffer; the rest, the start *)
(* of a line, may go with them.                                            *)
ShiftInput(c, event) ==
    \E in \in Shifted(conn.in, parsed) :
        LET torn == in = <<>> /\ Rest # <<>> IN
        /\ conn' = [c EXCEPT !.in = in, !.torn = @ \/ torn]
        /\ log' = [log EXCEPT !.raised = event,
                              !.marks = IF torn THEN @ \cup {"torn"} ELSE @]

ParseWaits ==
    /\ pc = "parse" /\ p = "hungry"
    /\ ShiftInput(conn, log.raised)
    /\ pc' = "output"
    /\ p' = "success" /\ parsed' = 0
    /\ UNCHANGED <<stream, ret, result, wire>>

(* Mutant of ParseReady: reading goes on.                                  *)
ParseReady_reading ==
    /\ pc = "parse" /\ p = "ready"
    /\ ShiftInput([conn EXCEPT !.canWrite = TRUE], "REQUEST")
    /\ stream' = [stream EXCEPT !.clen = AUTO]
    /\ pc' = "callback" /\ ret' = "output"
    /\ p' = "success" /\ parsed' = 0
    /\ UNCHANGED <<result, wire>>

(* The request is complete: reading ends and writing begins.               *)
ParseReady ==
    /\ pc = "parse" /\ p = "ready"
    /\ ShiftInput([conn EXCEPT !.canRead = FALSE, !.canWrite = TRUE], "REQUEST")
    /\ stream' = [stream EXCEPT !.clen = AUTO]
    /\ pc' = "callback" /\ ret' = "output"
    /\ p' = "success" /\ parsed' = 0
    /\ UNCHANGED <<result, wire>>

ParseError ==
    /\ pc = "parse" /\ p = "error"
    /\ Raise("ERROR", "fail")
    /\ UNCHANGED <<conn, stream, p, parsed, result, wire>>

ParseFail ==
    /\ pc = "fail"
    /\ conn' = Offline(conn)
    /\ pc' = "output"
    /\ p' = "success" /\ parsed' = 0
    /\ UNCHANGED <<stream, ret, result, wire, log>>

Parse == \/ ParseRequestLine \/ ParseHeaderLine \/ ParseEndOfHeaders \/ ParseBadLine
         \/ ParseBody \/ ParseBodyTooLong \/ ParseHungry \/ ParseAnswered
         \/ ParseWaits \/ ParseReady \/ ParseError \/ ParseFail

-----------------------------------------------------------------------------
(* aisl_client_touch: output and timeout.                                  *)

OutputSkipped ==
    /\ pc = "output"
    /\ ~conn.canWrite
    /\ pc' = "timer"
    /\ UNCHANGED <<conn, stream, ret, p, parsed, result, wire, log>>

(* STREAM_OUTPUT is raised if asked for, while at least half of the buffer *)
(* is free: always so when it is empty.                                    *)
OutputEvent ==
    /\ pc = "output" /\ conn.canWrite
    /\ stream.chunked
    /\ Raise("OUTPUT", "send")
    /\ UNCHANGED <<conn, stream, p, parsed, result, wire>>

OutputNoEvent ==
    /\ pc = "output" /\ conn.canWrite
    /\ ~stream.chunked \/ stream.buf # <<>>
    /\ pc' = "send"
    /\ UNCHANGED <<conn, stream, ret, p, parsed, result, wire, log>>

SendNothing ==
    /\ pc = "send"
    /\ stream.buf = <<>>
    /\ pc' = "timer"
    /\ UNCHANGED <<conn, stream, ret, p, parsed, result, wire, log>>

(* Mutant of aisl_stream_is_done: the state before the last is looked for. *)
is_done_in_body(s) == s.buf = <<>> /\ s.state = SEND_BODY

aisl_stream_is_done(s) == s.buf = <<>> /\ s.state = DONE

(* Mutant of aisl_stream_shift: one more than was sent.                    *)
aisl_stream_shift_more(s, k) == {[s EXCEPT !.buf = Drop(@, k + 1)]}

aisl_stream_shift(s, k) == {[s EXCEPT !.buf = buf] : buf \in Shifted(s.buf, k)}

(* The peer takes k tokens; what remains is moved to the front, or lost.   *)
SendSome ==
    /\ pc = "send" /\ conn.online
    /\ \E k \in 1 .. Len(stream.buf) : \E s \in aisl_stream_shift(stream, k) :
          /\ wire' = wire \o SubSeq(stream.buf, 1, k)
          /\ stream' = s
          /\ pc' = IF aisl_stream_is_done(s) THEN "finish" ELSE "timer"
          /\ log' = [log EXCEPT
                       !.complete = aisl_stream_is_done(s),
                       !.marks = IF s.buf = <<>> /\ k < Len(stream.buf)
                                 THEN @ \cup {"lost"} ELSE @]
    /\ result' = "success"
    /\ UNCHANGED <<conn, ret, p, parsed>>

SendBlocked ==
    /\ pc = "send" /\ conn.online
    /\ stream.buf # <<>>
    /\ pc' = "timer"
    /\ UNCHANGED <<conn, stream, ret, p, parsed, result, wire, log>>

SendFailed ==
    /\ pc = "send"
    /\ stream.buf # <<>>
    /\ conn' = Offline(conn)
    /\ pc' = "reap"
    /\ UNCHANGED <<stream, ret, p, parsed, result, wire, log>>

(* The response is sent and the connection kept: the stream is closed, the *)
(* handler of STREAM_CLOSE may still disconnect, and a new stream is made. *)
FinishKeep ==
    /\ pc = "finish" /\ conn.keepalive
    /\ \E dropped \in BOOLEAN :
          conn' = [conn EXCEPT !.online = @ /\ ~dropped]
    /\ stream' = FreshStream
    /\ log' = [log EXCEPT !.raised = "none"]
    /\ pc' = "timer"
    /\ UNCHANGED <<ret, p, parsed, result, wire>>

(* The new stream cannot be made: the connection is closed after all, and  *)
(* the client has no stream.                                               *)
FinishNoStream ==
    /\ pc = "finish" /\ conn.keepalive
    /\ OutOfMemory
    /\ conn' = Offline(conn)
    /\ stream' = FreshStream
    /\ log' = [log EXCEPT !.raised = "CLOSE"]
    /\ pc' = "timer"
    /\ UNCHANGED <<ret, p, parsed, result, wire>>

FinishClose ==
    /\ pc = "finish" /\ ~conn.keepalive
    /\ conn' = Offline(conn)
    /\ pc' = "timer"
    /\ UNCHANGED <<stream, ret, p, parsed, result, wire, log>>

(* Mutant of Left: a client that is down is kept.                          *)
Left_kept(c) == "app"

(* The timestamp is renewed if anything was done in this touch; otherwise  *)
(* the client is closed once it was silent for the timeout.  A client that *)
(* is offline is reaped by the loop.                                       *)
Left(c) == IF c.online THEN "app" ELSE "reap"

Leave(c) ==
    /\ conn' = c
    /\ pc' = Left(c)
    /\ result' = "idle"
    /\ UNCHANGED <<stream, ret, p, parsed, wire, log>>

TimerHeard   == pc = "timer" /\ result = "success" /\ Leave([conn EXCEPT !.silence = 0])

(* Mutant of Silent: never.                                                *)
Silent_never == conn.silence > Timeout

Silent == conn.silence >= Timeout

TimerWaits   == pc = "timer" /\ result = "idle" /\ ~Silent /\ Leave(conn)

TimerExpires == pc = "timer" /\ result = "idle" /\ Silent /\ Leave(Offline(conn))

(* aisl_client_free, by the loop: the stream, if there is one, is closed.  *)
Reap ==
    /\ pc = "reap"
    /\ log' = [log EXCEPT !.raised = "CLOSE"]
    /\ pc' = "gone"
    /\ UNCHANGED <<conn, stream, ret, p, parsed, result, wire>>

Output == \/ OutputSkipped \/ OutputEvent \/ OutputNoEvent
          \/ SendNothing \/ SendSome \/ SendBlocked \/ SendFailed
          \/ FinishKeep \/ FinishNoStream \/ FinishClose
          \/ TimerHeard \/ TimerWaits \/ TimerExpires \/ Reap

-----------------------------------------------------------------------------
(* The functions the application calls on a stream.  Each yields a set of  *)
(* outcomes [ok, s]: whether it succeeded, and the stream afterwards.      *)

Token(name) == Header(name, 0)

(* Appending the tokens one after the other; an allocation may fail at any *)
(* of them, and those before it stay.                                      *)
Appended(s, tokens) ==
    {[ok |-> TRUE, s |-> [s EXCEPT !.buf = @ \o tokens]]} \cup
    (IF OutOfMemory
     THEN {[ok |-> FALSE, s |-> [s EXCEPT !.buf = @ \o SubSeq(tokens, 1, j)]] :
              j \in 0 .. Len(tokens) - 1}
     ELSE {})

(* aisl_response: the length is stored before the status line is appended, *)
(* and kept when that fails.                                               *)
Response(s, c_len) ==
    IF s.state > READY
    THEN {[ok |-> TRUE, s |-> s]}
    ELSE {[o EXCEPT !.s.state = IF o.ok THEN SEND_HEADER ELSE @] :
             o \in Appended([s EXCEPT !.clen = c_len, !.buf = <<>>], <<Token("status")>>)}

(* The headers that aisl_stream_close_headers adds, and the blank line.    *)
MissingHeaders(s) ==
    LET missing(name, n) == IF name \in s.sent THEN <<>> ELSE <<Header(name, n)>> IN
    missing("server", 0) \o missing("type", 0)
        \o (IF s.clen = AUTO THEN <<>> ELSE missing("length", s.clen))
        \o missing("connection", IF conn.keepalive THEN 1 ELSE 0)

AddedBetween(s, t) == {t.buf[i].name : i \in Len(s.buf) + 1 .. Len(t.buf)}

aisl_stream_close_headers(s) ==
    UNION {IF ~r.ok THEN {r} ELSE
           {LET t == [o.s EXCEPT !.sent = @ \cup (AddedBetween(r.s, o.s) \ {"blank"})] IN
            [o EXCEPT !.s = IF ~o.ok THEN t
                            ELSE [t EXCEPT !.bodyOff = Len(t.buf), !.state = SEND_BODY]] :
              o \in Appended(r.s, Append(MissingHeaders(r.s), Token("blank")))} :
           r \in Response(s, AUTO)}

(* Mutant of InsertLength: inserted behind the blank line.                 *)
InsertLength_behind(s) ==
    LET at(i, n) == [ok |-> TRUE,
                     s |-> [s EXCEPT !.buf = InsertAt(@, i, Header("length", n))]]
        refused == [ok |-> FALSE, s |-> s] IN
    IF wire = <<>>
    THEN {at(s.bodyOff + 1, Len(s.buf) - s.bodyOff)} \cup (IF OutOfMemory THEN {refused} ELSE {})
    ELSE {at(i, WRONG) : i \in 1 .. Len(s.buf) + 1} \cup {refused}

(* aisl_flush, when no Content-Length was given so far: it is inserted     *)
(* before the blank line, at an offset that is right only while nothing    *)
(* has been sent; later it may lie anywhere, or beyond the data.           *)
InsertLength(s) ==
    LET at(i, n) == [ok |-> TRUE,
                     s |-> [s EXCEPT !.buf = InsertAt(@, i, Header("length", n))]]
        refused == [ok |-> FALSE, s |-> s] IN
    IF wire = <<>>
    THEN {at(s.bodyOff, Len(s.buf) - s.bodyOff)} \cup (IF OutOfMemory THEN {refused} ELSE {})
    ELSE {at(i, WRONG) : i \in 1 .. Len(s.buf) + 1} \cup {refused}

Flush(s) ==
    LET flushed(t) == [t EXCEPT !.sent = @ \cup {"length"}, !.state = DONE] IN
    CASE "length" \in s.sent -> {[ok |-> TRUE, s |-> flushed(s)]}
      [] "length" \notin s.sent /\ s.bodyOff # 0 ->
            {[o EXCEPT !.s = IF o.ok THEN flushed(@) ELSE @] : o \in InsertLength(s)}
      [] OTHER -> {[ok |-> TRUE, s |-> flushed(o.s)] : o \in aisl_stream_close_headers(s)}

(* Mutant of Write: the body follows whatever became of the headers.       *)
Write_anyway(s) ==
    UNION {Appended(r.s, <<Token("body")>>) :
           r \in IF s.state < SEND_BODY THEN aisl_stream_close_headers(s)
                                        ELSE {[ok |-> TRUE, s |-> s]}}

(* aisl_write, aisl_printf, aisl_puts: they close the headers first.       *)
Write(s) ==
    UNION {IF r.ok THEN Appended(r.s, <<Token("body")>>) ELSE {r} :
           r \in IF s.state < SEND_BODY THEN aisl_stream_close_headers(s)
                                        ELSE {[ok |-> TRUE, s |-> s]}}

-----------------------------------------------------------------------------
(* The application.  It knows a stream from its first event on, and has    *)
(* control in handlers and between touches.                                *)

Knows == pc \in {"app", "callback"} /\ log.raised # "none"

MayAnswer(call) ==
    /\ Knows /\ call \in Calls
    /\ EarlyAnswer \/ log.raised \in {"REQUEST", "OUTPUT"}

(* Bounds: while the headers are open there is nothing but the status line *)
(* and them.                                                               *)
HeaderRoom == Len(wire) + Len(stream.buf) <= MaxOut
BodyRoom == Count(wire, "body") + Count(stream.buf, "body") < MaxOut

Marked(o, marks) ==
    log' = [log EXCEPT !.marks = @ \cup marks \cup (IF o.ok THEN {} ELSE {"failed"})]

Kept == UNCHANGED <<pc, ret, p, parsed, result, wire>>

CallResponse ==
    /\ MayAnswer("response")
    /\ \E c_len \in Lengths : \E o \in Response(stream, c_len) :
          /\ stream' = o.s
          /\ Marked(o, IF stream.state <= READY /\ c_len # AUTO THEN {"explicit"} ELSE {})
    /\ Kept /\ UNCHANGED conn

(* Mutant of TellsConnection: every header that is named so.               *)
TellsConnection_again(h, passed, s) ==
    passed /\ h.name = "connection"

(* Whether a header reaches the connection: the first that is named so, if *)
(* its value is there to be compared.                                      *)
TellsConnection(h, passed, s) ==
    passed /\ h.name = "connection" /\ h.name \notin s.sent

(* A header passed as it is is appended in one piece; a formatted one in   *)
(* three, and an allocation may fail after the first.                      *)
HeaderAppended(h, passed, s) ==
    Appended(s, <<h>>) \cup
        IF passed \/ ~OutOfMemory THEN {}
        ELSE {[ok |-> FALSE, s |-> [s EXCEPT !.buf = Append(@, Token("cut"))]]}

HeaderMarks(h, passed) ==
    (IF h.name = "length" THEN {"explicit"} ELSE {}) \cup
    (IF h.name = "connection" /\ ~passed THEN {"formatted"} ELSE {})

(* aisl_header and aisl_header_printf: the header's flag is set, and, if a *)
(* value is passed on to aisl_stream_verify_header, the keepalive of the   *)
(* client, before the line is appended.                                    *)
AddHeader(h, passed) ==
    /\ HeaderRoom
    /\ stream.state <= SEND_HEADER
    /\ \E r \in IF stream.state < SEND_HEADER THEN Response(stream, AUTO)
                                              ELSE {[ok |-> TRUE, s |-> stream]} :
          IF ~r.ok
          THEN stream' = r.s /\ Marked(r, {}) /\ UNCHANGED conn
          ELSE \E o \in HeaderAppended(h, passed,
                              [r.s EXCEPT !.sent = @ \cup ({h.name} \ {"other"})]) :
                  /\ stream' = o.s
                  /\ Marked(o, HeaderMarks(h, passed))
                  /\ conn' = IF TellsConnection(h, passed, r.s)
                             THEN [conn EXCEPT !.keepalive = (h.n = 1)]
                             ELSE conn
    /\ Kept

CallHeader ==
    /\ MayAnswer("header")
    /\ \E h \in AppHeaders : AddHeader(h, TRUE)

CallHeaderPrintf ==
    /\ MayAnswer("header_printf")
    /\ \E h \in Formatted : AddHeader(h, FALSE)

CallWrite ==
    /\ MayAnswer("write") /\ BodyRoom
    /\ \E o \in Write(stream) :
          /\ stream' = o.s
          /\ Marked(o, IF stream.state = DONE THEN {"after_flush"} ELSE {})
    /\ Kept /\ UNCHANGED conn

CallFlush ==
    /\ MayAnswer("flush")
    /\ \E o \in Flush(stream) :
          /\ stream' = o.s
          /\ Marked(o, (IF wire # <<>> /\ "length" \notin stream.sent
                        THEN {"late_length"} ELSE {}) \cup
                       (IF o.ok /\ o.s.bodyOff = 0 THEN {"unterminated"} ELSE {}) \cup
                       (IF "length" \notin stream.sent /\ stream.bodyOff = 0
                           /\ o.s.clen = AUTO
                        THEN {"bodiless"} ELSE {}))
    /\ Kept /\ UNCHANGED conn

CallSetOutputEvent ==
    /\ Knows /\ "set_output_event" \in Calls
    /\ \E value \in BOOLEAN : stream' = [stream EXCEPT !.chunked = value]
    /\ Kept /\ UNCHANGED <<conn, log>>

(* aisl_reject is aisl_client_disconnect.                                  *)
CallReject ==
    /\ Knows /\ "reject" \in Calls
    /\ conn.online
    /\ conn' = Offline(conn)
    /\ Kept /\ UNCHANGED <<stream, log>>

(* The handler returns.                                                    *)
Return ==
    /\ pc = "callback"
    /\ pc' = ret /\ ret' = "app"
    /\ UNCHANGED <<conn, stream, p, parsed, result, wire, log>>

Tick ==
    /\ pc = "app"
    /\ conn.silence < Timeout
    /\ conn' = [conn EXCEPT !.silence = @ + 1]
    /\ UNCHANGED <<stream, pc, ret, p, parsed, result, wire, log>>

Gone == pc = "gone" /\ UNCHANGED vars

Input == InputSkipped \/ InputReceived \/ InputBlocked \/ InputFailed

Api == \/ CallResponse \/ CallHeader \/ CallHeaderPrintf \/ CallWrite
       \/ CallFlush \/ CallSetOutputEvent \/ CallReject

Library == Touch \/ Input \/ Parse \/ Output

Next == Library \/ Return \/ Api \/ Tick \/ Gone

Spec == Init /\ [][Next]_vars

(* The loop touches every client again and again (EventLoop), a touch runs *)
(* to its end, and handlers return.                                        *)
FairSpec == Spec /\ WF_vars(Library) /\ WF_vars(Return) /\ WF_vars(Tick)

-----------------------------------------------------------------------------
(* Properties.                                                             *)

TokenNames == {"status", "server", "type", "length", "connection", "other",
               "blank", "body", "cut"}
Marks == {"torn", "lost", "late_length", "unterminated", "bodiless", "explicit",
          "formatted", "after_flush", "failed"}

IsToken(t) == t.name \in TokenNames /\ t.n \in Int

TypeOK ==
    /\ Len(conn.in) <= InSize /\ \A i \in 1 .. Len(conn.in) : conn.in[i] \in PeerUnits
    /\ conn.silence \in 0 .. Timeout
    /\ \A flag \in {conn.torn, conn.online, conn.canRead, conn.canWrite,
                    conn.keepalive, conn.http2, stream.chunked, log.complete} : flag \in BOOLEAN
    /\ stream.state \in States
    /\ stream.clen \in Nat \cup {AUTO}
    /\ stream.sent \subseteq {"server", "type", "length", "connection"}
    /\ \A i \in 1 .. Len(stream.buf) : IsToken(stream.buf[i])
    /\ \A i \in 1 .. Len(wire) : IsToken(wire[i])
    /\ stream.bodyOff \in Nat
    /\ pc \in {"app", "input", "parse", "fail", "callback", "output", "send",
               "finish", "timer", "reap", "gone"}
    /\ ret \in {"app", "parse", "fail", "output", "send"}
    /\ p \in {"success", "hungry", "ready", "error"}
    /\ parsed \in 0 .. InSize
    /\ result \in {"idle", "success"}
    /\ log.marks \subseteq Marks

(* A connection never reads the next request while it writes a response:   *)
(* input and output share the one stream of an HTTP/1.x client.  What is   *)
(* sent belongs to a request that was parsed to its end.                   *)
ReadXorWrite ==
    /\ conn.canWrite <=> ~conn.canRead
    /\ wire # <<>> => conn.canWrite

(* When the request is announced as complete, the application was given    *)
(* exactly the body that the peer announced, however it was cut into       *)
(* segments and whatever the application called meanwhile, unless the      *)
(* buffer dropped the start of a header line or an allocation failed.      *)
BodyAccounted ==
    log.raised \in {"REQUEST", "OUTPUT"} /\ log.marks \cap {"torn", "failed"} = {} =>
        log.got = log.declared

(* What the peer gets is a status line, headers, one blank line and the    *)
(* body.                                                                   *)
Shaped(w) ==
    /\ w # <<>> /\ w[1].name = "status" /\ Count(w, "status") = 1
    /\ Count(w, "blank") = 1 /\ Count(w, "cut") = 0
    /\ \A h \in {"server", "connection"} : Count(w, h) >= 1
    /\ \A i, j \in 1 .. Len(w) :
          w[i].name = "blank" /\ i # j => (i < j <=> w[j].name = "body")

LengthOf(w) == w[SelectInSeq(w, LAMBDA t : t.name = "length")].n

WellFormed(w) ==
    /\ Shaped(w)
    /\ Count(w, "length") >= 1
    /\ "explicit" \notin log.marks =>
          Count(w, "length") = 1 /\ LengthOf(w) = Count(w, "body")

(* A response that was completed is whole and, unless the application gave *)
(* a length of its own, its Content-Length is the length of its body: in   *)
(* whatever order the application called, and however it was sent.  Each   *)
(* exception stands for one way in which the code breaks this.             *)
CompleteIsWellFormed ==
    log.complete /\ log.marks \subseteq {"explicit", "formatted", "torn"} => WellFormed(wire)

FirstConnection == SelectInSeq(wire, LAMBDA t : t.name = "connection")

(* A response that was completed keeps the connection exactly if its first *)
(* Connection header reads "keepalive", as the code spells it, whatever    *)
(* the request asked for and later headers say: any other value closes it, *)
(* "keep-alive" among them.  Excepted is the response with a formatted     *)
(* header of that name, whose value the code does not look at.             *)
KeptAsSpelled ==
    LET i == FirstConnection IN
    log.complete /\ i # 0 /\ log.marks \cap {"lost", "failed", "formatted"} = {} =>
        (wire[i].n = 1 <=> conn.keepalive)

(* The response so far: what was sent and what is buffered.                *)
Sofar(s) == wire \o s.buf

(* t is s with more behind it, or with one Content-Length put in.          *)
Grown(s, t) ==
    \/ IsPrefix(s, t)
    \/ \E i \in DOMAIN t : t[i].name = "length" /\ t = InsertAt(s, i, t[i])

(* While a connection writes, what was sent stays and what the application *)
(* wrote is sent in its order, nothing left out or twice, unless the       *)
(* buffer dropped the rest of it; and no stream is replaced before the     *)
(* application flushed it and nothing of its response remains.             *)
OnlyFlushedCompletes ==
    [][conn.canWrite =>
          /\ IsPrefix(wire, wire')
          /\ "lost" \in log'.marks \/ Grown(Sofar(stream), Sofar(stream)')
          /\ stream'.state < stream.state =>
                stream.state = DONE /\ stream.buf = <<>> /\ log.complete]_vars

(* The order of events that the application may rely on.                   *)
Events == INSTANCE StreamEvents WITH event <- log.raised, up <- conn.online

EventOrder == Events!Spec

(* A touch comes to its end: the parser does not run for ever, on whatever *)
(* input and whatever the handlers call.                                   *)
TouchReturns == pc # "app" ~> pc \in {"app", "gone"}

(* A connection whose peer is silent, or takes no output, for the timeout  *)
(* is closed, unless something moves at last.                              *)
SilentClosed ==
    conn.online /\ conn.silence = Timeout ~> ~conn.online \/ conn.silence = 0

(* A connection that is down is freed, whoever ended it.                   *)
OfflineReaped == ~conn.online ~> pc = "gone"

(* What documents and comments say and the code does not do.               *)

(* README: "Start prepare the response without waiting for headers and     *)
(* body!"  A request is no error because its answer has begun.             *)
EarlyAnswerAccepted == pc = "parse" /\ p = "error" => stream.state < SEND_HEADER

(* client.h: a kept connection reads the next request.                     *)
KeptAliveListens ==
    pc = "app" /\ conn.online /\ log.complete /\ conn.keepalive => conn.canRead

(* stream.h: aisl_flush is the call to start the transmission.             *)
FlushStarts == wire # <<>> => stream.state = DONE \/ log.complete

(* client.h: "keepalive mode is on" or it is not, and that is what the     *)
(* response says: in the standard spelling too, and in a formatted header. *)
ConnectionHonest ==
    LET i == FirstConnection IN
    log.complete /\ i # 0 /\ log.marks \cap {"lost", "failed"} = {} =>
        (wire[i].n # 0 <=> conn.keepalive)

(* client.c: "data has been sent" when the response is completed.          *)
AllSent == log.complete => "lost" \notin log.marks

(* stream.h: aisl_flush says whether the stream is ready to be processed;  *)
(* a stream it has accepted is completed, not left until it times out.     *)
FlushedIsCompleted ==
    [][TimerExpires => ~(stream.state = DONE /\ stream.buf = <<>>)]_vars

(* The same: what it has accepted has a complete head.                     *)
FlushedIsTerminated == stream.state = DONE => stream.bodyOff # 0

(* stream.h: aisl_reject rejects the stream and closes the connection; no  *)
(* more of the request is delivered.                                       *)
RejectedIsSilent ==
    [][~conn.online /\ log'.raised # log.raised => log'.raised \in {"CLOSE", "none"}]_vars

(* stream.h: AISL_AUTO_LENGTH if the length is not known yet; it is known  *)
(* when the response is flushed, and then Content-Length tells it, also    *)
(* when a part of the response was already sent ...                        *)
AutoLengthIsRight ==
    log.complete /\ log.marks \subseteq {"late_length"} => WellFormed(wire)

(* ... and when the body is empty.                                         *)
EmptyBodyHasLength ==
    log.complete /\ log.marks \subseteq {"bodiless"} => WellFormed(wire)
=============================================================================
