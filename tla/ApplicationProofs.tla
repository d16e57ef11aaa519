------------------------- MODULE ApplicationProofs -------------------------
(***************************************************************************)
(* Proofs about Application: the two programs of the repository in the     *)
(* library that Client models, whatever the peer sends, the sizes and      *)
(* bounds are, and whichever allocations fail.  What was proved of Client  *)
(* for any application holds of these two, so the proofs begin with it.    *)
(***************************************************************************)
EXTENDS Application, ShapeProofs

-----------------------------------------------------------------------------
(* The inductive invariant.                                                *)

Hands == {"out", "enter", "response", "body", "flush", "reject", "return"}

(* In these the handler is about to call a function of the answer.         *)
Answering == {"response", "body", "flush"}

OwnTyped ==
    /\ program \in Programs /\ hand \in Hands /\ reply \in {"page", "error"}
    /\ ctx \in BOOLEAN /\ alive \in BOOLEAN

(* A handler runs exactly while the library waits in the callback, and     *)
(* answers a request that is complete, or a path that it does not know.    *)
HandInv ==
    /\ hand = "out" <=> pc # "callback"
    /\ hand \in Answering => \/ log.raised = "REQUEST"
                             \/ log.raised = "OPEN" /\ reply = "error"
    /\ hand = "flush" => reply = "page"

(* The context belongs to an open stream, and a stream that was opened     *)
(* just now has none yet.                                                  *)
ContextInv ==
    /\ contexts = IF ctx THEN 1 ELSE 0
    /\ ctx => log.raised \notin {"none", "CLOSE"} /\ program = "template"
    /\ log.raised = "OPEN" /\ hand \in {"enter"} \cup Answering => ~ctx

(* A request is answered, or its connection is down, or its handler has    *)
(* not come to its end.                                                    *)
AnswerInv ==
    log.raised \in {"REQUEST", "OUTPUT"} =>
        \/ stream.state = DONE \/ ~conn.online
        \/ hand \in Answering \cup {"reject"}
        \/ hand = "enter" /\ log.raised = "REQUEST"
        \/ ~alive

LibraryInv == ClientInv /\ StageInv /\ LiveInv

HandlerInv == OwnTyped /\ HandInv /\ ContextInv

-----------------------------------------------------------------------------
(* The steps are steps of the library, or calls of it.                     *)

(* A program that is asked for an answer knows the stream.                 *)
LEMMA AnswersKnown ==
    ASSUME HandInv, hand \in Answering
    PROVE  Knows
BY DEF HandInv, Knows, Answering

(* aisl_response, as either program calls it.                              *)
LEMMA RespondCalls ==
    ASSUME ClientInv, HandInv, Respond
    PROVE  CallEffect
<1>. DEFINE c_len == IF reply = "page" THEN BodyLength ELSE AUTO
            marks == IF c_len # AUTO THEN {"explicit"} ELSE {}
<1>1. PICK o \in Response(stream, c_len) : stream' = o.s /\ Marked(o, marks)
  BY DEF Respond
<1>2. c_len \in Nat \cup {AUTO} /\ marks \in SUBSET Marks
  BY DEF BodyLength, Marks
<1>3. Kept /\ UNCHANGED conn /\ hand \in Answering
  BY DEF Respond, At, Answering
<1>. HIDE DEF c_len, marks
<1>4. Result(o, stream)
  BY <1>2, ResponseResult DEF ClientInv, Typed, Legal
<1>. QED  BY <1>1, <1>2, <1>3, <1>4, AnswerEffect, AnswersKnown, ApplicationAssumption
          DEF ClientInv

(* aisl_write and aisl_printf.                                             *)
LEMMA BodyCalls ==
    ASSUME ClientInv, HandInv, Body
    PROVE  CallEffect
<1>1. PICK o \in Write(stream) : stream' = o.s /\ Marked(o, {})
  BY DEF Body
<1>2. Kept /\ UNCHANGED conn /\ hand \in Answering /\ {} \in SUBSET Marks
  BY DEF Body, At, Answering
<1>3. Result(o, stream)
  BY WriteResult DEF ClientInv, Typed, Legal, Conns
<1>. QED  BY <1>1, <1>2, <1>3, AnswerEffect, AnswersKnown, ApplicationAssumption
          DEF ClientInv

(* Every step.                                                             *)
LEMMA AppCalls ==
    ASSUME ClientInv, HandInv, [AppNext]_appVars
    PROVE  [Next]_vars \/ CallEffect
<1>1. CASE LibraryGoes \/ TimePasses
  BY <1>1 DEF LibraryGoes, TimePasses, Next
<1>2. CASE Close
  BY <1>2 DEF Close, ExampleClosed, welcome_on_close, CloseStream, Next, Library, Output
<1>3. CASE hello_world \/ OpenFound \/ OpenMissing \/ Routed \/ get_module_from_stream \/ BodyCrash
  BY <1>3 DEF hello_world, OpenFound, OpenMissing, Routed, get_module_from_stream, BodyCrash,
              Handle
<1>4. CASE FlushPage \/ Reject \/ Leaves
  BY <1>4 DEF FlushPage, Reject, Leaves, Next, Api
<1>5. CASE Ended \/ UNCHANGED appVars
  BY <1>5 DEF Ended, appVars
<1>. QED  BY <1>1, <1>2, <1>3, <1>4, <1>5, RespondCalls, BodyCalls DEF AppNext, Handler

(* So what holds of any application holds of these.                        *)
LEMMA LibraryStep ==
    ASSUME LibraryInv, HandInv, [AppNext]_appVars
    PROVE  LibraryInv'
<1>1. [Next]_vars \/ CallEffect
  BY AppCalls DEF LibraryInv
<1>. QED  BY <1>1, ClientStep, StageStep, LiveStep, CallKeeps, StageCall, LiveCall DEF LibraryInv

(* Which event the library raises.  The handler of STREAM_CLOSE is called  *)
(* within the library's step, that of the others when it has come to the   *)
(* callback.                                                               *)
LEMMA Raises ==
    ASSUME ClientInv, Library
    PROVE  /\ pc' = "callback" =>
                 \/ ParseRequestLine /\ log'.raised = "OPEN"
                 \/ log'.raised \in {"HEADER", "INPUT", "REQUEST", "ERROR", "OUTPUT"}
           /\ pc' # "callback" =>
                 \/ log'.raised = log.raised
                 \/ /\ Reap \/ FinishKeep \/ FinishNoStream
                    /\ log'.raised \in {"none", "CLOSE"}
<1>1. log \in Logs
  BY DEF ClientInv, Typed
<1>2. CASE Touch \/ Input
  BY <1>2 DEF Touch, Input, InputSkipped, InputReceived, InputBlocked, InputFailed
<1>3. CASE ParseRequestLine
  <2>1. log' = [FreshLog EXCEPT !.raised = "OPEN"] /\ pc' = "callback"
    BY <1>3 DEF ParseRequestLine
  <2>. QED  BY <2>1, <1>3, FreshFacts DEF Logs
<1>4. CASE ParseHeaderLine
  <2>1. (\E d : log' = [log EXCEPT !.raised = "HEADER", !.declared = d]) /\ pc' = "callback"
    BY <1>4 DEF ParseHeaderLine
  <2>. QED  BY <2>1, <1>1 DEF Logs
<1>5. CASE ParseBody
  <2>1. (\E g : log' = [log EXCEPT !.raised = "INPUT", !.got = g]) /\ pc' = "callback"
    BY <1>5 DEF ParseBody
  <2>. QED  BY <2>1, <1>1 DEF Logs
<1>6. CASE \/ ParseEndOfHeaders \/ ParseBadLine \/ ParseBodyTooLong \/ ParseHungry
           \/ ParseAnswered \/ ParseFail
  <2>1. log' = log /\ pc' \in {pc, "output"} /\ pc \in {"parse", "fail"}
    BY <1>6 DEF ParseEndOfHeaders, ParseBadLine, ParseBodyTooLong, ParseHungry, ParseAnswered,
                ParseFail, AtLine, AtParse
  <2>. QED  BY <2>1
<1>7. CASE ParseWaits \/ ParseReady
  <2>1. \E e, marks : /\ log' = [log EXCEPT !.raised = e, !.marks = marks]
                      /\ \/ e = log.raised /\ pc' = "output"
                         \/ e = "REQUEST" /\ pc' = "callback"
    BY <1>7 DEF ParseWaits, ParseReady, ShiftInput
  <2>. QED  BY SMTT(30), <2>1, <1>1 DEF Logs
<1>8. CASE ParseError \/ OutputEvent
  <2>1. (\E e \in {"ERROR", "OUTPUT"} : log' = [log EXCEPT !.raised = e]) /\ pc' = "callback"
    BY <1>8 DEF ParseError, OutputEvent, Raise
  <2>. QED  BY <2>1, <1>1 DEF Logs
<1>9. CASE SendSome
  <2>1. log'.raised = log.raised
    BY <1>9, SentFacts DEF ClientInv
  <2>2. pc' \in {"finish", "timer"}
    BY <1>9 DEF SendSome
  <2>. QED  BY <2>1, <2>2
<1>10. CASE \/ OutputSkipped \/ OutputNoEvent \/ SendNothing \/ SendBlocked \/ SendFailed
            \/ FinishClose \/ TimerHeard \/ TimerWaits \/ TimerExpires
  <2>1. log' = log /\ pc' \in {"timer", "send", "reap", "app"}
    BY <1>10 DEF OutputSkipped, OutputNoEvent, SendNothing, SendBlocked, SendFailed,
                 FinishClose, TimerHeard, TimerWaits, TimerExpires, Leave, Left
  <2>. QED  BY <2>1
<1>11. CASE FinishKeep \/ FinishNoStream \/ Reap
  <2>1. /\ pc' \in {"timer", "gone"}
        /\ \E e \in {"none", "CLOSE"} : log' = [log EXCEPT !.raised = e]
    BY <1>11 DEF FinishKeep, FinishNoStream, Reap
  <2>2. log'.raised \in {"none", "CLOSE"}
    BY <2>1, <1>1 DEF Logs
  <2>. QED  BY <1>11, <2>1, <2>2
<1>. QED  BY <1>2, <1>3, <1>4, <1>5, <1>6, <1>7, <1>8, <1>9, <1>10, <1>11
          DEF Library, Parse, Output

-----------------------------------------------------------------------------
(* The handler and its context.                                            *)

(* A stream whose request line is read is new, so it has no context.       *)
LEMMA OpenedNew ==
    ASSUME LibraryInv, ParseRequestLine
    PROVE  log.raised = "none"
<1>1. pc = "parse" /\ stream.state = IDLE
  BY DEF ParseRequestLine, AtLine, AtParse
<1>. QED  BY <1>1, OpensFresh DEF LibraryInv

(* The library's own steps, up to the next callback.                       *)
LEMMA HandlerLibrary ==
    ASSUME LibraryInv, HandlerInv, LibraryGoes
    PROVE  HandlerInv'
<1>1. /\ Library /\ hand = "out" /\ ~Closes
      /\ hand' = IF pc' = "callback" THEN "enter" ELSE "out"
      /\ program' = program /\ reply' = reply /\ ctx' = ctx /\ contexts' = contexts
      /\ alive' = alive
  BY DEF LibraryGoes, Runs
<1>2. OwnTyped' /\ HandInv'
  BY <1>1 DEF HandlerInv, OwnTyped, HandInv, Hands, Answering
<1>3. pc' # "callback" => log'.raised = log.raised \/ Reap
  <2>1. ~FinishKeep /\ ~FinishNoStream
    BY <1>1 DEF Closes, FinishKeep, FinishNoStream
  <2>. QED  BY <2>1, <1>1, Raises DEF LibraryInv
<1>4. Reap => log.raised = "CLOSE"
  BY <1>1 DEF Closes, Reap
<1>5. ctx => ~ParseRequestLine
  BY OpenedNew DEF HandlerInv, ContextInv
<1>6. ctx => log'.raised \notin {"none", "CLOSE"}
  <2>1. CASE pc' = "callback"
    BY <2>1, <1>1, Raises DEF LibraryInv
  <2>2. CASE pc' # "callback"
    BY <2>2, <1>3, <1>4 DEF HandlerInv, ContextInv
  <2>. QED  BY <2>1, <2>2
<1>7. hand' = "enter" /\ log'.raised = "OPEN" => ~ctx
  BY <1>1, <1>5, Raises DEF LibraryInv
<1>8. ContextInv'
  BY <1>1, <1>6, <1>7 DEF HandlerInv, ContextInv, Answering
<1>. QED  BY <1>2, <1>8 DEF HandlerInv

(* The stream is closed, and the context freed with it.                    *)
LEMMA HandlerClose ==
    ASSUME LibraryInv, HandlerInv, Close
    PROVE  HandlerInv'
<1>1. pc' \in {"timer", "gone"}
  BY DEF Close, ExampleClosed, welcome_on_close, CloseStream, Reap, FinishNoStream, FinishKeep
<1>2. /\ hand = "out" /\ hand' = hand
      /\ program' = program /\ reply' = reply /\ alive' = alive
      /\ \/ program = "example" /\ ctx' = ctx /\ contexts' = contexts
         \/ ctx /\ ctx' = FALSE /\ contexts' = contexts - 1
  BY DEF Close, ExampleClosed, welcome_on_close, own, Runs
<1>3. ~ctx' /\ ctx' \in BOOLEAN /\ contexts' = 0
  <2>1. /\ ctx \in BOOLEAN /\ (ctx => contexts = 1) /\ (~ctx => contexts = 0)
        /\ program = "example" => ~ctx
    BY DEF HandlerInv, ContextInv, OwnTyped
  <2>2. CASE ctx
    <3>1. ctx' = FALSE /\ contexts' = contexts - 1 /\ contexts = 1
      BY <1>2, <2>1, <2>2, Zenon
    <3>2. contexts' = 0
      <4>1. contexts' = contexts - 1 /\ contexts = 1
        BY <3>1, Zenon
      <4>. QED  BY <4>1
    <3>3. ~ctx' /\ ctx' \in BOOLEAN
      BY <3>1, Zenon
    <3>. QED  BY <3>2, <3>3, Zenon
  <2>3. CASE ~ctx
    <3>1. ctx' = ctx /\ contexts' = contexts /\ contexts = 0
      BY <1>2, <2>1, <2>3, Zenon
    <3>. QED  BY <3>1, <2>1, <2>3
  <2>. QED  BY <2>2, <2>3
<1>. QED  BY <1>1, <1>2, <1>3 DEF HandlerInv, OwnTyped, HandInv, ContextInv, Hands, Answering

(* A call changes neither the place of the thread nor the last event.      *)
LEMMA CallStays ==
    ASSUME CallEffect
    PROVE  /\ pc' = pc /\ log'.raised = log.raised /\ wire' = wire
           /\ log'.complete = log.complete /\ log.marks \subseteq log'.marks
BY DEF CallEffect, Kept, SameLog

(* The steps of the handler itself.                                        *)
LEMMA HandlerHandler ==
    ASSUME LibraryInv, HandlerInv, Handler
    PROVE  HandlerInv'
<1>. USE DEF HandlerInv, OwnTyped, HandInv, ContextInv, Hands, Answering
<1>1. CASE hello_world
  BY <1>1 DEF hello_world, Enters, Handle, vars
<1>2. CASE OpenFound
  BY <1>2 DEF OpenFound, Enters, vars
<1>3. CASE OpenMissing
  BY <1>3 DEF OpenMissing, Enters, Handle, vars
<1>4. CASE Routed
  <2>1. /\ hand = "enter" /\ hand' \in {"response", "return"}
        /\ hand' = "response" => log.raised = "REQUEST"
        /\ log.raised # "OPEN" /\ reply' = "page"
        /\ pc' = pc /\ log' = log
        /\ program' = program /\ ctx' = ctx /\ contexts' = contexts /\ alive' = alive
    BY <1>4 DEF Routed, Enters, Handle, vars
  <2>2. OwnTyped'
    BY <2>1
  <2>3. HandInv'
    BY <2>1
  <2>4. ContextInv'
    BY <2>1
  <2>. QED  BY <2>2, <2>3, <2>4
<1>5. CASE get_module_from_stream \/ BodyCrash
  <2>1. /\ hand' = hand /\ pc' = pc /\ log' = log /\ reply' = reply
        /\ program' = program /\ ctx' = ctx /\ contexts' = contexts /\ alive' = FALSE
    BY <1>5 DEF get_module_from_stream, BodyCrash, vars
  <2>2. OwnTyped'
    BY <2>1
  <2>3. HandInv'
    BY <2>1
  <2>4. ContextInv'
    BY <2>1
  <2>. QED  BY <2>2, <2>3, <2>4
<1>6. CASE Respond
  <2>1. /\ hand = "response" /\ hand' \in {"body", "reject"}
        /\ UNCHANGED <<program, reply, ctx, contexts, alive>>
    BY <1>6 DEF Respond, At, Goes
  <2>2. pc' = pc /\ log'.raised = log.raised
    BY <1>6, RespondCalls, CallStays DEF LibraryInv
  <2>. QED  BY <2>1, <2>2
<1>7. CASE Body
  <2>1. /\ hand = "body" /\ hand' \in {"flush", "reject"} /\ (hand' = "flush" => reply = "page")
        /\ UNCHANGED <<program, reply, ctx, contexts, alive>>
    BY <1>7 DEF Body, At, Goes
  <2>2. pc' = pc /\ log'.raised = log.raised
    BY <1>7, BodyCalls, CallStays DEF LibraryInv
  <2>. QED  BY <2>1, <2>2
<1>8. CASE FlushPage \/ Reject
  <2>1. /\ hand \in {"flush", "reject"} /\ hand' = "return"
        /\ UNCHANGED <<program, reply, ctx, contexts, alive>>
    BY <1>8 DEF FlushPage, Reject, At, Goes
  <2>2. pc' = pc /\ log'.raised = log.raised
    <3>1. CallEffect \/ UNCHANGED vars
      BY <1>8, ApiEffect DEF FlushPage, Reject, Api, LibraryInv, ClientInv
    <3>. QED  BY <3>1, CallStays DEF vars
  <2>. QED  BY <2>1, <2>2
<1>9. CASE Leaves
  <2>1. /\ hand = "return" /\ hand' = "out" /\ pc = "callback" /\ pc' = ret /\ log' = log
        /\ UNCHANGED <<program, reply, ctx, contexts, alive>>
    BY <1>9 DEF Leaves, At, Goes, Return
  <2>2. ret # "callback"
    BY DEF LibraryInv, ClientInv, Typed
  <2>. QED  BY <2>1, <2>2
<1>. QED  BY <1>1, <1>2, <1>3, <1>4, <1>5, <1>6, <1>7, <1>8, <1>9 DEF Handler

(* Every step.                                                             *)
LEMMA HandlerStep ==
    ASSUME LibraryInv, HandlerInv, [AppNext]_appVars
    PROVE  LibraryInv' /\ HandlerInv'
<1>1. LibraryInv'
  BY LibraryStep DEF HandlerInv
<1>2. CASE TimePasses
  BY <1>1, <1>2 DEF TimePasses, Runs, Tick, own, HandlerInv, OwnTyped, HandInv, ContextInv,
                    Answering
<1>3. CASE Ended \/ UNCHANGED appVars
  BY <1>1, <1>3 DEF Ended, appVars, vars, own, HandlerInv, OwnTyped, HandInv, ContextInv
<1>. QED  BY <1>1, <1>2, <1>3, HandlerLibrary, HandlerClose, HandlerHandler DEF AppNext

(* It holds from the start.                                                *)
LEMMA HandlerInvariant == AppSpec => [](LibraryInv /\ HandlerInv)
<1>1. AppInit => LibraryInv /\ HandlerInv
  <2>1. Init => StageInv /\ LiveInv
    BY FreshFacts, StatesAre DEF Init, StageInv, LiveInv, FreshStream
  <2>. QED  BY <2>1, InitInv, FreshFacts
            DEF AppInit, Init, LibraryInv, HandlerInv, OwnTyped, HandInv, ContextInv, Programs,
                Hands, Answering
<1>2. LibraryInv /\ HandlerInv /\ [AppNext]_appVars => (LibraryInv /\ HandlerInv)'
  BY HandlerStep
<1>. QED  BY <1>1, <1>2, PTL DEF AppSpec

(* The handler is at one of its calls, and a client has at most one        *)
(* context (main.c, router.c and welcome.c of the template).               *)
THEOREM AppTypeCorrect == AppSpec => []AppTypeOK
<1>1. HandlerInv => AppTypeOK
  BY DEF HandlerInv, OwnTyped, ContextInv, AppTypeOK, Hands
<1>. QED  BY <1>1, HandlerInvariant, PTL

(* Each context is freed once, when its stream is closed, however the      *)
(* stream ends, and none is left when the client is gone                   *)
(* (welcome_on_open and welcome_on_close).                                 *)
THEOREM ContextsAreFreed == AppSpec => []ContextsFreed
<1>1. LibraryInv /\ HandlerInv => ContextsFreed
  BY DEF LibraryInv, ClientInv, ControlInv, HandlerInv, ContextInv, ContextsFreed
<1>. QED  BY <1>1, HandlerInvariant, PTL
-----------------------------------------------------------------------------
(* The page, as the peer gets it.                                          *)

(* What is written is a status line, the headers that are added to an      *)
(* answer that has none, the blank line and the piece of body.             *)
IsPage(w) ==
    /\ w \in Seq(Tokens) /\ Len(w) = 7
    /\ w[1].name = "status" /\ w[2].name = "server" /\ w[3].name = "type"
    /\ w[4].name = "length" /\ w[4].n = BodyLength /\ w[5].name = "connection"
    /\ w[6].name = "blank" /\ w[7].name = "body"

(* Such a response is whole, and as long as it says.                       *)
LEMMA PageShaped ==
    ASSUME NEW w, IsPage(w)
    PROVE  /\ Shaped(w)
           /\ Count(w, "length") = 1 /\ Count(w, "body") = BodyLength
           /\ LengthOf(w) = BodyLength
<1>3. w \in Seq(Tokens) /\ Len(w) = 7
  BY DEF IsPage
<1>5. /\ w[1].name = "status" /\ w[2].name = "server" /\ w[3].name = "type"
      /\ w[4].name = "length" /\ w[5].name = "connection"
      /\ w[6].name = "blank" /\ w[7].name = "body" /\ w[4].n = BodyLength
  BY DEF IsPage
<1>6. \A i : i \in 1 .. Len(w) <=> i \in {1, 2, 3, 4, 5, 6, 7}
  BY <1>3
<1>7. /\ Count(w, "status") = 1 /\ Count(w, "server") = 1 /\ Count(w, "length") = 1
      /\ Count(w, "connection") = 1 /\ Count(w, "blank") = 1 /\ Count(w, "body") = 1
  <2>1. /\ \A i \in 1 .. Len(w) : w[i].name = "status" => i = 1
        /\ \A i \in 1 .. Len(w) : w[i].name = "server" => i = 2
        /\ \A i \in 1 .. Len(w) : w[i].name = "length" => i = 4
        /\ \A i \in 1 .. Len(w) : w[i].name = "connection" => i = 5
        /\ \A i \in 1 .. Len(w) : w[i].name = "blank" => i = 6
        /\ \A i \in 1 .. Len(w) : w[i].name = "body" => i = 7
    BY <1>5, <1>6
  <2>2. {1, 2, 4, 5, 6, 7} \subseteq 1 .. Len(w)
    BY <1>3
  <2>3. Count(w, "status") = 1 /\ Count(w, "server") = 1
    BY <2>1, <2>2, <1>3, <1>5, OnePlace
  <2>4. Count(w, "length") = 1 /\ Count(w, "connection") = 1
    BY <2>1, <2>2, <1>3, <1>5, OnePlace
  <2>5. Count(w, "blank") = 1 /\ Count(w, "body") = 1
    BY <2>1, <2>2, <1>3, <1>5, OnePlace
  <2>. QED  BY <2>3, <2>4, <2>5
<1>8. Count(w, "cut") = 0
  <2>1. Places(w, "cut") = {}
    BY SMTT(30), <1>3, <1>5, <1>6, PlaceFacts
  <2>. QED  BY <2>1, <1>3, PlaceFacts
<1>9. \A i, j \in 1 .. Len(w) : w[i].name = "blank" /\ i # j => (i < j <=> w[j].name = "body")
  <2>1. \A i \in 1 .. Len(w) : w[i].name = "blank" => i = 6
    BY <1>5, <1>6
  <2>2. \A j \in 1 .. Len(w) : w[j].name = "body" <=> j = 7
    BY <1>5, <1>6
  <2>3. \A j \in 1 .. Len(w) : j # 6 => (6 < j <=> j = 7)
    BY <1>6
  <2>. QED  BY <2>1, <2>2, <2>3
<1>10. LengthOf(w) = BodyLength
  <2>. DEFINE I == {i \in 1 .. Len(w) : w[i].name = "length"}
  <2>1. I = {4}
    BY <1>5, <1>6
  <2>2. SelectInSeq(w, LAMBDA t : t.name = "length") = Min(I)
    BY <2>1 DEF SelectInSeq
  <2>3. Min(I) = 4
    <3>1. I \in SUBSET Nat /\ I # {}
      BY <2>1
    <3>2. Min(I) \in I
      BY <3>1, LeastNumber
    <3>. QED  BY <3>2, <2>1
  <2>. HIDE DEF I
  <2>. QED  BY <2>2, <2>3, <1>5 DEF LengthOf
<1>11. Shaped(w)
  <2>1. \A h \in {"server", "connection"} : Count(w, h) >= 1
    BY <1>7
  <2>2. w # <<>>
    BY <1>3
  <2>. QED  BY <2>1, <2>2, <1>5, <1>7, <1>8, <1>9 DEF Shaped
<1>. QED  BY <1>3, <1>7, <1>10, <1>11 DEF BodyLength

(* A sequence with one token more.                                         *)
LEMMA Longer ==
    ASSUME NEW u \in Seq(Tokens), NEW e \in Tokens
    PROVE  /\ u \o <<e>> \in Seq(Tokens) /\ Len(u \o <<e>>) = Len(u) + 1
           /\ \A i \in 1 .. Len(u) : (u \o <<e>>)[i] = u[i]
           /\ (u \o <<e>>)[Len(u) + 1] = e
<1>. DEFINE v == <<e>>
            w == u \o v
<1>1. v \in Seq(Tokens) /\ Len(v) = 1 /\ v[1] = e
  BY OneToken
<1>. HIDE DEF v
<1>2. /\ w \in Seq(Tokens) /\ Len(w) = Len(u) + Len(v)
      /\ \A i \in 1 .. Len(u) + Len(v) : w[i] = IF i <= Len(u) THEN u[i] ELSE v[i - Len(u)]
  BY <1>1, ConcatProperties
<1>. HIDE DEF w
<1>3. Len(u) \in Nat
  BY LenProperties
<1>4. \A i \in 1 .. Len(u) : w[i] = u[i]
  BY <1>1, <1>2, <1>3
<1>5. w[Len(u) + 1] = e
  <2>1. Len(u) + 1 \in 1 .. Len(u) + Len(v) /\ ~(Len(u) + 1 <= Len(u)) /\ (Len(u) + 1) - Len(u) = 1
    BY <1>1, <1>3
  <2>2. w[Len(u) + 1] = v[1]
    BY <2>1, <1>2
  <2>. QED  BY <2>2, <1>1
<1>6. /\ w \in Seq(Tokens) /\ Len(w) = Len(u) + 1
      /\ (\A i \in 1 .. Len(u) : w[i] = u[i]) /\ w[Len(u) + 1] = e
  BY <1>1, <1>2, <1>4, <1>5
<1>. QED  BY <1>6 DEF w, v

(* Seven tokens, as they are appended.                                     *)
LEMMA Seven ==
    ASSUME NEW a \in Tokens, NEW b \in Tokens, NEW c \in Tokens, NEW d \in Tokens,
           NEW e \in Tokens, NEW f \in Tokens, NEW g \in Tokens
    PROVE  LET w == (((((<<a>> \o <<b>>) \o <<c>>) \o <<d>>) \o <<e>>) \o <<f>>) \o <<g>> IN
           /\ w \in Seq(Tokens) /\ Len(w) = 7
           /\ w[1] = a /\ w[2] = b /\ w[3] = c /\ w[4] = d /\ w[5] = e /\ w[6] = f /\ w[7] = g
<1>. DEFINE w1 == <<a>>
            w2 == w1 \o <<b>>
            w3 == w2 \o <<c>>
            w4 == w3 \o <<d>>
            w5 == w4 \o <<e>>
            w6 == w5 \o <<f>>
            w7 == w6 \o <<g>>
<1>1. w1 \in Seq(Tokens) /\ Len(w1) = 1 /\ w1[1] = a
  BY OneToken
<1>. HIDE DEF w1
<1>2. w2 \in Seq(Tokens) /\ Len(w2) = 2 /\ w2[1] = a /\ w2[2] = b
  <2>1. /\ w2 \in Seq(Tokens) /\ Len(w2) = Len(w1) + 1
        /\ (\A i \in 1 .. Len(w1) : w2[i] = w1[i]) /\ w2[Len(w1) + 1] = b
    BY <1>1, Longer
  <2>. HIDE DEF w2
  <2>. QED  BY <2>1, <1>1
<1>. HIDE DEF w2
<1>3. /\ w3 \in Seq(Tokens) /\ Len(w3) = 3
      /\ w3[1] = a /\ w3[2] = b /\ w3[3] = c
  <2>1. /\ w3 \in Seq(Tokens) /\ Len(w3) = Len(w2) + 1
        /\ (\A i \in 1 .. Len(w2) : w3[i] = w2[i]) /\ w3[Len(w2) + 1] = c
    BY <1>2, Longer
  <2>. HIDE DEF w3
  <2>2. {1, 2} \subseteq 1 .. Len(w2) /\ Len(w2) + 1 = 3
    BY <1>2
  <2>. QED  BY <2>1, <2>2, <1>2
<1>. HIDE DEF w3
<1>4. /\ w4 \in Seq(Tokens) /\ Len(w4) = 4
      /\ w4[1] = a /\ w4[2] = b /\ w4[3] = c /\ w4[4] = d
  <2>1. /\ w4 \in Seq(Tokens) /\ Len(w4) = Len(w3) + 1
        /\ (\A i \in 1 .. Len(w3) : w4[i] = w3[i]) /\ w4[Len(w3) + 1] = d
    BY <1>3, Longer
  <2>. HIDE DEF w4
  <2>2. {1, 2, 3} \subseteq 1 .. Len(w3) /\ Len(w3) + 1 = 4
    BY <1>3
  <2>. QED  BY <2>1, <2>2, <1>3
<1>. HIDE DEF w4
<1>5. /\ w5 \in Seq(Tokens) /\ Len(w5) = 5
      /\ w5[1] = a /\ w5[2] = b /\ w5[3] = c /\ w5[4] = d /\ w5[5] = e
  <2>1. /\ w5 \in Seq(Tokens) /\ Len(w5) = Len(w4) + 1
        /\ (\A i \in 1 .. Len(w4) : w5[i] = w4[i]) /\ w5[Len(w4) + 1] = e
    BY <1>4, Longer
  <2>. HIDE DEF w5
  <2>2. {1, 2, 3, 4} \subseteq 1 .. Len(w4) /\ Len(w4) + 1 = 5
    BY <1>4
  <2>. QED  BY <2>1, <2>2, <1>4
<1>. HIDE DEF w5
<1>6. /\ w6 \in Seq(Tokens) /\ Len(w6) = 6
      /\ w6[1] = a /\ w6[2] = b /\ w6[3] = c /\ w6[4] = d /\ w6[5] = e /\ w6[6] = f
  <2>1. /\ w6 \in Seq(Tokens) /\ Len(w6) = Len(w5) + 1
        /\ (\A i \in 1 .. Len(w5) : w6[i] = w5[i]) /\ w6[Len(w5) + 1] = f
    BY <1>5, Longer
  <2>. HIDE DEF w6
  <2>2. {1, 2, 3, 4, 5} \subseteq 1 .. Len(w5) /\ Len(w5) + 1 = 6
    BY <1>5
  <2>. QED  BY <2>1, <2>2, <1>5
<1>. HIDE DEF w6
<1>7. /\ w7 \in Seq(Tokens) /\ Len(w7) = 7
      /\ w7[1] = a /\ w7[2] = b /\ w7[3] = c /\ w7[4] = d /\ w7[5] = e /\ w7[6] = f /\ w7[7] = g
  <2>1. /\ w7 \in Seq(Tokens) /\ Len(w7) = Len(w6) + 1
        /\ (\A i \in 1 .. Len(w6) : w7[i] = w6[i]) /\ w7[Len(w6) + 1] = g
    BY <1>6, Longer
  <2>. HIDE DEF w7
  <2>2. {1, 2, 3, 4, 5, 6} \subseteq 1 .. Len(w6) /\ Len(w6) + 1 = 7
    BY <1>6
  <2>. QED  BY <2>1, <2>2, <1>6
<1>. HIDE DEF w7
<1>. QED  BY <1>7 DEF w1, w2, w3, w4, w5, w6, w7
(* The head that is added to an answer that has no header: four of them    *)
(* and the blank line.                                                     *)
LEMMA HeadAdded ==
    ASSUME NEW s \in Streams, s.sent = {}, s.clen = BodyLength, conn.keepalive \in BOOLEAN
    PROVE  \E k \in {0, 1} :
              Head_(s) = (((<<Token("server")>> \o <<Token("type")>>)
                             \o <<Header("length", BodyLength)>>)
                             \o <<Header("connection", k)>>) \o <<Token("blank")>>
<1>. DEFINE k == IF conn.keepalive THEN 1 ELSE 0
<1>1. MissingHeaders(s) = ((<<Header("server", 0)>> \o <<Header("type", 0)>>)
                             \o <<Header("length", BodyLength)>>) \o <<Header("connection", k)>>
  <2>1. s.clen # AUTO
    BY DEF BodyLength, AUTO
  <2>. QED  BY <2>1 DEF MissingHeaders
<1>2. Head_(s) = MissingHeaders(s) \o <<Token("blank")>>
  BY HeadFacts
<1>3. k \in {0, 1}
  OBVIOUS
<1>. HIDE DEF k
<1>. QED  BY <1>1, <1>2, <1>3 DEF Token

(* With it an answer that has its status line only, and the piece of body, *)
(* is a page.                                                              *)
LEMMA PageMade ==
    ASSUME NEW s \in Streams, s.sent = {}, s.clen = BodyLength, conn.keepalive \in BOOLEAN
    PROVE  IsPage((<<Token("status")>> \o Head_(s)) \o <<Token("body")>>)
<1>1. PICK k \in {0, 1} :
         Head_(s) = (((<<Token("server")>> \o <<Token("type")>>)
                        \o <<Header("length", BodyLength)>>)
                        \o <<Header("connection", k)>>) \o <<Token("blank")>>
  BY HeadAdded
<1>. DEFINE a == Token("status")
            b == Token("server")
            c == Token("type")
            d == Header("length", BodyLength)
            e == Header("connection", k)
            f == Token("blank")
            g == Token("body")
<1>2. /\ a \in Tokens /\ b \in Tokens /\ c \in Tokens /\ d \in Tokens /\ e \in Tokens
      /\ f \in Tokens /\ g \in Tokens
      /\ a.name = "status" /\ b.name = "server" /\ c.name = "type" /\ d.name = "length"
      /\ d.n = BodyLength /\ e.name = "connection" /\ f.name = "blank" /\ g.name = "body"
  <2>1. /\ BodyLength \in Int /\ k \in Int
        /\ {"status", "server", "type", "blank", "body"} \subseteq TokenNames
        /\ {"length", "connection"} \subseteq Names \cup {"other"}
    BY DEF TokenNames, BodyLength, Names
  <2>. QED  BY <2>1, TokenTyped, HeaderTyped
<1>3. Head_(s) = (((<<b>> \o <<c>>) \o <<d>>) \o <<e>>) \o <<f>>
  BY <1>1
<1>. HIDE DEF a, b, c, d, e, f, g
<1>4. /\ <<a>> \in Seq(Tokens) /\ <<b>> \in Seq(Tokens) /\ <<c>> \in Seq(Tokens)
      /\ <<d>> \in Seq(Tokens) /\ <<e>> \in Seq(Tokens) /\ <<f>> \in Seq(Tokens)
  BY <1>2
<1>. DEFINE u3 == <<b>> \o <<c>>
            u4 == u3 \o <<d>>
            u5 == u4 \o <<e>>
<1>5. u3 \in Seq(Tokens) /\ u4 \in Seq(Tokens) /\ u5 \in Seq(Tokens)
  <2>1. u3 \in Seq(Tokens)
    BY <1>4, ConcatProperties
  <2>. HIDE DEF u3
  <2>2. u4 \in Seq(Tokens)
    BY <2>1, <1>4, ConcatProperties
  <2>. HIDE DEF u4
  <2>3. u5 \in Seq(Tokens)
    BY <2>2, <1>4, ConcatProperties
  <2>. QED  BY <2>1, <2>2, <2>3
<1>6. <<a>> \o (u5 \o <<f>>) = (((((<<a>> \o <<b>>) \o <<c>>) \o <<d>>) \o <<e>>) \o <<f>>)
  <2>1. <<a>> \o u3 = (<<a>> \o <<b>>) \o <<c>>
    BY <1>4, Together
  <2>2. <<a>> \o u4 = (<<a>> \o u3) \o <<d>>
    BY <1>4, <1>5, Together
  <2>3. <<a>> \o u5 = (<<a>> \o u4) \o <<e>>
    BY <1>4, <1>5, Together
  <2>4. <<a>> \o (u5 \o <<f>>) = (<<a>> \o u5) \o <<f>>
    BY <1>4, <1>5, Together
  <2>. HIDE DEF u3, u4, u5
  <2>. QED  BY <2>1, <2>2, <2>3, <2>4, Zenon
<1>. DEFINE w == (((((<<a>> \o <<b>>) \o <<c>>) \o <<d>>) \o <<e>>) \o <<f>>) \o <<g>>
<1>7. /\ w \in Seq(Tokens) /\ Len(w) = 7
      /\ w[1] = a /\ w[2] = b /\ w[3] = c /\ w[4] = d /\ w[5] = e /\ w[6] = f /\ w[7] = g
  BY <1>2, Seven
<1>8. (<<Token("status")>> \o Head_(s)) \o <<Token("body")>> = w
  <2>1. (<<a>> \o Head_(s)) \o <<g>> = w
    BY <1>3, <1>6, Zenon
  <2>. QED  BY <2>1 DEF a, g
<1>. HIDE DEF w
<1>9. IsPage(w)
  BY <1>2, <1>7 DEF IsPage
<1>. QED  BY <1>8, <1>9

(* aisl_write and aisl_printf, when only the response was begun.           *)
LEMMA PageWritten ==
    ASSUME NEW s \in Streams, s.state = SEND_HEADER, conn.keepalive \in BOOLEAN,
           NEW o \in Write(s)
    PROVE  /\ o.s.state \in {SEND_HEADER, SEND_BODY}
           /\ o.ok /\ s.sent = {} /\ s.clen = BodyLength /\ s.buf = <<Token("status")>> =>
                 o.s.state = SEND_BODY /\ "length" \in o.s.sent /\ IsPage(o.s.buf)
<1>1. PICK r \in aisl_stream_close_headers(s) :
         o \in IF r.ok THEN Appended(r.s, <<Token("body")>>) ELSE {r}
  <2>1. s.state < SEND_BODY
    BY StatesAre
  <2>. QED  BY <2>1 DEF Write
<1>2. PICK q \in Response(s, AUTO) : q \in Outcomes /\ IF q.ok THEN Closed(q, r) ELSE r = q
  BY CloseFacts
<1>3. q.ok /\ q.s = s
  <2>1. AUTO \in Nat \cup {AUTO} /\ s.state > READY
    BY StatesAre
  <2>. QED  BY ZenonT(40), <2>1, ResponseFacts
<1>4. PICK added \in Seq(Tokens) :
         /\ r \in Outcomes /\ r.s.buf = s.buf \o added
         /\ \A x \in Names : x \in r.s.sent <=> x \in s.sent \/ Has(added, x)
         /\ r.ok => added = Head_(s) /\ r.s.state = SEND_BODY
         /\ ~r.ok => r.s.state = s.state
  BY <1>2, <1>3 DEF Closed
<1>5. r.s \in Streams
  BY <1>4 DEF Outcomes
<1>6. CASE ~r.ok
  BY <1>1, <1>4, <1>6
<1>7. CASE r.ok
  <2>1. Token("body") \in Tokens
    BY TokenTyped DEF TokenNames
  <2>2. SameButBuf(o.s, r.s) /\ (o.ok => o.s.buf = r.s.buf \o <<Token("body")>>)
    <3>1. o \in Appended(r.s, <<Token("body")>>)
      BY <1>1, <1>7
    <3>. QED  BY SMTT(30), <3>1, <2>1, <1>5, AppendedOne
  <2>3. o.s.state = SEND_BODY /\ o.s.sent = r.s.sent
    BY <2>2, <1>4, <1>7 DEF SameButBuf
  <2>4. ASSUME o.ok, s.sent = {}, s.clen = BodyLength, s.buf = <<Token("status")>>
        PROVE  "length" \in o.s.sent /\ IsPage(o.s.buf)
    <3>1. o.s.buf = (<<Token("status")>> \o Head_(s)) \o <<Token("body")>>
      BY <2>2, <2>4, <1>4, <1>7
    <3>2. IsPage(o.s.buf)
      BY <3>1, <2>4, PageMade
    <3>3. Has(MissingHeaders(s), "length")
      <4>1. s.clen # AUTO
        BY <2>4 DEF BodyLength, AUTO
      <4>. QED  BY <4>1, <2>4, MissingFacts DEF Names
    <3>4. Has(Head_(s), "length")
      <4>1. /\ MissingHeaders(s) \in Seq(Tokens) /\ <<Token("blank")>> \in Seq(Tokens)
            /\ Head_(s) = MissingHeaders(s) \o <<Token("blank")>>
        BY MissingFacts, HeadFacts, LineTokens DEF Blank
      <4>. HIDE DEF Has
      <4>. QED  BY <4>1, <3>3, ConcatNames
    <3>. QED  BY <3>2, <3>4, <2>3, <1>4, <1>7 DEF Names
  <2>. QED  BY <2>3, <2>4
<1>. QED  BY <1>6, <1>7
-----------------------------------------------------------------------------
(* Requests are answered, with a page that is whole.                       *)

(* The answer of the page: begun, closed with its body, flushed, sent.     *)
PageInv ==
    /\ hand \in {"body", "flush"} => wire = <<>>
    /\ hand = "body" =>
          /\ stream.state = SEND_HEADER
          /\ reply = "page" => /\ stream.buf = <<Token("status")>> /\ stream.sent = {}
                               /\ stream.clen = BodyLength
    /\ hand = "flush" =>
          stream.state = SEND_BODY /\ "length" \in stream.sent /\ IsPage(stream.buf)
    /\ stream.state = DONE => "lost" \in log.marks \/ IsPage(Sofar(stream))
    /\ log.complete => "lost" \in log.marks \/ IsPage(wire)

AppInv == LibraryInv /\ HandlerInv /\ AnswerInv /\ PageInv

(* The library's steps on the page: they send it, lose it, or replace the  *)
(* stream, and the parser leaves it alone.                                 *)
LEMMA PageLibrary ==
    ASSUME LibraryInv, PageInv, Library \/ Tick \/ Return, hand' \notin {"body", "flush"}
    PROVE  PageInv'
<1>1. (Quiet /\ QuietKeeps) \/ (Parse /\ ParseEffect /\ ParseKeeps)
  BY QuietSteps, QuietContents, ParseMoves, ParseContents DEF Library, LibraryInv
<1>2. stream.state \in 0 .. 6 /\ wire \in Seq(Tokens)
  BY StreamFields DEF LibraryInv, ClientInv, Typed
<1>3. CASE Quiet /\ QuietKeeps
  <2>1. CASE /\ wire' = wire /\ log'.marks = log.marks /\ log'.complete = log.complete
             /\ stream' = stream \/ stream' = FreshStream
    <3>1. stream'.state = DONE => stream' = stream
      BY <2>1, FreshFacts, StatesAre
    <3>. QED  BY <3>1, <2>1 DEF PageInv, Sofar
  <2>2. CASE /\ SameButBuf(stream', stream) /\ log.marks \subseteq log'.marks
             /\ "lost" \notin log'.marks => Sofar(stream)' = Sofar(stream)
             /\ log'.complete = aisl_stream_is_done(stream')
             /\ wire' \in Seq(Tokens)
    <3>1. stream'.state = stream.state
      BY <2>2 DEF SameButBuf
    <3>2. stream'.state = DONE => "lost" \in log'.marks \/ IsPage(Sofar(stream)')
      BY <3>1, <2>2 DEF PageInv
    <3>3. log'.complete => stream'.state = DONE /\ Sofar(stream)' = wire'
      <4>1. wire' \o <<>> = wire'
        BY <2>2, ConcatEmptySeq
      <4>. QED  BY <4>1, <2>2 DEF aisl_stream_is_done, Sofar
    <3>4. log'.complete => "lost" \in log'.marks \/ IsPage(wire')
      BY <3>2, <3>3
    <3>. QED  BY <3>2, <3>4 DEF PageInv
  <2>. QED  BY <1>3, <2>1, <2>2 DEF QuietKeeps
<1>4. CASE Parse /\ ParseEffect /\ ParseKeeps
  <2>1. wire' = wire /\ Sofar(stream)' = Sofar(stream)
    BY <1>4 DEF ParseKeeps, Sofar
  <2>2. stream'.state = DONE => stream.state = DONE /\ stream.state > READY
    BY <1>2, <1>4, StatesAre DEF ParseKeeps
  <2>3. \/ log.marks \subseteq log'.marks /\ log'.complete = log.complete
        \/ stream.state <= READY /\ log'.complete = FALSE
    BY <1>4 DEF ParseKeeps
  <2>4. stream'.state = DONE => "lost" \in log'.marks \/ IsPage(Sofar(stream)')
    <3>1. stream'.state = DONE => ~(stream.state <= READY)
      BY <2>2, <1>2, StatesAre
    <3>. QED  BY <3>1, <2>1, <2>2, <2>3 DEF PageInv
  <2>5. log'.complete => "lost" \in log'.marks \/ IsPage(wire')
    BY <2>1, <2>3 DEF PageInv
  <2>. QED  BY <2>4, <2>5 DEF PageInv
<1>. QED  BY <1>1, <1>3, <1>4

(* The calls of the handler.                                               *)
LEMMA PageRespond ==
    ASSUME LibraryInv, HandlerInv, PageInv, Respond
    PROVE  PageInv' /\ stream.state <= stream'.state
<1>. DEFINE c_len == IF reply = "page" THEN BodyLength ELSE AUTO
<1>0. stream \in Streams /\ stream.state \in 0 .. 6
  BY StreamFields DEF LibraryInv, ClientInv, Typed
<1>1. PICK o \in Response(stream, c_len) :
         /\ stream' = o.s
         /\ hand' = IF o.ok /\ stream.state <= READY THEN "body" ELSE "reject"
         /\ reply' = reply
  BY DEF Respond, Goes
<1>2. c_len \in Nat \cup {AUTO} /\ (reply = "page" => c_len = BodyLength)
  BY DEF BodyLength
<1>. HIDE DEF c_len
<1>3. /\ stream.state > READY => stream' = stream
      /\ stream.state <= READY =>
           /\ stream'.clen = c_len /\ stream'.sent = stream.sent
           /\ o.ok => stream'.state = SEND_HEADER /\ stream'.buf = <<Token("status")>>
           /\ ~o.ok => stream'.state = stream.state
  BY <1>0, <1>1, <1>2, ResponseFacts
<1>4. wire' = wire /\ log'.complete = log.complete /\ log.marks \subseteq log'.marks
  BY RespondCalls, CallStays DEF LibraryInv, HandlerInv
<1>5. stream.state <= READY => stream.sent = {} /\ wire = <<>>
  <2>1. log.raised \in {"REQUEST", "OPEN"}
    BY DEF Respond, At, HandlerInv, HandInv, Answering
  <2>. QED  BY <2>1 DEF LibraryInv, LiveInv
<1>6. CASE stream.state > READY
  <2>1. hand' = "reject" /\ stream' = stream
    BY <1>0, <1>1, <1>3, <1>6, StatesAre
  <2>. QED  BY <2>1, <1>0, <1>4 DEF PageInv, Sofar
<1>7. CASE stream.state <= READY
  <2>1. stream'.state # DONE /\ stream.state <= stream'.state
    BY <1>0, <1>3, <1>7, StatesAre
  <2>2. hand' = "body" => stream'.state = SEND_HEADER /\ stream'.buf = <<Token("status")>>
    BY <1>1, <1>3, <1>7
  <2>3. hand' # "flush"
    BY <1>1
  <2>. QED  BY <2>1, <2>2, <2>3, <1>1, <1>2, <1>3, <1>4, <1>5, <1>7 DEF PageInv
<1>. QED  BY <1>0, <1>6, <1>7, StatesAre

(* A run of aisl_bare_app_run, whatever handler it takes, keeps the buffer
   at flush a page and what is sent of it a page until it ends. *)
LEMMA PageBody ==
    ASSUME LibraryInv, HandlerInv, PageInv, Body
    PROVE  PageInv'
<1>0. stream \in Streams /\ conn.keepalive \in BOOLEAN
  BY DEF LibraryInv, ClientInv, Typed, Conns
<1>1. PICK o \in Write(stream) :
         stream' = o.s /\ hand' = IF o.ok /\ reply = "page" THEN "flush" ELSE "reject"
  BY DEF Body, Goes
<1>2. wire' = wire /\ log'.complete = log.complete /\ log.marks \subseteq log'.marks
  BY BodyCalls, CallStays DEF LibraryInv, HandlerInv
<1>3. /\ hand = "body" /\ wire = <<>> /\ stream.state = SEND_HEADER
      /\ reply = "page" => /\ stream.buf = <<Token("status")>> /\ stream.sent = {}
                           /\ stream.clen = BodyLength
  BY DEF Body, At, PageInv
<1>4. /\ stream'.state \in {SEND_HEADER, SEND_BODY}
      /\ o.ok /\ reply = "page" =>
            stream'.state = SEND_BODY /\ "length" \in stream'.sent /\ IsPage(stream'.buf)
  BY <1>0, <1>1, <1>3, PageWritten
<1>5. stream'.state # DONE
  BY <1>4, StatesAre
<1>. QED  BY <1>1, <1>2, <1>3, <1>4, <1>5 DEF PageInv

(* The page is flushed: its length is in its head already.                 *)
LEMMA PageFlush ==
    ASSUME LibraryInv, HandlerInv, PageInv, FlushPage
    PROVE  PageInv' /\ stream'.state = DONE
<1>0. stream \in Streams /\ stream.buf \in Seq(Tokens)
  BY StreamFields DEF LibraryInv, ClientInv, Typed
<1>1. /\ hand = "flush" /\ hand' = "return" /\ wire = <<>>
      /\ "length" \in stream.sent /\ IsPage(stream.buf)
  BY DEF FlushPage, At, Goes, PageInv
<1>2. \E o \in Flush(stream) : stream' = o.s
  BY DEF FlushPage, CallFlush
<1>4. IsFlushed(stream', stream)
  <2>1. Legal(stream) /\ conn.keepalive \in BOOLEAN
    BY DEF LibraryInv, ClientInv, Typed, Legal, Conns
  <2>. QED  BY <2>1, <1>1, <1>2, FlushFacts
<1>5. stream'.state = DONE /\ stream'.buf = stream.buf
  BY <1>4 DEF IsFlushed
<1>6. wire' = wire /\ log'.complete = log.complete /\ log.marks \subseteq log'.marks
  <2>1. CallEffect
    BY FlushEffect DEF FlushPage, LibraryInv, ClientInv
  <2>. QED  BY <2>1, CallStays
<1>7. Sofar(stream)' = stream.buf
  BY <1>0, <1>1, <1>5, <1>6, ConcatEmptySeq DEF Sofar
<1>8. log'.complete => "lost" \in log'.marks \/ IsPage(wire')
  BY <1>6 DEF PageInv
<1>. QED  BY <1>1, <1>5, <1>7, <1>8 DEF PageInv
(* Every step keeps the page.                                              *)
LEMMA PageStep ==
    ASSUME LibraryInv, HandlerInv, PageInv, [AppNext]_appVars
    PROVE  PageInv'
<1>1. CASE LibraryGoes \/ TimePasses \/ Close \/ Leaves
  <2>1. Library \/ Tick \/ Return
    BY <1>1 DEF LibraryGoes, TimePasses, Close, ExampleClosed, welcome_on_close, CloseStream,
                Library, Output, Leaves
  <2>2. hand' \notin {"body", "flush"}
    BY <1>1 DEF LibraryGoes, TimePasses, Close, ExampleClosed, welcome_on_close, Leaves, Runs,
                Goes, own
  <2>. QED  BY <2>1, <2>2, PageLibrary
<1>2. CASE hello_world \/ OpenFound \/ OpenMissing \/ Routed
  <2>1. hand' \notin {"body", "flush"} /\ UNCHANGED vars
    BY <1>2 DEF hello_world, OpenFound, OpenMissing, Routed, Handle
  <2>. QED  BY <2>1 DEF PageInv, Sofar, vars
<1>3. CASE get_module_from_stream \/ BodyCrash \/ Ended \/ UNCHANGED appVars
  <2>1. hand' = hand /\ reply' = reply /\ UNCHANGED vars
    BY <1>3 DEF get_module_from_stream, BodyCrash, Ended, appVars, own
  <2>. QED  BY <2>1 DEF PageInv, Sofar, vars
<1>4. CASE Reject
  <2>1. hand' = "return" /\ stream' = stream /\ log' = log /\ wire' = wire
    BY <1>4 DEF Reject, Goes, CallReject, Kept, vars
  <2>. QED  BY <2>1 DEF PageInv, Sofar
<1>. QED  BY <1>1, <1>2, <1>3, <1>4, PageRespond, PageBody, PageFlush DEF AppNext, Handler

(* Every step keeps that a request is answered.                            *)
LEMMA AnswerStep ==
    ASSUME LibraryInv, HandlerInv, PageInv, AnswerInv, [AppNext]_appVars
    PROVE  AnswerInv'
<1>0. conn \in Conns /\ stream \in Streams /\ log \in Logs
  BY DEF LibraryInv, ClientInv, Typed
<1>1. CASE LibraryGoes \/ TimePasses
  <2>. SUFFICES ASSUME log'.raised \in {"REQUEST", "OUTPUT"}
                PROVE  \/ stream'.state = DONE \/ ~conn'.online
                       \/ hand' = "enter" /\ log'.raised = "REQUEST"
    BY DEF AnswerInv
  <2>1. hand = "out" /\ alive /\ (Library \/ Tick)
    BY <1>1 DEF LibraryGoes, TimePasses, Runs
  <2>2. log'.raised = log.raised \/ (hand' = "enter" /\ log'.raised = "REQUEST")
                                 \/ log'.raised = "OUTPUT"
    <3>1. CASE LibraryGoes
      <4>1. Library /\ hand' = IF pc' = "callback" THEN "enter" ELSE "out"
        BY <3>1 DEF LibraryGoes
      <4>. QED  BY <4>1, Raises DEF LibraryInv
    <3>2. CASE TimePasses
      BY <3>2 DEF TimePasses, Tick
    <3>. QED  BY <1>1, <3>1, <3>2
  <2>3. (Quiet /\ QuietKeeps) \/ (Parse /\ ParseEffect)
    BY <2>1, QuietSteps, QuietContents, ParseMoves DEF Library, LibraryInv
  <2>4. CASE Quiet /\ QuietKeeps
    <3>1. log.raised \in {"REQUEST", "OUTPUT"} /\ (conn'.online => conn.online)
      BY <2>4 DEF Quiet
    <3>2. stream.state = DONE \/ ~conn.online
      BY <3>1, <2>1 DEF AnswerInv, Answering
    <3>3. stream'.state = stream.state
      BY <2>4 DEF QuietKeeps, SameButBuf
    <3>. QED  BY <3>1, <3>2, <3>3
  <2>5. CASE Parse /\ ParseEffect
    <3>1. log.raised \notin {"REQUEST", "OUTPUT"}
      BY <2>5, ParseReads DEF LibraryInv, ClientInv, RaisedInv
    <3>2. log'.raised # "OUTPUT"
      BY <2>5, <3>1 DEF ParseEffect
    <3>. QED  BY <2>2, <3>1, <3>2
  <2>. QED  BY <2>3, <2>4, <2>5
<1>2. CASE Close
  <2>1. \E e \in {"none", "CLOSE"} : log' = [log EXCEPT !.raised = e]
    BY <1>2 DEF Close, ExampleClosed, welcome_on_close, CloseStream, FinishKeep, FinishNoStream,
                Reap
  <2>2. log'.raised \in {"none", "CLOSE"}
    BY <2>1, <1>0 DEF Logs
  <2>. QED  BY <2>2 DEF AnswerInv
<1>3. CASE hello_world \/ OpenFound \/ OpenMissing \/ Routed
  <2>1. /\ hand = "enter" /\ UNCHANGED vars /\ alive' = alive
        /\ log.raised = "REQUEST" => hand' = "response"
    BY <1>3 DEF hello_world, OpenFound, OpenMissing, Routed, Handle, Enters
  <2>. QED  BY <2>1 DEF AnswerInv, Answering, vars
<1>4. CASE get_module_from_stream \/ BodyCrash
  <2>1. alive' = FALSE
    BY <1>4 DEF get_module_from_stream, BodyCrash
  <2>. QED  BY <2>1 DEF AnswerInv
<1>5. CASE Respond \/ Body
  <2>1. hand' \in {"body", "flush", "reject"}
    BY <1>5 DEF Respond, Body, Goes
  <2>. QED  BY <2>1 DEF AnswerInv, Answering
<1>6. CASE FlushPage
  BY <1>6, PageFlush DEF AnswerInv
<1>7. CASE Reject
  <2>1. conn' = Offline(conn) \/ (~conn.online /\ conn' = conn)
    BY <1>7 DEF Reject, CallReject, vars
  <2>2. ~conn'.online
    BY <2>1, <1>0 DEF Offline, Conns
  <2>. QED  BY <2>2 DEF AnswerInv
<1>8. CASE Leaves
  <2>1. hand = "return" /\ alive' = alive /\ alive /\ conn' = conn /\ stream' = stream /\ log' = log
    BY <1>8 DEF Leaves, At, Goes, Return
  <2>. QED  BY <2>1 DEF AnswerInv, Answering
<1>9. CASE Ended \/ UNCHANGED appVars
  <2>1. hand' = hand /\ alive' = alive /\ UNCHANGED vars
    BY <1>9 DEF Ended, appVars, own
  <2>. QED  BY <2>1 DEF AnswerInv, vars
<1>. QED  BY <1>1, <1>2, <1>3, <1>4, <1>5, <1>6, <1>7, <1>8, <1>9 DEF AppNext, Handler

(* All of it holds from the start.                                         *)
LEMMA AppInvariant == AppSpec => []AppInv
<1>1. AppInit => PageInv /\ AnswerInv
  BY FreshFacts, StatesAre DEF AppInit, Init, PageInv, AnswerInv
<1>2. LibraryInv /\ HandlerInv /\ PageInv /\ AnswerInv /\ [AppNext]_appVars
         => (PageInv /\ AnswerInv)'
  BY PageStep, AnswerStep
<1>. QED  BY <1>1, <1>2, HandlerInvariant, PTL DEF AppSpec, AppInv

(* Whatever fails, a request that was delivered is answered to the end of  *)
(* its handler, or its connection is down: both programs look at what      *)
(* aisl_response and aisl_write return, and what aisl_flush returns does   *)
(* not matter after them (hello_world and welcome_on_request).             *)
THEOREM RequestsAnswered == AppSpec => []Answered
<1>1. AppInv => Answered
  BY DEF AppInv, AnswerInv, Answered, Answering
<1>. QED  BY <1>1, AppInvariant, PTL

(* A page that was sent to its end is whole, with one length, which is     *)
(* that of its body, also when allocations fail on the way; only the drop  *)
(* of output that is not sent yet breaks it.                               *)
THEOREM PagesWhole == AppSpec => []PageWhole
<1>1. ASSUME AppInv
      PROVE  PageWhole
  <2>1. log.complete /\ "lost" \notin log.marks => IsPage(wire)
    BY <1>1 DEF AppInv, PageInv
  <2>. QED  BY <2>1, PageShaped DEF PageWhole
<1>2. AppInv => PageWhole
  BY <1>1
<1>. QED  BY <1>2, AppInvariant, PTL

=============================================================================
