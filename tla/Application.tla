---------------------------- MODULE Application ----------------------------
(***************************************************************************)
(* The two applications in the repository, each as the callback of the     *)
(* client of module Client: the example (examples/hello-world.c) and the   *)
(* template (bare/src: main.c, router.c and welcome.c).                    *)
(*                                                                         *)
(* Both answer a request when it is complete: aisl_response, aisl_write,   *)
(* aisl_flush, and aisl_reject if one of the first two fails.  The         *)
(* template gives a stream for a path it knows a context when the stream   *)
(* is opened, answers any other path at once with an error, and frees the  *)
(* context when the stream is closed.  A handler takes one step per call   *)
(* of the library; Client does the rest.                                   *)
(***************************************************************************)
EXTENDS Client

(* The calls the two make; the template answers before STREAM_REQUEST.     *)
ASSUME ApplicationAssumption ==
    /\ {"response", "write", "flush", "reject"} \subseteq Calls
    /\ EarlyAnswer

BodyLength == 1   \* sizeof (html) - 1, in pieces of body

VARIABLES
    program,    \* which of the two is run
    hand,       \* where its handler is, "out" while the library runs
    reply,      \* "page", or "error" as from router_reply_error
    ctx,        \* whether the stream has a context (stream->u_ptr)
    contexts,   \* how many contexts are allocated for this client
    alive       \* whether the program runs

own == <<program, hand, reply, ctx, contexts, alive>>

appVars == <<vars, own>>

Programs == {"template", "example"}

AppInit ==
    /\ Init
    /\ program \in Programs
    /\ hand = "out"
    /\ reply = "page"
    /\ ctx = FALSE
    /\ contexts = 0
    /\ alive = TRUE

-----------------------------------------------------------------------------
(* The library runs.                                                       *)

(* It frees a stream: the handler of STREAM_CLOSE is called within.        *)
Closes ==
    \/ pc = "reap" /\ log.raised # "CLOSE"
    \/ pc = "finish" /\ conn.keepalive

Runs == alive /\ hand = "out"

(* It goes on to its next call of the callback, if any.                    *)
LibraryGoes ==
    /\ Runs /\ ~Closes
    /\ Library
    /\ hand' = IF pc' = "callback" THEN "enter" ELSE "out"
    /\ UNCHANGED <<program, reply, ctx, contexts, alive>>

TimePasses == Runs /\ Tick /\ UNCHANGED own

(* A client without a stream is freed, or the stream is closed.  Neither   *)
(* program disconnects in the handler.                                     *)
CloseStream == Reap \/ FinishNoStream \/ (FinishKeep /\ conn' = conn)

ExampleClosed ==
    /\ Runs /\ Closes /\ program = "example"
    /\ CloseStream
    /\ UNCHANGED own

(* Mutant of welcome_on_close: the context is kept for the next request.   *)
welcome_on_close_kept ==
    /\ Runs /\ Closes /\ program = "template" /\ ctx
    /\ CloseStream
    /\ ctx' = FALSE
    /\ UNCHANGED <<program, hand, reply, contexts, alive>>

(* welcome_on_close frees the context; the next stream has none.           *)
welcome_on_close ==
    /\ Runs /\ Closes /\ program = "template" /\ ctx
    /\ CloseStream
    /\ ctx' = FALSE /\ contexts' = contexts - 1
    /\ UNCHANGED <<program, hand, reply, alive>>

-----------------------------------------------------------------------------
(* The callback.                                                           *)

Enters(p_name, events) ==
    /\ alive /\ hand = "enter" /\ program = p_name /\ log.raised \in events

Handle(next) == hand' = next /\ UNCHANGED <<vars, program, contexts, alive>>

(* hello_world answers STREAM_REQUEST and prints the names of the others.  *)
hello_world ==
    /\ Enters("example", Events!Events)
    /\ Handle(IF log.raised = "REQUEST" THEN "response" ELSE "return")
    /\ reply' = "page"
    /\ UNCHANGED ctx

(* welcome_on_open knows the path, and has memory for a context.           *)
OpenFound ==
    /\ Enters("template", {"OPEN"})
    /\ ctx' = TRUE /\ contexts' = contexts + 1
    /\ hand' = "return"
    /\ UNCHANGED <<vars, program, reply, alive>>

(* Another path: 404; no memory: 500.                                      *)
OpenMissing ==
    /\ Enters("template", {"OPEN"})
    /\ Handle("response")
    /\ reply' = "error"
    /\ UNCHANGED ctx

(* Mutant of Routed: an error frees the context already.                   *)
Routed_frees ==
    /\ Enters("template", {"HEADER", "INPUT", "REQUEST", "OUTPUT", "ERROR"})
    /\ ctx
    /\ hand' = IF log.raised = "REQUEST" THEN "response" ELSE "return"
    /\ contexts' = IF log.raised = "ERROR" THEN contexts - 1 ELSE contexts
    /\ reply' = "page"
    /\ UNCHANGED <<vars, program, ctx, alive>>

(* With a context, the router finds the module, which has a handler for    *)
(* STREAM_REQUEST only.                                                    *)
Routed ==
    /\ Enters("template", {"HEADER", "INPUT", "REQUEST", "OUTPUT", "ERROR"})
    /\ ctx
    /\ Handle(IF log.raised = "REQUEST" THEN "response" ELSE "return")
    /\ reply' = "page"
    /\ UNCHANGED ctx

(* Without one, get_module_from_stream reads through a null pointer.       *)
get_module_from_stream ==
    /\ program = "template" /\ alive /\ ~ctx
    /\ \/ hand = "enter" /\ log.raised # "OPEN"
       \/ Runs /\ Closes
    /\ alive' = FALSE
    /\ UNCHANGED <<vars, program, hand, reply, ctx, contexts>>

At(point) == alive /\ hand = point

Goes(next) == hand' = next /\ UNCHANGED <<program, reply, ctx, contexts, alive>>

(* aisl_response; it also reports that a response was begun already.       *)
Respond ==
    LET c_len == IF reply = "page" THEN BodyLength ELSE AUTO IN
    /\ At("response")
    /\ \E o \in Response(stream, c_len) :
          /\ stream' = o.s
          /\ Marked(o, IF c_len # AUTO THEN {"explicit"} ELSE {})
          /\ Goes(IF o.ok /\ stream.state <= READY THEN "body" ELSE "reject")
    /\ Kept /\ UNCHANGED conn

(* Mutant of Body: what aisl_write returns is not looked at.               *)
Body_unchecked ==
    /\ At("body")
    /\ \E o \in Write(stream) :
          /\ stream' = o.s
          /\ Marked(o, {})
          /\ Goes(IF reply = "page" THEN "flush" ELSE "reject")
    /\ Kept /\ UNCHANGED conn

(* Mutant of Body: nobody asks for the transmission.                       *)
Body_unflushed ==
    /\ At("body")
    /\ \E o \in Write(stream) :
          /\ stream' = o.s
          /\ Marked(o, {})
          /\ Goes(IF o.ok THEN "return" ELSE "reject")
    /\ Kept /\ UNCHANGED conn

(* Mutant of Body: a failure ends the handler.                             *)
Body_silent ==
    /\ At("body")
    /\ \E o \in Write(stream) :
          /\ stream' = o.s
          /\ Marked(o, {})
          /\ Goes(IF o.ok THEN "flush" ELSE "return")
    /\ Kept /\ UNCHANGED conn

(* The page is flushed if aisl_write succeeds.  router_reply_error takes   *)
(* the length that aisl_printf returns for a failure, and rejects.         *)
Body ==
    /\ At("body")
    /\ \E o \in Write(stream) :
          /\ stream' = o.s
          /\ Marked(o, {})
          /\ Goes(IF o.ok /\ reply = "page" THEN "flush" ELSE "reject")
    /\ Kept /\ UNCHANGED conn

(* The format of router_reply_error has one directive more than arguments, *)
(* which may end the program.                                              *)
BodyCrash ==
    /\ At("body") /\ reply = "error"
    /\ alive' = FALSE
    /\ UNCHANGED <<vars, program, hand, reply, ctx, contexts>>

FlushPage ==
    /\ At("flush")
    /\ CallFlush
    /\ Goes("return")

Reject ==
    /\ At("reject")
    /\ CallReject \/ (~conn.online /\ UNCHANGED vars)
    /\ Goes("return")

Leaves ==
    /\ At("return")
    /\ Return
    /\ Goes("out")

Ended == (~alive \/ pc = "gone") /\ UNCHANGED appVars

Handler == \/ hello_world \/ OpenFound \/ OpenMissing \/ Routed
           \/ get_module_from_stream
           \/ Respond \/ Body \/ BodyCrash \/ FlushPage \/ Reject \/ Leaves

Close == ExampleClosed \/ welcome_on_close

AppNext == LibraryGoes \/ TimePasses \/ Close \/ Handler \/ Ended

AppSpec == AppInit /\ [][AppNext]_appVars

(* Both programs do nothing but call aisl_run_cycle and aisl_sleep, so the *)
(* library goes on and handlers return; and time passes, wherever the      *)
(* thread is, though Tick shows it between two touches only.               *)
FairAppSpec ==
    /\ AppSpec
    /\ WF_appVars(LibraryGoes \/ Close) /\ WF_appVars(Handler)
    /\ SF_appVars(TimePasses)

-----------------------------------------------------------------------------
(* Properties.                                                             *)

AppTypeOK ==
    /\ program \in Programs
    /\ hand \in {"out", "enter", "response", "body", "flush", "reject", "return"}
    /\ reply \in {"page", "error"}
    /\ ctx \in BOOLEAN /\ contexts \in {0, 1} /\ alive \in BOOLEAN

(* A context belongs to the stream that was opened with it: each is freed, *)
(* once, however the stream ends, and when the client is gone none is      *)
(* left.                                                                   *)
ContextsFreed ==
    /\ contexts = IF ctx THEN 1 ELSE 0
    /\ ctx => log.raised \notin {"none", "CLOSE"} /\ program = "template"
    /\ pc = "gone" => ~ctx

(* Whatever fails, a request that was delivered is answered in its handler *)
(* or its connection is closed.                                            *)
Answered ==
    alive /\ hand = "out" /\ log.raised \in {"REQUEST", "OUTPUT"} =>
        stream.state = DONE \/ ~conn.online

(* A page that is sent to its end is whole, and as long as its header      *)
(* says, with failing allocations too: these programs look at every result *)
(* that matters.  Only the drop of unsent output breaks it.                *)
PageWhole ==
    log.complete /\ "lost" \notin log.marks =>
        /\ Shaped(wire)
        /\ Count(wire, "length") = 1 /\ Count(wire, "body") = BodyLength
        /\ LengthOf(wire) = BodyLength

(* A request that was delivered is answered to its end, unless the peer    *)
(* leaves or takes nothing until the timeout, or the program dies.         *)
Served == log.raised = "REQUEST" ~> log.complete \/ ~conn.online \/ ~alive

(* FlushedIsCompleted of Client, which other uses break, holds of these    *)
(* two: they write and flush in one handler.                               *)

(* What documents and comments say and the code does not do.               *)

(* router.c handles that a stream has no module: `module ? module->name :  *)
(* "NULL"`, so a stream without a context does not end the program.        *)
TemplateSurvives == hand # "body" => alive

(* router_reply_error: an error is replied, not only rejected.             *)
ErrorReplied == reply = "error" /\ hand = "return" => stream.state = DONE
=============================================================================
