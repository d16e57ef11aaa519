---------------------------- MODULE StreamEvents ----------------------------
(***************************************************************************)
(* What an application may rely on: the order in which the events of one   *)
(* stream reach its callback, and what they say of the connection.         *)
(*                                                                         *)
(* A stream is opened by its request line, its headers and body follow,    *)
(* then the request is complete and output events may come while it is     *)
(* answered.  An error ends it, and the connection with it.  Every stream  *)
(* is closed exactly once; while the connection is up only an answered one *)
(* is, and a new stream takes its place.                                   *)
(*                                                                         *)
(* It is not promised that a stream is silent once its connection went     *)
(* down: the parser goes on with what was received, and the events it      *)
(* raises keep their order.  A second CLOSE in a row, which changes        *)
(* neither variable, would pass for a stutter.                             *)
(***************************************************************************)

VARIABLES
    event,  \* the last event raised on the current stream, "none" at first
    up      \* whether the connection is up

vars == <<event, up>>

Events == {"none", "OPEN", "HEADER", "INPUT", "REQUEST", "OUTPUT", "ERROR", "CLOSE"}

(* The events that may come next.                                          *)
After(e) ==
    CASE e = "none"    -> {"OPEN", "ERROR"}
      [] e = "OPEN"    -> {"HEADER", "REQUEST", "ERROR"}
      [] e = "HEADER"  -> {"HEADER", "INPUT", "REQUEST", "ERROR"}
      [] e = "INPUT"   -> {"INPUT", "REQUEST", "ERROR"}
      [] e = "REQUEST" -> {"OUTPUT"}
      [] e = "OUTPUT"  -> {"OUTPUT"}
      [] OTHER         -> {}

Answering == event \in {"REQUEST", "OUTPUT"}

Init == event = "none" /\ up = TRUE

(* Whether or not the connection is up.                                    *)
Raise == event' \in After(event) /\ up' = up

(* The peer, the application, an error or the timeout ends the connection. *)
Drop == up /\ ~up' /\ event' = event

(* The stream of a connection that is down is closed, for good.            *)
Close == ~up /\ event # "CLOSE" /\ event' = "CLOSE" /\ up' = up

(* The answered stream of a connection that is kept alive is closed and    *)
(* replaced; the application may end the connection on that occasion, and  *)
(* it ends when no new stream can be made.                                 *)
Renew ==
    /\ up /\ Answering
    /\ \/ event' = "none" /\ up' \in BOOLEAN
       \/ event' = "CLOSE" /\ up' = FALSE

Next == Raise \/ Drop \/ Close \/ Renew

Spec == Init /\ [][Next]_vars
=============================================================================
