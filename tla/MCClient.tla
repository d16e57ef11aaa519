------------------------------ MODULE MCClient ------------------------------
(***************************************************************************)
(* Finite instances of Client.                                             *)
(***************************************************************************)
EXTENDS Client

(* Every kind of line, and a body of one unit.                             *)
AnyUnit == {Line(k) : k \in {"fragment", "request", "request2", "end",
                             "close", "header", "bad"}}
           \cup {Length(n) : n \in {AUTO, 0, 2}}

(* A request without a body, with and without "Connection: close".         *)
SimpleUnits == {Line("request"), Line("close"), Line("end")}

(* A request that may have a body.                                         *)
BodyUnits == {Line("fragment"), Line("request"), Line("end"), Length(1)}

Plain == {Line("request"), Line("end")}

ShortLengths == {AUTO, 1}
OneLength == {1}

NoHeaders == {}
ConnectionHeaders == {Header("connection", 0), Header("connection", 1)}

(* "keepalive" and "keep-alive"; the code takes "close" like the latter.   *)
KeepHeaders == {Header("connection", 1), Header("connection", 2)}
FormattedHeaders == {Header("connection", 1), Header("length", 0)}
SpelledHeaders == {Header("connection", 2)}
SomeHeaders == ConnectionHeaders \cup {Header("length", 0)}
LengthHeaders == {Header("length", 0)}
OtherHeaders == {Header("other", 0)}
=============================================================================
