--------------------------- MODULE MCApplication ---------------------------
(***************************************************************************)
(* Finite instances of Application: requests without a body, one after     *)
(* another on a connection, with and without "Connection: close".          *)
(***************************************************************************)
EXTENDS Application

MCUnits == {Line("fragment"), Line("request"), Line("close"), Line("end"), Length(1)}
MCLengths == {AUTO, BodyLength}
MCHeaders == {}
=============================================================================
