---------------------------- MODULE MCEventLoop ----------------------------
(***************************************************************************)
(* Finite instances of EventLoop.                                          *)
(***************************************************************************)
EXTENDS EventLoop

CONSTANTS c1, c2, c3
=============================================================================
