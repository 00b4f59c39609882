---------------------------- MODULE MCEventLoop ----------------------------
(* Bounded instance of EventLoop.                                          *)
EXTENDS EventLoop
=============================================================================
