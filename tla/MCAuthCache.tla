---------------------------- MODULE MCAuthCache ----------------------------
(* Bounded instance of  AuthCache.                                          *)
EXTENDS AuthCache
=============================================================================
