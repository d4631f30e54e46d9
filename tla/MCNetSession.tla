---------------------------- MODULE MCNetSession ----------------------------
(* An instance of NetSession for TLC: two processes that may connect to each other *)
(* and to themselves.                                                              *)
EXTENDS NetSession, TLC

CONSTANTS a, b, e1, e2, e3

MCHome == (a :> e1) @@ (b :> e2)

\* A session whose other end is gone does not stay (session.cpp:159).  The two
\* processes differ in nothing but their names, so one of them speaks for both.
HalfOpenEnds == HalfOpenEndsAt(a)
=============================================================================
