---------------------------- MODULE MCJobSentinel ----------------------------
(* Small instances of JobSentinel.  j1 is an order step: it has a            *)
(* continuation and is deleted afterwards.  j2 is a customer change: it has  *)
(* a continuation and is kept.                                               *)
EXTENDS JobSentinel

CONSTANTS j1, j2, t1, t2

MCContinued == Jobs
MCDisposable == Jobs \ {j2}
=============================================================================
