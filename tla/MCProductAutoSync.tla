------------------------- MODULE MCProductAutoSync --------------------------
(* A small instance of ProductAutoSync: three threads, each a request or a   *)
(* worker at its time, and one target; more targets are enqueued one after   *)
(* the other and share nothing but the loop.                                 *)
EXTENDS ProductAutoSync

CONSTANTS t1, t2, t3, shopware
=============================================================================
