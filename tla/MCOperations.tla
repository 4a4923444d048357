---------------------------- MODULE MCOperations ----------------------------
(* Enough identities that every order of recording, forgetting and packing *)
(* happens, and three operations chained over the shapes that carry them.  *)
EXTENDS Operations
=============================================================================
