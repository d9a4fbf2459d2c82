------------------------------ MODULE MCCallLink ------------------------------
(* An instance of CallLink for TLC. *)
EXTENDS CallLink, TLC

Ephemerals == "caller" :> 2 @@ "callee" :> 1
=============================================================================
