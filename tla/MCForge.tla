------------------------------- MODULE MCForge -------------------------------
(* A run that publishes two artifacts, and a `forge publish` of the second. *)
EXTENDS Forge

RunAndPublish == [c \in {"run", "pub"} |-> IF c = "run" THEN <<"a", "b">> ELSE <<"b">>]
=============================================================================
