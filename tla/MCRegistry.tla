----------------------------- MODULE MCRegistry -----------------------------
(* Two or three uploads race for one name@version, another goes elsewhere; *)
(* any of them may carry the same content.                                 *)
EXTENDS Registry

ThreeUploads == {"u1", "u2", "u4"}
ThreeTargets == [u1 |-> "libfoo@1.0.0", u2 |-> "libfoo@1.0.0", u4 |-> "libfoo@1.1.0"]

FourUploads == {"u1", "u2", "u3", "u4"}
TwoNames    == {"libfoo@1.0.0", "libfoo@1.1.0"}
FourTargets == [u1 |-> "libfoo@1.0.0", u2 |-> "libfoo@1.0.0", u3 |-> "libfoo@1.0.0",
                u4 |-> "libfoo@1.1.0"]
=============================================================================
