--------------------------- MODULE ArtifactStore ---------------------------
(***************************************************************************)
(* What the registry promises its publishers: each name@version is bound   *)
(* once and for all to the content of one upload, the upload that is told  *)
(* "published" is that one, and an upload is refused because another was   *)
(* first.  Registry.tla implements it.                                     *)
(***************************************************************************)
CONSTANTS Uploads, Coordinates,
          Target      \* the name@version each upload is for

VARIABLES owner,      \* the upload each name@version is bound to
          told        \* what each upload's client has been told

vars == <<owner, told>>

Init ==
  /\ owner = [n \in Coordinates |-> "none"]
  /\ told = [u \in Uploads |-> "nothing"]

Bind(u) ==
  /\ told[u] = "nothing" /\ owner[Target[u]] = "none"
  /\ owner' = [owner EXCEPT ![Target[u]] = u]
  /\ UNCHANGED told

Published(u) ==
  /\ told[u] = "nothing" /\ owner[Target[u]] = u
  /\ told' = [told EXCEPT ![u] = "published"]
  /\ UNCHANGED owner

Refused(u) ==
  /\ told[u] = "nothing" /\ owner[Target[u]] \notin {"none", u}
  /\ told' = [told EXCEPT ![u] = "refused"]
  /\ UNCHANGED owner

(* Rejected by validation, failed, or never told.                          *)
GaveUp(u) ==
  /\ told[u] = "nothing"
  /\ told' = [told EXCEPT ![u] = "error"]
  /\ UNCHANGED owner

Next == \E u \in Uploads : Bind(u) \/ Published(u) \/ Refused(u) \/ GaveUp(u)

Spec == Init /\ [][Next]_vars
=============================================================================
