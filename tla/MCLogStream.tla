---------------------------- MODULE MCLogStream ----------------------------
(* One client, who may follow the run or not, and a container that prints  *)
(* up to two lines.  Clients share nothing but the file and the status,    *)
(* which they do not write.                                                *)
EXTENDS LogStream

OneClient == {"alice"}
=============================================================================
