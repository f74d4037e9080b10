-------------------------- MODULE MCKindLab --------------------------
(* Two labs on one machine, under two names or under one: one with the NGINX *)
(* edge, one that is told to keep what it made.                              *)
EXTENDS KindLab
CONSTANTS l1, l2
MCLabs == {l1, l2}
MCNames == {"agw-e2e-1", "agw-e2e-2"}
MCWithNginx == {l1}
MCKeep == {l2}
=============================================================================
