---------------------------- MODULE MCSelfUpdate ----------------------------
(* Two processes; a release that has a two-digit minor, and one whose     *)
(* major is larger and whose minor is smaller.                             *)
EXTENDS SelfUpdate

MCReleases == <<<<0, 9, 9>>, <<0, 10, 0>>, <<1, 0, 0>>>>

=============================================================================
