---------------------------- MODULE MCNewsrcFiles ----------------------------
(***************************************************************************)
(* NewsrcFiles with few versions and enough inodes for three names and the *)
(* files that interrupted code holds open.                                 *)
(***************************************************************************)
EXTENDS NewsrcFiles
=============================================================================
