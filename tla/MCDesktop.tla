------------------------------ MODULE MCDesktop ------------------------------
(* A folder with two paths, for TLC. *)
EXTENDS DesktopSync
=============================================================================
