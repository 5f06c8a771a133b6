------------------------------ MODULE MCShellExec ------------------------------
(* Small instances of ShellExec for TLC. *)
EXTENDS ShellExec
================================================================================
