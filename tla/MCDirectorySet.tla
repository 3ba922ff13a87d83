--------------------------- MODULE MCDirectorySet ---------------------------
(* Instances of DirectorySet for TLC: a directory of git, read directly, and *)
(* one that operators add, read through a DirectoryService. *)
EXTENDS DirectorySet
=============================================================================
