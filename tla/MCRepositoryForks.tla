-------------------------- MODULE MCRepositoryForks --------------------------
(* Instances of RepositoryForks: nothing distinguishes the tasks.            *)
EXTENDS RepositoryForks
=============================================================================
