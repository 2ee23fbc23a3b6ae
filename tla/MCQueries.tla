------------------------------- MODULE MCQueries -------------------------------
(* A small instance of Queries for TLC. *)
EXTENDS Queries

NodeSymmetry == Permutations(Node)
================================================================================
