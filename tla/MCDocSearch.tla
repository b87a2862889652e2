---------------------------- MODULE MCDocSearch ----------------------------
(* Values of the constants of DocSearch for TLC. *)
EXTENDS DocSearch

CONSTANTS t1, t2, price, supply

\* The search of a run with two queries.
MCAsked == [main |-> <<price, supply>>]
=============================================================================
