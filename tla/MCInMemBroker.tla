---------------------------- MODULE MCInMemBroker ----------------------------
(***************************************************************************)
(* Instance of InMemBroker for TLC.                                        *)
(***************************************************************************)
EXTENDS InMemBroker, TLC

\* The clients are interchangeable, and so are the words.
Symmetry == Permutations(Client) \cup Permutations(Word)
=============================================================================
