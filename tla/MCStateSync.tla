---------------------------- MODULE MCStateSync ----------------------------
(***************************************************************************)
(* StateSync for TLC.                                                      *)
(***************************************************************************)
EXTENDS StateSync

CONSTANT
    MaxBoth     \* the changes of the world while both media work

\* The world stops earlier while both media work, and nothing is followed any
\* further once a packet has been refused or overtaken: NothingForgotten and
\* Converges promise nothing of what comes after, as tangled only grows.
Explored ==
    /\ tangled = {}
    /\ up = Media => changes <= MaxBoth
=============================================================================
