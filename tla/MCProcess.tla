------------------------------ MODULE MCProcess ------------------------------
(***************************************************************************)
(* Instances of the program for TLC: sets a .cfg cannot spell.             *)
(***************************************************************************)
EXTENDS ProcessImplementsBoundary

SpawningServer == {c \in Resolvable : ~c.ui /\ c.upstream = "spawn"}

=============================================================================
