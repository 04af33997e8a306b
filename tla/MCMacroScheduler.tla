-------------------------- MODULE MCMacroScheduler --------------------------
(***************************************************************************)
(* MacroScheduler for TLC.                                                 *)
(***************************************************************************)
EXTENDS MacroScheduler

\* Everything but stopAllMacros.
CooperativeCommands == CommandKinds \ {"stopAll"}
=============================================================================
