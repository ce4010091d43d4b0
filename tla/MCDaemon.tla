------------------------------ MODULE MCDaemon ------------------------------
(***************************************************************************)
(* Instances of Daemon for TLC.                                            *)
(***************************************************************************)
EXTENDS Daemon

AllSetups == Setup

\* A daemon as main.rs starts it, without a program around it
Standalone == [commands : {"none"}, events : {FALSE}]
=============================================================================
