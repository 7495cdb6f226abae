------------------------------ MODULE MCDaemon ------------------------------
(* Version fields one below and one above what the agent can store.        *)
EXTENDS Daemon

MCField == -1..(U32Max + 1)
=============================================================================
