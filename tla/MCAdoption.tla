----------------------------- MODULE MCAdoption -----------------------------
(* Version fields one below and one above what the agent can store.        *)
EXTENDS Adoption

MCField == -1..(U32Max + 1)
=============================================================================
