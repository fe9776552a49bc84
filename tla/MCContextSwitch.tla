-------------------------- MODULE MCContextSwitch ---------------------------
(* Two tasks whose stacks have room for a frame and one block of a call.    *)
EXTENDS ContextSwitch
=============================================================================
