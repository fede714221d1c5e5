------------------------------- MODULE Context -------------------------------
(***************************************************************************)
(* The context.Context of one scan: cancelled at any moment by Ctrl+C or   *)
(* by the client's disconnection, and never restored.                      *)
(***************************************************************************)
VARIABLE cancelled      \* ctx.Err() # nil

Cancel == ~cancelled /\ cancelled' = TRUE
==============================================================================
