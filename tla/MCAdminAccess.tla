---------------------------- MODULE MCAdminAccess ----------------------------
(* Small pools of tokens and codes; two requests at a time.                *)
EXTENDS AdminAccess
=============================================================================
