---------------------------- MODULE MCAdminConsole ----------------------------
(* Model checking of AdminConsole: one tab, one retry job, two requests at once. *)
EXTENDS AdminConsole
=============================================================================
