------------------------------ MODULE MCToasts ------------------------------
(* A page that shows three toasts at once, as the layouts configure it. *)
EXTENDS Toasts
=============================================================================
