------------------------------- MODULE Values -------------------------------
(* What the modules of the gateway's parts have in common.                   *)
CONSTANT None   \* Python's None: no value
=============================================================================
