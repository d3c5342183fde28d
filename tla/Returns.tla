------------------------------- MODULE Returns -------------------------------
(***************************************************************************)
(* What the caller of disp_object and of disp_file relies on: the call     *)
(* returns, once, and with one of the codes its caller knows.              *)
(***************************************************************************)
CONSTANTS
  Codes,     \* the codes it may return
  NoResult   \* it has not returned

VARIABLE ret

Init == ret = NoResult

Return == ret = NoResult /\ ret' \in Codes

Spec == Init /\ [][Return]_ret /\ WF_ret(Return)
=============================================================================
