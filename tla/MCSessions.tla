----------------------------- MODULE MCSessions -----------------------------
(***************************************************************************)
(* Instance of Sessions for TLC.  Windows of two exchanges and a drift     *)
(* span of one stand for the code's five and three, so that three runs can *)
(* fill a window, leave exchanges over and cite across windows.            *)
(***************************************************************************)
EXTENDS Sessions
=============================================================================
