-------------------------- MODULE MC_WindowManager --------------------------
(***************************************************************************)
(* Small instances of WindowManager for TLC.                               *)
(***************************************************************************)
EXTENDS WindowManager

AllWindows == AppID
BrowserOnly == {"APP_BROWSER"}
=============================================================================
