--------------------------- MODULE MCDesktopBridge ---------------------------
(***************************************************************************)
(* Instance of DesktopBridge: two requests, each of them for a picture or  *)
(* an input, beside the inputs the tray sends on its own.                  *)
(***************************************************************************)
EXTENDS DesktopBridge

CONSTANTS r1, r2

TwoRequests == {r1, r2}
=============================================================================
