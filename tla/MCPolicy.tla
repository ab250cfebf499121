------------------------------ MODULE MCPolicy ------------------------------
(*****************************************************************************)
(* TLC instances of PolicyBridge: two depths above the base, and an override *)
(* file that holds each mode, a prefill cap, the two together or no object.  *)
(*****************************************************************************)
EXTENDS PolicyBridge

CONSTANTS r1, r2

File(m, c) == [mode |-> m, cap |-> c, parses |-> TRUE]
MCFirst == File("saturation", 0)
MCContent == {File("forced", 0), File("off", 1), File("forced", 1)}
=============================================================================
