---------------------------- MODULE MCObd2Bridge ----------------------------
(***************************************************************************)
(* Short delays and budgets.                                               *)
(***************************************************************************)
EXTENDS Obd2Bridge

All == {"plain", "window", "push", "pop", "trap", "reti", "compare", "request", "clear",
        "taken", "srvwdt"}
=============================================================================
