------------------------------- MODULE Access -------------------------------
(***************************************************************************)
(* What the diagnostic sessions of the firmware promise: a tester enters   *)
(* the basic session, may extend it, opens locks inside a session, and     *)
(* erases trouble codes only after arming, once per arming. Leaving the    *)
(* extended session closes every lock and disarms.                         *)
(***************************************************************************)
EXTENDS Naturals

CONSTANTS BasicLocks, ExtLocks

VARIABLES
    level,      \* "closed", "basic" or "extended"
    unlocked,   \* the locks that are open
    armed,      \* the erasure is armed
    erased      \* flips with every erasure

vars == <<level, unlocked, armed, erased>>

Init ==
    /\ level = "closed"
    /\ unlocked = {}
    /\ armed = FALSE
    /\ erased = FALSE

Enter ==
    /\ level = "closed"
    /\ level' = "basic"
    /\ UNCHANGED <<unlocked, armed, erased>>

Extend ==
    /\ level # "closed"
    /\ level' = "extended"
    /\ UNCHANGED <<unlocked, armed, erased>>

Leave ==
    /\ level # "closed"
    /\ level' = "basic"
    /\ unlocked' = {}
    /\ armed' = FALSE
    /\ UNCHANGED erased

Unlock(l) ==
    /\ \/ level = "basic" /\ l \in BasicLocks
       \/ level = "extended" /\ l \in ExtLocks
    /\ unlocked' = unlocked \cup {l}
    /\ UNCHANGED <<level, armed, erased>>

Relock(l) ==
    /\ level = "extended" /\ l \in ExtLocks
    /\ unlocked' = unlocked \ {l}
    /\ UNCHANGED <<level, armed, erased>>

Arm ==
    /\ level = "basic"
    /\ armed' = TRUE
    /\ UNCHANGED <<level, unlocked, erased>>

Erase ==
    /\ level = "basic" /\ armed
    /\ armed' = FALSE
    /\ erased' = ~erased
    /\ UNCHANGED <<level, unlocked>>

Next ==
    \/ Enter \/ Extend \/ Leave \/ Arm \/ Erase
    \/ \E l \in BasicLocks \cup ExtLocks : Unlock(l) \/ Relock(l)

Spec == Init /\ [][Next]_vars
=============================================================================
