------------------------------- MODULE Dialogue -------------------------------
(***************************************************************************)
(* What a call's conversation promises to the rest of the system: after    *)
(* the greeting, at most MaxTurns exchanges, then one closing that comes   *)
(* with the report; or it breaks off, without a report of its own.         *)
(***************************************************************************)
EXTENDS Naturals

CONSTANT MaxTurns

VARIABLES phase, exchanges, reported

dialogueVars == <<phase, exchanges, reported>>

Init ==
    /\ phase = "greeting"
    /\ exchanges = 0
    /\ reported = FALSE

Open ==
    /\ phase = "greeting"
    /\ phase' = "open"
    /\ UNCHANGED <<exchanges, reported>>

Exchange ==
    /\ phase = "open"
    /\ exchanges < MaxTurns
    /\ exchanges' = exchanges + 1
    /\ UNCHANGED <<phase, reported>>

Close ==
    /\ phase = "open"
    /\ phase' = "closed"
    /\ reported' = TRUE
    /\ UNCHANGED exchanges

BreakOff ==
    /\ phase = "open"
    /\ phase' = "broken"
    /\ UNCHANGED <<exchanges, reported>>

Next == Open \/ Exchange \/ Close \/ BreakOff

Spec == Init /\ [][Next]_dialogueVars

===============================================================================
