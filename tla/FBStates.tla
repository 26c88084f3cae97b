------------------------------ MODULE FBStates ------------------------------
(***************************************************************************)
(* The execution states of a function block and the management commands    *)
(* that move between them (E_FBStates, CFunctionBlock::changeExecutionState *)
(* without the contained blocks).                                          *)
(***************************************************************************)

States   == {"Idle", "Running", "Stopped", "Killed"}
Commands == {"Start", "Stop", "Kill", "Reset"}

\* The states in which a command is accepted; elsewhere it is answered InvalidState.
Legal(c, state) ==
    \/ c = "Start" /\ state \in {"Idle", "Stopped"}
    \/ c \in {"Stop", "Kill"} /\ state = "Running"
    \/ c = "Reset" /\ state \in {"Stopped", "Killed"}

\* The state an accepted command leads to.
Target(c) ==
    CASE c = "Start" -> "Running"
      [] c = "Stop"  -> "Stopped"
      [] c = "Kill"  -> "Killed"
      [] c = "Reset" -> "Idle"
=============================================================================
