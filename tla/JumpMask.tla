------------------------------ MODULE JumpMask ------------------------------
(***************************************************************************)
(* libmini observed by one history variable: what was blocked when setjmp  *)
(* was last called.                                                        *)
(***************************************************************************)
EXTENDS MiniLib

VARIABLE preserved

MaskInit == Init /\ preserved = {}

MaskNext == Next /\ preserved' = IF setjmp THEN mask ELSE preserved

MaskSpec == MaskInit /\ [][MaskNext]_<<vars, preserved>>

(***************************************************************************)
(* "The saved signal mask must be restored by the longjmp function"        *)
(* (README:38).                                                            *)
(***************************************************************************)
JumpRestoresMask == [][Land /\ cpu.goal = point => mask' = preserved]_<<vars, preserved>>
=============================================================================
