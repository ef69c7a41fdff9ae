----------------------------- MODULE MCJumpMask -----------------------------
(***************************************************************************)
(* The program of MCMiniLib under the history variable of JumpMask.        *)
(***************************************************************************)
EXTENDS JumpMask, TLC

MCSigactions ==
  {<<2, "function", sigaddset(sigemptyset, 1)>>, <<2, "SIG_DFL", sigemptyset>>}

MCWords == {<<FALSE, 2>>, <<TRUE, 1>>}
=============================================================================
