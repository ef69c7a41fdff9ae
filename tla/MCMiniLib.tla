----------------------------- MODULE MCMiniLib ------------------------------
(***************************************************************************)
(* Two signals for the kernel: 1, and NSIG, which signal() and the         *)
(* functions on sets refuse; handlers of both that block 1.  The words     *)
(* given to sigprocmask are the set of 2 alone, which is empty as 2 is     *)
(* refused, and the full set without 1.                                    *)
(***************************************************************************)
EXTENDS MiniLib, TLC

MCSigactions == {<<2, "function", sigaddset(sigemptyset, 1)>>}

MCWords == {<<FALSE, 2>>, <<TRUE, 1>>}
=============================================================================
