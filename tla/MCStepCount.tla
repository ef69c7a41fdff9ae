---------------------------- MODULE MCStepCount -----------------------------
(***************************************************************************)
(* The program of MCDebugger under the history variables of StepCount: the *)
(* call at 2 is two bytes long, the return at 4 is one byte long, with the *)
(* function at 5 right behind it, 7 ends the process and 1 is code of      *)
(* .text below the entry.                                                  *)
(***************************************************************************)
EXTENDS StepCount, TLC

CONSTANTS push, ret, call, exit, low

MCInsns == {1, 2, 4, 5, 7}
MCOrig  == 1 :> low @@ 2 :> call @@ 4 :> ret @@ 5 :> push @@ 7 :> exit
MCSucc  == 1 :> {2} @@ 2 :> {4, 5} @@ 4 :> {1} @@ 5 :> {4, 7} @@ 7 :> {}
MCExits == {7}
MCBlocking == {1, 5}
MCBytes == {push, ret, call, exit, low, CC, Junk}
=============================================================================
