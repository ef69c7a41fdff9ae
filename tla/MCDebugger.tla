----------------------------- MODULE MCDebugger -----------------------------
(***************************************************************************)
(* A small program for TLC.  The entry, at 2, calls the function at 5 or   *)
(* goes on at the one-byte return at 4, right in front of the function: a  *)
(* step that arrives at 5 ends behind the byte at 4.  7 ends the process,  *)
(* and 1 is code of .text below the entry, where no breakpoint can be set. *)
(***************************************************************************)
EXTENDS DebuggerInv, TLC

CONSTANTS push, ret, call, exit, low

MCInsns == {1, 2, 4, 5, 7}
MCOrig  == 1 :> low @@ 2 :> call @@ 4 :> ret @@ 5 :> push @@ 7 :> exit
MCSucc  == 1 :> {2} @@ 2 :> {4, 5} @@ 4 :> {1} @@ 5 :> {4, 7} @@ 7 :> {}
MCExits == {7}
MCBlocking == {1, 5}
MCBytes == {push, ret, call, exit, low, CC, Junk}
=============================================================================
