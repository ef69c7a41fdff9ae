--------------------------- MODULE MCDebuggedRun ----------------------------
(***************************************************************************)
(* A program for the refinement: two long instructions that loop (2, 4), a *)
(* one-byte instruction (6), an int3 of its own (7), the end (8), and the  *)
(* instruction 10 behind .text that returns to 4 or to 8, behind the int3. *)
(***************************************************************************)
EXTENDS DebuggedRun, TLC

CONSTANTS mov, jnz, push, exit, lib

MCInsns == {2, 4, 6, 7, 8, 10}
MCOrig  == 2 :> mov @@ 4 :> jnz @@ 6 :> push @@ 7 :> CC @@ 8 :> exit @@ 10 :> lib
MCSucc  == 2 :> {4} @@ 4 :> {2, 6, 10} @@ 6 :> {7} @@ 7 :> {8}
           @@ 8 :> {} @@ 10 :> {4, 8}
MCExits == {8}
MCBlocking == {10}
MCTargets == {4, 7, 10}
MCBytes == {mov, jnz, push, exit, lib, CC, Junk}
=============================================================================
