------------------------------ MODULE MCLogger ------------------------------
(***************************************************************************)
(* Two threads, and a limit that leaves one descriptor beside stderr.      *)
(***************************************************************************)
EXTENDS Logger, TLC

MCSymmetry ==
  {x @@ y @@ z : x \in Permutations(Threads), y \in Permutations(Files),
                z \in Permutations(Paths)}
=============================================================================
