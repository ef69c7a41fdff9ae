----------------------------- MODULE StepCount ------------------------------
(***************************************************************************)
(* The debugger observed by two history variables: what the last command   *)
(* steps, and the instructions of the program that ran since it was given. *)
(***************************************************************************)
EXTENDS DebuggerInv

VARIABLES
  stepping, (* "si", "over" for a si from a planted byte, or "no"          *)
  retired   (* instructions the tracee has completed for it, up to 3       *)

countVars == <<vars, stepping, retired>>

RunsInsn == (RunInsn \/ RunExit) /\ UNCHANGED debuggerVars

CountInit == Init /\ stepping = "no" /\ retired = 0

CountStarts ==
  /\ Command
  /\ stepping' = CASE pc' = "over_si"                         -> "over"
                    [] pc' = "wait" /\ tracee' = "stepping" -> "si"
                    [] OTHER                                -> "no"
  /\ retired' = 0

CountGoesOn ==
  /\ WaitReturns \/ Exit \/ Killed \/ Environment
  /\ retired' = IF RunsInsn /\ retired < 3 THEN retired + 1 ELSE retired
  /\ UNCHANGED stepping

CountNext == CountStarts \/ CountGoesOn

CountSpec == CountInit /\ [][CountNext]_countVars

CountLiveSpec == CountSpec /\ Fairness

(***************************************************************************)
(* "Run a single instruction, and step into function calls" (README:50).   *)
(***************************************************************************)
SiRunsOne == pc = "prompt" /\ stepping # "no" => retired <= 1

(***************************************************************************)
(* What holds of the code: si runs one instruction of the program at most, *)
(* and two when it starts on a planted byte; a signal, another breakpoint  *)
(* ahead or a doubled one cannot turn the step into a run.                 *)
(***************************************************************************)
SiBounded ==
  /\ stepping = "si" => retired <= 1
  /\ stepping = "over" => retired <= 2

\* How far a si is from its prompt: the waits still to come, the event of this
\* one, and a tracee that can still be killed in it.
Ahead ==
  (IF pc = "over_si" THEN 4 ELSE 0) + (IF report = "none" THEN 2 ELSE 0)
    + (IF tracee \in Alive THEN 1 ELSE 0)

Nearer ==
  stepping \in {"si", "over"} /\ pc \in Waiting /\ pc' \in Waiting => Ahead' < Ahead

(***************************************************************************)
(* Why StepReturns holds: from the command on every step of anyone, the    *)
(* debugger, the tracee or who sends it signals, brings a si nearer to its *)
(* prompt, so that no order of them keeps it in a wait.  That is not so of *)
(* cont, whose tracee may run for ever.                                    *)
(***************************************************************************)
StepNears == [][Nearer]_countVars
=============================================================================
