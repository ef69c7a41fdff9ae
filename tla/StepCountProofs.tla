-------------------------- MODULE StepCountProofs ---------------------------
(***************************************************************************)
(* si steps: how many instructions of the program it can run, for every    *)
(* program and number of breakpoints.                                      *)
(***************************************************************************)
EXTENDS DebuggerSafetyProofs, StepCount

(***************************************************************************)
(* While a si is under way the tracee is never resumed but for a step, and *)
(* has run nothing yet for the step it is at.                              *)
(***************************************************************************)
Stepped(done) == Executing => tracee = "stepping" /\ retired <= done

SiInv ==
  /\ pc \notin Overs \cup {"exec"}
  /\ Stepped(0)
  /\ retired <= 1

OverInv ==
  /\ pc \notin {"exec", "over_cont"}
  /\ pc = "over_si" => Stepped(0) /\ retired <= 1
  /\ Stepped(1)
  /\ retired <= 2

CountInv ==
  /\ retired \in Nat
  /\ stepping = "si" => SiInv
  /\ stepping = "over" => OverInv

(* A command starts the count anew, and resumes for a step if it steps.    *)
LEMMA StartsKeep ==
  ASSUME ControlInv', CountStarts
  PROVE  CountInv'
<1>1. CASE pc' = "over_si"
  <2>1. stepping' = "over" /\ tracee' # "running"
    BY <1>1 DEF CountStarts, ControlInv, Control, Overs
  <2> QED
    BY <1>1, <2>1 DEF CountStarts, CountInv, OverInv, Stepped, Executing
<1>2. CASE pc' # "over_si" /\ pc' = "wait" /\ tracee' = "stepping"
  BY <1>2 DEF CountStarts, CountInv, SiInv, Stepped, Executing, Overs
<1>3. CASE pc' # "over_si" /\ ~(pc' = "wait" /\ tracee' = "stepping")
  BY <1>3 DEF CountStarts, CountInv
<1> QED
  BY <1>1, <1>2, <1>3

(* The program runs at most one instruction in a step, and stops.          *)
LEMMA RunKeeps ==
  ASSUME CountInv, CountGoesOn, Environment
  PROVE  CountInv'
<1>1. /\ UNCHANGED <<pc, stepping>>
      /\ retired' \in {retired, retired + 1}
      /\ retired' # retired => Executing
  BY DEF CountGoesOn, Environment, debuggerVars, RunsInsn, RunInsn, RunExit
<1>2. Executing' => tracee = "running"
  BY DEF Environment, TraceeRuns, ExecSucceeds, ExecFails, RunInt3, RunInsn, RunExit,
         RunAstray, Signal, Kill, Retire, Halt, Executing
<1>3. CASE stepping = "si"
  BY <1>1, <1>2, <1>3 DEF CountInv, SiInv, Stepped, Executing
<1>4. CASE stepping = "over"
  BY <1>1, <1>2, <1>4 DEF CountInv, OverInv, Stepped, Executing
<1>5. CASE stepping \notin {"si", "over"}
  BY <1>1, <1>5 DEF CountInv
<1> QED
  BY <1>3, <1>4, <1>5

(* Behind a wait the tracee is resumed once, after a step over, for a step. *)
LEMMA WaitKeeps ==
  ASSUME CountInv, CountGoesOn, ~Environment
  PROVE  CountInv'
<1>1. retired' = retired /\ stepping' = stepping
  BY DEF CountGoesOn, Environment, RunsInsn, TraceeRuns
<1>2. CASE OverReturns("over_si")
  BY <1>1, <1>2 DEF OverReturns, WaitPid, Resume, CountInv, SiInv, OverInv, Stepped, Executing, Overs
<1>3. CASE ExecReturns \/ OverReturns("over_cont")
  BY <1>1, <1>3 DEF ExecReturns, OverReturns, WaitPid, CountInv, SiInv, OverInv, Overs
<1>4. CASE /\ pc' \notin Overs \cup {"exec"} /\ (Executing' => Executing /\ UNCHANGED tracee)
  BY <1>1, <1>4 DEF CountInv, SiInv, OverInv, Stepped, Executing, Overs
<1>5. ASSUME check_breakpoint \/ Exit \/ Killed \/ (\E at \in Overs \cup {"exec"} : WaitFails(at))
      PROVE  pc' \notin Overs \cup {"exec"} /\ (Executing' => Executing /\ UNCHANGED tracee)
  BY <1>5 DEF check_breakpoint, Exit, Killed, Crash, TracerGone, WaitFails, Overs, Executing
<1> QED
  BY <1>2, <1>3, <1>4, <1>5 DEF CountGoesOn, WaitReturns, Overs

LEMMA CountCorrect == CountSpec => [](ControlInv /\ CountInv)
<1>1. CountInit => ControlInv /\ CountInv
  BY ControlInit DEF CountInit, CountInv
<1>2. ControlInv /\ CountInv /\ [CountNext]_countVars => ControlInv' /\ CountInv'
  <2> SUFFICES ASSUME ControlInv, CountInv, [CountNext]_countVars
               PROVE  ControlInv' /\ CountInv'
    OBVIOUS
  <2>1. ControlInv'
    BY ControlStep DEF CountNext, CountStarts, CountGoesOn, Next, countVars
  <2>2. CASE CountNext
    BY <2>1, <2>2, StartsKeep, RunKeeps, WaitKeeps DEF CountNext
  <2>3. CASE UNCHANGED countVars
    BY <2>1, <2>3
       DEF countVars, vars, kernelVars, CountInv, SiInv, OverInv, Stepped, Executing
  <2> QED
    BY <2>1, <2>2, <2>3
<1> QED
  BY <1>1, <1>2, PTL DEF CountSpec

-----------------------------------------------------------------------------
(***************************************************************************)
(* run_a_single_instruction (debugger.cpp:770-780) never turns into a run: *)
(* it runs one instruction, and two from a planted byte, whatever stops it *)
(* on the way.                                                             *)
(***************************************************************************)
THEOREM SiIsBounded == CountSpec => []SiBounded
<1>1. CountInv => SiBounded
  BY DEF CountInv, SiInv, OverInv, SiBounded
<1> QED
  BY <1>1, CountCorrect, PTL

(***************************************************************************)
(* A si (debugger.cpp:770-780, with the step over a planted byte of        *)
(* 311-331) is at most seven steps from its prompt, and every step,        *)
(* whoever takes it, is one of them: it has no way to wait for ever.       *)
(***************************************************************************)
THEOREM StepComesNearer == CountSpec => StepNears
<1>1. ASSUME ControlInv, CountInv, CountNext, stepping \in {"si", "over"},
             pc \in Waiting, pc' \in Waiting
      PROVE  Ahead' < Ahead
  <2>1. pc \in {"over_si", "wait"} /\ Watching /\ (Executing => tracee = "stepping")
    BY <1>1 DEF ControlInv, Control, CountInv, SiInv, OverInv, Stepped, Overs, Waiting
  <2>2. CASE Environment
    <3>1. pc' = pc
      BY <2>2 DEF Environment, debuggerVars
    <3>2. CASE TraceeRuns
      <4>1. report = "none" /\ tracee = "stepping" /\ report' # "none"
        BY <2>1, <3>2 DEF TraceeRuns, ExecSucceeds, ExecFails, RunInt3, RunInsn, RunExit,
             RunAstray, Signal, Retire, Halt, Watching, Executing
      <4> QED
        BY <3>1, <4>1 DEF Ahead, Alive, Resumed
    <3>3. CASE Kill
      BY <3>1, <3>3 DEF Kill, Ahead, Alive, Resumed
    <3> QED
      BY <2>2, <3>2, <3>3 DEF Environment
  <2>3. CASE OverReturns("over_si")
    <3>1. /\ pc = "over_si" /\ tracee = "stopped" /\ report # "none"
          /\ pc' = "wait" /\ report' = "none"
      BY <2>1, <2>3 DEF OverReturns, WaitPid, Resume, Watching
    <3> QED
      BY <3>1 DEF Ahead, Alive, Resumed
  <2>4. CASE ExecReturns \/ OverReturns("over_cont")
    BY <2>1, <2>4 DEF ExecReturns, OverReturns, WaitPid
  <2>5. CASE check_breakpoint \/ Exit \/ Killed \/ \E at \in Overs \cup {"exec"} : WaitFails(at)
    BY <1>1, <2>5 DEF check_breakpoint, Exit, Killed, Crash, WaitFails, Waiting, Overs
  <2>6. ~CountStarts
    <3>1. Command => pc = "prompt"
      BY DEF Command, AtPrompt, set_a_breakpoint, delete_a_breakpoint, disassemble_instructions,
         get_a_register, get_all_registers, set_a_register, load_a_program,
         continue_the_execution, run_a_single_instruction, run_the_program, start_the_program,
         exit_command
    <3> QED
      BY <1>1, <3>1 DEF CountStarts, Waiting, Overs
  <2> QED
    BY <1>1, <2>2, <2>3, <2>4, <2>5, <2>6 DEF CountNext, CountGoesOn, WaitReturns, Overs
<1>2. ControlInv /\ CountInv /\ [CountNext]_countVars => [Nearer]_countVars
  BY <1>1 DEF Nearer
<1> QED
  BY <1>2, CountCorrect, PTL DEF CountSpec, StepNears
=============================================================================
