------------------------- MODULE DebuggedRunProofs --------------------------
(***************************************************************************)
(* The debugger implements NativeRun: under a careful user, every step of  *)
(* the debugger and of its tracee is a step of the program by itself, or   *)
(* none.                                                                   *)
(***************************************************************************)
EXTENDS DebuggedRun, DebuggerTextProofs

(* The operators that name a piece of one handler are always expanded.     *)
USE ProgramAssumption, DebuggerAssumption
    DEF Fetch, Lifted, Forget, Loadable, Clear, SetOptions, Replanted, Rewound

CarefulNext == Next /\ DistinctBreaks /\ LongBreaks

(***************************************************************************)
(* A program's own int3 is one byte long: no breakpoint is on it.          *)
(***************************************************************************)
LEMMA LongIsNotInt3 ==
  ASSUME LongInv, NEW a \in DOMAIN address_to_breakpoint, a \in Insns
  PROVE  Orig[a] # CC
BY DEF LongInv

LEMMA RunInit == Init => RunInv
<1> SUFFICES ASSUME Init PROVE RunInv
  OBVIOUS
<1>1. DOMAIN address_to_breakpoint = {} /\ ~Live
  BY DEF Init, KernelInit, Live
<1> QED
  BY <1>1, ControlInit, TextInit DEF RunInv, LongInv, RipInv

(***************************************************************************)
(* The addresses of breakpoints change by a break, and by a load.          *)
(***************************************************************************)
LEMMA LongStep ==
  ASSUME RunInv, [CarefulNext]_vars
  PROVE  LongInv'
<1>1. CASE set_a_breakpoint
  <2>1. CASE UNCHANGED address_to_breakpoint
    BY <2>1 DEF LongInv, RunInv
  <2>2. ASSUME NEW address \in Insns,
               NEW new, new = [address |-> address, original |-> Peek(address)],
               id_to_breakpoint' = Put(id_to_breakpoint, breakpoint_id, new),
               address_to_breakpoint' = Put(address_to_breakpoint, address, new)
        PROVE  LongInv'
    <3>1. breakpoint_id \notin DOMAIN id_to_breakpoint
      BY DEF RunInv, ControlInv, TypeOK, Ids, TextInv, OneEach
    <3>2. /\ breakpoint_id \in DOMAIN id_to_breakpoint' \ DOMAIN id_to_breakpoint
          /\ id_to_breakpoint'[breakpoint_id].address = address
      BY <2>2, <3>1 DEF Put
    <3>3. CASE UNCHANGED vars
      BY <3>1, <3>2, <3>3 DEF vars, tables
    <3>4. CASE CarefulNext
      <4>1. address + 1 \notin Insns
        BY <3>2, <3>4 DEF CarefulNext, LongBreaks
      <4> QED
        BY <2>2, <4>1 DEF Put, LongInv, RunInv
    <3> QED
      BY <3>3, <3>4
  <2> QED
    BY <1>1, <2>1, <2>2
    DEF set_a_breakpoint, quit_from_the_debugger, Crash, tables
<1>2. CASE load_a_program
  BY <1>2 DEF load_a_program, LongInv
<1>3. CASE UNCHANGED address_to_breakpoint
  BY <1>3 DEF LongInv, RunInv
<1> QED
  <2>1. CASE Command
    BY <1>1, <1>2, <1>3, <2>1
    DEF Command, delete_a_breakpoint, disassemble_instructions, get_a_register,
        get_all_registers, set_a_register, continue_the_execution,
        run_a_single_instruction, run_the_program, start_the_program, exit_command,
        Proceed, Launch, quit_from_the_debugger, Crash, Reply, vars, tables
  <2>2. CASE ~Command
    BY <1>3, <2>2
    DEF CarefulNext, Next, WaitReturns, ExecReturns, OverReturns, check_breakpoint,
        WaitFails, Exit, Killed, Crash, Environment, debuggerVars, vars, tables
  <2> QED
    BY <2>1, <2>2

-----------------------------------------------------------------------------
(***************************************************************************)
(* The program rests: what most of the debugger's steps come to.           *)
(***************************************************************************)
Rests == Live' = Live /\ NextInsn' = NextInsn
Ends  == Live /\ ~Live'

LEMMA EndsNative == Ends => Native!Next
BY DEF Ends, NextInsn, Native!Next, Native!Leave

LEMMA RestsNative == Rests => Native!Next
BY DEF Rests, Native!Next, Native!Turn

LEMMA DeadRests ==
  ASSUME ~Live, ~Live'
  PROVE  RipInv' /\ Rests
BY DEF RipInv, Rests, NextInsn, Live

LEMMA RestsAtPrompt ==
  ASSUME RunInv, AtPrompt, UNCHANGED <<tracee, rip, report>>,
         pc' = "prompt"
  PROVE  RipInv' /\ Rests
<1>1. CASE ~Live
  BY <1>1, DeadRests DEF Live
<1>2. CASE Live
  <2>1. report = "none"
    BY <1>2 DEF RunInv, ControlInv, Control, AtRest, AtPrompt, Live
  <2> QED
    BY <2>1 DEF RunInv, RipInv, Rests, Live, NextInsn, BehindBreakpoint, Overs
<1> QED
  BY <1>1, <1>2

LEMMA RestsGone ==
  ASSUME TracerGone, Next
  PROVE  RipInv' /\ (Rests \/ Ends)
<1>1. ~Live'
  BY DEF TracerGone, Live, Alive, Resumed
<1> QED
  BY <1>1, DeadRests DEF Ends, RipInv

LEMMA RestsResumed ==
  ASSUME RunInv, NEW by \in Overs, NEW m, tracee = "stopped", report' = "none",
         rip' = rip, rip \in Insns, report # "int3",
         run_breakpoint(m, by)
  PROVE  RipInv' /\ Rests
<1>1. Live /\ Live'
  BY DEF Live, run_breakpoint, Resume
<1>2. NextInsn = rip /\ NextInsn' = rip
  BY <1>1 DEF NextInsn, BehindBreakpoint
<1>3. pc' # "exec" /\ (pc' \in Overs => rip' = regs')
  BY DEF run_breakpoint, Resume, Overs
<1> QED
  BY <1>1, <1>2, <1>3 DEF RipInv, Rests

LEMMA ProceedRests ==
  ASSUME RunInv, Next, AtPrompt, NEW by \in Overs, Proceed(by)
  PROVE  RipInv' /\ (Rests \/ Ends)
<1>1. CASE quit_from_the_debugger
  BY <1>1, RestsAtPrompt DEF quit_from_the_debugger, kernelVars
<1>2. CASE Crash
  BY <1>2, RestsGone DEF Crash
<1>3. CASE /\ CanFetch
           /\ run_breakpoint(mem, by)
           /\ UNCHANGED <<rip, report>>
  <2>1. tracee = "stopped" /\ report = "none"
    BY <1>3 DEF CanFetch, AtPrompt, RunInv, ControlInv, Control, AtRest
  <2>2. rip \in Insns
    BY <2>1 DEF RunInv, RipInv, Live
  <2> QED
    BY <1>3, <2>1, <2>2, RestsResumed
<1> QED
  BY <1>1, <1>2, <1>3 DEF Proceed

LEMMA LaunchRests ==
  ASSUME RunInv, AtPrompt, state \in {"loaded", "terminated"}, Launch
  PROVE  RipInv' /\ Rests
<1>1. ~Live
  BY DEF AtPrompt, RunInv, ControlInv, Control, AtRest, Live
<1>2. ~Live'
  BY DEF Launch, Fork, Live
<1> QED
  BY <1>1, <1>2, DeadRests

(***************************************************************************)
(* "set rip" moves a stopped program, and no other register does.          *)
(***************************************************************************)
LEMMA SetRegisterMoves ==
  ASSUME RunInv, set_a_register, Next
  PROVE  RipInv' /\ (Rests \/ Ends \/ Native!Next)
<1>1. AtPrompt
  BY DEF set_a_register
<1>2. CASE quit_from_the_debugger
  BY <1>1, <1>2, RestsAtPrompt DEF quit_from_the_debugger, kernelVars
<1>3. CASE Crash
  BY <1>3, RestsGone DEF Crash
<1>4. ASSUME CanFetch,
             NEW value \in SetTargets \cup {rip}, rip' = value,
             UNCHANGED <<tracee, report, pc>>
      PROVE  RipInv' /\ (Rests \/ Native!Next)
  <2>1. pc = "prompt" /\ pc' = "prompt" /\ report = "none" /\ report' = "none"
    BY <1>1, <1>4 DEF AtPrompt, CanFetch, RunInv, ControlInv, Control, AtRest
  <2>2. Live /\ Live'
    BY <1>4 DEF CanFetch, Live
  <2>3. NextInsn = rip /\ NextInsn' = value
    BY <1>4, <2>1, <2>2 DEF NextInsn, BehindBreakpoint
  <2>4. rip \in Insns /\ value \in Insns
    BY <1>4, <2>1, <2>2 DEF RunInv, RipInv
  <2>5. RipInv'
    BY <1>4, <2>1, <2>4 DEF RipInv, Overs
  <2>6. CASE value = rip
    BY <2>2, <2>3, <2>5, <2>6 DEF Rests
  <2>7. CASE value \in SetTargets
    <3>1. Native!Move
      BY <2>1, <2>2, <2>3, <2>7 DEF Native!Move
    <3> QED
      BY <2>5, <3>1 DEF Native!Next
  <2> QED
    BY <1>4, <2>6, <2>7
<1> QED
  BY <1>2, <1>3, <1>4 DEF set_a_register

(***************************************************************************)
(* No other command moves the program.                                     *)
(***************************************************************************)
LEMMA CommandRests ==
  ASSUME RunInv, Next, Command, ~set_a_register
  PROVE  RipInv' /\ (Rests \/ Ends)
<1>1. AtPrompt
  BY DEF Command, set_a_breakpoint, delete_a_breakpoint, disassemble_instructions,
         get_a_register, get_all_registers, load_a_program,
         continue_the_execution, run_a_single_instruction, run_the_program,
         start_the_program, exit_command
<1>2. CASE UNCHANGED <<tracee, rip, report>> /\ pc' = "prompt"
  BY <1>1, <1>2, RestsAtPrompt
<1>3. CASE TracerGone
  BY <1>3, RestsGone
<1>4. CASE \E by \in Overs : Proceed(by)
  BY <1>1, <1>4, ProceedRests
<1>5. CASE state \in {"loaded", "terminated"} /\ Launch
  BY <1>1, <1>5, LaunchRests
<1>6. \/ UNCHANGED <<tracee, rip, report>> /\ pc' = pc
      \/ quit_from_the_debugger
      \/ TracerGone
      \/ \E by \in Overs : Proceed(by)
      \/ state \in {"loaded", "terminated"} /\ Launch
  BY DEF Command, set_a_breakpoint, delete_a_breakpoint, disassemble_instructions,
         get_a_register, get_all_registers, load_a_program,
         continue_the_execution, run_a_single_instruction, run_the_program,
         start_the_program, exit_command, Crash, Reply, vars, kernelVars, Overs
<1> QED
  BY <1>1, <1>2, <1>3, <1>4, <1>5, <1>6
  DEF AtPrompt, quit_from_the_debugger, kernelVars

(***************************************************************************)
(* check_breakpoint moves rip exactly when the mapping already has.        *)
(***************************************************************************)
LEMMA CheckRests ==
  ASSUME RunInv, check_breakpoint
  PROVE  RipInv' /\ Rests
<1>1. pc = "wait" /\ Watching /\ pc' = "prompt" /\ report' = "none"
  BY DEF check_breakpoint, WaitPid, RunInv, ControlInv, Control, Overs
<1>2. tracee' = tracee /\ mem' = mem
  BY DEF check_breakpoint
<1>3. CASE tracee # "stopped"
  <2>1. ~Live /\ ~Live'
    BY <1>1, <1>2, <1>3 DEF check_breakpoint, WaitPid, Watching, Live
  <2> QED
    BY <2>1, DeadRests
<1>4. CASE tracee = "stopped"
  <2>1. Live /\ Live' /\ report \in {"int3", "step", "signal"}
    BY <1>1, <1>2, <1>4 DEF check_breakpoint, WaitPid, Watching, Live
  <2>2. NextInsn' = rip'
    BY <1>1, <2>1 DEF NextInsn, BehindBreakpoint
  <2>3. CASE BehindBreakpoint
    <3>1. rip - 1 \in Listed /\ rip - 1 \in Insns
      BY <2>1, <2>3 DEF BehindBreakpoint, RunInv, RipInv
    <3>2. Hit
      <4>1. mem[rip - 1] = CC
        BY <1>1, <2>1, <3>1 DEF RunInv, TextInv, Planted, Overs
      <4>2. rip - 1 \in DOMAIN address_to_breakpoint
        BY <3>1 DEF RunInv, ControlInv, Tables
      <4> QED
        BY <1>4, <3>1, <4>1, <4>2 DEF Hit, Peek
    <3>3. rip' = rip - 1
      BY <2>3, <3>2 DEF BehindBreakpoint, check_breakpoint, Traps
    <3> QED
      BY <1>1, <2>1, <2>2, <2>3, <3>1, <3>3 DEF RipInv, Rests, NextInsn, Overs
  <2>4. CASE ~BehindBreakpoint
    <3>1. rip \in Insns /\ rip \in Int
      <4>1. rip \in Insns
        BY <2>1, <2>4 DEF BehindBreakpoint, RunInv, RipInv
      <4> QED
        BY <4>1
    <3>2. ~Hit
      <4> SUFFICES ASSUME Hit PROVE FALSE
        OBVIOUS
      <4>1. (rip - 1) + 1 \notin Insns
        BY DEF Hit, RunInv, LongInv
      <4> QED
        BY <3>1, <4>1
    <3>3. rip' = rip
      BY <2>1, <3>2 DEF check_breakpoint
    <3> QED
      BY <1>1, <2>1, <2>2, <2>4, <3>1, <3>3 DEF RipInv, Rests, NextInsn, Overs
  <2> QED
    BY <2>3, <2>4
<1> QED
  BY <1>3, <1>4

LEMMA WaitReturnsRests ==
  ASSUME RunInv, WaitReturns
  PROVE  RipInv' /\ Rests
<1>1. ASSUME NEW at \in Overs \cup {"exec"}, WaitFails(at)
      PROVE  RipInv' /\ Rests
  <2>1. tracee \in {"exited", "killed"} /\ tracee' = tracee
    BY <1>1 DEF WaitFails, WaitPid, RunInv, ControlInv, Control, Launching, Watching
  <2> QED
    BY <2>1, DeadRests DEF Live
<1>2. CASE ExecReturns
  <2>1. pc = "exec" /\ tracee = "stopped" /\ report = "exec"
    BY <1>2 DEF ExecReturns, WaitPid, RunInv, ControlInv, Control, Launching, Traps
  <2>2. rip \in Insns /\ rip' = rip /\ report' = "none"
    BY <1>2, <2>1 DEF ExecReturns, WaitPid, RunInv, RipInv, Live
  <2>3. CASE pc' = "prompt" /\ UNCHANGED <<tracee, mem, regs>>
    BY <2>1, <2>2, <2>3 DEF RipInv, Rests, NextInsn, BehindBreakpoint, Live, Overs
  <2>4. CASE run_breakpoint(Armed, "over_cont")
    BY <2>1, <2>2, <2>4, RestsResumed DEF Overs
  <2> QED
    BY <1>2, <2>3, <2>4 DEF ExecReturns
<1>3. ASSUME NEW by \in Overs, OverReturns(by)
      PROVE  RipInv' /\ Rests
  <2>1. pc \in Overs /\ tracee = "stopped" /\ report # "int3"
    BY <1>3 DEF OverReturns, WaitPid, RunInv, ControlInv, Control, Watching, RipInv,
                Live, Overs
  <2>2. rip \in Insns /\ rip' = rip /\ report' = "none"
    BY <1>3, <2>1 DEF OverReturns, WaitPid, RunInv, RipInv, Live
  <2> QED
    BY <1>3, <2>1, <2>2
    DEF OverReturns, Resume, RipInv, Rests, NextInsn, BehindBreakpoint, Live, Overs
<1> QED
  BY <1>1, <1>2, <1>3, CheckRests DEF WaitReturns

-----------------------------------------------------------------------------
(***************************************************************************)
(* A resumed tracee is on an instruction, and finds there the program's    *)
(* own byte or a planted one; the one it is stepped over is its own.       *)
(***************************************************************************)
LEMMA ExecutingIsOnInsn ==
  ASSUME RunInv, Executing
  PROVE  /\ Live
         /\ pc \in Overs \cup {"wait"}
         /\ report = "none"
         /\ rip \in Insns
         /\ NextInsn = rip
         /\ AtInt3 \/ Intact
         /\ AtInt3 => pc = "wait" /\ (Orig[rip] = CC \/ rip \in Listed)
<1>1. Live
  BY DEF Executing, Live
<1>2. pc \in Overs \cup {"wait"} /\ Watching
  BY DEF Executing, RunInv, ControlInv, TypeOK, Waiting, Control, AtRest, Launching,
         Gone
<1>3. report = "none"
  BY <1>2 DEF Executing, Watching
<1>4. rip \in Insns
  BY <1>1, <1>3 DEF RunInv, RipInv
<1>5. NextInsn = rip
  BY <1>1, <1>3 DEF NextInsn, BehindBreakpoint
<1>6. mem[rip] = IF rip \in Listed /\ ~(pc \in Overs /\ rip = regs)
                 THEN CC ELSE Orig[rip]
  BY <1>1, <1>2, <1>4 DEF RunInv, TextInv, Planted, Overs
<1>7. pc \in Overs => rip = regs /\ rip \in DOMAIN address_to_breakpoint
  BY <1>1 DEF Executing, RunInv, ControlInv, Control, RipInv
<1>8. pc \in Overs => mem[rip] = Orig[rip] /\ Orig[rip] # CC
  BY <1>4, <1>6, <1>7, LongIsNotInt3 DEF RunInv
<1> QED
  BY <1>1, <1>2, <1>3, <1>4, <1>5, <1>6, <1>8 DEF AtInt3, Intact

Simulates == RipInv' /\ (Rests \/ Native!Next)

LEMMA Int3Simulates ==
  ASSUME RunInv, RunInt3, UNCHANGED debuggerVars
  PROVE  Simulates
<1>1. /\ Live /\ pc = "wait" /\ rip \in Insns /\ NextInsn = rip
      /\ Orig[rip] = CC \/ rip \in Listed
  BY ExecutingIsOnInsn DEF RunInt3
<1>2. Live' /\ rip' = rip + 1 /\ report' = "int3" /\ rip' - 1 = rip
  BY <1>1 DEF RunInt3, Halt, Live
<1>3. pc' = "wait" /\ Listed' = Listed
  BY <1>1 DEF debuggerVars, tables, Listed
<1>4. CASE Orig[rip] = CC
  <2>1. rip + 1 \in Succ[rip] /\ rip + 1 \in Insns /\ rip \notin Exits
    BY <1>1, <1>4
  <2>2. RipInv'
    BY <1>1, <1>2, <1>3, <1>4, <2>1 DEF RipInv, Overs
  <2>3. NextInsn' = rip + 1
    BY <1>2, <1>4 DEF NextInsn, BehindBreakpoint
  <2>4. Native!Step
    BY <1>1, <1>2, <1>3, <2>1, <2>3 DEF Native!Step
  <2> QED
    BY <2>2, <2>4 DEF Simulates, Native!Next
<1>5. CASE Orig[rip] # CC
  <2>1. RipInv'
    BY <1>1, <1>2, <1>3, <1>5 DEF RipInv, Overs
  <2>2. NextInsn' = rip
    BY <1>1, <1>2, <1>5 DEF NextInsn, BehindBreakpoint
  <2> QED
    BY <1>1, <1>2, <2>1, <2>2 DEF Simulates, Rests, Live
<1> QED
  BY <1>4, <1>5

LEMMA InsnSimulates ==
  ASSUME RunInv, RunInsn, UNCHANGED debuggerVars
  PROVE  Simulates
<1>1. /\ Live /\ rip \in Insns /\ NextInsn = rip /\ report = "none"
      /\ pc \in Overs \cup {"wait"}
  BY ExecutingIsOnInsn DEF RunInsn
<1>2. rip' \in Succ[rip] /\ rip \notin Exits /\ rip' \in Insns
  BY <1>1 DEF RunInsn, Retire
<1>3. Live' /\ report' \in {"none", "step"}
  BY <1>1 DEF RunInsn, Executing, Retire, Halt, Live
<1>4. NextInsn' = rip'
  BY <1>3 DEF NextInsn, BehindBreakpoint
<1>5. tracee' = "stepping" => FALSE
  BY DEF RunInsn, Executing, Retire, Halt
<1>6. RipInv'
  BY <1>1, <1>2, <1>3, <1>5 DEF RipInv, debuggerVars, Overs
<1>7. pc # "prompt" /\ pc' = pc
  BY <1>1 DEF debuggerVars, Overs
<1>8. Native!Step
  BY <1>1, <1>2, <1>3, <1>4, <1>7 DEF Native!Step
<1> QED
  BY <1>6, <1>8 DEF Simulates, Native!Next

LEMMA EnvironmentSimulates ==
  ASSUME RunInv, Environment
  PROVE  Simulates
<1>0. UNCHANGED debuggerVars
  BY DEF Environment
<1>1. CASE ExecSucceeds
  <2>1. ~Live /\ Live' /\ report' = "exec" /\ rip' = Entry
    BY <1>1 DEF ExecSucceeds, Halt, Live
  <2>2. pc = "exec"
    BY <1>1 DEF ExecSucceeds, RunInv, ControlInv, TypeOK, Waiting, Control, AtRest,
                Watching, Gone
  <2>3. RipInv'
    BY <1>0, <2>1, <2>2 DEF RipInv, debuggerVars, Overs
  <2>4. Native!Start
    BY <1>0, <2>1, <2>2 DEF Native!Start, NextInsn, BehindBreakpoint, debuggerVars
  <2> QED
    BY <2>3, <2>4 DEF Simulates, Native!Next
<1>2. CASE RunInt3
  BY <1>0, <1>2, Int3Simulates
<1>3. CASE RunInsn
  BY <1>0, <1>3, InsnSimulates
<1>4. CASE RunAstray
  BY <1>4, ExecutingIsOnInsn DEF RunAstray
<1>5. CASE ExecFails \/ RunExit \/ Kill
  <2>1. ~Live'
    BY <1>5 DEF ExecFails, RunExit, Kill, Live
  <2> QED
    BY <2>1, DeadRests, EndsNative DEF Simulates, Ends, RipInv
<1>6. CASE Signal
  <2>1. /\ Live /\ rip \in Insns /\ NextInsn = rip
        /\ pc \in Overs \cup {"wait"}
    BY <1>6, ExecutingIsOnInsn DEF Signal
  <2>2. Live' /\ report' = "signal" /\ rip' = rip /\ tracee' = "stopped"
    BY <1>6 DEF Signal, Halt, Live
  <2>3. NextInsn' = rip
    BY <2>2 DEF NextInsn, BehindBreakpoint
  <2>4. RipInv'
    BY <1>0, <2>1, <2>2 DEF RipInv, debuggerVars, Overs
  <2> QED
    BY <2>1, <2>2, <2>3, <2>4 DEF Simulates, Rests, Live
<1> QED
  BY <1>1, <1>2, <1>3, <1>4, <1>5, <1>6 DEF Environment, TraceeRuns

-----------------------------------------------------------------------------
LEMMA CarefulStep ==
  ASSUME RunInv, [CarefulNext]_vars
  PROVE  RunInv' /\ [Native!Next]_<<Live, NextInsn, pc = "prompt">>
<1>1. ControlInv' /\ TextInv' /\ LongInv'
  BY ControlStep, TextStep, LongStep DEF RunInv, CarefulNext
<1>2. CASE UNCHANGED vars
  <2>1. RipInv' /\ Rests
    BY <1>2 DEF RunInv, RipInv, Rests, NextInsn, BehindBreakpoint, Live, Listed,
                vars, kernelVars, tables
  <2> QED
    BY <1>1, <2>1, RestsNative DEF RunInv
<1>3. CASE CarefulNext
  <2>1. RipInv' /\ Native!Next
    <3>1. CASE set_a_register
      BY <1>3, <3>1, SetRegisterMoves, RestsNative, EndsNative DEF CarefulNext
    <3>2. CASE Command /\ ~set_a_register
      BY <1>3, <3>2, CommandRests, RestsNative, EndsNative DEF CarefulNext
    <3>3. CASE WaitReturns
      BY <3>3, WaitReturnsRests, RestsNative
    <3>4. CASE Exit \/ Killed
      BY <1>3, <3>4, RestsGone, RestsNative, EndsNative
      DEF Exit, Killed, Crash, CarefulNext
    <3>5. CASE Environment
      BY <3>5, EnvironmentSimulates, RestsNative DEF Simulates
    <3> QED
      BY <1>3, <3>1, <3>2, <3>3, <3>4, <3>5 DEF CarefulNext, Next
  <2> QED
    BY <1>1, <2>1 DEF RunInv
<1> QED
  BY <1>2, <1>3

(***************************************************************************)
(* Debugging is transparent: for every program, and for a user who sets no *)
(* breakpoint twice or on a one-byte instruction, what the tracee executes *)
(* is what the program could execute by itself, from where "set rip" last  *)
(* put it; and nothing executes while the user has the prompt.             *)
(***************************************************************************)
THEOREM DebuggingIsTransparent == SpecCareful => Transparent
<1>1. Init => RunInv /\ Native!Init
  BY RunInit DEF Init, KernelInit, Native!Init, Live, NextInsn
<1>2. RunInv /\ [CarefulNext]_vars
        => RunInv' /\ [Native!Next]_<<Live, NextInsn, pc = "prompt">>
  BY CarefulStep
<1> QED
  BY <1>1, <1>2, PTL DEF SpecCareful, CarefulNext, Transparent, Native!Spec

(***************************************************************************)
(* What makes it so: rip is on an instruction of the program but right     *)
(* behind a planted int3, whatever run_breakpoint and check_breakpoint     *)
(* (debugger.cpp:236-334) do to it.                                        *)
(***************************************************************************)
THEOREM RunIsKnown == SpecCareful => []RunInv
<1>1. Init => RunInv
  BY RunInit
<1>2. RunInv /\ [CarefulNext]_vars => RunInv'
  BY CarefulStep
<1> QED
  BY <1>1, <1>2, PTL DEF SpecCareful, CarefulNext

(***************************************************************************)
(* For the careful user check_breakpoint (debugger.cpp:245) takes rip back *)
(* only behind an int3: a step that ends on the address behind a listed    *)
(* breakpoint, which deceives it (run "hit"), is out of reach, because no  *)
(* instruction starts there.                                               *)
(***************************************************************************)
THEOREM HitIsKnown == SpecCareful => HitIsInt3
<1> DEFINE Step == pc = "wait" /\ pc' = "prompt" /\ rip' # rip => report = "int3"
<1>1. Init => RunInv
  BY RunInit
<1>2. RunInv /\ [CarefulNext]_vars => RunInv' /\ [Step]_vars
  <2> SUFFICES ASSUME RunInv, CarefulNext, pc = "wait", pc' = "prompt", rip' # rip
               PROVE  report = "int3"
    BY CarefulStep
  <2>1. check_breakpoint
    BY DEF CarefulNext, Next, Command, set_a_breakpoint, delete_a_breakpoint,
           disassemble_instructions, get_a_register, get_all_registers,
           set_a_register, load_a_program, continue_the_execution,
           run_a_single_instruction, run_the_program, start_the_program,
           exit_command, AtPrompt, WaitReturns, ExecReturns, OverReturns, WaitFails,
           WaitPid, Overs, Exit, Killed, Crash, Environment, debuggerVars
  <2>2. Hit /\ Live
    BY <2>1 DEF check_breakpoint, Hit, Peek, Live, ProgramAssumption
  <2>3. rip \notin Insns
    <3>1. (rip - 1) + 1 \notin Insns
      BY <2>2 DEF Hit, RunInv, LongInv
    <3>2. rip \in Int
      BY DEF RunInv, ControlInv, TypeOK, KernelTypeOK, Addresses
    <3> QED
      BY <3>1, <3>2
  <2> QED
    BY <2>2, <2>3 DEF RunInv, RipInv
<1> QED
  BY <1>1, <1>2, PTL DEF SpecCareful, CarefulNext, HitIsInt3
=============================================================================
