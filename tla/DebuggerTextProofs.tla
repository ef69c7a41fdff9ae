------------------------- MODULE DebuggerTextProofs -------------------------
(***************************************************************************)
(* For a user who sets no breakpoint where one is listed, the text of the  *)
(* tracee is in step with the list of breakpoints at every prompt.         *)
(***************************************************************************)
EXTENDS DebuggerSafetyProofs

(* The operators that name a piece of one handler are always expanded.     *)
USE ProgramAssumption, DebuggerAssumption
    DEF Fetch, Lifted, Forget, Loadable, Clear, SetOptions, Replanted, Rewound

(***************************************************************************)
(* TextInv speaks of the state alone, and of little of it.                 *)
(***************************************************************************)
LEMMA TextInit == Init => TextInv
<1> SUFFICES ASSUME Init PROVE TextInv
  OBVIOUS
<1>1. DOMAIN id_to_breakpoint = {} /\ DOMAIN address_to_breakpoint = {}
  BY DEF Init
<1>2. ~Live
  BY DEF Init, KernelInit, Live
<1> QED
  BY <1>1, <1>2 DEF TextInv, OneEach, Recorded, Planted

LEMMA SameRecords ==
  ASSUME OneEach, Recorded, UNCHANGED tables, tracee' # "killed" => tracee # "killed"
  PROVE  OneEach' /\ Recorded' /\ Listed' = Listed
BY DEF OneEach, Recorded, Listed, tables

LEMMA SamePlanted ==
  ASSUME Planted, UNCHANGED <<mem, tables>>, Live' => Live,
         pc \notin Overs \cup {"exec"}, pc' \notin Overs
  PROVE  Planted'
BY DEF Planted, Listed, tables

(***************************************************************************)
(* A tracee that was killed behind a stop is the last one: State says      *)
(* running from then on, and nothing is forked any more.                   *)
(***************************************************************************)
LEMMA KilledForGood ==
  ASSUME ControlInv, AtPrompt, tracee = "killed"
  PROVE  state = "running"
BY DEF ControlInv, TypeOK, AtPrompt, Control, AtRest

(***************************************************************************)
(* Stepping over a planted byte and resuming.                              *)
(***************************************************************************)
LEMMA TextResume ==
  ASSUME ControlInv, OneEach, Recorded, NEW by \in Overs,
         tracee = "stopped", state' = "running", UNCHANGED <<rip, tables>>,
         NEW m,
         m = [a \in Insns |-> IF a \in Listed THEN CC ELSE Orig[a]],
         run_breakpoint(m, by)
  PROVE  TextInv'
<1>1. OneEach' /\ Recorded' /\ Listed' = Listed
  BY SameRecords
<1>2. tracee' \in {"running", "stepping"}
  BY DEF run_breakpoint, Resume
<1>3. CASE rip \in DOMAIN address_to_breakpoint /\ m[rip] = CC
  <2>1. rip \in Insns /\ address_to_breakpoint[rip].original = Orig[rip]
    BY <1>3 DEF ControlInv, TypeOK, Recorded
  <2>2. /\ mem' = [m EXCEPT ![rip] = Orig[rip]]
        /\ regs' = rip
        /\ pc' = by
    BY <1>3, <2>1 DEF run_breakpoint
  <2>3. rip \in Listed \/ Orig[rip] = CC
    BY <1>3, <2>1
  <2>4. mem' = [a \in Insns |->
                  IF a \in Listed /\ ~(pc' \in Overs /\ a = regs')
                  THEN CC ELSE Orig[a]]
    BY <2>1, <2>2
  <2> QED
    BY <1>1, <2>2, <2>3, <2>4 DEF TextInv, Planted
<1>4. CASE ~(rip \in DOMAIN address_to_breakpoint /\ m[rip] = CC)
  <2>1. mem' = m /\ pc' = "wait"
    BY <1>4 DEF run_breakpoint, Resume
  <2> QED
    BY <1>1, <2>1 DEF TextInv, Planted, Overs
<1> QED
  BY <1>3, <1>4

(***************************************************************************)
(* At the prompt with a stopped tracee, Planted is TextIntegrity.          *)
(***************************************************************************)
LEMMA PlantedAtPrompt ==
  ASSUME TextInv, pc = "prompt", tracee = "stopped"
  PROVE  mem = [a \in Insns |-> IF a \in Listed THEN CC ELSE Orig[a]]
BY DEF TextInv, Planted, Live, Overs

LEMMA TextQuit ==
  ASSUME TextInv, AtPrompt, quit_from_the_debugger
  PROVE  TextInv'
BY SameRecords, SamePlanted
DEF TextInv, quit_from_the_debugger, AtPrompt, kernelVars, tables, Live, Overs

LEMMA TextGone ==
  ASSUME TextInv, ControlInv, pc \notin Ended, TracerGone, pc' \in Ended,
         UNCHANGED tables
  PROVE  TextInv'
<1>1. tracee' # "killed" => tracee # "killed"
  BY DEF TracerGone, Alive, Resumed
<1>2. ~Live'
  BY DEF TracerGone, Live, Alive, Resumed
<1> QED
  BY <1>1, <1>2, SameRecords DEF TextInv, Planted

LEMMA TextProceed ==
  ASSUME TextInv, ControlInv, AtPrompt, is_running, NEW by \in Overs, Proceed(by)
  PROVE  TextInv'
<1>1. CASE ~is_stopped /\ quit_from_the_debugger
  BY <1>1, TextQuit
<1>2. CASE is_stopped /\ ~CanFetch /\ Crash
  BY <1>2, TextGone DEF AtPrompt, Crash, Ended, tables
<1>3. CASE /\ is_stopped
           /\ CanFetch
           /\ run_breakpoint(mem, by)
           /\ UNCHANGED <<rip, report, exitkill, stop, state, wait_status, tables>>
  <2>1. pc = "prompt" /\ tracee = "stopped" /\ state = "running"
    BY <1>3 DEF CanFetch, AtPrompt, ControlInv, Control, AtRest
  <2> QED
    BY <1>3, <2>1, PlantedAtPrompt, TextResume DEF TextInv
<1> QED
  BY <1>1, <1>2, <1>3 DEF Proceed

LEMMA TextLaunch ==
  ASSUME TextInv, ControlInv, AtPrompt, state \in {"loaded", "terminated"}, Launch
  PROVE  TextInv'
<1>1. tracee # "killed"
  BY KilledForGood
<1>2. ~Live'
  BY DEF Launch, Fork, Live
<1> QED
  BY <1>1, <1>2, SameRecords DEF Launch, TextInv, Planted, tables

(***************************************************************************)
(* A new breakpoint at an address that is not listed: the byte recorded is *)
(* the executable's, and the list and the text grow by the same address.   *)
(***************************************************************************)
LEMMA TextBreak ==
  ASSUME TextInv, ControlInv, DistinctBreaks, set_a_breakpoint
  PROVE  TextInv'
<1> USE DEF AtPrompt
<1>1. CASE ~is_stopped /\ quit_from_the_debugger
  BY <1>1, TextQuit DEF set_a_breakpoint
<1>2. CASE is_stopped /\ is_running /\ Crash
  BY <1>2, TextGone DEF set_a_breakpoint, Crash, Ended, tables
<1>3. ASSUME NEW address \in Insns, is_stopped,
             NEW new, new = [address |-> address, original |-> Peek(address)],
             id_to_breakpoint' = Put(id_to_breakpoint, breakpoint_id, new),
             address_to_breakpoint' = Put(address_to_breakpoint, address, new),
             mem' = Poke(mem, address, CC),
             breakpoint_id' = breakpoint_id + 1,
             UNCHANGED <<tracee, rip, report, exitkill, pc, stop, state,
                         wait_status, regs>>
      PROVE  TextInv'
  <2>1. pc = "prompt" /\ tracee \in {"stopped", "killed"}
    BY <1>3 DEF set_a_breakpoint, ControlInv, Control, AtRest
  <2>2. /\ breakpoint_id \in Nat
        /\ \A i \in DOMAIN id_to_breakpoint : i \in Int /\ i < breakpoint_id
    BY DEF ControlInv, TypeOK, TextInv, OneEach, Ids
  <2>3. /\ DOMAIN id_to_breakpoint' = DOMAIN id_to_breakpoint \cup {breakpoint_id}
        /\ id_to_breakpoint'[breakpoint_id] = new
        /\ \A i \in DOMAIN id_to_breakpoint :
             id_to_breakpoint'[i] = id_to_breakpoint[i]
    BY <1>3, <2>2 DEF Put
  <2>4. address \notin Listed
    BY <1>3, <2>2, <2>3 DEF DistinctBreaks
  <2>5. Listed' = Listed \cup {address}
    BY <1>3, <2>3 DEF Listed
  <2>6. OneEach'
    <3>1. \A i \in DOMAIN id_to_breakpoint' : i < breakpoint_id'
      BY <1>3, <2>2, <2>3
    <3>2. \A i \in DOMAIN id_to_breakpoint : id_to_breakpoint[i].address # address
      BY <2>4 DEF Listed
    <3> QED
      BY <1>3, <2>3, <3>1, <3>2 DEF OneEach, TextInv
  <2>7. CASE tracee = "killed"
    BY <1>3, <2>6, <2>7 DEF TextInv, Recorded, Planted, Live
  <2>8. CASE tracee = "stopped"
    <3>1. mem = [a \in Insns |-> IF a \in Listed THEN CC ELSE Orig[a]]
      BY <2>1, <2>8, PlantedAtPrompt
    <3>2. new.address = address /\ new.original = Orig[address]
      BY <1>3, <2>4, <2>8, <3>1 DEF Peek
    <3>3. \A a \in DOMAIN address_to_breakpoint' :
            address_to_breakpoint'[a].original = Orig[a]
      BY <1>3, <2>8, <3>2 DEF Put, TextInv, Recorded
    <3>4. Recorded'
      BY <2>3, <2>8, <3>2, <3>3 DEF TextInv, Recorded
    <3>5. mem' = [a \in Insns |-> IF a \in Listed' THEN CC ELSE Orig[a]]
      BY <1>3, <2>5, <2>8, <3>1 DEF Poke
    <3> QED
      BY <1>3, <2>1, <2>6, <3>4, <3>5 DEF TextInv, Planted, Overs
  <2> QED
    BY <2>1, <2>7, <2>8
<1> QED
  BY <1>1, <1>2, <1>3 DEF set_a_breakpoint

(***************************************************************************)
(* A delete takes the address out of the list, since no other id has it,   *)
(* and puts the executable's byte back.                                    *)
(***************************************************************************)
LEMMA TextDelete ==
  ASSUME TextInv, ControlInv, delete_a_breakpoint
  PROVE  TextInv'
<1> USE DEF AtPrompt
<1>1. CASE ~is_stopped /\ quit_from_the_debugger
  BY <1>1, TextQuit DEF delete_a_breakpoint
<1>2. CASE is_stopped /\ is_running /\ Crash
  BY <1>2, TextGone DEF delete_a_breakpoint, Crash, Ended, tables
<1>3. ASSUME NEW id \in DOMAIN id_to_breakpoint, is_stopped,
             mem' = Poke(mem, id_to_breakpoint[id].address,
                         id_to_breakpoint[id].original),
             Forget(id),
             UNCHANGED <<tracee, rip, report, exitkill, pc, stop, state,
                         wait_status, breakpoint_id, regs>>
      PROVE  TextInv'
  <2> DEFINE address == id_to_breakpoint[id].address
  <2>1. pc = "prompt" /\ tracee \in {"stopped", "killed"}
    BY <1>3 DEF delete_a_breakpoint, ControlInv, Control, AtRest
  <2>2. /\ DOMAIN id_to_breakpoint' = DOMAIN id_to_breakpoint \ {id}
        /\ \A i \in DOMAIN id_to_breakpoint' :
             id_to_breakpoint'[i] = id_to_breakpoint[i]
    BY <1>3 DEF Restrict
  <2>3. OneEach'
    BY <1>3, <2>2 DEF TextInv, OneEach
  <2>4. Listed' = Listed \ {address}
    BY <2>2 DEF TextInv, OneEach, Listed
  <2>5. Recorded'
    BY <1>3, <2>2 DEF TextInv, Recorded
  <2>6. CASE tracee = "killed"
    BY <1>3, <2>3, <2>5, <2>6 DEF TextInv, Planted, Live
  <2>7. CASE tracee = "stopped"
    <3>1. mem = [a \in Insns |-> IF a \in Listed THEN CC ELSE Orig[a]]
      BY <2>1, <2>7, PlantedAtPrompt
    <3>2. address \in Insns /\ id_to_breakpoint[id].original = Orig[address]
      BY <2>7 DEF ControlInv, TypeOK, Breakpoint, TextInv, Recorded
    <3>3. mem' = [a \in Insns |-> IF a \in Listed' THEN CC ELSE Orig[a]]
      BY <1>3, <2>4, <2>7, <3>1, <3>2 DEF Poke
    <3> QED
      BY <1>3, <2>1, <2>3, <2>5, <3>3 DEF TextInv, Planted, Overs
  <2> QED
    BY <2>1, <2>6, <2>7
<1> QED
  BY <1>1, <1>2, <1>3 DEF delete_a_breakpoint

LEMMA TextLoad ==
  ASSUME TextInv, ControlInv, load_a_program
  PROVE  TextInv'
<1>1. DOMAIN id_to_breakpoint' = {} /\ DOMAIN address_to_breakpoint' = {}
  BY DEF load_a_program
<1>2. tracee \in {"none", "exited"}
  BY DEF load_a_program, AtPrompt, ControlInv, Control, AtRest
<1>3. ~Live'
  BY <1>2 DEF load_a_program, TracerGone, kernelVars, Live, Alive, Resumed
<1> QED
  BY <1>1, <1>3 DEF TextInv, OneEach, Recorded, Planted

LEMMA TextRegisters ==
  ASSUME TextInv, ControlInv,
         get_a_register \/ get_all_registers \/ set_a_register
  PROVE  TextInv'
<1>1. AtPrompt
  BY DEF get_a_register, get_all_registers, set_a_register
<1>2. CASE quit_from_the_debugger
  BY <1>1, <1>2, TextQuit
<1>3. CASE Crash
  BY <1>1, <1>3, TextGone DEF AtPrompt, Crash, Ended, tables
<1>4. CASE UNCHANGED <<tracee, mem, report, exitkill, pc, stop, state,
                       wait_status, tables>>
  BY <1>1, <1>4, SameRecords, SamePlanted DEF TextInv, AtPrompt, Live, Overs
<1> QED
  BY <1>2, <1>3, <1>4
  DEF get_a_register, get_all_registers, set_a_register, kernelVars

LEMMA TextCommand ==
  ASSUME TextInv, ControlInv, DistinctBreaks, Command
  PROVE  TextInv'
<1>1. CASE disassemble_instructions
  <2>1. CASE Reply
    BY <2>1 DEF Reply, vars, kernelVars, tables, TextInv, OneEach, Recorded,
                Planted, Live, Listed
  <2> QED
    BY <1>1, <2>1, TextQuit, TextGone
    DEF disassemble_instructions, AtPrompt, Crash, Ended, tables
<1>2. CASE continue_the_execution \/ run_a_single_instruction
  BY <1>2, TextProceed DEF continue_the_execution, run_a_single_instruction, Overs
<1>3. CASE run_the_program \/ start_the_program
  BY <1>3, TextProceed, TextLaunch, TextQuit
  DEF run_the_program, start_the_program, Overs, is_running
<1>4. CASE exit_command
  BY <1>4, TextQuit DEF exit_command
<1> QED
  BY <1>1, <1>2, <1>3, <1>4, TextBreak, TextDelete, TextLoad, TextRegisters
  DEF Command

(***************************************************************************)
(* Behind the waits: a re-run arms what is listed, and a step over puts    *)
(* 0xcc back where it was.                                                 *)
(***************************************************************************)
LEMMA TextExecReturns ==
  ASSUME TextInv, ControlInv, ExecReturns
  PROVE  TextInv'
<1>1. pc = "exec" /\ tracee = "stopped" /\ mem = Orig
  BY DEF ExecReturns, WaitPid, ControlInv, Control, Launching, Traps
<1>2. UNCHANGED <<rip, tables>> /\ state' = "running"
  BY DEF ExecReturns
<1>3. CASE state # "terminated" /\ pc' = "prompt" /\ UNCHANGED <<tracee, mem, regs>>
  <2>1. Listed = {}
    BY <1>1, <1>3 DEF ControlInv, Control, Launching, Tables, Listed
  <2>2. OneEach' /\ Recorded' /\ Listed' = Listed
    BY <1>2, <1>3, SameRecords DEF TextInv
  <2>3. mem' = [a \in Insns |-> Orig[a]]
    BY <1>1, <1>3
  <2> QED
    BY <1>3, <2>1, <2>2, <2>3 DEF TextInv, Planted, Overs
<1>4. CASE run_breakpoint(Armed, "over_cont")
  <2>1. Armed = [a \in Insns |-> IF a \in Listed THEN CC ELSE Orig[a]]
    BY <1>1 DEF Armed
  <2>2. run_breakpoint(Armed, "over_cont") /\ "over_cont" \in Overs
    BY <1>4 DEF Overs
  <2> QED
    BY <1>1, <1>2, <2>1, <2>2, TextResume DEF TextInv
<1> QED
  BY <1>3, <1>4 DEF ExecReturns

LEMMA TextOverReturns ==
  ASSUME TextInv, ControlInv, NEW by \in Overs, OverReturns(by)
  PROVE  TextInv'
<1>1. pc = by /\ tracee = "stopped" /\ regs \in Insns
  BY DEF OverReturns, WaitPid, ControlInv, TypeOK, Control, Watching
<1>2. OneEach' /\ Recorded' /\ Listed' = Listed
  BY <1>1, SameRecords DEF OverReturns, Resume, TextInv
<1>3. /\ mem = [a \in Insns |-> IF a \in Listed /\ a # regs THEN CC ELSE Orig[a]]
      /\ regs \in Listed \/ Orig[regs] = CC
  BY <1>1 DEF TextInv, Planted, Live, Overs
<1>4. mem' = [a \in Insns |-> IF a \in Listed THEN CC ELSE Orig[a]]
  BY <1>1, <1>3 DEF OverReturns
<1>5. pc' = "wait"
  BY DEF OverReturns, Resume
<1> QED
  BY <1>2, <1>4, <1>5 DEF TextInv, Planted, Overs

LEMMA TextWaitReturns ==
  ASSUME TextInv, ControlInv, WaitReturns
  PROVE  TextInv'
<1>1. CASE check_breakpoint
  BY <1>1, SameRecords, SamePlanted
  DEF check_breakpoint, WaitPid, TextInv, Live, Overs, tables
<1>2. ASSUME NEW at \in Overs \cup {"exec"}, WaitFails(at)
      PROVE  TextInv'
  <2>1. tracee' \in {"exited", "killed"} /\ tracee' = tracee
    BY <1>2 DEF WaitFails, WaitPid, ControlInv, Control, Launching, Watching
  <2> QED
    BY <1>2, <2>1, SameRecords DEF WaitFails, TextInv, Planted, Live, tables
<1> QED
  BY <1>1, <1>2, TextExecReturns, TextOverReturns DEF WaitReturns

(***************************************************************************)
(* The tracee's own steps leave the tables and the text alone.             *)
(***************************************************************************)
LEMMA TextEnvironment ==
  ASSUME TextInv, ControlInv, Environment
  PROVE  TextInv'
<1> USE DEF Environment, debuggerVars
<1>1. tracee' # "killed" => tracee # "killed"
  BY DEF TraceeRuns, ExecSucceeds, ExecFails, RunInt3, RunInsn, RunExit, RunAstray,
         Signal, Kill, Executing
<1>2. OneEach' /\ Recorded' /\ Listed' = Listed
  BY <1>1, SameRecords DEF TextInv
<1>3. CASE ExecSucceeds
  <2>1. pc = "exec"
    BY <1>3 DEF ExecSucceeds, ControlInv, TypeOK, Waiting, Control, AtRest,
                Watching, Gone
  <2> QED
    BY <1>2, <2>1 DEF TextInv, Planted
<1>4. CASE ExecFails \/ RunExit \/ Kill
  <2>1. ~Live'
    BY <1>4 DEF ExecFails, RunExit, Kill, Live
  <2> QED
    BY <1>2, <2>1 DEF TextInv, Planted
<1>5. CASE RunInt3 \/ RunInsn \/ RunAstray \/ Signal
  <2>1. Live /\ mem' = mem
    BY <1>5 DEF RunInt3, RunInsn, RunAstray, Signal, Executing, Live
  <2> QED
    BY <1>2, <2>1 DEF TextInv, Planted, tables
<1> QED
  BY <1>3, <1>4, <1>5 DEF TraceeRuns

LEMMA TextStep ==
  TextInv /\ ControlInv /\ [Next /\ DistinctBreaks]_vars => TextInv'
<1> SUFFICES ASSUME TextInv, ControlInv, [Next /\ DistinctBreaks]_vars
             PROVE  TextInv'
  OBVIOUS
<1>1. CASE Exit
  BY <1>1, TextGone DEF Exit, Ended, tables
<1>2. CASE Killed
  BY <1>2, TextGone DEF Killed, Crash, Ended, tables
<1>3. CASE UNCHANGED vars
  BY <1>3 DEF vars, kernelVars, tables, TextInv, OneEach, Recorded, Planted, Live,
              Listed
<1> QED
  BY <1>1, <1>2, <1>3, TextCommand, TextWaitReturns, TextEnvironment DEF Next

(***************************************************************************)
(* The tables and the text of the tracee are in step through set_a_break-  *)
(* point, delete_a_breakpoint, run_breakpoint and every re-run.            *)
(***************************************************************************)
THEOREM TextCorrect == SpecDistinct => [](TextInv /\ ControlInv)
<1>1. Init => TextInv /\ ControlInv
  BY TextInit, ControlInit
<1>2. TextInv /\ ControlInv /\ [Next /\ DistinctBreaks]_vars
        => (TextInv /\ ControlInv)'
  BY TextStep, ControlStep
<1> QED
  BY <1>1, <1>2, PTL DEF SpecDistinct

-----------------------------------------------------------------------------
(***************************************************************************)
(* At every prompt the text of the tracee is the executable's, with 0xcc   *)
(* exactly at the listed breakpoints.                                      *)
(***************************************************************************)
THEOREM TextIsIntact == SpecDistinct => []TextIntegrity
<1>1. TextInv => TextIntegrity
  BY PlantedAtPrompt DEF TextIntegrity
<1> QED
  BY <1>1, TextCorrect, PTL

(***************************************************************************)
(* A step over a breakpoint finds the program's instruction in place.      *)
(***************************************************************************)
THEOREM StepsOverOriginal == SpecDistinct => []StepOverRunsOriginal
<1>1. TextInv /\ ControlInv => StepOverRunsOriginal
  <2> SUFFICES ASSUME TextInv, ControlInv, pc \in Overs, tracee = "stepping"
               PROVE  mem[regs] = Orig[regs]
    BY DEF StepOverRunsOriginal
  <2>1. regs \in Insns
    BY DEF ControlInv, TypeOK, Control
  <2> QED
    BY <2>1 DEF TextInv, Planted, Live, Overs
<1> QED
  BY <1>1, TextCorrect, PTL

(***************************************************************************)
(* disasm shows no planted byte: what it finds of one, its table undoes.   *)
(***************************************************************************)
THEOREM DisasmIsOriginal == SpecDistinct => []DisasmShowsOriginal
<1>1. TextInv /\ ControlInv => DisasmShowsOriginal
  <2> SUFFICES ASSUME TextInv, ControlInv, pc = "prompt", tracee = "stopped",
                      NEW a \in Insns
               PROVE  Displayed(a) = Orig[a]
    BY DEF DisasmShowsOriginal
  <2>1. Peek(a) = IF a \in Listed THEN CC ELSE Orig[a]
    BY PlantedAtPrompt DEF Peek
  <2>2. a \in Listed => a \in DOMAIN address_to_breakpoint
    BY DEF ControlInv, Tables
  <2>3. a \in DOMAIN address_to_breakpoint =>
          address_to_breakpoint[a].original = Orig[a]
    BY DEF TextInv, Recorded
  <2> QED
    BY <2>1, <2>2, <2>3 DEF Displayed
<1> QED
  BY <1>1, TextCorrect, PTL
=============================================================================
