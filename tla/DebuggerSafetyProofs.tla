------------------------ MODULE DebuggerSafetyProofs ------------------------
(***************************************************************************)
(* The protocol between the debugger's thread, its tables and the tracee   *)
(* is an invariant of Spec, and with it the safety properties that every   *)
(* user can rely on.                                                       *)
(***************************************************************************)
EXTENDS DebuggerProofs, DebuggerInv

(* The operators that name a piece of one handler are always expanded.     *)
USE ProgramAssumption, DebuggerAssumption
    DEF Fetch, Lifted, Forget, Loadable, Clear, SetOptions, Replanted, Rewound

(***************************************************************************)
(* ControlInv speaks of the state alone: a step that only prints keeps it. *)
(***************************************************************************)
LEMMA ControlStutter == ControlInv /\ UNCHANGED vars => ControlInv'
  BY DEF ControlInv, TypeOK, KernelTypeOK, Control, Tables, Known, PlantedIsKnown,
         Originals, AtRest,
         Launching, Watching, Gone, Live, Listed, is_stopped, vars, kernelVars,
         tables

LEMMA ControlInit == Init => ControlInv
<1> SUFFICES ASSUME Init PROVE ControlInv
  OBVIOUS
<1>1. DOMAIN id_to_breakpoint = {} /\ DOMAIN address_to_breakpoint = {}
  BY DEF Init
<1>2. Tables
  BY <1>1 DEF Tables, Listed
<1> QED
  BY <1>2, TypeInit
  DEF ControlInv, Init, KernelInit, Control, Known, PlantedIsKnown, Originals,
      AtRest, Overs, Ended,
      Live, is_stopped

(***************************************************************************)
(* What is left of an invariant when the tables and the text are not       *)
(* touched.                                                                *)
(***************************************************************************)
LEMMA SameTables ==
  ASSUME Tables, UNCHANGED tables,
         state' = state \/ state' \in {"running", "terminated"}
  PROVE  Tables' /\ Listed' = Listed
  BY DEF Tables, Listed, tables

LEMMA SameText ==
  ASSUME Known, UNCHANGED <<mem, id_to_breakpoint, address_to_breakpoint>>,
         Live' => Live, tracee = "killed" => tracee' = "killed"
  PROVE  Known'
  BY DEF Known, PlantedIsKnown, Originals

(***************************************************************************)
(* Leaving: quit at the prompt, a crash anywhere, the end of debug().      *)
(***************************************************************************)
LEMMA ControlQuit ==
  ASSUME ControlInv, AtPrompt, quit_from_the_debugger
  PROVE  Control' /\ Tables' /\ Known'
<1>1. Tables' /\ Known'
  BY SameTables, SameText
  DEF quit_from_the_debugger, ControlInv, kernelVars, tables, Live
<1>2. Control'
  BY DEF quit_from_the_debugger, AtPrompt, ControlInv, Control, AtRest, Overs,
         Ended, is_stopped, kernelVars
<1> QED
  BY <1>1, <1>2

LEMMA ControlGone ==
  ASSUME ControlInv, pc \notin Ended, TracerGone, pc' \in Ended,
         pc' = "crashed" \/ pc = "prompt",
         UNCHANGED <<state, tables>>
  PROVE  Control' /\ Known'
<1>1. pc \in {"prompt", "exec"} \cup Overs \cup {"wait"}
  BY DEF ControlInv, TypeOK, Waiting
<1>2. Gone'
  BY <1>1 DEF ControlInv, Control, AtRest, Launching, Watching, Gone, TracerGone,
              Alive, Resumed, TypeOK, KernelTypeOK, Overs
<1>3. Control'
  BY <1>2 DEF Control, Overs, Ended
<1>4. PlantedIsKnown'
  BY <1>2 DEF Gone, Live, PlantedIsKnown
<1>5. Originals'
  BY DEF ControlInv, Known, Originals, TracerGone, Alive, Resumed, tables
<1> QED
  BY <1>3, <1>4, <1>5 DEF Known

LEMMA ControlCrash ==
  ASSUME ControlInv, pc \notin Ended, Crash
  PROVE  Control' /\ Tables' /\ Known'
<1>1. Tables'
  BY SameTables DEF Crash, ControlInv
<1> QED
  BY <1>1, ControlGone DEF Crash, Ended

LEMMA ControlExit ==
  ASSUME ControlInv, Exit
  PROVE  Control' /\ Tables' /\ Known'
<1>1. Tables'
  BY SameTables DEF Exit, ControlInv
<1> QED
  BY <1>1, ControlGone DEF Exit, Ended

(***************************************************************************)
(* The commands that resume the tracee or start one.                       *)
(***************************************************************************)
LEMMA ControlResume ==
  ASSUME ControlInv, NEW by \in Overs, NEW m \in [Insns -> Bytes],
         tracee = "stopped", report' = "none", exitkill', ~stop,
         stop' = stop, state' = "running", state \notin {"init", "loaded"},
         \A a \in Insns : m[a] # Orig[a] =>
           m[a] = CC /\ a \in DOMAIN address_to_breakpoint,
         run_breakpoint(m, by), UNCHANGED <<rip, tables>>
  PROVE  Control' /\ Tables' /\ Known'
<1>1. Tables'
  BY SameTables DEF ControlInv
<1>2. Watching'
  BY DEF run_breakpoint, Resume, Watching
<1>3. pc' \in Overs => /\ tracee' # "running"
                       /\ regs' \in DOMAIN address_to_breakpoint'
  BY DEF run_breakpoint, Resume, Overs, tables
<1>4. pc' \in {by, "wait"}
  BY DEF run_breakpoint, Resume
<1>5. Originals /\ tracee # "killed" /\ UNCHANGED tables
  BY DEF ControlInv, Known
<1>6. Originals'
  BY <1>5 DEF Originals, tables
<1>7. \A a \in Insns : mem'[a] # Orig[a] =>
        mem'[a] = CC /\ a \in DOMAIN address_to_breakpoint
  BY <1>5 DEF run_breakpoint, Originals
<1>8. \A a \in DOMAIN address_to_breakpoint :
        address_to_breakpoint[a].original \in {Orig[a], CC}
  BY <1>5 DEF Originals
<1>9. Known'
  BY <1>5, <1>6, <1>7, <1>8 DEF Known, PlantedIsKnown, tables
<1> QED
  BY <1>1, <1>2, <1>3, <1>4, <1>9 DEF Control, Overs, Ended, tables

LEMMA ControlProceed ==
  ASSUME ControlInv, AtPrompt, is_running, NEW by \in Overs, Proceed(by)
  PROVE  Control' /\ Tables' /\ Known'
<1>1. CASE ~is_stopped /\ quit_from_the_debugger
  BY <1>1, ControlQuit
<1>2. CASE is_stopped /\ ~CanFetch /\ Crash
  BY <1>2, ControlCrash DEF AtPrompt, Ended
<1>3. CASE /\ is_stopped
           /\ CanFetch
           /\ run_breakpoint(mem, by)
           /\ UNCHANGED <<rip, report, exitkill, stop, state, wait_status, tables>>
  <2>1. tracee = "stopped" /\ state = "running" /\ exitkill /\ report = "none"
    BY <1>3 DEF CanFetch, AtPrompt, ControlInv, Control, AtRest
  <2>2. mem \in [Insns -> Bytes]
    BY DEF ControlInv, TypeOK, KernelTypeOK
  <2>3. \A a \in Insns : mem[a] # Orig[a] =>
          mem[a] = CC /\ a \in DOMAIN address_to_breakpoint
    BY <2>1 DEF ControlInv, Known, PlantedIsKnown, Originals, Live
  <2> QED
    BY <1>3, <2>1, <2>2, <2>3, ControlResume DEF AtPrompt
<1> QED
  BY <1>1, <1>2, <1>3 DEF Proceed

LEMMA ControlLaunch ==
  ASSUME ControlInv, AtPrompt, state \in {"loaded", "terminated"}, Launch
  PROVE  Control' /\ Tables' /\ Known'
<1>1. Tables'
  BY SameTables DEF Launch, ControlInv
<1> QED
  <2>1. tracee # "killed"
    BY DEF AtPrompt, ControlInv, Control, AtRest
  <2>2. Control' /\ PlantedIsKnown'
    BY DEF Launch, Fork, AtPrompt, Control, Launching, PlantedIsKnown, Live, Overs,
           Ended
  <2>3. Originals'
    BY <2>1 DEF Launch, ControlInv, Known, Originals, tables
  <2> QED
    BY <1>1, <2>2, <2>3 DEF Known

(***************************************************************************)
(* Every command keeps the protocol.                                       *)
(***************************************************************************)
LEMMA ControlBreak ==
  ASSUME ControlInv, set_a_breakpoint
  PROVE  Control' /\ Tables' /\ Known'
<1> USE DEF AtPrompt
<1>1. CASE ~is_stopped /\ quit_from_the_debugger
  BY <1>1, ControlQuit DEF set_a_breakpoint
<1>2. CASE is_stopped /\ is_running /\ Crash
  BY <1>2, ControlCrash DEF set_a_breakpoint, Ended
<1>3. ASSUME NEW address \in Insns, is_stopped, breakpoint_id \in Ids,
             NEW new, new = [address |-> address, original |-> Peek(address)],
             id_to_breakpoint' = Put(id_to_breakpoint, breakpoint_id, new),
             address_to_breakpoint' = Put(address_to_breakpoint, address, new),
             mem' = Poke(mem, address, CC),
             UNCHANGED <<tracee, rip, report, exitkill, pc, stop, state,
                         wait_status, regs>>
      PROVE  Control' /\ Tables' /\ Known'
  <2>1. pc = "prompt" /\ state = "running"
    BY <1>3 DEF set_a_breakpoint, ControlInv, Control, AtRest
  <2>2. Control'
    BY <1>3, <2>1 DEF ControlInv, Control, AtRest, Overs, Ended, is_stopped
  <2>3. DOMAIN address_to_breakpoint' = DOMAIN address_to_breakpoint \cup {address}
    BY <1>3 DEF Put
  <2>4. Listed' \subseteq Listed \cup {address}
    BY <1>3 DEF Put, Listed
  <2>5. Tables'
    BY <1>3, <2>1, <2>3, <2>4 DEF ControlInv, Tables
  <2>6. CASE tracee = "killed"
    BY <1>3, <2>2, <2>5, <2>6 DEF Known, PlantedIsKnown, Originals, Live
  <2>7. CASE tracee = "stopped"
    <3>1. /\ \A a \in Insns : mem[a] # Orig[a] =>
               mem[a] = CC /\ a \in DOMAIN address_to_breakpoint
          /\ Originals
          /\ mem \in [Insns -> Bytes]
      BY <2>7 DEF ControlInv, Known, PlantedIsKnown, Live, TypeOK, KernelTypeOK
    <3>2. new.address = address /\ new.original \in {Orig[address], CC}
      BY <1>3, <2>7, <3>1 DEF Peek
    <3>3. Originals'
      <4>1. \A i \in DOMAIN id_to_breakpoint' :
              \/ id_to_breakpoint'[i] = new
              \/ i \in DOMAIN id_to_breakpoint
                 /\ id_to_breakpoint'[i] = id_to_breakpoint[i]
        BY <1>3 DEF Put
      <4>2. \A a \in DOMAIN address_to_breakpoint' :
              \/ a = address /\ address_to_breakpoint'[a] = new
              \/ a \in DOMAIN address_to_breakpoint
                 /\ address_to_breakpoint'[a] = address_to_breakpoint[a]
        BY <1>3 DEF Put
      <4>3. \A i \in DOMAIN id_to_breakpoint' :
              id_to_breakpoint'[i].original
                \in {Orig[id_to_breakpoint'[i].address], CC}
        BY <2>7, <3>1, <3>2, <4>1 DEF Originals
      <4>4. \A a \in DOMAIN address_to_breakpoint' :
              address_to_breakpoint'[a].original \in {Orig[a], CC}
        BY <2>7, <3>1, <3>2, <4>2 DEF Originals
      <4> QED
        BY <4>3, <4>4 DEF Originals
    <3>4. \A a \in Insns : mem'[a] # Orig[a] =>
            mem'[a] = CC /\ a \in DOMAIN address_to_breakpoint'
      BY <1>3, <2>3, <2>7, <3>1 DEF Poke
    <3>5. PlantedIsKnown'
      BY <1>3, <2>7, <3>3, <3>4 DEF PlantedIsKnown, Originals
    <3> QED
      BY <2>2, <2>5, <3>3, <3>5 DEF Known
  <2> QED
    BY <2>1, <2>2, <2>5, <2>6, <2>7
    DEF set_a_breakpoint, ControlInv, Control, AtRest
<1>4. breakpoint_id < MaxBreaks => breakpoint_id \in Ids
  BY DEF ControlInv, TypeOK, Ids
<1> QED
  BY <1>1, <1>2, <1>3, <1>4 DEF set_a_breakpoint

LEMMA ControlDelete ==
  ASSUME ControlInv, delete_a_breakpoint
  PROVE  Control' /\ Tables' /\ Known'
<1> USE DEF AtPrompt
<1>1. CASE ~is_stopped /\ quit_from_the_debugger
  BY <1>1, ControlQuit DEF delete_a_breakpoint
<1>2. CASE is_stopped /\ is_running /\ Crash
  BY <1>2, ControlCrash DEF delete_a_breakpoint, Ended
<1>3. ASSUME NEW id \in DOMAIN id_to_breakpoint, is_stopped,
             mem' = Poke(mem, id_to_breakpoint[id].address,
                         id_to_breakpoint[id].original),
             Forget(id),
             UNCHANGED <<tracee, rip, report, exitkill, pc, stop, state,
                         wait_status, breakpoint_id, regs>>
      PROVE  Control' /\ Tables' /\ Known'
  <2>1. pc = "prompt" /\ state = "running"
    BY <1>3 DEF delete_a_breakpoint, ControlInv, Control, AtRest
  <2>2. Control'
    BY <1>3, <2>1 DEF ControlInv, Control, AtRest, Overs, Ended, is_stopped
  <2>3. Listed' \subseteq Listed
    BY <1>3 DEF Restrict, Listed
  <2>4. Tables'
    BY <1>3, <2>1, <2>3 DEF ControlInv, Tables
  <2>5. id_to_breakpoint[id].address \in DOMAIN address_to_breakpoint
    BY <1>3 DEF ControlInv, Tables, Listed
  <2>6. Originals'
    BY <1>3 DEF Restrict, ControlInv, Known, Originals
  <2>7. tracee = "stopped" =>
          id_to_breakpoint[id].original
            \in {Orig[id_to_breakpoint[id].address], CC}
    BY <1>3 DEF ControlInv, Known, Originals
  <2>8. Live => \A a \in Insns : mem'[a] # Orig[a] =>
          mem'[a] = CC /\ a \in DOMAIN address_to_breakpoint
    BY <1>3, <2>5, <2>7
    DEF ControlInv, Known, PlantedIsKnown, Poke, TypeOK, KernelTypeOK
  <2>9. Known'
    BY <1>3, <2>6, <2>8 DEF Known, PlantedIsKnown, Originals, Live
  <2> QED
    BY <2>2, <2>4, <2>9
<1> QED
  BY <1>1, <1>2, <1>3 DEF delete_a_breakpoint

LEMMA ControlRegisters ==
  ASSUME ControlInv, get_a_register \/ get_all_registers \/ set_a_register
  PROVE  Control' /\ Tables' /\ Known'
<1>1. AtPrompt
  BY DEF get_a_register, get_all_registers, set_a_register
<1>2. CASE quit_from_the_debugger
  BY <1>1, <1>2, ControlQuit
<1>3. CASE Crash
  BY <1>1, <1>3, ControlCrash DEF AtPrompt, Ended
<1>4. CASE UNCHANGED <<tracee, mem, report, exitkill, pc, stop, state,
                       wait_status, tables>>
  <2>1. Tables' /\ Known'
    BY <1>4, SameTables, SameText DEF ControlInv, tables, Live
  <2>2. Control'
    BY <1>1, <1>4
    DEF AtPrompt, ControlInv, Control, AtRest, Overs, Ended, is_stopped
  <2> QED
    BY <2>1, <2>2
<1> QED
  BY <1>2, <1>3, <1>4
  DEF get_a_register, get_all_registers, set_a_register, kernelVars

LEMMA ControlLoad ==
  ASSUME ControlInv, load_a_program
  PROVE  Control' /\ Tables' /\ Known'
<1>1. AtPrompt /\ state \in {"init", "terminated"}
  BY DEF load_a_program
<1>2. tracee \in {"none", "exited"}
  BY <1>1 DEF AtPrompt, ControlInv, Control, AtRest
<1>3. DOMAIN id_to_breakpoint' = {} /\ DOMAIN address_to_breakpoint' = {}
  BY DEF load_a_program
<1>4. Tables'
  BY <1>3 DEF Tables, Listed
<1>5. tracee' = tracee /\ report' = report
  BY <1>2 DEF load_a_program, kernelVars, TracerGone, Alive, Resumed
<1>6. Known'
  BY <1>2, <1>3, <1>5 DEF Known, PlantedIsKnown, Originals, Live
<1>7. (pc' = "prompt" /\ state' = "loaded") \/ pc' = "crashed"
  BY <1>1 DEF load_a_program, AtPrompt
<1>8. ~is_stopped
  BY <1>1 DEF AtPrompt, ControlInv, Control, AtRest
<1>9. Control'
  BY <1>1, <1>2, <1>5, <1>7, <1>8
  DEF load_a_program, AtPrompt, ControlInv, Control, AtRest, Gone, Overs, Ended,
      is_stopped
<1> QED
  BY <1>4, <1>6, <1>9

LEMMA ControlCommand ==
  ASSUME ControlInv, Command
  PROVE  ControlInv'
<1>1. TypeOK'
  BY CommandTyped DEF ControlInv
<1>2. CASE disassemble_instructions
  BY <1>1, <1>2, ControlStutter, ControlQuit, ControlCrash
  DEF disassemble_instructions, Reply, ControlInv, AtPrompt, Ended
<1>3. CASE continue_the_execution \/ run_a_single_instruction
  BY <1>1, <1>3, ControlProceed
  DEF continue_the_execution, run_a_single_instruction, ControlInv, Overs
<1>4. CASE run_the_program \/ start_the_program
  BY <1>1, <1>4, ControlProceed, ControlLaunch, ControlQuit
  DEF run_the_program, start_the_program, ControlInv, Overs, is_running
<1>5. CASE exit_command
  BY <1>1, <1>5, ControlQuit DEF exit_command, ControlInv
<1> QED
  BY <1>1, <1>2, <1>3, <1>4, <1>5, ControlBreak, ControlDelete,
     ControlRegisters, ControlLoad
  DEF Command, ControlInv

(***************************************************************************)
(* So does the rest of a handler behind its waitpid.                       *)
(***************************************************************************)
LEMMA ControlWaitFails ==
  ASSUME ControlInv, NEW at \in Overs \cup {"exec"}, WaitFails(at)
  PROVE  Control' /\ Tables' /\ Known'
<1>1. Tables' /\ Known'
  BY SameTables, SameText DEF WaitFails, ControlInv, tables, Live
<1>2. tracee \in {"exited", "killed"}
  BY DEF WaitFails, WaitPid, ControlInv, Control, Launching, Watching
<1>3. ~is_stopped'
  BY DEF WaitFails, WaitPid, Status, Traps, is_stopped
<1>4. Control'
  BY <1>2, <1>3 DEF WaitFails, WaitPid, Control, AtRest, Overs, Ended
<1> QED
  BY <1>1, <1>4

LEMMA ControlExecReturns ==
  ASSUME ControlInv, ExecReturns
  PROVE  Control' /\ Tables' /\ Known'
<1>1. pc = "exec" /\ report \in Traps /\ wait_status' = "trap" /\ report' = "none"
  BY DEF ExecReturns, WaitPid, Status
<1>2. /\ tracee = "stopped" /\ mem = Orig /\ ~stop
      /\ state \in {"loaded", "terminated"}
  BY <1>1 DEF ControlInv, Control, Launching, Traps
<1>3. CASE state # "terminated" /\ pc' = "prompt" /\ UNCHANGED <<tracee, mem, regs>>
  <2>1. Tables' /\ Known'
    BY <1>3, SameTables, SameText DEF ExecReturns, ControlInv, tables, Live
  <2>2. Control'
    BY <1>1, <1>2, <1>3
    DEF ExecReturns, Control, AtRest, Overs, Ended, is_stopped
  <2> QED
    BY <2>1, <2>2
<1>4. CASE state = "terminated" /\ run_breakpoint(Armed, "over_cont")
  <2>1. Armed \in [Insns -> Bytes]
    BY DEF Armed, ControlInv, TypeOK, KernelTypeOK
  <2>2. \A a \in Insns : Armed[a] # Orig[a] =>
          Armed[a] = CC /\ a \in DOMAIN address_to_breakpoint
    BY <1>2 DEF Armed, ControlInv, Tables
  <2>3. run_breakpoint(Armed, "over_cont")
    BY <1>4
  <2>4. exitkill' /\ state' = "running" /\ UNCHANGED <<rip, stop, tables>>
    BY DEF ExecReturns
  <2>5. state \notin {"init", "loaded"} /\ "over_cont" \in Overs
    BY <1>4 DEF Overs
  <2> QED
    BY <1>1, <1>2, <2>1, <2>2, <2>3, <2>4, <2>5, ControlResume
<1> QED
  BY <1>3, <1>4 DEF ExecReturns

LEMMA ControlOverReturns ==
  ASSUME ControlInv, NEW by \in Overs, OverReturns(by)
  PROVE  Control' /\ Tables' /\ Known'
<1>1. pc = by /\ Watching /\ regs \in DOMAIN address_to_breakpoint
  BY DEF OverReturns, WaitPid, ControlInv, Control
<1>2. tracee = "stopped"
  BY <1>1 DEF OverReturns, WaitPid, Watching
<1>3. Control'
  BY <1>1 DEF OverReturns, WaitPid, Resume, Watching, Control, Overs, Ended
<1>4. Tables'
  BY SameTables DEF OverReturns, ControlInv
<1>5. Known'
  BY <1>1, <1>2
  DEF OverReturns, ControlInv, Known, PlantedIsKnown, Originals, Live, TypeOK,
      KernelTypeOK, tables
<1> QED
  BY <1>3, <1>4, <1>5

LEMMA ControlCheck ==
  ASSUME ControlInv, check_breakpoint
  PROVE  Control' /\ Tables' /\ Known'
<1>1. pc = "wait" /\ Watching
  BY DEF check_breakpoint, WaitPid, ControlInv, Control, Overs
<1>2. state' = state \/ state' = "terminated"
  BY DEF check_breakpoint
<1>3. Tables' /\ Known'
  BY <1>2, SameTables, SameText DEF check_breakpoint, ControlInv, tables, Live
<1>4. AtRest'
  BY <1>1
  DEF check_breakpoint, WaitPid, Status, Traps, Watching, AtRest, is_stopped
<1>5. pc' = "prompt"
  BY DEF check_breakpoint
<1> QED
  BY <1>3, <1>4, <1>5 DEF Control, Overs, Ended

(***************************************************************************)
(* And the tracee, on its own: it runs only while it is waited for.        *)
(***************************************************************************)
LEMMA ControlEnvironment ==
  ASSUME ControlInv, Environment
  PROVE  Control' /\ Tables' /\ Known'
<1> USE DEF Environment, debuggerVars
<1>0. pc \in {"prompt", "exec"} \cup Overs \cup {"wait"} \cup Ended
  BY DEF ControlInv, TypeOK, Waiting
<1>1. Tables'
  BY SameTables DEF ControlInv
<1>2. CASE ExecSucceeds
  <2>1. pc = "exec" /\ Launching
    BY <1>0, <1>2 DEF ExecSucceeds, ControlInv, Control, AtRest, Watching, Gone
  <2>2. Control'
    BY <1>2, <2>1 DEF ExecSucceeds, Halt, Control, Launching, Overs, Ended
  <2>3. Known'
    BY <1>2
    DEF ExecSucceeds, Halt, ControlInv, Known, PlantedIsKnown, Originals, tables
  <2> QED
    BY <1>1, <2>2, <2>3
<1>3. CASE ExecFails
  <2>1. pc = "exec" /\ Launching
    BY <1>0, <1>3 DEF ExecFails, ControlInv, Control, AtRest, Watching, Gone
  <2>2. Control'
    BY <1>3, <2>1 DEF ExecFails, Control, Launching, Overs, Ended
  <2>3. Known'
    BY <1>3
    DEF ExecFails, ControlInv, Known, PlantedIsKnown, Originals, Live, tables
  <2> QED
    BY <1>1, <2>2, <2>3
<1>4. CASE RunInt3 \/ RunInsn \/ RunExit \/ RunAstray \/ Signal
  <2>1. Executing /\ mem' = mem /\ exitkill' = exitkill
    BY <1>4 DEF RunInt3, RunInsn, RunExit, RunAstray, Signal
  <2>2. pc \in Overs \cup {"wait"} /\ Watching
    BY <1>0, <2>1
    DEF Executing, ControlInv, Control, AtRest, Launching, Gone
  <2>3. Watching'
    BY <1>4, <2>1, <2>2
    DEF RunInt3, RunInsn, RunExit, RunAstray, Signal, Retire, Halt, Executing,
        Watching
  <2>4. tracee' = "running" => tracee = "running"
    BY <1>4 DEF RunInt3, RunInsn, RunExit, RunAstray, Signal, Retire, Halt
  <2>5. Control'
    BY <2>2, <2>3, <2>4 DEF ControlInv, Control, Overs, Ended, tables
  <2>6. Known'
    BY <2>1, SameText DEF ControlInv, tables, Executing, Live
  <2> QED
    BY <1>1, <2>5, <2>6
<1>5. CASE Kill
  <2>1. Control'
    BY <1>0, <1>5
    DEF Kill, Alive, Resumed, ControlInv, Control, AtRest, Launching, Watching,
        Gone, Overs, Ended, tables, is_stopped
  <2>2. Known'
    BY <1>5 DEF Kill, Known, PlantedIsKnown, Originals, Live
  <2> QED
    BY <1>1, <2>1, <2>2
<1> QED
  BY <1>2, <1>3, <1>4, <1>5 DEF TraceeRuns

LEMMA ControlStep == ControlInv /\ [Next]_vars => ControlInv'
<1> SUFFICES ASSUME ControlInv, [Next]_vars PROVE ControlInv'
  OBVIOUS
<1>1. TypeOK'
  BY TypeStep DEF ControlInv
<1>2. CASE WaitReturns
  BY <1>1, <1>2, ControlExecReturns, ControlOverReturns, ControlCheck,
     ControlWaitFails DEF WaitReturns, ControlInv
<1> QED
  BY <1>1, <1>2, ControlCommand, ControlExit, ControlCrash, ControlEnvironment,
     ControlStutter DEF Next, Killed, ControlInv

(***************************************************************************)
(* The protocol that command_handler and the waits behind it               *)
(* (debugger.cpp:133-157, 306-347, 671-803) keep to.                       *)
(***************************************************************************)
THEOREM ControlCorrect == Spec => []ControlInv
<1>1. Init => ControlInv
  BY ControlInit
<1>2. ControlInv /\ [Next]_vars => ControlInv'
  BY ControlStep
<1> QED
  BY <1>1, <1>2, PTL DEF Spec

-----------------------------------------------------------------------------
(***************************************************************************)
(* Whatever the waits returned, the prompt finds no tracee running, and    *)
(* one that is stopped within reach of the next command.                   *)
(***************************************************************************)
THEOREM PromptIsSettled == Spec => []PromptSettled
<1>1. ControlInv => PromptSettled
  BY DEF ControlInv, Control, AtRest, PromptSettled, Resumed
<1> QED
  BY <1>1, ControlCorrect, PTL

(***************************************************************************)
(* The debugger never waits for a tracee that nobody resumed: it cannot    *)
(* hang but for a program that runs on.                                    *)
(***************************************************************************)
THEOREM WaitsAreAnswered == Spec => []WaitsForSomeone
<1>1. ControlInv => WaitsForSomeone
  BY DEF ControlInv, Control, Launching, Watching, WaitsForSomeone, Waiting, Overs,
         Resumed
<1> QED
  BY <1>1, ControlCorrect, PTL

(***************************************************************************)
(* State and the tables tell the truth about the tracee at every prompt.   *)
(***************************************************************************)
THEOREM StateIsTrue == Spec => []StateAgrees
<1>1. ControlInv => StateAgrees
  BY DEF ControlInv, TypeOK, Control, AtRest, Tables, Listed, AtPrompt, StateAgrees
<1> QED
  BY <1>1, ControlCorrect, PTL

(***************************************************************************)
(* Each planted byte is a 0xcc with an entry, and the entry's byte is the  *)
(* executable's or, when its breakpoint was doubled, the 0xcc read back.   *)
(***************************************************************************)
THEOREM PlantedBytesAreKnown == Spec => []PlantedIsKnown
<1>1. ControlInv => PlantedIsKnown
  BY DEF ControlInv, Known
<1> QED
  BY <1>1, ControlCorrect, PTL

(***************************************************************************)
(* No end of the debugger leaves a program behind once its first stop was  *)
(* handled.                                                                *)
(***************************************************************************)
THEOREM NothingIsOrphaned == Spec => []NoOrphan
<1>1. ControlInv => NoOrphan
  <2> SUFFICES ASSUME ControlInv, tracee = "free"
               PROVE  pc = "crashed" /\ state # "running"
    BY DEF NoOrphan
  <2>1. pc \in {"prompt", "exec"} \cup Overs \cup {"wait"} \cup Ended
    BY DEF ControlInv, TypeOK, Waiting
  <2> QED
    BY <2>1 DEF ControlInv, Control, AtRest, Launching, Watching, Gone
<1> QED
  BY <1>1, ControlCorrect, PTL

(***************************************************************************)
(* Once the debugger has decided to stop, the only moment a traced program *)
(* is alive is before debug() returns (debugger.cpp:36-42): main's return  *)
(* takes it along.  What is left of StopKills is that debug() does return. *)
(***************************************************************************)
LeavesNone == stop => pc = "prompt" \/ tracee \notin Alive

THEOREM StopLeavesNone == Spec => []LeavesNone
<1>1. Init => LeavesNone
  BY DEF Init, LeavesNone
<1>2. ControlInv /\ LeavesNone /\ [Next]_vars => LeavesNone'
  <2> SUFFICES ASSUME ControlInv, LeavesNone, [Next]_vars
               PROVE  LeavesNone'
    OBVIOUS
  <2>1. CASE Command
    <3>1. ASSUME NEW by \in Overs, Proceed(by), ~stop
          PROVE  LeavesNone'
      BY <3>1 DEF Proceed, quit_from_the_debugger, Crash, LeavesNone
    <3>2. ~stop
      BY <2>1 DEF Command, AtPrompt, set_a_breakpoint, delete_a_breakpoint,
         disassemble_instructions, get_a_register, get_all_registers, set_a_register,
         load_a_program, continue_the_execution, run_a_single_instruction, run_the_program,
         start_the_program, exit_command
    <3> QED
      BY <2>1, <3>1, <3>2
      DEF Command, set_a_breakpoint, delete_a_breakpoint, disassemble_instructions,
          get_a_register, get_all_registers, set_a_register, load_a_program,
          continue_the_execution, run_a_single_instruction, run_the_program,
          start_the_program, exit_command, quit_from_the_debugger, Crash, Reply, Launch,
          vars, Overs, LeavesNone
  <2>2. CASE WaitReturns
    <3>1. ~stop
      BY <2>2 DEF WaitReturns, ExecReturns, OverReturns, check_breakpoint, WaitFails, WaitPid,
                  Overs, ControlInv, Control, Launching, Watching
    <3> QED
      BY <2>2, <3>1 DEF WaitReturns, ExecReturns, OverReturns, check_breakpoint, WaitFails,
                        LeavesNone
  <2>3. CASE Exit \/ Killed
    <3>1. UNCHANGED stop /\ TracerGone
      BY <2>3 DEF Exit, Killed, Crash
    <3>2. stop => pc = "prompt"
      BY <2>3 DEF Exit, Killed, ControlInv, TypeOK, Control, Launching, Watching, Waiting, Overs
    <3>3. stop => tracee' \notin Alive
      BY <3>1, <3>2 DEF ControlInv, Control, AtRest, TracerGone, Alive, Resumed
    <3> QED
      BY <3>1, <3>3 DEF LeavesNone
  <2>4. CASE Environment
    <3>1. UNCHANGED <<stop, pc>>
      BY <2>4 DEF Environment, debuggerVars
    <3>2. tracee \in Alive
      BY <2>4 DEF Environment, TraceeRuns, ExecSucceeds, ExecFails, RunInt3, RunInsn, RunExit,
                  RunAstray, Signal, Kill, Executing, Alive, Resumed
    <3> QED
      BY <3>1, <3>2 DEF LeavesNone
  <2>5. CASE UNCHANGED vars
    BY <2>5 DEF vars, kernelVars, LeavesNone
  <2> QED
    BY <2>1, <2>2, <2>3, <2>4, <2>5 DEF Next
<1> QED
  BY <1>1, <1>2, ControlCorrect, PTL DEF Spec

(***************************************************************************)
(* The debugger never forks while it has a living tracee.                  *)
(***************************************************************************)
THEOREM OneTraceeAtATime == Spec => NoSecondTracee
<1>1. ControlInv /\ [Next]_vars =>
        [tracee' = "forked" => tracee \in {"none", "exited", "forked"}]_vars
  <2> SUFFICES ASSUME ControlInv, Next, tracee' = "forked", tracee # "forked"
               PROVE  tracee \in {"none", "exited"}
    BY DEF vars, kernelVars
  <2>1. AtPrompt /\ state \in {"loaded", "terminated"}
    <3>1. CASE Command
      <4>1. tracee' # tracee
        OBVIOUS
      <4>2. ~ quit_from_the_debugger /\ ~ Crash /\ ~ Reply
        BY <4>1 DEF quit_from_the_debugger, Crash, TracerGone, Reply, vars,
                    kernelVars
      <4>3. \A by \in Overs : ~ Proceed(by)
        BY <4>2 DEF Proceed, run_breakpoint, Resume
      <4> QED
        BY <3>1, <4>1, <4>2, <4>3
        DEF Command, set_a_breakpoint, delete_a_breakpoint,
            disassemble_instructions, get_a_register, get_all_registers,
            set_a_register, load_a_program, continue_the_execution,
            run_a_single_instruction, run_the_program, start_the_program,
            exit_command, TracerGone, kernelVars, Overs
    <3>2. CASE WaitReturns
      BY <3>2 DEF WaitReturns, ExecReturns, OverReturns, check_breakpoint,
                  WaitFails, run_breakpoint, Resume
    <3>3. CASE Exit \/ Killed
      BY <3>3 DEF Exit, Killed, Crash, TracerGone
    <3>4. CASE Environment
      BY <3>4 DEF Environment, TraceeRuns, Kill, ExecSucceeds, ExecFails, RunInt3,
                  RunInsn, RunExit, RunAstray, Signal, Retire, Halt
    <3> QED
      BY <3>1, <3>2, <3>3, <3>4 DEF Next
  <2> QED
    BY <2>1 DEF ControlInv, Control, AtRest, AtPrompt
<1> QED
  BY <1>1, ControlCorrect, PTL DEF Spec, NoSecondTracee
=============================================================================
