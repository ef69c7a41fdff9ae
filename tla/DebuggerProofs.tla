--------------------------- MODULE DebuggerProofs ---------------------------
(***************************************************************************)
(* Theorems about the debugger, for every program, breakpoint bound and    *)
(* set of values given to "set rip".                                       *)
(***************************************************************************)
EXTENDS Debugger, TLAPS

(* The operators that name a piece of one handler are always expanded.     *)
USE ProgramAssumption, DebuggerAssumption
    DEF Fetch, Lifted, Forget, Loadable, Clear, SetOptions, Replanted, Rewound

-----------------------------------------------------------------------------
(***************************************************************************)
(* The initial state and every step of the debugger keep to the types.     *)
(***************************************************************************)
LEMMA TypeInit == Init => TypeOK
<1> SUFFICES ASSUME Init PROVE TypeOK
  OBVIOUS
<1>1. KernelTypeOK
  BY DEF Init, KernelInit, KernelTypeOK, Addresses, Alive, Resumed
<1>2. regs \in Addresses /\ breakpoint_id \in 0 .. MaxBreaks
  BY DEF Init, Addresses
<1>3. DOMAIN id_to_breakpoint = {} /\ DOMAIN address_to_breakpoint = {}
  BY DEF Init
<1> QED
  BY <1>1, <1>2, <1>3 DEF Init, TypeOK

(***************************************************************************)
(* The operators that build a handler's effect keep to the types.          *)
(***************************************************************************)
LEMMA QuitTyped == TypeOK /\ quit_from_the_debugger => TypeOK'
  BY DEF quit_from_the_debugger, TypeOK, KernelTypeOK, kernelVars, tables

LEMMA TracerGoneTyped == KernelTypeOK /\ TracerGone => KernelTypeOK'
  BY DEF TracerGone, KernelTypeOK, Alive, Resumed

LEMMA CrashTyped == TypeOK /\ Crash => TypeOK'
  BY TracerGoneTyped DEF Crash, TypeOK, tables, Ended

LEMMA ProceedTyped ==
  ASSUME TypeOK, NEW by \in Overs, Proceed(by)
  PROVE  TypeOK'
<1>1. CASE ~is_stopped /\ quit_from_the_debugger
  BY <1>1, QuitTyped
<1>2. CASE is_stopped /\ ~CanFetch /\ Crash
  BY <1>2, CrashTyped
<1>3. CASE /\ is_stopped
           /\ CanFetch
           /\ run_breakpoint(mem, by)
           /\ UNCHANGED <<rip, report, exitkill, stop, state, wait_status, tables>>
  BY <1>3 DEF run_breakpoint, Resume, TypeOK, KernelTypeOK, Breakpoint, Alive,
              Resumed, Overs, Waiting, tables
<1> QED
  BY <1>1, <1>2, <1>3 DEF Proceed

LEMMA LaunchTyped == TypeOK /\ Launch => TypeOK'
  BY DEF Launch, Fork, TypeOK, KernelTypeOK, Alive, Resumed, Waiting, tables

(***************************************************************************)
(* Every command keeps to the types.                                       *)
(***************************************************************************)
LEMMA CommandTyped == TypeOK /\ Command => TypeOK'
<1> SUFFICES ASSUME TypeOK, Command PROVE TypeOK'
  OBVIOUS
<1> USE QuitTyped, CrashTyped
<1>1. CASE set_a_breakpoint
  <2>1. CASE /\ breakpoint_id < MaxBreaks
             /\ \E address \in Insns :
                  /\ Entry < address /\ address <= End
                  /\ LET new == [address |-> address, original |-> Peek(address)]
                     IN  /\ id_to_breakpoint' =
                              Put(id_to_breakpoint, breakpoint_id, new)
                         /\ address_to_breakpoint' =
                              Put(address_to_breakpoint, address, new)
                  /\ mem' = Poke(mem, address, CC)
             /\ breakpoint_id' = breakpoint_id + 1
             /\ UNCHANGED <<tracee, rip, report, exitkill, pc, stop, state,
                            wait_status, regs>>
    <3>1. PICK address \in Insns :
            LET new == [address |-> address, original |-> Peek(address)]
            IN  /\ id_to_breakpoint' = Put(id_to_breakpoint, breakpoint_id, new)
                /\ address_to_breakpoint' =
                     Put(address_to_breakpoint, address, new)
                /\ mem' = Poke(mem, address, CC)
      BY <2>1
    <3> DEFINE new == [address |-> address, original |-> Peek(address)]
    <3>2. new \in Breakpoint
      BY DEF Peek, Breakpoint, TypeOK, KernelTypeOK
    <3>3. breakpoint_id \in Ids /\ breakpoint_id' \in 0 .. MaxBreaks
      BY <2>1 DEF TypeOK, Ids
    <3>4. mem' \in [Insns -> Bytes]
      BY <3>1 DEF Poke, TypeOK, KernelTypeOK
    <3>5. /\ DOMAIN id_to_breakpoint' \subseteq Ids
          /\ \A i \in DOMAIN id_to_breakpoint' : id_to_breakpoint'[i] \in Breakpoint
      <4> HIDE DEF new
      <4> QED
        BY <3>1, <3>2, <3>3 DEF Put, TypeOK, new
    <3>6. /\ DOMAIN address_to_breakpoint' \subseteq Insns
          /\ \A a \in DOMAIN address_to_breakpoint' :
               address_to_breakpoint'[a] \in Breakpoint
      BY <3>1, <3>2 DEF Put, TypeOK
    <3> QED
      BY <2>1, <3>3, <3>4, <3>5, <3>6 DEF TypeOK, KernelTypeOK
  <2> QED
    BY <1>1, <2>1 DEF set_a_breakpoint
<1>2. CASE delete_a_breakpoint
  <2>1. ASSUME NEW id \in DOMAIN id_to_breakpoint,
               mem' = Poke(mem, id_to_breakpoint[id].address,
                           id_to_breakpoint[id].original),
               Forget(id),
               UNCHANGED <<tracee, rip, report, exitkill, pc, stop, state,
                           wait_status, breakpoint_id, regs>>
        PROVE  TypeOK'
    <3>1. mem' \in [Insns -> Bytes]
      BY <2>1 DEF Poke, TypeOK, KernelTypeOK, Breakpoint
    <3> QED
      BY <2>1, <3>1 DEF Restrict, TypeOK, KernelTypeOK
  <2> QED
    BY <1>2, <2>1 DEF delete_a_breakpoint
<1>3. CASE disassemble_instructions
  BY <1>3 DEF disassemble_instructions, Reply, vars, kernelVars, tables,
              TypeOK, KernelTypeOK
<1>4. CASE get_a_register \/ get_all_registers
  BY <1>4 DEF get_a_register, get_all_registers, kernelVars, tables,
              TypeOK, KernelTypeOK
<1>5. CASE set_a_register
  BY <1>5 DEF set_a_register, tables, TypeOK, KernelTypeOK, Addresses
<1>6. CASE load_a_program
  <2>1. KernelTypeOK'
    BY <1>6, TracerGoneTyped DEF load_a_program, kernelVars, TypeOK, KernelTypeOK
  <2>2. /\ DOMAIN id_to_breakpoint' = {}
        /\ DOMAIN address_to_breakpoint' = {}
        /\ breakpoint_id' \in 0 .. MaxBreaks
    BY <1>6 DEF load_a_program
  <2> QED
    BY <1>6, <2>1, <2>2 DEF load_a_program, TypeOK, Ended
<1>7. CASE continue_the_execution \/ run_a_single_instruction
  BY <1>7, ProceedTyped DEF continue_the_execution, run_a_single_instruction, Overs
<1>8. CASE run_the_program \/ start_the_program
  BY <1>8, ProceedTyped, LaunchTyped DEF run_the_program, start_the_program, Overs
<1>9. CASE exit_command
  BY <1>9 DEF exit_command
<1> QED
  BY <1>1, <1>2, <1>3, <1>4, <1>5, <1>6, <1>7, <1>8, <1>9 DEF Command

(***************************************************************************)
(* So does the rest of a handler behind its waitpid.                       *)
(***************************************************************************)
LEMMA WaitReturnsTyped == TypeOK /\ WaitReturns => TypeOK'
<1> SUFFICES ASSUME TypeOK, WaitReturns PROVE TypeOK'
  OBVIOUS
<1>1. ASSUME NEW at, WaitPid(at)
      PROVE  wait_status' \in {"trap", "signal", "exited", "killed"}
             /\ report' = "none"
  BY <1>1 DEF WaitPid, Status, Traps, TypeOK, KernelTypeOK
<1>2. CASE ExecReturns
  <2>1. Armed \in [Insns -> Bytes]
    BY DEF Armed, TypeOK, KernelTypeOK
  <2>2. CASE state = "terminated" /\ run_breakpoint(Armed, "over_cont")
    BY <1>1, <1>2, <2>1, <2>2
      DEF ExecReturns, run_breakpoint, Resume, TypeOK, KernelTypeOK, Breakpoint,
          Alive, Resumed, Addresses, Overs, Waiting, tables
  <2>3. CASE pc' = "prompt" /\ UNCHANGED <<tracee, mem, regs>>
    BY <1>1, <1>2, <2>3 DEF ExecReturns, TypeOK, KernelTypeOK, tables
  <2> QED
    BY <1>2, <2>2, <2>3 DEF ExecReturns
<1>3. ASSUME NEW by \in Overs, OverReturns(by) PROVE TypeOK'
  BY <1>1, <1>3 DEF OverReturns, Resume, TypeOK, KernelTypeOK, Alive, Resumed,
                    Waiting, tables
<1>4. CASE check_breakpoint
  <2>1. rip' \in Addresses /\ regs' \in Addresses
    BY <1>4 DEF check_breakpoint, Hit, TypeOK, KernelTypeOK, Addresses
  <2>2. state' \in {"init", "loaded", "running", "terminated"} /\ stop' \in BOOLEAN
    BY <1>4 DEF check_breakpoint, TypeOK
  <2> QED
    BY <1>1, <1>4, <2>1, <2>2 DEF check_breakpoint, TypeOK, KernelTypeOK, tables
<1>5. ASSUME NEW at, WaitFails(at) PROVE TypeOK'
  BY <1>1, <1>5 DEF WaitFails, TypeOK, KernelTypeOK, tables
<1> QED
  BY <1>2, <1>3, <1>4, <1>5 DEF WaitReturns

(***************************************************************************)
(* And the tracee, on its own.                                             *)
(***************************************************************************)
LEMMA EnvironmentTyped == TypeOK /\ Environment => TypeOK'
<1> SUFFICES ASSUME TypeOK, Environment PROVE TypeOK'
  OBVIOUS
<1>1. KernelTypeOK'
  <2>1. CASE ExecSucceeds
    BY <2>1 DEF ExecSucceeds, Halt, TypeOK, KernelTypeOK, Alive, Resumed, Traps,
                Addresses
  <2>2. CASE ExecFails \/ RunExit \/ Signal \/ Kill
    BY <2>2 DEF ExecFails, RunExit, Signal, Kill, Halt, TypeOK, KernelTypeOK,
                Alive, Resumed, Traps
  <2>3. CASE RunInt3
    BY <2>3 DEF RunInt3, AtInt3, Halt, TypeOK, KernelTypeOK, Alive, Resumed,
                Traps, Addresses
  <2>4. CASE RunInsn
    BY <2>4 DEF RunInsn, Intact, Retire, Halt, TypeOK, KernelTypeOK, Alive,
                Resumed, Traps, Addresses
  <2>5. CASE RunAstray
    BY <2>5 DEF RunAstray, Retire, Halt, TypeOK, KernelTypeOK, Alive, Resumed,
                Traps, Addresses
  <2> QED
    BY <2>1, <2>2, <2>3, <2>4, <2>5 DEF Environment, TraceeRuns
<1> QED
  BY <1>1 DEF Environment, debuggerVars, tables, TypeOK

LEMMA TypeStep == TypeOK /\ [Next]_vars => TypeOK'
<1> SUFFICES ASSUME TypeOK, [Next]_vars PROVE TypeOK'
  OBVIOUS
<1>1. CASE Exit
  BY <1>1, TracerGoneTyped DEF Exit, TypeOK, Ended, tables
<1>2. CASE UNCHANGED vars
  BY <1>2 DEF vars, kernelVars, tables, TypeOK, KernelTypeOK
<1> QED
  BY <1>1, <1>2, CommandTyped, WaitReturnsTyped, EnvironmentTyped, CrashTyped
  DEF Next, Killed

(***************************************************************************)
(* Type correctness: the tables stay functions from handed-out ids and     *)
(* from instruction addresses to breakpoints, over every command.          *)
(***************************************************************************)
THEOREM TypeCorrect == Spec => []TypeOK
<1>1. Init => TypeOK
  BY TypeInit
<1>2. TypeOK /\ [Next]_vars => TypeOK'
  BY TypeStep
<1> QED
  BY <1>1, <1>2, PTL DEF Spec
=============================================================================
