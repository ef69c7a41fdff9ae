------------------------------ MODULE Debugger ------------------------------
(***************************************************************************)
(* The debugger of HW4 (debugger.cpp, debugger.hpp) around one tracee.     *)
(*                                                                         *)
(* One action per command handler.  The debugger is single-threaded, so a  *)
(* handler is interrupted only where it blocks in waitpid: pc says in      *)
(* which of them it is, and the *Returns actions are the rest of the       *)
(* handler.  Meanwhile the tracee runs (module Ptrace).                    *)
(*                                                                         *)
(* An operator X_Y above X is a mutant: what X would be with a mistake in  *)
(* the code.  No specification uses one; they show what the properties     *)
(* catch.                                                                  *)
(***************************************************************************)
EXTENDS Ptrace, Functions

CONSTANTS
  MaxBreaks,  (* bound: breakpoint ids handed out after one load           *)
  SetTargets  (* values the user gives in "set rip"                        *)

ASSUME DebuggerAssumption == MaxBreaks \in Nat /\ SetTargets \subseteq Insns

VARIABLES
  pc,                    (* where the debugger's thread is                 *)
  stop,                  (* the loop of debug() is to end                  *)
  state,                 (* State of the loaded program                    *)
  wait_status,           (* what the last waitpid stored                   *)
  breakpoint_id,         (* the next id                                    *)
  id_to_breakpoint,      (* the breakpoints the user sees                  *)
  address_to_breakpoint, (* the breakpoints consulted at a stop            *)
  regs                   (* rip in the registers fetched last              *)

tables == <<breakpoint_id, id_to_breakpoint, address_to_breakpoint>>
vars   == <<kernelVars, pc, stop, state, wait_status, tables, regs>>

Overs   == {"over_cont", "over_si"}      \* waitpid at 325, for cont and for si
Waiting == Overs \cup {"exec", "wait"}   \* at 708, and at 344 or 777
Ended   == {"exited", "crashed"}
Ids     == 0 .. MaxBreaks - 1

\* Breakpoint without its id, which is the key in id_to_breakpoint and is
\* never read in address_to_breakpoint.
Breakpoint == [address : Insns, original : Bytes]

TypeOK ==
  /\ KernelTypeOK
  /\ pc \in {"prompt"} \cup Waiting \cup Ended
  /\ stop \in BOOLEAN
  /\ state \in {"init", "loaded", "running", "terminated"}
  /\ wait_status \in {"trap", "signal", "exited", "killed"}
  /\ breakpoint_id \in 0 .. MaxBreaks
  /\ DOMAIN id_to_breakpoint \subseteq Ids
  /\ \A i \in DOMAIN id_to_breakpoint : id_to_breakpoint[i] \in Breakpoint
  /\ DOMAIN address_to_breakpoint \subseteq Insns
  /\ \A a \in DOMAIN address_to_breakpoint :
       address_to_breakpoint[a] \in Breakpoint
  /\ regs \in Addresses

\* wait_status{} is 0, which WIFEXITED takes for an exit.
Init ==
  /\ KernelInit
  /\ pc = "prompt"
  /\ stop = FALSE
  /\ state = "init"
  /\ wait_status = "exited"
  /\ breakpoint_id = 0
  /\ id_to_breakpoint = [i \in {} |-> CC]
  /\ address_to_breakpoint = [a \in {} |-> CC]
  /\ regs = Entry

-----------------------------------------------------------------------------
(* Helpers of the handlers.                                                *)

AtPrompt == pc = "prompt" /\ ~stop

is_stopped == wait_status \in {"trap", "signal"}
is_running == state \in {"running", "terminated"}

\* PTRACE_GETREGS succeeds: otherwise fetch_registers returns an empty map,
\* and following registers["rip"] follows a null pointer.
CanFetch == tracee = "stopped"

Put(f, k, v) == [x \in DOMAIN f \cup {k} |-> IF x = k THEN v ELSE f[x]]

\* The addresses of the breakpoints "list" shows.
Listed == {id_to_breakpoint[i].address : i \in DOMAIN id_to_breakpoint}

\* The handler prints and returns.
Reply == UNCHANGED vars

quit_from_the_debugger ==
  /\ stop' = TRUE
  /\ pc' = "prompt"
  /\ UNCHANGED <<kernelVars, state, wait_status, tables, regs>>

\* A null dereference, or an exception of stoull that nobody catches.
Crash ==
  /\ pc' = "crashed"
  /\ TracerGone
  /\ UNCHANGED <<stop, state, wait_status, tables, regs>>

\* The tail of cont and si: CONT or SINGLESTEP, then waitpid.
Resume_ByCont(by)    == tracee' = "running" /\ pc' = "wait"
Resume_Forgotten(by) == UNCHANGED tracee /\ pc' = "wait"
Resume(by) ==
  /\ tracee' = IF by = "over_si" THEN "stepping" ELSE "running"
  /\ pc' = "wait"

\* fetch_registers of a stopped tracee.
Fetch == regs' = rip

\* Memory m with the original back in place of the planted byte at rip.
Lifted_Not(m) == m
Lifted(m)     == [m EXCEPT ![rip] = address_to_breakpoint[rip].original]

\* run_breakpoint on memory m, on behalf of by: on a planted byte the original
\* goes back and is stepped over first, otherwise the tracee is resumed.
run_breakpoint(m, by) ==
  /\ Fetch
  /\ IF rip \in DOMAIN address_to_breakpoint /\ m[rip] = CC
     THEN mem' = Lifted(m) /\ tracee' = "stepping" /\ pc' = by
     ELSE mem' = m /\ Resume(by)

-----------------------------------------------------------------------------
(* The commands.                                                           *)

set_a_breakpoint ==
  /\ AtPrompt
  /\ \/ ~is_stopped /\ quit_from_the_debugger
     \/ is_stopped /\ is_running /\ Crash     \* the address is not a number
     \/ /\ is_stopped
        /\ is_running
        /\ breakpoint_id < MaxBreaks
        /\ \E address \in Insns :
             /\ Entry < address /\ address <= End
             /\ LET new == [address |-> address, original |-> Peek(address)]
                IN  /\ id_to_breakpoint' =
                         Put(id_to_breakpoint, breakpoint_id, new)
                    /\ address_to_breakpoint' =
                         Put(address_to_breakpoint, address, new)
             /\ mem' = Poke(mem, address, CC)
        /\ breakpoint_id' = breakpoint_id + 1
        /\ UNCHANGED <<tracee, rip, report, exitkill, pc, stop, state,
                       wait_status, regs>>

\* The id goes, the entry that check_breakpoint consults stays.
Forget_Both(id) ==
  /\ id_to_breakpoint' =
       Restrict(id_to_breakpoint, DOMAIN id_to_breakpoint \ {id})
  /\ address_to_breakpoint' =
       Restrict(address_to_breakpoint, DOMAIN address_to_breakpoint
                                         \ {id_to_breakpoint[id].address})
Forget(id) ==
  /\ id_to_breakpoint' =
       Restrict(id_to_breakpoint, DOMAIN id_to_breakpoint \ {id})
  /\ UNCHANGED address_to_breakpoint

delete_a_breakpoint ==
  /\ AtPrompt
  /\ \/ ~is_stopped /\ quit_from_the_debugger
     \/ is_stopped /\ is_running /\ Crash     \* the id is not a number
     \/ /\ is_stopped
        /\ is_running
        /\ \E id \in DOMAIN id_to_breakpoint :
             LET breakpoint == id_to_breakpoint[id]
             IN  /\ mem' = Poke(mem, breakpoint.address, breakpoint.original)
                 /\ Forget(id)
        /\ UNCHANGED <<tracee, rip, report, exitkill, pc, stop, state,
                       wait_status, breakpoint_id, regs>>

\* disasm and dump; list and help, and every refusal, only print.
disassemble_instructions ==
  /\ AtPrompt
  /\ \/ ~is_stopped /\ quit_from_the_debugger
     \/ is_stopped /\ is_running /\ Crash     \* the address is not a number
     \/ Reply

\* What disasm shows of the byte at a.
Displayed_Raw(a) == Peek(a)
Displayed(a) ==
  IF Peek(a) = CC /\ a \in DOMAIN address_to_breakpoint
  THEN address_to_breakpoint[a].original
  ELSE Peek(a)

\* get: a register map that could not be fetched is only an unknown register.
get_a_register ==
  /\ AtPrompt
  /\ \/ ~is_stopped /\ quit_from_the_debugger
     \/ /\ is_stopped
        /\ is_running
        /\ IF CanFetch THEN Fetch ELSE UNCHANGED regs
        /\ UNCHANGED <<kernelVars, pc, stop, state, wait_status, tables>>

get_all_registers ==
  /\ AtPrompt
  /\ \/ ~is_stopped /\ quit_from_the_debugger
     \/ is_stopped /\ is_running /\ ~CanFetch /\ Crash
     \/ /\ is_stopped
        /\ is_running
        /\ CanFetch
        /\ Fetch
        /\ UNCHANGED <<kernelVars, pc, stop, state, wait_status, tables>>

\* set: of the registers only rip matters here; another one leaves it alone.
set_a_register ==
  /\ AtPrompt
  /\ \/ ~is_stopped /\ quit_from_the_debugger
     \/ is_stopped /\ is_running /\ Crash     \* unknown register, or no number
     \/ /\ is_stopped
        /\ is_running
        /\ CanFetch
        /\ \E value \in SetTargets \cup {rip} : regs' = value /\ rip' = value
        /\ UNCHANGED <<tracee, mem, report, exitkill, pc, stop, state,
                       wait_status, tables>>

Loadable_Always == TRUE
Loadable        == state \in {"init", "terminated"}

Clear_Ids ==
  /\ breakpoint_id' = 0
  /\ id_to_breakpoint' = [i \in {} |-> CC]
  /\ UNCHANGED address_to_breakpoint
Clear ==
  /\ breakpoint_id' = 0
  /\ id_to_breakpoint' = [i \in {} |-> CC]
  /\ address_to_breakpoint' = [a \in {} |-> CC]

\* The tables are emptied before fopen, whose failure is not checked.
load_a_program ==
  /\ AtPrompt
  /\ Loadable
  /\ Clear
  /\ \/ /\ state' = "loaded"
        /\ UNCHANGED <<kernelVars, pc>>
     \/ /\ pc' = "crashed"
        /\ TracerGone
        /\ UNCHANGED state
  /\ UNCHANGED <<stop, wait_status, regs>>

\* The rest of cont, si and run once is_running has let them through.
Proceed(by) ==
  \/ ~is_stopped /\ quit_from_the_debugger
  \/ is_stopped /\ ~CanFetch /\ Crash
  \/ /\ is_stopped
     /\ CanFetch
     /\ run_breakpoint(mem, by)
     /\ UNCHANGED <<rip, report, exitkill, stop, state, wait_status, tables>>

continue_the_execution   == AtPrompt /\ is_running /\ Proceed("over_cont")
run_a_single_instruction == AtPrompt /\ is_running /\ Proceed("over_si")

\* fork, up to the waitpid behind it.
Launch ==
  /\ Fork
  /\ pc' = "exec"
  /\ UNCHANGED <<stop, state, wait_status, tables, regs>>

run_the_program ==
  /\ AtPrompt
  /\ \/ state = "running" /\ Proceed("over_cont")
     \/ state \in {"loaded", "terminated"} /\ Launch
     \/ state \in {"loaded", "terminated"} /\ quit_from_the_debugger \* no fork

start_the_program ==
  /\ AtPrompt
  /\ state = "loaded"
  /\ Launch \/ quit_from_the_debugger

\* exit, and the end of the input.
exit_command == AtPrompt /\ quit_from_the_debugger

-----------------------------------------------------------------------------
(* The handlers behind their waitpid.                                      *)

\* waitpid returns the pending event.
WaitPid_Unstored(at) ==
  /\ pc = at
  /\ report # "none"
  /\ report' = "none"
  /\ UNCHANGED wait_status
WaitPid(at) ==
  /\ pc = at
  /\ report # "none"
  /\ wait_status' = Status(report)
  /\ report' = "none"

\* waitpid returns an end where is_stopped asks for a stop.
WaitFails(at) ==
  /\ WaitPid(at)
  /\ report \in {"exited", "killed"}
  /\ stop' = TRUE
  /\ pc' = "prompt"
  /\ UNCHANGED <<tracee, rip, mem, exitkill, state, tables, regs>>

SetOptions_Not == UNCHANGED exitkill
SetOptions     == exitkill' = TRUE

\* The memory of a new tracee with the listed breakpoints in it.
Armed_Not == mem
Armed     == [a \in Insns |-> IF a \in Listed THEN CC ELSE mem[a]]

\* run_the_program behind 708: a terminated program gets its breakpoints back
\* and goes on, a loaded one stays at its first instruction.
ExecReturns ==
  /\ WaitPid("exec")
  /\ report \in Traps
  /\ SetOptions
  /\ state' = "running"
  /\ \/ state = "terminated" /\ run_breakpoint(Armed, "over_cont")
     \/ /\ state # "terminated"
        /\ pc' = "prompt"
        /\ UNCHANGED <<tracee, mem, regs>>
  /\ UNCHANGED <<rip, stop, tables>>

\* 0xcc goes back where rip was before the step.
Replanted_AtRip == [mem EXCEPT ![rip] = CC]
Replanted       == [mem EXCEPT ![regs] = CC]

\* run_breakpoint behind 325, and the resumption that follows.
OverReturns(by) ==
  /\ WaitPid(by)
  /\ report \notin {"exited", "killed"}
  /\ mem' = Replanted
  /\ Resume(by)
  /\ UNCHANGED <<rip, exitkill, stop, state, tables, regs>>

\* check_breakpoint finds its byte behind rip.
Hit_AnyInt3 == rip - 1 \in Insns /\ Peek(rip - 1) = CC
Hit ==
  /\ rip - 1 \in DOMAIN address_to_breakpoint
  /\ Peek(rip - 1) = CC

Rewound_Not == rip
Rewound     == IF Hit THEN rip - 1 ELSE rip

\* check_breakpoint, behind 344 or 777.
check_breakpoint ==
  /\ WaitPid("wait")
  /\ pc' = "prompt"
  /\ \/ /\ report = "signal"
        /\ stop' = TRUE
        /\ UNCHANGED <<rip, regs, state>>
     \/ /\ report \in Traps
        /\ rip' = Rewound
        /\ regs' = rip'
        /\ UNCHANGED <<stop, state>>
     \/ /\ report = "exited"
        /\ state' = "terminated"
        /\ UNCHANGED <<rip, regs, stop>>
     \/ /\ report = "killed"
        /\ UNCHANGED <<rip, regs, stop, state>>
  /\ UNCHANGED <<tracee, mem, exitkill, tables>>

\* debug() leaves its loop and main returns.
Exit ==
  /\ pc = "prompt"
  /\ stop
  /\ pc' = "exited"
  /\ TracerGone
  /\ UNCHANGED <<stop, state, wait_status, tables, regs>>

\* A signal from outside ends the debugger, wherever it is.
Killed == pc \notin Ended /\ Crash

-----------------------------------------------------------------------------
Command ==
  \/ set_a_breakpoint
  \/ delete_a_breakpoint
  \/ disassemble_instructions
  \/ get_a_register
  \/ get_all_registers
  \/ set_a_register
  \/ load_a_program
  \/ continue_the_execution
  \/ run_a_single_instruction
  \/ run_the_program
  \/ start_the_program
  \/ exit_command

WaitReturns ==
  \/ ExecReturns
  \/ \E by \in Overs : OverReturns(by)
  \/ check_breakpoint
  \/ \E at \in Overs \cup {"exec"} : WaitFails(at)

debuggerVars == <<pc, stop, state, wait_status, tables, regs>>

Environment == (TraceeRuns \/ Kill) /\ UNCHANGED debuggerVars

Next == Command \/ WaitReturns \/ Exit \/ Killed \/ Environment

Spec == Init /\ [][Next]_vars

(***************************************************************************)
(* The user never sets a breakpoint where one is listed, which the code    *)
(* leaves unchecked.                                                       *)
(***************************************************************************)
DistinctBreaks ==
  \A i \in DOMAIN id_to_breakpoint' \ DOMAIN id_to_breakpoint :
    id_to_breakpoint'[i].address \notin Listed

SpecDistinct == Init /\ [][Next /\ DistinctBreaks]_vars

(***************************************************************************)
(* The scheduler runs a resumed tracee that is not blocked in a system     *)
(* call, and a debugger that need not wait for anyone.  Nothing forces the *)
(* user to type, what a blocked tracee waits for to arrive, or a signal to *)
(* come.                                                                   *)
(***************************************************************************)
Fairness ==
  /\ WF_vars(~Blocked /\ TraceeRuns /\ UNCHANGED debuggerVars)
  /\ WF_vars(WaitReturns)
  /\ WF_vars(Exit)

LiveSpec == Spec /\ Fairness
-----------------------------------------------------------------------------
(* Properties.                                                             *)

Live == tracee \in {"running", "stepping", "stopped"}

(***************************************************************************)
(* No handler comes back to the prompt with the tracee resumed, and one    *)
(* that is stopped at the prompt is one the next command can reach: the    *)
(* State says running and wait_status says stopped, over all the ways out  *)
(* of the three waits.                                                     *)
(***************************************************************************)
PromptSettled ==
  pc = "prompt" =>
    /\ tracee \notin Resumed
    /\ tracee = "stopped" => state = "running" /\ is_stopped

(***************************************************************************)
(* The debugger never blocks in waitpid for a tracee it forgot to resume:  *)
(* every wait has an event pending or a resumed tracee to make one.        *)
(***************************************************************************)
WaitsForSomeone ==
  pc \in Waiting => report # "none" \/ tracee \in Resumed

(***************************************************************************)
(* Unless the debugger is leaving, State agrees with the tracee: a program *)
(* that ended is terminated (or loaded again) at the next prompt, and a    *)
(* load starts with no tracee and no breakpoints.  One that was killed,    *)
(* behind a stop or while it ran, is still taken for running, for line 296 *)
(* asks for WIFEXITED alone, and for nothing else: no start, run or load   *)
(* is let through for it.                                                  *)
(***************************************************************************)
StateAgrees ==
  AtPrompt =>
    /\ (state = "running") = (tracee \in {"stopped", "killed"})
    /\ state = "terminated" => tracee = "exited"
    /\ state = "loaded" => Listed = {} /\ DOMAIN address_to_breakpoint = {}

(***************************************************************************)
(* Every byte of the tracee's text that is not the executable's is a 0xcc  *)
(* with an entry in address_to_breakpoint, also after its breakpoint was   *)
(* deleted or doubled: neither check_breakpoint (254) nor run_breakpoint   *)
(* (317) returns in front of it as in front of the program's own int3.     *)
(* What they put back is the executable's byte or, behind a second break   *)
(* at a planted byte, the 0xcc that was read back; never the -1 of a peek  *)
(* that failed, or a byte of another address.                              *)
(***************************************************************************)
PlantedIsKnown ==
  Live =>
    \A a \in Insns : mem[a] # Orig[a] =>
      /\ mem[a] = CC
      /\ a \in DOMAIN address_to_breakpoint
      /\ address_to_breakpoint[a].original \in {Orig[a], CC}

(***************************************************************************)
(* The debugger cannot end, by exit, end of input, crash or a signal of    *)
(* its own, and leave a running program behind; only between fork and      *)
(* SETOPTIONS can a signal to the debugger let the child go.               *)
(***************************************************************************)
NoOrphan == tracee = "free" => pc = "crashed" /\ state # "running"

(***************************************************************************)
(* run, start and a re-run never fork a second tracee over a living one,   *)
(* whose pid would be lost.                                                *)
(***************************************************************************)
NoSecondTracee ==
  [][tracee' = "forked" => tracee \in {"none", "exited", "forked"}]_vars

(***************************************************************************)
(* A si comes back to the user, over both of its waits: the debugger       *)
(* prompts or leaves, unless the instruction it steps is a system call     *)
(* that waits for something and never gets it.                             *)
(***************************************************************************)
StepReturns ==
  pc = "over_si" \/ (pc = "wait" /\ tracee = "stepping")
    ~> pc = "prompt" \/ pc \in Ended \/ []Blocked

(***************************************************************************)
(* Once the debugger has decided to stop, no traced program survives it.   *)
(***************************************************************************)
StopKills == stop ~> tracee \notin Alive

(***************************************************************************)
(* At every prompt the text of a living tracee is the executable's, with   *)
(* 0xcc exactly at the breakpoints the user has: through deletes, steps    *)
(* over breakpoints, signals during them, and re-runs.                     *)
(***************************************************************************)
TextIntegrity ==
  pc = "prompt" /\ tracee = "stopped" =>
    mem = [a \in Insns |-> IF a \in Listed THEN CC ELSE Orig[a]]

(***************************************************************************)
(* "Run the stopped instruction" (323): the step over a breakpoint runs    *)
(* the program's instruction there, and never the planted int3 again.      *)
(***************************************************************************)
StepOverRunsOriginal ==
  pc \in Overs /\ tracee = "stepping" => mem[regs] = Orig[regs]

(***************************************************************************)
(* disasm shows the program's instructions, never a planted 0xcc.          *)
(***************************************************************************)
DisasmShowsOriginal ==
  pc = "prompt" /\ tracee = "stopped" =>
    \A a \in Insns : Displayed(a) = Orig[a]

(***************************************************************************)
(* "Check if the tracee is stopped by 0xcc" (245): rip is taken back, and  *)
(* a hit reported, only for a stop that an int3 made.                      *)
(***************************************************************************)
HitIsInt3 ==
  [][pc = "wait" /\ pc' = "prompt" /\ rip' # rip => report = "int3"]_vars
=============================================================================
