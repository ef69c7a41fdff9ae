------------------------------- MODULE Ptrace -------------------------------
(***************************************************************************)
(* The tracee and the part of the kernel that HW4/debugger.cpp reaches     *)
(* through fork, execlp, ptrace and waitpid.  Nothing here is in the       *)
(* repository: the module is external and is written from how the debugger *)
(* uses those calls.  The Debugger module extends it, conjoins its         *)
(* operators where the code makes a call, and interleaves its actions      *)
(* while the debugger is blocked in waitpid.                               *)
(*                                                                         *)
(* A program is a set of instruction addresses.  Two neighbouring          *)
(* addresses a, a + 1 in Insns mean that the instruction at a is one byte  *)
(* long; an address outside Insns holds an operand byte or no code.        *)
(*                                                                         *)
(* Left out: a signal that stops the child between its TRACEME and its     *)
(* exec, and execution that leaves Insns for the middle of an instruction. *)
(***************************************************************************)
EXTENDS Integers

CONSTANTS
  Insns,  (* addresses of the program's instructions                       *)
  Entry,  (* e_entry of its ELF header                                     *)
  End,    (* address of the last byte of .text                             *)
  Orig,   (* first byte of each instruction, as the executable has it      *)
  Succ,   (* addresses each instruction may continue at                    *)
  Exits,  (* instructions that end the process                             *)
  Blocking, (* instructions that enter a call which may wait for ever      *)
  Bytes,  (* the values a byte can have, as far as they matter             *)
  CC,     (* 0xcc, the int3 instruction                                    *)
  Junk    (* an operand byte, or the -1 of a PTRACE_PEEKTEXT that fails    *)

(* A program's own int3 is a one-byte instruction like any other.          *)
ASSUME ProgramAssumption ==
  /\ Insns \subseteq Nat
  /\ Entry \in Insns
  /\ End \in Nat
  /\ Orig \in [Insns -> Bytes]
  /\ Succ \in [Insns -> SUBSET Insns]
  /\ Exits \subseteq Insns
  /\ Blocking \subseteq Insns
  /\ CC \in Bytes
  /\ Junk \in Bytes
  /\ Junk # CC
  /\ \A a \in Insns : Orig[a] = CC => Succ[a] = {a + 1} /\ a \notin Exits

VARIABLES
  tracee,   (* what the traced process is doing                            *)
  rip,      (* its instruction pointer                                     *)
  mem,      (* the byte at each instruction address                        *)
  report,   (* the event the next waitpid returns                          *)
  exitkill  (* PTRACE_O_EXITKILL is set on it                              *)

kernelVars == <<tracee, rip, mem, report, exitkill>>

Resumed   == {"forked", "running", "stepping"}
Alive     == Resumed \cup {"stopped", "free"}
Traps     == {"exec", "int3", "step"}   \* the SIGTRAPs, told apart by siginfo
Addresses == Insns \cup {a + 1 : a \in Insns}

KernelTypeOK ==
  /\ tracee \in Alive \cup {"none", "exited", "killed"}
  /\ rip \in Addresses
  /\ mem \in [Insns -> Bytes]
  /\ report \in Traps \cup {"none", "signal", "exited", "killed"}
  /\ exitkill \in BOOLEAN

KernelInit ==
  /\ tracee = "none"
  /\ rip = Entry
  /\ mem = Orig
  /\ report = "none"
  /\ exitkill = FALSE

-----------------------------------------------------------------------------
(* What the debugger's calls do.                                           *)

\* PTRACE_PEEKTEXT of the byte at a: it fails unless the tracee is stopped.
Peek(a) == IF tracee = "stopped" /\ a \in Insns THEN mem[a] ELSE Junk

\* PTRACE_POKETEXT of byte b at a on top of memory m: fails in silence likewise.
Poke(m, a, b) == IF tracee = "stopped" THEN [m EXCEPT ![a] = b] ELSE m

\* fork: a new child with no options set, about to exec.
Fork ==
  /\ tracee' = "forked"
  /\ report' = "none"
  /\ exitkill' = FALSE
  /\ UNCHANGED <<rip, mem>>

\* What waitpid stores of an event: WIFSTOPPED with SIGTRAP or with another
\* signal, WIFEXITED, WIFSIGNALED.
Status(event) == IF event \in Traps THEN "trap" ELSE event

\* The tracer's death: EXITKILL kills the tracee, otherwise it is let go.
TracerGone ==
  /\ tracee' = IF tracee \notin Alive THEN tracee
               ELSE IF exitkill THEN "killed" ELSE "free"
  /\ UNCHANGED <<rip, mem, report, exitkill>>

-----------------------------------------------------------------------------
(* What the tracee does while the debugger waits.                          *)

Halt(event) == tracee' = "stopped" /\ report' = event

\* One instruction done, the next one at a: a single step ends here.
Retire(a) ==
  /\ rip' = a
  /\ IF tracee = "stepping" THEN Halt("step") ELSE UNCHANGED <<tracee, report>>

ExecSucceeds ==
  /\ tracee = "forked"
  /\ Halt("exec")
  /\ rip' = Entry
  /\ mem' = Orig
  /\ UNCHANGED exitkill

\* The child falls through execlp into the debugger's own code (704-711) and
\* its copy of the debugger leaves with status 0.
ExecFails ==
  /\ tracee = "forked"
  /\ tracee' = "exited"
  /\ report' = "exited"
  /\ UNCHANGED <<rip, mem, exitkill>>

Executing == tracee \in {"running", "stepping"}

AtInt3 == rip \in Insns /\ mem[rip] = CC

\* int3 traps with rip behind it, whoever put it there.
RunInt3 ==
  /\ Executing
  /\ AtInt3
  /\ rip' = rip + 1
  /\ Halt("int3")
  /\ UNCHANGED <<mem, exitkill>>

\* The program's own instruction.
Intact == rip \in Insns /\ mem[rip] = Orig[rip] /\ mem[rip] # CC

RunInsn ==
  /\ Executing
  /\ Intact
  /\ rip \notin Exits
  /\ \E a \in Succ[rip] : Retire(a)
  /\ UNCHANGED <<mem, exitkill>>

RunExit ==
  /\ Executing
  /\ Intact
  /\ rip \in Exits
  /\ tracee' = "exited"
  /\ report' = "exited"
  /\ UNCHANGED <<rip, mem, exitkill>>

\* Execution off the program's instructions may continue at any of them.
RunAstray ==
  /\ Executing
  /\ ~AtInt3
  /\ ~Intact
  /\ \E a \in Insns : Retire(a)
  /\ UNCHANGED <<mem, exitkill>>

\* A signal other than SIGTRAP (a fault, an alarm, SIGINT): the tracee stops
\* before the instruction at rip.
Signal ==
  /\ Executing
  /\ Halt("signal")
  /\ UNCHANGED <<rip, mem, exitkill>>

\* SIGKILL from outside, also while the tracee is stopped.
Kill ==
  /\ tracee \in Alive
  /\ tracee' = "killed"
  /\ report' = "killed"
  /\ UNCHANGED <<rip, mem, exitkill>>

\* The tracee waits in a system call, a read of its terminal say: it may never
\* come back, and only a signal or a kill is sure to find it there.
Blocked == Executing /\ Intact /\ rip \in Blocking

\* A resumed tracee gets the processor.
TraceeRuns ==
  \/ ExecSucceeds
  \/ ExecFails
  \/ RunInt3
  \/ RunInsn
  \/ RunExit
  \/ RunAstray
  \/ Signal
=============================================================================
