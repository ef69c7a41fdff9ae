---------------------------- MODULE DebuggedRun -----------------------------
(***************************************************************************)
(* The debugger as an implementation of NativeRun, for a user who sets no  *)
(* breakpoint twice and none on a one-byte instruction.  Without the first *)
(* restriction the second breakpoint is planted over the first one's int3; *)
(* without the second, check_breakpoint takes a step that ends behind the  *)
(* breakpoint for a hit and moves the program back.                        *)
(***************************************************************************)
EXTENDS DebuggerInv

LongBreaks ==
  \A i \in DOMAIN id_to_breakpoint' \ DOMAIN id_to_breakpoint :
    id_to_breakpoint'[i].address + 1 \notin Insns

SpecCareful == Init /\ [][Next /\ DistinctBreaks /\ LongBreaks]_vars

(***************************************************************************)
(* The mapping.  Between the int3 of a breakpoint and check_breakpoint,    *)
(* rip is one behind: the next instruction is the one the int3 replaces.   *)
(***************************************************************************)
BehindBreakpoint == report = "int3" /\ rip - 1 \in Insns /\ Orig[rip - 1] # CC

NextInsn == IF ~Live THEN Entry ELSE IF BehindBreakpoint THEN rip - 1 ELSE rip

Native == INSTANCE NativeRun
  WITH Targets <- SetTargets, live <- Live, ip <- NextInsn, held <- pc = "prompt"

(***************************************************************************)
(* Debugging is transparent: whatever is set, deleted, stepped, continued  *)
(* and re-run, the tracee executes the instructions of the program in an   *)
(* order of the program, and goes elsewhere only where "set rip" sends it. *)
(***************************************************************************)
Transparent == Native!Spec

-----------------------------------------------------------------------------
(***************************************************************************)
(* Why it is: no listed instruction has a neighbour, so that the address   *)
(* behind a breakpoint is reached only through its int3; rip is on an      *)
(* instruction but right behind a planted int3; and the instruction that   *)
(* is stepped over is the one at rip.                                      *)
(***************************************************************************)
LongInv == \A a \in DOMAIN address_to_breakpoint : a + 1 \notin Insns

RipInv ==
  Live =>
    /\ report # "int3" => rip \in Insns
    /\ report = "int3" =>
         /\ pc = "wait"
         /\ rip - 1 \in Insns
         /\ IF Orig[rip - 1] = CC THEN rip \in Insns ELSE rip - 1 \in Listed
    /\ pc = "exec" => rip = Entry
    /\ pc \in Overs /\ tracee = "stepping" => rip = regs

RunInv == ControlInv /\ TextInv /\ LongInv /\ RipInv
=============================================================================
