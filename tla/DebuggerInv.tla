---------------------------- MODULE DebuggerInv -----------------------------
(***************************************************************************)
(* The inductive invariants behind the debugger's safety properties: what  *)
(* holds at each place its thread can be, and of the two tables and the    *)
(* text of the tracee.                                                     *)
(***************************************************************************)
EXTENDS Debugger

(* At the prompt nothing runs, and State and wait_status tell the truth    *)
(* about the tracee, but for one that was killed, which stays "running".   *)
AtRest ==
  /\ tracee \in {"none", "stopped", "exited", "killed"}
  /\ tracee = "stopped" => state = "running" /\ is_stopped /\ exitkill
  /\ report # "none" => tracee = "killed"
  /\ is_stopped => state = "running"
  /\ ~stop => /\ state = "init"       => tracee = "none"
              /\ state = "loaded"     => tracee \in {"none", "exited"}
              /\ state = "terminated" => tracee = "exited"
              /\ state = "running"    => tracee \in {"stopped", "killed"}

(* Between fork and the first stop.                                        *)
Launching ==
  /\ state \in {"loaded", "terminated"}
  /\ ~stop
  /\ \/ tracee = "forked" /\ report = "none"
     \/ tracee = "stopped" /\ report = "exec" /\ mem = Orig
     \/ tracee \in {"exited", "killed"} /\ report = tracee

(* Behind a resumption.                                                    *)
Watching ==
  /\ state = "running"
  /\ exitkill
  /\ ~stop
  /\ \/ tracee \in {"running", "stepping"} /\ report = "none"
     \/ tracee = "stopped" /\ report \in {"int3", "step", "signal"}
     \/ tracee \in {"exited", "killed"} /\ report = tracee

Gone ==
  /\ tracee \in {"none", "exited", "killed", "free"}
  /\ tracee = "free" => pc = "crashed" /\ state # "running"

Control ==
  /\ pc = "prompt" => AtRest
  /\ pc = "exec" => Launching
  /\ pc \in Overs \cup {"wait"} => Watching
  /\ pc \in Overs => tracee # "running" /\ regs \in DOMAIN address_to_breakpoint
  /\ pc \in Ended => Gone

Tables ==
  /\ Listed \subseteq DOMAIN address_to_breakpoint
  /\ state \in {"init", "loaded"} =>
       DOMAIN id_to_breakpoint = {} /\ DOMAIN address_to_breakpoint = {}

(* What a break read back: only a peek of a killed tracee's memory fails.  *)
Originals ==
  tracee # "killed" =>
    /\ \A i \in DOMAIN id_to_breakpoint :
         id_to_breakpoint[i].original \in {Orig[id_to_breakpoint[i].address], CC}
    /\ \A a \in DOMAIN address_to_breakpoint :
         address_to_breakpoint[a].original \in {Orig[a], CC}

Known == PlantedIsKnown /\ Originals

ControlInv == TypeOK /\ Control /\ Tables /\ Known

-----------------------------------------------------------------------------
(* For SpecDistinct: ids and addresses are used once, the tables hold the  *)
(* executable's bytes, and the text is in step with the list, but for the  *)
(* one byte that is being stepped over.                                    *)
OneEach ==
  /\ \A i \in DOMAIN id_to_breakpoint : i < breakpoint_id
  /\ \A i, j \in DOMAIN id_to_breakpoint :
       id_to_breakpoint[i].address = id_to_breakpoint[j].address => i = j

Recorded ==
  tracee # "killed" =>
    /\ \A i \in DOMAIN id_to_breakpoint :
         id_to_breakpoint[i].original = Orig[id_to_breakpoint[i].address]
    /\ \A a \in DOMAIN address_to_breakpoint :
         address_to_breakpoint[a].original = Orig[a]

Planted ==
  Live /\ pc # "exec" =>
    /\ mem = [a \in Insns |->
                IF a \in Listed /\ ~(pc \in Overs /\ a = regs)
                THEN CC ELSE Orig[a]]
    /\ pc \in Overs => regs \in Listed \/ Orig[regs] = CC

TextInv == OneEach /\ Recorded /\ Planted
=============================================================================
