------------------------------ MODULE Signals -------------------------------
(***************************************************************************)
(* A process of Linux, as far as signals go: what it blocks, what is       *)
(* pending, what it does with each signal, and the processor and stack that *)
(* a handler borrows.  External: modelled from how libmini uses it.        *)
(***************************************************************************)
EXTENDS SigSet, Sequences

CONSTANTS
  Regs,      (* the registers a function must preserve: rbx, rbp, r12-r15  *)
  Values,    (* what they can hold                                         *)
  Sites,     (* places in the program's code, where calls return to        *)
  Handler,   (* the place where the handlers begin                         *)
  Errors,    (* the error numbers of failing calls ...                     *)
  EINTR, EINVAL,
  MaxDepth,  (* bounds the frames on the stack                             *)
  Nowhere    (* no point, no jmp_buf                                       *)

ASSUME SignalsAssumption ==
  /\ Handler \in Sites
  /\ {EINTR, EINVAL} \subseteq Errors
  /\ Errors \subseteq Nat \ {0}
  /\ MaxDepth \in Nat

VARIABLES
  mask,      (* the blocked signals                                        *)
  pending,   (* those that have arrived and wait                           *)
  disp,      (* what sigaction has set for each signal                     *)
  cpu,       (* the running code                                           *)
  stack,     (* the calls and handlers it will return to                   *)
  own,       (* observes what the program itself asked to be blocked, and  *)
             (* what jumps out of handlers have left blocked               *)
  opened     (* observes what running handlers block, and the program has  *)
             (* unblocked since                                            *)

Handlers == {"SIG_DFL", "SIG_IGN", "function"}

(***************************************************************************)
(* Where the running code is.  In "pause" and "sleep" it waits in the      *)
(* kernel; at "wrap" a system call has come back with a code (0, or the    *)
(* number of an error) that its wrapper has not looked at yet;             *)
(* in "setjmp" and "longjmp" the registers have been dealt with, the mask  *)
(* has not.                                                                *)
(***************************************************************************)
Places == {"user", "pause", "sleep", "wrap", "setjmp", "longjmp", "ended"}

Codes == Errors \cup {0}

Registers == [Regs -> Values]

\* Where a jump is to come back to; depth is the number of frames there.
Points == [reg : Registers, ip : Sites, depth : 0..MaxDepth]

ASSUME NowhereAssumption == Nowhere \notin Points

Unknown == -1

\* told and goal observe: the code the running program was last told, if no
\* handler has run since, and the point it is jumping to.
Cpu == [at : Places, code : Codes, reg : Registers, ip : Sites,
        told : Codes \cup {Unknown}, goal : Points \cup {Nowhere}]

\* A frame of an ordinary call has sig 0.  own and opened observe, like the
\* variables.
Frame == [sig : Signals \cup {0}, mask : SUBSET Signals, adds : SUBSET Signals,
          own : SUBSET Signals, opened : SUBSET Signals, cpu : Cpu]

KernelTypeOK ==
  /\ mask \subseteq Signals
  /\ pending \subseteq Signals
  /\ disp \in [Signals -> [handler : Handlers, mask : SUBSET Signals]]
  /\ cpu \in Cpu
  /\ stack \in Seq(Frame)
  /\ Len(stack) <= MaxDepth
  /\ own \subseteq Signals
  /\ opened \subseteq Signals

KernelInit ==
  /\ mask = {}
  /\ pending = {}
  /\ disp = [s \in Signals |-> [handler |-> "SIG_DFL", mask |-> {}]]
  /\ \E reg \in Registers, ip \in Sites \ {Handler} :
       cpu = [at |-> "user", code |-> 0, reg |-> reg, ip |-> ip,
              told |-> Unknown, goal |-> Nowhere]
  /\ stack = <<>>
  /\ own = {} /\ opened = {}

Alive == cpu.at # "ended"
Top == stack[Len(stack)]
Popped == SubSeq(stack, 1, Len(stack) - 1)

End == cpu' = [cpu EXCEPT !.at = "ended", !.code = 0, !.told = Unknown, !.goal = Nowhere]

\* The alarm clock, kill(2), or a key on the terminal.  An ignored signal is
\* dropped, but not while it is blocked.
Arrive(s) ==
  /\ Alive
  /\ pending' = IF disp[s].handler = "SIG_IGN" /\ s \notin mask
                THEN pending ELSE pending \cup {s}
  /\ UNCHANGED <<mask, disp, cpu, stack, opened>>

\* A handler ends the waits of pause and nanosleep.
Interrupted(c) ==
  CASE c.at = "pause" -> [c EXCEPT !.told = Unknown, !.at = "wrap", !.code = EINTR]
    [] c.at = "sleep" -> [c EXCEPT !.told = Unknown, !.at = "user"]
    [] OTHER          -> [c EXCEPT !.told = Unknown]

(***************************************************************************)
(* A pending signal that is not blocked.  While a handler runs, its own    *)
(* signal and those of its sa_mask are blocked too.                        *)
(***************************************************************************)
Deliver(s) ==
  /\ Alive
  /\ s \in pending \ mask
  /\ pending' = pending \ {s}
  /\ \/ /\ disp[s].handler = "SIG_IGN"
        /\ UNCHANGED <<mask, cpu, stack, opened>>
     \/ /\ disp[s].handler = "SIG_DFL"
        /\ End
        /\ UNCHANGED <<mask, stack, opened>>
     \/ /\ disp[s].handler = "function"
        /\ Len(stack) < MaxDepth
        /\ LET adds == disp[s].mask \cup {s}
           IN  /\ stack' = Append(stack, [sig |-> s, mask |-> mask, adds |-> adds,
                                          own |-> own, opened |-> opened,
                                          cpu |-> Interrupted(cpu)])
               /\ mask' = mask \cup adds
               /\ opened' = opened \ adds
        /\ cpu' = [cpu EXCEPT !.at = "user", !.code = 0, !.ip = Handler,
                              !.told = Unknown, !.goal = Nowhere]
  /\ UNCHANGED disp

SleepEnds ==
  /\ cpu.at = "sleep"
  /\ cpu' = [cpu EXCEPT !.at = "user"]
  /\ UNCHANGED <<mask, pending, disp, stack, opened>>

\* rt_sigaction: ignoring a signal also drops a pending one.  The sa_mask is of
\* use to a handler only.
rt_sigaction(s, handler, sa_mask) ==
  /\ disp' = [disp EXCEPT ![s] =
       [handler |-> handler, mask |-> IF handler = "function" THEN sa_mask ELSE {}]]
  /\ pending' = IF handler = "SIG_IGN" THEN pending \ {s} ELSE pending
  /\ UNCHANGED <<mask, stack, opened>>

\* rt_sigprocmask.
Masked(how, set) ==
  CASE how = "SIG_BLOCK"   -> mask \cup set
    [] how = "SIG_UNBLOCK" -> mask \ set
    [] how = "SIG_SETMASK" -> set

\* rt_sigreturn: all is as it was when the handler interrupted it.
rt_sigreturn ==
  /\ stack' = Popped
  /\ mask' = Top.mask
  /\ cpu' = Top.cpu
  /\ own' = Top.own
  /\ opened' = Top.opened
=============================================================================
