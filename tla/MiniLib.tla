------------------------------ MODULE MiniLib -------------------------------
(***************************************************************************)
(* A program on libmini (HW3): its calls of the library, in any order,     *)
(* from its functions and its handlers.  A wrapper is a system call and,   *)
(* after it, the assignment of errno: a signal can come in between.        *)
(***************************************************************************)
EXTENDS Signals

CONSTANTS
  Sigactions,  (* what the program asks of sigaction: <<s, handler, sa_mask>>  *)
  Words        (* the words it makes for sigprocmask: <<full, s>>              *)

ASSUME ProgramAssumption ==
  /\ Sigactions \subseteq Signals \X Handlers \X SUBSET sigfillset
  /\ Words \subseteq BOOLEAN \X Signals

VARIABLES
  errno,
  env,     (* the jmp_buf, while the program may jump to it                *)
  point    (* observes where setjmp was called                             *)

kernelVars == <<mask, pending, disp, stack, opened>>
libVars == <<errno, env, point, own>>
vars == <<kernelVars, cpu, libVars>>

\* reg and ip are jmp_buf.reg; no code ever writes jmp_buf.mask.
JmpBuf == [reg : Registers, ip : Sites, rsp : 1..MaxDepth, ready : BOOLEAN]
ASSUME JmpBufAssumption == Nowhere \notin JmpBuf

TypeOK ==
  /\ KernelTypeOK
  /\ errno \in Codes
  /\ env \in JmpBuf \cup {Nowhere}
  /\ point \in Points \cup {Nowhere}

Init ==
  /\ KernelInit
  /\ errno = 0
  /\ env = Nowhere
  /\ point = Nowhere

(***************************************************************************)
(* A word the program makes with two calls, and the signals it means by    *)
(* it: NSIG itself can be filled in, not added or deleted.                 *)
(***************************************************************************)
Word(full, sig) ==
  IF full THEN sigdelset(sigfillset, sig) ELSE sigaddset(sigemptyset, sig)

Meant(full, sig) ==
  IF full THEN Signals \ ({sig} \ {NSIG}) ELSE {sig} \ {NSIG}

(***************************************************************************)
(* System calls that return at once, and the macro behind all of them.     *)
(***************************************************************************)
Returns(code) == cpu' = [cpu EXCEPT !.at = "wrap", !.code = code]

\* WRAPPER_RETval; a bug would be to forget the minus, or to leave errno alone
\* after a success.
ErrnoOf_Negative(code) == -code

ErrnoOf_Kept(code) == IF code = 0 THEN errno ELSE code

ErrnoOf(code) == code

Wrap ==
  /\ cpu.at = "wrap"
  /\ errno' = ErrnoOf(cpu.code)
  /\ cpu' = [cpu EXCEPT !.at = "user", !.code = 0, !.told = cpu.code]
  /\ UNCHANGED <<kernelVars, env, point, own>>

\* read, write, open and the others, which change nothing modelled here: alarm
\* is one of them, as the kernel may let SIGALRM arrive at any time.
Syscall ==
  /\ cpu.at = "user"
  /\ \E code \in Codes : Returns(code)
  /\ UNCHANGED <<kernelVars, libVars>>

sigaction(s, handler, set) ==
  /\ cpu.at = "user"
  /\ rt_sigaction(s, handler, InKernel(set))
  /\ Returns(0)
  /\ UNCHANGED libVars

\* sigaction writes sa_flags through act, which a mere question leaves null.
sigaction_null ==
  /\ cpu.at = "user"
  /\ End
  /\ UNCHANGED <<kernelVars, libVars>>

signal_refuses ==
  /\ cpu.at = "user"
  /\ errno' = EINVAL
  /\ cpu' = [cpu EXCEPT !.told = EINVAL]
  /\ UNCHANGED <<kernelVars, env, point, own>>

signal(s, handler) ==
  /\ InRange(s)
  /\ sigaction(s, handler, sigaddset(sigemptyset, s))

\* What the handlers among frames m to n add to the mask as long as they run.
Added(m, n) == UNION {stack[i].adds : i \in m..n}

(***************************************************************************)
(* The program changes its mask, in a function or in a handler: it may     *)
(* unblock there what the running handlers block.                          *)
(***************************************************************************)
sigprocmask(how, full, s) ==
  /\ cpu.at = "user"
  /\ mask' = Masked(how, InKernel(Word(full, s)))
  /\ LET set == Meant(full, s)
         running == Added(1, Len(stack))
     IN  \/ how = "SIG_BLOCK" /\ own' = own \cup set /\ opened' = opened \ set
         \/ /\ how = "SIG_UNBLOCK"
            /\ own' = own \ set
            /\ opened' = (opened \cup set) \cap running
         \/ how = "SIG_SETMASK" /\ own' = set /\ opened' = running \ set
  /\ Returns(0)
  /\ UNCHANGED <<pending, disp, stack, errno, env, point>>

pause ==
  /\ cpu.at = "user"
  /\ cpu' = [cpu EXCEPT !.at = "pause"]
  /\ UNCHANGED <<kernelVars, libVars>>

\* sleep is no wrapper: when nanosleep returns, only the seconds left are worked
\* out, and errno is left alone.
sleep ==
  /\ cpu.at = "user"
  /\ cpu' = [cpu EXCEPT !.at = "sleep"]
  /\ UNCHANGED <<kernelVars, libVars>>

(***************************************************************************)
(* Functions of the program.  Whoever returns below the caller of setjmp   *)
(* gives up the jmp_buf.                                                   *)
(***************************************************************************)
CallFrame(c) == [sig |-> 0, mask |-> {}, adds |-> {},
                 own |-> {}, opened |-> {},
                 cpu |-> [c EXCEPT !.told = Unknown, !.goal = Nowhere]]

\* Only a delivery begins a handler.
Compute ==
  /\ cpu.at = "user"
  /\ \E ip \in Sites \ {Handler}, reg \in Registers :
       cpu' = [cpu EXCEPT !.ip = ip, !.reg = reg]
  /\ UNCHANGED <<kernelVars, libVars>>

Call ==
  /\ cpu.at = "user"
  /\ Len(stack) < MaxDepth
  /\ stack' = Append(stack, CallFrame(cpu))
  /\ UNCHANGED <<mask, pending, disp, opened, cpu, libVars>>

GiveUp ==
  IF env # Nowhere /\ env.rsp > Len(stack)
  THEN env' = Nowhere /\ point' = Nowhere
  ELSE UNCHANGED <<env, point>>

Return ==
  /\ cpu.at = "user"
  /\ stack # <<>>
  /\ Top.sig = 0
  /\ stack' = Popped
  /\ cpu' = [cpu EXCEPT !.ip = Top.cpu.ip, !.reg = Top.cpu.reg]
  /\ GiveUp
  /\ UNCHANGED <<mask, pending, disp, errno, own, opened>>

\* A handler returns to __myrt, which is nothing but the system call.
sigreturn ==
  /\ cpu.at = "user"
  /\ stack # <<>>
  /\ Top.sig # 0
  /\ rt_sigreturn
  /\ GiveUp
  /\ UNCHANGED <<pending, disp, errno>>

(***************************************************************************)
(* setjmp and longjmp, which find their return address on the stack.  Both *)
(* pass a set size of 4, so that the kernel refuses to look at the mask or *)
(* to change it.  The program does not begin a setjmp in a handler that    *)
(* interrupts one, nor jump before setjmp has returned.                    *)
(***************************************************************************)
setjmp ==
  /\ cpu.at = "user"
  /\ Len(stack) < MaxDepth
  /\ env # Nowhere => env.ready
  /\ env' = [reg |-> cpu.reg, ip |-> cpu.ip, rsp |-> Len(stack) + 1, ready |-> FALSE]
  /\ point' = [reg |-> cpu.reg, ip |-> cpu.ip, depth |-> Len(stack)]
  /\ stack' = Append(stack, CallFrame(cpu))
  /\ cpu' = [cpu EXCEPT !.at = "setjmp"]
  /\ UNCHANGED <<mask, pending, disp, errno, own, opened>>

SetjmpReturns ==
  /\ cpu.at = "setjmp"
  /\ env' = [env EXCEPT !.ready = TRUE]
  /\ stack' = Popped
  /\ cpu' = [cpu EXCEPT !.at = "user"]
  /\ UNCHANGED <<mask, pending, disp, errno, point, own, opened>>

\* The stack longjmp makes for itself from the saved rsp, below which calls
\* made since may have overwritten the return address; a bug would be to
\* trust it.
JumpStack_Trusting ==
  SubSeq(Append(stack, CallFrame(cpu)), 1, env.rsp)

JumpStack ==
  Append(SubSeq(stack, 1, env.rsp - 1), CallFrame([cpu EXCEPT !.ip = env.ip]))

\* The buffer is read word by word, and nobody calls setjmp on it meanwhile.
longjmp ==
  /\ cpu.at = "user"
  /\ env # Nowhere /\ env.ready
  /\ stack' = JumpStack
  /\ cpu' = [cpu EXCEPT !.at = "longjmp", !.reg = env.reg, !.goal = point]
  /\ LET stay == Added(1, env.rsp - 1)
         go   == Added(env.rsp, Len(stack))
     IN  own' = own \cup (go \ opened) /\ opened' = opened \cap stay
  /\ UNCHANGED <<mask, pending, disp, errno, env, point>>

Land ==
  /\ cpu.at = "longjmp"
  /\ stack' = Popped
  /\ cpu' = [cpu EXCEPT !.at = "user", !.ip = Top.cpu.ip, !.told = Unknown,
                        !.goal = Nowhere]
  /\ UNCHANGED <<mask, pending, disp, opened, libVars>>

exit ==
  /\ cpu.at = "user"
  /\ End
  /\ UNCHANGED <<kernelVars, libVars>>

-----------------------------------------------------------------------------
Library ==
  \/ Wrap \/ Syscall \/ sigaction_null \/ signal_refuses
  \/ \E s \in Signals, handler \in Handlers : signal(s, handler)
  \/ \E a \in Sigactions : sigaction(a[1], a[2], a[3])
  \/ \E how \in {"SIG_BLOCK", "SIG_UNBLOCK", "SIG_SETMASK"}, w \in Words :
       sigprocmask(how, w[1], w[2])
  \/ pause \/ sleep
  \/ setjmp \/ SetjmpReturns \/ longjmp \/ Land
  \/ sigreturn \/ exit

Program == Compute \/ Call \/ Return

Kernel ==
  /\ SleepEnds \/ \E s \in Signals : Arrive(s) \/ Deliver(s)
  /\ UNCHANGED libVars

Next == Library \/ Program \/ Kernel

Spec == Init /\ [][Next]_vars

(***************************************************************************)
(* What is blocked at any time: what the program asked for; while handlers *)
(* run, their own signals and sa_masks, but for those the program has      *)
(* unblocked in them since, which are off again when each has returned,    *)
(* however they were nested; and, since a jump restores no mask, what was  *)
(* blocked for the handlers jumps have left - until the program changes    *)
(* its mask, or a handler that was interrupted by all that returns.        *)
(***************************************************************************)
MaskKnown == mask = own \cup (Added(1, Len(stack)) \ opened)

(***************************************************************************)
(* A handler is entered again, for the signal it is handling, only when    *)
(* the program has itself unblocked that signal in it: the words sigaddset *)
(* and sigdelset make for sigaction and sigprocmask let in no other, with  *)
(* jumps into and out of handlers too.                                     *)
(***************************************************************************)
NotReentered ==
  \A i, j \in 1..Len(stack) :
    i < j /\ stack[i].sig # 0 /\ stack[i].sig = stack[j].sig
      => stack[j].sig \in stack[j].opened

(***************************************************************************)
(* When longjmp comes to its ret, the registers are those setjmp saw, and  *)
(* the stack gives its return address: whatever was called since, and      *)
(* with the handlers that have run, or have jumped, meanwhile.             *)
(***************************************************************************)
JumpLands ==
  cpu.at = "longjmp" =>
    /\ cpu.reg = cpu.goal.reg
    /\ Len(stack) = cpu.goal.depth + 1
    /\ Top.cpu.ip = cpu.goal.ip

(***************************************************************************)
(* errno is the code of the last call that told one, 0 after a success,    *)
(* sleep or jump setting no errno, unless a handler has run since.         *)
(***************************************************************************)
ErrnoOfCall == cpu.at = "user" /\ cpu.told # Unknown => errno = cpu.told
=============================================================================
