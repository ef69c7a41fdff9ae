--------------------------- MODULE MiniLibProofs ---------------------------
(***************************************************************************)
(* Theorems about programs on libmini, for any number of signals, frames,  *)
(* registers and places in the code.                                       *)
(***************************************************************************)
EXTENDS MiniLib, TLAPS

USE SigSetAssumption, SignalsAssumption, NowhereAssumption, JmpBufAssumption

(***************************************************************************)
(* What a step does to the stack: a frame is pushed, or popped, or a jump  *)
(* cuts the stack and makes a frame of its own.                            *)
(***************************************************************************)
LEMMA Pushed ==
  ASSUME NEW f \in Frame, stack \in Seq(Frame), stack' = Append(stack, f)
  PROVE  /\ stack' \in Seq(Frame)
         /\ Len(stack') = Len(stack) + 1
         /\ stack'[Len(stack) + 1] = f
         /\ \A i \in 1..Len(stack) : stack'[i] = stack[i]
OBVIOUS

LEMMA PrefixFacts ==
  ASSUME NEW S, NEW s \in Seq(S), NEW n \in Nat, n <= Len(s)
  PROVE  /\ SubSeq(s, 1, n) \in Seq(S)
         /\ Len(SubSeq(s, 1, n)) = n
         /\ \A i \in 1..n : SubSeq(s, 1, n)[i] = s[i]
OBVIOUS

LEMMA PoppedFrame ==
  ASSUME stack \in Seq(Frame), stack # <<>>, stack' = Popped
  PROVE  /\ stack' \in Seq(Frame)
         /\ Len(stack) \in Nat \ {0}
         /\ Len(stack') = Len(stack) - 1
         /\ Top \in Frame
         /\ \A i \in 1..Len(stack) - 1 : stack'[i] = stack[i]
<1>1. Len(stack) \in Nat \ {0}
  OBVIOUS
<1>2. Top \in Frame
  BY <1>1 DEF Top
<1>3. Len(stack) - 1 \in Nat /\ Len(stack) - 1 <= Len(stack)
  BY <1>1
<1> QED
  BY <1>1, <1>2, <1>3, PrefixFacts DEF Popped

LEMMA CallFrameTyped ==
  ASSUME NEW c \in Cpu
  PROVE  CallFrame(c) \in Frame
BY DEF CallFrame, Frame, Cpu, Unknown

(* Up to the saved rsp the stack is kept, and the frame there is a call's. *)
LEMMA JumpCuts ==
  ASSUME stack \in Seq(Frame), cpu \in Cpu, env \in JmpBuf,
         env.rsp - 1 <= Len(stack), stack' = JumpStack
  PROVE  /\ stack' \in Seq(Frame)
         /\ Len(stack') = env.rsp
         /\ stack'[env.rsp].sig = 0
         /\ stack'[env.rsp].adds = {}
         /\ stack'[env.rsp].cpu.ip = env.ip
         /\ stack'[env.rsp].cpu.at = cpu.at
         /\ stack'[env.rsp].cpu.told = Unknown
         /\ \A i \in 1..env.rsp - 1 : stack'[i] = stack[i]
<1> DEFINE f == CallFrame([cpu EXCEPT !.ip = env.ip])
           s == SubSeq(stack, 1, env.rsp - 1)
<1>1. env.rsp \in Nat \ {0} /\ env.ip \in Sites
  BY DEF JmpBuf
<1>2. [cpu EXCEPT !.ip = env.ip] \in Cpu
  BY <1>1 DEF Cpu
<1>3. f \in Frame
  BY <1>2, CallFrameTyped
<1>4. /\ s \in Seq(Frame)
      /\ Len(s) = env.rsp - 1
      /\ \A i \in 1..env.rsp - 1 : s[i] = stack[i]
  BY <1>1
<1>5. stack' = Append(s, f)
  BY DEF JumpStack
<1>6. /\ f.sig = 0
      /\ f.adds = {}
      /\ f.cpu.ip = env.ip
      /\ f.cpu.at = cpu.at
      /\ f.cpu.told = Unknown
  BY DEF CallFrame, Cpu
<1> HIDE DEF s, f
<1>7. /\ stack' \in Seq(Frame)
      /\ Len(stack') = env.rsp
      /\ stack'[env.rsp] = f
      /\ \A i \in 1..env.rsp - 1 : stack'[i] = s[i]
  BY <1>1, <1>3, <1>4, <1>5
<1> QED
  BY <1>4, <1>6, <1>7

(***************************************************************************)
(* The jmp_buf in use agrees with the point that was observed, and its     *)
(* frame has not been returned from.                                       *)
(***************************************************************************)
EnvOK ==
  env # Nowhere =>
    /\ point # Nowhere
    /\ env.reg = point.reg
    /\ env.ip = point.ip
    /\ env.rsp = point.depth + 1
    /\ env.rsp <= Len(stack) + 1

(***************************************************************************)
(* Code that runs, or waits to be returned to, with n frames below it: if  *)
(* it is in setjmp the jmp_buf is its own; if it is in longjmp its         *)
(* registers and its return address are those it jumps for.  The frame     *)
(* below either is that of the call.                                       *)
(***************************************************************************)
Settled(c, n, e, s) ==
  /\ c.at \in {"setjmp", "longjmp"} => n >= 1 /\ s[n].sig = 0
  /\ c.at = "setjmp" => e # Nowhere /\ ~e.ready /\ e.rsp = n
  /\ c.at = "longjmp" =>
       /\ c.goal \in Points
       /\ c.reg = c.goal.reg
       /\ n = c.goal.depth + 1
       /\ s[n].cpu.ip = c.goal.ip
       /\ e # Nowhere => e.rsp # n + 1

JumpInv ==
  /\ TypeOK
  /\ EnvOK
  /\ Settled(cpu, Len(stack), env, stack)
  /\ \A i \in 1..Len(stack) : Settled(stack[i].cpu, i - 1, env, stack)

LEMMA InitJump == Init => JumpInv
<1> SUFFICES ASSUME Init PROVE JumpInv
  OBVIOUS
<1> USE DEF Init, KernelInit
<1>1. TypeOK
  <2>1. cpu \in Cpu
    BY DEF Cpu, Codes, Places, Unknown
  <2>2. disp \in [Signals -> [handler : Handlers, mask : SUBSET Signals]]
    BY DEF Handlers
  <2>3. stack \in Seq(Frame) /\ Len(stack) = 0
    OBVIOUS
  <2>4. KernelTypeOK
    BY <2>1, <2>2, <2>3 DEF KernelTypeOK
  <2>5. /\ errno \in Codes
        /\ env \in JmpBuf \cup {Nowhere}
        /\ point \in Points \cup {Nowhere}
        /\ own \in SUBSET Signals
        /\ opened \in SUBSET Signals
    BY DEF Codes
  <2> QED
    BY <2>4, <2>5 DEF TypeOK
<1>2. EnvOK
  BY DEF EnvOK
<1>3. Settled(cpu, Len(stack), env, stack)
  BY DEF Settled
<1> QED
  BY <1>1, <1>2, <1>3 DEF JumpInv

(***************************************************************************)
(* What handlers add to the mask are signals.                              *)
(***************************************************************************)
LEMMA AddedTyped ==
  ASSUME TypeOK, NEW m \in Nat \ {0}, NEW n \in 0..Len(stack)
  PROVE  Added(m, n) \in SUBSET Signals
<1>1. ASSUME NEW i \in m..n
      PROVE  stack[i].adds \in SUBSET Signals
  <2>1. i \in 1..Len(stack)
    BY DEF TypeOK, KernelTypeOK
  <2>2. stack[i] \in Frame
    BY <2>1 DEF TypeOK, KernelTypeOK
  <2> QED
    BY <2>2 DEF Frame
<1> QED
  BY <1>1 DEF Added

(***************************************************************************)
(* Steps that leave the stack and the jmp_buf alone, and do not end up in  *)
(* setjmp or longjmp.                                                      *)
(***************************************************************************)
LEMMA QuietKeepsJump ==
  ASSUME JumpInv, TypeOK', UNCHANGED <<stack, env, point>>,
         cpu'.at \notin {"setjmp", "longjmp"} \/ UNCHANGED cpu
  PROVE  JumpInv'
<1>1. EnvOK'
  BY DEF JumpInv, EnvOK
<1>2. Settled(cpu', Len(stack'), env', stack')
  BY DEF JumpInv, Settled
<1>3. \A i \in 1..Len(stack') : Settled(stack'[i].cpu, i - 1, env', stack')
  BY DEF JumpInv, Settled
<1> QED
  BY <1>1, <1>2, <1>3 DEF JumpInv

QuietStep ==
  \/ Wrap \/ Syscall \/ sigaction_null \/ signal_refuses
  \/ \E s \in Signals, handler \in Handlers : \E set : sigaction(s, handler, set)
  \/ \E how \in {"SIG_BLOCK", "SIG_UNBLOCK", "SIG_SETMASK"}, full \in BOOLEAN,
        s \in Signals : sigprocmask(how, full, s)
  \/ pause \/ sleep \/ Compute \/ exit
  \/ SleepEnds /\ UNCHANGED libVars
  \/ \E s \in Signals : Arrive(s) /\ UNCHANGED libVars

LEMMA QuietTyped ==
  ASSUME TypeOK, QuietStep
  PROVE  /\ TypeOK'
         /\ UNCHANGED <<stack, env, point>>
         /\ cpu'.at \notin {"setjmp", "longjmp"} \/ UNCHANGED cpu
<1> USE DEF TypeOK, KernelTypeOK, kernelVars, libVars
<1>1. CASE Wrap
  BY <1>1 DEF Wrap, ErrnoOf, Cpu, Codes, Places, Unknown
<1>2. CASE Syscall
  BY <1>2 DEF Syscall, Returns, Cpu, Codes, Places
<1>3. CASE sigaction_null \/ exit
  BY <1>3 DEF sigaction_null, exit, End, Cpu, Codes, Places, Unknown
<1>4. CASE signal_refuses
  BY <1>4 DEF signal_refuses, Cpu, Codes, Places
<1>5. CASE \E s \in Signals, handler \in Handlers : \E set : sigaction(s, handler, set)
  <2> PICK s \in Signals, handler \in Handlers : \E set : sigaction(s, handler, set)
    BY <1>5
  <2> PICK set : sigaction(s, handler, set)
    OBVIOUS
  <2> DEFINE d == [handler |-> handler,
                   mask |-> IF handler = "function" THEN InKernel(set) ELSE {}]
  <2>1. d \in [handler : Handlers, mask : SUBSET Signals]
    BY DEF InKernel
  <2>2. disp' = [disp EXCEPT ![s] = d]
    BY DEF sigaction, rt_sigaction
  <2> HIDE DEF d
  <2>3. disp' \in [Signals -> [handler : Handlers, mask : SUBSET Signals]]
    BY <2>1, <2>2
  <2>4. pending' \in SUBSET Signals
    BY DEF sigaction, rt_sigaction
  <2>5. cpu' \in Cpu /\ cpu'.at = "wrap"
    BY DEF sigaction, Returns, Cpu, Codes, Places
  <2> QED
    BY <2>3, <2>4, <2>5 DEF sigaction, rt_sigaction
<1>6. CASE \E how \in {"SIG_BLOCK", "SIG_UNBLOCK", "SIG_SETMASK"}, full \in BOOLEAN,
              s \in Signals : sigprocmask(how, full, s)
  <2> PICK how \in {"SIG_BLOCK", "SIG_UNBLOCK", "SIG_SETMASK"}, full \in BOOLEAN,
           s \in Signals : sigprocmask(how, full, s)
    BY <1>6
  <2>1. mask' \in SUBSET Signals
    BY DEF sigprocmask, Masked, InKernel
  <2>2. own' \in SUBSET Signals /\ opened' \in SUBSET Signals
    <3>1. Meant(full, s) \in SUBSET Signals
      BY DEF Meant
    <3>2. Added(1, Len(stack)) \in SUBSET Signals
      BY AddedTyped
    <3> QED
      BY <3>1, <3>2 DEF sigprocmask
  <2> QED
    BY <2>1, <2>2 DEF sigprocmask, Returns, Cpu, Codes, Places
<1>7. CASE pause \/ sleep \/ Compute \/ (SleepEnds /\ UNCHANGED libVars)
  BY <1>7 DEF pause, sleep, Compute, SleepEnds, Cpu, Places
<1>8. CASE \E s \in Signals : Arrive(s) /\ UNCHANGED libVars
  BY <1>8 DEF Arrive
<1> QED
  BY <1>1, <1>2, <1>3, <1>4, <1>5, <1>6, <1>7, <1>8 DEF QuietStep

(***************************************************************************)
(* Frames that stay, under a jmp_buf that stays, stay settled.             *)
(***************************************************************************)
LEMMA SettledStays ==
  ASSUME NEW c, NEW n \in Nat, NEW e, NEW s, NEW t,
         Settled(c, n, e, s), n >= 1 => t[n] = s[n]
  PROVE  Settled(c, n, e, t)
BY DEF Settled, Points

LEMMA FramesStay ==
  ASSUME JumpInv, NEW m \in 0..Len(stack), \A i \in 1..m : stack'[i] = stack[i]
  PROVE  \A i \in 1..m : Settled(stack'[i].cpu, i - 1, env, stack')
<1> SUFFICES ASSUME NEW i \in 1..m
             PROVE  Settled(stack'[i].cpu, i - 1, env, stack')
  OBVIOUS
<1>1. Len(stack) \in Nat
  BY DEF JumpInv, TypeOK, KernelTypeOK
<1>2. Settled(stack[i].cpu, i - 1, env, stack)
  BY <1>1 DEF JumpInv
<1>3. i - 1 \in Nat /\ (i - 1 >= 1 => stack'[i - 1] = stack[i - 1])
  BY <1>1
<1>4. stack'[i] = stack[i]
  OBVIOUS
<1> QED
  BY <1>2, <1>3, <1>4, SettledStays

(***************************************************************************)
(* Steps that push a frame: a call, a handler, setjmp.                     *)
(***************************************************************************)
LEMMA CallKeepsJump ==
  ASSUME JumpInv, Call
  PROVE  JumpInv'
<1> USE DEF TypeOK, KernelTypeOK, libVars
<1>1. CallFrame(cpu) \in Frame /\ CallFrame(cpu).cpu.at = "user"
  BY CallFrameTyped DEF JumpInv, Call, CallFrame, Cpu
<1>2. /\ stack' \in Seq(Frame)
      /\ Len(stack') = Len(stack) + 1
      /\ stack'[Len(stack) + 1] = CallFrame(cpu)
      /\ \A i \in 1..Len(stack) : stack'[i] = stack[i]
  BY <1>1, Pushed DEF JumpInv, Call
<1>3. Len(stack) \in Nat
  BY DEF JumpInv
<1>4. TypeOK'
  BY <1>2, <1>3 DEF JumpInv, Call
<1>5. EnvOK'
  BY <1>2, <1>3 DEF JumpInv, EnvOK, Call, JmpBuf
<1>6. Settled(cpu', Len(stack'), env', stack')
  BY DEF Settled, Call
<1>7. \A i \in 1..Len(stack') : Settled(stack'[i].cpu, i - 1, env', stack')
  <2>1. \A i \in 1..Len(stack) : Settled(stack'[i].cpu, i - 1, env, stack')
    BY <1>2, <1>3, FramesStay
  <2>2. Settled(stack'[Len(stack) + 1].cpu, Len(stack), env, stack')
    BY <1>1, <1>2 DEF Settled
  <2> QED
    BY <1>2, <1>3, <2>1, <2>2 DEF Call
<1> QED
  BY <1>4, <1>5, <1>6, <1>7 DEF JumpInv

(***************************************************************************)
(* What a handler interrupts is kept in its frame, waits cut short.        *)
(***************************************************************************)
LEMMA InterruptedTyped ==
  ASSUME cpu \in Cpu
  PROVE  /\ Interrupted(cpu) \in Cpu
         /\ Interrupted(cpu).at \in {"setjmp", "longjmp"} => Interrupted(cpu).at = cpu.at
         /\ Interrupted(cpu).goal = cpu.goal
         /\ Interrupted(cpu).reg = cpu.reg
BY DEF Interrupted, Cpu, Codes, Places, Unknown

LEMMA DeliverTyped ==
  ASSUME TypeOK, NEW s \in Signals, Deliver(s), UNCHANGED libVars
  PROVE  TypeOK'
<1> USE DEF TypeOK, KernelTypeOK, libVars
<1>1. pending' \in SUBSET Signals /\ UNCHANGED disp
  BY DEF Deliver
<1>2. CASE UNCHANGED <<mask, cpu, stack, opened>>
  BY <1>1, <1>2
<1>3. CASE End /\ UNCHANGED <<mask, stack, opened>>
  BY <1>1, <1>3 DEF End, Cpu, Codes, Places, Unknown
<1>4. CASE disp[s].handler = "function"
  <2> DEFINE adds == disp[s].mask \cup {s}
             f == [sig |-> s, mask |-> mask, adds |-> adds,
                   own |-> own, opened |-> opened, cpu |-> Interrupted(cpu)]
  <2>1. adds \in SUBSET Signals
    OBVIOUS
  <2>2. f \in Frame
    BY <2>1, InterruptedTyped DEF Frame
  <2>3. /\ stack' = Append(stack, f)
        /\ mask' = mask \cup adds /\ opened' = opened \ adds
        /\ Len(stack) < MaxDepth
        /\ cpu' = [cpu EXCEPT !.at = "user", !.code = 0, !.ip = Handler,
                              !.told = Unknown, !.goal = Nowhere]
    BY <1>4 DEF Deliver
  <2>4. cpu' \in Cpu
    BY <2>3 DEF Cpu, Codes, Places, Unknown
  <2> HIDE DEF f, adds
  <2>5. stack' \in Seq(Frame) /\ Len(stack') <= MaxDepth
    BY <2>2, <2>3
  <2> QED
    BY <1>1, <2>1, <2>3, <2>4, <2>5
<1> QED
  BY <1>2, <1>3, <1>4 DEF Deliver

LEMMA DeliverKeepsJump ==
  ASSUME JumpInv, NEW s \in Signals, Deliver(s), UNCHANGED libVars
  PROVE  JumpInv'
<1> USE DEF TypeOK, KernelTypeOK, libVars
<1>1. TypeOK'
  BY DeliverTyped DEF JumpInv
<1>2. CASE UNCHANGED stack
  <2>1. cpu'.at = "ended" \/ UNCHANGED cpu
    <3>1. disp[s].handler # "function"
      BY <1>2, Pushed DEF Deliver, JumpInv
    <3> QED
      BY <3>1 DEF Deliver, End, JumpInv, Cpu
  <2> QED
    BY <1>1, <1>2, <2>1, QuietKeepsJump
<1>3. CASE disp[s].handler = "function"
  <2> DEFINE f == [sig |-> s, mask |-> mask, adds |-> disp[s].mask \cup {s},
                   own |-> own, opened |-> opened, cpu |-> Interrupted(cpu)]
  <2>1. f \in Frame
    BY InterruptedTyped DEF Frame, JumpInv
  <2>2. /\ stack' = Append(stack, f)
        /\ cpu'.at = "user"
    BY <1>3 DEF Deliver, JumpInv, Cpu
  <2>3. f.cpu = Interrupted(cpu)
    OBVIOUS
  <2> HIDE DEF f
  <2>4. /\ Len(stack') = Len(stack) + 1
        /\ stack'[Len(stack) + 1] = f
        /\ \A i \in 1..Len(stack) : stack'[i] = stack[i]
        /\ Len(stack) \in Nat
    BY <2>1, <2>2, Pushed DEF JumpInv
  <2>5. EnvOK'
    BY <2>4 DEF JumpInv, EnvOK, JmpBuf
  <2>6. Settled(cpu', Len(stack'), env', stack')
    BY <2>2 DEF Settled
  <2>7. \A i \in 1..Len(stack) : Settled(stack'[i].cpu, i - 1, env', stack')
    BY <2>4, FramesStay
  <2>8. Settled(f.cpu, Len(stack), env', stack')
    <3>1. Settled(cpu, Len(stack), env, stack')
      BY <2>4, SettledStays DEF JumpInv
    <3> QED
      BY <2>3, <3>1, InterruptedTyped DEF JumpInv, Settled
  <2>9. \A i \in 1..Len(stack') : Settled(stack'[i].cpu, i - 1, env', stack')
    BY <2>4, <2>7, <2>8
  <2> QED
    BY <1>1, <2>5, <2>6, <2>9 DEF JumpInv
<1> QED
  BY <1>2, <1>3 DEF Deliver

(***************************************************************************)
(* A setjmp takes over a jmp_buf that no interrupted setjmp is writing.    *)
(***************************************************************************)
LEMMA SetjmpKeepsJump ==
  ASSUME JumpInv, setjmp
  PROVE  JumpInv'
<1> USE DEF TypeOK, KernelTypeOK
<1>1. Len(stack) \in Nat /\ Len(stack) < MaxDepth
  BY DEF JumpInv, setjmp
<1>2. /\ CallFrame(cpu) \in Frame
      /\ CallFrame(cpu).sig = 0
      /\ CallFrame(cpu).cpu.at = "user"
  BY CallFrameTyped DEF JumpInv, setjmp, CallFrame, Cpu
<1>3. /\ stack' \in Seq(Frame)
      /\ Len(stack') = Len(stack) + 1
      /\ stack'[Len(stack) + 1] = CallFrame(cpu)
      /\ \A i \in 1..Len(stack) : stack'[i] = stack[i]
  BY <1>2, Pushed DEF JumpInv, setjmp
<1>4. /\ env' = [reg |-> cpu.reg, ip |-> cpu.ip, rsp |-> Len(stack) + 1, ready |-> FALSE]
      /\ env' \in JmpBuf
      /\ env' # Nowhere
      /\ point' = [reg |-> cpu.reg, ip |-> cpu.ip, depth |-> Len(stack)]
      /\ point' \in Points
      /\ point' # Nowhere
  <2>1. /\ env' = [reg |-> cpu.reg, ip |-> cpu.ip, rsp |-> Len(stack) + 1, ready |-> FALSE]
        /\ point' = [reg |-> cpu.reg, ip |-> cpu.ip, depth |-> Len(stack)]
    BY DEF setjmp
  <2>2. /\ cpu.reg \in Registers
        /\ cpu.ip \in Sites
        /\ Len(stack) + 1 \in 1..MaxDepth
        /\ Len(stack) \in 0..MaxDepth
    BY <1>1 DEF JumpInv, Cpu
  <2>3. env' \in JmpBuf /\ point' \in Points
    BY <2>1, <2>2 DEF JmpBuf, Points
  <2> QED
    BY <2>1, <2>3
<1>5. cpu' \in Cpu /\ cpu'.at = "setjmp"
  BY DEF JumpInv, setjmp, Cpu, Places
<1>6. TypeOK'
  BY <1>1, <1>3, <1>4, <1>5 DEF JumpInv, setjmp
<1>7. EnvOK'
  BY <1>1, <1>3, <1>4 DEF EnvOK
<1>8. Settled(cpu', Len(stack'), env', stack')
  BY <1>1, <1>2, <1>3, <1>4, <1>5 DEF Settled
<1>9. \A i \in 1..Len(stack') : Settled(stack'[i].cpu, i - 1, env', stack')
  <2>1. \A i \in 1..Len(stack) : Settled(stack'[i].cpu, i - 1, env, stack')
    BY <1>1, <1>3, FramesStay
  <2>2. \A i \in 1..Len(stack) : stack'[i].cpu.at # "setjmp"
    BY <2>1 DEF Settled, setjmp
  <2>3. env'.rsp = Len(stack) + 1
    BY <1>4
  <2>4. \A i \in 1..Len(stack) : Settled(stack'[i].cpu, i - 1, env', stack')
    BY <1>1, <2>1, <2>2, <2>3 DEF Settled
  <2>5. Settled(stack'[Len(stack) + 1].cpu, Len(stack), env', stack')
    BY <1>2, <1>3 DEF Settled
  <2> QED
    BY <1>1, <1>3, <2>4, <2>5
<1> QED
  BY <1>6, <1>7, <1>8, <1>9 DEF JumpInv

(***************************************************************************)
(* Returns.  A jmp_buf that is not given up is that of a frame that stays. *)
(***************************************************************************)
LEMMA PopKeepsJump ==
  ASSUME JumpInv, stack # <<>>, stack' = Popped, TypeOK',
         GiveUp, cpu'.at = "user" \/ cpu' = Top.cpu
  PROVE  JumpInv'
<1> USE DEF TypeOK, KernelTypeOK
<1>1. /\ Len(stack) \in Nat \ {0}
      /\ Len(stack') = Len(stack) - 1
      /\ \A i \in 1..Len(stack) - 1 : stack'[i] = stack[i]
  BY PoppedFrame DEF JumpInv
<1>2. \/ env # Nowhere /\ env.rsp > Len(stack) /\ env' = Nowhere
      \/ (env # Nowhere => env.rsp <= Len(stack)) /\ UNCHANGED <<env, point>>
  BY <1>1 DEF GiveUp, JumpInv, JmpBuf
<1>3. EnvOK'
  BY <1>1, <1>2 DEF EnvOK, JumpInv
<1>4. ASSUME NEW c, NEW n \in 0..Len(stack) - 1, Settled(c, n, env, stack')
      PROVE  Settled(c, n, env', stack')
  BY <1>1, <1>2, <1>4 DEF Settled, JumpInv, JmpBuf
<1>5. \A i \in 1..Len(stack') : Settled(stack'[i].cpu, i - 1, env', stack')
  <2>1. \A i \in 1..Len(stack) - 1 : Settled(stack'[i].cpu, i - 1, env, stack')
    BY <1>1, FramesStay
  <2> QED
    BY <1>1, <1>4, <2>1
<1>6. Settled(cpu', Len(stack'), env', stack')
  <2>1. CASE cpu'.at = "user"
    BY <2>1 DEF Settled
  <2>2. CASE cpu' = Top.cpu
    <3>1. Settled(stack[Len(stack)].cpu, Len(stack) - 1, env, stack)
      BY <1>1 DEF JumpInv
    <3>2. Settled(cpu', Len(stack) - 1, env, stack')
      BY <1>1, <2>2, <3>1, SettledStays DEF Top
    <3> QED
      BY <1>1, <1>4, <3>2
  <2> QED
    BY <2>1, <2>2
<1> QED
  BY <1>3, <1>5, <1>6 DEF JumpInv

LEMMA ReturnKeepsJump ==
  ASSUME JumpInv, Return \/ sigreturn
  PROVE  JumpInv'
<1> USE DEF TypeOK, KernelTypeOK
<1>1. /\ stack # <<>> /\ stack' = Popped /\ GiveUp
      /\ UNCHANGED <<pending, disp, errno>>
  BY DEF Return, sigreturn, rt_sigreturn
<1>2. /\ Top \in Frame
      /\ stack' \in Seq(Frame)
      /\ Len(stack) \in Nat \ {0}
      /\ Len(stack') = Len(stack) - 1
  BY <1>1, PoppedFrame DEF JumpInv
<1>3. /\ cpu' \in Cpu /\ mask' \in SUBSET Signals
      /\ own' \in SUBSET Signals /\ opened' \in SUBSET Signals
  BY <1>2 DEF JumpInv, Return, sigreturn, rt_sigreturn, Frame, Cpu
<1>4. cpu'.at = "user" \/ cpu' = Top.cpu
  BY DEF JumpInv, Return, sigreturn, rt_sigreturn, Cpu
<1>5. /\ env' \in JmpBuf \cup {Nowhere}
      /\ point' \in Points \cup {Nowhere}
  BY <1>1 DEF JumpInv, GiveUp
<1>6. TypeOK'
  BY <1>1, <1>2, <1>3, <1>5 DEF JumpInv
<1> QED
  BY <1>1, <1>4, <1>6, PopKeepsJump

LEMMA SetjmpReturnsKeepsJump ==
  ASSUME JumpInv, SetjmpReturns
  PROVE  JumpInv'
<1> USE DEF TypeOK, KernelTypeOK
<1>1. env \in JmpBuf /\ ~env.ready /\ env.rsp = Len(stack) /\ Len(stack) \in Nat \ {0}
  BY DEF JumpInv, Settled, SetjmpReturns, JmpBuf
<1>2. /\ Top \in Frame
      /\ stack' \in Seq(Frame)
      /\ Len(stack') = Len(stack) - 1
      /\ \A i \in 1..Len(stack) - 1 : stack'[i] = stack[i]
  BY <1>1, PoppedFrame DEF JumpInv, SetjmpReturns
<1>3. /\ env' \in JmpBuf
      /\ env' # Nowhere
      /\ env'.reg = env.reg /\ env'.ip = env.ip /\ env'.rsp = env.rsp
  BY <1>1 DEF SetjmpReturns, JmpBuf
<1>4. cpu' \in Cpu /\ cpu'.at = "user"
  BY DEF JumpInv, SetjmpReturns, Cpu, Places
<1>5. TypeOK'
  BY <1>1, <1>2, <1>3, <1>4 DEF JumpInv, SetjmpReturns
<1>6. EnvOK'
  BY <1>1, <1>2, <1>3 DEF JumpInv, EnvOK, SetjmpReturns
<1>7. Settled(cpu', Len(stack'), env', stack')
  BY <1>4 DEF Settled
<1>8. \A i \in 1..Len(stack') : Settled(stack'[i].cpu, i - 1, env', stack')
  <2>1. \A i \in 1..Len(stack) - 1 : Settled(stack'[i].cpu, i - 1, env, stack')
    <3>1. Len(stack) - 1 \in 0..Len(stack)
      BY <1>1
    <3> QED
      BY <1>2, <3>1, FramesStay
  <2>2. \A i \in 1..Len(stack) - 1 : stack'[i].cpu.at # "setjmp"
    BY <1>1, <2>1 DEF Settled
  <2>3. ASSUME NEW i \in 1..Len(stack) - 1
        PROVE  Settled(stack'[i].cpu, i - 1, env', stack')
    <3>1. Settled(stack'[i].cpu, i - 1, env, stack') /\ stack'[i].cpu.at # "setjmp"
      BY <2>1, <2>2
    <3> QED
      BY <1>1, <1>3, <3>1 DEF Settled
  <2> QED
    BY <1>1, <1>2, <2>3
<1> QED
  BY <1>5, <1>6, <1>7, <1>8 DEF JumpInv

LEMMA LongjmpKeepsJump ==
  ASSUME JumpInv, longjmp
  PROVE  JumpInv'
<1> USE DEF TypeOK, KernelTypeOK
<1>1. /\ env \in JmpBuf /\ env # Nowhere /\ env.rsp - 1 <= Len(stack)
      /\ env.rsp \in Nat \ {0} /\ Len(stack) \in Nat
      /\ point \in Points /\ env.reg = point.reg /\ env.ip = point.ip
      /\ env.rsp = point.depth + 1
      /\ UNCHANGED <<env, point>>
  BY DEF JumpInv, EnvOK, longjmp, JmpBuf
<1>2. /\ stack' \in Seq(Frame)
      /\ Len(stack') = env.rsp
      /\ stack'[env.rsp].sig = 0
      /\ stack'[env.rsp].cpu.ip = env.ip
      /\ stack'[env.rsp].cpu.at = "user"
      /\ \A i \in 1..env.rsp - 1 : stack'[i] = stack[i]
  BY <1>1, JumpCuts DEF JumpInv, longjmp
<1>3. /\ cpu' \in Cpu /\ cpu'.at = "longjmp"
      /\ cpu'.reg = env.reg /\ cpu'.goal = point
  BY <1>1 DEF JumpInv, longjmp, Cpu, Places, JmpBuf
<1>4. TypeOK'
  <2>1. env.rsp <= MaxDepth
    BY <1>1 DEF JmpBuf
  <2>2. own' \in SUBSET Signals /\ opened' \in SUBSET Signals
    <3>1. Len(stack) \in 0..Len(stack)
      BY <1>1
    <3>2. Added(env.rsp, Len(stack)) \in SUBSET Signals
      BY <1>1, <3>1, AddedTyped DEF JumpInv
    <3> QED
      BY <3>2 DEF JumpInv, longjmp
  <2> QED
    BY <1>1, <1>2, <1>3, <2>1, <2>2 DEF JumpInv, longjmp
<1>5. EnvOK'
  BY <1>1, <1>2 DEF JumpInv, EnvOK
<1>6. Settled(cpu', Len(stack'), env', stack')
  BY <1>1, <1>2, <1>3 DEF Settled
<1>7. \A i \in 1..Len(stack') : Settled(stack'[i].cpu, i - 1, env', stack')
  <2>1. \A i \in 1..env.rsp - 1 : Settled(stack'[i].cpu, i - 1, env, stack')
    BY <1>1, <1>2, FramesStay
  <2>2. Settled(stack'[env.rsp].cpu, env.rsp - 1, env, stack')
    BY <1>2 DEF Settled
  <2> QED
    BY <1>1, <1>2, <2>1, <2>2
<1> QED
  BY <1>4, <1>5, <1>6, <1>7 DEF JumpInv

LEMMA LandKeepsJump ==
  ASSUME JumpInv, Land
  PROVE  JumpInv'
<1> USE DEF TypeOK, KernelTypeOK
<1>1. Settled(cpu, Len(stack), env, stack) /\ cpu.at = "longjmp"
  BY DEF JumpInv, Land
<1>2. Len(stack) \in Nat \ {0}
  BY <1>1 DEF JumpInv, Settled, Points
<1>3. /\ Top \in Frame
      /\ stack' \in Seq(Frame)
      /\ Len(stack') = Len(stack) - 1
      /\ \A i \in 1..Len(stack) - 1 : stack'[i] = stack[i]
  BY <1>2, PoppedFrame DEF JumpInv, Land
<1>4. cpu' \in Cpu /\ cpu'.at = "user"
  BY <1>3 DEF JumpInv, Land, Cpu, Frame, Places, Unknown
<1>5. TypeOK'
  BY <1>2, <1>3, <1>4 DEF JumpInv, Land, libVars
<1>6. EnvOK'
  <2>1. env # Nowhere => env.rsp <= Len(stack)
    BY <1>1, <1>2 DEF JumpInv, EnvOK, Settled, JmpBuf
  <2> QED
    BY <1>2, <1>3, <2>1 DEF JumpInv, EnvOK, Land, libVars
<1>7. Settled(cpu', Len(stack'), env', stack')
  BY <1>4 DEF Settled
<1>8. \A i \in 1..Len(stack') : Settled(stack'[i].cpu, i - 1, env', stack')
  <2>1. env' = env
    BY DEF Land, libVars
  <2>2. Len(stack) - 1 \in 0..Len(stack)
    BY <1>2
  <2>3. \A i \in 1..Len(stack) - 1 : Settled(stack'[i].cpu, i - 1, env, stack')
    BY <1>3, <2>2, FramesStay
  <2> QED
    BY <1>3, <2>1, <2>3
<1> QED
  BY <1>5, <1>6, <1>7, <1>8 DEF JumpInv

LEMMA NextKeepsJump ==
  ASSUME JumpInv, Next
  PROVE  JumpInv'
<1>1. CASE QuietStep
  BY <1>1, QuietTyped, QuietKeepsJump DEF JumpInv
<1>2. CASE Call
  BY <1>2, CallKeepsJump
<1>3. CASE \E s \in Signals : Deliver(s) /\ UNCHANGED libVars
  BY <1>3, DeliverKeepsJump
<1>4. CASE Return \/ sigreturn
  BY <1>4, ReturnKeepsJump
<1>5. CASE setjmp
  BY <1>5, SetjmpKeepsJump
<1>6. CASE SetjmpReturns
  BY <1>6, SetjmpReturnsKeepsJump
<1>7. CASE longjmp
  BY <1>7, LongjmpKeepsJump
<1>8. CASE Land
  BY <1>8, LandKeepsJump
<1>9. ASSUME NEW s \in Signals, NEW handler \in Handlers, signal(s, handler)
      PROVE  QuietStep
  BY <1>9 DEF signal, QuietStep
<1>10. ASSUME NEW a \in Sigactions, sigaction(a[1], a[2], a[3])
       PROVE  QuietStep
  BY <1>10, ProgramAssumption DEF QuietStep
<1>11. ASSUME NEW how \in {"SIG_BLOCK", "SIG_UNBLOCK", "SIG_SETMASK"}, NEW w \in Words,
              sigprocmask(how, w[1], w[2])
       PROVE  QuietStep
  BY <1>11, ProgramAssumption DEF QuietStep
<1> QED
  BY <1>1, <1>2, <1>3, <1>4, <1>5, <1>6, <1>7, <1>8, <1>9, <1>10, <1>11
     DEF Next, Library, Program, Kernel, QuietStep

LEMMA StutterKeepsJump ==
  ASSUME JumpInv, UNCHANGED vars
  PROVE  JumpInv'
<1> USE DEF vars, kernelVars, libVars
<1>1. TypeOK'
  BY DEF JumpInv, TypeOK, KernelTypeOK
<1> QED
  BY <1>1, QuietKeepsJump

(***************************************************************************)
(* Every reachable state of a program on libmini is well typed: the stack  *)
(* that longjmp and the returns read is always there.                      *)
(***************************************************************************)
THEOREM JumpInvariant == Spec => []JumpInv
<1>1. JumpInv /\ [Next]_vars => JumpInv'
  BY NextKeepsJump, StutterKeepsJump
<1> QED
  BY InitJump, <1>1, PTL DEF Spec

THEOREM TypeCorrect == Spec => []TypeOK
<1>1. JumpInv => TypeOK
  BY DEF JumpInv
<1> QED
  BY <1>1, JumpInvariant, PTL

(***************************************************************************)
(* longjmp (libmini64.asm:112-134) arrives where setjmp was called.        *)
(***************************************************************************)
THEOREM JumpsLand == Spec => []JumpLands
<1>1. JumpInv => JumpLands
  BY DEF JumpInv, JumpLands, Settled, Top
<1> QED
  BY <1>1, JumpInvariant, PTL

(***************************************************************************)
(* The union of what the first n frames add.                               *)
(***************************************************************************)
AddedIn(s, n) == UNION {s[i].adds : i \in 1..n}

LEMMA AddedSame ==
  ASSUME NEW s, NEW t, NEW n \in Nat, \A i \in 1..n : s[i] = t[i]
  PROVE  AddedIn(s, n) = AddedIn(t, n)
BY DEF AddedIn

LEMMA AddedOne ==
  ASSUME NEW s, NEW n \in Nat
  PROVE  AddedIn(s, n + 1) = AddedIn(s, n) \cup s[n + 1].adds
BY DEF AddedIn

(***************************************************************************)
(* MaskKnown, and the same of the masks that handlers will restore; and a  *)
(* handler's signal, which it adds, was not blocked when it was delivered. *)
(***************************************************************************)
Known(m, o, a, op) == m = o \cup (a \ op)

FrameKnown(f, a) ==
  /\ f.sig = 0 => f.adds = {}
  /\ f.sig # 0 => f.sig \in f.adds \ f.mask /\ Known(f.mask, f.own, a, f.opened)

MaskInv ==
  /\ Known(mask, own, AddedIn(stack, Len(stack)), opened)
  /\ \A i \in 1..Len(stack) : FrameKnown(stack[i], AddedIn(stack, i - 1))

LEMMA WordMeans ==
  ASSUME NEW full \in BOOLEAN, NEW s \in Signals
  PROVE  InKernel(Word(full, s)) = Meant(full, s)
BY DEF InKernel, Word, Meant, sigaddset, sigdelset, sigemptyset, sigfillset, InRange,
       Bit, Signals

LEMMA MaskQuiet ==
  ASSUME MaskInv, UNCHANGED <<stack, mask, own, opened>>
  PROVE  MaskInv'
BY DEF MaskInv

LEMMA MaskPushed ==
  ASSUME TypeOK, MaskInv, NEW f \in Frame, stack' = Append(stack, f),
         own' = own, mask' = mask \cup f.adds, opened' = opened \ f.adds,
         FrameKnown(f, AddedIn(stack, Len(stack)))
  PROVE  MaskInv'
<1>1. /\ Len(stack) \in Nat
      /\ Len(stack') = Len(stack) + 1
      /\ stack'[Len(stack) + 1] = f
      /\ \A i \in 1..Len(stack) : stack'[i] = stack[i]
  BY Pushed DEF TypeOK, KernelTypeOK
<1>2. ASSUME NEW i \in 0..Len(stack)
      PROVE  AddedIn(stack', i) = AddedIn(stack, i)
  <2>1. i \in Nat /\ \A k \in 1..i : stack'[k] = stack[k]
    BY <1>1
  <2> QED
    BY <2>1, AddedSame
<1>3. AddedIn(stack', Len(stack')) = AddedIn(stack, Len(stack)) \cup f.adds
  <2>1. AddedIn(stack', Len(stack) + 1)
          = AddedIn(stack', Len(stack)) \cup stack'[Len(stack) + 1].adds
    BY <1>1, AddedOne
  <2>2. AddedIn(stack', Len(stack)) = AddedIn(stack, Len(stack))
    BY <1>1, <1>2
  <2> QED
    BY <1>1, <2>1, <2>2
<1>4. Known(mask', own', AddedIn(stack', Len(stack')), opened')
  BY <1>3 DEF MaskInv, Known
<1>5. ASSUME NEW i \in 1..Len(stack')
      PROVE  FrameKnown(stack'[i], AddedIn(stack', i - 1))
  <2>1. CASE i \in 1..Len(stack)
    <3>1. AddedIn(stack', i - 1) = AddedIn(stack, i - 1)
      BY <1>1, <1>2, <2>1
    <3> QED
      BY <1>1, <2>1, <3>1 DEF MaskInv
  <2>2. CASE i = Len(stack) + 1
    <3>1. AddedIn(stack', i - 1) = AddedIn(stack, Len(stack))
      BY <1>1, <1>2, <2>2
    <3> QED
      BY <1>1, <2>2, <3>1
  <2> QED
    BY <1>1, <2>1, <2>2
<1> QED
  BY <1>4, <1>5 DEF MaskInv

(* The frames above the n-th go, and what they added is dealt with.        *)
LEMMA MaskCut ==
  ASSUME MaskInv, Len(stack) \in Nat, NEW n \in 0..Len(stack),
         \/ Len(stack') = n
         \/ Len(stack') = n + 1 /\ stack'[n + 1].sig = 0 /\ stack'[n + 1].adds = {},
         \A i \in 1..n : stack'[i] = stack[i],
         Known(mask', own', AddedIn(stack, n), opened')
  PROVE  MaskInv'
<1>1. ASSUME NEW i \in 0..n
      PROVE  AddedIn(stack', i) = AddedIn(stack, i)
  <2>1. i \in Nat /\ \A k \in 1..i : stack'[k] = stack[k]
    OBVIOUS
  <2> QED
    BY <2>1, AddedSame
<1>2. AddedIn(stack', Len(stack')) = AddedIn(stack, n)
  <2>1. CASE Len(stack') = n
    BY <1>1, <2>1
  <2>2. CASE Len(stack') = n + 1 /\ stack'[n + 1].sig = 0 /\ stack'[n + 1].adds = {}
    <3>1. AddedIn(stack', n + 1) = AddedIn(stack', n) \cup stack'[n + 1].adds
      <4>1. n \in Nat
        OBVIOUS
      <4> QED
        BY <4>1, AddedOne
    <3>2. AddedIn(stack', n) = AddedIn(stack, n)
      BY <1>1
    <3> QED
      BY <2>2, <3>1, <3>2
  <2> QED
    BY <2>1, <2>2
<1>3. ASSUME NEW i \in 1..Len(stack')
      PROVE  FrameKnown(stack'[i], AddedIn(stack', i - 1))
  <2>1. CASE i \in 1..n
    <3>1. FrameKnown(stack[i], AddedIn(stack, i - 1))
      BY <2>1 DEF MaskInv
    <3>2. AddedIn(stack', i - 1) = AddedIn(stack, i - 1)
      BY <1>1, <2>1
    <3>3. stack'[i] = stack[i]
      BY <2>1
    <3> QED
      BY <3>1, <3>2, <3>3
  <2>2. CASE stack'[i].sig = 0 /\ stack'[i].adds = {}
    BY <2>2 DEF FrameKnown
  <2> QED
    BY <2>1, <2>2
<1> QED
  BY <1>2, <1>3 DEF MaskInv

(***************************************************************************)
(* Each step keeps it.                                                     *)
(***************************************************************************)
LEMMA CallFrameKnown ==
  ASSUME NEW c, NEW a
  PROVE  FrameKnown(CallFrame(c), a) /\ CallFrame(c).adds = {}
BY DEF FrameKnown, CallFrame

LEMMA ProcmaskKeepsMask ==
  ASSUME TypeOK, MaskInv, NEW how \in {"SIG_BLOCK", "SIG_UNBLOCK", "SIG_SETMASK"},
         NEW full \in BOOLEAN, NEW s \in Signals, sigprocmask(how, full, s)
  PROVE  MaskInv'
<1> DEFINE a == AddedIn(stack, Len(stack))
           set == Meant(full, s)
<1>1. UNCHANGED stack /\ mask' = Masked(how, set)
  BY WordMeans DEF sigprocmask
<1>2. a = Added(1, Len(stack))
  BY DEF Added, AddedIn
<1>3. Known(mask, own, a, opened)
  BY DEF MaskInv
<1>4. \/ how = "SIG_BLOCK" /\ own' = own \cup set /\ opened' = opened \ set
      \/ how = "SIG_UNBLOCK" /\ own' = own \ set /\ opened' = (opened \cup set) \cap a
      \/ how = "SIG_SETMASK" /\ own' = set /\ opened' = a \ set
  BY <1>2 DEF sigprocmask
<1> HIDE DEF a, set
<1>5. Known(mask', own', a, opened')
  BY <1>1, <1>3, <1>4 DEF Known, Masked
<1> QED
  BY <1>1, <1>5 DEF MaskInv, a

LEMMA DeliverKeepsMask ==
  ASSUME TypeOK, MaskInv, NEW s \in Signals, Deliver(s), UNCHANGED libVars
  PROVE  MaskInv'
<1>1. CASE UNCHANGED <<mask, stack, opened>>
  BY <1>1, MaskQuiet DEF libVars
<1>2. CASE disp[s].handler = "function"
  <2> DEFINE f == [sig |-> s, mask |-> mask, adds |-> disp[s].mask \cup {s},
                   own |-> own, opened |-> opened, cpu |-> Interrupted(cpu)]
  <2>1. f \in Frame
    BY InterruptedTyped DEF Frame, TypeOK, KernelTypeOK
  <2>2. /\ stack' = Append(stack, f) /\ mask' = mask \cup f.adds
        /\ opened' = opened \ f.adds /\ own' = own /\ s \notin mask
    BY <1>2 DEF Deliver, libVars
  <2>3. /\ f.sig = s /\ f.mask = mask /\ f.own = own /\ f.opened = opened
        /\ s \in f.adds /\ s # 0
    BY DEF Signals
  <2> HIDE DEF f
  <2>4. FrameKnown(f, AddedIn(stack, Len(stack)))
    BY <2>2, <2>3 DEF FrameKnown, MaskInv
  <2> QED
    BY <2>1, <2>2, <2>4, MaskPushed
<1> QED
  BY <1>1, <1>2 DEF Deliver

LEMMA PushKeepsMask ==
  ASSUME TypeOK, MaskInv, Call \/ setjmp
  PROVE  MaskInv'
<1>1. /\ stack' = Append(stack, CallFrame(cpu))
      /\ UNCHANGED <<mask, own, opened>>
  BY DEF Call, setjmp, libVars
<1>2. CallFrame(cpu) \in Frame
  BY CallFrameTyped DEF TypeOK, KernelTypeOK
<1>3. /\ FrameKnown(CallFrame(cpu), AddedIn(stack, Len(stack)))
      /\ mask' = mask \cup CallFrame(cpu).adds
      /\ opened' = opened \ CallFrame(cpu).adds
  BY <1>1, CallFrameKnown
<1> QED
  BY <1>1, <1>2, <1>3, MaskPushed

LEMMA PopKeepsMask ==
  ASSUME TypeOK, MaskInv, stack # <<>>, stack' = Popped,
         \/ Top.sig = 0 /\ UNCHANGED <<mask, own, opened>>
         \/ Top.sig # 0 /\ mask' = Top.mask /\ own' = Top.own /\ opened' = Top.opened
  PROVE  MaskInv'
<1>1. /\ Len(stack) \in Nat \ {0}
      /\ Len(stack') = Len(stack) - 1
      /\ \A i \in 1..Len(stack) - 1 : stack'[i] = stack[i]
  BY PoppedFrame DEF TypeOK, KernelTypeOK
<1> DEFINE n == Len(stack) - 1
<1>2. n \in 0..Len(stack) /\ n + 1 = Len(stack) /\ n \in Nat
  BY <1>1
<1>3. FrameKnown(Top, AddedIn(stack, n))
  BY <1>1 DEF MaskInv, Top
<1>4. Known(mask', own', AddedIn(stack, n), opened')
  <2>1. CASE Top.sig = 0
    <3>1. AddedIn(stack, n + 1) = AddedIn(stack, n) \cup stack[n + 1].adds
      BY <1>2, AddedOne
    <3>2. stack[n + 1].adds = {}
      BY <1>2, <1>3, <2>1 DEF FrameKnown, Top
    <3>3. Known(mask, own, AddedIn(stack, n + 1), opened)
      BY <1>2 DEF MaskInv
    <3> QED
      BY <2>1, <3>1, <3>2, <3>3
  <2>2. CASE Top.sig # 0
    BY <1>3, <2>2 DEF FrameKnown
  <2> QED
    BY <2>1, <2>2
<1> QED
  BY <1>1, <1>2, <1>4, MaskCut

(* A jump leaves blocked what the handlers it leaves have added.           *)
LEMMA LongjmpKeepsMask ==
  ASSUME JumpInv, MaskInv, longjmp
  PROVE  MaskInv'
<1>1. /\ env \in JmpBuf /\ env.rsp - 1 \in 0..Len(stack)
      /\ env.rsp \in Nat \ {0} /\ Len(stack) \in Nat
      /\ stack \in Seq(Frame) /\ cpu \in Cpu
      /\ stack' = JumpStack /\ mask' = mask
  BY DEF JumpInv, EnvOK, TypeOK, KernelTypeOK, longjmp, JmpBuf
<1> DEFINE n == env.rsp - 1
           go == Added(env.rsp, Len(stack))
<1>2. /\ Len(stack') = n + 1
      /\ stack'[n + 1].sig = 0
      /\ stack'[n + 1].adds = {}
      /\ \A i \in 1..n : stack'[i] = stack[i]
  BY <1>1, JumpCuts
<1>3. own' = own \cup (go \ opened) /\ opened' = opened \cap AddedIn(stack, n)
  BY DEF longjmp, Added, AddedIn
<1>4. AddedIn(stack, Len(stack)) = AddedIn(stack, n) \cup go
  BY <1>1 DEF Added, AddedIn
<1>5. Known(mask, own, AddedIn(stack, Len(stack)), opened)
  BY DEF MaskInv
<1> HIDE DEF go
<1>6. Known(mask', own', AddedIn(stack, n), opened')
  BY <1>1, <1>3, <1>4, <1>5 DEF Known
<1> QED
  BY <1>1, <1>2, <1>6, MaskCut

LEMMA NextKeepsMask ==
  ASSUME JumpInv, MaskInv, Next
  PROVE  MaskInv'
<1>1. TypeOK
  BY DEF JumpInv
<1>2. CASE UNCHANGED <<stack, mask, own, opened>>
  BY <1>2, MaskQuiet
<1>3. CASE \E how \in {"SIG_BLOCK", "SIG_UNBLOCK", "SIG_SETMASK"}, full \in BOOLEAN,
              s \in Signals : sigprocmask(how, full, s)
  BY <1>1, <1>3, ProcmaskKeepsMask
<1>4. CASE \E s \in Signals : Deliver(s) /\ UNCHANGED libVars
  BY <1>1, <1>4, DeliverKeepsMask
<1>5. CASE Call \/ setjmp
  BY <1>1, <1>5, PushKeepsMask
<1>6. CASE Return \/ sigreturn
  BY <1>1, <1>6, PopKeepsMask DEF Return, sigreturn, rt_sigreturn
<1>7. CASE SetjmpReturns \/ Land
  <2>1. Len(stack) >= 1 /\ Top.sig = 0
    BY <1>7 DEF JumpInv, Settled, SetjmpReturns, Land, Top
  <2>2. stack # <<>> /\ stack' = Popped /\ UNCHANGED <<mask, own, opened>>
    BY <1>7, <2>1 DEF SetjmpReturns, Land, libVars
  <2> QED
    BY <1>1, <2>1, <2>2, PopKeepsMask
<1>8. CASE longjmp
  BY <1>8, LongjmpKeepsMask
<1>9. CASE QuietStep
  BY <1>2, <1>3, <1>9
     DEF QuietStep, Wrap, Syscall, sigaction_null, signal_refuses, sigaction, rt_sigaction,
         pause, sleep, Compute, exit, SleepEnds, Arrive, kernelVars, libVars
<1>10. ASSUME NEW s \in Signals, NEW handler \in Handlers, signal(s, handler)
       PROVE  QuietStep
  BY <1>10 DEF signal, QuietStep
<1>11. ASSUME NEW a \in Sigactions, sigaction(a[1], a[2], a[3])
       PROVE  QuietStep
  BY <1>11, ProgramAssumption DEF QuietStep
<1>12. ASSUME NEW how \in {"SIG_BLOCK", "SIG_UNBLOCK", "SIG_SETMASK"}, NEW w \in Words,
              sigprocmask(how, w[1], w[2])
       PROVE  QuietStep
  BY <1>12, ProgramAssumption DEF QuietStep
<1> QED
  BY <1>4, <1>5, <1>6, <1>7, <1>8, <1>9, <1>10, <1>11, <1>12
     DEF Next, Library, Program, Kernel, QuietStep

THEOREM MaskInvariant == Spec => []MaskInv
<1>1. Init => MaskInv
  BY DEF Init, KernelInit, MaskInv, Known, AddedIn
<1>2. JumpInv /\ MaskInv /\ [Next]_vars => MaskInv'
  <2>1. ASSUME MaskInv, UNCHANGED vars
        PROVE  MaskInv'
    BY <2>1, MaskQuiet DEF vars, kernelVars, libVars
  <2> QED
    BY <2>1, NextKeepsMask
<1> QED
  BY <1>1, <1>2, JumpInvariant, PTL DEF Spec

(***************************************************************************)
(* The mask after any number of handlers, nested in any way, with calls of *)
(* sigprocmask (libmini.c:62-65) in functions and handlers, is what these  *)
(* asked for and the running handlers add, with what jumps out of handlers *)
(* have left in it; the words of sigaddset and the others mean what they   *)
(* say.                                                                    *)
(***************************************************************************)
THEOREM MaskIsKnown == Spec => []MaskKnown
<1>1. MaskInv => MaskKnown
  BY DEF MaskInv, Known, MaskKnown, Added, AddedIn
<1> QED
  BY <1>1, MaskInvariant, PTL

(***************************************************************************)
(* A handler of a program on libmini runs inside itself only when the      *)
(* program has unblocked its signal in it with sigprocmask                 *)
(* (libmini.c:62-65), for any signals, words and nesting.                  *)
(***************************************************************************)
THEOREM HandlersNotReentered == Spec => []NotReentered
<1>1. TypeOK /\ MaskInv => NotReentered
  <2> SUFFICES ASSUME TypeOK, MaskInv, NEW i \in 1..Len(stack), NEW j \in 1..Len(stack),
                      i < j, stack[i].sig # 0, stack[i].sig = stack[j].sig
               PROVE  stack[j].sig \in stack[j].opened
    BY DEF NotReentered
  <2>1. Len(stack) \in Nat
    BY DEF TypeOK, KernelTypeOK
  <2>2. stack[i].sig \in stack[i].adds
    BY DEF MaskInv, FrameKnown
  <2>3. stack[j].sig \in AddedIn(stack, j - 1)
    BY <2>1, <2>2 DEF AddedIn
  <2>4. FrameKnown(stack[j], AddedIn(stack, j - 1))
    BY DEF MaskInv
  <2> QED
    BY <2>3, <2>4 DEF FrameKnown, Known
<1> QED
  BY <1>1, TypeCorrect, MaskInvariant, PTL

(***************************************************************************)
(* errno: whatever interrupts the running code, or is called by it, comes  *)
(* back to code that has been told nothing.                                *)
(***************************************************************************)
Forgets(n) == \A i \in 1..n : stack[i].cpu.told = Unknown

ErrnoInv ==
  /\ cpu.told # Unknown => errno = cpu.told
  /\ Forgets(Len(stack))

LEMMA ErrnoQuiet ==
  ASSUME ErrnoInv, UNCHANGED <<stack, errno>>, cpu'.told \in {cpu.told, Unknown}
  PROVE  ErrnoInv'
BY DEF ErrnoInv, Forgets

LEMMA ErrnoPushed ==
  ASSUME TypeOK, ErrnoInv, NEW f \in Frame, stack' = Append(stack, f),
         f.cpu.told = Unknown, errno' = errno, cpu'.told \in {cpu.told, Unknown}
  PROVE  ErrnoInv'
<1>1. Len(stack) \in Nat /\ stack \in Seq(Frame)
  BY DEF TypeOK, KernelTypeOK
<1>2. /\ Len(stack') = Len(stack) + 1
      /\ stack'[Len(stack) + 1] = f
      /\ \A i \in 1..Len(stack) : stack'[i] = stack[i]
  BY <1>1, Pushed
<1>3. Forgets(Len(stack))'
  BY <1>1, <1>2 DEF ErrnoInv, Forgets
<1> QED
  BY <1>3 DEF ErrnoInv

LEMMA ErrnoPopped ==
  ASSUME TypeOK, ErrnoInv, stack # <<>>, stack' = Popped, errno' = errno,
         cpu'.told \in {cpu.told, Unknown}
  PROVE  ErrnoInv'
<1>1. /\ Len(stack) \in Nat \ {0}
      /\ Len(stack') = Len(stack) - 1
      /\ \A i \in 1..Len(stack) - 1 : stack'[i] = stack[i]
  BY PoppedFrame DEF TypeOK, KernelTypeOK
<1>2. Forgets(Len(stack))'
  BY <1>1 DEF ErrnoInv, Forgets
<1> QED
  BY <1>2 DEF ErrnoInv

LEMMA LongjmpKeepsErrno ==
  ASSUME JumpInv, ErrnoInv, longjmp
  PROVE  ErrnoInv'
<1>1. /\ env \in JmpBuf /\ env.rsp - 1 <= Len(stack)
      /\ env.rsp \in Nat \ {0} /\ Len(stack) \in Nat
      /\ stack \in Seq(Frame) /\ cpu \in Cpu
      /\ stack' = JumpStack /\ errno' = errno
  BY DEF JumpInv, EnvOK, TypeOK, KernelTypeOK, longjmp, JmpBuf
<1>2. /\ Len(stack') = env.rsp
      /\ stack'[env.rsp].cpu.told = Unknown
      /\ \A i \in 1..env.rsp - 1 : stack'[i] = stack[i]
  BY <1>1, JumpCuts
<1>3. Forgets(Len(stack))'
  BY <1>1, <1>2 DEF ErrnoInv, Forgets
<1>4. cpu'.told = cpu.told
  BY <1>1 DEF longjmp, Cpu
<1> QED
  BY <1>1, <1>3, <1>4 DEF ErrnoInv

LEMMA NextKeepsErrno ==
  ASSUME JumpInv, ErrnoInv, Next
  PROVE  ErrnoInv'
<1>1. TypeOK /\ cpu \in Cpu /\ stack \in Seq(Frame)
  BY DEF JumpInv, TypeOK, KernelTypeOK
<1>2. CASE Wrap \/ signal_refuses
  <2>1. stack' = stack /\ errno' = cpu'.told
    BY <1>1, <1>2 DEF Wrap, signal_refuses, ErrnoOf, kernelVars, Cpu
  <2> QED
    BY <2>1 DEF ErrnoInv, Forgets
<1>3. ASSUME NEW s \in Signals, NEW handler, NEW set, sigaction(s, handler, set)
      PROVE  ErrnoInv'
  <2>1. UNCHANGED <<stack, errno>> /\ cpu'.told = cpu.told
    BY <1>1, <1>3 DEF sigaction, rt_sigaction, Returns, libVars, Cpu
  <2> QED
    BY <2>1, ErrnoQuiet
<1>4. ASSUME NEW s \in Signals, NEW handler \in Handlers, signal(s, handler)
      PROVE  ErrnoInv'
  BY <1>3, <1>4 DEF signal
<1>5. ASSUME NEW how, NEW full, NEW s, sigprocmask(how, full, s)
      PROVE  ErrnoInv'
  <2>1. UNCHANGED <<stack, errno>> /\ cpu'.told = cpu.told
    BY <1>1, <1>5 DEF sigprocmask, Returns, Cpu
  <2> QED
    BY <2>1, ErrnoQuiet
<1>6. CASE Syscall \/ sigaction_null \/ pause \/ sleep \/ exit \/ Compute
  <2>1. UNCHANGED <<stack, errno>> /\ cpu'.told \in {cpu.told, Unknown}
    BY <1>1, <1>6 DEF Syscall, sigaction_null, pause, sleep, exit, Compute, Returns, End,
                      kernelVars, libVars, Cpu
  <2> QED
    BY <2>1, ErrnoQuiet
<1>7. CASE (SleepEnds \/ \E s \in Signals : Arrive(s)) /\ UNCHANGED libVars
  <2>1. UNCHANGED <<stack, errno>> /\ cpu'.told = cpu.told
    BY <1>1, <1>7 DEF SleepEnds, Arrive, libVars, Cpu
  <2> QED
    BY <2>1, ErrnoQuiet
<1>8. ASSUME NEW s \in Signals, Deliver(s), UNCHANGED libVars
      PROVE  ErrnoInv'
  <2>1. errno' = errno /\ cpu'.told \in {cpu.told, Unknown}
    BY <1>1, <1>8 DEF Deliver, End, libVars, Cpu
  <2>2. CASE stack' = stack
    BY <2>1, <2>2, ErrnoQuiet
  <2>3. CASE disp[s].handler = "function"
    <3> DEFINE f == [sig |-> s, mask |-> mask, adds |-> disp[s].mask \cup {s},
                     own |-> own, opened |-> opened, cpu |-> Interrupted(cpu)]
    <3>1. f \in Frame
      BY <1>1, InterruptedTyped DEF Frame, TypeOK, KernelTypeOK
    <3>2. stack' = Append(stack, f)
      BY <1>8, <2>3 DEF Deliver
    <3>3. f.cpu.told = Unknown
      BY <1>1 DEF Interrupted, Cpu
    <3> HIDE DEF f
    <3> QED
      BY <1>1, <2>1, <3>1, <3>2, <3>3, ErrnoPushed
  <2> QED
    BY <1>8, <2>2, <2>3 DEF Deliver
<1>9. CASE Call \/ setjmp
  <2>1. /\ stack' = Append(stack, CallFrame(cpu))
        /\ errno' = errno
        /\ cpu'.told = cpu.told
    BY <1>1, <1>9 DEF Call, setjmp, libVars, Cpu
  <2>2. CallFrame(cpu) \in Frame /\ CallFrame(cpu).cpu.told = Unknown
    BY <1>1, CallFrameTyped DEF CallFrame, Cpu
  <2> QED
    BY <1>1, <2>1, <2>2, ErrnoPushed
<1>10. CASE Return \/ sigreturn
  <2>1. Len(stack) \in Nat \ {0} /\ Top.cpu.told = Unknown
    BY <1>1, <1>10 DEF Return, sigreturn, rt_sigreturn, ErrnoInv, Forgets, Top
  <2>2. stack # <<>> /\ stack' = Popped /\ errno' = errno
    BY <1>10 DEF Return, sigreturn, rt_sigreturn
  <2>3. cpu'.told \in {cpu.told, Unknown}
    BY <1>1, <1>10, <2>1 DEF Return, sigreturn, rt_sigreturn, Cpu
  <2> QED
    BY <1>1, <2>2, <2>3, ErrnoPopped
<1>11. CASE SetjmpReturns \/ Land
  <2>1. stack # <<>>
    BY <1>1, <1>11 DEF JumpInv, Settled, SetjmpReturns, Land
  <2>2. stack' = Popped /\ errno' = errno /\ cpu'.told \in {cpu.told, Unknown}
    BY <1>1, <1>11 DEF SetjmpReturns, Land, libVars, Cpu
  <2> QED
    BY <1>1, <2>1, <2>2, ErrnoPopped
<1>12. CASE longjmp
  BY <1>12, LongjmpKeepsErrno
<1>13. ASSUME NEW a \in Sigactions, sigaction(a[1], a[2], a[3])
       PROVE  ErrnoInv'
  BY <1>3, <1>13, ProgramAssumption
<1>14. ASSUME NEW how \in {"SIG_BLOCK", "SIG_UNBLOCK", "SIG_SETMASK"}, NEW w \in Words,
              sigprocmask(how, w[1], w[2])
       PROVE  ErrnoInv'
  BY <1>5, <1>14, ProgramAssumption
<1> QED
  BY <1>2, <1>4, <1>6, <1>7, <1>8, <1>9, <1>10, <1>11, <1>12, <1>13, <1>14
     DEF Next, Library, Program, Kernel

(***************************************************************************)
(* errno is that of the last call (libmini.c:5-18), for any errors and any *)
(* nesting of handlers between the system call and the assignment.         *)
(***************************************************************************)
THEOREM ErrnoIsOfCall == Spec => []ErrnoOfCall
<1>1. Init => ErrnoInv
  BY DEF Init, KernelInit, ErrnoInv, Forgets
<1>2. JumpInv /\ ErrnoInv /\ [Next]_vars => ErrnoInv'
  <2>1. ASSUME ErrnoInv, UNCHANGED vars
        PROVE  ErrnoInv'
    BY <2>1 DEF vars, kernelVars, libVars, ErrnoInv, Forgets
  <2> QED
    BY <2>1, NextKeepsErrno
<1>3. ErrnoInv => ErrnoOfCall
  BY DEF ErrnoInv, ErrnoOfCall
<1> QED
  BY <1>1, <1>2, <1>3, JumpInvariant, PTL DEF Spec
=============================================================================
