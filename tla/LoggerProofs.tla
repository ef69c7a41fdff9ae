---------------------------- MODULE LoggerProofs ----------------------------
(***************************************************************************)
(* Theorems about logger.so, for any number of threads, descriptors, names *)
(* and files.                                                              *)
(***************************************************************************)
EXTENDS Logger, FiniteSetTheorems, NaturalsInduction, TLAPS

USE LoggerAssumption

(***************************************************************************)
(* The log: each thread that has opened it has a descriptor of its own,    *)
(* and beside these only the number of stderr may be left open on it.      *)
(* With no OUTPUT_FILE the log is stderr, which is not closed while a      *)
(* record is on its way.                                                   *)
(***************************************************************************)
Writing(t) == thread[t].pc \in {"write", "close_fd"}

HoldsLog(t) == OUTPUT_FILE # None /\ Writing(t) /\ thread[t].fd # -1

LogInv ==
  /\ \A t \in Threads : HoldsLog(t) => fds[thread[t].fd] = LogFile
  /\ \A t, u \in Threads :
       HoldsLog(t) /\ HoldsLog(u) /\ t # u => thread[t].fd # thread[u].fd
  /\ \A fd \in Fds : fds[fd] = LogFile =>
       fd = stderr \/ \E t \in Threads : HoldsLog(t) /\ thread[t].fd = fd
  /\ OUTPUT_FILE = None => \A fd \in Fds : fds[fd] # LogFile
  /\ OUTPUT_FILE = None => \A t \in Threads : Writing(t) => stderr = 2 /\ thread[t].fd = 2

(***************************************************************************)
(* The program: no two calls are in conflict, and the descriptor a call is *)
(* about to use is the program's, in fs.                                   *)
(***************************************************************************)
Uses(c, fs) == c.op \in ByFd => fs[c.fd] \notin {None, LogFile}

UseInv ==
  /\ \A t, u \in Threads :
       thread[t] # Idle /\ thread[u] # Idle /\ t # u => ~Conflict(thread[t].call, thread[u].call)
  /\ \A t \in Threads : thread[t].pc = "call" => Uses(thread[t].call, fds)

(***************************************************************************)
(* The names in a record that no other thread has overtaken: those         *)
(* resolved before the call are still right when it is made, and those     *)
(* that are resolved after it still are then, in the descriptors fs and    *)
(* the names ds.                                                           *)
(***************************************************************************)
NameOf(c, fs, ds) ==
  IF c.op \in ByFd THEN {fs[c.fd]} ELSE IF c.op \in ByPath THEN {ds[c.path]} ELSE {}

Named(r, fs, ds) ==
  LET c == r.call
  IN  /\ r.pc = "call" =>
           r.names = IF c.op \in ResolvedFirst THEN NameOf(c, fs, ds) ELSE {}
      /\ r.pc = "resolve" /\ r.acted # None =>
           IF c.op = "rename" THEN r.names = {r.acted} /\ ds[c.to] = r.acted
           ELSE r.names = {} /\ NameOf(c, fs, ds) = {r.acted}
      /\ r.pc \in {"get_fd", "write"} /\ r.acted # None /\ c.op # "tmpfile" =>
           r.names = {r.acted}

NameInv == \A t \in Threads \ overtaken : Named(thread[t], fds, dir)

Inv == TypeOK /\ LogInv /\ UseInv /\ NameInv

(***************************************************************************)
(* Facts about the values.                                                 *)
(***************************************************************************)
LEMMA OpFacts ==
  /\ ByFd \cap ByPath = {}
  /\ "tmpfile" \notin ByFd \cup ByPath
  /\ ByStream \subseteq ByFd
  /\ ResolvedFirst \subseteq ByFd \cup ByPath
BY DEF ByFd, ByPath, ByStream, ResolvedFirst

LEMMA CallFacts ==
  ASSUME NEW c \in Calls
  PROVE  /\ c.op \in {"tmpfile"} \cup ByPath \cup ByFd
         /\ c.op \in ByFd => c.fd \in Fds
         /\ c.op \in ByPath => c.path \in Paths
         /\ c.op = "rename" => c.to \in Paths /\ c.to # c.path
         /\ c.op = "fclose" /\ c.stderr => c.fd = 2
<1>1. "rename" \in ByPath /\ "fclose" \in ByStream
  BY DEF ByPath, ByStream
<1> QED
  BY <1>1, OpFacts DEF Calls

LEMMA IdleFacts ==
  /\ Idle \notin AtWork
  /\ Idle.pc = "program"
BY DEF Idle, AtWork

LEMMA ResolvedIs ==
  ASSUME NEW c \in Calls
  PROVE  Resolved(c) = NameOf(c, fds, dir)
BY OpFacts DEF Resolved, NameOf, resolve_fd, realpath

LEMMA ConflictSymmetric ==
  ASSUME NEW c, NEW d, Conflict(c, d)
  PROVE  Conflict(d, c)
BY DEF Conflict

(* A free descriptor that is the lowest.                                   *)
LEMMA LowestIsFree ==
  ASSUME Free # {}
  PROVE  Lowest \in Free /\ \A g \in Free : Lowest <= g
<1>1. IsWellFoundedOn(OpToRel(<, Nat), Nat)
  BY NatLessThanWellFounded
<1>2. Free \subseteq Nat
  BY DEF Free
<1>3. PICK x \in Free : \A y \in Free : ~(<<y, x>> \in OpToRel(<, Nat))
  BY <1>1, <1>2, WFMin
<1>4. \A y \in Free : ~(y < x)
  BY <1>2, <1>3 DEF OpToRel
<1>5. \A y \in Free : x <= y
  BY <1>2, <1>4
<1> QED
  BY <1>5 DEF Lowest

(***************************************************************************)
(* What a call changes: it opens a free descriptor, or closes its own.  A  *)
(* name resolved at the right moment is that of the file it works on.      *)
(***************************************************************************)
NativeTyped(f) ==
  /\ f \in Files \cup {Terminal, None}
  /\ fds' \in [Fds -> Objects \cup {None}]
  /\ streams' \subseteq Fds
  /\ stderr' \in {2, -1}
  /\ dir' \in [Paths -> Files \cup {None}]

NativeFds(c) ==
  \A fd \in Fds :
    /\ fds[fd] = None => fds'[fd] \in Files \cup {None}
    /\ fds[fd] # None /\ fds'[fd] # fds[fd] =>
         c.op \in {"close", "fclose"} /\ fd = c.fd /\ fds'[fd] = None

NativeStderr(c) ==
  stderr' # stderr =>
    c.op = "fclose" /\ stderr' = -1 /\ stderr = c.fd /\ fds'[c.fd] = None

NativeNames(c, f) ==
  c.op # "tmpfile" /\ f # None =>
    /\ NameOf(c, IF c.op \in ResolvedFirst THEN fds ELSE fds',
                 IF c.op \in ResolvedFirst THEN dir ELSE dir') = {f}
    /\ c.op = "rename" => dir'[c.to] = f

LEMMA NativeChanges ==
  ASSUME TypeOK, NEW c \in Calls, NEW f \in Objects \cup {None}, Native(c, f),
         Uses(c, fds)
  PROVE  /\ NativeTyped(f)
         /\ NativeFds(c)
         /\ NativeStderr(c)
         /\ NativeNames(c, f)
<1> USE DEF TypeOK
<1>1. /\ c.op \in ByFd => c.fd \in Fds
      /\ c.op \in ByPath => c.path \in Paths
      /\ c.op = "rename" => c.to \in Paths /\ c.to # c.path
      /\ c.op = "fclose" /\ c.stderr => c.fd = 2
  BY CallFacts
<1>2. CASE c.op \in Opening /\ linux_open(c, f)
  <2>1. Free # {} /\ Lowest \in Fds /\ fds[Lowest] = None /\ fds' = [fds EXCEPT ![Lowest] = f]
    BY <1>2, LowestIsFree DEF linux_open, Free
  <2>2. c.op \notin ByFd /\ c.op \notin ResolvedFirst /\ c.op # "rename"
        /\ (c.op = "tmpfile" \/ c.op \in ByPath) /\ (c.op = "tmpfile" => c.op \notin ByPath)
    BY <1>2 DEF Opening, ByFd, ByStream, ByPath, ResolvedFirst
  <2>3. f \in Files
    BY <1>1, <1>2, <2>2 DEF linux_open, Unnamed
  <2>4. /\ UNCHANGED stderr
        /\ streams' = streams \/ streams' = streams \cup {Lowest}
    BY <1>2 DEF linux_open
  <2>5. \/ c.op = "tmpfile" /\ dir' = dir
        \/ /\ c.op \in ByPath
           /\ dir' = [dir EXCEPT ![c.path] = f]
           /\ dir[c.path] \in {None, f}
    BY <1>2, <2>2 DEF linux_open
  <2>6. c.op \in ByPath => NameOf(c, fds', dir') = {f}
    BY <1>1, <2>2, <2>5, OpFacts DEF NameOf
  <2>7. f # None /\ f \in Objects /\ f # LogFile
    BY <2>3 DEF Objects
  <2>8. fds' \in [Fds -> Objects \cup {None}] /\ dir' \in [Paths -> Files \cup {None}]
    BY <1>1, <2>1, <2>3, <2>5, <2>7
  <2>10. \A fd \in Fds : fd # Lowest => fds'[fd] = fds[fd]
    BY <2>1
  <2>11. fds'[Lowest] = f
    BY <2>1
  <2> QED
    BY <1>1, <1>2, <2>1, <2>2, <2>3, <2>4, <2>6, <2>7, <2>8, <2>10, <2>11
       DEF NativeTyped, NativeFds, NativeStderr, NativeNames, Opening
<1>3. CASE c.op \in ByFd /\ f = fds[c.fd] /\ UNCHANGED dir
           /\ (CASE c.op = "close"  -> linux_close(c.fd) /\ UNCHANGED <<streams, stderr>>
                 [] c.op = "fclose" -> linux_fclose(c)
                 [] OTHER           -> UNCHANGED <<fds, streams, stderr>>)
  <2>1. c.op # "rename" /\ f # LogFile /\ f # None /\ c.fd \in Fds
    BY <1>1, <1>3, OpFacts DEF ByFd, ByStream, Uses
  <2>3. NameOf(c, fds, dir) = {f}
    BY <1>3 DEF NameOf
  <2>4. CASE c.op = "close"
    BY <1>3, <2>1, <2>3, <2>4
       DEF NativeTyped, NativeFds, NativeStderr, NativeNames, linux_close, ResolvedFirst, Objects
  <2>5. CASE c.op = "fclose"
    BY <1>1, <1>3, <2>1, <2>3, <2>5
       DEF NativeTyped, NativeFds, NativeStderr, NativeNames, linux_close, linux_fclose, ResolvedFirst, Objects
  <2>6. CASE c.op \notin {"close", "fclose"}
    BY <1>3, <2>1, <2>3, <2>6 DEF NativeTyped, NativeFds, NativeStderr, NativeNames, NameOf, Objects
  <2> QED
    BY <2>4, <2>5, <2>6
<1>4. CASE c.op \in ByPath \ Opening /\ f = dir[c.path] /\ f # None
           /\ UNCHANGED <<fds, streams, stderr>>
           /\ (CASE c.op = "remove" -> linux_remove(c.path)
                 [] c.op = "rename" -> linux_rename(c.path, c.to)
                 [] OTHER           -> UNCHANGED dir)
  <2>1. f \in Files /\ c.op \notin ByFd /\ c.path \in Paths
    BY <1>1, <1>4, OpFacts
  <2>2. NameOf(c, fds, dir) = {f}
    BY <1>4, <2>1 DEF NameOf
  <2>4. CASE c.op = "remove"
    BY <1>4, <2>1, <2>2, <2>4 DEF NativeTyped, NativeFds, NativeStderr, NativeNames, linux_remove, ResolvedFirst
  <2>5. CASE c.op = "rename"
    BY <1>1, <1>4, <2>1, <2>2, <2>5 DEF NativeTyped, NativeFds, NativeStderr, NativeNames, linux_rename, ResolvedFirst
  <2>6. CASE c.op \notin {"remove", "rename"}
    BY <1>4, <2>1, <2>2, <2>6 DEF NativeTyped, NativeFds, NativeStderr, NativeNames, NameOf
  <2> QED
    BY <2>4, <2>5, <2>6
<1>5. CASE f = None /\ UNCHANGED <<fds, streams, stderr, dir>>
  BY <1>5 DEF NativeTyped, NativeFds, NativeStderr, NativeNames
<1> QED
  BY <1>2, <1>3, <1>4, <1>5 DEF Native

(***************************************************************************)
(* A thread at work, and one step of it.                                   *)
(***************************************************************************)
LEMMA WorkFacts ==
  ASSUME TypeOK, NEW t \in Threads, thread[t].pc # "program"
  PROVE  /\ thread[t] \in AtWork
         /\ thread[t] # Idle
         /\ thread[t].call \in Calls
BY IdleFacts DEF TypeOK, AtWork

LEMMA StepFacts ==
  ASSUME TypeOK, NEW t \in Threads, NEW r, thread' = [thread EXCEPT ![t] = r]
  PROVE  /\ thread'[t] = r
         /\ \A u \in Threads : u # t => thread'[u] = thread[u]
         /\ r \in AtWork \cup {Idle} => thread' \in [Threads -> AtWork \cup {Idle}]
BY DEF TypeOK

(***************************************************************************)
(* Steps of a thread that neither opens nor closes the log.                *)
(***************************************************************************)
LEMMA LogStays ==
  ASSUME LogInv, UNCHANGED <<OUTPUT_FILE, fds, streams, stderr>>,
         \A u \in Threads : /\ Writing(u)' <=> Writing(u)
                            /\ Writing(u) => thread'[u].fd = thread[u].fd
  PROVE  LogInv'
<1>1. \A u \in Threads : /\ HoldsLog(u)' <=> HoldsLog(u)
                         /\ HoldsLog(u) => thread'[u].fd = thread[u].fd
  BY DEF HoldsLog
<1> HIDE DEF HoldsLog
<1>2. \A t \in Threads : HoldsLog(t)' => fds'[thread'[t].fd] = LogFile
  BY <1>1 DEF LogInv
<1>3. \A t, u \in Threads :
        HoldsLog(t)' /\ HoldsLog(u)' /\ t # u => thread'[t].fd # thread'[u].fd
  BY <1>1 DEF LogInv
<1>4. \A fd \in Fds :
        fds'[fd] = LogFile => fd = stderr' \/ \E t \in Threads : HoldsLog(t)' /\ thread'[t].fd = fd
  BY <1>1 DEF LogInv
<1> QED
  BY <1>2, <1>3, <1>4 DEF LogInv

(***************************************************************************)
(* Steps that begin no call: those made so far go on in peace.             *)
(***************************************************************************)
LEMMA UseStays ==
  ASSUME UseInv,
         \A u \in Threads : thread'[u] # Idle =>
           thread[u] # Idle /\ thread'[u].call = thread[u].call,
         \A u \in Threads : thread'[u].pc = "call" =>
           /\ thread[u].pc = "call"
           /\ Uses(thread[u].call, fds) => Uses(thread'[u].call, fds')
  PROVE  UseInv'
<1>1. \A t, u \in Threads :
        thread'[t] # Idle /\ thread'[u] # Idle /\ t # u
          => ~Conflict(thread'[t].call, thread'[u].call)
  BY DEF UseInv
<1>2. \A t \in Threads : thread'[t].pc = "call" => Uses(thread'[t].call, fds')
  BY DEF UseInv
<1> QED
  BY <1>1, <1>2 DEF UseInv, Conflict, FdOf, Idle

LEMMA NamedStays ==
  ASSUME NEW r \in AtWork, NEW fs, NEW ds, NEW gs, NEW es, Named(r, fs, ds),
         r.pc = "call" => Uses(r.call, fs),
         r.call.op \in ByFd /\ fs[r.call.fd] \notin {None, LogFile} =>
           gs[r.call.fd] = fs[r.call.fd],
         \A p \in AtStake(r) : es[p] = ds[p]
  PROVE  Named(r, gs, es)
<1> DEFINE c == r.call
<1>1. c \in Calls /\ r.acted # LogFile
  BY DEF AtWork
<1>2. /\ c.op \in ByPath => c.path \in Paths
      /\ c.op = "rename" => c.to \in Paths
  BY <1>1, CallFacts
<1>3. /\ r.pc = "call" /\ c.op \in ResolvedFirst \cap ByPath => c.path \in AtStake(r)
      /\ r.pc = "resolve" /\ c.op = "rename" => c.to \in AtStake(r)
      /\ r.pc = "resolve" /\ c.op \in ByPath \ {"rename"} => c.path \in AtStake(r)
  BY <1>2 DEF AtStake
<1>4. CASE r.pc = "call"
  <2>1. CASE c.op \in ResolvedFirst /\ c.op \in ByFd
    BY <1>4, <2>1 DEF Named, NameOf, Uses
  <2>2. CASE c.op \in ResolvedFirst /\ c.op \notin ByFd
    <3>1. c.op \in ByPath
      BY <2>2 DEF ResolvedFirst, ByFd, ByStream, ByPath
    <3> QED
      BY <1>3, <1>4, <2>2, <3>1 DEF Named, NameOf
  <2>3. CASE c.op \notin ResolvedFirst
    BY <1>4, <2>3 DEF Named
  <2> QED
    BY <2>1, <2>2, <2>3
<1>5. CASE r.pc = "resolve" /\ r.acted # None
  <2>1. CASE c.op = "rename"
    BY <1>3, <1>5, <2>1 DEF Named
  <2>2. CASE c.op # "rename" /\ c.op \in ByFd
    BY <1>1, <1>5, <2>2 DEF Named, NameOf
  <2>3. CASE c.op # "rename" /\ c.op \notin ByFd
    BY <1>3, <1>5, <2>3 DEF Named, NameOf
  <2> QED
    BY <2>1, <2>2, <2>3
<1>6. CASE r.pc # "call" /\ ~(r.pc = "resolve" /\ r.acted # None)
  BY <1>6 DEF Named
<1> QED
  BY <1>4, <1>5, <1>6

LEMMA IdleNamed ==
  ASSUME NEW fs, NEW ds
  PROVE  Named(Idle, fs, ds)
BY DEF Named, Idle

(***************************************************************************)
(* A careful thread begins a call.                                         *)
(***************************************************************************)
LEMMA BeginKeeps ==
  ASSUME Inv, NEW t \in Threads, NEW c \in Calls, Begin(t, c)
  PROVE  Inv'
<1> DEFINE r == [pc |-> "call", call |-> c, acted |-> None, fd |-> -1,
                 names |-> IF c.op \in ResolvedFirst THEN Resolved(c) ELSE {}]
<1>1. /\ thread' = [thread EXCEPT ![t] = r]
      /\ thread[t] = Idle
      /\ UNCHANGED <<OUTPUT_FILE, fds, streams, stderr, dir, overtaken, aborted>>
  BY DEF Begin
<1>2. Resolved(c) \subseteq Objects \cup {None}
  <2>1. c.op \in ByFd => fds[c.fd] \in Objects \cup {None}
    BY CallFacts DEF Inv, TypeOK
  <2>2. c.op \in ByPath => dir[c.path] \in Objects \cup {None}
    BY CallFacts DEF Inv, TypeOK, Objects
  <2> QED
    BY <2>1, <2>2, ResolvedIs DEF NameOf
<1>3. r \in AtWork
  BY <1>2 DEF AtWork
<1>4. r.pc = "call" /\ r.call = c
      /\ r.names = (IF c.op \in ResolvedFirst THEN Resolved(c) ELSE {})
  OBVIOUS
<1> HIDE DEF r
<1>5. /\ thread'[t] = r
      /\ \A u \in Threads : u # t => thread'[u] = thread[u]
      /\ thread' \in [Threads -> AtWork \cup {Idle}]
  BY <1>1, <1>3, StepFacts DEF Inv
<1>6. TypeOK'
  BY <1>1, <1>5 DEF Inv, TypeOK
<1>7. LogInv'
  <2>1. \A u \in Threads : /\ Writing(u)' <=> Writing(u)
                           /\ Writing(u) => thread'[u].fd = thread[u].fd
    BY <1>1, <1>4, <1>5 DEF Writing, Idle
  <2> QED
    BY <1>1, <2>1, LogStays DEF Inv
<1>8. Uses(c, fds)
  BY DEF Begin, Careful, FdOf, Own, Uses
<1>9. UseInv'
  <2>1. \A u \in Threads : thread[u] # Idle =>
          ~Conflict(c, thread[u].call) /\ ~Conflict(thread[u].call, c)
    BY ConflictSymmetric DEF Begin, Careful
  <2>2. \A u, v \in Threads :
          thread'[u] # Idle /\ thread'[v] # Idle /\ u # v
            => ~Conflict(thread'[u].call, thread'[v].call)
    BY <1>4, <1>5, <2>1 DEF Inv, UseInv
  <2>3. \A u \in Threads : thread'[u].pc = "call" => Uses(thread'[u].call, fds')
    BY <1>1, <1>4, <1>5, <1>8 DEF Inv, UseInv
  <2> QED
    BY <2>2, <2>3 DEF UseInv, Conflict, FdOf
<1>10. NameInv'
  <2>1. Named(r, fds, dir)
    BY <1>4, ResolvedIs DEF Named
  <2> QED
    BY <1>1, <1>5, <2>1 DEF Inv, NameInv
<1> QED
  BY <1>6, <1>7, <1>9, <1>10 DEF Inv

(***************************************************************************)
(* The call itself.                                                        *)
(***************************************************************************)
LEMMA CallStep ==
  ASSUME Inv, NEW t \in Threads, Call(t)
  PROVE  \E f \in Objects \cup {None}, pc \in {"resolve", "get_fd"} :
           /\ Native(thread[t].call, f)
           /\ thread'[t] = [thread[t] EXCEPT !.acted = f, !.pc = pc]
           /\ pc = "resolve" <=> ResolvesAfter(thread[t].call)
           /\ \A u \in Threads : u # t => thread'[u] = thread[u]
           /\ \A u \in Threads \ {t} : u \notin overtaken' =>
                u \notin overtaken /\ \A p \in AtStake(thread[u]) : dir'[p] = dir[p]
           /\ t \notin overtaken' => t \notin overtaken
           /\ overtaken' \subseteq Threads
           /\ UNCHANGED <<OUTPUT_FILE, aborted>>
<1>1. PICK f \in Objects \cup {None} :
        /\ Native(thread[t].call, f)
        /\ thread' = [thread EXCEPT ![t].acted = f,
             ![t].pc = IF ResolvesAfter(thread[t].call) THEN "resolve" ELSE "get_fd"]
  BY DEF Call
<1> DEFINE pc == IF ResolvesAfter(thread[t].call) THEN "resolve" ELSE "get_fd"
<1>2. /\ thread'[t] = [thread[t] EXCEPT !.acted = f, !.pc = pc]
      /\ \A u \in Threads : u # t => thread'[u] = thread[u]
  BY <1>1 DEF Inv, TypeOK
<1>3. pc \in {"resolve", "get_fd"} /\ (pc = "resolve" <=> ResolvesAfter(thread[t].call))
  OBVIOUS
<1>4. /\ \A u \in Threads \ {t} : u \notin overtaken' =>
           u \notin overtaken /\ \A p \in AtStake(thread[u]) : dir'[p] = dir[p]
      /\ t \notin overtaken' => t \notin overtaken
      /\ overtaken' \subseteq Threads
  BY DEF Call, Inv, TypeOK
<1> HIDE DEF pc
<1> QED
  BY <1>1, <1>2, <1>3, <1>4 DEF Call

(* The descriptors the others are about to use are left alone.             *)
LEMMA OthersUndisturbed ==
  ASSUME TypeOK, NEW c \in Calls, NEW d \in Calls, ~Conflict(c, d), NativeFds(d)
  PROVE  /\ Uses(c, fds) => Uses(c, fds')
         /\ c.op \in ByFd /\ fds[c.fd] \notin {None, LogFile} => fds'[c.fd] = fds[c.fd]
<1>1. c.op \in ByFd => c.fd \in Fds
  BY CallFacts
<1>2. c.op \in ByFd /\ d.op \in {"close", "fclose"} => c.fd # d.fd
  BY DEF Conflict, FdOf, ByFd, ByStream
<1>3. c.op \in ByFd /\ fds[c.fd] \notin {None, LogFile} => fds'[c.fd] = fds[c.fd]
  BY <1>1, <1>2 DEF NativeFds
<1> QED
  BY <1>3 DEF Uses

LEMMA CallKeeps ==
  ASSUME Inv, NEW t \in Threads, Call(t), StderrQuiet
  PROVE  Inv'
<1> DEFINE c == thread[t].call
<1>1. /\ thread[t] \in AtWork /\ thread[t] # Idle /\ c \in Calls
      /\ thread[t].pc = "call"
      /\ Uses(c, fds)
  BY WorkFacts DEF Inv, Call, UseInv
<1>2. PICK f \in Objects \cup {None}, pc \in {"resolve", "get_fd"} :
        /\ Native(c, f)
        /\ thread'[t] = [thread[t] EXCEPT !.acted = f, !.pc = pc]
        /\ pc = "resolve" <=> ResolvesAfter(c)
        /\ \A u \in Threads : u # t => thread'[u] = thread[u]
        /\ \A u \in Threads \ {t} : u \notin overtaken' =>
             u \notin overtaken /\ \A p \in AtStake(thread[u]) : dir'[p] = dir[p]
        /\ t \notin overtaken' => t \notin overtaken
        /\ overtaken' \subseteq Threads
        /\ UNCHANGED <<OUTPUT_FILE, aborted>>
  BY CallStep
<1>3. /\ NativeTyped(f) /\ NativeFds(c) /\ NativeStderr(c)
      /\ NativeNames(c, f)
  BY <1>1, <1>2, NativeChanges DEF Inv
<1>4. /\ thread'[t] \in AtWork
      /\ thread'[t].call = c
      /\ thread'[t].pc = pc
      /\ thread'[t].acted = f
      /\ thread'[t].names = thread[t].names
  BY <1>1, <1>2, <1>3 DEF AtWork, NativeTyped
<1> HIDE DEF c
<1>5. TypeOK'
  <2>1. thread' = [thread EXCEPT ![t] = thread'[t]]
    BY DEF Call, Inv, TypeOK
  <2>2. thread' \in [Threads -> AtWork \cup {Idle}]
    BY <1>4, <2>1 DEF Inv, TypeOK
  <2> QED
    BY <1>2, <1>3, <2>2 DEF Inv, TypeOK, NativeTyped
<1>6. LogInv'
  <2>1. \A u \in Threads : /\ Writing(u)' <=> Writing(u)
                           /\ Writing(u) => thread'[u].fd = thread[u].fd
    BY <1>1, <1>2, <1>4 DEF Writing
  <2>2. \A u \in Threads : /\ HoldsLog(u)' <=> HoldsLog(u)
                           /\ HoldsLog(u) => thread'[u].fd = thread[u].fd
                           /\ HoldsLog(u) => thread[u].fd \in Fds
    <3>1. ASSUME NEW u \in Threads, HoldsLog(u)
          PROVE  thread[u].fd \in Fds
      BY <3>1, WorkFacts DEF HoldsLog, Writing, Inv, AtWork
    <3> QED
      BY <1>2, <2>1, <3>1 DEF HoldsLog
  <2>3. \A fd \in Fds : fds'[fd] = LogFile <=> fds[fd] = LogFile
    BY <1>1, <1>3 DEF NativeFds, Uses, ByFd, ByStream
  <2>10. \A fd \in Fds : fds'[fd] = LogFile /\ fd = stderr => fd = stderr'
    BY <1>3 DEF NativeStderr
  <2> HIDE DEF HoldsLog
  <2>4. \A u \in Threads : HoldsLog(u)' => fds'[thread'[u].fd] = LogFile
    BY <2>2, <2>3 DEF Inv, LogInv
  <2>5. \A u, v \in Threads :
          HoldsLog(u)' /\ HoldsLog(v)' /\ u # v => thread'[u].fd # thread'[v].fd
    BY <2>2 DEF Inv, LogInv
  <2>6. \A fd \in Fds :
          fds'[fd] = LogFile =>
            fd = stderr' \/ \E u \in Threads : HoldsLog(u)' /\ thread'[u].fd = fd
    BY <2>2, <2>3, <2>10 DEF Inv, LogInv
  <2>7. ASSUME OUTPUT_FILE' = None, NEW u \in Threads, Writing(u)'
        PROVE  stderr' = 2 /\ thread'[u].fd = 2
    BY <1>2, <2>1, <2>7 DEF Inv, LogInv, StderrQuiet, Writing
  <2>8. OUTPUT_FILE' = None => \A fd \in Fds : fds'[fd] # LogFile
    BY <1>2, <2>3 DEF Inv, LogInv
  <2> QED
    BY <2>4, <2>5, <2>6, <2>7, <2>8 DEF LogInv
<1>7. ASSUME NEW u \in Threads, u # t, thread[u] # Idle
      PROVE  /\ thread[u] \in AtWork
             /\ Uses(thread[u].call, fds) => Uses(thread[u].call, fds')
             /\ u \notin overtaken' => Named(thread[u], fds', dir')
  <2>1. thread[u] \in AtWork /\ thread[u].call \in Calls
    BY <1>7 DEF Inv, TypeOK, AtWork
  <2>2. ~Conflict(thread[u].call, c)
    BY <1>1, <1>7 DEF Inv, UseInv, c
  <2>3. /\ thread[u].pc = "call" => Uses(thread[u].call, fds)
        /\ u \notin overtaken => Named(thread[u], fds, dir)
    BY DEF Inv, NameInv, UseInv
  <2>4. u \notin overtaken' =>
          u \notin overtaken /\ \A p \in AtStake(thread[u]) : dir'[p] = dir[p]
    BY <1>2, <1>7
  <2> QED
    BY <1>1, <1>3, <2>1, <2>2, <2>3, <2>4, OthersUndisturbed, NamedStays DEF Inv
<1>8. UseInv'
  <2>1. \A u \in Threads : thread'[u] # Idle =>
          thread[u] # Idle /\ thread'[u].call = thread[u].call
    BY <1>1, <1>2, <1>4 DEF c
  <2>2. \A u \in Threads : thread'[u].pc = "call" =>
          /\ thread[u].pc = "call"
          /\ Uses(thread[u].call, fds) => Uses(thread'[u].call, fds')
    BY <1>2, <1>4, <1>7, IdleFacts
  <2> QED
    BY <2>1, <2>2, UseStays DEF Inv
<1>9. ASSUME t \notin overtaken'
      PROVE  Named(thread'[t], fds', dir')
  <2>1. thread[t].names = IF c.op \in ResolvedFirst THEN NameOf(c, fds, dir) ELSE {}
    BY <1>1, <1>2, <1>9 DEF Inv, NameInv, Named, c
  <2>2. CASE f = None
    BY <1>4, <2>2 DEF Named
  <2>3. CASE f # None /\ c.op = "tmpfile"
    <3>1. pc = "get_fd"
      BY <1>2, <2>3 DEF ResolvesAfter
    <3> QED
      BY <1>4, <2>3, <3>1 DEF Named
  <2>4. CASE f # None /\ c.op # "tmpfile" /\ c.op \in ResolvedFirst
    <3>1. thread[t].names = {f} /\ (c.op = "rename" => dir'[c.to] = f)
      BY <1>3, <2>1, <2>4 DEF NativeNames
    <3>2. pc = "resolve" <=> c.op = "rename"
      BY <1>2, <2>4 DEF ResolvesAfter
    <3> QED
      BY <1>4, <3>1, <3>2 DEF Named
  <2>5. CASE f # None /\ c.op # "tmpfile" /\ c.op \notin ResolvedFirst
    <3>1. thread[t].names = {} /\ NameOf(c, fds', dir') = {f} /\ c.op # "rename"
      BY <1>3, <2>1, <2>5 DEF NativeNames, ResolvedFirst
    <3>2. pc = "resolve"
      BY <1>2, <2>5 DEF ResolvesAfter
    <3> QED
      BY <1>4, <3>1, <3>2 DEF Named
  <2> QED
    BY <2>2, <2>3, <2>4, <2>5
<1>10. NameInv'
  <2>1. ASSUME NEW u \in Threads \ overtaken'
        PROVE  Named(thread'[u], fds', dir')
    BY <1>2, <1>7, <1>9, IdleNamed
  <2> QED
    BY <2>1 DEF NameInv
<1> QED
  BY <1>5, <1>6, <1>8, <1>10 DEF Inv

(***************************************************************************)
(* The rest of a wrapper leaves the program's files alone.                 *)
(***************************************************************************)
LEMMA ResolveKeeps ==
  ASSUME Inv, NEW t \in Threads, Resolve(t)
  PROVE  Inv'
<1> DEFINE c == thread[t].call
           names == IF c.op = "rename" THEN {realpath(c.to)} ELSE Resolved(c)
           r == [thread[t] EXCEPT !.pc = "get_fd", !.names = @ \cup names]
<1>1. /\ thread[t] \in AtWork /\ c \in Calls /\ thread[t].pc = "resolve"
      /\ UNCHANGED <<OUTPUT_FILE, fds, streams, stderr, dir, overtaken, aborted>>
  BY WorkFacts DEF Inv, Resolve
<1>2. thread' = [thread EXCEPT ![t] = r]
  BY DEF Resolve, Inv, TypeOK
<1>3. names \subseteq Objects \cup {None}
  <2>1. c.op \in ByFd => fds[c.fd] \in Objects \cup {None}
    BY <1>1, CallFacts DEF Inv, TypeOK
  <2>2. c.op \in ByPath => dir[c.path] \in Objects \cup {None}
    BY <1>1, CallFacts DEF Inv, TypeOK, Objects
  <2>3. c.op = "rename" => dir[c.to] \in Objects \cup {None}
    BY <1>1, CallFacts DEF Inv, TypeOK, Objects
  <2> QED
    BY <1>1, <2>1, <2>2, <2>3, ResolvedIs DEF NameOf, realpath
<1>4. /\ r \in AtWork /\ r.pc = "get_fd" /\ r.call = c /\ r.fd = thread[t].fd
      /\ r.acted = thread[t].acted /\ r.names = thread[t].names \cup names
  BY <1>1, <1>3 DEF AtWork
<1>5. t \notin overtaken => Named(r, fds, dir)
  <2>1. c.op = "rename" => names = {dir[c.to]}
    BY DEF realpath
  <2>2. c.op # "rename" => names = NameOf(c, fds, dir)
    BY <1>1, ResolvedIs
  <2>3. t \notin overtaken /\ thread[t].acted # None =>
          IF c.op = "rename"
          THEN thread[t].names = {thread[t].acted} /\ dir[c.to] = thread[t].acted
          ELSE thread[t].names = {} /\ NameOf(c, fds, dir) = {thread[t].acted}
    BY <1>1 DEF Inv, NameInv, Named
  <2> HIDE DEF c, names, r
  <2> QED
    BY <1>4, <2>1, <2>2, <2>3 DEF Named
<1> HIDE DEF r, names
<1>6. /\ thread'[t] = r
      /\ \A u \in Threads : u # t => thread'[u] = thread[u]
      /\ thread' \in [Threads -> AtWork \cup {Idle}]
  BY <1>2, <1>4, StepFacts DEF Inv
<1>7. TypeOK'
  BY <1>1, <1>6 DEF Inv, TypeOK
<1>8. LogInv'
  <2>1. \A u \in Threads : /\ Writing(u)' <=> Writing(u)
                           /\ Writing(u) => thread'[u].fd = thread[u].fd
    BY <1>1, <1>4, <1>6 DEF Writing
  <2> QED
    BY <1>1, <2>1, LogStays DEF Inv
<1>9. UseInv'
  BY <1>1, <1>4, <1>6, IdleFacts, UseStays DEF Inv, AtWork, Idle
<1>10. NameInv'
  BY <1>1, <1>5, <1>6 DEF Inv, NameInv
<1> QED
  BY <1>7, <1>8, <1>9, <1>10 DEF Inv

LEMMA PrintKeeps ==
  ASSUME Inv, NEW t \in Threads, print_log(t)
  PROVE  Inv'
<1> DEFINE r == [thread[t] EXCEPT !.pc = "close_fd", !.names = {}, !.acted = None]
<1>1. /\ thread[t] \in AtWork /\ thread[t].pc = "write"
      /\ UNCHANGED <<OUTPUT_FILE, fds, streams, stderr, dir, aborted>>
      /\ overtaken' = overtaken \ {t}
  BY WorkFacts DEF Inv, print_log
<1>2. thread' = [thread EXCEPT ![t] = r]
  BY DEF print_log, Inv, TypeOK
<1>3. /\ r \in AtWork /\ r.pc = "close_fd" /\ r.call = thread[t].call
      /\ r.fd = thread[t].fd
  BY <1>1 DEF AtWork
<1> HIDE DEF r
<1>4. /\ thread'[t] = r
      /\ \A u \in Threads : u # t => thread'[u] = thread[u]
      /\ thread' \in [Threads -> AtWork \cup {Idle}]
  BY <1>2, <1>3, StepFacts DEF Inv
<1>5. TypeOK'
  BY <1>1, <1>4 DEF Inv, TypeOK
<1>6. LogInv'
  <2>1. \A u \in Threads : /\ Writing(u)' <=> Writing(u)
                           /\ Writing(u) => thread'[u].fd = thread[u].fd
    BY <1>1, <1>3, <1>4 DEF Writing
  <2> QED
    BY <1>1, <2>1, LogStays DEF Inv
<1>7. UseInv'
  BY <1>1, <1>3, <1>4, IdleFacts, UseStays DEF Inv, AtWork, Idle
<1>8. NameInv'
  <2>1. Named(r, fds, dir)
    BY <1>3 DEF Named
  <2> QED
    BY <1>1, <1>4, <2>1 DEF Inv, NameInv
<1> QED
  BY <1>5, <1>6, <1>7, <1>8 DEF Inv

(* The others do not notice that the log is opened, or closed: fd is free, *)
(* or open on the log.                                                     *)
LEMMA OthersUnaware ==
  ASSUME Inv, NEW t \in Threads, NEW fd \in Fds, fds[fd] \in {None, LogFile},
         \A g \in Fds : g # fd => fds'[g] = fds[g],
         UNCHANGED <<dir, overtaken>>,
         \A u \in Threads : u # t => thread'[u] = thread[u],
         thread'[t] = Idle \/ (thread'[t].call = thread[t].call /\ thread[t] # Idle),
         thread'[t].pc \notin {"call", "resolve"},
         t \notin overtaken => Named(thread'[t], fds', dir')
  PROVE  UseInv' /\ NameInv'
<1>1. ASSUME NEW u \in Threads, u # t, thread[u] # Idle
      PROVE  /\ Uses(thread[u].call, fds) => Uses(thread[u].call, fds')
             /\ u \notin overtaken => Named(thread[u], fds', dir')
  <2>1. thread[u] \in AtWork /\ thread[u].call \in Calls
    BY <1>1 DEF Inv, TypeOK, AtWork
  <2>2. LET c == thread[u].call
        IN  c.op \in ByFd /\ fds[c.fd] \notin {None, LogFile} => fds'[c.fd] = fds[c.fd]
    BY <2>1, CallFacts
  <2>3. Uses(thread[u].call, fds) => Uses(thread[u].call, fds')
    BY <2>2 DEF Uses
  <2>4. /\ thread[u].pc = "call" => Uses(thread[u].call, fds)
        /\ u \notin overtaken => Named(thread[u], fds, dir)
    BY DEF Inv, NameInv, UseInv
  <2> QED
    BY <2>1, <2>2, <2>3, <2>4, NamedStays
<1>2. UseInv'
  BY <1>1, IdleFacts, UseStays DEF Inv
<1>3. ASSUME NEW u \in Threads \ overtaken'
      PROVE  Named(thread'[u], fds', dir')
  BY <1>1, IdleNamed
<1> QED
  BY <1>2, <1>3 DEF NameInv

LEMMA GetFdKeeps ==
  ASSUME Inv, NEW t \in Threads, get_fd(t)
  PROVE  Inv'
<1>1. /\ thread[t] \in AtWork /\ thread[t] # Idle /\ thread[t].pc = "get_fd"
      /\ UNCHANGED <<OUTPUT_FILE, streams, stderr, dir, overtaken>>
  BY WorkFacts DEF Inv, get_fd
<1>2. ~HoldsLog(t) /\ ~Writing(t)
  BY <1>1 DEF HoldsLog, Writing
<1>3. CASE aborted' = TRUE /\ UNCHANGED <<fds, thread>>
  <2>1. TypeOK'
    BY <1>1, <1>3 DEF Inv, TypeOK
  <2>2. LogInv'
    BY <1>1, <1>3, LogStays DEF Inv, Writing
  <2>3. UseInv' /\ NameInv'
    BY <1>1, <1>3, UseStays DEF Inv, NameInv
  <2> QED
    BY <2>1, <2>2, <2>3 DEF Inv
<1>4. ASSUME NEW fd \in Fds \cup {-1}, thread' = [thread EXCEPT ![t].pc = "write", ![t].fd = fd]
      PROVE  /\ thread' \in [Threads -> AtWork \cup {Idle}]
             /\ thread'[t].call = thread[t].call
             /\ thread'[t].pc = "write"
             /\ thread'[t].fd = fd
             /\ \A u \in Threads : u # t => thread'[u] = thread[u]
             /\ t \notin overtaken => \A fs : Named(thread'[t], fs, dir')
  <2> DEFINE r == [thread[t] EXCEPT !.pc = "write", !.fd = fd]
  <2>1. thread' = [thread EXCEPT ![t] = r]
    BY <1>4 DEF Inv, TypeOK
  <2>2. /\ r \in AtWork /\ r.call = thread[t].call /\ r.pc = "write" /\ r.fd = fd
        /\ r.names = thread[t].names /\ r.acted = thread[t].acted
    BY <1>1 DEF AtWork
  <2>3. t \notin overtaken => \A fs : Named(r, fs, dir')
    BY <1>1, <2>2 DEF Inv, NameInv, Named
  <2> HIDE DEF r
  <2> QED
    BY <2>1, <2>2, <2>3, StepFacts DEF Inv
<1>5. CASE UNCHANGED <<fds, aborted>> /\
           \/ /\ OUTPUT_FILE = None /\ stderr # -1
              /\ thread' = [thread EXCEPT ![t].pc = "write", ![t].fd = stderr]
           \/ /\ OUTPUT_FILE # None
              /\ thread' = [thread EXCEPT ![t].pc = "write", ![t].fd = -1]
  <2>1. PICK fd \in {2, -1} :
          /\ thread' = [thread EXCEPT ![t].pc = "write", ![t].fd = fd]
          /\ IF OUTPUT_FILE = None THEN fd = 2 /\ stderr = 2 ELSE fd = -1
    BY <1>5 DEF Inv, TypeOK
  <2>2. /\ thread' \in [Threads -> AtWork \cup {Idle}]
        /\ thread'[t].call = thread[t].call
        /\ thread'[t].pc = "write"
        /\ thread'[t].fd = fd
        /\ \A u \in Threads : u # t => thread'[u] = thread[u]
        /\ t \notin overtaken => \A fs : Named(thread'[t], fs, dir')
    BY <1>4, <2>1
  <2>3. TypeOK'
    BY <1>1, <1>5, <2>2 DEF Inv, TypeOK
  <2>4. \A u \in Threads : /\ HoldsLog(u)' <=> HoldsLog(u)
                           /\ HoldsLog(u) => thread'[u].fd = thread[u].fd
    BY <1>1, <1>2, <2>1, <2>2 DEF HoldsLog, Writing
  <2>5. OUTPUT_FILE' = None => \A u \in Threads : Writing(u)' => stderr' = 2 /\ thread'[u].fd = 2
    BY <1>1, <2>1, <2>2 DEF Inv, LogInv, Writing
  <2>6. LogInv'
    <3> HIDE DEF HoldsLog
    <3>1. \A u \in Threads : HoldsLog(u)' => fds'[thread'[u].fd] = LogFile
      BY <1>5, <2>4 DEF Inv, LogInv
    <3>2. \A u, v \in Threads :
            HoldsLog(u)' /\ HoldsLog(v)' /\ u # v => thread'[u].fd # thread'[v].fd
      BY <2>4 DEF Inv, LogInv
    <3>3. \A g \in Fds :
            fds'[g] = LogFile =>
              g = stderr' \/ \E u \in Threads : HoldsLog(u)' /\ thread'[u].fd = g
      BY <1>1, <1>5, <2>4 DEF Inv, LogInv
    <3> QED
      BY <1>1, <1>5, <2>5, <3>1, <3>2, <3>3 DEF Inv, LogInv
  <2>7. NameInv'
    BY <1>1, <1>5, <2>2 DEF Inv, NameInv
  <2>8. UseInv'
    BY <1>1, <1>5, <2>2, UseStays DEF Inv
  <2> QED
    BY <2>3, <2>6, <2>7, <2>8 DEF Inv
<1>6. CASE /\ OUTPUT_FILE # None /\ Free # {}
           /\ thread' = [thread EXCEPT ![t].pc = "write", ![t].fd = LogFd]
           /\ fds' = [fds EXCEPT ![LogFd] = LogFile]
           /\ UNCHANGED aborted
  <2> DEFINE fd == LogFd
  <2>1. fd \in Fds /\ fds[fd] = None
    BY <1>6, LowestIsFree DEF LogFd, Free
  <2>2. /\ thread' \in [Threads -> AtWork \cup {Idle}]
        /\ thread'[t].call = thread[t].call
        /\ thread'[t].pc = "write"
        /\ thread'[t].fd = fd
        /\ \A u \in Threads : u # t => thread'[u] = thread[u]
        /\ t \notin overtaken => \A fs : Named(thread'[t], fs, dir')
    BY <1>4, <1>6, <2>1
  <2>3. /\ fds' \in [Fds -> Objects \cup {None}]
        /\ fds'[fd] = LogFile
        /\ \A g \in Fds : g # fd => fds'[g] = fds[g]
    BY <1>6, <2>1 DEF Inv, TypeOK, Objects
  <2> HIDE DEF fd
  <2>4. TypeOK'
    BY <1>1, <1>6, <2>2, <2>3 DEF Inv, TypeOK
  <2>5. fd # -1
    BY <2>1
  <2>6. \A u \in Threads : /\ HoldsLog(u)' <=> (HoldsLog(u) \/ u = t)
                           /\ HoldsLog(u) => thread'[u].fd = thread[u].fd /\ thread[u].fd # fd
    <3>1. \A u \in Threads : HoldsLog(u) => fds[thread[u].fd] = LogFile
      BY DEF Inv, LogInv
    <3>2. \A u \in Threads : u # t => (HoldsLog(u)' <=> HoldsLog(u))
      BY <1>1, <2>2 DEF HoldsLog, Writing
    <3>3. HoldsLog(t)'
      BY <1>1, <1>6, <2>2, <2>5 DEF HoldsLog, Writing
    <3> QED
      BY <1>2, <2>1, <2>2, <3>1, <3>2, <3>3
  <2>7. LogInv'
    <3>1. \A u \in Threads : HoldsLog(u) => thread[u].fd \in Fds
      BY WorkFacts DEF HoldsLog, Writing, Inv, AtWork
    <3> HIDE DEF HoldsLog
    <3>2. ASSUME NEW u \in Threads, HoldsLog(u)'
          PROVE  fds'[thread'[u].fd] = LogFile
      <4>1. CASE u = t
        BY <2>2, <2>3, <4>1
      <4>2. CASE HoldsLog(u)
        <5>1. /\ fds[thread[u].fd] = LogFile
              /\ thread'[u].fd = thread[u].fd
              /\ thread[u].fd \in Fds
              /\ thread[u].fd # fd
          BY <2>6, <3>1, <4>2 DEF Inv, LogInv
        <5> QED
          BY <2>3, <5>1
      <4> QED
        BY <2>6, <3>2, <4>1, <4>2
    <3>3. \A u, v \in Threads :
            HoldsLog(u)' /\ HoldsLog(v)' /\ u # v => thread'[u].fd # thread'[v].fd
      BY <2>2, <2>6 DEF Inv, LogInv
    <3>4. \A g \in Fds :
            fds'[g] = LogFile =>
              g = stderr' \/ \E u \in Threads : HoldsLog(u)' /\ thread'[u].fd = g
      BY <1>1, <2>2, <2>3, <2>6 DEF Inv, LogInv
    <3> QED
      BY <1>1, <1>6, <3>2, <3>3, <3>4 DEF LogInv
  <2>8. UseInv' /\ NameInv'
    BY <1>1, <2>1, <2>2, <2>3, OthersUnaware
  <2> QED
    BY <2>4, <2>7, <2>8 DEF Inv
<1> QED
  BY <1>3, <1>5, <1>6 DEF get_fd

LEMMA CloseKeeps ==
  ASSUME Inv, NEW t \in Threads, close_fd(t)
  PROVE  Inv'
<1> DEFINE fd == thread[t].fd
<1>1. /\ thread[t] \in AtWork /\ thread[t] # Idle /\ thread[t].pc = "close_fd"
      /\ UNCHANGED <<OUTPUT_FILE, streams, stderr, dir, overtaken, aborted>>
      /\ fd \in Fds \cup {-1}
  BY WorkFacts DEF Inv, close_fd, AtWork
<1>2. /\ thread'[t] = Idle
      /\ \A u \in Threads : u # t => thread'[u] = thread[u]
      /\ thread' \in [Threads -> AtWork \cup {Idle}]
  BY StepFacts DEF Inv, close_fd
<1>3. \A u \in Threads : HoldsLog(u)' <=> HoldsLog(u) /\ u # t
  BY <1>1, <1>2, IdleFacts DEF HoldsLog, Writing
<1>4. CASE ~HoldsLog(t) \/ fd = stderr
  <2>1. UNCHANGED fds
    BY <1>1, <1>4 DEF close_fd, Closes, HoldsLog, Writing, Inv, LogInv
  <2>2. TypeOK'
    BY <1>1, <1>2, <2>1 DEF Inv, TypeOK
  <2>3. LogInv'
    <3>1. OUTPUT_FILE' = None =>
            \A u \in Threads : Writing(u)' => stderr' = 2 /\ thread'[u].fd = 2
      BY <1>1, <1>2, IdleFacts DEF Inv, LogInv, Writing
    <3> HIDE DEF HoldsLog
    <3>2. \A u \in Threads : HoldsLog(u)' => fds'[thread'[u].fd] = LogFile
      BY <1>2, <1>3, <2>1 DEF Inv, LogInv
    <3>3. \A u, v \in Threads :
            HoldsLog(u)' /\ HoldsLog(v)' /\ u # v => thread'[u].fd # thread'[v].fd
      BY <1>2, <1>3 DEF Inv, LogInv
    <3>4. ASSUME NEW g \in Fds, fds'[g] = LogFile
          PROVE  g = stderr' \/ \E u \in Threads : HoldsLog(u)' /\ thread'[u].fd = g
      <4>1. CASE g = stderr
        BY <1>1, <4>1
      <4>2. ASSUME NEW u \in Threads, HoldsLog(u), thread[u].fd = g, g # stderr
            PROVE  HoldsLog(u)' /\ thread'[u].fd = g
        <5>1. u # t
          BY <1>4, <4>2
        <5> QED
          BY <1>2, <1>3, <4>2, <5>1
      <4> QED
        BY <2>1, <3>4, <4>1, <4>2 DEF Inv, LogInv
    <3> QED
      BY <1>1, <2>1, <3>1, <3>2, <3>3, <3>4 DEF Inv, LogInv
  <2>4. UseInv'
    BY <1>1, <1>2, <2>1, IdleFacts, UseStays DEF Inv
  <2>5. NameInv'
    BY <1>1, <1>2, <2>1, IdleNamed DEF Inv, NameInv
  <2> QED
    BY <2>2, <2>3, <2>4, <2>5 DEF Inv
<1>5. CASE HoldsLog(t) /\ fd # stderr
  <2>1. fd \in Fds /\ fds[fd] = LogFile /\ OUTPUT_FILE # None
    BY <1>1, <1>5 DEF HoldsLog, Inv, LogInv
  <2>3. fds' = [fds EXCEPT ![fd] = None]
    BY <1>5, <2>1 DEF close_fd, Closes, linux_close
  <2>4. /\ fds' \in [Fds -> Objects \cup {None}]
        /\ fds'[fd] = None
        /\ \A g \in Fds : g # fd => fds'[g] = fds[g]
    BY <2>1, <2>3 DEF Inv, TypeOK
  <2>5. TypeOK'
    BY <1>1, <1>2, <2>4 DEF Inv, TypeOK
  <2>6. LogInv'
    <3>1. \A u \in Threads : HoldsLog(u) => thread[u].fd \in Fds
      BY WorkFacts DEF HoldsLog, Writing, Inv, AtWork
    <3>2. \A u \in Threads : HoldsLog(u) /\ u # t => thread[u].fd # fd
      BY <1>5 DEF Inv, LogInv
    <3> HIDE DEF HoldsLog, fd
    <3>3. ASSUME NEW u \in Threads, HoldsLog(u)'
          PROVE  fds'[thread'[u].fd] = LogFile
      <4>1. /\ HoldsLog(u)
            /\ thread'[u].fd = thread[u].fd
        BY <1>2, <1>3, <3>3
      <4>2. /\ fds[thread[u].fd] = LogFile
            /\ thread[u].fd \in Fds
            /\ thread[u].fd # fd
        BY <1>3, <3>1, <3>2, <3>3, <4>1 DEF Inv, LogInv
      <4> QED
        BY <2>4, <4>1, <4>2
    <3>4. \A u, v \in Threads :
            HoldsLog(u)' /\ HoldsLog(v)' /\ u # v => thread'[u].fd # thread'[v].fd
      BY <1>2, <1>3 DEF Inv, LogInv
    <3>5. ASSUME NEW g \in Fds, fds'[g] = LogFile
          PROVE  g = stderr' \/ \E u \in Threads : HoldsLog(u)' /\ thread'[u].fd = g
      <4>1. g # fd /\ fds[g] = LogFile
        BY <2>4, <3>5
      <4>2. CASE g = stderr
        BY <1>1, <4>2
      <4>3. ASSUME NEW u \in Threads, HoldsLog(u), thread[u].fd = g
            PROVE  HoldsLog(u)' /\ thread'[u].fd = g
        BY <1>2, <1>3, <4>1, <4>3 DEF fd
      <4> QED
        BY <4>1, <4>2, <4>3 DEF Inv, LogInv
    <3> QED
      BY <1>1, <2>1, <3>3, <3>4, <3>5 DEF LogInv
  <2>7. thread'[t].pc \notin {"call", "resolve"} /\ Named(thread'[t], fds', dir')
    BY <1>2, IdleFacts, IdleNamed
  <2>8. UseInv' /\ NameInv'
    BY <1>1, <1>2, <2>1, <2>4, <2>7, OthersUnaware
  <2> QED
    BY <2>5, <2>6, <2>8 DEF Inv
<1> QED
  BY <1>4, <1>5

-----------------------------------------------------------------------------
LEMMA InitHolds == Init => Inv
<1> SUFFICES ASSUME Init
             PROVE  Inv
  OBVIOUS
<1>1. /\ OUTPUT_FILE \in {LogFile, None}
      /\ \A fd \in Fds : fds[fd] \in {Terminal, None}
      /\ fds \in [Fds -> Objects \cup {None}]
      /\ fds[2] = Terminal
      /\ streams = {} /\ stderr = 2 /\ overtaken = {}
      /\ dir \in [Paths -> Files \cup {None}]
      /\ \A t \in Threads : thread[t] = Idle
      /\ thread \in [Threads -> AtWork \cup {Idle}]
      /\ aborted \in BOOLEAN
  BY DEF Init, main, Objects
<1>2. TypeOK
  BY <1>1 DEF TypeOK
<1>3. \A t \in Threads : ~Writing(t) /\ ~HoldsLog(t)
  BY <1>1, IdleFacts DEF Writing, HoldsLog
<1>4. LogInv
  BY <1>1, <1>3 DEF LogInv
<1>5. UseInv
  BY <1>1, IdleFacts DEF UseInv
<1>6. NameInv
  BY <1>1, IdleNamed DEF NameInv
<1> QED
  BY <1>2, <1>4, <1>5, <1>6 DEF Inv

LEMMA NextKeeps == Inv /\ [Next /\ StderrQuiet]_vars => Inv'
<1>1. ASSUME Inv, UNCHANGED vars
      PROVE  Inv'
  <2>1. TypeOK'
    BY <1>1 DEF vars, Inv, TypeOK
  <2>2. LogInv'
    BY <1>1, LogStays DEF vars, Inv, Writing
  <2>3. UseInv'
    BY <1>1, UseStays DEF vars, Inv
  <2>4. NameInv'
    BY <1>1 DEF vars, Inv, NameInv
  <2> QED
    BY <2>1, <2>2, <2>3, <2>4 DEF Inv
<1>2. ASSUME Inv, Next, StderrQuiet
      PROVE  Inv'
  <2>1. PICK t \in Threads :
          \/ \E c \in Calls : Begin(t, c)
          \/ Call(t) \/ Resolve(t) \/ get_fd(t) \/ print_log(t) \/ close_fd(t)
    BY <1>2 DEF Next
  <2> QED
    BY <1>2, <2>1, BeginKeeps, CallKeeps, ResolveKeeps, GetFdKeeps, PrintKeeps, CloseKeeps
<1> QED
  BY <1>1, <1>2

THEOREM Invariant == SpecQuiet => []Inv
BY InitHolds, NextKeeps, PTL DEF SpecQuiet

(***************************************************************************)
(* Every variable keeps to its type.                                       *)
(***************************************************************************)
THEOREM LoggerTypeCorrect == SpecQuiet => []TypeOK
<1>1. Inv => TypeOK
  BY DEF Inv
<1> QED
  BY <1>1, Invariant, PTL

(***************************************************************************)
(* print_log (util.cpp:27-31) writes to the log that get_fd has opened, in *)
(* any interleaving of threads that open and close files and of their      *)
(* wrappers, which all do the same with the log.  A log that cannot be     *)
(* opened (util.cpp:13-18) loses the record.                               *)
(***************************************************************************)
THEOREM RecordsAreLogged == SpecQuiet => []RecordsReachLog
<1>1. Inv => RecordsReachLog
  <2> SUFFICES ASSUME Inv, NEW t \in Threads, thread[t].pc = "write", thread[t].fd # -1
               PROVE  IF OUTPUT_FILE = None THEN thread[t].fd = stderr
                      ELSE fds[thread[t].fd] = LogFile
    BY DEF RecordsReachLog
  <2> QED
    BY DEF Inv, LogInv, HoldsLog, Writing
<1> QED
  BY <1>1, Invariant, PTL

(***************************************************************************)
(* close_fd (util.cpp:23-25) gives back every descriptor get_fd has taken, *)
(* but for one that has the number of stderr: 2 is free for the log once   *)
(* the program has closed it by close, and then stays open on it.          *)
(***************************************************************************)
THEOREM NoLogLeaks == SpecQuiet => []LogNotLeaked
<1>1. Inv => LogNotLeaked
  BY DEF Inv, LogInv, LogNotLeaked, HoldsLog, Writing
<1> QED
  BY <1>1, Invariant, PTL

(***************************************************************************)
(* The wrappers (logger.cpp) resolve the names of their records on the     *)
(* right side of the call (before it where the call takes the name away),  *)
(* and no other thread can spoil them but in the window in between.        *)
(***************************************************************************)
THEOREM RecordsNameTheFile == SpecQuiet => []NamesTheFile
<1>1. Inv => NamesTheFile
  <2> SUFFICES ASSUME Inv, NEW t \in Threads \ overtaken, thread[t].pc = "write",
                      thread[t].acted # None, thread[t].call.op # "tmpfile"
               PROVE  thread[t].names = {thread[t].acted}
    BY DEF NamesTheFile
  <2> QED
    BY DEF Inv, NameInv, Named
<1> QED
  BY <1>1, Invariant, PTL

-----------------------------------------------------------------------------
(***************************************************************************)
(* What the program sees of its descriptors is all but the log, and what   *)
(* it sees of its calls is when they begin, are done, and return.          *)
(***************************************************************************)
Visible(fs) == [fd \in Fds |-> IF fs[fd] = LogFile THEN None ELSE fs[fd]]

Phase(r) == CASE r.pc = "program" -> "program" [] r.pc = "call" -> "begun" [] OTHER -> "done"

Progress(r) == [call |-> r.call, phase |-> Phase(r)]

LEMMA TableIs ==
  /\ ProgramsTable = Visible(fds)
  /\ ProgramsTable' = Visible(fds')
BY DEF ProgramsTable, Visible

LEMMA DoingIs == Doing = [t \in Threads |-> Progress(thread[t])]
BY DEF Doing, Progress, Phase

LEMMA DoingChanges ==
  ASSUME TypeOK, NEW t \in Threads, NEW r, thread' = [thread EXCEPT ![t] = r]
  PROVE  Doing' = [Doing EXCEPT ![t] = Progress(r)]
<1>1. Doing' = [u \in Threads |-> Progress(thread'[u])]
  BY DEF Doing, Progress, Phase
<1>2. \A u \in Threads : thread'[u] = IF u = t THEN r ELSE thread[u]
  BY DEF TypeOK
<1>3. \A u \in Threads : Progress(thread'[u]) = IF u = t THEN Progress(r) ELSE Progress(thread[u])
  BY <1>2
<1> HIDE DEF Progress
<1> QED
  BY <1>1, <1>3, DoingIs

LEMMA ProgramsCardinality == \A S : Program!Cardinality(S) = Cardinality(S)
BY DEF Program!Cardinality, Cardinality

(***************************************************************************)
(* A descriptor that is free for the program and lower than one it gets    *)
(* holds the log of another thread, or has the number of stderr: beside it *)
(* there are at most |Threads| - 1.                                        *)
(***************************************************************************)
LEMMA FewAreTaken ==
  ASSUME Inv, NEW t \in Threads, ~HoldsLog(t), Free # {}
  PROVE  Cardinality(Program!Lower(Lowest) \ {stderr}) <= Cardinality(Threads) - 1
<1> DEFINE L == Program!Lower(Lowest) \ {stderr}
           Others == Threads \ {t}
           holder == [g \in L |-> CHOOSE u \in Threads : HoldsLog(u) /\ thread[u].fd = g]
<1>1. \A g \in L : g \in Fds /\ g < Lowest /\ Visible(fds)[g] = None /\ g # stderr
  BY TableIs DEF Program!Lower
<1>2. \A g \in Free : Lowest <= g /\ g \in Nat /\ Lowest \in Nat
  BY LowestIsFree DEF Free
<1>3. \A g \in L : fds[g] = LogFile
  <2>1. ASSUME NEW g \in L
        PROVE  fds[g] = LogFile
    <3>1. g \notin Free
      BY <1>1, <1>2
    <3> QED
      BY <1>1, <3>1 DEF Free, Visible
  <2> QED
    BY <2>1
<1>4. \A g \in L : \E u \in Threads : HoldsLog(u) /\ thread[u].fd = g
  BY <1>1, <1>3 DEF Inv, LogInv
<1>5. \A g \in L : holder[g] \in Threads /\ HoldsLog(holder[g]) /\ thread[holder[g]].fd = g
  <2> HIDE DEF L, HoldsLog
  <2> QED
    BY <1>4
<1>6. holder \in [L -> Others]
  <2> HIDE DEF L, HoldsLog
  <2>1. \A g \in L : holder[g] \in Others
    BY <1>5
  <2> QED
    BY <2>1
<1>7. holder \in Injection(L, Others)
  <2> HIDE DEF L, holder, HoldsLog
  <2> QED
    BY <1>5, <1>6 DEF Injection, IsInjective
<1>8. IsFiniteSet(Others) /\ Cardinality(Others) = Cardinality(Threads) - 1
  BY FS_RemoveElement
<1> HIDE DEF L, Others, holder
<1>9. Cardinality(L) <= Cardinality(Others)
  BY <1>7, <1>8, FS_Injection
<1> QED
  BY <1>8, <1>9 DEF L

LEMMA VisibleExcept ==
  ASSUME NEW fs \in [Fds -> Objects \cup {None}], NEW fd \in Fds, NEW f, f # LogFile
  PROVE  Visible([fs EXCEPT ![fd] = f]) = [Visible(fs) EXCEPT ![fd] = f]
BY DEF Visible

(***************************************************************************)
(* The call of a wrapper is the program's.                                 *)
(***************************************************************************)
LEMMA CallMaps ==
  ASSUME Inv, Inv', NEW t \in Threads, Call(t)
  PROVE  Program!Take(t)
<1> DEFINE c == thread[t].call
<1>1. /\ thread[t].pc = "call" /\ c \in Calls /\ ~HoldsLog(t)
      /\ c.op \in ByFd => c.fd \in Fds
      /\ c.op \in ByPath => c.path \in Paths
  BY WorkFacts, CallFacts DEF Inv, Call, HoldsLog, Writing
<1>2. PICK f \in Objects \cup {None} :
        /\ Native(c, f)
        /\ thread' = [thread EXCEPT ![t].acted = f,
             ![t].pc = IF ResolvesAfter(c) THEN "resolve" ELSE "get_fd"]
  BY DEF Call
<1> DEFINE r == [thread[t] EXCEPT !.acted = f,
                   !.pc = IF ResolvesAfter(c) THEN "resolve" ELSE "get_fd"]
<1>3. thread' = [thread EXCEPT ![t] = r] /\ Progress(r) = [call |-> c, phase |-> "done"]
  <2>1. thread' = [thread EXCEPT ![t] = r]
    BY <1>2 DEF Inv, TypeOK
  <2>2. thread[t] \in AtWork
    BY <1>1, WorkFacts DEF Inv
  <2>3. r.call = c /\ r.pc \in {"resolve", "get_fd"}
    BY <2>2 DEF AtWork
  <2> QED
    BY <2>1, <2>3 DEF Progress, Phase
<1> HIDE DEF r
<1>4. Doing[t] = [call |-> c, phase |-> "begun"]
  <2>1. Doing[t] = Progress(thread[t])
    BY DoingIs
  <2> QED
    BY <1>1, <2>1 DEF Progress, Phase
<1>5. Doing' = [Doing EXCEPT ![t].phase = "done"]
  <2>1. Doing' = [Doing EXCEPT ![t] = Progress(r)]
    BY <1>3, DoingChanges DEF Inv
  <2>2. [Doing[t] EXCEPT !.phase = "done"] = Progress(r)
    BY <1>3, <1>4
  <2> QED
    BY <2>1, <2>2
<1>6. ProgramsTable = Visible(fds) /\ ProgramsTable' = Visible(fds')
  BY TableIs
<1>7. fds \in [Fds -> Objects \cup {None}] /\ None # LogFile
  BY DEF Inv, TypeOK
<1>8. Program!Open(c) \/ Program!Close(c) \/ Program!Remove(c) \/ Program!Rename(c) \/ Program!Other
  <2>1. CASE c.op \in Opening /\ linux_open(c, f)
    <3>1. Free # {} /\ Lowest \in Fds /\ fds[Lowest] = None /\ fds' = [fds EXCEPT ![Lowest] = f]
      BY <2>1, LowestIsFree DEF linux_open, Free
    <3>2. c.op = "tmpfile" \/ (c.op \in ByPath /\ c.path \in Paths)
      BY <1>1, <2>1 DEF Opening, ByPath
    <3>3. f \in Files
      BY <2>1, <3>2 DEF linux_open, Unnamed, Inv, TypeOK
    <3>4. f \in Objects /\ f # LogFile
      BY <3>3 DEF Objects
    <3>5. ProgramsTable[Lowest] = None /\ ProgramsTable' = [ProgramsTable EXCEPT ![Lowest] = f]
      <4>1. Visible(fds)[Lowest] = None
        BY <1>7, <3>1 DEF Visible
      <4> QED
        BY <1>6, <1>7, <3>1, <3>4, <4>1, VisibleExcept
    <3>6. Cardinality(Program!Lower(Lowest) \ {stderr}) <= Cardinality(Threads) - 1
      BY <1>1, <3>1, FewAreTaken
    <3>7. IF c.op = "tmpfile" THEN UNCHANGED dir
          ELSE /\ dir[c.path] \in {None, f}
               /\ dir' = [dir EXCEPT ![c.path] = f]
      BY <2>1 DEF linux_open
    <3>8. UNCHANGED stderr
      BY <2>1 DEF linux_open
    <3>9. Program!Open(c)
      <4> SUFFICES \E fd \in Fds, g \in Objects :
                     /\ ProgramsTable[fd] = None
                     /\ Cardinality(Program!Lower(fd) \ {stderr}) <= Cardinality(Threads) - 1
                     /\ ProgramsTable' = [ProgramsTable EXCEPT ![fd] = g]
                     /\ IF c.op = "tmpfile" THEN UNCHANGED dir
                        ELSE /\ dir[c.path] \in {None, g}
                             /\ dir' = [dir EXCEPT ![c.path] = g]
        BY <2>1, <3>8, ProgramsCardinality DEF Program!Open, Opening
      <4>1. Lowest \in Fds /\ f \in Objects
        BY <3>1, <3>4
      <4> HIDE DEF c
      <4> QED
        BY <3>5, <3>6, <3>7, <4>1
    <3> QED
      BY <3>9
  <2>2. CASE c.op \in ByFd /\ UNCHANGED dir /\ c.op \in {"close", "fclose"} /\ linux_close(c.fd)
            /\ stderr' = (IF c.op = "fclose" /\ c.stderr THEN -1 ELSE stderr)
    <3>1. ProgramsTable' = [ProgramsTable EXCEPT ![c.fd] = None]
      BY <1>1, <1>6, <1>7, <2>2, VisibleExcept DEF linux_close
    <3> QED
      BY <2>2, <3>1 DEF Program!Close
  <2>3. CASE c.op = "remove" /\ linux_remove(c.path) /\ UNCHANGED <<fds, stderr>>
    BY <1>6, <2>3 DEF Program!Remove, linux_remove
  <2>4. CASE c.op = "rename" /\ linux_rename(c.path, c.to) /\ UNCHANGED <<fds, stderr>>
    BY <1>6, <2>4 DEF Program!Rename, linux_rename
  <2>5. CASE UNCHANGED <<fds, stderr, dir>>
    BY <1>6, <2>5 DEF Program!Other
  <2> QED
    BY <1>2, <2>1, <2>2, <2>3, <2>4, <2>5 DEF Native, linux_fclose
<1> QED
  BY <1>4, <1>5, <1>8 DEF Program!Take

(***************************************************************************)
(* The rest of a wrapper is nothing to the program but its return.         *)
(***************************************************************************)
LEMMA StepMaps ==
  ASSUME Inv, Inv', NEW t \in Threads,
         \/ \E c \in Calls : Begin(t, c)
         \/ Call(t) \/ Resolve(t) \/ get_fd(t) \/ print_log(t) \/ close_fd(t)
  PROVE  [Program!Next]_<<ProgramsTable, stderr, dir, Doing>>
<1>1. ProgramsTable = Visible(fds) /\ ProgramsTable' = Visible(fds')
  BY TableIs
<1>2. Doing[t] = Progress(thread[t])
  BY DoingIs
<1>3. CASE \E c \in Calls : Begin(t, c)
  <2>1. PICK c \in Calls : Begin(t, c)
    BY <1>3
  <2> DEFINE r == [pc |-> "call", call |-> c, acted |-> None, fd |-> -1,
                   names |-> IF c.op \in ResolvedFirst THEN Resolved(c) ELSE {}]
  <2>2. thread' = [thread EXCEPT ![t] = r] /\ thread[t] = Idle /\ UNCHANGED <<fds, stderr, dir>>
    BY <2>1 DEF Begin
  <2>3. Progress(r) = [call |-> c, phase |-> "begun"] /\ Progress(Idle) = Program!InProgram
    BY DEF Progress, Phase, Idle, Program!InProgram
  <2>4. Doing' = [Doing EXCEPT ![t] = [call |-> c, phase |-> "begun"]] /\ Doing[t] = Program!InProgram
    BY <1>2, <2>2, <2>3, DoingChanges DEF Inv
  <2>5. Program!Begin(t)
    BY <1>1, <2>2, <2>4 DEF Program!Begin
  <2> QED
    BY <2>5 DEF Program!Next
<1>4. CASE Call(t)
  BY <1>4, CallMaps DEF Program!Next
<1>5. ASSUME thread[t].pc \notin {"program", "call"},
             NEW r, thread' = [thread EXCEPT ![t] = r], r.pc \notin {"program", "call"},
             r.call = thread[t].call, Visible(fds') = Visible(fds), UNCHANGED <<stderr, dir>>
      PROVE  UNCHANGED <<ProgramsTable, stderr, dir, Doing>>
  <2>1. Progress(r) = Doing[t]
    BY <1>2, <1>5 DEF Progress, Phase
  <2>2. Doing' = [Doing EXCEPT ![t] = Doing[t]]
    BY <1>5, <2>1, DoingChanges DEF Inv
  <2>3. Doing' = Doing
    BY <2>2 DEF Doing
  <2> QED
    BY <1>1, <1>5, <2>3
<1>6. CASE Resolve(t) \/ print_log(t) \/ get_fd(t)
  <2>1. thread[t] \in AtWork /\ thread[t].pc \notin {"program", "call"}
    BY <1>6, WorkFacts DEF Inv, Resolve, print_log, get_fd
  <2>2. CASE UNCHANGED thread
    <3>1. UNCHANGED <<fds, stderr, dir>>
      BY <1>6, <2>2, <2>1 DEF Resolve, print_log, get_fd, Inv, TypeOK, AtWork
    <3> QED
      BY <1>1, <2>2, <3>1 DEF Doing
  <2>3. CASE ~UNCHANGED thread
    <3>1. PICK r : thread' = [thread EXCEPT ![t] = r] /\ r.pc \notin {"program", "call"}
                   /\ r.call = thread[t].call
      BY <1>6, <2>1, <2>3 DEF Resolve, print_log, get_fd, Inv, TypeOK, AtWork
    <3>2. UNCHANGED <<stderr, dir>> /\ Visible(fds') = Visible(fds)
      BY <1>6, LowestIsFree DEF Resolve, print_log, get_fd, Visible, LogFd, Free, Inv, TypeOK
    <3> QED
      BY <1>5, <2>1, <3>1, <3>2
  <2> QED
    BY <2>2, <2>3
<1>7. CASE close_fd(t)
  <2>1. thread[t] \in AtWork /\ thread[t].pc = "close_fd" /\ thread' = [thread EXCEPT ![t] = Idle]
        /\ UNCHANGED <<stderr, dir>>
    BY <1>7, WorkFacts DEF Inv, close_fd
  <2>2. Visible(fds') = Visible(fds)
    <3>1. CASE HoldsLog(t)
      BY <1>7, <3>1 DEF Inv, LogInv, close_fd, linux_close, Visible, TypeOK
    <3>2. CASE ~HoldsLog(t)
      BY <1>7, <2>1, <3>2 DEF Inv, LogInv, close_fd, Closes, HoldsLog, Writing
    <3> QED
      BY <3>1, <3>2
  <2>3. Doing[t].phase = "done" /\ Doing' = [Doing EXCEPT ![t] = Program!InProgram]
    <3>1. Progress(Idle) = Program!InProgram
      BY DEF Progress, Phase, Idle, Program!InProgram
    <3>2. Doing[t].phase = "done"
      BY <1>2, <2>1 DEF Progress, Phase
    <3>3. Doing' = [Doing EXCEPT ![t] = Progress(Idle)]
      BY <2>1, DoingChanges DEF Inv
    <3> QED
      BY <3>1, <3>2, <3>3
  <2>4. Program!Return(t)
    BY <1>1, <2>1, <2>2, <2>3 DEF Program!Return
  <2> QED
    BY <2>4 DEF Program!Next
<1> QED
  BY <1>3, <1>4, <1>6, <1>7

(***************************************************************************)
(* A program that is logged runs as it does without the logger, on the     *)
(* descriptors the wrappers (logger.cpp) leave it.                         *)
(***************************************************************************)
THEOREM LoggerIsTransparent == SpecQuiet => Transparent
<1>1. Init => Program!Init
  <2> SUFFICES ASSUME Init
               PROVE  Program!Init
    OBVIOUS
  <2>1. Inv
    BY InitHolds
  <2>2. ProgramsTable = Visible(fds)
    BY TableIs
  <2>3. ProgramsTable \in [Fds -> Objects \cup {None}]
    BY <2>1, <2>2 DEF Visible, Inv, TypeOK
  <2>4. dir \in [Paths -> Objects \cup {None}] /\ stderr \in {2, -1}
    BY <2>1 DEF Inv, TypeOK, Objects
  <2>5. Doing = [t \in Threads |-> Program!InProgram]
    BY DEF Doing, Init, Idle, Program!InProgram
  <2> QED
    BY <2>3, <2>4, <2>5 DEF Program!Init
<1>2. Inv /\ Inv' /\ [Next /\ StderrQuiet]_vars => [Program!Next]_<<ProgramsTable, stderr, dir, Doing>>
  <2>1. ASSUME UNCHANGED vars
        PROVE  UNCHANGED <<ProgramsTable, stderr, dir, Doing>>
    BY <2>1 DEF vars, ProgramsTable, Doing
  <2>2. ASSUME Inv, Inv', Next
        PROVE  [Program!Next]_<<ProgramsTable, stderr, dir, Doing>>
    BY <2>2, StepMaps DEF Next
  <2> QED
    BY <2>1, <2>2
<1> QED
  BY <1>1, <1>2, Invariant, PTL DEF SpecQuiet, Transparent, Program!Spec

-----------------------------------------------------------------------------
(***************************************************************************)
(* With -o, or with an OUTPUT_FILE of the caller's (hw2.cpp:63-66), the    *)
(* program may close its stderr at any time, by close or by fclose: the    *)
(* records go on reaching the log, only 2 may be left open on it, and      *)
(* util.cpp:13-17 never throws.                                            *)
(***************************************************************************)
ToFile == OUTPUT_FILE # None /\ ~aborted

LEMMA FileStays == ToFile /\ [Next]_vars => ToFile' /\ [Next /\ StderrQuiet]_vars
<1> SUFFICES ASSUME ToFile, [Next]_vars
             PROVE  ToFile' /\ [Next /\ StderrQuiet]_vars
  OBVIOUS
<1>1. OUTPUT_FILE' = OUTPUT_FILE /\ aborted' = aborted
  BY DEF ToFile, Next, Begin, Call, Resolve, get_fd, print_log, close_fd, vars
<1> QED
  BY <1>1 DEF ToFile, StderrQuiet

THEOREM WithAFileAllHolds ==
  Spec /\ OUTPUT_FILE # None =>
    /\ [](RecordsReachLog /\ LogNotLeaked /\ NamesTheFile /\ NeverAborts)
    /\ Transparent
<1>1. Init /\ OUTPUT_FILE # None => ToFile
  BY DEF Init, ToFile
<1>2. ToFile => NeverAborts
  BY DEF ToFile, NeverAborts
<1>3. Spec /\ OUTPUT_FILE # None => SpecQuiet /\ []ToFile
  BY <1>1, FileStays, PTL DEF Spec, SpecQuiet
<1> QED
  BY <1>2, <1>3, RecordsAreLogged, NoLogLeaks, RecordsNameTheFile, LoggerIsTransparent, PTL
=============================================================================
