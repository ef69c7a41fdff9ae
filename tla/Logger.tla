------------------------------- MODULE Logger -------------------------------
(***************************************************************************)
(* logger.so (HW2): the wrappers that a program's calls of the file        *)
(* functions go through, in any number of threads.  A wrapper resolves     *)
(* the names it is to log, before or after the call it wraps, and then     *)
(* opens the log, writes its record and closes the log again.              *)
(***************************************************************************)
EXTENDS Integers, FiniteSets

CONSTANTS
  Threads,
  Fds,       (* the descriptors of the process, bounded by its limit        *)
  Paths,     (* the names the program uses                                 *)
  Files,     (* what they can stand for                                    *)
  Terminal,  (* what standard input, output and error are open on          *)
  LogFile,   (* the file of -o                                             *)
  Ops,       (* the wrapped functions the program calls                    *)
  None

Opening == {"creat", "open", "fopen", "tmpfile"}
ByPath == {"chmod", "chown", "creat", "open", "fopen", "remove", "rename"}
ByStream == {"fclose", "fread", "fwrite"}
ByFd == {"close", "read", "write"} \cup ByStream

ASSUME LoggerAssumption ==
  /\ IsFiniteSet(Threads)
  /\ Fds \subseteq Nat /\ 2 \in Fds
  /\ Ops \subseteq {"tmpfile"} \cup ByPath \cup ByFd
  /\ {Terminal, LogFile, None} \cap Files = {}
  /\ Terminal # LogFile /\ None \notin {Terminal, LogFile}
  /\ None \notin Paths

Calls ==
  [op : Ops \cap {"tmpfile"}, path : {None}]
    \cup [op : Ops \cap (ByPath \ {"rename"}), path : Paths]
    \cup {c \in [op : Ops \cap {"rename"}, path : Paths, to : Paths] : c.path # c.to}
    \cup [op : Ops \cap (ByFd \ ByStream), fd : Fds]
    \cup {c \in [op : Ops \cap ByStream, fd : Fds, stderr : BOOLEAN] : c.stderr => c.fd = 2}

VARIABLES
  OUTPUT_FILE,  (* of the environment: LogFile, or None                    *)
  fds,          (* the file each descriptor is open on, or None            *)
  streams,      (* the descriptors of the FILEs it has opened              *)
  stderr,       (* fileno(stderr): 2, or -1 after fclose(stderr)           *)
  dir,          (* the file each name stands for, or None                  *)
  thread,       (* what each thread is doing in the logger                 *)
  overtaken,    (* observes the threads that others have overtaken         *)
  aborted       (* the logger has thrown an exception                      *)

Objects == Files \cup {Terminal, LogFile}

Idle == [pc |-> "program", call |-> None, names |-> {}, acted |-> None, fd |-> -1]

vars == <<OUTPUT_FILE, fds, streams, stderr, dir, thread, overtaken, aborted>>

\* acted observes the file the call has worked on, None if it failed.
AtWork == [pc : {"call", "resolve", "get_fd", "write", "close_fd"}, call : Calls,
           names : SUBSET (Objects \cup {None}), acted : Files \cup {Terminal, None},
           fd : Fds \cup {-1}]

TypeOK ==
  /\ OUTPUT_FILE \in {LogFile, None}
  /\ fds \in [Fds -> Objects \cup {None}]
  /\ streams \subseteq Fds
  /\ stderr \in {2, -1}
  /\ dir \in [Paths -> Files \cup {None}]
  /\ thread \in [Threads -> AtWork \cup {Idle}]
  /\ overtaken \subseteq Threads
  /\ aborted \in BOOLEAN

(***************************************************************************)
(* The launcher: -o puts a file into the environment of the program;       *)
(* without it putenv gets an empty string, and what was there stays.       *)
(***************************************************************************)
main(o, inherited) == IF o THEN LogFile ELSE inherited

Init ==
  /\ \E o \in BOOLEAN, inherited \in {LogFile, None} : OUTPUT_FILE = main(o, inherited)
  /\ fds = [fd \in Fds |-> IF fd \in {0, 1, 2} THEN Terminal ELSE None]
  /\ streams = {}
  /\ stderr = 2
  /\ dir = [path \in Paths |-> None]
  /\ thread = [t \in Threads |-> Idle]
  /\ overtaken = {}
  /\ aborted = FALSE

(***************************************************************************)
(* The functions of libc behind linux_open and the others.  Each may fail  *)
(* and change nothing; a descriptor is always the lowest free one.         *)
(***************************************************************************)
Free == {fd \in Fds : fds[fd] = None}
Lowest == CHOOSE fd \in Free : \A g \in Free : fd <= g
Unnamed == {f \in Files : \A p \in Paths : dir[p] # f} \ {fds[fd] : fd \in Fds}

\* creat and fopen are open with flags; a FILE has its own descriptor.
linux_open(c, f) ==
  /\ Free # {}
  /\ fds' = [fds EXCEPT ![Lowest] = f]
  /\ IF c.op = "tmpfile" \/ dir[c.path] = None THEN f \in Unnamed ELSE f = dir[c.path]
  /\ dir' = IF c.op = "tmpfile" THEN dir ELSE [dir EXCEPT ![c.path] = f]
  /\ streams' = IF c.op \in {"fopen", "tmpfile"} THEN streams \cup {Lowest} ELSE streams
  /\ UNCHANGED stderr

linux_close(fd) == fds' = [fds EXCEPT ![fd] = None]

\* The descriptor that is closed may have been closed and opened anew since
\* the FILE got it.
linux_fclose(c) ==
  /\ linux_close(c.fd)
  /\ streams' = IF c.stderr THEN streams ELSE streams \ {c.fd}
  /\ stderr' = IF c.stderr THEN -1 ELSE stderr

linux_remove(path) == dir' = [dir EXCEPT ![path] = None]

linux_rename(old, new) == dir' = [dir EXCEPT ![new] = dir[old], ![old] = None]

\* The file each of them works on, and what it does.
Native(c, f) ==
  \/ c.op \in Opening /\ linux_open(c, f)
  \/ /\ c.op \in ByFd /\ f = fds[c.fd]
     /\ CASE c.op = "close"  -> linux_close(c.fd) /\ UNCHANGED <<streams, stderr>>
          [] c.op = "fclose" -> linux_fclose(c)
          [] OTHER           -> UNCHANGED <<fds, streams, stderr>>
     /\ UNCHANGED dir
  \/ /\ c.op \in ByPath \ Opening /\ f = dir[c.path] /\ f # None
     /\ CASE c.op = "remove" -> linux_remove(c.path)
          [] c.op = "rename" -> linux_rename(c.path, c.to)
          [] OTHER           -> UNCHANGED dir
     /\ UNCHANGED <<fds, streams, stderr>>
  \/ f = None /\ UNCHANGED <<fds, streams, stderr, dir>>

(***************************************************************************)
(* Names in the log stand for the file found under them; None is a name or *)
(* a descriptor that could not be resolved.                                *)
(***************************************************************************)
resolve_fd(fd) == fds[fd]
realpath(path) == dir[path]

\* The wrappers that resolve before they call; a bug would be to have remove
\* do it afterwards, like chmod.
ResolvedFirst_NotRemove == {"close", "fclose", "read", "write", "fwrite", "rename"}

ResolvedFirst == {"close", "fclose", "read", "write", "fwrite", "remove", "rename"}

Resolved(c) ==
  CASE c.op \in ByFd -> {resolve_fd(c.fd)}
    [] c.op \in ByPath -> {realpath(c.path)}
    [] OTHER -> {}

(***************************************************************************)
(* The program: a thread begins a call on a descriptor that the program    *)
(* has open, and on a FILE that is.  None uses a descriptor that another's *)
(* call, which has not returned yet, closes, or closes one that is in use. *)
(* What threads do with the names of files is theirs to decide.            *)
(***************************************************************************)
Own == {fd \in Fds : fds[fd] \notin {None, LogFile}}

FdOf(c) == IF c.op \in ByFd THEN {c.fd} ELSE {}

Conflict(c, d) == FdOf(c) \cap FdOf(d) # {} /\ {c.op, d.op} \cap {"close", "fclose"} # {}

Careful(c) ==
  /\ FdOf(c) \subseteq Own
  /\ c.op \in ByStream => IF c.stderr THEN stderr = c.fd ELSE c.fd \in streams
  /\ \A u \in Threads : thread[u] # Idle => ~Conflict(c, thread[u].call)

(***************************************************************************)
(* The wrappers.                                                           *)
(***************************************************************************)
Begin(t, c) ==
  /\ thread[t] = Idle
  /\ Careful(c)
  /\ thread' = [thread EXCEPT ![t] =
       [pc |-> "call", call |-> c, acted |-> None, fd |-> -1,
        names |-> IF c.op \in ResolvedFirst THEN Resolved(c) ELSE {}]]
  /\ UNCHANGED <<OUTPUT_FILE, fds, streams, stderr, dir, overtaken, aborted>>

ResolvesAfter(c) == c.op \notin ResolvedFirst \cup {"tmpfile"} \/ c.op = "rename"

\* The names a wrapper has resolved and not yet called with, or called with
\* and not yet resolved: to change one of them now is to overtake it.
AtStake(r) ==
  {p \in Paths :
     \/ r.pc = "call" /\ r.call.op \in ResolvedFirst \cap ByPath /\ p = r.call.path
     \/ r.pc = "resolve" /\ r.call.op = "rename" /\ p = r.call.to
     \/ r.pc = "resolve" /\ r.call.op \in ByPath \ {"rename"} /\ p = r.call.path}

Call(t) ==
  /\ thread[t].pc = "call"
  /\ \E f \in Objects \cup {None} :
       /\ Native(thread[t].call, f)
       /\ thread' = [thread EXCEPT ![t].acted = f,
            ![t].pc = IF ResolvesAfter(thread[t].call) THEN "resolve" ELSE "get_fd"]
  /\ overtaken' = overtaken \cup
       {u \in Threads \ {t} : \E p \in AtStake(thread[u]) : dir'[p] # dir[p]}
  /\ UNCHANGED <<OUTPUT_FILE, aborted>>

Resolve(t) ==
  /\ thread[t].pc = "resolve"
  /\ LET c == thread[t].call
         names == IF c.op = "rename" THEN {realpath(c.to)} ELSE Resolved(c)
     IN  thread' = [thread EXCEPT ![t].pc = "get_fd", ![t].names = @ \cup names]
  /\ UNCHANGED <<OUTPUT_FILE, fds, streams, stderr, dir, overtaken, aborted>>

\* A bug would be to leave fd as it is initialized.
LogFd_Zero == 0

\* Another would be to share one descriptor of the log.
LogFd_Shared ==
  LET held == {fd \in Fds : fds[fd] = LogFile}
  IN  IF held # {} THEN CHOOSE fd \in held : TRUE ELSE Lowest

LogFd == Lowest

\* Without OUTPUT_FILE and with no stderr, the message that the log cannot be
\* opened is made from a null pointer, and std::string throws.  Where it is
\* made, it is written to fileno(stderr), which changes nothing modelled here.
get_fd(t) ==
  /\ thread[t].pc = "get_fd"
  /\ \/ /\ OUTPUT_FILE = None /\ stderr = -1
        /\ aborted' = TRUE
        /\ UNCHANGED <<fds, thread>>
     \/ /\ OUTPUT_FILE = None /\ stderr # -1
        /\ thread' = [thread EXCEPT ![t].pc = "write", ![t].fd = stderr]
        /\ UNCHANGED <<fds, aborted>>
     \/ /\ OUTPUT_FILE # None /\ Free # {}
        /\ thread' = [thread EXCEPT ![t].pc = "write", ![t].fd = LogFd]
        /\ fds' = [fds EXCEPT ![LogFd] = LogFile]
        /\ UNCHANGED aborted
     \/ /\ OUTPUT_FILE # None
        /\ thread' = [thread EXCEPT ![t].pc = "write", ![t].fd = -1]
        /\ UNCHANGED <<fds, aborted>>
  /\ UNCHANGED <<OUTPUT_FILE, streams, stderr, dir, overtaken>>

print_log(t) ==
  /\ thread[t].pc = "write"
  /\ thread' = [thread EXCEPT ![t].pc = "close_fd", ![t].names = {}, ![t].acted = None]
  /\ overtaken' = overtaken \ {t}
  /\ UNCHANGED <<OUTPUT_FILE, fds, streams, stderr, dir, aborted>>

\* The log is closed unless it has the number of stderr, which it may have
\* got itself, once the program has closed 2.  A bug would be to take every
\* low number for a standard stream.
Closes_Above(fd) == fd > 2

\* Another would be to close it whatever it is.
Closes_Any(fd) == TRUE

Closes(fd) == fd # stderr

close_fd(t) ==
  /\ thread[t].pc = "close_fd"
  /\ LET fd == thread[t].fd
     IN  IF fd # -1 /\ Closes(fd) THEN linux_close(fd) ELSE UNCHANGED fds
  /\ thread' = [thread EXCEPT ![t] = Idle]
  /\ UNCHANGED <<OUTPUT_FILE, streams, stderr, dir, overtaken, aborted>>

-----------------------------------------------------------------------------
Next ==
  /\ ~aborted
  /\ \E t \in Threads :
       \/ \E c \in Calls : Begin(t, c)
       \/ Call(t) \/ Resolve(t) \/ get_fd(t) \/ print_log(t) \/ close_fd(t)

Spec == Init /\ [][Next]_vars

\* A program that does not close stderr while a record is on its way there.
StderrQuiet ==
  OUTPUT_FILE = None /\ stderr' # stderr =>
    \A t \in Threads : thread[t].pc \notin {"write", "close_fd"}

SpecQuiet == Init /\ [][Next /\ StderrQuiet]_vars

(***************************************************************************)
(* A record that is written goes to the log: with OUTPUT_FILE, no thread   *)
(* of the program or of the logger has closed its descriptor or taken it   *)
(* over since it was opened; without, it is stderr's.  The records of      *)
(* calls for which the log cannot be opened (util.cpp:13-18) are lost.     *)
(***************************************************************************)
RecordsReachLog ==
  \A t \in Threads :
    thread[t].pc = "write" /\ thread[t].fd # -1 =>
      IF OUTPUT_FILE = None THEN thread[t].fd = stderr
      ELSE fds[thread[t].fd] = LogFile

(***************************************************************************)
(* The log is open only while a record is on its way, once for each: none  *)
(* of its descriptors is left behind, to be written to by the program or   *)
(* to use up the limit, but for 2, which close_fd (util.cpp:23-25) takes   *)
(* for stderr's when the log is opened as 2 after the program's close(2).  *)
(***************************************************************************)
LogNotLeaked ==
  \A fd \in Fds : fds[fd] = LogFile =>
    \/ fd = stderr
    \/ \E t \in Threads : thread[t].pc \in {"write", "close_fd"} /\ thread[t].fd = fd

(***************************************************************************)
(* The record of a call that succeeds names the file the call has worked   *)
(* on, whatever other threads open, close, remove and rename meanwhile,    *)
(* unless one changes what the name stands for in the window between the   *)
(* call and its resolution: no other moment of the wrapper is exposed.     *)
(***************************************************************************)
NamesTheFile ==
  \A t \in Threads \ overtaken :
    thread[t].pc = "write" /\ thread[t].acted # None /\ thread[t].call.op # "tmpfile" =>
      thread[t].names = {thread[t].acted}

(***************************************************************************)
(* The program runs as it would without the logger, but that the log       *)
(* takes up a descriptor in each of the other threads, and that 2 is not   *)
(* given out again once it has been closed by close and not by fclose.     *)
(***************************************************************************)
ProgramsTable == [fd \in Fds |-> IF fds[fd] = LogFile THEN None ELSE fds[fd]]

Doing ==
  [t \in Threads |->
     [call |-> thread[t].call,
      phase |-> CASE thread[t].pc = "program" -> "program"
                  [] thread[t].pc = "call" -> "begun"
                  [] OTHER -> "done"]]

Program == INSTANCE NativeCalls WITH
  table <- ProgramsTable, doing <- Doing, Slack <- Cardinality(Threads) - 1

Transparent == Program!Spec

(***************************************************************************)
(* The logger never ends the program it logs (HW2/README.md:92-97 shows    *)
(* ls, which closes stderr, logged to its end).                            *)
(***************************************************************************)
NeverAborts == ~aborted
=============================================================================
