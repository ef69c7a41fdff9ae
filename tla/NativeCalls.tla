---------------------------- MODULE NativeCalls -----------------------------
(***************************************************************************)
(* What logger.so promises the program it is loaded into: its threads make *)
(* calls, each takes effect once, between its beginning and its return,    *)
(* on the program's own descriptors and on the names of its files, and     *)
(* nothing else happens to these.  A new descriptor is the lowest that is  *)
(* free, but for Slack others and for the number of stderr, which may be   *)
(* passed over while that FILE is open.                                    *)
(***************************************************************************)
EXTENDS Integers, FiniteSets

CONSTANTS Threads, Fds, Paths, Objects, Calls, None, Slack

VARIABLES
  table,  (* the file each descriptor is open on, or None                  *)
  stderr, (* fileno(stderr), -1 after fclose(stderr)                       *)
  dir,    (* the file each name stands for, or None                        *)
  doing   (* how far each thread is with its call                          *)

InProgram == [call |-> None, phase |-> "program"]

Init ==
  /\ table \in [Fds -> Objects \cup {None}]
  /\ stderr \in {2, -1}
  /\ dir \in [Paths -> Objects \cup {None}]
  /\ doing = [t \in Threads |-> InProgram]

Begin(t) ==
  /\ doing[t] = InProgram
  /\ \E c \in Calls : doing' = [doing EXCEPT ![t] = [call |-> c, phase |-> "begun"]]
  /\ UNCHANGED <<table, stderr, dir>>

Lower(fd) == {g \in Fds : g < fd /\ table[g] = None}

Open(c) ==
  /\ c.op \in {"creat", "open", "fopen", "tmpfile"}
  /\ \E fd \in Fds, f \in Objects :
       /\ table[fd] = None
       /\ Cardinality(Lower(fd) \ {stderr}) <= Slack
       /\ table' = [table EXCEPT ![fd] = f]
       /\ IF c.op = "tmpfile" THEN UNCHANGED dir
          ELSE /\ dir[c.path] \in {None, f}
               /\ dir' = [dir EXCEPT ![c.path] = f]
  /\ UNCHANGED stderr

Close(c) ==
  /\ c.op \in {"close", "fclose"}
  /\ table' = [table EXCEPT ![c.fd] = None]
  /\ stderr' = IF c.op = "fclose" /\ c.stderr THEN -1 ELSE stderr
  /\ UNCHANGED dir

Remove(c) ==
  /\ c.op = "remove"
  /\ dir' = [dir EXCEPT ![c.path] = None]
  /\ UNCHANGED <<table, stderr>>

Rename(c) ==
  /\ c.op = "rename"
  /\ dir' = [dir EXCEPT ![c.to] = dir[c.path], ![c.path] = None]
  /\ UNCHANGED <<table, stderr>>

\* Reading, writing, changing modes, and all that fails.
Other == UNCHANGED <<table, stderr, dir>>

Take(t) ==
  /\ doing[t].phase = "begun"
  /\ LET c == doing[t].call
     IN  Open(c) \/ Close(c) \/ Remove(c) \/ Rename(c) \/ Other
  /\ doing' = [doing EXCEPT ![t].phase = "done"]

Return(t) ==
  /\ doing[t].phase = "done"
  /\ doing' = [doing EXCEPT ![t] = InProgram]
  /\ UNCHANGED <<table, stderr, dir>>

Next == \E t \in Threads : Begin(t) \/ Take(t) \/ Return(t)

Spec == Init /\ [][Next]_<<table, stderr, dir, doing>>
=============================================================================
