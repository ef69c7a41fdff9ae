------------------------------- MODULE Procfs -------------------------------
(***************************************************************************)
(* What HW1/hw1.cpp sees of Linux through /proc: processes that start,     *)
(* end, and open, close and replace files while they are being listed.     *)
(* Nothing here is in the repository: the module is external and is        *)
(* written from the calls the scanner makes.                               *)
(*                                                                         *)
(* A place is where a process holds a file: its working directory, its     *)
(* root, its program, or a descriptor.                                     *)
(***************************************************************************)
EXTENDS Naturals, Functions

CONSTANTS
  Pids,       (* process ids                                               *)
  FdName,     (* FdName[n] is the name of the n-th descriptor              *)
  Files,      (* files; a file stands for its name and for its inode       *)
  Nothing,    (* what a place without a file holds                         *)
  Births,     (* what a process may be like when it starts                 *)
  MaxChanges  (* bound: changes of processes during the scan               *)

Links  == {"cwd", "root", "exe"}
Fds    == DOMAIN FdName
Places == Links \cup {FdName[n] : n \in Fds}

(* matches: its comm matches the -c filter.  named: its uid has a name.    *)
(* denied: the scanner may not look inside.  maps: files in its memory.    *)
(* id tells apart the processes that have a pid one after the other.       *)
Process == [id : 0 .. MaxChanges, matches : BOOLEAN, named : BOOLEAN, denied : BOOLEAN,
            zombie : BOOLEAN, maps : SUBSET Files,
            at : [Places -> Files \cup {Nothing}]]
Gone == [gone |-> TRUE]

ASSUME ProcfsAssumption ==
  /\ Pids \subseteq Nat \ {0}
  /\ Fds \subseteq Nat \ {0}
  /\ Links \cap {FdName[n] : n \in Fds} = {}
  /\ \A m, n \in Fds : FdName[m] = FdName[n] => m = n
  /\ Nothing \notin Files
  /\ Births \subseteq Process
  /\ \A q \in Births : q.id = 0
  /\ MaxChanges \in Nat

VARIABLES
  proc,     (* the processes                                               *)
  changes,  (* how often they have changed                                 *)
  touched   (* history: the places that changed since the scan began       *)

procVars == <<proc, changes, touched>>

ProcfsTypeOK ==
  /\ proc \in [Pids -> Process \cup {Gone}]
  /\ changes \in 0 .. MaxChanges
  /\ touched \subseteq Pids \X Places

ProcfsInit ==
  /\ proc \in [Pids -> Births \cup {Gone}]
  /\ changes = 0
  /\ touched = {}

Exists(p) == proc[p] # Gone

-----------------------------------------------------------------------------
(* What the scanner's calls return.                                        *)

\* readlink and stat of a place fail with EACCES, or because nothing is there.
Refused(p) == Exists(p) /\ proc[p].denied
Held(p, x) == IF Exists(p) /\ ~proc[p].zombie THEN proc[p].at[x] ELSE Nothing

\* The files in /proc/<pid>/maps, and the numbers in /proc/<pid>/fd.
Mapped(p) == IF Exists(p) /\ ~proc[p].zombie THEN proc[p].maps ELSE {}
Open(p)   == {n \in Fds : Held(p, FdName[n]) # Nothing}

\* The same through a directory opened when id had the pid.
OpenOf(p, id) == IF Exists(p) /\ proc[p].id = id THEN Open(p) ELSE {}

-----------------------------------------------------------------------------
(* What the processes do.                                                  *)

Change(p, q, xs) ==
  /\ changes < MaxChanges
  /\ changes' = changes + 1
  /\ proc' = [proc EXCEPT ![p] = q]
  /\ touched' = touched \cup ({p} \X xs)

Spawn(p) ==
  /\ ~Exists(p)
  /\ \E q \in Births : Change(p, [q EXCEPT !.id = changes + 1], Places)

Die(p) ==
  /\ Exists(p)
  /\ ~proc[p].zombie
  /\ Change(p, [proc[p] EXCEPT !.zombie = TRUE], Places)

Reap(p) == Exists(p) /\ proc[p].zombie /\ Change(p, Gone, Places)

\* chdir and chroot, open, dup2 and close.
Move(p) ==
  /\ Exists(p)
  /\ ~proc[p].zombie
  /\ \/ \E x \in {"cwd", "root"} : \E f \in Files \ {proc[p].at[x]} :
          Change(p, [proc[p] EXCEPT !.at[x] = f], {x})
     \/ \E n \in Fds : \E f \in (Files \cup {Nothing}) \ {proc[p].at[FdName[n]]} :
          Change(p, [proc[p] EXCEPT !.at[FdName[n]] = f], {FdName[n]})

ProcessesChange == \E p \in Pids : Spawn(p) \/ Die(p) \/ Reap(p) \/ Move(p)
=============================================================================
