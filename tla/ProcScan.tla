------------------------------ MODULE ProcScan ------------------------------
(***************************************************************************)
(* The scan of /proc in HW1 (hw1.cpp), from find_processes on.             *)
(*                                                                         *)
(* Each step is one look at /proc: between any two of them the processes   *)
(* of module Procfs change.  A process is collected in temp and appended   *)
(* to processes when all of its parts have been read, or dropped.          *)
(*                                                                         *)
(* An operator X_Y above X is a mutant: what X would be with a mistake in  *)
(* the code.  No specification uses one; they show what the properties     *)
(* catch.                                                                  *)
(***************************************************************************)
EXTENDS Procfs

CONSTANTS
  Kind,      (* the type of each file: DIR, REG, CHR, ...                  *)
  Filters,   (* the -t and -f arguments to consider                        *)
  Denied     (* the name and the node of what may not be looked at         *)

NoFilter == ""

(* What -f is asked about: the name of a file, and for what may not be     *)
(* looked at its path: <<p, "cwd">> is "/proc/p/cwd (Permission denied)",  *)
(* likewise of rtd and txt (247), but <<p, "NOFD">> is "/proc/p/fd", which *)
(* is asked without the mark it is listed with (383, 398).                 *)
Names == Files \cup (Pids \X {"cwd", "rtd", "txt", "NOFD"})

ASSUME ScanAssumption ==
  /\ Kind \in [Files -> STRING]
  /\ Filters \subseteq [type : STRING, names : SUBSET Names]
  /\ Denied \notin Files \cup {Nothing}
  /\ {FdName[n] : n \in Fds} \cap {"rtd", "txt", "mem", "NOFD"} = {}

VARIABLES
  filters,      (* type_filter, or none, and the names filename_regex lets *)
                (* through                                                 *)
  pc,           (* the next look at /proc                                  *)
  pids, pid,    (* entries of /proc read and not handled, and the last one *)
  place,        (* the place being resolved                                *)
  dirs,         (* directories that are open: <<pid, "fd" or "fdinfo">>    *)
  fd_dir,       (* which process had the pid when its fd was opened        *)
  fds, fd,      (* entries of it read and not handled, and the last one    *)
  buf, node,    (* what readlink and stat returned                         *)
  temp,         (* temp_processes                                          *)
  processes     (* the records to print                                    *)

pidVars  == <<pids, pid>>
fdVars   == <<fd_dir, fds, fd>>
resolved == <<buf, node>>
vars     == <<procVars, filters, pc, pidVars, place, dirs, fdVars, resolved,
              temp, processes>>

Init ==
  /\ ProcfsInit
  /\ filters \in Filters
  /\ pc = "next"
  /\ pids = {} /\ pid = 0
  /\ place = "cwd"
  /\ dirs = {}
  /\ fd_dir = 0 /\ fds = {} /\ fd = 0
  /\ buf = Nothing /\ node = Nothing
  /\ temp = {}
  /\ processes = {}

-----------------------------------------------------------------------------
(* Helpers.                                                                *)

Least(n, S) == \A m \in S : n <= m

Label_Swapped(x) == CASE x = "root" -> "txt" [] x = "exe" -> "rtd" [] OTHER -> x
Label(x)         == CASE x = "root" -> "rtd" [] x = "exe" -> "txt" [] OTHER -> x

Record(label, name, inode) ==
  [pid |-> pid, fd |-> label, name |-> name, node |-> inode]

TypeWanted(type) == filters.type \in {NoFilter, type}

\* The record of a file, or of what may not be looked at, if the filters let
\* it through.
Wanted(label, name, inode) ==
  IF TypeWanted(Kind[inode]) /\ name \in filters.names
  THEN {Record(label, name, inode)} ELSE {}

Unknown_TypeOnly(label) ==
  IF TypeWanted("unknown") THEN {Record(label, Denied, Denied)} ELSE {}
Unknown(label) ==
  IF TypeWanted("unknown") /\ <<pid, label>> \in filters.names
  THEN {Record(label, Denied, Denied)} ELSE {}

\* collect_information returns early, and temp is lost with it.
Drop_Appends == processes' = processes \cup temp
Drop         == UNCHANGED processes

Leave ==
  /\ Drop
  /\ pc' = "next"
  /\ UNCHANGED <<pidVars, place, fdVars, resolved, temp>>

\* collect_information ends with these records.
Append(records) == processes' = processes \cup records /\ pc' = "next"

\* After a link comes the next one, and maps after the last.
AfterLink ==
  \/ place = "cwd" /\ place' = "root" /\ pc' = "link"
  \/ place = "root" /\ place' = "exe" /\ pc' = "link"
  \/ place = "exe" /\ pc' = "maps" /\ UNCHANGED place

\* readlink and stat of a place get nothing.
Missing == Refused(pid) \/ Held(pid, place) = Nothing

-----------------------------------------------------------------------------
(* The looks at /proc.                                                     *)

\* readdir of /proc: entries come in the order of their numbers, a bufferful
\* at a time.
find_processes ==
  /\ pc = "next"
  /\ LET unread == IF pids # {} THEN pids ELSE {p \in Pids : Exists(p) /\ p > pid}
     IN  \/ /\ unread = {}
            /\ pc' = "done"
            /\ UNCHANGED <<pidVars, place, temp>>
         \/ \E p \in unread :
            /\ Least(p, unread)
            /\ pid' = p
            /\ pids' = unread \ {p}
            /\ temp' = {}
            /\ place' = "cwd"
            /\ pc' = "comm"
  /\ UNCHANGED <<fdVars, resolved, processes>>

find_command ==
  /\ pc = "comm"
  /\ \/ ~Exists(pid) /\ Leave
     \/ Exists(pid) /\ ~proc[pid].matches /\ Leave
     \/ /\ Exists(pid) /\ proc[pid].matches
        /\ pc' = "status"
        /\ UNCHANGED <<pidVars, place, fdVars, resolved, temp, processes>>

\* getpwuid returns null for a uid without a name.  When the process goes
\* between open and read, uid is never set and may be anything.
find_username ==
  /\ pc = "status"
  /\ \/ ~Exists(pid) /\ Leave
     \/ /\ Exists(pid) => proc[pid].named
        /\ pc' = "link"
        /\ UNCHANGED <<pidVars, place, fdVars, resolved, temp, processes>>
     \/ /\ Exists(pid) => ~proc[pid].named
        /\ pc' = "crashed"
        /\ UNCHANGED <<pidVars, place, fdVars, resolved, temp, processes>>

\* resolve_sym_link up to readlink.
read_link ==
  /\ pc = "link"
  /\ \/ /\ Refused(pid)
        /\ temp' = temp \cup Unknown(Label(place))
        /\ AfterLink
        /\ UNCHANGED <<pidVars, fdVars, resolved, processes>>
     \/ ~Refused(pid) /\ Missing /\ Leave
     \/ /\ ~Missing
        /\ buf' = Held(pid, place)
        /\ pc' = "stat"
        /\ UNCHANGED <<pidVars, place, fdVars, node, temp, processes>>

\* resolve_sym_link from stat on.
stat_link ==
  /\ pc = "stat"
  /\ \/ Missing /\ Leave
     \/ /\ ~Missing
        /\ node' = Held(pid, place)
        /\ temp' = temp \cup Wanted(Label(place), buf, node')
        /\ AfterLink
        /\ UNCHANGED <<pidVars, fdVars, buf, processes>>

MemWanted == TypeWanted("REG")

\* maps, opened and read to its end.  A process that dies in between has no
\* memory any more; one that may not be looked at is left without.
find_mem_del ==
  /\ pc = "maps"
  /\ \/ MemWanted /\ ~Exists(pid) /\ Leave
     \/ /\ temp' = temp \cup
             IF MemWanted /\ ~Refused(pid)
             THEN {Record("mem", f, f) : f \in Mapped(pid) \cap filters.names} ELSE {}
        /\ pc' = "fddir"
        /\ UNCHANGED <<pidVars, place, fdVars, resolved, processes>>

closedir_Once == dirs' = dirs \ {<<pid, "fd">>}
closedir      == dirs' = dirs \ {<<pid, "fd">>, <<pid, "fdinfo">>}

\* opendir of fd, then of fdinfo.  Those of a zombie may belong to root.  Who
\* returns here closes nothing.
open_fd_dirs ==
  /\ pc \in {"fddir", "fdinfodir"}
  /\ \/ ~Exists(pid) /\ Leave /\ UNCHANGED dirs
     \/ /\ Exists(pid)
        /\ Refused(pid) \/ proc[pid].zombie
        /\ Append(temp \cup Unknown("NOFD"))
        /\ UNCHANGED <<pidVars, place, dirs, fdVars, resolved, temp>>
     \/ /\ Exists(pid)
        /\ ~Refused(pid)
        /\ pc' = IF pc = "fddir" THEN "fdinfodir" ELSE "fds"
        /\ dirs' = dirs \cup {<<pid, IF pc = "fddir" THEN "fd" ELSE "fdinfo">>}
        /\ fd_dir' = IF pc = "fddir" THEN proc[pid].id ELSE fd_dir
        /\ fds' = {} /\ fd' = 0
        /\ UNCHANGED <<pidVars, place, resolved, temp, processes>>

\* readdir of fd: its end and its failure are the same null.
read_fd_dir ==
  /\ pc = "fds"
  /\ LET unread == IF fds # {} THEN fds ELSE {n \in OpenOf(pid, fd_dir) : n > fd}
     IN  \/ /\ unread = {}
            /\ Append(temp)
            /\ closedir
            /\ UNCHANGED <<fdVars, place>>
         \/ \E n \in unread :
            /\ Least(n, unread)
            /\ fd' = n
            /\ fds' = unread \ {n}
            /\ place' = FdName[n]
            /\ pc' = "fdlink"
            /\ UNCHANGED <<dirs, fd_dir, processes>>
  /\ UNCHANGED <<pidVars, resolved, temp>>

read_fd_link_Breaks ==
  /\ pc = "fdlink"
  /\ \/ Missing /\ Append(temp) /\ closedir /\ UNCHANGED <<pidVars, place, fdVars, resolved, temp>>
     \/ /\ ~Missing
        /\ buf' = Held(pid, place)
        /\ pc' = "fdstat"
        /\ UNCHANGED <<pidVars, place, dirs, fdVars, node, temp, processes>>
read_fd_link ==
  /\ pc = "fdlink"
  /\ \/ Missing /\ Leave /\ closedir
     \/ /\ ~Missing
        /\ buf' = Held(pid, place)
        /\ pc' = "fdstat"
        /\ UNCHANGED <<pidVars, place, dirs, fdVars, node, temp, processes>>

\* The filters are asked before fdinfo is opened.
stat_fd ==
  /\ pc = "fdstat"
  /\ \/ Missing /\ Leave /\ closedir
     \/ /\ ~Missing
        /\ node' = Held(pid, place)
        /\ pc' = IF Wanted(place, buf, node') = {} THEN "fds" ELSE "fdinfo"
        /\ UNCHANGED <<pidVars, place, dirs, fdVars, buf, temp, processes>>

\* Without the access mode there is no record, but the process stays.
read_fdinfo ==
  /\ pc = "fdinfo"
  /\ temp' = temp \cup IF Missing THEN {} ELSE Wanted(place, buf, node)
  /\ pc' = "fds"
  /\ UNCHANGED <<pidVars, place, fdVars, resolved, processes>>

-----------------------------------------------------------------------------
Scan ==
  \/ /\ \/ find_processes
        \/ find_command
        \/ find_username
        \/ read_link
        \/ stat_link
        \/ find_mem_del
        \/ read_fdinfo
     /\ UNCHANGED dirs
  \/ open_fd_dirs
  \/ read_fd_dir
  \/ read_fd_link
  \/ stat_fd

Environment ==
  /\ pc \notin {"done", "crashed"}
  /\ ProcessesChange
  /\ UNCHANGED <<filters, pc, pidVars, place, dirs, fdVars, resolved, temp, processes>>

Next == (Scan /\ UNCHANGED <<procVars, filters>>) \/ Environment

Spec == Init /\ [][Next]_vars
-----------------------------------------------------------------------------
(* Properties.                                                             *)

TypeOK ==
  /\ ProcfsTypeOK
  /\ filters \in Filters
  /\ pc \in {"next", "comm", "status", "link", "stat", "maps", "fddir",
             "fdinfodir", "fds", "fdlink", "fdstat", "fdinfo", "done", "crashed"}
  /\ pids \subseteq Pids
  /\ pid \in Pids \cup {0}
  /\ place \in Places
  /\ fd_dir \in 0 .. MaxChanges
  /\ fds \subseteq Fds
  /\ fd \in Fds \cup {0}
  /\ {buf, node} \subseteq Files \cup {Nothing}

Untouched(p, x) == <<p, x>> \notin touched
Quiet(p)        == \A x \in Places : Untouched(p, x)
Listed(p)       == {r \in processes : r.pid = p}
PlaceOf(label)  == CASE label = "rtd" -> "root" [] label = "txt" -> "exe" [] OTHER -> label
All             == filters.type = NoFilter /\ Names \subseteq filters.names

(***************************************************************************)
(* Every record, printed or still collected, that speaks of a place which  *)
(* nobody touched gives the file that is there, name and node, under its   *)
(* own label: whatever happened to the other places of that process, and   *)
(* to others, in the middle of reading it.                                 *)
(***************************************************************************)
RecordsTrue ==
  \A r \in processes \cup temp :
    LET x == PlaceOf(r.fd)
    IN  x \in Places /\ Untouched(r.pid, x) /\ r.name # Denied
          => r.name = Held(r.pid, x) /\ r.node = Held(r.pid, x)

(***************************************************************************)
(* Why they are: the process and the place being resolved are ones there   *)
(* are, and what readlink and stat returned still holds of a place nobody  *)
(* has touched.                                                            *)
(***************************************************************************)
Resolving ==
  /\ pc \notin {"next", "done"} => pid \in Pids
  /\ pc \in {"comm", "status"} => place = "cwd"
  /\ pc \in {"link", "stat"} => place \in Links
  /\ pc \in {"fdlink", "fdstat", "fdinfo"} => place \in {FdName[n] : n \in Fds}
  /\ pc \in {"stat", "fdstat", "fdinfo"} /\ Untouched(pid, place)
       => buf = Held(pid, place)
  /\ pc = "fdinfo" /\ Untouched(pid, place) => node = Held(pid, place)

RecInv ==
  /\ TypeOK
  /\ \A r \in processes \cup temp : r.pid \in Pids
  /\ Resolving
  /\ RecordsTrue

(***************************************************************************)
(* An early return at a link drops the process with what was collected of  *)
(* it, and nothing of it reaches the next one: without filters, whoever is *)
(* listed is listed with its working directory, its root and its program.  *)
(* (Its descriptors may be cut off by its end, see KeptListed.)            *)
(***************************************************************************)
LinksOrNothing ==
  All => \A r \in processes :
           {"cwd", "rtd", "txt"} \subseteq {s.fd : s \in Listed(r.pid)}

\* A file that has been at place x of p throughout, may be looked at, and is one
\* the filters let through.
Kept(p, x) ==
  /\ Untouched(p, x)
  /\ Held(p, x) # Nothing
  /\ ~proc[p].denied
  /\ TypeWanted(Kind[Held(p, x)])
  /\ Held(p, x) \in filters.names

(***************************************************************************)
(* Of a process that is listed nothing is missing that has been there all  *)
(* the time, whatever it moves at its other places in the middle of its    *)
(* reading: only one that has ended can be listed with its descriptors cut *)
(* off, where a failing readdir looks like the last one (hw1.cpp:410).     *)
(***************************************************************************)
KeptListed ==
  \A p \in Pids : Listed(p) # {} =>
    \A x \in Places : Kept(p, x) => Label(x) \in {r.fd : r \in Listed(p)}

\* The records a scan in one instant would give of process p.
Expected(p) ==
  LET q == proc[p]
      Shown(type, label, asked, file) ==
        IF filters.type \in {NoFilter, type} /\ asked \in filters.names
        THEN {[pid |-> p, fd |-> label, name |-> file, node |-> file]} ELSE {}
      File(x, label) == Shown(Kind[q.at[x]], label, q.at[x], q.at[x])
  IN  IF ~Exists(p) \/ ~q.matches THEN {}
      ELSE IF q.denied
      THEN UNION {Shown("unknown", l, <<p, l>>, Denied) :
                    l \in {"cwd", "rtd", "txt", "NOFD"}}
      ELSE IF q.zombie \/ \E x \in Links : q.at[x] = Nothing THEN {}
      ELSE File("cwd", "cwd") \cup File("root", "rtd") \cup File("exe", "txt")
           \cup (UNION {Shown("REG", "mem", f, f) : f \in q.maps})
           \cup (UNION {File(FdName[n], FdName[n]) : n \in Open(p)})

\* It is no kernel thread: those have no program, which the scan takes for a
\* process that has just ended (250).
HasLinks(p) ==
  Exists(p) /\ ~proc[p].zombie /\ ~proc[p].denied =>
    \A x \in Links : proc[p].at[x] # Nothing

(***************************************************************************)
(* A process that stays as it was throughout the scan is listed with       *)
(* exactly its files, as if the scan took no time, whatever starts, ends   *)
(* and changes around it, and whatever the filters let through.  A kernel  *)
(* thread that may be looked at is left out, and nothing is said of it.    *)
(***************************************************************************)
UntouchedListed ==
  pc = "done" =>
    \A p \in Pids : Quiet(p) /\ HasLinks(p) => Listed(p) = Expected(p)

\* The directories of the process at hand that are in use.
Reading ==
  IF pc = "fdinfodir" THEN {"fd"}
  ELSE IF pc \in {"fds", "fdlink", "fdstat", "fdinfo"} THEN {"fd", "fdinfo"} ELSE {}

\* Directories that are open and no longer in use, for good.
Leaked == dirs \ ({pid} \X Reading)

\* fdinfo cannot be opened, though fd could: the process has ended since, or
\* another one has its pid.
FdinfoGone ==
  /\ pc = "fdinfodir"
  /\ ~Exists(pid) \/ proc[pid].zombie \/ proc[pid].id # fd_dir

(***************************************************************************)
(* Every way out of find_file_descriptors closes what it has opened, but   *)
(* for the two behind the second opendir (hw1.cpp:391), which leave fd     *)
(* open, and are taken only when the process whose fd it is has ended      *)
(* between the two: no change of a living process, and nothing that        *)
(* happens before or behind them, costs the scan a descriptor.             *)
(***************************************************************************)
LeaksOnlyThen == Leaked' \subseteq Leaked \/ FdinfoGone
DirsClosed    == [][LeaksOnlyThen]_vars

(***************************************************************************)
(* "Output the fields for each file opened by a running process"           *)
(* (README:43): a file that one process holds at one place from the start  *)
(* of the scan to its end is in the list.                                  *)
(***************************************************************************)
OpenFilesListed ==
  pc = "done" /\ All =>
    \A p \in Pids, n \in Fds :
      /\ Untouched(p, FdName[n])
      /\ Held(p, FdName[n]) # Nothing
      /\ proc[p].matches /\ ~proc[p].denied
      /\ \A x \in Links : proc[p].at[x] # Nothing
      => FdName[n] \in {r.fd : r \in Listed(p)}
=============================================================================
