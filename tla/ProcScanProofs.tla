--------------------------- MODULE ProcScanProofs ---------------------------
(***************************************************************************)
(* Theorems about the scan of /proc, for every set of processes, files,    *)
(* descriptors and filters, and any number of changes during the scan.     *)
(***************************************************************************)
EXTENDS ProcScan, TLAPS

USE ProcfsAssumption, ScanAssumption

(* One record is well formed and true.                                     *)
Good(r) ==
  /\ r.pid \in Pids
  /\ LET x == PlaceOf(r.fd)
     IN  x \in Places /\ Untouched(r.pid, x) /\ r.name # Denied
           => r.name = Held(r.pid, x) /\ r.node = Held(r.pid, x)

AllGood == \A r \in processes \cup temp : Good(r)

(* RecInv with the two conjuncts about records in one.                     *)
LEMMA RecInvGood == RecInv <=> TypeOK /\ Resolving /\ AllGood
BY DEF RecInv, AllGood, Good, RecordsTrue

(***************************************************************************)
(* The labels of records tell places apart.                                *)
(***************************************************************************)
LEMMA LabelsInvert ==
  /\ \A x \in Links : PlaceOf(Label(x)) = x
  /\ \A n \in Fds : PlaceOf(FdName[n]) = FdName[n]
  /\ PlaceOf("mem") \notin Places
<1>1. \A x \in Links : PlaceOf(Label(x)) = x
  BY DEF Links, PlaceOf, Label
<1>2. \A n \in Fds : FdName[n] \notin {"rtd", "txt", "mem", "NOFD"}
  OBVIOUS
<1>3. \A n \in Fds : PlaceOf(FdName[n]) = FdName[n]
  BY <1>2 DEF PlaceOf
<1>4. PlaceOf("mem") = "mem"
  BY DEF PlaceOf
<1>5. "mem" \notin Places
  BY <1>2 DEF Places, Links
<1> QED
  BY <1>1, <1>3, <1>4, <1>5

(***************************************************************************)
(* What a look at /proc returns is one of the files, or nothing.           *)
(***************************************************************************)
LEMMA HeldTyped ==
  ASSUME ProcfsTypeOK, NEW p \in Pids, NEW x \in Places
  PROVE  Held(p, x) \in Files \cup {Nothing}
<1>1. CASE proc[p] = Gone
  BY <1>1 DEF Held, Exists
<1>2. CASE proc[p] # Gone
  <2>1. proc[p] \in Process
    BY <1>2 DEF ProcfsTypeOK
  <2>2. proc[p].at[x] \in Files \cup {Nothing}
    BY <2>1 DEF Process
  <2> QED
    BY <2>2 DEF Held
<1> QED
  BY <1>1, <1>2

-----------------------------------------------------------------------------
(***************************************************************************)
(* The initial states.                                                     *)
(***************************************************************************)
LEMMA RecInit == Init => RecInv
<1> SUFFICES ASSUME Init PROVE TypeOK /\ Resolving /\ AllGood
  BY RecInvGood
<1>0. 0 \in 0 .. MaxChanges
  OBVIOUS
<1>1. ProcfsTypeOK
  <2>1. Births \cup {Gone} \subseteq Process \cup {Gone}
    OBVIOUS
  <2>2. proc \in [Pids -> Process \cup {Gone}]
    BY <2>1 DEF Init, ProcfsInit
  <2>3. changes \in 0 .. MaxChanges
    BY <1>0 DEF Init, ProcfsInit
  <2>4. touched \subseteq Pids \X Places
    BY DEF Init, ProcfsInit
  <2> QED
    BY <2>2, <2>3, <2>4 DEF ProcfsTypeOK
<1>2. TypeOK
  <2>1. place \in Places
    BY DEF Init, Places, Links
  <2>2. fd_dir \in 0 .. MaxChanges
    BY <1>0 DEF Init
  <2> QED
    BY <1>1, <2>1, <2>2 DEF Init, TypeOK
<1>3. Resolving
  BY DEF Init, Resolving
<1>4. AllGood
  BY DEF Init, AllGood
<1> QED
  BY <1>2, <1>3, <1>4

-----------------------------------------------------------------------------
(***************************************************************************)
(* While the scanner takes a step, nothing changes in /proc.               *)
(***************************************************************************)
LEMMA Still ==
  ASSUME UNCHANGED procVars
  PROVE  /\ ProcfsTypeOK => ProcfsTypeOK'
         /\ \A p, x : Held(p, x)' = Held(p, x)
         /\ \A p, x : Untouched(p, x)' = Untouched(p, x)
         /\ \A r : Good(r)' = Good(r)
<1>1. proc' = proc /\ changes' = changes /\ touched' = touched
  BY DEF procVars
<1>2. ProcfsTypeOK => ProcfsTypeOK'
  BY <1>1 DEF ProcfsTypeOK
<1>3. \A p, x : Held(p, x)' = Held(p, x)
  BY <1>1 DEF Held, Exists
<1>4. \A p, x : Untouched(p, x)' = Untouched(p, x)
  BY <1>1 DEF Untouched
<1>5. \A r : Good(r)' = Good(r)
  BY <1>3, <1>4 DEF Good
<1> QED
  BY <1>2, <1>3, <1>4, <1>5

(***************************************************************************)
(* The records a step adds are true when the place is the one resolved.    *)
(***************************************************************************)
LEMMA WantedGood ==
  ASSUME NEW label, NEW inode, pid \in Pids, PlaceOf(label) = place,
         Untouched(pid, place) => buf = Held(pid, place),
         Untouched(pid, place) => inode = Held(pid, place)
  PROVE  \A r \in Wanted(label, buf, inode) : Good(r)
<1> SUFFICES ASSUME NEW r \in Wanted(label, buf, inode) PROVE Good(r)
  OBVIOUS
<1>1. r = [pid |-> pid, fd |-> label, name |-> buf, node |-> inode]
  BY DEF Wanted, Record
<1>2. r.pid = pid /\ r.fd = label /\ r.name = buf /\ r.node = inode
  BY <1>1
<1> QED
  BY <1>2 DEF Good

LEMMA UnknownGood ==
  ASSUME NEW label, pid \in Pids
  PROVE  \A r \in Unknown(label) : Good(r)
BY DEF Unknown, Record, Good

LEMMA MemGood ==
  ASSUME NEW f, pid \in Pids
  PROVE  Good(Record("mem", f, f))
BY LabelsInvert DEF Record, Good

(***************************************************************************)
(* A process that is left, or ends, gives no new record.                   *)
(***************************************************************************)
LEMMA LeaveKeeps ==
  ASSUME RecInv, Leave, UNCHANGED <<procVars, filters>>
  PROVE  RecInv'
<1>1. TypeOK /\ AllGood
  BY RecInvGood
<1>2. TypeOK'
  BY <1>1, Still DEF Leave, Drop, TypeOK, pidVars, fdVars, resolved
<1>3. Resolving'
  BY DEF Leave, Resolving
<1>4. AllGood'
  BY <1>1, Still DEF Leave, Drop, AllGood
<1> QED
  BY <1>2, <1>3, <1>4, RecInvGood, PTL

LEMMA find_processesKeeps ==
  ASSUME RecInv, find_processes, UNCHANGED <<procVars, filters>>
  PROVE  RecInv'
<1>1. TypeOK /\ AllGood
  BY RecInvGood
<1>2. CASE pc' = "done" /\ UNCHANGED <<pidVars, place, temp>>
  <2>1. TypeOK'
    BY <1>1, <1>2, Still DEF find_processes, TypeOK, pidVars, fdVars, resolved
  <2>2. Resolving'
    BY <1>2 DEF Resolving
  <2>3. AllGood'
    BY <1>1, <1>2, Still DEF find_processes, AllGood
  <2> QED
    BY <2>1, <2>2, <2>3, RecInvGood, PTL
<1>3. ASSUME NEW unread \in SUBSET Pids, NEW p \in unread, pid' = p, pids' = unread \ {p},
             temp' = {}, place' = "cwd", pc' = "comm"
      PROVE  RecInv'
  <2>1. TypeOK'
    BY <1>1, <1>3, Still DEF find_processes, TypeOK, Places, Links, fdVars, resolved
  <2>2. Resolving'
    BY <1>3 DEF Resolving
  <2>3. AllGood'
    BY <1>1, <1>3, Still DEF find_processes, AllGood
  <2> QED
    BY <2>1, <2>2, <2>3, RecInvGood, PTL
<1>4. (IF pids # {} THEN pids ELSE {p \in Pids : Exists(p) /\ p > pid}) \in SUBSET Pids
  BY <1>1 DEF TypeOK
<1> QED
  BY <1>2, <1>3, <1>4 DEF find_processes

LEMMA find_commandKeeps ==
  ASSUME RecInv, find_command, UNCHANGED <<procVars, filters>>
  PROVE  RecInv'
<1>1. CASE Leave
  BY <1>1, LeaveKeeps
<1>2. CASE pc' = "status" /\ UNCHANGED <<pidVars, place, fdVars, resolved, temp, processes>>
  <2>1. TypeOK /\ Resolving /\ AllGood
    BY RecInvGood
  <2>2. TypeOK'
    BY <1>2, <2>1, Still DEF TypeOK, pidVars, fdVars, resolved
  <2>3. Resolving'
    BY <1>2, <2>1 DEF find_command, Resolving, pidVars
  <2>4. AllGood'
    BY <1>2, <2>1, Still DEF AllGood
  <2> QED
    BY <2>2, <2>3, <2>4, RecInvGood, PTL
<1> QED
  BY <1>1, <1>2 DEF find_command

LEMMA find_usernameKeeps ==
  ASSUME RecInv, find_username, UNCHANGED <<procVars, filters>>
  PROVE  RecInv'
<1>1. CASE Leave
  BY <1>1, LeaveKeeps
<1>2. CASE pc' \in {"link", "crashed"} /\ UNCHANGED <<pidVars, place, fdVars, resolved, temp, processes>>
  <2>1. TypeOK /\ Resolving /\ AllGood
    BY RecInvGood
  <2>2. TypeOK'
    BY <1>2, <2>1, Still DEF TypeOK, pidVars, fdVars, resolved
  <2>3. Resolving'
    BY <1>2, <2>1 DEF find_username, Resolving, pidVars, Links
  <2>4. AllGood'
    BY <1>2, <2>1, Still DEF AllGood
  <2> QED
    BY <2>2, <2>3, <2>4, RecInvGood, PTL
<1> QED
  BY <1>1, <1>2 DEF find_username

(***************************************************************************)
(* A link that has been resolved is followed by another, or by maps.       *)
(***************************************************************************)
LEMMA AfterLinkKeeps ==
  ASSUME RecInv, pc \in {"link", "stat"}, AfterLink,
         NEW R, \A r \in R : Good(r), temp' = temp \cup R,
         NEW inode \in Files \cup {Nothing}, node' = inode, buf' = buf,
         UNCHANGED <<pidVars, fdVars, processes>>, UNCHANGED <<procVars, filters>>
  PROVE  RecInv'
<1>1. TypeOK /\ Resolving /\ AllGood
  BY RecInvGood
<1>2. place' \in Links /\ pc' \in {"link", "maps"}
  BY <1>1 DEF AfterLink, Resolving, Links
<1>3. TypeOK'
  BY <1>1, <1>2, Still DEF TypeOK, Places, pidVars, fdVars
<1>4. Resolving'
  BY <1>1, <1>2 DEF Resolving, pidVars
<1>5. AllGood'
  BY <1>1, Still DEF AllGood
<1> QED
  BY <1>3, <1>4, <1>5, RecInvGood, PTL

(***************************************************************************)
(* readlink has returned: what it returned is what is there now.           *)
(***************************************************************************)
LEMMA ReadlinkKeeps ==
  ASSUME RecInv, \/ pc = "link" /\ pc' = "stat"
                 \/ pc = "fdlink" /\ pc' = "fdstat",
         buf' = Held(pid, place),
         UNCHANGED <<pidVars, place, fdVars, node, temp, processes>>,
         UNCHANGED <<procVars, filters>>
  PROVE  RecInv'
<1>1. TypeOK /\ Resolving /\ AllGood
  BY RecInvGood
<1>2. Held(pid, place) \in Files \cup {Nothing}
  BY <1>1, HeldTyped DEF TypeOK, Resolving
<1>3. TypeOK'
  BY <1>1, <1>2, Still DEF TypeOK, pidVars, fdVars
<1>4. Held(pid, place)' = Held(pid, place)
  BY Still DEF pidVars, Held, Exists, procVars
<1>5. Resolving'
  BY <1>1, <1>4 DEF Resolving, pidVars
<1>6. AllGood'
  BY <1>1, Still DEF AllGood
<1> QED
  BY <1>3, <1>5, <1>6, RecInvGood, PTL

LEMMA read_linkKeeps ==
  ASSUME RecInv, read_link, UNCHANGED <<procVars, filters>>
  PROVE  RecInv'
<1>1. TypeOK /\ Resolving /\ pc = "link"
  BY RecInvGood DEF read_link
<1>2. pid \in Pids
  BY <1>1 DEF Resolving
<1>3. CASE /\ temp' = temp \cup Unknown(Label(place))
           /\ AfterLink
           /\ UNCHANGED <<pidVars, fdVars, resolved, processes>>
  <2>1. \A r \in Unknown(Label(place)) : Good(r)
    BY <1>2, UnknownGood
  <2>2. node \in Files \cup {Nothing} /\ node' = node /\ buf' = buf
    BY <1>1, <1>3 DEF TypeOK, resolved
  <2> QED
    BY <1>1, <1>3, <2>1, <2>2, AfterLinkKeeps
<1>4. CASE Leave
  BY <1>4, LeaveKeeps
<1>5. CASE /\ buf' = Held(pid, place)
           /\ pc' = "stat"
           /\ UNCHANGED <<pidVars, place, fdVars, node, temp, processes>>
  BY <1>1, <1>5, ReadlinkKeeps
<1> QED
  BY <1>3, <1>4, <1>5 DEF read_link

LEMMA stat_linkKeeps ==
  ASSUME RecInv, stat_link, UNCHANGED <<procVars, filters>>
  PROVE  RecInv'
<1>1. TypeOK /\ Resolving /\ pc = "stat"
  BY RecInvGood DEF stat_link
<1>2. CASE Leave
  BY <1>2, LeaveKeeps
<1>3. CASE /\ node' = Held(pid, place)
           /\ temp' = temp \cup Wanted(Label(place), buf, node')
           /\ AfterLink
           /\ UNCHANGED <<pidVars, fdVars, buf, processes>>
  <2>1. pid \in Pids /\ place \in Links /\ (Untouched(pid, place) => buf = Held(pid, place))
    BY <1>1 DEF Resolving
  <2>2. Held(pid, place) \in Files \cup {Nothing}
    BY <1>1, <2>1, HeldTyped DEF TypeOK
  <2>3. PlaceOf(Label(place)) = place
    BY <2>1, LabelsInvert
  <2>4. \A r \in Wanted(Label(place), buf, Held(pid, place)) : Good(r)
    BY <2>1, <2>3, WantedGood
  <2>5. temp' = temp \cup Wanted(Label(place), buf, Held(pid, place))
    BY <1>3
  <2> QED
    BY <1>1, <1>3, <2>2, <2>4, <2>5, AfterLinkKeeps
<1> QED
  BY <1>2, <1>3 DEF stat_link

LEMMA find_mem_delKeeps ==
  ASSUME RecInv, find_mem_del, UNCHANGED <<procVars, filters>>
  PROVE  RecInv'
<1>1. TypeOK /\ Resolving /\ AllGood /\ pc = "maps"
  BY RecInvGood DEF find_mem_del
<1>2. CASE Leave
  BY <1>2, LeaveKeeps
<1>3. ASSUME NEW R, \A r \in R : Good(r), temp' = temp \cup R, pc' = "fddir",
             UNCHANGED <<pidVars, place, fdVars, resolved, processes>>
      PROVE  RecInv'
  <2>1. TypeOK'
    BY <1>1, <1>3, Still DEF TypeOK, pidVars, fdVars, resolved
  <2>2. Resolving'
    BY <1>1, <1>3 DEF Resolving, pidVars
  <2>3. AllGood'
    BY <1>1, <1>3, Still DEF AllGood
  <2> QED
    BY <2>1, <2>2, <2>3, RecInvGood, PTL
<1>4. pid \in Pids
  BY <1>1 DEF Resolving
<1>5. \A r \in IF MemWanted /\ ~Refused(pid)
               THEN {Record("mem", f, f) : f \in Mapped(pid) \cap filters.names} ELSE {} : Good(r)
  BY <1>4, MemGood
<1> QED
  BY <1>2, <1>3, <1>5 DEF find_mem_del

(***************************************************************************)
(* collect_information has ended well: its records are kept.               *)
(***************************************************************************)
LEMMA AppendKeeps ==
  ASSUME RecInv, NEW R, \A r \in R : Good(r), Append(temp \cup R),
         UNCHANGED <<pidVars, place, fdVars, resolved, temp>>,
         UNCHANGED <<procVars, filters>>
  PROVE  RecInv'
<1>1. TypeOK /\ Resolving /\ AllGood
  BY RecInvGood
<1>2. TypeOK'
  BY <1>1, Still DEF Append, TypeOK, pidVars, fdVars, resolved
<1>3. Resolving'
  BY DEF Append, Resolving
<1>4. AllGood'
  BY <1>1, Still DEF Append, AllGood
<1> QED
  BY <1>2, <1>3, <1>4, RecInvGood, PTL

LEMMA open_fd_dirsKeeps ==
  ASSUME RecInv, open_fd_dirs, UNCHANGED <<procVars, filters>>
  PROVE  RecInv'
<1>1. TypeOK /\ Resolving /\ AllGood /\ pid \in Pids /\ pc \in {"fddir", "fdinfodir"}
  BY RecInvGood DEF open_fd_dirs, Resolving
<1>2. CASE Leave
  BY <1>2, LeaveKeeps
<1>3. CASE /\ Append(temp \cup Unknown("NOFD"))
           /\ UNCHANGED <<pidVars, place, fdVars, resolved, temp>>
  <2>1. \A r \in Unknown("NOFD") : Good(r)
    BY <1>1, UnknownGood
  <2> QED
    BY <1>3, <2>1, AppendKeeps
<1>4. CASE /\ Exists(pid)
           /\ pc' = IF pc = "fddir" THEN "fdinfodir" ELSE "fds"
           /\ fd_dir' = IF pc = "fddir" THEN proc[pid].id ELSE fd_dir
           /\ fds' = {} /\ fd' = 0
           /\ UNCHANGED <<pidVars, place, resolved, temp, processes>>
  <2>1. proc[pid] \in Process
    BY <1>1, <1>4 DEF TypeOK, ProcfsTypeOK, Exists
  <2>2. proc[pid].id \in 0 .. MaxChanges
    BY <2>1 DEF Process
  <2>3. fd_dir' \in 0 .. MaxChanges
    BY <1>1, <1>4, <2>2 DEF TypeOK
  <2>4. TypeOK'
    BY <1>1, <1>4, <2>3, Still DEF TypeOK, pidVars, resolved
  <2>5. Resolving'
    BY <1>1, <1>4 DEF Resolving, pidVars
  <2>6. AllGood'
    BY <1>1, <1>4, Still DEF AllGood
  <2> QED
    BY <2>4, <2>5, <2>6, RecInvGood, PTL
<1> QED
  BY <1>2, <1>3, <1>4 DEF open_fd_dirs

LEMMA read_fd_dirKeeps ==
  ASSUME RecInv, read_fd_dir, UNCHANGED <<procVars, filters>>
  PROVE  RecInv'
<1>1. TypeOK /\ Resolving /\ AllGood /\ pc = "fds"
  BY RecInvGood DEF read_fd_dir
<1>2. UNCHANGED <<pidVars, resolved, temp>>
  BY DEF read_fd_dir
<1>3. CASE Append(temp) /\ UNCHANGED <<fdVars, place>>
  <2>1. Append(temp \cup {})
    BY <1>3 DEF Append
  <2> QED
    BY <1>2, <1>3, <2>1, AppendKeeps
<1>4. ASSUME NEW unread \in SUBSET Fds, NEW n \in unread, fd' = n, fds' = unread \ {n},
             place' = FdName[n], pc' = "fdlink", UNCHANGED <<fd_dir, processes>>
      PROVE  RecInv'
  <2>1. place' \in {FdName[m] : m \in Fds}
    BY <1>4
  <2>2. TypeOK'
    BY <1>1, <1>2, <1>4, <2>1, Still DEF TypeOK, Places, pidVars, resolved
  <2>3. Resolving'
    BY <1>1, <1>2, <1>4, <2>1 DEF Resolving, pidVars
  <2>4. AllGood'
    BY <1>1, <1>2, <1>4, Still DEF AllGood
  <2> QED
    BY <2>2, <2>3, <2>4, RecInvGood, PTL
<1>5. (IF fds # {} THEN fds ELSE {n \in OpenOf(pid, fd_dir) : n > fd}) \in SUBSET Fds
  BY <1>1 DEF TypeOK, OpenOf, Open
<1> QED
  BY <1>3, <1>4, <1>5 DEF read_fd_dir

LEMMA read_fd_linkKeeps ==
  ASSUME RecInv, read_fd_link, UNCHANGED <<procVars, filters>>
  PROVE  RecInv'
<1>1. CASE Leave
  BY <1>1, LeaveKeeps
<1>2. CASE /\ buf' = Held(pid, place)
           /\ pc' = "fdstat"
           /\ UNCHANGED <<pidVars, place, fdVars, node, temp, processes>>
  <2>1. pc = "fdlink"
    BY DEF read_fd_link
  <2> QED
    BY <1>2, <2>1, ReadlinkKeeps
<1> QED
  BY <1>1, <1>2 DEF read_fd_link

LEMMA stat_fdKeeps ==
  ASSUME RecInv, stat_fd, UNCHANGED <<procVars, filters>>
  PROVE  RecInv'
<1>1. TypeOK /\ Resolving /\ AllGood /\ pc = "fdstat"
  BY RecInvGood DEF stat_fd
<1>2. CASE Leave
  BY <1>2, LeaveKeeps
<1>3. CASE /\ node' = Held(pid, place)
           /\ pc' \in {"fds", "fdinfo"}
           /\ UNCHANGED <<pidVars, place, fdVars, buf, temp, processes>>
  <2>1. Held(pid, place) \in Files \cup {Nothing}
    BY <1>1, HeldTyped DEF TypeOK, Resolving
  <2>2. Held(pid, place)' = Held(pid, place)
    BY <1>3 DEF pidVars, Held, Exists, procVars
  <2>3. TypeOK'
    BY <1>1, <1>3, <2>1, Still DEF TypeOK, pidVars, fdVars
  <2>4. Untouched(pid, place)' = Untouched(pid, place)
    BY <1>3 DEF pidVars, Untouched, procVars
  <2>5. Resolving'
    BY <1>1, <1>3, <2>2, <2>4 DEF Resolving, pidVars
  <2>6. AllGood'
    BY <1>1, <1>3, Still DEF AllGood
  <2> QED
    BY <2>3, <2>5, <2>6, RecInvGood, PTL
<1> QED
  BY <1>2, <1>3 DEF stat_fd

LEMMA read_fdinfoKeeps ==
  ASSUME RecInv, read_fdinfo, UNCHANGED <<procVars, filters>>
  PROVE  RecInv'
<1>1. TypeOK /\ Resolving /\ AllGood /\ pc = "fdinfo"
  BY RecInvGood DEF read_fdinfo
<1>2. /\ pid \in Pids /\ place \in {FdName[n] : n \in Fds}
      /\ Untouched(pid, place) => buf = Held(pid, place)
      /\ Untouched(pid, place) => node = Held(pid, place)
  BY <1>1 DEF Resolving
<1>3. PlaceOf(place) = place
  BY <1>2, LabelsInvert
<1>4. \A r \in Wanted(place, buf, node) : Good(r)
  BY <1>2, <1>3, WantedGood
<1>5. TypeOK'
  BY <1>1, Still DEF read_fdinfo, TypeOK, pidVars, fdVars, resolved
<1>6. Resolving'
  BY <1>1 DEF read_fdinfo, Resolving, pidVars
<1>7. \A r \in temp' : r \in temp \/ Good(r)
  BY <1>4 DEF read_fdinfo
<1>8. AllGood'
  BY <1>1, <1>7, Still DEF read_fdinfo, AllGood
<1> QED
  BY <1>5, <1>6, <1>8, RecInvGood, PTL

-----------------------------------------------------------------------------
(***************************************************************************)
(* A process that changes is either touched at a place, or the scanner     *)
(* sees the same there as before.                                          *)
(***************************************************************************)
LEMMA GoneIsNoProcess == \A q \in Process : q # Gone
<1> SUFFICES ASSUME Gone \in Process PROVE FALSE
  OBVIOUS
<1>1. "zombie" \in DOMAIN Gone
  BY DEF Process
<1>2. DOMAIN Gone = {"gone"}
  BY DEF Gone
<1> QED
  BY <1>1, <1>2

SeenOf(q, x) == IF q # Gone /\ ~q.zombie THEN q.at[x] ELSE Nothing

LEMMA ChangeTouches ==
  ASSUME ProcfsTypeOK, NEW p \in Pids, NEW q \in Process \cup {Gone},
         NEW xs \in SUBSET Places, Change(p, q, xs),
         \A x \in Places \ xs : SeenOf(q, x) = Held(p, x)
  PROVE  /\ ProcfsTypeOK'
         /\ \A s \in Pids, x \in Places :
              Untouched(s, x)' => Untouched(s, x) /\ Held(s, x)' = Held(s, x)
<1>1. proc' = [proc EXCEPT ![p] = q] /\ proc \in [Pids -> Process \cup {Gone}]
  BY DEF Change, ProcfsTypeOK
<1>2. proc' \in [Pids -> Process \cup {Gone}]
  BY <1>1
<1>3. changes' \in 0 .. MaxChanges
  BY DEF Change, ProcfsTypeOK
<1>4. touched' = touched \cup ({p} \X xs)
  BY DEF Change
<1>5. touched' \subseteq Pids \X Places
  BY <1>4 DEF ProcfsTypeOK
<1>6. ASSUME NEW s \in Pids, NEW x \in Places, Untouched(s, x)'
      PROVE  Untouched(s, x) /\ Held(s, x)' = Held(s, x)
  <2>1. Untouched(s, x) /\ <<s, x>> \notin {p} \X xs
    BY <1>4, <1>6 DEF Untouched
  <2>2. CASE s # p
    <3>1. proc'[s] = proc[s]
      BY <1>1, <2>2
    <3> QED
      BY <2>1, <3>1 DEF Held, Exists
  <2>3. CASE s = p
    <3>1. proc'[s] = q
      BY <1>1, <2>3
    <3>2. x \in Places \ xs
      BY <2>1, <2>3
    <3>3. Held(s, x)' = SeenOf(q, x)
      BY <3>1 DEF Held, Exists, SeenOf
    <3> QED
      BY <2>1, <2>3, <3>2, <3>3
  <2> QED
    BY <2>2, <2>3
<1> QED
  BY <1>2, <1>3, <1>5, <1>6 DEF ProcfsTypeOK

LEMMA ProcessesTouch ==
  ASSUME ProcfsTypeOK, ProcessesChange
  PROVE  /\ ProcfsTypeOK'
         /\ \A s \in Pids, x \in Places :
              Untouched(s, x)' => Untouched(s, x) /\ Held(s, x)' = Held(s, x)
<1>1. PICK p \in Pids : Spawn(p) \/ Die(p) \/ Reap(p) \/ Move(p)
  BY DEF ProcessesChange
<1>2. changes < MaxChanges => changes + 1 \in 0 .. MaxChanges
  BY DEF ProcfsTypeOK
<1>3. Exists(p) => proc[p] \in Process
  BY DEF ProcfsTypeOK, Exists
<1>4. CASE Spawn(p)
  <2>1. PICK q \in Births : Change(p, [q EXCEPT !.id = changes + 1], Places)
    BY <1>4 DEF Spawn
  <2>2. q \in Process /\ changes < MaxChanges
    BY <2>1 DEF Change
  <2>3. [q EXCEPT !.id = changes + 1] \in Process
    BY <1>2, <2>2 DEF Process
  <2> QED
    BY <2>1, <2>3, ChangeTouches
<1>5. CASE Die(p)
  <2>1. [proc[p] EXCEPT !.zombie = TRUE] \in Process
    BY <1>3, <1>5 DEF Die, Process
  <2> QED
    BY <1>5, <2>1, ChangeTouches DEF Die
<1>6. CASE Reap(p)
  BY <1>6, ChangeTouches DEF Reap
<1>7. CASE Move(p)
  <2>1. PICK x \in Places, f \in Files \cup {Nothing} :
          Change(p, [proc[p] EXCEPT !.at[x] = f], {x})
    BY <1>7 DEF Move, Places, Links
  <2> DEFINE q == [proc[p] EXCEPT !.at[x] = f]
  <2>2. Exists(p) /\ ~proc[p].zombie /\ proc[p] \in Process
    BY <1>3, <1>7 DEF Move
  <2>3. q \in Process /\ q.zombie = proc[p].zombie /\ q.at = [proc[p].at EXCEPT ![x] = f]
    BY <2>2 DEF Process
  <2>4. \A y \in Places \ {x} : q.at[y] = proc[p].at[y]
    BY <2>2, <2>3 DEF Process
  <2>5. \A y \in Places \ {x} : SeenOf(q, y) = Held(p, y)
    BY <2>2, <2>3, <2>4, GoneIsNoProcess DEF SeenOf, Held
  <2>6. Change(p, q, {x})
    BY <2>1
  <2> HIDE DEF q
  <2> QED
    BY <2>3, <2>5, <2>6, ChangeTouches
<1> QED
  BY <1>1, <1>4, <1>5, <1>6, <1>7

LEMMA EnvironmentKeeps == RecInv /\ Environment => RecInv'
<1> SUFFICES ASSUME RecInv, Environment PROVE RecInv'
  OBVIOUS
<1>1. TypeOK /\ Resolving /\ AllGood
  BY RecInvGood
<1>2. /\ ProcfsTypeOK'
      /\ \A s \in Pids, x \in Places :
           Untouched(s, x)' => Untouched(s, x) /\ Held(s, x)' = Held(s, x)
  BY <1>1, ProcessesTouch DEF Environment, TypeOK
<1>3. UNCHANGED <<filters, pc, pid, pids, place, fd_dir, fds, fd, buf, node, temp, processes>>
  BY DEF Environment, pidVars, fdVars, resolved
<1>4. TypeOK'
  BY <1>1, <1>2, <1>3 DEF TypeOK
<1>5. Resolving'
  <2>1. pc \in {"stat", "fdstat", "fdinfo"} => pid \in Pids /\ place \in Places
    BY <1>1 DEF Resolving, TypeOK
  <2>2. pc \in {"stat", "fdstat", "fdinfo"} /\ Untouched(pid, place)'
          => Untouched(pid, place) /\ Held(pid, place)' = Held(pid, place)
    <3> SUFFICES ASSUME pc \in {"stat", "fdstat", "fdinfo"}, Untouched(pid, place)'
                 PROVE  Untouched(pid, place) /\ Held(pid, place)' = Held(pid, place)
      OBVIOUS
    <3>1. <<pid, place>> \notin touched'
      BY <1>3 DEF Untouched
    <3>2. Untouched(pid, place) /\ (\A x \in Places : x = place => Held(pid, x)' = Held(pid, x))
      BY <1>2, <2>1, <3>1, <1>3 DEF Untouched, Held, Exists
    <3> QED
      BY <2>1, <3>2, <1>3 DEF Held, Exists
  <2> QED
    BY <1>1, <1>3, <2>2 DEF Resolving
<1>6. AllGood'
  <2> SUFFICES ASSUME NEW r \in processes' \cup temp' PROVE Good(r)'
    BY DEF AllGood
  <2>1. Good(r)
    BY <1>1, <1>3 DEF AllGood
  <2> QED
    BY <1>2, <2>1 DEF Good
<1> QED
  BY <1>4, <1>5, <1>6, RecInvGood, PTL

LEMMA RecStep == RecInv /\ [Next]_vars => RecInv'
<1> SUFFICES ASSUME RecInv, [Next]_vars PROVE RecInv'
  OBVIOUS
<1>1. CASE Scan /\ UNCHANGED <<procVars, filters>>
  BY <1>1, find_processesKeeps, find_commandKeeps, find_usernameKeeps, read_linkKeeps,
     stat_linkKeeps, find_mem_delKeeps, open_fd_dirsKeeps, read_fd_dirKeeps,
     read_fd_linkKeeps, stat_fdKeeps, read_fdinfoKeeps DEF Scan
<1>2. CASE Environment
  BY <1>2, EnvironmentKeeps
<1>3. CASE UNCHANGED vars
  <2>1. TypeOK /\ Resolving /\ AllGood
    BY RecInvGood
  <2>2. UNCHANGED <<procVars, filters, pc, pid, pids, place, fd_dir, fds, fd, buf, node,
                    temp, processes>>
    BY <1>3 DEF vars, pidVars, fdVars, resolved
  <2>3. TypeOK' /\ AllGood'
    BY <2>1, <2>2, Still DEF TypeOK, AllGood
  <2>4. Resolving'
    BY <2>1, <2>2 DEF Resolving, Untouched, Held, Exists, procVars
  <2> QED
    BY <2>3, <2>4, RecInvGood, PTL
<1> QED
  BY <1>1, <1>2, <1>3 DEF Next

(***************************************************************************)
(* Whatever the processes do during the scan, and however long it takes,   *)
(* the place being resolved and every record of an untouched place agree   *)
(* with what is there: hw1.cpp never files one place's name or node under  *)
(* another, or under another process.                                      *)
(***************************************************************************)
THEOREM RecInvHolds == Spec => []RecInv
BY RecInit, RecStep, PTL DEF Spec

THEOREM RecordsAreTrue == Spec => []RecordsTrue
<1>1. RecInv => RecordsTrue
  BY DEF RecInv
<1> QED
  BY <1>1, RecInvHolds, PTL

-----------------------------------------------------------------------------
(***************************************************************************)
(* What has been collected of a process at each step, when nothing is      *)
(* filtered out: its three links come first, and one after the other.      *)
(***************************************************************************)
Labels(R) == {r.fd : r \in R}

AfterLinks == {"maps", "fddir", "fdinfodir", "fds", "fdlink", "fdstat", "fdinfo"}

Need(at, x) ==
  IF at \in AfterLinks THEN {"cwd", "rtd", "txt"}
  ELSE IF at \in {"link", "stat"} /\ x = "exe" THEN {"cwd", "rtd"}
  ELSE IF at \in {"link", "stat"} /\ x = "root" THEN {"cwd"}
  ELSE {}

Collecting == pc \notin {"next", "done", "crashed"}

WholeInv ==
  /\ LinksOrNothing
  /\ Collecting => \A r \in temp : r.pid = pid
  /\ All => Need(pc, place) \subseteq Labels(temp)
  /\ pc = "stat" => buf \in Files

(* Steps that collect.                                                     *)
LEMMA CollectKeeps ==
  ASSUME WholeInv, Collecting,
         UNCHANGED <<filters, pid, processes>>,
         temp \subseteq temp', \A r \in temp' \ temp : r.pid = pid,
         All => Need(pc', place') \subseteq Need(pc, place) \cup Labels(temp'),
         pc' = "stat" => buf' \in Files
  PROVE  WholeInv'
<1>1. All' <=> All
  BY DEF All
<1>2. Labels(temp) \subseteq Labels(temp')
  BY DEF Labels
<1>3. All' => Need(pc', place') \subseteq Labels(temp')
  BY <1>1, <1>2 DEF WholeInv
<1>4. \A r \in temp' : r.pid = pid'
  BY DEF WholeInv
<1>5. LinksOrNothing'
  BY <1>1 DEF WholeInv, LinksOrNothing, Listed
<1> QED
  BY <1>3, <1>4, <1>5 DEF WholeInv

(* Steps that collect nothing and leave nothing to collect.                *)
LEMMA NothingKeeps ==
  ASSUME WholeInv, UNCHANGED <<filters, processes>>,
         Need(pc', place') = {}, pc' # "stat",
         Collecting' => \A r \in temp' : r.pid = pid'
  PROVE  WholeInv'
BY DEF WholeInv, LinksOrNothing, Listed, All

(* The end of a process.                                                   *)
LEMMA AppendIsWhole ==
  ASSUME WholeInv, pc \in AfterLinks, NEW R, \A r \in R : r.pid = pid, Append(temp \cup R),
         UNCHANGED filters
  PROVE  WholeInv'
<1>1. (All' <=> All) /\ Collecting /\ pc' = "next" /\ processes' = processes \cup temp \cup R
  BY DEF All, Collecting, AfterLinks, Append
<1>2. ASSUME All, NEW r \in processes'
      PROVE  {"cwd", "rtd", "txt"} \subseteq Labels({s \in processes' : s.pid = r.pid})
  <2>1. CASE r \in processes
    <3>1. {"cwd", "rtd", "txt"} \subseteq Labels({s \in processes : s.pid = r.pid})
      BY <1>2, <2>1 DEF WholeInv, LinksOrNothing, Listed, Labels
    <3> QED
      BY <1>1, <3>1 DEF Labels
  <2>2. CASE r \in temp \cup R
    <3>1. r.pid = pid /\ \A s \in temp : s.pid = pid
      BY <1>1, <2>2 DEF WholeInv
    <3>2. {"cwd", "rtd", "txt"} \subseteq Labels(temp)
      BY <1>2 DEF WholeInv, Need
    <3> QED
      BY <1>1, <3>1, <3>2 DEF Labels
  <2> QED
    BY <1>1, <1>2, <2>1, <2>2
<1>3. LinksOrNothing'
  BY <1>1, <1>2 DEF LinksOrNothing, Listed, Labels
<1> QED
  BY <1>1, <1>3 DEF WholeInv, Collecting, Need, AfterLinks, Labels

(* The record of a link is made, whether it may be looked at or not.       *)
LEMMA LinkIsCollected ==
  ASSUME WholeInv, pc \in {"link", "stat"}, place \in Links, AfterLink,
         NEW R, R = {r \in R : r.pid = pid}, All => Label(place) \in Labels(R),
         temp' = temp \cup R, UNCHANGED <<filters, pid, processes>>
  PROVE  WholeInv'
<1>1. Labels(temp') = Labels(temp) \cup Labels(R)
  BY DEF Labels
<1>2. Need(pc', place') \subseteq Need(pc, place) \cup {Label(place)}
  BY DEF AfterLink, Need, AfterLinks, Label, Links
<1>3. All => Need(pc', place') \subseteq Need(pc, place) \cup Labels(temp')
  BY <1>1, <1>2
<1>4. pc' # "stat"
  BY DEF AfterLink
<1> QED
  BY <1>3, <1>4, CollectKeeps DEF Collecting

LEMMA UnknownIsMade ==
  ASSUME pid \in Pids, NEW label \in {"cwd", "rtd", "txt", "NOFD"}
  PROVE  /\ \A r \in Unknown(label) : r.pid = pid
         /\ All => label \in Labels(Unknown(label))
<1>1. \A r \in Unknown(label) : r.pid = pid
  BY DEF Unknown, Record
<1>2. ASSUME All
      PROVE  label \in Labels(Unknown(label))
  <2>1. Record(label, Denied, Denied) \in Unknown(label)
    BY <1>2 DEF Unknown, All, Names, TypeWanted
  <2>2. Record(label, Denied, Denied).fd = label
    BY DEF Record
  <2> QED
    BY <2>1, <2>2 DEF Labels
<1> QED
  BY <1>1, <1>2

LEMMA WantedIsMade ==
  ASSUME NEW label, NEW name \in Files, NEW inode
  PROVE  /\ \A r \in Wanted(label, name, inode) : r.pid = pid
         /\ All => label \in Labels(Wanted(label, name, inode))
<1>1. \A r \in Wanted(label, name, inode) : r.pid = pid
  BY DEF Wanted, Record
<1>2. ASSUME All
      PROVE  label \in Labels(Wanted(label, name, inode))
  <2>1. Record(label, name, inode) \in Wanted(label, name, inode)
    BY <1>2 DEF Wanted, All, Names, TypeWanted
  <2>2. Record(label, name, inode).fd = label
    BY DEF Record
  <2> QED
    BY <2>1, <2>2 DEF Labels
<1> QED
  BY <1>1, <1>2

LEMMA ScanIsWhole ==
  ASSUME RecInv, WholeInv, Scan, UNCHANGED <<procVars, filters>>
  PROVE  WholeInv'
<1> USE DEF pidVars, fdVars, resolved
<1>0. TypeOK /\ Resolving
  BY DEF RecInv
<1>1. ASSUME Leave
      PROVE  WholeInv'
  BY <1>1, NothingKeeps DEF Leave, Drop, Need, AfterLinks, Collecting
<1>2. CASE find_processes
  BY <1>2, NothingKeeps DEF find_processes, Need, AfterLinks, Collecting
<1>3. CASE find_command \/ find_username
  <2>1. place = "cwd" /\ Collecting
    BY <1>0, <1>3 DEF find_command, find_username, Resolving, Collecting
  <2> QED
    BY <1>1, <1>3, <2>1, NothingKeeps
       DEF find_command, find_username, Need, AfterLinks, Collecting, WholeInv
<1>4. CASE read_link
  <2>1. pc = "link" /\ place \in Links /\ pid \in Pids /\ Collecting
    BY <1>0, <1>4 DEF read_link, Resolving, Collecting
  <2>2. CASE temp' = temp \cup Unknown(Label(place)) /\ AfterLink /\ UNCHANGED <<pid, processes>>
    <3>1. Label(place) \in {"cwd", "rtd", "txt", "NOFD"}
      BY <2>1 DEF Label, Links
    <3> QED
      BY <2>1, <2>2, <3>1, UnknownIsMade, LinkIsCollected
  <2>3. CASE ~Missing /\ buf' = Held(pid, place) /\ pc' = "stat"
             /\ UNCHANGED <<pid, place, temp, processes>>
    <3>1. buf' \in Files
      BY <1>0, <2>1, <2>3, HeldTyped DEF Missing, TypeOK, Places
    <3>2. Need(pc', place') = Need(pc, place)
      BY <2>1, <2>3 DEF Need, AfterLinks
    <3> QED
      BY <2>1, <2>3, <3>1, <3>2, CollectKeeps
  <2> QED
    BY <1>1, <1>4, <2>2, <2>3 DEF read_link
<1>5. CASE stat_link
  <2>1. pc = "stat" /\ place \in Links /\ buf \in Files
    BY <1>0, <1>5 DEF stat_link, Resolving, WholeInv
  <2>2. CASE /\ temp' = temp \cup Wanted(Label(place), buf, node')
             /\ AfterLink /\ UNCHANGED <<pid, processes>>
    BY <2>1, <2>2, WantedIsMade, LinkIsCollected
  <2> QED
    BY <1>1, <1>5, <2>2 DEF stat_link
<1>6. CASE find_mem_del
  <2>1. CASE /\ temp' = temp \cup
                   IF MemWanted /\ ~Refused(pid)
                   THEN {Record("mem", f, f) : f \in Mapped(pid) \cap filters.names} ELSE {}
             /\ pc = "maps" /\ pc' = "fddir" /\ UNCHANGED <<pid, processes>>
    <3>1. \A r \in temp' \ temp : r.pid = pid
      BY <2>1 DEF Record
    <3>2. Need(pc', place') = Need(pc, place)
      BY <2>1 DEF Need, AfterLinks
    <3> QED
      BY <2>1, <3>1, <3>2, CollectKeeps DEF Collecting
  <2> QED
    BY <1>1, <1>6, <2>1 DEF find_mem_del
<1>7. CASE open_fd_dirs
  <2>1. CASE Append(temp \cup Unknown("NOFD")) /\ pc \in {"fddir", "fdinfodir"}
    <3>1. pid \in Pids
      BY <1>0, <2>1 DEF Resolving
    <3> QED
      BY <2>1, <3>1, UnknownIsMade, AppendIsWhole DEF AfterLinks
  <2>2. CASE /\ pc \in {"fddir", "fdinfodir"} /\ pc' \in {"fdinfodir", "fds"}
             /\ UNCHANGED <<pid, temp, processes>>
    BY <2>2, CollectKeeps DEF Collecting, Need, AfterLinks
  <2> QED
    BY <1>1, <1>7, <2>1, <2>2 DEF open_fd_dirs
<1>8. CASE read_fd_dir
  <2>1. CASE Append(temp) /\ pc = "fds"
    <3>1. Append(temp \cup {})
      BY <2>1
    <3> QED
      BY <2>1, <3>1, AppendIsWhole DEF AfterLinks
  <2>2. CASE pc = "fds" /\ pc' = "fdlink" /\ UNCHANGED <<pid, temp, processes>>
    BY <2>2, CollectKeeps DEF Collecting, Need, AfterLinks
  <2> QED
    BY <1>8, <2>1, <2>2 DEF read_fd_dir
<1>9. CASE read_fd_link \/ stat_fd
  <2>1. CASE pc \in {"fdlink", "fdstat"} /\ pc' \in {"fdstat", "fds", "fdinfo"}
             /\ UNCHANGED <<pid, temp, processes>>
    BY <2>1, CollectKeeps DEF Collecting, Need, AfterLinks
  <2> QED
    BY <1>1, <1>9, <2>1 DEF read_fd_link, stat_fd
<1>10. CASE read_fdinfo
  <2>1. \A r \in temp' \ temp : r.pid = pid
    BY <1>10 DEF read_fdinfo, Wanted, Record
  <2> QED
    BY <1>10, <2>1, CollectKeeps DEF read_fdinfo, Collecting, Need, AfterLinks
<1> QED
  BY <1>2, <1>3, <1>4, <1>5, <1>6, <1>7, <1>8, <1>9, <1>10 DEF Scan

LEMMA WholeInvHolds == Spec => []WholeInv
<1>1. Init => WholeInv
  BY DEF Init, WholeInv, LinksOrNothing, Collecting, Need, AfterLinks
<1>2. RecInv /\ WholeInv /\ [Next]_vars => WholeInv'
  <2>1. ASSUME WholeInv, UNCHANGED <<filters, pc, pid, place, buf, temp, processes>>
        PROVE  WholeInv'
    BY <2>1 DEF WholeInv, LinksOrNothing, Listed, All, Collecting
  <2> QED
    BY <2>1, ScanIsWhole DEF Next, Environment, vars, pidVars, resolved
<1> QED
  BY <1>1, <1>2, RecInvHolds, PTL DEF Spec

(***************************************************************************)
(* collect_information (hw1.cpp:97-140) drops what it has of a process     *)
(* when it returns early at a link: without filters, a process that is     *)
(* listed is listed with its working directory, root and program, for any  *)
(* processes and changes.  Of its descriptors this says nothing.           *)
(***************************************************************************)
THEOREM ListedHaveLinks == Spec => []LinksOrNothing
<1>1. WholeInv => LinksOrNothing
  BY DEF WholeInv
<1> QED
  BY <1>1, WholeInvHolds, PTL

-----------------------------------------------------------------------------
(***************************************************************************)
(* A process nothing happens to, and what its places hold.                 *)
(***************************************************************************)
LEMMA QuietStays ==
  ASSUME ProcfsTypeOK, ProcessesChange, NEW p \in Pids, Quiet(p)'
  PROVE  Quiet(p) /\ proc'[p] = proc[p]
<1>1. PICK s \in Pids :
        \E q, xs : Change(s, q, xs) /\ xs \subseteq Places /\ xs # {}
  <2>1. PICK s \in Pids : Spawn(s) \/ Die(s) \/ Reap(s) \/ Move(s)
    BY DEF ProcessesChange
  <2>2. Places \subseteq Places /\ Places # {}
    BY DEF Places, Links
  <2>3. CASE Spawn(s)
    BY <2>2, <2>3 DEF Spawn
  <2>4. CASE Die(s) \/ Reap(s)
    BY <2>2, <2>4 DEF Die, Reap
  <2>5. CASE Move(s)
    <3>1. PICK x \in Places : \E r : Change(s, r, {x})
      BY <2>5 DEF Move, Places, Links
    <3>2. {x} \subseteq Places /\ {x} # {}
      OBVIOUS
    <3> QED
      BY <3>1, <3>2
  <2> QED
    BY <2>1, <2>3, <2>4, <2>5
<1>2. PICK q, xs : proc' = [proc EXCEPT ![s] = q] /\ touched' = touched \cup ({s} \X xs)
                   /\ xs \subseteq Places /\ xs # {}
  BY <1>1 DEF Change
<1>3. s # p
  BY <1>2 DEF Quiet, Untouched
<1> QED
  BY <1>2, <1>3 DEF Quiet, Untouched, ProcfsTypeOK

(***************************************************************************)
(* The parts of the records of a process q with the pid p, under the       *)
(* filters t.                                                              *)
(***************************************************************************)
Shown(t, p, type, label, asked, file) ==
  IF t.type \in {NoFilter, type} /\ asked \in t.names
  THEN {[pid |-> p, fd |-> label, name |-> file, node |-> file]} ELSE {}

FilePart(t, p, q, x, label) == Shown(t, p, Kind[q.at[x]], label, q.at[x], q.at[x])

LinkPart(t, p, q, x) ==
  IF q.denied THEN Shown(t, p, "unknown", Label(x), <<p, Label(x)>>, Denied)
  ELSE FilePart(t, p, q, x, Label(x))

MemPart(t, p, q) ==
  IF q.denied THEN {} ELSE UNION {Shown(t, p, "REG", "mem", f, f) : f \in q.maps}

LinkParts(t, p, q, S) == UNION {LinkPart(t, p, q, x) : x \in S}

FdParts(t, p, q, S) == UNION {FilePart(t, p, q, FdName[n], FdName[n]) : n \in S}

OpenIn(q) == {n \in Fds : q.at[FdName[n]] # Nothing}

Lives(q) == ~q.zombie /\ \A x \in Links : q.at[x] # Nothing

LEMMA ExpectedOfNone ==
  ASSUME NEW p, ~Exists(p) \/ ~proc[p].matches \/ (~proc[p].denied /\ ~Lives(proc[p]))
  PROVE  Expected(p) = {}
BY DEF Expected, Lives

LEMMA ExpectedOfDenied ==
  ASSUME NEW p, Exists(p), proc[p].matches, proc[p].denied
  PROVE  Expected(p) = LinkParts(filters, p, proc[p], Links)
                        \cup Shown(filters, p, "unknown", "NOFD", <<p, "NOFD">>, Denied)
<1>1. Expected(p) = UNION {Shown(filters, p, "unknown", l, <<p, l>>, Denied) :
                             l \in {"cwd", "rtd", "txt", "NOFD"}}
  BY DEF Expected, Shown
<1>2. /\ Label("cwd") = "cwd" /\ Label("root") = "rtd" /\ Label("exe") = "txt"
  BY DEF Label
<1>3. LinkParts(filters, p, proc[p], Links)
        = UNION {Shown(filters, p, "unknown", Label(x), <<p, Label(x)>>, Denied) : x \in Links}
  BY DEF LinkParts, LinkPart
<1> QED
  BY <1>1, <1>2, <1>3 DEF Links

LEMMA OpenIs ==
  ASSUME NEW p, Exists(p), ~proc[p].zombie
  PROVE  Open(p) = OpenIn(proc[p]) /\ \A x : Held(p, x) = proc[p].at[x]
BY DEF Open, OpenIn, Held

LEMMA ExpectedOfLiving ==
  ASSUME NEW p, Exists(p), proc[p].matches, ~proc[p].denied, Lives(proc[p])
  PROVE  Expected(p) = LinkParts(filters, p, proc[p], Links)
                        \cup MemPart(filters, p, proc[p])
                        \cup FdParts(filters, p, proc[p], OpenIn(proc[p]))
<1> DEFINE File(x, label) == FilePart(filters, p, proc[p], x, label)
<1>1. Expected(p) = File("cwd", "cwd") \cup File("root", "rtd") \cup File("exe", "txt")
                     \cup (UNION {Shown(filters, p, "REG", "mem", f, f) : f \in proc[p].maps})
                     \cup (UNION {File(FdName[n], FdName[n]) : n \in Open(p)})
  BY DEF Expected, Shown, FilePart, Lives
<1>2. /\ Label("cwd") = "cwd" /\ Label("root") = "rtd" /\ Label("exe") = "txt"
  BY DEF Label
<1>3. LinkParts(filters, p, proc[p], Links) = UNION {File(x, Label(x)) : x \in Links}
  BY DEF LinkParts, LinkPart
<1>4. Open(p) = OpenIn(proc[p])
  BY OpenIs DEF Lives
<1> QED
  BY <1>1, <1>2, <1>3, <1>4 DEF Links, MemPart, FdParts

(***************************************************************************)
(* What has been collected of it at each step of the scan: the links that  *)
(* have been resolved, the memory, and the descriptors up to the last one. *)
(***************************************************************************)
LinksDone(at, x) ==
  IF at \in AfterLinks THEN Links
  ELSE IF at \in {"link", "stat"} /\ x = "exe" THEN {"cwd", "root"}
  ELSE IF at \in {"link", "stat"} /\ x = "root" THEN {"cwd"}
  ELSE {}

FdLoop == {"fdlink", "fdstat", "fdinfo"}

FdsDone(q, at, n) ==
  IF at = "fds" THEN {m \in OpenIn(q) : m <= n}
  ELSE IF at \in FdLoop THEN {m \in OpenIn(q) : m < n}
  ELSE {}

Collected(t, p, q, at, x, n) ==
  LinkParts(t, p, q, LinksDone(at, x))
    \cup (IF at \in AfterLinks \ {"maps"} THEN MemPart(t, p, q) ELSE {})
    \cup FdParts(t, p, q, FdsDone(q, at, n))

SofarOf(q) ==
  /\ q # Gone
  /\ temp = Collected(filters, pid, q, pc, place, fd)
  /\ pc # "comm" => q.matches
  /\ q.denied \/ \A x \in LinksDone(pc, place) : ~q.zombie /\ q.at[x] # Nothing
  /\ pc = "stat" => ~q.denied /\ ~q.zombie /\ q.at[place] # Nothing
  /\ pc \in {"fdinfodir", "fds"} \cup FdLoop => ~q.denied /\ fd_dir = q.id
  /\ pc \in {"fds"} \cup FdLoop => fds = {} \/ fds = {n \in OpenIn(q) : n > fd}
  /\ pc \in FdLoop => fd \in OpenIn(q) /\ place = FdName[fd]

Placed(p) ==
  /\ p \in pids => Exists(p)
  /\ Exists(p) /\ p > pid /\ pids # {} => p \in pids
  /\ Exists(p) /\ pc = "done" => p <= pid
  /\ p > pid \/ (p = pid /\ Collecting) => Listed(p) = {}
  /\ p < pid \/ (p = pid /\ pc \in {"next", "done"}) => Listed(p) = Expected(p)

ListInv ==
  /\ \A p \in pids : p > pid
  /\ \A p \in Pids : Quiet(p) => Placed(p)
  /\ Collecting /\ Quiet(pid) => SofarOf(proc[pid])

(***************************************************************************)
(* Steps within a process, to its end, or out of it.                       *)
(***************************************************************************)
LEMMA SameExpected ==
  ASSUME NEW p, proc'[p] = proc[p], UNCHANGED filters
  PROVE  Expected(p)' = Expected(p) /\ Exists(p)' = Exists(p)
BY DEF Expected, Open, Held, Exists

LEMMA CollectLists ==
  ASSUME ListInv, Collecting, pc' \notin {"next", "done"},
         UNCHANGED <<procVars, filters, pids, pid, processes>>,
         Quiet(pid) /\ Collecting' => SofarOf(proc[pid])'
  PROVE  ListInv'
<1>1. ASSUME NEW p \in Pids, Quiet(p)'
      PROVE  Placed(p)'
  <2>1. Placed(p)
    BY <1>1 DEF ListInv, Quiet, Untouched, procVars
  <2>2. Expected(p)' = Expected(p) /\ Exists(p)' = Exists(p)
    BY SameExpected DEF procVars
  <2>3. Listed(p)' = Listed(p)
    BY DEF Listed
  <2> QED
    BY <2>1, <2>2, <2>3 DEF Placed
<1>2. Collecting' /\ Quiet(pid)' => SofarOf(proc[pid])'
  BY DEF Quiet, Untouched, procVars
<1>3. \A p \in pids' : p > pid'
  BY DEF ListInv
<1> QED
  BY <1>1, <1>2, <1>3 DEF ListInv

LEMMA EndLists ==
  ASSUME RecInv, ListInv, Collecting, pc' = "next",
         UNCHANGED <<procVars, filters, pids, pid>>,
         NEW R, \A r \in R : r.pid = pid, processes' = processes \cup R,
         Quiet(pid) => R = Expected(pid)
  PROVE  ListInv'
<1>0. pids \subseteq Pids /\ pid \in Pids /\ Pids \subseteq Nat
  BY DEF RecInv, TypeOK, Resolving, Collecting
<1>1. ASSUME NEW p \in Pids, Quiet(p)'
      PROVE  Placed(p)'
  <2>1. Quiet(p) /\ Placed(p)
    BY <1>1 DEF ListInv, Quiet, Untouched, procVars
  <2>2. Expected(p)' = Expected(p) /\ Exists(p)' = Exists(p)
    BY SameExpected DEF procVars
  <2>3. CASE p # pid
    <3>1. Listed(p)' = Listed(p)
      BY <2>3 DEF Listed
    <3> QED
      BY <2>1, <2>2, <2>3, <3>1 DEF Placed
  <2>4. CASE p = pid
    <3>1. Listed(p)' = R
      BY <2>1, <2>4 DEF Listed, Placed
    <3> QED
      BY <1>0, <2>1, <2>2, <2>4, <3>1 DEF Placed, Collecting
  <2> QED
    BY <2>3, <2>4
<1>2. ~Collecting'
  BY DEF Collecting
<1>3. \A p \in pids' : p > pid'
  BY DEF ListInv
<1> QED
  BY <1>1, <1>2, <1>3 DEF ListInv

LEMMA LeaveLists ==
  ASSUME RecInv, ListInv, Collecting, Leave, UNCHANGED <<procVars, filters>>,
         Quiet(pid) => Expected(pid) = {}
  PROVE  ListInv'
<1>1. \A r \in {} : r.pid = pid
  OBVIOUS
<1>2. processes' = processes \cup {}
  BY DEF Leave, Drop
<1> QED
  BY <1>1, <1>2, EndLists DEF Leave, pidVars

LEMMA PidIsNat ==
  ASSUME RecInv
  PROVE  pid \in Nat
<1>1. pid \in Pids \cup {0}
  BY DEF RecInv, TypeOK
<1>2. CASE pid \in Pids
  <2>1. pid \in Nat \ {0}
    BY <1>2
  <2> QED
    BY <2>1
<1>3. CASE pid = 0
  BY <1>3
<1> QED
  BY <1>1, <1>2, <1>3

LEMMA find_processesLists ==
  ASSUME RecInv, ListInv, find_processes, UNCHANGED <<procVars, filters>>
  PROVE  ListInv'
<1> DEFINE unread == IF pids # {} THEN pids ELSE {p \in Pids : Exists(p) /\ p > pid}
<1>1. /\ pc = "next" /\ UNCHANGED processes
      /\ pids \subseteq Pids /\ Pids \subseteq Nat /\ pid \in Nat
      /\ unread \subseteq Pids
  <2>1. pc = "next" /\ UNCHANGED processes
    BY DEF find_processes
  <2>2. pids \subseteq Pids
    BY DEF RecInv, TypeOK
  <2>3. Pids \subseteq Nat
    OBVIOUS
  <2>4. unread \subseteq Pids
    BY <2>2
  <2> HIDE DEF unread
  <2> QED
    BY <2>1, <2>2, <2>3, <2>4, PidIsNat
<1>2. ASSUME NEW p \in Pids, Quiet(p)'
      PROVE  /\ Placed(p) /\ Quiet(p)
             /\ Expected(p)' = Expected(p) /\ Exists(p)' = Exists(p)
             /\ Listed(p)' = Listed(p)
             /\ Exists(p) /\ p > pid => p \in unread
             /\ p \in unread => Exists(p)
  <2>1. Placed(p) /\ Quiet(p)
    BY <1>2 DEF ListInv, Quiet, Untouched, procVars
  <2>2. Expected(p)' = Expected(p) /\ Exists(p)' = Exists(p)
    BY SameExpected DEF procVars
  <2>3. Listed(p)' = Listed(p)
    BY <1>1 DEF Listed
  <2>4. Exists(p) /\ p > pid => p \in unread
    BY <2>1 DEF Placed
  <2>5. p \in unread => Exists(p)
    BY <2>1 DEF Placed
  <2> QED
    BY <2>1, <2>2, <2>3, <2>4, <2>5
<1>3. \A p \in unread : p > pid
  BY DEF ListInv
<1>4. CASE unread = {} /\ pc' = "done" /\ UNCHANGED <<pids, pid>>
  <2>1. ASSUME NEW p \in Pids, Quiet(p)'
        PROVE  Placed(p)'
    <3>1. p \in Nat
      BY <1>1
    <3> HIDE DEF unread
    <3> QED
      BY <1>1, <1>2, <1>4, <2>1, <3>1 DEF Placed, Collecting
  <2>2. ~Collecting'
    BY <1>4 DEF Collecting
  <2>3. \A p \in pids' : p > pid'
    BY <1>4 DEF ListInv
  <2> QED
    BY <2>1, <2>2, <2>3 DEF ListInv
<1>5. ASSUME NEW n \in unread, Least(n, unread), pid' = n, pids' = unread \ {n},
             temp' = {}, place' = "cwd", pc' = "comm"
      PROVE  ListInv'
  <2> HIDE DEF unread
  <2>0. n \in Nat /\ n > pid /\ \A p \in unread : p \in Nat /\ n <= p
    BY <1>1, <1>3, <1>5 DEF Least
  <2>1. \A p \in pids' : p > pid'
    BY <1>5, <2>0
  <2>2. ASSUME NEW p \in Pids, Quiet(p)'
        PROVE  Placed(p)'
    <3>0. p \in Nat
      BY <1>1
    <3>1. p \in pids' => Exists(p)
      BY <1>2, <1>5, <2>2
    <3>2. Exists(p) /\ p > n => p \in pids'
      BY <1>2, <1>5, <2>0, <2>2, <3>0, <1>1
    <3>3. p >= n => Listed(p) = {}
      BY <1>1, <1>2, <2>0, <2>2, <3>0 DEF Placed
    <3>4. ASSUME p < n
          PROVE  Listed(p) = Expected(p)
      <4>1. CASE p > pid
        <5>1. ~Exists(p)
          BY <1>2, <2>0, <2>2, <3>0, <3>4, <4>1
        <5> QED
          BY <1>2, <2>2, <4>1, <5>1, ExpectedOfNone DEF Placed
      <4>2. CASE p <= pid
        BY <1>1, <1>2, <2>2, <3>0, <4>2 DEF Placed
      <4> QED
        BY <1>1, <3>0, <4>1, <4>2
    <3> QED
      BY <1>2, <1>5, <2>0, <2>2, <3>0, <3>1, <3>2, <3>3, <3>4 DEF Placed
  <2>3. ASSUME Quiet(pid)'
        PROVE  SofarOf(proc[pid])'
    <3>1. Exists(n)
      BY <1>1, <1>2, <1>5, <2>3
    <3>2. proc'[pid'] # Gone
      BY <1>5, <3>1 DEF Exists, procVars
    <3>3. Collected(filters', pid', proc'[pid'], pc', place', fd') = {}
      BY <1>5 DEF Collected, LinksDone, LinkParts, FdParts, FdsDone, AfterLinks, FdLoop
    <3>4. LinksDone(pc', place') = {}
      BY <1>5 DEF LinksDone, AfterLinks
    <3> QED
      BY <1>5, <3>2, <3>3, <3>4 DEF SofarOf, FdLoop
  <2> QED
    BY <2>1, <2>2, <2>3 DEF ListInv
<1> QED
  BY <1>4, <1>5 DEF find_processes, pidVars

(***************************************************************************)
(* A link is resolved, and the next one is looked at, or maps.             *)
(***************************************************************************)
LEMMA LinkLists ==
  ASSUME ListInv, pc \in {"link", "stat"}, place \in Links, AfterLink,
         UNCHANGED <<procVars, filters, pids, pid, processes>>,
         Quiet(pid) =>
           /\ temp' = temp \cup LinkPart(filters, pid, proc[pid], place)
           /\ proc[pid].denied \/ (~proc[pid].zombie /\ proc[pid].at[place] # Nothing)
  PROVE  ListInv'
<1>1. pc' \in {"link", "maps"} /\ Collecting
  BY DEF AfterLink, Collecting
<1>2. LinksDone(pc', place') = LinksDone(pc, place) \cup {place}
  BY DEF AfterLink, LinksDone, AfterLinks, Links
<1>3. ASSUME Quiet(pid)
      PROVE  SofarOf(proc[pid])'
  <2> DEFINE q == proc[pid]
  <2>1. SofarOf(q) /\ proc'[pid'] = q
    BY <1>1, <1>3 DEF ListInv, procVars
  <2> HIDE DEF q
  <2>2. Collected(filters, pid, q, pc, place, fd)
          = LinkParts(filters, pid, q, LinksDone(pc, place))
    BY DEF Collected, AfterLinks, FdsDone, FdLoop, FdParts
  <2>3. Collected(filters, pid, q, pc', place', fd')
          = LinkParts(filters, pid, q, LinksDone(pc', place'))
    BY <1>1 DEF Collected, AfterLinks, FdsDone, FdLoop, FdParts
  <2>4. LinkParts(filters, pid, q, LinksDone(pc', place'))
          = LinkParts(filters, pid, q, LinksDone(pc, place))
              \cup LinkPart(filters, pid, q, place)
    BY <1>2 DEF LinkParts
  <2>5. temp' = Collected(filters', pid', q, pc', place', fd')
    BY <1>3, <2>1, <2>2, <2>3, <2>4 DEF SofarOf, q
  <2>6. q.denied \/ \A x \in LinksDone(pc', place') : ~q.zombie /\ q.at[x] # Nothing
    BY <1>2, <1>3, <2>1 DEF SofarOf, q
  <2> QED
    BY <1>1, <2>1, <2>5, <2>6 DEF SofarOf, FdLoop
<1> QED
  BY <1>1, <1>3, CollectLists

(***************************************************************************)
(* The steps, one after the other.                                         *)
(***************************************************************************)
LEMMA find_commandLists ==
  ASSUME RecInv, ListInv, find_command, UNCHANGED <<procVars, filters>>
  PROVE  ListInv'
<1>1. pc = "comm" /\ Collecting
  BY DEF find_command, Collecting
<1>2. CASE Leave
  <2>1. ~Exists(pid) \/ ~proc[pid].matches
    BY <1>1, <1>2 DEF find_command, Leave
  <2> QED
    BY <1>1, <1>2, <2>1, ExpectedOfNone, LeaveLists
<1>3. CASE /\ Exists(pid) /\ proc[pid].matches /\ pc' = "status"
           /\ UNCHANGED <<pidVars, place, fdVars, resolved, temp, processes>>
  <2>1. ASSUME Quiet(pid)
        PROVE  SofarOf(proc[pid])'
    <3> DEFINE q == proc[pid]
    <3>1. SofarOf(q) /\ proc'[pid'] = q /\ q.matches
      BY <1>1, <1>3, <2>1 DEF ListInv, procVars, pidVars
    <3> HIDE DEF q
    <3>2. LinksDone(pc', place') = {}
      BY <1>3 DEF LinksDone, AfterLinks
    <3>3. Collected(filters', pid', q, pc', place', fd')
            = Collected(filters, pid, q, pc, place, fd)
      BY <1>1, <1>3 DEF Collected, LinksDone, AfterLinks, FdsDone, FdLoop, pidVars, fdVars
    <3>4. SofarOf(proc[pid])' <=> SofarOf(q)'
      BY <3>1 DEF SofarOf, q
    <3> QED
      BY <1>3, <3>1, <3>2, <3>3 DEF SofarOf, FdLoop
  <2> QED
    BY <1>1, <1>3, <2>1, CollectLists DEF pidVars
<1> QED
  BY <1>2, <1>3 DEF find_command

LEMMA find_usernameLists ==
  ASSUME RecInv, ListInv, find_username, UNCHANGED <<procVars, filters>>
  PROVE  ListInv'
<1>1. pc = "status" /\ Collecting /\ place = "cwd"
  BY DEF find_username, Collecting, RecInv, Resolving
<1>2. ASSUME Quiet(pid)
      PROVE  Exists(pid)
  BY <1>1, <1>2 DEF ListInv, SofarOf, Exists
<1>3. CASE ~Exists(pid) /\ Leave
  BY <1>1, <1>2, <1>3, LeaveLists
<1>4. CASE /\ pc' \in {"link", "crashed"}
           /\ UNCHANGED <<pidVars, place, fdVars, resolved, temp, processes>>
  <2>1. ASSUME Quiet(pid), Collecting'
        PROVE  SofarOf(proc[pid])'
    <3> DEFINE q == proc[pid]
    <3>1. SofarOf(q) /\ proc'[pid'] = q /\ pc' = "link"
      BY <1>1, <1>4, <2>1 DEF ListInv, procVars, pidVars, Collecting
    <3> HIDE DEF q
    <3>2. LinksDone(pc', place') = {}
      BY <1>1, <1>4 DEF LinksDone, AfterLinks
    <3>3. Collected(filters', pid', q, pc', place', fd')
            = Collected(filters, pid, q, pc, place, fd)
      BY <1>1, <1>4, <3>1, <3>2
      DEF Collected, LinksDone, AfterLinks, FdsDone, FdLoop, pidVars, fdVars
    <3> QED
      BY <1>1, <1>4, <3>1, <3>2, <3>3 DEF SofarOf, FdLoop
  <2> QED
    BY <1>1, <1>4, <2>1, CollectLists DEF pidVars
<1> QED
  BY <1>3, <1>4 DEF find_username

(* A quiet process whose links are all read is alive or may not be looked  *)
(* at, and one whose link is missing has no records.                       *)
LEMMA MissingLists ==
  ASSUME RecInv, ListInv, Collecting, Missing, ~Refused(pid), Quiet(pid),
         pc \in {"link", "stat"}, place \in Links
  PROVE  Expected(pid) = {}
<1>1. proc[pid] # Gone
  BY DEF ListInv, SofarOf
<1>2. ~proc[pid].denied /\ (proc[pid].zombie \/ proc[pid].at[place] = Nothing)
  BY <1>1 DEF Missing, Refused, Held, Exists
<1>3. ~Lives(proc[pid])
  BY <1>2 DEF Lives
<1> QED
  BY <1>2, <1>3, ExpectedOfNone

LEMMA read_linkLists ==
  ASSUME RecInv, ListInv, read_link, UNCHANGED <<procVars, filters>>
  PROVE  ListInv'
<1>1. pc = "link" /\ Collecting /\ place \in Links
  BY DEF read_link, Collecting, RecInv, Resolving
<1>2. CASE /\ Refused(pid) /\ AfterLink
           /\ temp' = temp \cup Unknown(Label(place))
           /\ UNCHANGED <<pidVars, fdVars, resolved, processes>>
  <2>1. proc[pid].denied
    BY <1>2 DEF Refused
  <2>2. Unknown(Label(place)) = LinkPart(filters, pid, proc[pid], place)
    BY <2>1 DEF Unknown, LinkPart, Shown, TypeWanted, Record
  <2> QED
    BY <1>1, <1>2, <2>1, <2>2, LinkLists DEF pidVars
<1>3. CASE ~Refused(pid) /\ Missing /\ Leave
  BY <1>1, <1>3, MissingLists, LeaveLists
<1>4. CASE /\ ~Missing /\ pc' = "stat"
           /\ UNCHANGED <<pidVars, place, fdVars, node, temp, processes>>
  <2>1. ASSUME Quiet(pid)
        PROVE  SofarOf(proc[pid])'
    <3> DEFINE q == proc[pid]
    <3>1. SofarOf(q) /\ proc'[pid'] = q
      BY <1>1, <1>4, <2>1 DEF ListInv, procVars, pidVars
    <3>2. ~q.denied /\ ~q.zombie /\ q.at[place] # Nothing
      BY <1>4, <3>1 DEF Missing, Refused, Held, Exists, SofarOf
    <3> HIDE DEF q
    <3>3. LinksDone(pc', place') = LinksDone(pc, place)
      BY <1>1, <1>4 DEF LinksDone, AfterLinks
    <3>4. Collected(filters', pid', q, pc', place', fd')
            = Collected(filters, pid, q, pc, place, fd)
      BY <1>1, <1>4, <3>3 DEF Collected, AfterLinks, FdsDone, FdLoop, pidVars, fdVars
    <3> QED
      BY <1>1, <1>4, <3>1, <3>2, <3>3, <3>4 DEF SofarOf, FdLoop
  <2> QED
    BY <1>1, <1>4, <2>1, CollectLists DEF pidVars
<1> QED
  BY <1>2, <1>3, <1>4 DEF read_link

LEMMA stat_linkLists ==
  ASSUME RecInv, ListInv, stat_link, UNCHANGED <<procVars, filters>>
  PROVE  ListInv'
<1>1. pc = "stat" /\ Collecting /\ place \in Links
  BY DEF stat_link, Collecting, RecInv, Resolving
<1>2. ASSUME Quiet(pid)
      PROVE  /\ ~proc[pid].denied /\ ~proc[pid].zombie /\ proc[pid].at[place] # Nothing
             /\ Held(pid, place) = proc[pid].at[place]
             /\ buf = Held(pid, place)
             /\ ~Missing
  <2>1. proc[pid] # Gone /\ ~proc[pid].denied /\ ~proc[pid].zombie
        /\ proc[pid].at[place] # Nothing
    BY <1>1, <1>2 DEF ListInv, SofarOf
  <2>2. Held(pid, place) = proc[pid].at[place]
    BY <2>1 DEF Held, Exists
  <2>3. buf = Held(pid, place)
    BY <1>1, <1>2 DEF RecInv, Resolving, Quiet, Places
  <2> QED
    BY <2>1, <2>2, <2>3 DEF Missing, Refused
<1>3. CASE Missing /\ Leave
  BY <1>1, <1>2, <1>3, LeaveLists
<1>4. CASE /\ node' = Held(pid, place) /\ AfterLink
           /\ temp' = temp \cup Wanted(Label(place), buf, node')
           /\ UNCHANGED <<pidVars, fdVars, buf, processes>>
  <2>1. ASSUME Quiet(pid)
        PROVE  Wanted(Label(place), buf, node') = LinkPart(filters, pid, proc[pid], place)
    BY <1>2, <1>4, <2>1 DEF Wanted, LinkPart, FilePart, Shown, TypeWanted, Record
  <2> QED
    BY <1>1, <1>2, <1>4, <2>1, LinkLists DEF pidVars
<1> QED
  BY <1>3, <1>4 DEF stat_link

LEMMA find_mem_delLists ==
  ASSUME RecInv, ListInv, find_mem_del, UNCHANGED <<procVars, filters>>
  PROVE  ListInv'
<1>1. pc = "maps" /\ Collecting
  BY DEF find_mem_del, Collecting
<1>2. ASSUME Quiet(pid)
      PROVE  SofarOf(proc[pid]) /\ Exists(pid)
  BY <1>1, <1>2 DEF ListInv, SofarOf, Exists
<1>3. CASE MemWanted /\ ~Exists(pid) /\ Leave
  BY <1>1, <1>2, <1>3, LeaveLists
<1> DEFINE M == IF MemWanted /\ ~Refused(pid)
                THEN {Record("mem", f, f) : f \in Mapped(pid) \cap filters.names} ELSE {}
<1>4. CASE /\ temp' = temp \cup M /\ pc' = "fddir"
           /\ UNCHANGED <<pidVars, place, fdVars, resolved, processes>>
  <2>1. ASSUME Quiet(pid)
        PROVE  SofarOf(proc[pid])'
    <3> DEFINE q == proc[pid]
    <3>1. SofarOf(q) /\ proc'[pid'] = q
      BY <1>2, <1>4, <2>1 DEF procVars, pidVars
    <3>2. M = MemPart(filters, pid, q)
      <4>1. CASE q.denied
        <5>1. Refused(pid)
          BY <1>2, <2>1, <4>1 DEF Refused
        <5> QED
          BY <4>1, <5>1 DEF MemPart
      <4>2. CASE ~q.denied
        <5>1. ~Refused(pid) /\ Mapped(pid) = q.maps
          <6>1. LinksDone(pc, place) = Links /\ "cwd" \in Links
            BY <1>1 DEF LinksDone, AfterLinks, Links
          <6>2. ~q.zombie
            BY <3>1, <4>2, <6>1 DEF SofarOf
          <6> QED
            BY <1>2, <2>1, <4>2, <6>2 DEF Mapped, Refused
        <5> DEFINE maps == q.maps
        <5>2. MemPart(filters, pid, q)
                = UNION {Shown(filters, pid, "REG", "mem", f, f) : f \in maps}
          BY <4>2 DEF MemPart
        <5>3. M = IF MemWanted THEN {Record("mem", f, f) : f \in maps \cap filters.names} ELSE {}
          BY <5>1
        <5> HIDE DEF maps, M
        <5> QED
          BY <5>2, <5>3 DEF MemWanted, TypeWanted, Shown, Record
      <4> QED
        BY <4>1, <4>2
    <3> HIDE DEF q, M
    <3>3. LinksDone(pc', place') = LinksDone(pc, place)
      BY <1>1, <1>4 DEF LinksDone, AfterLinks
    <3>4. Collected(filters', pid', q, pc', place', fd')
            = Collected(filters, pid, q, pc, place, fd) \cup M
      BY <1>1, <1>4, <3>2, <3>3
      DEF Collected, AfterLinks, FdsDone, FdLoop, FdParts, pidVars, fdVars
    <3> QED
      BY <1>1, <1>4, <3>1, <3>3, <3>4 DEF SofarOf, FdLoop
  <2> QED
    BY <1>1, <1>4, <2>1, CollectLists DEF pidVars
<1> QED
  BY <1>3, <1>4 DEF find_mem_del

(* What has been collected of a quiet process once its links are read.     *)
LEMMA LinksCollected ==
  ASSUME NEW q, SofarOf(q), pc \in AfterLinks \ {"maps"}
  PROVE  /\ temp = LinkParts(filters, pid, q, Links) \cup MemPart(filters, pid, q)
                    \cup FdParts(filters, pid, q, FdsDone(q, pc, fd))
         /\ q # Gone /\ q.matches
         /\ q.denied \/ Lives(q)
<1>1. LinksDone(pc, place) = Links /\ "cwd" \in Links /\ pc # "comm"
  BY DEF LinksDone, AfterLinks, Links
<1>2. temp = Collected(filters, pid, q, pc, place, fd)
  BY DEF SofarOf
<1>3. Collected(filters, pid, q, pc, place, fd)
        = LinkParts(filters, pid, q, Links) \cup MemPart(filters, pid, q)
           \cup FdParts(filters, pid, q, FdsDone(q, pc, fd))
  BY <1>1 DEF Collected
<1>4. q.denied \/ Lives(q)
  BY <1>1 DEF SofarOf, Lives
<1> QED
  BY <1>1, <1>2, <1>3, <1>4 DEF SofarOf

LEMMA open_fd_dirsLists ==
  ASSUME RecInv, WholeInv, ListInv, open_fd_dirs, UNCHANGED <<procVars, filters>>
  PROVE  ListInv'
<1>1. pc \in {"fddir", "fdinfodir"} /\ Collecting /\ pc \in AfterLinks \ {"maps"}
  BY DEF open_fd_dirs, Collecting, AfterLinks
<1>2. ASSUME Quiet(pid)
      PROVE  SofarOf(proc[pid]) /\ Exists(pid)
  BY <1>1, <1>2 DEF ListInv, SofarOf, Exists
<1>3. CASE ~Exists(pid) /\ Leave
  BY <1>1, <1>2, <1>3, LeaveLists
<1>4. CASE /\ Refused(pid) \/ proc[pid].zombie
           /\ Append(temp \cup Unknown("NOFD"))
           /\ UNCHANGED <<pidVars, place, fdVars, resolved, temp>>
  <2> DEFINE R == temp \cup Unknown("NOFD")
  <2>1. \A r \in R : r.pid = pid
    BY <1>1 DEF WholeInv, Unknown, Record
  <2>2. ASSUME Quiet(pid)
        PROVE  R = Expected(pid)
    <3> DEFINE q == proc[pid]
    <3>1. /\ temp = LinkParts(filters, pid, q, Links) \cup MemPart(filters, pid, q)
                     \cup FdParts(filters, pid, q, FdsDone(q, pc, fd))
          /\ q.matches /\ (q.denied \/ Lives(q))
      BY <1>1, <1>2, <2>2, LinksCollected
    <3>2. q.denied
      BY <1>4, <3>1 DEF Refused, Lives
    <3>3. MemPart(filters, pid, q) = {}
      BY <3>2 DEF MemPart
    <3>4. FdParts(filters, pid, q, FdsDone(q, pc, fd)) = {}
      BY <1>1 DEF FdParts, FdsDone, FdLoop
    <3>5. Unknown("NOFD") = Shown(filters, pid, "unknown", "NOFD", <<pid, "NOFD">>, Denied)
      BY DEF Unknown, Shown, TypeWanted, Record
    <3>6. Expected(pid) = LinkParts(filters, pid, q, Links)
                            \cup Shown(filters, pid, "unknown", "NOFD", <<pid, "NOFD">>, Denied)
      BY <1>2, <2>2, <3>1, <3>2, ExpectedOfDenied
    <3> HIDE DEF q
    <3> QED
      BY <3>1, <3>3, <3>4, <3>5, <3>6
  <2>3. processes' = processes \cup R /\ pc' = "next" /\ UNCHANGED <<pids, pid>>
    BY <1>4 DEF Append, pidVars
  <2> HIDE DEF R
  <2> QED
    BY <1>1, <2>1, <2>2, <2>3, EndLists
<1>5. CASE /\ Exists(pid) /\ ~Refused(pid)
           /\ pc' = IF pc = "fddir" THEN "fdinfodir" ELSE "fds"
           /\ fd_dir' = IF pc = "fddir" THEN proc[pid].id ELSE fd_dir
           /\ fds' = {} /\ fd' = 0
           /\ UNCHANGED <<pidVars, place, resolved, temp, processes>>
  <2>1. ASSUME Quiet(pid)
        PROVE  SofarOf(proc[pid])'
    <3> DEFINE q == proc[pid]
    <3>1. SofarOf(q) /\ proc'[pid'] = q /\ ~q.denied
      BY <1>2, <1>5, <2>1 DEF procVars, pidVars, Refused
    <3>2. fd_dir' = q.id
      BY <1>1, <1>5, <3>1 DEF SofarOf
    <3> HIDE DEF q
    <3>3. LinksDone(pc', place') = LinksDone(pc, place) /\ pc' \in {"fdinfodir", "fds"}
      BY <1>1, <1>5 DEF LinksDone, AfterLinks
    <3>4. FdsDone(q, pc, fd) = {} /\ FdsDone(q, pc', fd') = {}
      <4>1. OpenIn(q) \subseteq Nat \ {0}
        BY DEF OpenIn
      <4>2. {m \in OpenIn(q) : m <= 0} = {}
        BY <4>1
      <4> QED
        BY <1>1, <1>5, <4>2 DEF FdsDone, FdLoop
    <3>5. Collected(filters', pid', q, pc', place', fd')
            = Collected(filters, pid, q, pc, place, fd)
      BY <1>1, <1>5, <3>3, <3>4 DEF Collected, AfterLinks, pidVars
    <3> QED
      BY <1>1, <1>5, <3>1, <3>2, <3>3, <3>5 DEF SofarOf, FdLoop
  <2> QED
    BY <1>1, <1>5, <2>1, CollectLists DEF pidVars
<1> QED
  BY <1>3, <1>4, <1>5 DEF open_fd_dirs

LEMMA read_fd_dirLists ==
  ASSUME RecInv, WholeInv, ListInv, read_fd_dir, UNCHANGED <<procVars, filters>>
  PROVE  ListInv'
<1> DEFINE unread == IF fds # {} THEN fds ELSE {n \in OpenOf(pid, fd_dir) : n > fd}
<1>1. pc = "fds" /\ Collecting /\ pc \in AfterLinks \ {"maps"}
  BY DEF read_fd_dir, Collecting, AfterLinks
<1>2. fds \subseteq Fds /\ fd \in Nat
  <2>1. fds \subseteq Fds /\ fd \in Fds \cup {0}
    BY DEF RecInv, TypeOK
  <2> QED
    BY <2>1
<1>3. ASSUME Quiet(pid)
      PROVE  LET q == proc[pid]
             IN  /\ SofarOf(q) /\ Exists(pid) /\ ~q.denied /\ Lives(q)
                 /\ temp = LinkParts(filters, pid, q, Links)
                            \cup MemPart(filters, pid, q)
                            \cup FdParts(filters, pid, q, {m \in OpenIn(q) : m <= fd})
                 /\ unread = {n \in OpenIn(q) : n > fd}
  <2> DEFINE q == proc[pid]
  <2>1. SofarOf(q) /\ Exists(pid)
    BY <1>1, <1>3 DEF ListInv, SofarOf, Exists
  <2>2. ~q.denied /\ fd_dir = q.id /\ (fds = {} \/ fds = {n \in OpenIn(q) : n > fd})
    BY <1>1, <2>1 DEF SofarOf
  <2>3. Lives(q) /\ temp = LinkParts(filters, pid, q, Links)
                            \cup MemPart(filters, pid, q)
                            \cup FdParts(filters, pid, q, FdsDone(q, pc, fd))
    BY <1>1, <2>1, <2>2, LinksCollected
  <2>4. OpenOf(pid, fd_dir) = OpenIn(q)
    BY <2>1, <2>2, <2>3, OpenIs DEF OpenOf, Lives
  <2>5. FdsDone(q, pc, fd) = {m \in OpenIn(q) : m <= fd}
    BY <1>1 DEF FdsDone
  <2>6. unread = {n \in OpenIn(q) : n > fd}
    BY <2>2, <2>4
  <2> QED
    BY <2>1, <2>2, <2>3, <2>5, <2>6
<1>4. CASE unread = {} /\ Append(temp) /\ UNCHANGED pidVars
  <2>1. \A r \in temp : r.pid = pid
    BY <1>1 DEF WholeInv
  <2>2. ASSUME Quiet(pid)
        PROVE  temp = Expected(pid)
    <3> DEFINE q == proc[pid]
    <3>1. OpenIn(q) \subseteq Nat
      BY DEF OpenIn
    <3>2. {m \in OpenIn(q) : m <= fd} = OpenIn(q)
      BY <1>2, <1>3, <1>4, <2>2, <3>1
    <3>3. q.matches
      BY <1>1, <1>3, <2>2, LinksCollected
    <3> QED
      BY <1>3, <2>2, <3>2, <3>3, ExpectedOfLiving
  <2>3. processes' = processes \cup temp /\ pc' = "next" /\ UNCHANGED <<pids, pid>>
    BY <1>4 DEF Append, pidVars
  <2> QED
    BY <1>1, <2>1, <2>2, <2>3, EndLists
<1>5. ASSUME NEW n \in unread, Least(n, unread), fd' = n, fds' = unread \ {n},
             place' = FdName[n], pc' = "fdlink",
             UNCHANGED <<fd_dir, processes, pidVars, resolved, temp>>
      PROVE  ListInv'
  <2>1. ASSUME Quiet(pid)
        PROVE  SofarOf(proc[pid])'
    <3> DEFINE q == proc[pid]
    <3>1. SofarOf(q) /\ ~q.denied /\ Lives(q) /\ proc'[pid'] = q /\ fd_dir = q.id /\ q.matches
      BY <1>1, <1>3, <1>5, <2>1 DEF procVars, pidVars, SofarOf
    <3>2. unread = {m \in OpenIn(q) : m > fd}
      BY <1>3, <2>1
    <3>3. temp = LinkParts(filters, pid, q, Links)
                  \cup MemPart(filters, pid, q)
                  \cup FdParts(filters, pid, q, {m \in OpenIn(q) : m <= fd})
      BY <1>3, <2>1
    <3> HIDE DEF q, unread
    <3>4. OpenIn(q) \subseteq Nat
      BY DEF OpenIn
    <3>5. n \in OpenIn(q) /\ n > fd /\ \A m \in OpenIn(q) : m > fd => n <= m
      BY <1>5, <3>2 DEF Least
    <3>6. {m \in OpenIn(q) : m < n} = {m \in OpenIn(q) : m <= fd}
      BY <1>2, <3>4, <3>5
    <3>7. fds' = {m \in OpenIn(q) : m > n}
      BY <1>2, <1>5, <3>2, <3>4, <3>5
    <3>8. Collected(filters', pid', q, pc', place', fd') = temp
      BY <1>5, <3>3, <3>6 DEF Collected, LinksDone, AfterLinks, FdsDone, FdLoop, pidVars
    <3>9. \A x \in LinksDone(pc', place') : ~q.zombie /\ q.at[x] # Nothing
      BY <1>5, <3>1 DEF LinksDone, AfterLinks, Lives
    <3> QED
      BY <1>5, <3>1, <3>5, <3>7, <3>8, <3>9 DEF SofarOf, FdLoop
  <2> QED
    BY <1>1, <1>5, <2>1, CollectLists DEF pidVars
<1> QED
  BY <1>4, <1>5 DEF read_fd_dir, fdVars

(* A quiet process whose descriptor is looked at has it open still.        *)
LEMMA FdHeld ==
  ASSUME RecInv, ListInv, pc \in FdLoop, Quiet(pid)
  PROVE  LET q == proc[pid]
         IN  /\ SofarOf(q) /\ ~q.denied /\ Lives(q) /\ q.matches
             /\ fd \in OpenIn(q) /\ place = FdName[fd]
             /\ temp = LinkParts(filters, pid, q, Links)
                        \cup MemPart(filters, pid, q)
                        \cup FdParts(filters, pid, q, {m \in OpenIn(q) : m < fd})
             /\ Held(pid, place) = q.at[place]
             /\ ~Missing
             /\ pc # "fdlink" => buf = q.at[place]
             /\ pc = "fdinfo" => node = q.at[place]
<1> DEFINE q == proc[pid]
<1>1. Collecting /\ pc \in AfterLinks \ {"maps"}
  BY DEF Collecting, FdLoop, AfterLinks
<1>2. SofarOf(q)
  BY <1>1 DEF ListInv
<1>3. ~q.denied /\ q # Gone /\ fd \in OpenIn(q) /\ place = FdName[fd]
  BY <1>2 DEF SofarOf
<1>4. /\ Lives(q) /\ q.matches
      /\ temp = LinkParts(filters, pid, q, Links) \cup MemPart(filters, pid, q)
                 \cup FdParts(filters, pid, q, FdsDone(q, pc, fd))
  BY <1>1, <1>2, <1>3, LinksCollected
<1>5. FdsDone(q, pc, fd) = {m \in OpenIn(q) : m < fd}
  BY DEF FdsDone, FdLoop
<1>6. Held(pid, place) = q.at[place] /\ ~Missing
  BY <1>3, <1>4 DEF Held, Missing, Refused, Exists, Lives, OpenIn
<1>7. Untouched(pid, place)
  BY DEF Quiet, RecInv, TypeOK
<1>8. /\ pc # "fdlink" => buf = q.at[place]
      /\ pc = "fdinfo" => node = q.at[place]
  BY <1>6, <1>7 DEF RecInv, Resolving, FdLoop
<1> QED
  BY <1>2, <1>3, <1>4, <1>5, <1>6, <1>8

(* Looking at a descriptor changes nothing of what has been collected.     *)
LEMMA LookLists ==
  ASSUME ListInv, pc \in FdLoop, pc' \in FdLoop,
         UNCHANGED <<procVars, filters, pidVars, place, fdVars, temp, processes>>
  PROVE  ListInv'
<1>1. Collecting /\ pc' \notin {"next", "done"}
  BY DEF Collecting, FdLoop
<1>2. ASSUME Quiet(pid)
      PROVE  SofarOf(proc[pid])'
  <2> DEFINE q == proc[pid]
  <2>1. SofarOf(q) /\ proc'[pid'] = q
    BY <1>1, <1>2 DEF ListInv, procVars, pidVars
  <2> HIDE DEF q
  <2>2. LinksDone(pc', place') = LinksDone(pc, place) /\ FdsDone(q, pc', fd') = FdsDone(q, pc, fd)
    BY DEF LinksDone, AfterLinks, FdsDone, FdLoop, fdVars
  <2>3. Collected(filters', pid', q, pc', place', fd')
          = Collected(filters, pid, q, pc, place, fd)
    BY <2>2 DEF Collected, AfterLinks, FdLoop, pidVars
  <2> QED
    BY <2>1, <2>2, <2>3 DEF SofarOf, FdLoop, pidVars, fdVars
<1> QED
  BY <1>1, <1>2, CollectLists DEF pidVars

(* Nor is anything left out when the last look at it is over.              *)
LEMMA FdLists ==
  ASSUME RecInv, ListInv, pc \in FdLoop, pc' = "fds",
         UNCHANGED <<procVars, filters, pids, pid, fd_dir, fds, fd, processes>>,
         Quiet(pid) => temp' = temp \cup FilePart(filters, pid, proc[pid], place, place)
  PROVE  ListInv'
<1>1. Collecting
  BY DEF Collecting, FdLoop
<1>2. ASSUME Quiet(pid)
      PROVE  SofarOf(proc[pid])'
  <2> DEFINE q == proc[pid]
  <2>1. /\ SofarOf(q) /\ ~q.denied /\ Lives(q) /\ q.matches
        /\ fd \in OpenIn(q) /\ place = FdName[fd]
        /\ temp = LinkParts(filters, pid, q, Links)
                   \cup MemPart(filters, pid, q)
                   \cup FdParts(filters, pid, q, {m \in OpenIn(q) : m < fd})
    BY <1>2, FdHeld
  <2>2. proc'[pid'] = q
    BY DEF procVars
  <2>3. temp' = temp \cup FilePart(filters, pid, q, FdName[fd], FdName[fd])
    BY <1>2, <2>1
  <2> HIDE DEF q
  <2>4. OpenIn(q) \subseteq Nat
    BY DEF OpenIn
  <2>5. {m \in OpenIn(q) : m <= fd} = {m \in OpenIn(q) : m < fd} \cup {fd}
    BY <2>1, <2>4
  <2>6. FdParts(filters, pid, q, {m \in OpenIn(q) : m <= fd})
          = FdParts(filters, pid, q, {m \in OpenIn(q) : m < fd})
             \cup FilePart(filters, pid, q, FdName[fd], FdName[fd])
    BY <2>5 DEF FdParts
  <2>7. Collected(filters', pid', q, pc', place', fd')
          = LinkParts(filters, pid, q, Links) \cup MemPart(filters, pid, q)
             \cup FdParts(filters, pid, q, {m \in OpenIn(q) : m <= fd})
    BY DEF Collected, LinksDone, AfterLinks, FdsDone
  <2>8. temp' = Collected(filters', pid', q, pc', place', fd')
    BY <2>1, <2>3, <2>6, <2>7
  <2>9. \A x \in LinksDone(pc', place') : ~q.zombie /\ q.at[x] # Nothing
    BY <2>1 DEF LinksDone, AfterLinks, Lives
  <2>10. fd_dir = q.id /\ q # Gone /\ (fds = {} \/ fds = {n \in OpenIn(q) : n > fd})
    BY <2>1 DEF SofarOf
  <2> QED
    BY <2>1, <2>2, <2>8, <2>9, <2>10 DEF SofarOf, FdLoop
<1> QED
  BY <1>1, <1>2, CollectLists

LEMMA read_fd_linkLists ==
  ASSUME RecInv, ListInv, read_fd_link, UNCHANGED <<procVars, filters>>
  PROVE  ListInv'
<1>1. pc = "fdlink" /\ Collecting /\ pc \in FdLoop
  BY DEF read_fd_link, Collecting, FdLoop
<1>2. CASE Missing /\ Leave
  BY <1>1, <1>2, FdHeld, LeaveLists
<1>3. CASE pc' = "fdstat" /\ UNCHANGED <<pidVars, place, fdVars, node, temp, processes>>
  BY <1>1, <1>3, LookLists DEF FdLoop
<1> QED
  BY <1>2, <1>3 DEF read_fd_link

LEMMA stat_fdLists ==
  ASSUME RecInv, ListInv, stat_fd, UNCHANGED <<procVars, filters>>
  PROVE  ListInv'
<1>1. pc = "fdstat" /\ Collecting /\ pc \in FdLoop
  BY DEF stat_fd, Collecting, FdLoop
<1>2. CASE Missing /\ Leave
  BY <1>1, <1>2, FdHeld, LeaveLists
<1>3. CASE /\ node' = Held(pid, place)
           /\ pc' = IF Wanted(place, buf, node') = {} THEN "fds" ELSE "fdinfo"
           /\ UNCHANGED <<pidVars, place, fdVars, buf, temp, processes>>
  <2>1. CASE pc' = "fdinfo"
    BY <1>1, <1>3, <2>1, LookLists DEF FdLoop
  <2>2. CASE pc' = "fds"
    <3>1. Wanted(place, buf, node') = {}
      BY <1>3, <2>2
    <3>2. Quiet(pid) => buf = proc[pid].at[place] /\ node' = proc[pid].at[place]
      BY <1>1, <1>3, FdHeld
    <3>3. Quiet(pid) => temp' = temp \cup FilePart(filters, pid, proc[pid], place, place)
      BY <1>3, <3>1, <3>2 DEF Wanted, FilePart, Shown, TypeWanted, Record
    <3> QED
      BY <1>1, <1>3, <2>2, <3>3, FdLists DEF pidVars, fdVars
  <2> QED
    BY <1>3, <2>1, <2>2
<1> QED
  BY <1>2, <1>3 DEF stat_fd

LEMMA read_fdinfoLists ==
  ASSUME RecInv, ListInv, read_fdinfo, UNCHANGED <<procVars, filters>>
  PROVE  ListInv'
<1>1. pc = "fdinfo" /\ pc \in FdLoop
  BY DEF read_fdinfo, FdLoop
<1>2. ASSUME Quiet(pid)
      PROVE  temp' = temp \cup FilePart(filters, pid, proc[pid], place, place)
  <2>1. ~Missing /\ buf = proc[pid].at[place] /\ node = proc[pid].at[place]
    BY <1>1, <1>2, FdHeld
  <2> QED
    BY <2>1 DEF read_fdinfo, Wanted, FilePart, Shown, TypeWanted, Record
<1>3. pc' = "fds" /\ UNCHANGED <<pids, pid, fd_dir, fds, fd, processes>>
  BY DEF read_fdinfo, pidVars, fdVars
<1> QED
  BY <1>1, <1>2, <1>3, FdLists

LEMMA EnvironmentLists ==
  ASSUME RecInv, ListInv, Environment
  PROVE  ListInv'
<1>1. /\ ProcfsTypeOK /\ ProcessesChange
      /\ UNCHANGED <<filters, pc, pids, pid, place, fd_dir, fds, fd, temp, processes>>
  BY DEF Environment, RecInv, TypeOK, pidVars, fdVars
<1>2. ASSUME NEW p \in Pids, Quiet(p)'
      PROVE  Quiet(p) /\ proc'[p] = proc[p]
  BY <1>1, <1>2, QuietStays
<1>3. ASSUME NEW p \in Pids, Quiet(p)'
      PROVE  Placed(p)'
  <2>1. Placed(p)
    BY <1>2, <1>3 DEF ListInv
  <2>2. Expected(p)' = Expected(p) /\ Exists(p)' = Exists(p)
    BY <1>1, <1>2, <1>3, SameExpected
  <2>3. Listed(p)' = Listed(p)
    BY <1>1 DEF Listed
  <2>4. Collecting' <=> Collecting
    BY <1>1 DEF Collecting
  <2> QED
    BY <1>1, <2>1, <2>2, <2>3, <2>4 DEF Placed
<1>4. ASSUME Collecting', Quiet(pid)'
      PROVE  SofarOf(proc[pid])'
  <2>1. Collecting /\ pid \in Pids
    BY <1>1, <1>4 DEF Collecting, RecInv, Resolving
  <2>2. Quiet(pid)' <=> \A x \in Places : <<pid, x>> \notin touched'
    BY <1>1 DEF Quiet, Untouched
  <2>3. Quiet(pid) /\ proc'[pid] = proc[pid]
    BY <1>1, <1>2, <1>4, <2>1
  <2>4. SofarOf(proc[pid])
    BY <2>1, <2>3 DEF ListInv
  <2> DEFINE q == proc[pid]
  <2>5. proc'[pid'] = q
    BY <1>1, <2>3
  <2> HIDE DEF q
  <2>6. Collected(filters', pid', q, pc', place', fd')
          = Collected(filters, pid, q, pc, place, fd)
    BY <1>1
  <2>7. LinksDone(pc', place') = LinksDone(pc, place)
    BY <1>1
  <2> QED
    BY <1>1, <2>4, <2>5, <2>6, <2>7 DEF SofarOf, q
<1>5. \A p \in pids' : p > pid'
  BY <1>1 DEF ListInv
<1> QED
  BY <1>3, <1>4, <1>5 DEF ListInv

LEMMA ListInit == Init => ListInv
<1> SUFFICES ASSUME Init
             PROVE  ListInv
  OBVIOUS
<1>1. pids = {} /\ pid = 0 /\ pc = "next" /\ processes = {}
  BY DEF Init
<1>2. ASSUME NEW p \in Pids
      PROVE  Placed(p)
  <2>1. p \in Nat \ {0}
    OBVIOUS
  <2>2. Listed(p) = {}
    BY <1>1 DEF Listed
  <2> QED
    BY <1>1, <2>1, <2>2 DEF Placed, Collecting
<1> QED
  BY <1>1, <1>2 DEF ListInv, Collecting

LEMMA ListStep == RecInv /\ WholeInv /\ ListInv /\ [Next]_vars => ListInv'
<1> SUFFICES ASSUME RecInv, WholeInv, ListInv, [Next]_vars
             PROVE  ListInv'
  OBVIOUS
<1>1. CASE Scan /\ UNCHANGED <<procVars, filters>>
  BY <1>1, find_processesLists, find_commandLists, find_usernameLists, read_linkLists,
     stat_linkLists, find_mem_delLists, open_fd_dirsLists, read_fd_dirLists,
     read_fd_linkLists, stat_fdLists, read_fdinfoLists DEF Scan
<1>2. CASE Environment
  BY <1>2, EnvironmentLists
<1>3. CASE UNCHANGED vars
  <2>1. UNCHANGED <<proc, touched, filters, pc, pids, pid, place, fd_dir, fds, fd,
                    temp, processes>>
    BY <1>3 DEF vars, procVars, pidVars, fdVars
  <2>2. \A p : (Quiet(p)' <=> Quiet(p)) /\ (Collecting' <=> Collecting) /\ Listed(p)' = Listed(p)
    BY <2>1 DEF Quiet, Untouched, Collecting, Listed
  <2>3. \A p : Expected(p)' = Expected(p) /\ (Exists(p)' <=> Exists(p))
    BY <2>1, SameExpected
  <2>4. \A p : Placed(p)' <=> Placed(p)
    BY <2>1, <2>2, <2>3 DEF Placed
  <2>5. SofarOf(proc[pid])' <=> SofarOf(proc[pid])
    BY <2>1 DEF SofarOf
  <2>6. Quiet(pid)' <=> Quiet(pid)
    BY <2>1 DEF Quiet, Untouched
  <2> QED
    BY <2>1, <2>2, <2>4, <2>5, <2>6 DEF ListInv
<1> QED
  BY <1>1, <1>2, <1>3 DEF Next

LEMMA ListInvHolds == Spec => []ListInv
BY ListInit, ListStep, RecInvHolds, WholeInvHolds, PTL DEF Spec

(***************************************************************************)
(* A process nothing happens to during the scan is listed with exactly the *)
(* records of its files the filters let through, whatever happens to       *)
(* others (hw1.cpp:97-460): a name is asked as the code asks it, with the  *)
(* mark at 247 and without it at 383 and 398.                              *)
(***************************************************************************)
THEOREM UntouchedAreListed == Spec => []UntouchedListed
<1>1. RecInv /\ ListInv => UntouchedListed
  <2> SUFFICES ASSUME RecInv, ListInv, pc = "done", NEW p \in Pids, Quiet(p)
               PROVE  Listed(p) = Expected(p)
    BY DEF UntouchedListed, Quiet
  <2>1. Placed(p) /\ p \in Nat
    BY DEF ListInv
  <2>2. pid \in Nat
    BY PidIsNat
  <2>3. CASE p <= pid
    BY <2>1, <2>2, <2>3 DEF Placed
  <2>4. CASE p > pid
    <3>1. ~Exists(p)
      BY <2>1, <2>2, <2>4 DEF Placed
    <3> QED
      BY <2>1, <2>4, <3>1, ExpectedOfNone DEF Placed
  <2> QED
    BY <2>1, <2>2, <2>3, <2>4
<1> QED
  BY <1>1, ListInvHolds, RecInvHolds, PTL

-----------------------------------------------------------------------------
(***************************************************************************)
(* Processes are told apart by their ids, and the one whose fd is open may *)
(* be looked at as long as it lives.                                       *)
(***************************************************************************)
FdSeen == pc = "fdinfodir" /\ Exists(pid) /\ proc[pid].id = fd_dir => ~proc[pid].denied

DirInv ==
  /\ \A p \in Pids : Exists(p) => proc[p].id <= changes
  /\ fd_dir <= changes
  /\ FdSeen

LEMMA DirInit == Init => DirInv
<1> SUFFICES ASSUME Init PROVE DirInv
  OBVIOUS
<1>1. \A p \in Pids : Exists(p) => proc[p].id <= changes
  <2> SUFFICES ASSUME NEW p \in Pids, Exists(p) PROVE proc[p].id <= changes
    OBVIOUS
  <2>1. proc[p] \in Births
    BY DEF Init, ProcfsInit, Exists
  <2> QED
    BY <2>1 DEF Init, ProcfsInit
<1> QED
  BY <1>1 DEF Init, DirInv, FdSeen, ProcfsInit

(* A change of a process that is no new one keeps its id and what may be   *)
(* looked at; a new one has a new id.                                      *)
LEMMA ChangeKeepsDirs ==
  ASSUME ProcfsTypeOK, DirInv, fd_dir \in Nat, NEW p \in Pids, NEW q, NEW xs,
         Change(p, q, xs), UNCHANGED <<pc, pid, fd_dir>>, pc = "fdinfodir" => pid \in Pids,
         \/ q = Gone
         \/ q.id = changes + 1
         \/ Exists(p) /\ q.id = proc[p].id /\ q.denied = proc[p].denied
  PROVE  DirInv'
<1>1. /\ proc \in [Pids -> Process \cup {Gone}] /\ changes \in Nat
      /\ proc' = [proc EXCEPT ![p] = q] /\ changes' = changes + 1
  BY DEF Change, ProcfsTypeOK
<1>2. \A s \in Pids \ {p} : proc'[s] = proc[s]
  BY <1>1
<1>3. proc'[p] = q
  BY <1>1
<1>4. \A s \in Pids : Exists(s) => proc[s].id \in Nat
  BY <1>1 DEF Exists, Process
<1>5. ASSUME NEW s \in Pids, Exists(s)'
      PROVE  proc'[s].id <= changes'
  <2>1. CASE s # p
    BY <1>1, <1>2, <1>4, <1>5, <2>1 DEF DirInv, Exists
  <2>2. CASE s = p
    <3>1. q # Gone /\ proc'[s].id = q.id
      BY <1>3, <1>5, <2>2 DEF Exists
    <3>2. CASE q.id = changes + 1
      BY <1>1, <3>1, <3>2
    <3>3. CASE Exists(p) /\ q.id = proc[p].id
      <4>1. proc[p].id <= changes /\ proc[p].id \in Nat
        BY <1>4, <3>3 DEF DirInv
      <4> QED
        BY <1>1, <3>1, <3>3, <4>1
    <3> QED
      BY <3>1, <3>2, <3>3
  <2> QED
    BY <2>1, <2>2
<1>6. fd_dir' <= changes'
  BY <1>1 DEF DirInv
<1>7. FdSeen'
  <2> SUFFICES ASSUME pc = "fdinfodir", proc'[pid] # Gone, proc'[pid].id = fd_dir
               PROVE  ~proc'[pid].denied
    BY DEF FdSeen, Exists
  <2>1. pid \in Pids
    OBVIOUS
  <2>2. CASE pid # p
    BY <1>2, <2>1, <2>2 DEF DirInv, FdSeen, Exists
  <2>3. CASE pid = p
    <3>1. proc'[pid] = q
      BY <1>3, <2>3
    <3>2. q.id # changes + 1
      BY <1>1, <3>1 DEF DirInv
    <3> QED
      BY <2>3, <3>1, <3>2 DEF DirInv, FdSeen
  <2> QED
    BY <2>2, <2>3
<1> QED
  BY <1>5, <1>6, <1>7 DEF DirInv

LEMMA EnvironmentKeepsDirs ==
  ASSUME RecInv, DirInv, Environment
  PROVE  DirInv'
<1>1. /\ ProcfsTypeOK /\ fd_dir \in Nat /\ (pc = "fdinfodir" => pid \in Pids)
      /\ UNCHANGED <<pc, pid, fd_dir>>
  BY DEF RecInv, TypeOK, Resolving, Environment, pidVars, fdVars
<1>2. PICK p \in Pids : Spawn(p) \/ Die(p) \/ Reap(p) \/ Move(p)
  BY DEF Environment, ProcessesChange
<1>3. Exists(p) => proc[p] \in Process
  BY <1>1 DEF ProcfsTypeOK, Exists
<1>4. CASE Spawn(p)
  <2>1. PICK q \in Births : Change(p, [q EXCEPT !.id = changes + 1], Places)
    BY <1>4 DEF Spawn
  <2> DEFINE r == [q EXCEPT !.id = changes + 1]
  <2>2. q \in Process
    OBVIOUS
  <2>3. r.id = changes + 1
    BY <2>2 DEF Process
  <2>4. Change(p, r, Places)
    BY <2>1
  <2> HIDE DEF r
  <2> QED
    BY <1>1, <2>3, <2>4, ChangeKeepsDirs
<1>5. CASE Die(p)
  <2> DEFINE r == [proc[p] EXCEPT !.zombie = TRUE]
  <2>1. Exists(p) /\ r.id = proc[p].id /\ r.denied = proc[p].denied
    BY <1>3, <1>5 DEF Die, Process
  <2>2. Change(p, r, Places)
    BY <1>5 DEF Die
  <2> HIDE DEF r
  <2> QED
    BY <1>1, <2>1, <2>2, ChangeKeepsDirs
<1>6. CASE Reap(p)
  BY <1>1, <1>6, ChangeKeepsDirs DEF Reap
<1>7. CASE Move(p)
  <2>1. PICK x \in Places, f \in Files \cup {Nothing} :
          Change(p, [proc[p] EXCEPT !.at[x] = f], {x})
    BY <1>7 DEF Move, Places, Links
  <2> DEFINE r == [proc[p] EXCEPT !.at[x] = f]
  <2>2. Exists(p) /\ r.id = proc[p].id /\ r.denied = proc[p].denied
    BY <1>3, <1>7 DEF Move, Process
  <2>3. Change(p, r, {x})
    BY <2>1
  <2> HIDE DEF r
  <2> QED
    BY <1>1, <2>2, <2>3, ChangeKeepsDirs
<1> QED
  BY <1>2, <1>4, <1>5, <1>6, <1>7

LEMMA ScanKeepsDirs ==
  ASSUME RecInv, DirInv, Scan, UNCHANGED procVars
  PROVE  DirInv'
<1>1. UNCHANGED <<proc, changes>>
  BY DEF procVars
<1>2. CASE fd_dir' = fd_dir /\ pc' # "fdinfodir"
  BY <1>1, <1>2 DEF DirInv, FdSeen, Exists
<1>3. CASE open_fd_dirs
  <2>1. CASE pc' = "next" /\ UNCHANGED fd_dir
    BY <1>2, <2>1
  <2>2. CASE /\ Exists(pid) /\ ~Refused(pid)
             /\ pc' = (IF pc = "fddir" THEN "fdinfodir" ELSE "fds")
             /\ fd_dir' = IF pc = "fddir" THEN proc[pid].id ELSE fd_dir
    <3>1. pid \in Pids /\ pid' = pid
      BY <1>3, <2>2 DEF open_fd_dirs, RecInv, Resolving, pidVars
    <3>2. ~proc[pid].denied
      BY <2>2 DEF Refused
    <3>3. proc[pid].id <= changes
      BY <2>2, <3>1 DEF DirInv
    <3>4. fd_dir' <= changes'
      BY <1>1, <2>2, <3>3 DEF DirInv
    <3>5. FdSeen'
      BY <1>1, <2>2, <3>1, <3>2 DEF FdSeen
    <3> QED
      BY <1>1, <3>4, <3>5 DEF DirInv, Exists
  <2> QED
    BY <1>3, <2>1, <2>2 DEF open_fd_dirs, Leave, Append, fdVars
<1>4. CASE ~open_fd_dirs
  <2>1. fd_dir' = fd_dir /\ pc' # "fdinfodir"
    BY <1>4 DEF Scan, find_processes, find_command, find_username, read_link, stat_link,
                AfterLink, find_mem_del, read_fd_dir, read_fd_link, stat_fd, read_fdinfo,
                Leave, Append, fdVars
  <2> QED
    BY <1>2, <2>1
<1> QED
  BY <1>3, <1>4

LEMMA DirStep == RecInv /\ DirInv /\ [Next]_vars => DirInv'
<1> SUFFICES ASSUME RecInv, DirInv, [Next]_vars PROVE DirInv'
  OBVIOUS
<1>1. CASE UNCHANGED vars
  BY <1>1 DEF vars, procVars, pidVars, fdVars, DirInv, FdSeen, Exists
<1> QED
  BY <1>1, ScanKeepsDirs, EnvironmentKeepsDirs DEF Next

(***************************************************************************)
(* A step of the scanner leaves no directory open.                         *)
(***************************************************************************)
LEMMA ScanLeaks ==
  ASSUME RecInv, DirInv, Scan, UNCHANGED procVars
  PROVE  LeaksOnlyThen
<1>1. CASE UNCHANGED dirs /\ (Reading = {} \/ (pid' = pid /\ Reading \subseteq Reading'))
  BY <1>1 DEF LeaksOnlyThen, Leaked
<1>2. CASE closedir /\ UNCHANGED pid
  <2>1. Reading \subseteq {"fd", "fdinfo"}
    BY DEF Reading
  <2>2. \A d \in dirs' : d \in dirs /\ d # <<pid, "fd">> /\ d # <<pid, "fdinfo">>
    BY <1>2 DEF closedir
  <2>3. \A d \in dirs' : d \notin {pid} \X Reading
    <3> SUFFICES ASSUME NEW d \in dirs', NEW x \in Reading, d = <<pid, x>>
                 PROVE  FALSE
      OBVIOUS
    <3> QED
      BY <2>1, <2>2
  <2>4. dirs' \subseteq Leaked
    BY <2>2, <2>3 DEF Leaked
  <2>5. Leaked' \subseteq dirs'
    BY DEF Leaked
  <2> QED
    BY <2>4, <2>5 DEF LeaksOnlyThen
<1>3. CASE open_fd_dirs
  <2>1. pc \in {"fddir", "fdinfodir"} /\ UNCHANGED pid
    BY <1>3 DEF open_fd_dirs, Leave, pidVars
  <2>2. CASE UNCHANGED dirs /\ (~Exists(pid) \/ Refused(pid) \/ proc[pid].zombie)
    <3>1. CASE pc = "fddir"
      BY <1>1, <2>2, <3>1 DEF Reading
    <3>2. CASE pc = "fdinfodir"
      BY <2>2, <3>2 DEF LeaksOnlyThen, FdinfoGone, DirInv, FdSeen, Refused
    <3> QED
      BY <2>1, <3>1, <3>2
  <2>3. CASE /\ pc' = IF pc = "fddir" THEN "fdinfodir" ELSE "fds"
             /\ dirs' = dirs \cup {<<pid, IF pc = "fddir" THEN "fd" ELSE "fdinfo">>}
    <3>1. /\ Reading = IF pc = "fddir" THEN {} ELSE {"fd"}
          /\ Reading' = IF pc = "fddir" THEN {"fd"} ELSE {"fd", "fdinfo"}
      BY <2>1, <2>3 DEF Reading
    <3> QED
      BY <2>1, <2>3, <3>1 DEF LeaksOnlyThen, Leaked
  <2> QED
    BY <1>3, <2>2, <2>3 DEF open_fd_dirs
<1>4. CASE (\/ find_processes \/ find_command \/ find_username \/ read_link \/ stat_link
            \/ find_mem_del) /\ UNCHANGED dirs
  <2>1. Reading = {}
    BY <1>4 DEF find_processes, find_command, find_username, read_link, stat_link,
                find_mem_del, Reading
  <2> QED
    BY <1>1, <1>4, <2>1
<1>5. CASE read_fdinfo /\ UNCHANGED dirs
  <2>1. pid' = pid /\ Reading' = Reading
    BY <1>5 DEF read_fdinfo, Reading, pidVars
  <2> QED
    BY <1>1, <1>5, <2>1
<1>6. CASE read_fd_dir \/ read_fd_link \/ stat_fd
  <2>1. pid' = pid
    BY <1>6 DEF read_fd_dir, read_fd_link, stat_fd, Leave, pidVars
  <2>2. CASE UNCHANGED dirs /\ pc \in {"fds", "fdlink", "fdstat"}
             /\ pc' \in {"fds", "fdlink", "fdstat", "fdinfo"}
    <3>1. Reading' = Reading
      BY <2>2 DEF Reading
    <3> QED
      BY <1>1, <2>1, <2>2, <3>1
  <2> QED
    BY <1>2, <1>6, <2>1, <2>2 DEF read_fd_dir, read_fd_link, stat_fd
<1> QED
  BY <1>3, <1>4, <1>5, <1>6 DEF Scan

(***************************************************************************)
(* find_file_descriptors (hw1.cpp:370-460) loses an open directory on one  *)
(* way only, the fd of a process that has ended, or whose pid is another's *)
(* now, when fdinfo is opened after it; for any processes, descriptors,    *)
(* filters and number of changes.                                          *)
(***************************************************************************)
THEOREM DirsAreClosed == Spec => DirsClosed
<1>1. RecInv /\ DirInv /\ [Next]_vars => [LeaksOnlyThen]_vars
  <2> SUFFICES ASSUME RecInv, DirInv, Next PROVE LeaksOnlyThen
    OBVIOUS
  <2>1. CASE Scan /\ UNCHANGED <<procVars, filters>>
    BY <2>1, ScanLeaks
  <2>2. CASE Environment
    <3>1. UNCHANGED <<pc, pid, dirs>>
      BY <2>2 DEF Environment, pidVars
    <3>2. Leaked' = Leaked
      BY <3>1 DEF Leaked, Reading
    <3> QED
      BY <3>2 DEF LeaksOnlyThen
  <2> QED
    BY <2>1, <2>2 DEF Next
<1> QED
  BY <1>1, DirInit, DirStep, RecInvHolds, PTL DEF Spec, DirsClosed

-----------------------------------------------------------------------------
(***************************************************************************)
(* While a process keeps a file at one of its places untouched, it is one  *)
(* and the same process: it neither ends nor starts, it only moves at its  *)
(* other places.                                                           *)
(***************************************************************************)
LEMMA SameProcess ==
  ASSUME ProcfsTypeOK, ProcessesChange, NEW p \in Pids, NEW x \in Places, Untouched(p, x)'
  PROVE  /\ Untouched(p, x) /\ Held(p, x)' = Held(p, x)
         /\ Exists(p)' <=> Exists(p)
         /\ Exists(p) => proc'[p].id = proc[p].id /\ proc'[p].denied = proc[p].denied
<1>1. Untouched(p, x) /\ Held(p, x)' = Held(p, x)
  BY ProcessesTouch
<1>2. PICK s \in Pids : Spawn(s) \/ Die(s) \/ Reap(s) \/ Move(s)
  BY DEF ProcessesChange
<1>3. CASE s # p
  <2>1. PICK q : proc' = [proc EXCEPT ![s] = q]
    BY <1>2 DEF Spawn, Die, Reap, Move, Change
  <2>2. proc'[p] = proc[p]
    BY <1>3, <2>1 DEF ProcfsTypeOK
  <2> QED
    BY <1>1, <2>2 DEF Exists
<1>4. CASE s = p
  <2>1. ASSUME NEW q, Change(s, q, Places)
        PROVE  FALSE
    BY <1>4, <2>1 DEF Change, Untouched
  <2>2. Move(p)
    BY <1>2, <1>4, <2>1 DEF Spawn, Die, Reap
  <2>3. PICK y \in Places, f \in Files \cup {Nothing} :
          Change(p, [proc[p] EXCEPT !.at[y] = f], {y})
    BY <2>2 DEF Move, Places, Links
  <2>4. proc[p] \in Process /\ Exists(p)
    BY <2>2 DEF Move, ProcfsTypeOK, Exists
  <2>5. proc'[p] = [proc[p] EXCEPT !.at[y] = f]
    BY <2>3 DEF Change, ProcfsTypeOK
  <2>6. /\ proc'[p].id = proc[p].id /\ proc'[p].denied = proc[p].denied
        /\ proc'[p] \in Process
    BY <2>4, <2>5 DEF Process
  <2> QED
    BY <1>1, <2>4, <2>6, GoneIsNoProcess DEF Exists
<1> QED
  BY <1>3, <1>4

LEMMA KeptWasKept ==
  ASSUME ProcfsTypeOK, ProcessesChange, UNCHANGED filters,
         NEW p \in Pids, NEW x \in Places, Kept(p, x)'
  PROVE  Kept(p, x)
<1>1. Untouched(p, x)' /\ Exists(p)'
  BY DEF Kept, Held
<1>2. /\ Untouched(p, x) /\ Held(p, x)' = Held(p, x)
      /\ proc'[p].denied = proc[p].denied
  BY <1>1, SameProcess
<1> QED
  BY <1>2 DEF Kept, TypeWanted

LEMMA SameKept ==
  ASSUME UNCHANGED <<procVars, filters>>
  PROVE  \A p, x : Kept(p, x)' <=> Kept(p, x)
BY DEF Kept, Untouched, Held, Exists, TypeWanted, procVars

(***************************************************************************)
(* What is kept is seen at every look, and its record passes the filters.  *)
(***************************************************************************)
LEMMA KeptIsSeen ==
  ASSUME NEW p, NEW x, Kept(p, x)
  PROVE  Exists(p) /\ ~Refused(p) /\ ~proc[p].zombie /\ Held(p, x) # Nothing
BY DEF Kept, Held, Refused

LEMMA KeptIsMade ==
  ASSUME NEW label, NEW x, Kept(pid, x)
  PROVE  label \in Labels(Wanted(label, Held(pid, x), Held(pid, x)))
<1> DEFINE f == Held(pid, x)
<1>1. Record(label, f, f) \in Wanted(label, f, f)
  BY DEF Kept, Wanted
<1>2. Record(label, f, f).fd = label
  BY DEF Record
<1> QED
  BY <1>1, <1>2 DEF Labels

LEMMA FdLabels == \A n \in Fds : Label(FdName[n]) = FdName[n]
BY DEF Label, Links

-----------------------------------------------------------------------------
(***************************************************************************)
(* Of the process at hand, what is kept has been collected as far as the   *)
(* scan has come: the links that are done, and the descriptors up to the   *)
(* last one; those beyond are still to be read, in the buffer or behind    *)
(* it.  The directory is that of the process that holds them.              *)
(***************************************************************************)
LinksKept ==
  Collecting =>
    \A x \in LinksDone(pc, place) : Kept(pid, x) => Label(x) \in Labels(temp)

Passed(n) == n < fd \/ (n = fd /\ pc = "fds")

FdsKept ==
  /\ pc \in {"fds"} \cup FdLoop =>
       /\ \A n \in fds : n > fd
       /\ \A n \in Fds : Kept(pid, FdName[n]) =>
            /\ Passed(n) => FdName[n] \in Labels(temp)
            /\ n > fd /\ fds # {} => n \in fds
  /\ pc \in FdLoop => fd \in Fds /\ place = FdName[fd]

DirKept ==
  pc \in {"fdinfodir", "fds"} \cup FdLoop =>
    \A x \in Places : Untouched(pid, x) => Exists(pid) /\ fd_dir = proc[pid].id

KeepInv == KeptListed /\ LinksKept /\ FdsKept /\ DirKept

(* Steps outside the loop over descriptors: what is listed stays.          *)
LEMMA StillListed ==
  ASSUME KeptListed, UNCHANGED <<procVars, filters, processes>>
  PROVE  KeptListed'
BY SameKept DEF KeptListed, Listed

LEMMA NothingKept ==
  ASSUME KeepInv, UNCHANGED <<procVars, filters, processes>>,
         pc' \notin {"fdinfodir", "fds"} \cup FdLoop,
         Collecting' => LinksDone(pc', place') = {}
  PROVE  KeepInv'
<1>1. KeptListed'
  BY StillListed DEF KeepInv
<1>2. LinksKept'
  BY DEF LinksKept
<1>3. FdsKept' /\ DirKept'
  BY DEF FdsKept, DirKept, FdLoop
<1> QED
  BY <1>1, <1>2, <1>3 DEF KeepInv

LEMMA LeaveKept ==
  ASSUME KeepInv, Leave, UNCHANGED <<procVars, filters>>
  PROVE  KeepInv'
BY NothingKept DEF Leave, Drop, FdLoop, Collecting

(* A link is done.                                                         *)
LEMMA LinkKept ==
  ASSUME KeepInv, pc \in {"link", "stat"}, place \in Links, AfterLink,
         UNCHANGED <<procVars, filters, pid, processes>>,
         temp \subseteq temp', Kept(pid, place) => Label(place) \in Labels(temp')
  PROVE  KeepInv'
<1>1. LinksDone(pc', place') = LinksDone(pc, place) \cup {place}
  BY DEF AfterLink, LinksDone, AfterLinks, Links
<1>2. pc' \in {"link", "maps"} /\ Collecting
  BY DEF AfterLink, Collecting
<1>3. KeptListed'
  BY StillListed DEF KeepInv
<1>4. LinksKept'
  <2> SUFFICES ASSUME NEW x \in LinksDone(pc', place'), Kept(pid, x)'
               PROVE  Label(x) \in Labels(temp')
    BY DEF LinksKept
  <2>1. Kept(pid, x)
    BY SameKept
  <2>2. x \in LinksDone(pc, place) => Label(x) \in Labels(temp)
    BY <1>2, <2>1 DEF KeepInv, LinksKept
  <2> QED
    BY <1>1, <2>1, <2>2 DEF Labels
<1>5. FdsKept' /\ DirKept'
  BY <1>2 DEF FdsKept, DirKept, FdLoop
<1> QED
  BY <1>3, <1>4, <1>5 DEF KeepInv

(* A step once the links are done.                                         *)
LEMMA CollectKept ==
  ASSUME KeepInv, pc \in AfterLinks, pc' \in AfterLinks,
         UNCHANGED <<procVars, filters, pid, processes>>,
         temp \subseteq temp', FdsKept', DirKept'
  PROVE  KeepInv'
<1>1. KeptListed'
  BY StillListed DEF KeepInv
<1>2. LinksDone(pc', place') = LinksDone(pc, place) /\ Collecting
  BY DEF LinksDone, AfterLinks, Collecting
<1>3. LinksKept'
  <2> SUFFICES ASSUME NEW x \in LinksDone(pc', place'), Kept(pid, x)'
               PROVE  Label(x) \in Labels(temp')
    BY DEF LinksKept
  <2>1. Kept(pid, x)
    BY SameKept
  <2>2. Label(x) \in Labels(temp)
    BY <1>2, <2>1 DEF KeepInv, LinksKept
  <2> QED
    BY <2>2 DEF Labels
<1> QED
  BY <1>1, <1>3 DEF KeepInv

(* The end of a process: all that is kept has been collected.              *)
LEMMA AppendKept ==
  ASSUME KeepInv, WholeInv, Collecting, UNCHANGED <<procVars, filters, pid>>,
         NEW R, \A r \in R : r.pid = pid, Append(temp \cup R),
         \A x \in Places : Kept(pid, x) => Label(x) \in Labels(temp)
  PROVE  KeepInv'
<1>1. processes' = processes \cup temp \cup R /\ pc' = "next" /\ \A r \in temp : r.pid = pid
  BY DEF Append, WholeInv
<1>2. KeptListed'
  <2> SUFFICES ASSUME NEW p \in Pids, Listed(p)' # {}, NEW x \in Places, Kept(p, x)'
               PROVE  Label(x) \in {r.fd : r \in Listed(p)'}
    BY DEF KeptListed
  <2>1. Kept(p, x)
    BY SameKept
  <2>2. CASE p = pid
    <3>1. temp \subseteq Listed(p)'
      BY <1>1, <2>2 DEF Listed
    <3>2. Label(x) \in Labels(temp)
      BY <2>1, <2>2
    <3> QED
      BY <3>1, <3>2 DEF Labels
  <2>3. CASE p # pid
    <3>1. Listed(p)' = Listed(p)
      BY <1>1, <2>3 DEF Listed
    <3> QED
      BY <2>1, <3>1 DEF KeepInv, KeptListed
  <2> QED
    BY <2>2, <2>3
<1>3. LinksKept' /\ FdsKept' /\ DirKept'
  BY <1>1 DEF LinksKept, FdsKept, DirKept, FdLoop, Collecting
<1> QED
  BY <1>2, <1>3 DEF KeepInv

(***************************************************************************)
(* The steps, one after the other.                                         *)
(***************************************************************************)
LEMMA read_linkKept ==
  ASSUME RecInv, KeepInv, read_link, UNCHANGED <<procVars, filters>>
  PROVE  KeepInv'
<1>1. pc = "link" /\ place \in Links
  BY DEF read_link, RecInv, Resolving
<1>2. CASE /\ Refused(pid) /\ AfterLink
           /\ temp' = temp \cup Unknown(Label(place))
           /\ UNCHANGED <<pidVars, fdVars, resolved, processes>>
  <2>1. ~Kept(pid, place)
    BY <1>2, KeptIsSeen
  <2> QED
    BY <1>1, <1>2, <2>1, LinkKept DEF pidVars
<1>3. CASE Leave
  BY <1>3, LeaveKept
<1>4. CASE /\ ~Missing /\ pc' = "stat"
           /\ UNCHANGED <<pidVars, place, fdVars, node, temp, processes>>
  <2>1. LinksDone(pc', place') = LinksDone(pc, place) /\ Collecting
    BY <1>1, <1>4 DEF LinksDone, AfterLinks, Collecting
  <2>2. LinksKept'
    <3> SUFFICES ASSUME NEW x \in LinksDone(pc', place'), Kept(pid, x)'
                 PROVE  Label(x) \in Labels(temp')
      BY DEF LinksKept
    <3>1. Kept(pid, x)
      BY <1>4, SameKept DEF pidVars
    <3> QED
      BY <1>4, <2>1, <3>1 DEF KeepInv, LinksKept
  <2>3. FdsKept' /\ DirKept'
    BY <1>4 DEF FdsKept, DirKept, FdLoop
  <2>4. KeptListed'
    BY <1>4, StillListed DEF KeepInv
  <2> QED
    BY <2>2, <2>3, <2>4 DEF KeepInv
<1> QED
  BY <1>2, <1>3, <1>4 DEF read_link

LEMMA stat_linkKept ==
  ASSUME RecInv, KeepInv, stat_link, UNCHANGED <<procVars, filters>>
  PROVE  KeepInv'
<1>1. /\ pc = "stat" /\ place \in Links
      /\ Untouched(pid, place) => buf = Held(pid, place)
  BY DEF stat_link, RecInv, Resolving
<1>2. CASE Leave
  BY <1>2, LeaveKept
<1>3. CASE /\ node' = Held(pid, place) /\ AfterLink
           /\ temp' = temp \cup Wanted(Label(place), buf, node')
           /\ UNCHANGED <<pidVars, fdVars, buf, processes>>
  <2>1. ASSUME Kept(pid, place)
        PROVE  Label(place) \in Labels(temp')
    <3>1. buf = Held(pid, place)
      BY <1>1, <2>1 DEF Kept
    <3>2. Label(place) \in Labels(Wanted(Label(place), Held(pid, place), Held(pid, place)))
      BY <2>1, KeptIsMade
    <3> QED
      BY <1>3, <3>1, <3>2 DEF Labels
  <2> QED
    BY <1>1, <1>3, <2>1, LinkKept DEF pidVars
<1> QED
  BY <1>2, <1>3 DEF stat_link

LEMMA find_mem_delKept ==
  ASSUME KeepInv, find_mem_del, UNCHANGED <<procVars, filters>>
  PROVE  KeepInv'
<1>1. CASE Leave
  BY <1>1, LeaveKept
<1>2. CASE pc = "maps" /\ pc' = "fddir" /\ temp \subseteq temp' /\ UNCHANGED <<pidVars, processes>>
  <2>1. FdsKept' /\ DirKept'
    BY <1>2 DEF FdsKept, DirKept, FdLoop
  <2> QED
    BY <1>2, <2>1, CollectKept DEF AfterLinks, pidVars
<1> QED
  BY <1>1, <1>2 DEF find_mem_del

LEMMA open_fd_dirsKept ==
  ASSUME RecInv, WholeInv, KeepInv, open_fd_dirs, UNCHANGED <<procVars, filters>>
  PROVE  KeepInv'
<1>1. pc \in {"fddir", "fdinfodir"} /\ Collecting /\ pc \in AfterLinks /\ pid \in Pids
  BY DEF open_fd_dirs, Collecting, AfterLinks, RecInv, Resolving
<1>2. CASE Leave
  BY <1>2, LeaveKept
<1>3. CASE /\ Refused(pid) \/ proc[pid].zombie
           /\ Append(temp \cup Unknown("NOFD"))
           /\ UNCHANGED <<pidVars, place, fdVars, resolved, temp>>
  <2>1. \A x : ~Kept(pid, x)
    BY <1>3, KeptIsSeen
  <2>2. \A r \in Unknown("NOFD") : r.pid = pid
    BY DEF Unknown, Record
  <2> QED
    BY <1>1, <1>3, <2>1, <2>2, AppendKept DEF pidVars
<1>4. CASE /\ Exists(pid)
           /\ pc' = IF pc = "fddir" THEN "fdinfodir" ELSE "fds"
           /\ fd_dir' = IF pc = "fddir" THEN proc[pid].id ELSE fd_dir
           /\ fds' = {} /\ fd' = 0
           /\ UNCHANGED <<pidVars, place, resolved, temp, processes>>
  <2>1. FdsKept'
    <3>1. \A n \in Fds : n \in Nat \ {0}
      OBVIOUS
    <3>2. \A n \in Fds : ~Passed(n)'
      BY <1>4, <3>1 DEF Passed
    <3> QED
      BY <1>1, <1>4, <3>2 DEF FdsKept, FdLoop
  <2>2. DirKept'
    BY <1>1, <1>4 DEF KeepInv, DirKept, Untouched, Exists, procVars, pidVars
  <2> QED
    BY <1>1, <1>4, <2>1, <2>2, CollectKept DEF AfterLinks, pidVars
<1> QED
  BY <1>2, <1>3, <1>4 DEF open_fd_dirs

(* The directory of the descriptors shows all that is kept.                *)
LEMMA KeptIsOpen ==
  ASSUME KeepInv, pc \in {"fds"} \cup FdLoop, NEW n \in Fds, Kept(pid, FdName[n])
  PROVE  n \in OpenOf(pid, fd_dir)
<1>1. FdName[n] \in Places /\ Untouched(pid, FdName[n]) /\ Held(pid, FdName[n]) # Nothing
  BY DEF Places, Kept
<1>2. Exists(pid) /\ fd_dir = proc[pid].id
  BY <1>1 DEF KeepInv, DirKept
<1> QED
  BY <1>1, <1>2 DEF OpenOf, Open

LEMMA read_fd_dirKept ==
  ASSUME RecInv, WholeInv, KeepInv, read_fd_dir, UNCHANGED <<procVars, filters>>
  PROVE  KeepInv'
<1> DEFINE unread == IF fds # {} THEN fds ELSE {n \in OpenOf(pid, fd_dir) : n > fd}
<1>1. pc = "fds" /\ Collecting /\ pc \in AfterLinks
  BY DEF read_fd_dir, Collecting, AfterLinks
<1>2. fd \in Nat /\ Fds \subseteq Nat /\ unread \subseteq Fds
  <2>1. fds \subseteq Fds /\ fd \in Fds \cup {0} /\ Fds \subseteq Nat
    BY DEF RecInv, TypeOK
  <2>2. unread \subseteq Fds
    BY <2>1 DEF OpenOf, Open
  <2> HIDE DEF unread
  <2> QED
    BY <2>1, <2>2
<1>3. ASSUME NEW n \in Fds, Kept(pid, FdName[n])
      PROVE  n \in unread \/ (n <= fd /\ FdName[n] \in Labels(temp))
  <2>1. n \in OpenOf(pid, fd_dir)
    BY <1>1, <1>3, KeptIsOpen
  <2>2. n > fd => n \in unread
    BY <1>1, <1>3, <2>1 DEF KeepInv, FdsKept
  <2>3. n \in Nat /\ fd \in Nat
    BY <1>2
  <2>4. n <= fd => Passed(n)
    BY <1>1, <2>3 DEF Passed
  <2>5. Passed(n) => FdName[n] \in Labels(temp)
    BY <1>1, <1>3 DEF KeepInv, FdsKept
  <2> HIDE DEF unread
  <2> QED
    BY <1>2, <2>2, <2>3, <2>4, <2>5
<1>4. CASE unread = {} /\ Append(temp) /\ UNCHANGED pidVars
  <2>1. ASSUME NEW x \in Places, Kept(pid, x)
        PROVE  Label(x) \in Labels(temp)
    <3>1. CASE x \in Links
      <4>1. x \in LinksDone(pc, place)
        BY <1>1, <3>1 DEF LinksDone
      <4> QED
        BY <1>1, <2>1, <4>1 DEF KeepInv, LinksKept
    <3>2. ASSUME NEW n \in Fds, x = FdName[n]
          PROVE  Label(x) \in Labels(temp)
      BY <1>3, <1>4, <2>1, <3>2, FdLabels
    <3> QED
      BY <3>1, <3>2 DEF Places
  <2>2. Append(temp \cup {})
    BY <1>4
  <2> QED
    BY <1>1, <1>4, <2>1, <2>2, AppendKept DEF pidVars
<1>5. ASSUME NEW n \in unread, Least(n, unread), fd' = n, fds' = unread \ {n},
             place' = FdName[n], pc' = "fdlink",
             UNCHANGED <<fd_dir, processes, pidVars, resolved, temp>>
      PROVE  KeepInv'
  <2>0. n > fd
    BY <1>1 DEF KeepInv, FdsKept
  <2>1. FdsKept'
    <3> HIDE DEF unread
    <3>1. ASSUME NEW m \in Fds, Kept(pid, FdName[m])'
          PROVE  /\ Passed(m)' => FdName[m] \in Labels(temp')
                 /\ m > fd' => m \in fds'
      <4>1. Kept(pid, FdName[m])
        BY <1>5, <3>1, SameKept DEF pidVars
      <4>2. m \in unread \/ (m <= fd /\ FdName[m] \in Labels(temp))
        BY <1>3, <4>1
      <4>3. m \in Nat /\ n \in Nat
        BY <1>2
      <4>4. m \in unread => n <= m
        BY <1>5 DEF Least
      <4>5. Passed(m)' <=> m < n
        BY <1>5 DEF Passed
      <4>6. m > n => m \in unread
        BY <1>2, <2>0, <4>2, <4>3
      <4> QED
        BY <1>5, <4>2, <4>3, <4>4, <4>5, <4>6
    <3>2. \A m \in fds' : m > fd'
      BY <1>2, <1>5 DEF Least
    <3> QED
      BY <1>2, <1>5, <3>1, <3>2 DEF FdsKept, FdLoop
  <2>2. DirKept'
    BY <1>1, <1>5 DEF KeepInv, DirKept, Untouched, Exists, procVars, pidVars
  <2> QED
    BY <1>1, <1>5, <2>1, <2>2, CollectKept DEF AfterLinks, FdLoop, pidVars
<1> QED
  BY <1>4, <1>5 DEF read_fd_dir, fdVars

(* A look at a descriptor that is kept finds it.                           *)
LEMMA KeptFdSeen ==
  ASSUME RecInv, KeepInv, pc \in FdLoop, Kept(pid, FdName[fd])
  PROVE  /\ ~Missing
         /\ pc # "fdlink" => buf = Held(pid, place)
         /\ pc = "fdinfo" => node = Held(pid, place)
<1>1. place = FdName[fd]
  BY DEF KeepInv, FdsKept
<1>2. Untouched(pid, place) /\ ~Missing
  BY <1>1, KeptIsSeen DEF Kept, Missing
<1> QED
  BY <1>2 DEF RecInv, Resolving, FdLoop

(* A step that stays with the descriptor, or ends with it.                 *)
LEMMA FdKept ==
  ASSUME RecInv, KeepInv, pc \in FdLoop, pc' \in {"fds"} \cup FdLoop,
         UNCHANGED <<procVars, filters, pid, place, fdVars, processes>>,
         temp \subseteq temp',
         pc' = "fds" /\ Kept(pid, FdName[fd]) => FdName[fd] \in Labels(temp')
  PROVE  KeepInv'
<1>1. pc \in AfterLinks /\ pc' \in AfterLinks
  BY DEF AfterLinks, FdLoop
<1>2. fd \in Fds /\ place = FdName[fd] /\ UNCHANGED <<fd_dir, fds, fd>> /\ Labels(temp) \subseteq Labels(temp')
  BY DEF KeepInv, FdsKept, fdVars, Labels
<1>3. ASSUME NEW n \in Fds, Kept(pid, FdName[n])'
      PROVE  /\ Passed(n)' => FdName[n] \in Labels(temp')
             /\ n > fd' /\ fds' # {} => n \in fds'
  <2>1. Kept(pid, FdName[n])
    BY <1>3, SameKept
  <2>2. /\ Passed(n) => FdName[n] \in Labels(temp)
        /\ n > fd /\ fds # {} => n \in fds
    BY <2>1 DEF KeepInv, FdsKept
  <2>3. Passed(n)' => Passed(n) \/ (n = fd /\ pc' = "fds")
    BY <1>2 DEF Passed
  <2> QED
    BY <1>2, <2>1, <2>2, <2>3
<1>4. FdsKept'
  <2>1. \A n \in fds' : n > fd'
    BY <1>2 DEF KeepInv, FdsKept
  <2> QED
    BY <1>2, <1>3, <2>1 DEF FdsKept
<1>5. DirKept'
  BY <1>2 DEF KeepInv, DirKept, Untouched, Exists, procVars
<1> QED
  BY <1>1, <1>4, <1>5, CollectKept

LEMMA read_fd_linkKept ==
  ASSUME RecInv, KeepInv, read_fd_link, UNCHANGED <<procVars, filters>>
  PROVE  KeepInv'
<1>1. CASE Leave
  BY <1>1, LeaveKept
<1>2. CASE pc = "fdlink" /\ pc' = "fdstat" /\ UNCHANGED <<pidVars, place, fdVars, temp, processes>>
  BY <1>2, FdKept DEF FdLoop, pidVars
<1> QED
  BY <1>1, <1>2 DEF read_fd_link

LEMMA stat_fdKept ==
  ASSUME RecInv, KeepInv, stat_fd, UNCHANGED <<procVars, filters>>
  PROVE  KeepInv'
<1>1. pc = "fdstat" /\ pc \in FdLoop
  BY DEF stat_fd, FdLoop
<1>2. CASE Leave
  BY <1>2, LeaveKept
<1>3. CASE /\ node' = Held(pid, place)
           /\ pc' = IF Wanted(place, buf, node') = {} THEN "fds" ELSE "fdinfo"
           /\ UNCHANGED <<pidVars, place, fdVars, buf, temp, processes>>
  <2>1. ASSUME pc' = "fds", Kept(pid, FdName[fd])
        PROVE  FALSE
    <3>1. place = FdName[fd] /\ buf = Held(pid, place)
      BY <1>1, <2>1, KeptFdSeen DEF KeepInv, FdsKept
    <3>2. place \in Labels(Wanted(place, Held(pid, place), Held(pid, place)))
      BY <2>1, <3>1, KeptIsMade
    <3>3. Wanted(place, Held(pid, place), Held(pid, place)) = {}
      BY <1>3, <2>1, <3>1
    <3> QED
      BY <3>2, <3>3 DEF Labels
  <2> QED
    BY <1>1, <1>3, <2>1, FdKept DEF FdLoop, pidVars
<1> QED
  BY <1>2, <1>3 DEF stat_fd

LEMMA read_fdinfoKept ==
  ASSUME RecInv, KeepInv, read_fdinfo, UNCHANGED <<procVars, filters>>
  PROVE  KeepInv'
<1>1. /\ pc = "fdinfo" /\ pc \in FdLoop /\ pc' = "fds"
      /\ UNCHANGED <<pidVars, place, fdVars, processes>>
      /\ temp' = temp \cup IF Missing THEN {} ELSE Wanted(place, buf, node)
  BY DEF read_fdinfo, FdLoop
<1>2. ASSUME Kept(pid, FdName[fd])
      PROVE  FdName[fd] \in Labels(temp')
  <2>1. ~Missing /\ place = FdName[fd] /\ buf = Held(pid, place) /\ node = Held(pid, place)
    BY <1>1, <1>2, KeptFdSeen DEF KeepInv, FdsKept
  <2>2. place \in Labels(Wanted(place, Held(pid, place), Held(pid, place)))
    BY <1>2, <2>1, KeptIsMade
  <2> QED
    BY <1>1, <2>1, <2>2 DEF Labels
<1> QED
  BY <1>1, <1>2, FdKept DEF pidVars

LEMMA EnvironmentKept ==
  ASSUME RecInv, KeepInv, Environment
  PROVE  KeepInv'
<1>1. /\ ProcfsTypeOK /\ ProcessesChange
      /\ UNCHANGED <<filters, pc, pid, place, fd_dir, fds, fd, temp, processes>>
  BY DEF Environment, RecInv, TypeOK, pidVars, fdVars
<1>2. \A p \in Pids, x \in Places : Kept(p, x)' => Kept(p, x)
  BY <1>1, KeptWasKept
<1>3. ASSUME Collecting
      PROVE  pid \in Pids /\ \A x \in Places : Kept(pid, x)' => Kept(pid, x)
  <2>1. pid \in Pids
    BY <1>3 DEF Collecting, RecInv, Resolving
  <2>2. \A p \in Pids, x \in Places : p = pid => (Kept(pid, x)' <=> Kept(p, x)')
    BY <1>1 DEF Kept, Untouched, Held, Exists, TypeWanted
  <2> QED
    BY <1>2, <2>1, <2>2
<1>4. KeptListed'
  <2>1. \A p : Listed(p)' = Listed(p)
    BY <1>1 DEF Listed
  <2> QED
    BY <1>2, <2>1 DEF KeepInv, KeptListed
<1>5. LinksKept'
  <2>1. LinksDone(pc, place) \subseteq Places
    BY DEF LinksDone, Places, Links
  <2> QED
    BY <1>1, <1>3, <2>1 DEF KeepInv, LinksKept, Collecting
<1>6. FdsKept'
  <2>1. pc \in {"fds"} \cup FdLoop => Collecting
    BY DEF FdLoop, Collecting
  <2>2. \A n \in Fds : FdName[n] \in Places
    BY DEF Places
  <2>3. \A n : Passed(n)' <=> Passed(n)
    BY <1>1 DEF Passed
  <2> QED
    BY <1>1, <1>3, <2>1, <2>2, <2>3 DEF KeepInv, FdsKept
<1>7. DirKept'
  <2> SUFFICES ASSUME pc \in {"fdinfodir", "fds"} \cup FdLoop, NEW x \in Places,
                      <<pid, x>> \notin touched'
               PROVE  proc'[pid] # Gone /\ fd_dir = proc'[pid].id
    BY <1>1 DEF DirKept, Untouched, Exists
  <2>1. pid \in Pids
    BY <1>3 DEF FdLoop, Collecting
  <2>2. \A p \in Pids : p = pid => /\ Untouched(p, x)
                                   /\ proc'[p] # Gone <=> proc[p] # Gone
                                   /\ proc[p] # Gone => proc'[p].id = proc[p].id
    <3> SUFFICES ASSUME NEW p \in Pids, p = pid
                 PROVE  /\ Untouched(p, x)
                        /\ proc'[p] # Gone <=> proc[p] # Gone
                        /\ proc[p] # Gone => proc'[p].id = proc[p].id
      OBVIOUS
    <3>1. Untouched(p, x)'
      BY DEF Untouched
    <3> QED
      BY <1>1, <3>1, SameProcess DEF Exists
  <2>3. Exists(pid) /\ fd_dir = proc[pid].id
    BY <2>1, <2>2 DEF KeepInv, DirKept
  <2> QED
    BY <2>1, <2>2, <2>3 DEF Exists
<1> QED
  BY <1>4, <1>5, <1>6, <1>7 DEF KeepInv

LEMMA KeepStep == RecInv /\ WholeInv /\ KeepInv /\ [Next]_vars => KeepInv'
<1> SUFFICES ASSUME RecInv, WholeInv, KeepInv, [Next]_vars
             PROVE  KeepInv'
  OBVIOUS
<1>1. CASE Scan /\ UNCHANGED <<procVars, filters>>
  <2>1. CASE find_processes \/ find_command \/ find_username
    <3>1. CASE Leave
      BY <1>1, <3>1, LeaveKept
    <3>2. CASE pc' \in {"comm", "done", "status", "link", "crashed"} /\ UNCHANGED processes
               /\ (pc' = "link" => place' = "cwd")
      BY <1>1, <3>2, NothingKept DEF Collecting, LinksDone, AfterLinks, FdLoop
    <3> QED
      BY <2>1, <3>1, <3>2 DEF find_processes, find_command, find_username, RecInv, Resolving
  <2> QED
    BY <1>1, <2>1, read_linkKept, stat_linkKept, find_mem_delKept, open_fd_dirsKept,
       read_fd_dirKept, read_fd_linkKept, stat_fdKept, read_fdinfoKept DEF Scan
<1>2. CASE Environment
  BY <1>2, EnvironmentKept
<1>3. CASE UNCHANGED vars
  <2>1. UNCHANGED <<procVars, filters, pc, pid, place, fd_dir, fds, fd, temp, processes>>
    BY <1>3 DEF vars, pidVars, fdVars
  <2>2. \A p, x : Kept(p, x)' <=> Kept(p, x)
    BY <2>1, SameKept
  <2>3. KeptListed'
    BY <2>1, StillListed DEF KeepInv
  <2>4. LinksKept' /\ FdsKept'
    BY <2>1, <2>2 DEF KeepInv, LinksKept, FdsKept, Passed, Collecting
  <2>5. DirKept'
    BY <2>1 DEF KeepInv, DirKept, Untouched, Exists, procVars
  <2> QED
    BY <2>3, <2>4, <2>5 DEF KeepInv
<1> QED
  BY <1>1, <1>2, <1>3 DEF Next

(***************************************************************************)
(* The scan (hw1.cpp:97-460) leaves nothing out of the list of a process   *)
(* it lists that was there all the time, however often the process moves   *)
(* at its other places while its links and directories are read, and       *)
(* whatever buffers of directory entries go stale meanwhile.               *)
(***************************************************************************)
THEOREM KeptAreListed == Spec => []KeptListed
<1>1. Init => KeepInv
  BY DEF Init, KeepInv, KeptListed, Listed, LinksKept, FdsKept, DirKept, Collecting, FdLoop
<1>2. KeepInv => KeptListed
  BY DEF KeepInv
<1> QED
  BY <1>1, <1>2, KeepStep, RecInvHolds, WholeInvHolds, PTL DEF Spec
=============================================================================
