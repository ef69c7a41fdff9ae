----------------------------- MODULE MCProcScan -----------------------------
(***************************************************************************)
(* Two processes and two descriptors.  A process may start as the user's   *)
(* own with both descriptors open and a file in its memory, as one that    *)
(* may not be looked at, and as one that -c leaves out.                    *)
(***************************************************************************)
EXTENDS ProcScan, TLC

CONSTANTS home, log

MCFdName == <<"0", "1">>
MCFiles  == {home, log}
MCKind   == home :> "DIR" @@ log :> "REG"

user   == [id |-> 0, matches |-> TRUE, named |-> TRUE, denied |-> FALSE,
           zombie |-> FALSE, maps |-> {log},
           at |-> [x \in Places |-> IF x \in {"exe", "1"} THEN log ELSE home]]
other  == [user EXCEPT !.denied = TRUE]
hidden == [user EXCEPT !.matches = FALSE]

MCBirths == {user, other, hidden}

(* No filter, -t DIR, and a -f that matches log and Permission.            *)
MCFilters == {[type |-> NoFilter, names |-> Names],
              [type |-> "DIR", names |-> Names],
              [type |-> NoFilter,
               names |-> {log} \cup (Pids \X {"cwd", "rtd", "txt"})]}
=============================================================================
