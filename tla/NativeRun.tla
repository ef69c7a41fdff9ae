----------------------------- MODULE NativeRun ------------------------------
(***************************************************************************)
(* What the debugger promises about the program it runs, whatever the user *)
(* does with breakpoints, steps and continues: while the debugger holds it *)
(* for the user, the program stays where it is unless the user moves it    *)
(* with "set rip"; in between it goes through its own instructions, from   *)
(* its entry and in an order it could take with no debugger, none skipped, *)
(* repeated or replaced.  The user may stop it for good and start it again.*)
(***************************************************************************)
CONSTANTS Insns, Entry, Succ, Exits,
  Targets  (* where the user may move it                                   *)

VARIABLES
  live,  (* the program is loaded in a process and has not ended           *)
  ip,    (* its next instruction                                           *)
  held   (* the debugger is at its prompt                                  *)

Init == live = FALSE /\ ip = Entry /\ held = TRUE

Start ==
  /\ ~live
  /\ ~held
  /\ live' = TRUE
  /\ ip' = Entry
  /\ UNCHANGED held

Step ==
  /\ live
  /\ ~held
  /\ ip \notin Exits
  /\ ip' \in Succ[ip]
  /\ UNCHANGED <<live, held>>

\* It exits by itself, or is killed, by whatever ends the debugger too.
Leave == live /\ live' = FALSE /\ ip' = Entry /\ held' \in BOOLEAN

\* The debugger gives the user the prompt, or takes a command that resumes.
Turn == held' \in BOOLEAN /\ UNCHANGED <<live, ip>>

Move ==
  /\ live
  /\ held
  /\ ip' \in Targets
  /\ UNCHANGED <<live, held>>

Next == Start \/ Step \/ Leave \/ Turn \/ Move

Spec == Init /\ [][Next]_<<live, ip, held>>
=============================================================================
