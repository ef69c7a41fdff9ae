# Models of the UNIX programming homeworks

The repository holds four independent programs of one course, each written
against the system-call interface of Linux. This directory specifies them in
TLA+, checks small instances with TLC and proves theorems for every instance
with TLAPS. All four are modelled: the debugger of HW4, which has the most
state, the scan of /proc of HW1, which has the most races, the signals and jumps
of HW3's mini libc, and the logger of HW2 between the threads of a program.

Contents: [inventory](#inventory), [the debugger](#the-debugger-hw4),
[the scanner](#the-process-scanner-hw1), [the mini libc](#the-mini-libc-hw3),
[the logger](#the-logger-hw2), [runs](#runs),
[findings](#where-code-and-documents-disagree), [proofs](#proofs),
[not modelled](#what-is-not-modelled), [plan](#plan).

## Inventory

The programs share no state and do not call each other. Each one interacts with
the kernel, and through it with other processes.

### HW1: a small `lsof` (`src/HW1/hw1.cpp`, `hw1.hpp`)

* State: the records to print (`processes`), the records of the process being
  read (`temp_processes`), the open `DIR*` of `/proc`, `fd` and `fdinfo`.
* Operations: `find_processes` walks `/proc`; for each number
  `collect_information` reads `comm`, `status`, the links `cwd`, `root`, `exe`,
  then `maps`, then every descriptor (`readlink`, `stat`, `fdinfo`); three filters
  (`-c`, `-t`, `-f`) decide what is kept.
* Interaction: none of these reads is atomic with another, and every one names
  the process by its pid again.
* Hard: processes that end, start, reuse a pid, close or replace files between
  two reads; five early returns in the middle of a process; one pair of buffers
  for all links.
* Correct when: what is printed about a place is what is there; a process that
  goes away leaves nothing half read; what nobody touches is listed exactly.

### HW2: a call logger (`src/HW2/hw2.cpp`, `src/HW2/src/*.cpp`)

* The launcher sets `LD_PRELOAD` and `OUTPUT_FILE`, forks, execs and waits. The
  library `logger.so` wraps 14 file calls (`logger.cpp`), reaches the real ones
  through `dlsym` (`linux_cmd.cpp`), and writes one line per call (`util.cpp`).
* State: none of its own but the descriptor table and `errno` of the program it
  is loaded into, which it uses with it.
* Interaction: every thread of the program goes through the wrappers, and each
  record opens, writes and closes the log among the program's own descriptors.
* Hard: the steps of two threads' wrappers interleave; a name or descriptor is
  resolved before some calls and after others; standard error may be the log, and
  may be closed.
* Correct when: the program runs as it does without the logger, each record
  reaches the log and names the file the call was made on, no descriptor of the log
  is left behind.

### HW3: a mini libc (`src/HW3/libmini.c`, `libmini.h`, `libmini64.asm`)

* State: `errno`, and in the kernel the signal mask, the pending signals, the
  handlers and the alarm of the process.
* Operations: wrappers of system calls with the errno convention, `sigset_t`
  operations, `signal` and `sigaction` with their restorer, `sleep`, `perror`,
  `setjmp` and `longjmp` with the mask.
* Interaction: the kernel runs handlers on the program's stack between any two
  instructions, also inside the library, and the handlers call the library again.
* Hard: handlers nested in handlers; a signal between a system call and the
  assignment of `errno`, or in the middle of `setjmp` and `longjmp`; jumps out of
  handlers; calls that overwrite the stack `setjmp` was called on.
* Correct when: what is blocked is what the program asked for and its running
  handlers add, a handler interrupts itself only where the program lets it, a jump
  restores registers, stack and mask, `errno` is that of the last call.

### HW4: an instruction-level debugger (`src/HW4/debugger.cpp`, `debugger.hpp`, `hw4.cpp`)

* State: `State`, `wait_status`, the id counter, two tables of breakpoints, the
  registers fetched last, and in the kernel the tracee: its text, its `rip`, and
  whether it runs.
* Operations: one handler for each of the commands (`break`, `delete`, `disasm`,
  `dump`, `get`, `getregs`, `set`, `load`, `run`, `start`, `cont`, `si`, `list`,
  `vmmap`, `help`, `exit`).
* Interaction: `ptrace` and `waitpid` with the tracee, `0xcc` in its text.
* Hard: the tracee runs, stops, is signalled, exits or is killed while a handler
  waits; a breakpoint is lifted in one stop and put back in the next; the two
  tables are kept apart; the state must follow the tracee over all the ways out of
  its waits.
* Correct when: the program under the debugger runs its own instructions, the
  text is whole but for the listed breakpoints, the state is true, no wait is
  for ever, and no program outlives its debugger.

## The debugger (HW4)

| module | what it is |
| --- | --- |
| `Ptrace` | the tracee and the kernel: fork, exec, int3, single steps, exits, signals, SIGKILL, EXITKILL. External: written from how `debugger.cpp` uses it |
| `Debugger` | every handler of `debugger.cpp`, and the properties |
| `DebuggerInv` | the inductive invariants |
| `NativeRun` | abstract: a program that runs with no debugger, but for the user who holds it and may move it |
| `DebuggedRun` | the refinement mapping from the debugger to `NativeRun` |
| `StepCount` | the debugger with a history variable that counts instructions |

**State.** `state`, `wait_status`, `breakpoint_id`, `id_to_breakpoint` and
`address_to_breakpoint` are the members of class `Debugger`; `regs` is the `rip`
of the register map a handler fetched last; `stop` is the flag of the loop in
`debug()`. `pc` says where the only thread is: at the prompt, or in one of the
waits of `run_the_program` (`exec`, line 708), `run_breakpoint` (`over_cont`,
`over_si`, line 325), `continue_the_execution` and `run_a_single_instruction`
(`wait`, lines 344 and 777). `tracee`, `rip`, `mem`, `report` and `exitkill` are
the kernel's: `report` is the event `waitpid` has not fetched.

**Actions.** A handler is atomic up to its `waitpid` and from there to its end or
to the next one: nothing else changes memory, tables or a stopped tracee in the
meantime, but for SIGKILL, which may come at any moment and which every handler
finds out about through a failing `ptrace` (`CanFetch`). The rest of the handler
behind a wait is an action of its own: `ExecReturns`, `OverReturns`,
`check_breakpoint`, `WaitFails`. `run_breakpoint`, `is_stopped`, `is_running`
and `quit_from_the_debugger` are the operators of those names. Refusals that only
print are `Reply`.

**Data.** An address is a number, an instruction is one opaque byte at its
address, `CC` is `0xcc`, and `Succ` gives the control flow. `Junk` is what lies
between the starts of instructions: `rip - 1` may be there. A program may contain
an `int3` of its own and code outside the range of `.text`. `Blocking` are the
instructions that enter a system call which may never return, like the read of
`guess` (HW4's README:204-212). Numbers in
commands are addresses of instructions. `set rip` sends the program to any
instruction in `SetTargets`.

**Refinement.** `NativeRun` has the program (`live`, `ip`) and one bit of its
debugger: whether it is at its prompt (`held`, here `pc = "prompt"`). The program
takes a step of its own only while it is not held, the user can move it only while
it is, and only to `Targets`, which is `SetTargets`. What the debugger does besides
are `Turn`s or stutters: so neither planting, lifting and stepping over breakpoints
nor taking `rip` back behind an `int3` is seen by the program.

**Left out.** Registers other than `rip`; the address space but for the text
(`dump`, `vmmap`); the wording of answers; tokens and number formats, but that a
malformed number or an unknown register ends the debugger (`Crash`); programs
that modify their text, fork, exec, use threads or raise SIGTRAP themselves;
dynamically linked and position-independent programs, which start in the loader.
A script is some sequence of commands, and one that cannot be opened is an `exit`
at the first prompt. The exception of `vmmap` on an offset that `stoull` cannot read
is not modelled either, nor a signal that stops the child between its `TRACEME`
and its `exec`, nor a program that runs astray into the middle of an instruction:
`RunAstray` may go to any instruction, and a fault there is `Signal` or an exit.

## The process scanner (HW1)

| module | what it is |
| --- | --- |
| `Procfs` | processes that start, end, become zombies, reuse pids, and move files, and what procfs shows of them. External |
| `ProcScan` | `find_processes` and all it calls, one action per look at `/proc` |

**State.** `temp` and `processes` are the two vectors of records; `pids`/`pid`
and `fds`/`fd` are the buffers of the two `readdir` loops and their last entries;
`buf` and `node` are what `readlink` and `stat` returned; `place` is the link or
descriptor they were asked about; `fd_dir` identifies the process whose `fd`
directory is open, which stays the old process's when the pid is reused; `dirs` are
the directories open at the moment, each with its pid.
`touched` is a history variable of `Procfs`: the places that changed since the
scan began. `filters`, chosen in `Init`, are the `-t` argument and the names `-f` lets
through; `-c` is the field `matches` of a process.

**Actions.** Each action is one system call that looks at `/proc` and the code up
to the next, and processes change between any two: `find_command` opens `comm`,
`find_username` opens `status`, `read_link` and `stat_link` are the halves of
`resolve_sym_link`, `find_mem_del` reads `maps`, `open_fd_dirs` opens the two
directories, `read_fd_dir`, `read_fd_link`, `stat_fd` and `read_fdinfo` are the
loop over descriptors. `Leave` is every early return of `collect_information`.
`crashed` is the null pointer of `getpwuid`.

**Data.** A file stands for its name and for its inode, so that a record whose
`name` and `node` differ is one that mixes two files. `maps` is read at once, one
buffer of `readdir` holds all the entries there are at that moment, and access
modes, `DEL` against `mem`, the `(deleted)` mark, the cut of a name at a blank, the
order of output and the table itself are left out. What `-f` is asked about are
`Names`: a file, or for what may not be looked at its path, which for a link is the
path with "(Permission denied)" behind it (247) and for `NOFD` the path alone
(383, 398), although the record is printed with the mark. So `-f Permission` lets
the links through and not `NOFD`, and that is one of the filters of the run.

## The mini libc (HW3)

| module | what it is |
| --- | --- |
| `SigSet` | `sigset_t` and its functions: a set of bit numbers, refused at `NSIG` |
| `Signals` | a process of Linux: mask, pending signals, handlers on the stack, the waits of `pause` and `nanosleep`. External |
| `MiniLib` | the library and a program that calls it in any order, from functions and handlers |
| `JumpMask` | `MiniLib` with a history variable: what was blocked at the last `setjmp` |

**State.** `errno` is the library's only variable; `env` is the `jmp_buf` of the
program (registers, return address and stack pointer; its `mask` is never written,
see below). `mask`, `pending` and `disp` are the kernel's; `cpu` is the running code
with its registers, and `stack` the frames it returns to, those of handlers with
the mask they restore. `point`, `own`, `opened` and `cpu.told`, `cpu.goal` only
observe: `own` is what the program asked to be blocked, with what is still blocked
for handlers that were left by a jump, and `opened` what running handlers block and
the program has unblocked in them. `MaskKnown` is `mask = own \cup (Added \ opened)`.

**Actions.** A wrapper is two steps, the system call and `Wrap`, which assigns
`errno` (`WRAPPER_RETval`, and the tail of `open` in assembly): a signal may be
delivered in between, and its handler may call anything. `Syscall` stands for all
wrappers whose system call changes nothing modelled. `sigaction`, `signal` (which
is `sigaction` with a mask made by `sigemptyset` and `sigaddset`), `sigprocmask`,
`pause` and `sleep` are the functions of those names, all of which handlers may
call too: a handler that unblocks its own signal can be interrupted by it, and
`NotReentered` says that this is the only way; `sigaction_null` is the write
through a null `act`. `setjmp` and `longjmp` are split at their `rt_sigprocmask`:
`SetjmpReturns` and `Land` are what follows it. `JumpStack` is the stack longjmp
makes from the saved `rsp`, with the return address pushed again (122-124). It reads
the buffer in one step, where the assembly reads word by word (114-123): a handler
in between would see registers of two functions, but the kernel gives them back as
they were, and no handler writes a buffer that is being jumped to.
`sigreturn` is `__myrt`, which is only the system call: what it restores is the
kernel's `rt_sigreturn`.

**The program** keeps the rules of `setjmp`: it jumps only while the function that
called `setjmp` has not returned (`GiveUp`), and not while a `setjmp` is under way.

**Left out.** `alarm` is a signal that may arrive at any time; flags of
`sigaction`, the seconds `sleep` returns, the value `longjmp` hands on (0 included),
`sigpending`'s result; `fork`; `perror` and the functions on strings.

## The logger (HW2)

| module | what it is |
| --- | --- |
| `NativeCalls` | abstract: threads whose calls each take effect once, and nothing else that touches descriptors or names |
| `Logger` | the wrappers of `logger.cpp` with `util.cpp` and `linux_cmd.cpp`, one thread each in one of five places, and the properties |

**State.** `fds` is the descriptor table of the process, shared by the program and
the logger, `streams` the descriptors of the `FILE`s the program has opened, `stderr`
what `fileno(stderr)` returns, `dir` what the names of files stand for, and
`OUTPUT_FILE` the environment variable, which `main` of the launcher sets or leaves
as inherited. `thread` says where each thread is: in the program, before the
wrapped call (`call`), before the resolution of a name (`resolve`), before the log
is opened (`get_fd`), written (`write`) and closed (`close_fd`). `overtaken` only
observes: the threads of which another has changed a name between the call and
its resolution (`AtStake`).

**Actions.** `Begin` enters a wrapper and resolves what the code resolves first
(`ResolvedFirst`); `Call` is the wrapped function through `linux_*`, which may fail;
`Resolve` is `realpath` or `resolve_fd` behind the call; `get_fd`, `print_log` and
`close_fd` are the functions of those names, each one system call.

The message `get_fd` writes to `fileno(stderr)` when the log cannot be opened changes
nothing here; the exception that making it may throw is `aborted`.

**The program** is `Careful` with descriptors only: it uses those it has open and
streams that are open, and no thread closes a descriptor that another's call is
using, or uses one that another's call is closing. It may close descriptor 2, or that
of a `FILE`, by `close(2)`; and its threads remove and rename each other's files as
they like. `SpecQuiet` adds that without `OUTPUT_FILE` it does not close `stderr`
by `fclose` while a record is on its way to it.

**What `close(2)` does.** With an `OUTPUT_FILE`, behind `close(2)` the log is opened as
2, the lowest free descriptor; `close_fd` (`util.cpp:24`) takes that for `stderr` and
never closes it, and the program's next `open`, which alone would get 2, gets
another. `LogNotLeaked` and `Transparent` have this one exception, and no other. Behind
`fclose(stderr)`, when `fileno` is -1, the log is closed as it should be. Without an
`OUTPUT_FILE` records go to the number 2 whatever is open there by then.

**Refinement.** `ProgramsTable` is the table without the log's descriptors.
Each step of the logger is a step of `NativeCalls` or a stutter, in which a new
descriptor is the lowest that is free, but for as many (`Slack`) as there are
other threads, that much of the program's table the log may take up, and but for
the number of `stderr`, which may be passed over while that `FILE` is open.

**Left out.** `chdir`, hard links, `dup`, buffers of streams, children, `errno`, the
text of a record but for the file it names, the launcher's `-p`, `fork`, `execvp`
and `wait`.

## Runs

| run | module, config | distinct states | shows |
| --- | --- | --- | --- |
| `safe` | `MCStepCount` | 54,871 | all commands in all orders, with double breakpoints and writes of `rip`: the state follows the tracee, waits end, `si` never becomes a run, each step brings a `si` nearer to its end, no tracee is orphaned |
| `text` | `MCDebugger`, `_text` | 23,355 | without doubled breakpoints the text is whole, steps run the original, `disasm` shows it |
| `native` | `MCDebuggedRun` | 22,431 | the debugger implements `NativeRun`, whatever is moved by `set rip`; what is reported as a hit is one |
| `scan` | `MCProcScan` | 2,014,687 | under three filters: records of untouched places are true, whoever is listed has its links, untouched processes are listed exactly (kernel threads excepted), and of the others what was there all the time; a directory is left open only when its process ended between the two `opendir`s |
| `signals` | `MCMiniLib` | 2,627,556 | the mask is known also behind jumps out of handlers and calls of `sigprocmask` in them, handlers are reentered only when the program unblocked their signal, jumps land, `errno` is the last call's |
| `logger` | `MCLogger` | 1,049,252 | records reach the log and name the right file, no descriptor but 2 is leaked, the logger is transparent, for a program that closes 2 and `stderr` and whose threads rename and remove each other's files |
| `rebreak`, `hit`, `si`, `scan_open`, `jump`, `logger_stderr` | | | the disagreements below |

**Bounds.** *Debugger.* Five (`MCDebugger`, `MCStepCount`) or six (`MCDebuggedRun`)
instructions, chosen so that a one-byte instruction is right in front of a target of a
jump, the function returns below the entry, the program loops, and, for the
refinement, has an `int3` of its own and code behind `.text`. `MaxBreaks` is 2 or 3
ids after one load: two breakpoints are enough for two at one address, for one deleted
and one kept, and for one breakpoint stepping onto the other; re-runs and re-loads are
not bounded. Two of the instructions of `MCStepCount` are `Blocking`, one of them
where a function starts. *Scanner.* Two pids, two descriptors, two files, three kinds
of process (of the user, of another, and one `-c` leaves out), and `MaxChanges` = 3
changes during a scan: enough for a process to end, be reaped and its pid to be taken,
or for two files to move and one process to end. Kernel threads and unknown users,
which end in an early return and in the crash that others get to as well, are left to
the proofs. `changes` is only that bound and an identity for `fd_dir`. *Mini libc.*
Two signals, of which the second is `NSIG` itself, and two frames: enough for a
handler in a function or in a handler, for the other signal in the middle of each
wrapper, and for a jump out of a handler. `Sigactions` and `Words` are what the
program asks of `sigaction` and `sigprocmask`: a handler of the second signal that
blocks the first, the empty set (`NSIG` refused by `sigaddset`) and the full set
without the first; the proofs are about all of them. One register with one value: that
a jump restores each register rests on the proof, that it restores the place on the
two `Sites`. *Logger.* Two threads, one descriptor beside standard error, two names
and two files: enough for one thread's log to take the descriptor the other has just
closed, or 2 itself, for the limit to be reached, and for a file to be removed or
renamed, and another to take its name, while a record of it is on its way. `Ops` are
`open`, `close`, `fclose`, `remove` and `rename` (and in `logger_stderr` `tmpfile` and
`fread`); `chmod`, `chown`, `creat`, `fopen`, `read`, `write` and `fwrite` go the same
ways as these; the proofs are about all of them. Threads, files and names are
symmetric.

**Deadlock** is not checked: the debugger ends, so does the scan, a process may be
killed or exit, and an aborted program stops.

**Fairness** (`CountLiveSpec`, run `safe`). A resumed tracee that is not about to wait
in a system call (`Blocked`) is scheduled and gets to its next event or loops; a
debugger whose `waitpid` has an event returns from it; a debugger that has decided to
stop leaves its loop. Each is weak fairness of something nobody else can disable for
ever. Nothing makes the user type, a signal come, a looping program end, or a read of
the terminal return: therefore `StepReturns` speaks of single steps, excuses those
that stay `Blocked` for ever, as a `si` over the read of `guess` does when nobody
types, and `cont` on a loop may wait for ever.

**Properties** are stated and explained in the modules. Of the debugger:
`PromptSettled`, `WaitsForSomeone`, `StateAgrees`, `PlantedIsKnown`, `NoOrphan`,
`NoSecondTracee`, `SiBounded`, `StepNears`, `StepReturns`, `StopKills` for all
users; `TextIntegrity`, `StepOverRunsOriginal`, `DisasmShowsOriginal` for users who
set no breakpoint twice (`SpecDistinct`); `Transparent` and `HitIsInt3` for those
who in addition set none on a one-byte instruction (`SpecCareful`). `StepNears` is
the reason for `StepReturns`: a measure of what a `si` has still to wait for, which
every step of anyone makes smaller. Of the scanner: `RecordsTrue`, `LinksOrNothing`,
`UntouchedListed`, `KeptListed`, `DirsClosed`. `UntouchedListed` is about processes
nothing happened to; `KeptListed` about the places nothing happened to, of a process
that moves others meanwhile; `LinksOrNothing` about `cwd`, `rtd` and `txt` only, for a
process that ends while its descriptors are read is listed with those read
(`hw1.cpp:410`). Of the mini libc:
`MaskKnown`, `NotReentered`, `JumpLands`, `ErrnoOfCall`. Of the logger:
`RecordsReachLog`, `LogNotLeaked`, `NamesTheFile`, `Transparent`.
`ControlInv`, `TextInv`, `RunInv` and `RecInv` are the inductive
invariants of the proofs, checked here as well; each has the type invariant of its
module as a part. An operator `X_Y` next to `X` is a mistake the code could have
made, and each property is violated when one of them takes the place of `X`.

## Where code and documents disagree

* `rebreak` (`debugger.cpp:179`): a second `break` at an address records `0xcc`
  as the original byte; the step over it runs `int3`.
* `hit` (`debugger.cpp:248`): a stop right behind a planted one-byte instruction
  is taken for a hit, although the byte was not executed, and `rip` moves back.
* `si` (`debugger.cpp:773`): `si` from a breakpoint runs two instructions.
* `scan_open` (`hw1.cpp:415`): a descriptor that is closed between `readdir` and
  `readlink` takes its living process out of the list.
* `jump` (`libmini64.asm:128`): `setjmp` and `longjmp` neither save nor restore the
  signal mask: the address of `jmp_buf.mask` is computed from a register that has
  been overwritten, and the size of the set is one the kernel refuses.
* `logger_stderr` (`util.cpp:15`): without `-o`, a program that closes `stderr`, as
  `ls` does at its end, is ended by an exception of the logger.

More that the models contain and no run singles out:

* A debugger command that needs a running program ends the debugger when there is
  none (`debugger.cpp:107`; HW4's README:34 promises a message).
* `run` in `loaded` stays at the first instruction, like `start`
  (`debugger.cpp:733-735`; HW4's README:45 says "start the program and continue the
  execution").
* `-f` is asked about the path of a `NOFD` record without the mark it is printed with
  (`hw1.cpp:383, 398` against `247`).
* A kernel thread that may be looked at has no `exe` and is left out with its other
  files (`hw1.cpp:250`; HW1's README:43 lists "each file opened by a running process").
* Without `-o` an inherited `OUTPUT_FILE` stays in force (`hw2.cpp:66`).
* With an `OUTPUT_FILE`, a program's `close(2)` leaves the log open as 2
  (`util.cpp:24`).

The restrictions of `SpecDistinct` and `SpecCareful` exclude what `rebreak` and `hit` show:
the other properties are about the users they do not hit. For those of `SpecCareful`
`HitIsInt3`, which the run `hit` refutes, is a theorem; and with an `OUTPUT_FILE`
so is `NeverAborts`, which `logger_stderr` refutes.

## Proofs

All theorems hold for every value of the constants that satisfies the named
assumptions `ProgramAssumption` (of `Ptrace` and of `MiniLib`), `DebuggerAssumption`,
`ProcfsAssumption`, `ScanAssumption`, `SigSetAssumption`, `SignalsAssumption`,
`NowhereAssumption`, `JmpBufAssumption` and `LoggerAssumption`: any program, any
number of breakpoints, processes, files, descriptors, changes, signals, registers,
frames and threads.

| module | theorems |
| --- | --- |
| `DebuggerProofs` | `TypeCorrect`: `Spec => []TypeOK` |
| `DebuggerSafetyProofs` | `PromptIsSettled`, `WaitsAreAnswered`, `StateIsTrue`, `PlantedBytesAreKnown`, `NothingIsOrphaned`, `OneTraceeAtATime`, `ControlCorrect`, `StopLeavesNone` |
| `DebuggerTextProofs` | `TextIsIntact`, `StepsOverOriginal`, `DisasmIsOriginal`, `TextCorrect` under `SpecDistinct` |
| `DebuggedRunProofs` | `DebuggingIsTransparent`: `SpecCareful => Transparent`; `RunIsKnown`, `HitIsKnown` |
| `StepCountProofs` | `SiIsBounded`, `StepComesNearer` |
| `ProcScanProofs` | `RecInvHolds`, `RecordsAreTrue`, `ListedHaveLinks`, `UntouchedAreListed`, `KeptAreListed`, `DirsAreClosed` |
| `MiniLibProofs` | `TypeCorrect`, `JumpsLand`, `MaskIsKnown`, `HandlersNotReentered`, `ErrnoIsOfCall` |
| `LoggerProofs` | `LoggerTypeCorrect`, `RecordsAreLogged`, `NoLogLeaks`, `RecordsNameTheFile`, `LoggerIsTransparent`, all under `SpecQuiet`; `WithAFileAllHolds` under `Spec` |

**Debugger.** None of the safety properties is inductive: at the prompt they say
something about the tracee that is settled while a handler waits.
`ControlInv` says for each `pc` what the tracee, the pending event and the state may
be (`AtRest`, `Launching`, `Watching`, `Gone`), that what is listed is known, that
the address being stepped over has an entry, and (`Originals`, which needs it for
listed breakpoints too, as a re-run plants those) that an entry holds the
executable's byte or a `0xcc` read back. `TextInv` adds that the
tables hold the executable's bytes and that the text is the executable's with the
listed breakpoints, but for the one that is being stepped over. `RunInv` adds
where `rip` can be, also when the user has moved it: on an instruction, or right
behind a planted byte; from which each step of the debugger is a step of `NativeRun`
or none. `HitIsKnown` follows: behind a listed breakpoint no instruction starts, so
only an `int3` gets there. There is a lemma per action and one for the tracee's
steps; the temporal step is the last. `StopLeavesNone` is the safety half of
`StopKills`: once the debugger has decided to stop, a program still alive is one that
the debugger's own end, which comes next, takes along.

**Scanner.** `RecordsTrue` is not inductive either: that a record made by
`stat_link` is true rests on what `readlink` returned before. `RecInv` adds
(`Resolving`) that `buf` and `node` still hold of the place being resolved, unless
it was touched, and that a place and a process are being resolved at all. A change
of the processes touches every place at which the scanner would see a difference
(`ProcessesTouch`), which is the only fact about `Procfs` the argument needs;
that labels do not collide (`LabelsInvert`) is the only one about formats.

`ListedHaveLinks` rests on `WholeInv`: all records being collected are of the pid at
hand, and without filters the three links that must be there have been made by the
time the scan is past them (`Need`), so that what is appended has them.

`UntouchedAreListed` rests on `ListInv`, about the processes nothing has happened to
(`Quiet`). `Placed` says where the scan stands with each: it is listed as it should
be when the scan is past it, and not yet when it is still to come, in which case it
is among the entries read or behind the last of them. `SofarOf` says of the one being
collected what has been collected so far (`Collected`): the links resolved, the
memory, and the descriptors up to the last one read. A step adds the next part, or
ends with all of them, which are what `Expected` asks for; a change of the processes
leaves a quiet one as it was (`QuietStays`). `KeptAreListed` needs the same of
single places: `KeepInv` says that the links of the process at hand that stayed have
been collected up to the current one (`LinksKept`), the descriptors up to the last
one read (`FdsKept`), and that while any of its places stayed the directory being read
is its own (`DirKept`), so that `readdir` does not stop short of a descriptor: an
end, or a new process under the pid, touches every place.
`DirsAreClosed` is about steps: `DirInv` says that processes are told
apart by their ids and that the one whose `fd` is open may be looked at as long as it
lives, from which the second `opendir` fails only for a process that has ended.

**Step count.** `SiInv` and `OverInv` say, over `ControlInv`, that in a `si` the
tracee is never resumed but for a single step, and how many instructions it can
have run when that step begins. That no action keeps or adds to `Ahead` while a `si`
waits (`StepComesNearer`) rests on them as well: with it, only the fairness of the
steps themselves is left of `StepReturns`.

**Mini libc.** `JumpInv` follows the code that is in `setjmp` or `longjmp`, running or
interrupted at any depth of the stack (`Settled`): its registers and the frame below
it are those of the point it jumps to. `MaskInv` gives, for each handler on the stack,
the mask it will restore as what the program had asked for with what the handlers
below it add and the program had not opened, so that a signal a handler runs for is
blocked as long as it runs, unless opened. That the words of `sigaddset` and
`sigdelset` mean what they say is `WordMeans`. Each step pushes a frame, pops one,
cuts the stack or leaves it alone, and there is a lemma for each of these. `ErrnoInv`
says that nothing below the top of the stack has been told an error: what interrupts a
call, or is called by it, comes back to code that forgets what it was told.

**Logger.** `LogInv` ties the descriptors of the log to the threads that opened
them, one each, but for the one that has the number of `stderr`; `UseInv` says that no
two calls under way conflict and that the descriptor a call is about to use is still
there; `NameInv` says for each place of a wrapper, in threads that are not
`overtaken`, what the names resolved so far are worth. `LoggerIsTransparent` shows each
action to be a step of `NativeCalls` or a stutter on `ProgramsTable`; that the
descriptors the log takes up are at most those of the other threads, and 2, is an
injection from descriptors to threads, counted with `FS_Injection`.
`WithAFileAllHolds` takes `StderrQuiet` away: when the log is a file nothing the program
does to `stderr` disturbs it, and the other four properties and `NeverAborts` hold
of every careful program.

**Only model-checked.** `StepReturns` and `StopKills` (liveness under fairness,
which the prover does not reach); `StepComesNearer` and `StopLeavesNone` are what of
them is safety. Every other property of a passing run is a theorem.

## What is not modelled

* HW1: `getopt` and its messages, `print_results`, access modes, a limit on
  open descriptors (`dirs` says which directories are, and which one line 391
  leaves behind), the length of names.
* HW2: what is left out above; `errno` behind a logged call, the 32 characters of
  a buffer in a record, a path of 100 bytes in `resolve_fd`: each is a fact about one
  call and one value, with no interleaving or state to explore.
* HW3: the functions on strings, `perror`, `fork`, and what is left out above.
* HW4: the parser of commands (any command may come at any prompt, which covers
  every parse), the ELF reader (its result is `Entry` and `End`), capstone.
* `src/HW*/test`, `src/HW4/sample`, `src/HW3/start.asm`: programs to try the others on.

## Plan

Done, in this order: `Ptrace`, `Debugger`, its runs, `DebuggerInv` and the proofs of
safety and text; `NativeRun` and the refinement; `StepCount` and its proof;
`Procfs`, `ProcScan` and the proofs of all its properties; `SigSet`,
`Signals`, `MiniLib`, `JumpMask` and the proofs about jumps, the mask and `errno`;
`NativeCalls`, `Logger` and the proofs of its safety and of the refinement;
moved programs in the refinement of the debugger, what jumps leave blocked, places
that stay in processes that change, and the measure behind `StepReturns`.

Left: what "What is not modelled" lists of HW1 to HW4 and could be state, which is
little: the limit on open descriptors, at which the scan would begin to drop
processes, and `errno` behind a logged call.
