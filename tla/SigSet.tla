------------------------------- MODULE SigSet -------------------------------
(***************************************************************************)
(* sigset_t of libmini: one word, a set of bit numbers.  Bit sig - 1 is    *)
(* signal sig for the kernel, which has the signals 1 to NSIG; the         *)
(* functions of the library refuse NSIG itself and leave the set alone.    *)
(***************************************************************************)
EXTENDS Integers

CONSTANT NSIG

ASSUME SigSetAssumption == NSIG \in Nat \ {0}

Signals == 1..NSIG

\* The argument check they all make.
InRange(sig) == sig >= 1 /\ sig < NSIG

\* The bit sigaddset sets and sigismember looks at; a bug would be 1UL << sig.
Bit_Shifted(sig) == sig

Bit(sig) == sig - 1

sigemptyset == {}

sigfillset == 0..NSIG - 1

sigaddset(set, sig) == IF InRange(sig) THEN set \cup {Bit(sig)} ELSE set

\* A bug would be to forget the ~.
sigdelset_And(set, sig) == IF InRange(sig) THEN set \cap {Bit(sig)} ELSE set

sigdelset(set, sig) == IF InRange(sig) THEN set \ {Bit(sig)} ELSE set

\* The signals the kernel reads in a word.
InKernel(set) == {s \in Signals : s - 1 \in set}
=============================================================================
