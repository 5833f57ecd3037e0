---------------------------- MODULE CommandLine ----------------------------
(*************************************************************************)
(* The command line: main() of src/src/bladepsgi.cpp from argv to the    *)
(* arguments of BPSGIMainApplication.                                    *)
(*                                                                       *)
(* A word of argv is represented by what main() and getopt_long() tell   *)
(* apart: "--help" (also -?), "-h", "--version" (also -v), "-l" (also    *)
(* --loader, with its value in the next word), "-x" (no option of ours), *)
(* "--", and as operands "path", "4" (a number of workers), "0" (one out *)
(* of range) and "4x" (no number).  -p is parsed as -l is.               *)
(*************************************************************************)
EXTENDS Naturals, Sequences, SequencesExt

CONSTANTS
    Words,      \* the words used
    MaxArgc     \* bound on the words after argv[0]

ASSUME CommandLineAssumption ==
    /\ Words \subseteq {"--help", "-h", "--version", "-l", "-x", "--", "path", "4", "0", "4x"}
    /\ MaxArgc \in Nat

VARIABLES
    argv,       \* argv[1] and what follows, as given
    optind,     \* the next word for getopt_long() to look at
    operands,   \* places of the words it has moved behind the options
    loader,     \* opt_application_loader
    state       \* "start", "getopt", "operands", or how main() goes on

parsed == <<argv, optind, operands, loader, state>>

CommandLineInit ==
    /\ argv \in BoundedSeq(Words, MaxArgc)
    /\ optind = 1 /\ operands = <<>>
    /\ loader = "NULL"
    /\ state = "start"

More == optind <= Len(argv)
Word == argv[optind]
Options == {"--help", "-h", "--version", "-l", "-x"}

\* The members of S up to n, in ascending order.
Ascending(S, n) ==
    LET A[k \in 0..n] == IF k = 0 THEN <<>> ELSE IF k \in S THEN Append(A[k - 1], k) ELSE A[k - 1]
    IN  A[n]

Finishes(from, to) == state = from /\ state' = to /\ UNCHANGED <<argv, operands, loader>>

\* The comparisons with argv[1].
Shortcut ==
    /\ UNCHANGED optind
    /\ \/ More /\ Word \in {"--help", "-h"} /\ Finishes("start", "usage, exit(0)")
       \/ More /\ Word = "--version" /\ Finishes("start", "version, exit(0)")
       \/ ~(More /\ Word \in {"--help", "-h", "--version"}) /\ Finishes("start", "getopt")

\* getopt_long() passes over an operand: it will be behind the options.
GetoptSkips ==
    /\ state = "getopt" /\ More /\ Word \notin Options \cup {"--"}
    /\ operands' = Append(operands, optind) /\ optind' = optind + 1
    /\ UNCHANGED <<argv, loader, state>>

\* 'l': what follows is the value, whatever it looks like.
GetoptLoader ==
    /\ state = "getopt" /\ More /\ Word = "-l" /\ optind < Len(argv)
    /\ loader' = argv[optind + 1] /\ optind' = optind + 2
    /\ UNCHANGED <<argv, operands, state>>

\* '?': --help, but also what getopt_long() returns for an option that it does not know
\* and for one without its value.
GetoptQuestionMark ==
    /\ More
    /\ Word \in {"--help", "-x"} \/ (Word = "-l" /\ optind = Len(argv))
    /\ optind' = optind + 1
    /\ Finishes("getopt", "usage, exit(0)")

\* 'h' and 'v' have no case of their own.
GetoptDefault ==
    /\ More /\ Word \in {"-h", "--version"}
    /\ optind' = optind + 1
    /\ Finishes("getopt", "try --help, exit(1)")

\* -1: all words have been looked at, or "--" makes operands of the rest.
GetoptEnds ==
    /\ state = "getopt" /\ (More => Word = "--")
    /\ operands' = operands \o [k \in 1..(Len(argv) - optind) |-> optind + k]
    /\ optind' = Len(argv) + 1
    /\ state' = "operands"
    /\ UNCHANGED <<argv, loader>>

\* Mutant: more operands than four pass.
FewerThanFour == Len(operands) < 4

\* optind != argc - 4
NotFourOperands == Len(operands) # 4

\* argv[argc - 3]
nworkers_str == argv[operands[Len(operands) - 2]]

\* strtol() and the two tests of its result.
ChecksOperands ==
    /\ UNCHANGED optind
    /\ \/ NotFourOperands /\ Finishes("operands", "usage, exit(1)")
       \/ /\ ~NotFourOperands /\ nworkers_str \notin {"4", "0"}
          /\ Finishes("operands", "not an integer, exit(1)")
       \/ /\ ~NotFourOperands /\ nworkers_str = "0"
          /\ Finishes("operands", "out of range, exit(1)")
       \/ ~NotFourOperands /\ nworkers_str = "4" /\ Finishes("operands", "Run")

ParsesArguments ==
    \/ Shortcut \/ GetoptSkips \/ GetoptLoader \/ GetoptQuestionMark
    \/ GetoptDefault \/ GetoptEnds \/ ChecksOperands

---------------------------------------------------------------------------
\* What each word is, by the conventions of getopt_long().
Reading[k \in DOMAIN argv] ==
    CASE k > 1 /\ Reading[k - 1] \in {"end", "rest"} -> "rest"
      [] k > 1 /\ Reading[k - 1] = "option" /\ argv[k - 1] = "-l" -> "value"
      [] OTHER -> IF argv[k] = "--" THEN "end"
                  ELSE IF argv[k] \in Options THEN "option" ELSE "operand"

\* The operands that were given.
Given == {k \in DOMAIN argv : Reading[k] \in {"operand", "rest"}}

\* The values of -l among the first n words, and the one that counts.
Values(n) == {k \in 1..n : Reading[k] = "value"}
LastValue(n) == IF Values(n) = {} THEN "NULL" ELSE argv[Max(Values(n))]

\* main() starts the application exactly for the command lines of the usage text, with
\* the options anywhere among the operands: no option but -l, each -l with its value, and
\* four operands of which the second is a number of workers in range.  The application
\* gets the operands in the order in which they were given, and the last loader.
StartsAsAsked ==
    LET given == Ascending(Given, Len(argv))
    IN state \notin {"start", "getopt", "operands"} =>
        /\ state = "Run" <=>
               /\ Len(given) = 4 /\ argv[given[2]] = "4"
               /\ \A k \in DOMAIN argv : Reading[k] = "option" => argv[k] = "-l" /\ k < Len(argv)
        /\ state = "Run" =>
               operands = given /\ loader = LastValue(Len(argv))
===========================================================================
