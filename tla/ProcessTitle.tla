---------------------------- MODULE ProcessTitle ----------------------------
(*************************************************************************)
(* What becomes of the words of argv after main() has read them: the     *)
(* socket paths, the path of the application, and SetProcessTitle of     *)
(* src/src/bladepsgi.cpp, which writes over the memory of argv.          *)
(*                                                                       *)
(* The kernel puts the words and then the environment one behind the     *)
(* other; getopt_long() has since moved the pointers to the operands     *)
(* behind those to the options.  A byte is represented by its kind.      *)
(*************************************************************************)
EXTENDS CommandLine, FiniteSets, FiniteSetsExt

CONSTANTS
    ProgramLen, \* the length of argv[0]
    Titles      \* lengths of the titles

\* A word is a sequence of characters and has a length.
ASSUME TitleAssumption ==
    {ProgramLen} \cup Titles \subseteq Nat /\ \A w \in Words : Len(w) \in Nat

VARIABLES
    environ,    \* environ[0] is where the kernel put it
    written,    \* the bytes of argv and the environment that were written to
    pc,         \* how far Run() is: "sockets", "load", "title" or "titled"
    title,      \* the length of full_title
    ended       \* no read of a word has run on into the environment

vars == <<parsed, environ, written, pc, title, ended>>

Init ==
    /\ CommandLineInit
    /\ environ = TRUE
    /\ written = <<>>
    /\ pc = "sockets" /\ title = 0 /\ ended = TRUE

Parses ==
    /\ ParsesArguments
    /\ UNCHANGED <<environ, written, pc, title, ended>>

\* The words in the order of memory, 0 the program's name: where each starts, and its NUL.
Length(k) == IF k = 0 THEN ProgramLen ELSE Len(argv[k])
Start[k \in 0..Len(argv)] == IF k = 0 THEN 0 ELSE Start[k - 1] + Length(k - 1) + 1
EndOf(k) == Start[k] + Length(k)
EnvStart == EndOf(Len(argv)) + 1

\* argv_ as getopt_long() left it: the program, the options, the operands.
argv_ == <<0>> \o Ascending(DOMAIN argv \ Range(operands), Len(argv)) \o operands
argc == Len(argv_)

IsNul(a) == IF a \in DOMAIN written THEN written[a] = "NUL" ELSE \E k \in 0..Len(argv) : a = EndOf(k)

\* A pointer into argv is read up to the first NUL behind it.
ReadsWords(W) ==
    ended' = (ended /\ \A k \in W : \E a \in Start[k]..(EnvStart - 1) : IsNul(a))

\* InitializeMainFastCGISocket(argv[argc - 2]), InitializeStatsSocket(argv[argc - 1])
InitializeSockets ==
    /\ state = "Run" /\ pc = "sockets" /\ pc' = "load"
    /\ ReadsWords({argv_[argc - 1], argv_[argc]})
    /\ UNCHANGED <<parsed, environ, written, title>>

\* The loader calls psgi_application_path(): argv[argc - 4].  Perl may move the
\* environment to memory of its own.
LoadApplication ==
    /\ pc = "load" /\ pc' = "title"
    /\ ReadsWords({argv_[argc - 3]})
    /\ environ' \in BOOLEAN
    /\ UNCHANGED <<parsed, written, title>>

\* The loop: the last word that follows the ones before it in memory.
LastInRow == Max({i \in 1..argc : \A j \in 2..i : Start[argv_[j]] = EndOf(argv_[j - 1]) + 1})

end == EndOf(argv_[LastInRow])

RunsIntoEnviron == environ /\ end + 1 = EnvStart

\* Mutant: the byte at end is counted as room for the title.
maxlenAndOne == end + 1

\* argv_[0] is at 0.
maxlen == IF RunsIntoEnviron THEN end - 1 ELSE end

\* Mutant: new_title is not resized, so a long title has no NUL and no other is padded.
WrittenUnpadded(n) ==
    [a \in 0..(IF n < maxlen THEN n ELSE maxlen) - 1 \cup (IF RunsIntoEnviron THEN {end} ELSE {}) |->
        IF a = end THEN "space" ELSE "title"]

\* *end = ' ', and the memcpy of maxlen + 1 bytes padded with NUL.
Written(n) ==
    LET room == maxlen
        space == IF RunsIntoEnviron THEN {end} ELSE {}
    IN  [a \in 0..room \cup space |->
            IF a < n /\ a < room THEN "title" ELSE IF a <= room THEN "NUL" ELSE "space"]

\* The overseer, at the end of start-up, and every child do this once.
SetProcessTitle(n) ==
    /\ pc = "title" /\ pc' = "titled" /\ title' = n
    /\ written' = Written(n)
    /\ UNCHANGED <<parsed, environ, ended>>

\* The application calls psgi_application_path() in a worker or an auxiliary process,
\* which has a title of its own by then.  The values of the options were copied with
\* strdup(); the operands are still those of argv.
psgi_application_path ==
    /\ pc = "titled"
    /\ ReadsWords({argv_[argc - 3]})
    /\ UNCHANGED <<parsed, environ, written, pc, title>>

Next ==
    \/ Parses \/ InitializeSockets \/ LoadApplication \/ psgi_application_path
    \/ \E n \in Titles : SetProcessTitle(n)

Spec == Init /\ [][Next]_vars

---------------------------------------------------------------------------
\* The socket paths and the path of the application are read where argv has them, and the
\* application may ask for its path when the title of its process has gone over it:
\* whatever the lengths, a read always finds a NUL before the environment begins, be it the
\* word's own or that of the title.  (The README calls psgi_application_path() useful in
\* the loader only, which runs before.)
ReadsEndInArgv == ended

\* Whatever the words' lengths and their order, the title ends with a NUL inside the words
\* it may go over and the environment stays as it is.  Where the words up to the
\* environment are in order, the last byte of argv is no NUL, so that the kernel shows
\* the title and nothing else, as the comment in SetProcessTitle has it.
TitleFits ==
    pc = "titled" =>
        LET shown == Cardinality({a \in DOMAIN written : written[a] = "title"})
            last  == EnvStart - 1
        IN /\ \A a \in DOMAIN written : a <= last
           /\ written[shown] = "NUL" /\ (\A a \in 0..(shown - 1) : written[a] = "title")
           /\ environ /\ (\A i \in 1..argc : argv_[i] = i - 1)
                  => /\ last \in DOMAIN written /\ written[last] # "NUL"
                     /\ shown = title \/ shown = last - 1
===========================================================================
