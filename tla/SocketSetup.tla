---------------------------- MODULE SocketSetup ----------------------------
(*************************************************************************)
(* Several instances of BladePSGI that are started on the same two       *)
(* socket paths: InitializeUNIXSocket (src/src/bladepsgi.cpp) for the    *)
(* FastCGI socket and then for the statistics socket, system call by     *)
(* system call.  Nothing removes a socket file when an instance ends.    *)
(*                                                                       *)
(* Calls fail here for the reasons the files give them; failures of the  *)
(* system are in Overseer (SetUpFails).                                  *)
(*************************************************************************)
EXTENDS Naturals

CONSTANTS
    Instances,      \* a restart is an instance of its own
    NoFile, PlainFile, StaleSocket

ASSUME SocketAssumption ==
    /\ NoFile # PlainFile /\ NoFile # StaleSocket /\ PlainFile # StaleSocket
    /\ {NoFile, PlainFile, StaleSocket} \cap Instances = {}

\* 1 is fastcgi_socket_path, 2 is stats_socket_path; they differ.
Paths == {1, 2}

VARIABLES
    file,       \* path -> what is there; a socket is named by the instance that bound it
    pc,         \* instance -> the next call of InitializeUNIXSocket, or how it fares
    sockno,     \* instance -> which of its two sockets it is making
    alone       \* instances with no other in set-up since they started

vars == <<file, pc, sockno, alone>>

SettingUp == {"stat", "unlink", "bind", "listen"}

TypeOK ==
    /\ file \in [Paths -> Instances \cup {NoFile, PlainFile, StaleSocket}]
    /\ pc \in [Instances -> SettingUp \cup {"idle", "up", "failed", "down"}]
    /\ sockno \in [Instances -> Paths]
    /\ alone \in SUBSET Instances

Init ==
    /\ file \in [Paths -> {NoFile, PlainFile, StaleSocket}]
    /\ pc = [p \in Instances |-> "idle"]
    /\ sockno = [p \in Instances |-> 1]
    /\ alone = {}

\* Mutant: the statistics socket gets the path of the FastCGI socket.
SamePath(n) == 1

\* What InitializeMainFastCGISocket and InitializeStatsSocket pass on.
SocketPath(n) == n

Path(p) == SocketPath(sockno[p])

At(p, from) == pc[p] = from
Goes(p, to) == pc' = [pc EXCEPT ![p] = to]

Others(p) == {q \in Instances \ {p} : pc[q] \in SettingUp}

\* InitializeMainFastCGISocket() is called.
Starts(p) ==
    /\ At(p, "idle") /\ Goes(p, "stat")
    /\ alone' = IF Others(p) = {} THEN {p} ELSE {}
    /\ UNCHANGED <<file, sockno>>

\* Mutant: a socket that is there already is left where it is.
StatOverlooksSocket(p) ==
    /\ At(p, "stat")
    /\ \/ file[Path(p)] # PlainFile /\ Goes(p, "bind")
       \/ file[Path(p)] = PlainFile /\ Goes(p, "failed")
    /\ UNCHANGED <<file, sockno, alone>>

\* Mutant: S_ISSOCK is not tested.
StatOverlooksPlainFile(p) ==
    /\ At(p, "stat")
    /\ Goes(p, IF file[Path(p)] = NoFile THEN "bind" ELSE "unlink")
    /\ UNCHANGED <<file, sockno, alone>>

\* stat() fails, finds a socket, or finds something else, which is an error.
Stats(p) ==
    /\ At(p, "stat")
    /\ \/ file[Path(p)] = NoFile /\ Goes(p, "bind")
       \/ file[Path(p)] = PlainFile /\ Goes(p, "failed")
       \/ file[Path(p)] \notin {NoFile, PlainFile} /\ Goes(p, "unlink")
    /\ UNCHANGED <<file, sockno, alone>>

\* unlink() removes what is there by now; a file that is gone is an error.
Unlinks(p) ==
    /\ At(p, "unlink")
    /\ \/ /\ file[Path(p)] # NoFile /\ Goes(p, "bind")
          /\ file' = [file EXCEPT ![Path(p)] = NoFile]
       \/ /\ file[Path(p)] = NoFile /\ Goes(p, "failed")
          /\ UNCHANGED file
    /\ UNCHANGED <<sockno, alone>>

\* bind() makes the file, or fails with EADDRINUSE.
Binds(p) ==
    /\ At(p, "bind")
    /\ \/ /\ file[Path(p)] = NoFile /\ Goes(p, "listen")
          /\ file' = [file EXCEPT ![Path(p)] = p]
       \/ /\ file[Path(p)] # NoFile /\ Goes(p, "failed")
          /\ UNCHANGED file
    /\ UNCHANGED <<sockno, alone>>

\* listen(); InitializeStatsSocket() follows InitializeMainFastCGISocket().
Listens(p) ==
    /\ At(p, "listen")
    /\ \/ /\ sockno[p] = 1 /\ sockno' = [sockno EXCEPT ![p] = 2]
          /\ Goes(p, "stat")
       \/ /\ sockno[p] = 2 /\ UNCHANGED sockno
          /\ Goes(p, "up")
    /\ UNCHANGED <<file, alone>>

\* An instance ends, or is killed in the middle of its set-up.
Ends(p) ==
    /\ pc[p] \in SettingUp \cup {"up"}
    /\ Goes(p, "down")
    /\ UNCHANGED <<file, sockno, alone>>

Next ==
    \E p \in Instances :
        Starts(p) \/ Stats(p) \/ Unlinks(p) \/ Binds(p) \/ Listens(p) \/ Ends(p)

Spec == Init /\ [][Next]_vars

\* No instance removes or replaces a file that is not a socket.
PlainFilesKept ==
    [][\A k \in Paths : file[k] = PlainFile => file'[k] = PlainFile]_vars

NoPlainFiles == \A k \in Paths : file[k] # PlainFile

\* An instance whose set-up no other overlaps comes up whatever sockets earlier ones left
\* behind, also in the middle of their own set-up, and both paths lead to it.
RestartSucceeds ==
    \A p \in alone :
        /\ pc[p] = "up" => \A k \in Paths : file[k] = p
        /\ NoPlainFiles => pc[p] # "failed"

\* Instances that start at the same time do not all fail: the calls of one fail only
\* because another is ahead of it.
SomeoneStarts ==
    NoPlainFiles /\ (\E p \in Instances : pc[p] = "failed")
        => \E q \in Instances : pc[q] \notin {"idle", "failed"}
===========================================================================
