-------------------------- MODULE SocketSetupProofs --------------------------
(*************************************************************************)
(* Proofs about SocketSetup, for any number of instances.                *)
(*************************************************************************)
EXTENDS SocketSetup, TLAPS

\* The first socket is made first, and nobody is about to unlink anything but a socket.
UnlinkInv ==
    \A p \in Instances : /\ At(p, "idle") => sockno[p] = 1
                         /\ At(p, "unlink") => file[Path(p)] # PlainFile

\* What holds step by step for an instance that no other overlaps: what stat() found is
\* still there, and the sockets it has made are where it made them.
AloneInv ==
    \A p \in alone :
        /\ Others(p) = {}
        /\ At(p, "unlink") => file[Path(p)] # NoFile
        /\ At(p, "bind") => file[Path(p)] = NoFile
        /\ At(p, "listen") => file[Path(p)] = p
        /\ At(p, "up") => sockno[p] = 2 /\ file[2] = p
        /\ pc[p] \in SettingUp \cup {"up"} /\ sockno[p] = 2 => file[1] = p
        /\ At(p, "failed") => ~NoPlainFiles

\* The next call of q does not fail for what another instance has done.
Ahead(q) ==
    /\ pc[q] \notin {"idle", "failed"}
    /\ At(q, "unlink") => file[Path(q)] # NoFile
    /\ At(q, "bind") => file[Path(q)] = NoFile

\* Of the instances that have started, one is ahead.
AheadInv ==
    NoPlainFiles /\ (\E p \in Instances : pc[p] # "idle") => \E q \in Instances : Ahead(q)

IInv == TypeOK /\ UnlinkInv /\ AloneInv /\ AheadInv

LEMMA TypeInit == Init => TypeOK
  BY DEF Init, TypeOK, Paths

LEMMA TypeNext == TypeOK /\ [Next]_vars => TypeOK'
<1> SUFFICES ASSUME TypeOK, [Next]_vars PROVE TypeOK'
  OBVIOUS
<1> USE DEF TypeOK, Paths, SettingUp, At, Goes, Path, SocketPath
<1>1. ASSUME NEW p \in Instances, Starts(p) PROVE TypeOK'
  BY <1>1 DEF Starts
<1>2. ASSUME NEW p \in Instances, Stats(p) PROVE TypeOK'
  BY <1>2 DEF Stats
<1>3. ASSUME NEW p \in Instances, Unlinks(p) PROVE TypeOK'
  BY <1>3 DEF Unlinks
<1>4. ASSUME NEW p \in Instances, Binds(p) PROVE TypeOK'
  BY <1>4 DEF Binds
<1>5. ASSUME NEW p \in Instances, Listens(p) PROVE TypeOK'
  BY <1>5 DEF Listens
<1>6. ASSUME NEW p \in Instances, Ends(p) PROVE TypeOK'
  BY <1>6 DEF Ends
<1>7. CASE UNCHANGED vars
  BY <1>7 DEF vars
<1> QED
  BY <1>1, <1>2, <1>3, <1>4, <1>5, <1>6, <1>7 DEF Next

LEMMA IInit == Init => IInv
  BY TypeInit, SocketAssumption
  DEF Init, IInv, UnlinkInv, AloneInv, AheadInv, At, Path, SocketPath, Paths

LEMMA UnlinkNext == TypeOK /\ UnlinkInv /\ [Next]_vars => UnlinkInv'
<1> SUFFICES ASSUME TypeOK, UnlinkInv, [Next]_vars PROVE UnlinkInv'
  OBVIOUS
<1> USE SocketAssumption DEF TypeOK, UnlinkInv, Paths, At, Goes, Path, SocketPath
<1>1. ASSUME NEW p \in Instances, Starts(p) PROVE UnlinkInv'
  BY <1>1 DEF Starts
<1>2. ASSUME NEW p \in Instances, Stats(p) PROVE UnlinkInv'
  BY <1>2 DEF Stats
<1>3. ASSUME NEW p \in Instances, Unlinks(p) PROVE UnlinkInv'
  BY <1>3 DEF Unlinks
<1>4. ASSUME NEW p \in Instances, Binds(p) PROVE UnlinkInv'
  BY <1>4 DEF Binds
<1>5. ASSUME NEW p \in Instances, Listens(p) PROVE UnlinkInv'
  BY <1>5 DEF Listens
<1>6. ASSUME NEW p \in Instances, Ends(p) PROVE UnlinkInv'
  BY <1>6 DEF Ends
<1>7. CASE UNCHANGED vars
  BY <1>7 DEF vars
<1> QED
  BY <1>1, <1>2, <1>3, <1>4, <1>5, <1>6, <1>7 DEF Next

LEMMA AloneNext == TypeOK /\ UnlinkInv /\ AloneInv /\ [Next]_vars => AloneInv'
<1> SUFFICES ASSUME TypeOK, UnlinkInv, AloneInv, [Next]_vars PROVE AloneInv'
  OBVIOUS
<1> USE SocketAssumption
    DEF TypeOK, UnlinkInv, AloneInv, Paths, SettingUp, Others, NoPlainFiles, At, Goes, Path, SocketPath
<1>1. ASSUME NEW p \in Instances, Starts(p) PROVE AloneInv'
  BY <1>1 DEF Starts
<1>2. ASSUME NEW p \in Instances, Stats(p) PROVE AloneInv'
  BY <1>2 DEF Stats
<1>3. ASSUME NEW p \in Instances, Unlinks(p) PROVE AloneInv'
  BY <1>3 DEF Unlinks
<1>4. ASSUME NEW p \in Instances, Binds(p) PROVE AloneInv'
  BY <1>4 DEF Binds
<1>5. ASSUME NEW p \in Instances, Listens(p) PROVE AloneInv'
  BY <1>5 DEF Listens
<1>6. ASSUME NEW p \in Instances, Ends(p) PROVE AloneInv'
  BY <1>6 DEF Ends
<1>7. CASE UNCHANGED vars
  BY <1>7 DEF vars
<1> QED
  BY <1>1, <1>2, <1>3, <1>4, <1>5, <1>6, <1>7 DEF Next

LEMMA AheadNext == TypeOK /\ UnlinkInv /\ AheadInv /\ [Next]_vars => AheadInv'
<1> SUFFICES ASSUME TypeOK, UnlinkInv, AheadInv, [Next]_vars, NoPlainFiles',
                    NEW r \in Instances, pc'[r] # "idle"
             PROVE \E q \in Instances : Ahead(q)'
  BY DEF AheadInv
<1> USE SocketAssumption
    DEF TypeOK, UnlinkInv, AheadInv, Ahead, Paths, SettingUp, NoPlainFiles, At, Goes, Path, SocketPath
<1>1. ASSUME NEW p \in Instances, Starts(p) PROVE Ahead(p)'
  BY <1>1 DEF Starts
<1>2. CASE UNCHANGED vars
  BY <1>2 DEF vars
<1>3. ASSUME NEW p \in Instances, Stats(p) \/ Unlinks(p) \/ Binds(p) \/ Listens(p) \/ Ends(p)
      PROVE \E q \in Instances : Ahead(q)'
  <2>1. NoPlainFiles /\ pc[p] # "idle"
    BY <1>3 DEF Stats, Unlinks, Binds, Listens, Ends
  <2>2. PICK q \in Instances : Ahead(q)
    BY <2>1
  <2>3. CASE Stats(p)
    BY <2>1, <2>2, <2>3 DEF Stats
  <2>4. CASE Unlinks(p)
    \* whoever has just unlinked may bind; nobody ahead of an instance that cannot unlink moves
    <3>1. CASE file[Path(p)] # NoFile
      BY <2>4, <3>1 DEF Unlinks
    <3>2. CASE file[Path(p)] = NoFile
      BY <2>2, <2>4, <3>2 DEF Unlinks
    <3> QED
      BY <3>1, <3>2
  <2>5. CASE Binds(p)
    <3>1. CASE file[Path(p)] = NoFile
      BY <2>5, <3>1 DEF Binds
    <3>2. CASE file[Path(p)] # NoFile
      BY <2>2, <2>5, <3>2 DEF Binds
    <3> QED
      BY <3>1, <3>2
  <2>6. CASE Listens(p)
    BY <2>6 DEF Listens
  <2>7. CASE Ends(p)
    BY <2>7 DEF Ends
  <2> QED
    BY <1>3, <2>3, <2>4, <2>5, <2>6, <2>7
<1> QED
  BY <1>1, <1>2, <1>3 DEF Next

LEMMA Invariance == Spec => []IInv
<1>1. IInv /\ [Next]_vars => IInv'
  BY TypeNext, UnlinkNext, AloneNext, AheadNext DEF IInv
<1> QED
  BY IInit, <1>1, PTL DEF Spec

\* A restart after any end of the instance before it comes up and owns both paths.
THEOREM Restart == Spec => []RestartSucceeds
<1>1. IInv => RestartSucceeds
  BY DEF IInv, TypeOK, AloneInv, RestartSucceeds, At, Paths, SettingUp
<1> QED
  BY Invariance, <1>1, PTL

\* Of any number of instances that race for the paths, not all fail.
THEOREM NotAllFail == Spec => []SomeoneStarts
<1>1. IInv => SomeoneStarts
  BY DEF IInv, AheadInv, Ahead, SomeoneStarts
<1> QED
  BY Invariance, <1>1, PTL

\* No instance ever removes a file that is not a socket.
THEOREM PlainFiles == Spec => PlainFilesKept
<1>1. IInv /\ [Next]_vars => [\A k \in Paths : file[k] = PlainFile => file'[k] = PlainFile]_vars
  <2> SUFFICES ASSUME IInv, NEW p \in Instances, NEW k \in Paths, file[k] = PlainFile,
                      Starts(p) \/ Stats(p) \/ Unlinks(p) \/ Binds(p) \/ Listens(p) \/ Ends(p)
               PROVE file'[k] = PlainFile
    BY DEF Next
  <2> QED
    BY SocketAssumption DEF IInv, TypeOK, UnlinkInv, At, Path, SocketPath, Paths,
       Starts, Stats, Unlinks, Binds, Listens, Ends
<1> QED
  BY Invariance, <1>1, PTL DEF Spec, PlainFilesKept
===========================================================================
