---------------------------- MODULE CatalogProofs ----------------------------
(***************************************************************************)
(* Proofs about Catalog, for any task directories with any contents, any   *)
(* number of browsers, and any number of edits, reloads and failed scans.  *)
(***************************************************************************)
EXTENDS Catalog, TLAPS

------------------------------------------------------------------------------
(* The inductive invariant. *)

Pcs == {"idle", "waiting", "check", "list", "read", "sync", "publish", "ok", "failed"}

\* A scan that has listed the directory and is not published yet.
Drafting == {"read", "sync", "publish"}

ScanState == [pc : Pcs, todo : SUBSET Dirs, draft : Snapshots]

\* Each edit makes one directory one stamp newer.
Stamped == \A d \in Dirs : disk[d].stamp <= edits + 1

\* The mutex.
OneScan == \A p, q \in Callers : p # q => Resting(p) \/ Resting(q)

\* The goroutine is started by main, after the first scan.
Started == watcher = "off" => scan[Poller].pc = "idle"

\* What is read is younger than what is published, and no younger than the disk.
Younger ==
  /\ \A d \in Dirs : snap.seen[d] <= disk[d].stamp
  /\ \A p \in Callers : scan[p].pc \in Drafting =>
       \A d \in Dirs : /\ snap.seen[d] <= scan[p].draft.seen[d]
                       /\ scan[p].draft.seen[d] <= disk[d].stamp

\* A reload never stops at the fingerprint, so it reads what was there when it
\* was asked for.
Answered(c) ==
  /\ scan[c].pc # "check"
  /\ \A d \in Dirs :
       /\ since[c][d] <= disk[d].stamp
       /\ scan[c].pc \in Drafting => since[c][d] <= scan[c].draft.seen[d]
       /\ scan[c].pc = "ok" => since[c][d] <= snap.seen[d]

Live(d) == IF mirror[d].known /\ ~mirror[d].deleted THEN mirror[d].hash ELSE Absent

\* The table is the catalog's, or already that of the scan to be published.
Mirrored ==
  /\ \A p \in Callers : scan[p].pc = "publish" => \A d \in Dirs : scan[p].draft.tasks[d] = Live(d)
  /\ (\A p \in Callers : scan[p].pc # "publish") => \A d \in Dirs : snap.tasks[d] = Live(d)

Sound == OneScan /\ Started /\ Younger /\ (\A c \in Clients : Answered(c)) /\ Mirrored

IInv == TypeOK /\ Stamped /\ Sound

------------------------------------------------------------------------------
(* The state of a scan. *)

\* A scan with another position is otherwise the same.
LEMMA SetPc ==
  ASSUME NEW s \in ScanState, NEW x \in Pcs
  PROVE  LET g == [s EXCEPT !.pc = x]
         IN  g \in ScanState /\ g.pc = x /\ g.todo = s.todo /\ g.draft = s.draft
BY DEF ScanState

\* The empty snapshot, and a scan at rest.
LEMMA EmptyType ==
  /\ EmptySnapshot \in Snapshots
  /\ AtRest \in ScanState /\ AtRest.pc = "idle"
  /\ EmptySnapshot.seen = [d \in Dirs |-> 0] /\ EmptySnapshot.tasks = [d \in Dirs |-> Absent]
<1>1. 0 \in 0 .. MaxEdits + 1
  BY CatalogAssumption
<1>2. NoPrint \in SUBSET ((Dirs \cup {0}) \X (0 .. MaxEdits + 1))
  BY <1>1 DEF NoPrint
<1>3. EmptySnapshot \in Snapshots
  BY <1>1, <1>2 DEF EmptySnapshot, Snapshots
<1> QED BY <1>3 DEF EmptySnapshot, AtRest, ScanState, Pcs

\* The scans, by the name of their type.
LEMMA ScanType == ASSUME TypeOK PROVE scan \in [Callers -> ScanState]
BY DEF TypeOK, ScanState, Pcs

\* What the directories look like from outside.
LEMMA StampsType ==
  ASSUME TypeOK
  PROVE  /\ Stamps \in [Dirs -> 0 .. MaxEdits + 1]
         /\ Fingerprint \in SUBSET ((Dirs \cup {0}) \X (0 .. MaxEdits + 1))
         /\ \A d \in Dirs : Stamps[d] = disk[d].stamp
<1>1. \A d \in Dirs : disk[d].stamp \in 1 .. MaxEdits + 1
  BY DEF TypeOK
<1>2. \A d \in Dirs : disk[d].stamp \in 0 .. MaxEdits + 1
  BY <1>1, CatalogAssumption
<1> QED BY <1>2 DEF Stamps, Fingerprint

\* An edit makes one directory one stamp newer.
LEMMA TouchAges ==
  ASSUME TypeOK, NEW d \in Dirs, Touch(d)
  PROVE  /\ \A e \in Dirs : disk[e].stamp \in Nat /\ disk'[e].stamp \in Nat
                            /\ disk[e].stamp <= disk'[e].stamp
         /\ Stamped =>
              /\ disk' \in [Dirs -> [body : Bodies \cup {Broken, Absent}, stamp : 1 .. MaxEdits + 1]]
              /\ edits' \in 0 .. MaxEdits
              /\ \A e \in Dirs : disk'[e].stamp <= edits' + 1
<1>1. PICK body \in Bodies \cup {Broken, Absent} :
        disk' = [disk EXCEPT ![d] = [body |-> body, stamp |-> disk[d].stamp + 1]]
  BY DEF Touch
<1>2. edits' = edits + 1 /\ edits < MaxEdits
  BY DEF Touch
<1>3. /\ edits \in Nat /\ MaxEdits \in Nat
      /\ \A e \in Dirs : disk[e].stamp \in 1 .. MaxEdits + 1
      /\ disk \in [Dirs -> [body : Bodies \cup {Broken, Absent}, stamp : 1 .. MaxEdits + 1]]
  BY CatalogAssumption DEF TypeOK
<1>4. disk'[d].stamp = disk[d].stamp + 1 /\ \A e \in Dirs \ {d} : disk'[e] = disk[e]
  BY <1>1, <1>3
<1>5. \A e \in Dirs : disk[e].stamp \in Nat /\ disk'[e].stamp \in Nat
                     /\ disk[e].stamp <= disk'[e].stamp
  BY <1>3, <1>4
<1>6. ASSUME Stamped
      PROVE  /\ disk' \in [Dirs -> [body : Bodies \cup {Broken, Absent}, stamp : 1 .. MaxEdits + 1]]
             /\ edits' \in 0 .. MaxEdits
             /\ \A e \in Dirs : disk'[e].stamp <= edits' + 1
  <2>1. \A e \in Dirs : disk[e].stamp <= edits + 1
    BY <1>6 DEF Stamped
  <2>2. disk[d].stamp + 1 \in 1 .. MaxEdits + 1
    BY <1>2, <1>3, <2>1
  <2>3. disk' \in [Dirs -> [body : Bodies \cup {Broken, Absent}, stamp : 1 .. MaxEdits + 1]]
    BY <1>1, <1>3, <2>2
  <2>4. edits' \in 0 .. MaxEdits
    BY <1>2, <1>3
  <2> QED BY <1>2, <1>3, <1>4, <2>1, <2>3, <2>4
<1> QED BY <1>5, <1>6

\* A walk of the tree returns a fingerprint, and leaves the disk alone or finds it edited.
LEMMA WalkStep ==
  ASSUME TypeOK, NEW fprint, Walk(fprint)
  PROVE  /\ fprint \in SUBSET ((Dirs \cup {0}) \X (0 .. MaxEdits + 1))
         /\ UNCHANGED <<disk, edits>> \/ \E d \in Dirs : Touch(d)
<1>1. Fingerprint \in SUBSET ((Dirs \cup {0}) \X (0 .. MaxEdits + 1))
  BY StampsType
<1>2. NoPrint \in SUBSET ((Dirs \cup {0}) \X (0 .. MaxEdits + 1))
  BY CatalogAssumption DEF NoPrint
<1> QED BY <1>1, <1>2 DEF Walk, world

\* A step of one scan that does not touch what is published; an edit may come with it.
LEMMA ScanMoves ==
  ASSUME Sound, TypeOK, NEW p \in Callers, NEW g \in ScanState,
         scan' = [scan EXCEPT ![p] = g],
         UNCHANGED <<since, snap, mirror>>, UNCHANGED <<disk, edits>> \/ \E d \in Dirs : Touch(d),
         watcher' = "off" => watcher = "off" /\ (p = Poller => g.pc = "idle"),
         g.pc \in {"idle", "waiting", "ok", "failed"} \/ ~Resting(p)
           \/ \A q \in Callers : Resting(q),
         g.pc \in Drafting => \A d \in Dirs : /\ snap.seen[d] <= g.draft.seen[d]
                                              /\ g.draft.seen[d] <= disk[d].stamp,
         p \in Clients => /\ g.pc # "check"
                          /\ \A d \in Dirs : /\ g.pc \in Drafting => since[p][d] <= g.draft.seen[d]
                                             /\ g.pc = "ok" => since[p][d] <= snap.seen[d],
         g.pc # "publish", scan[p].pc # "publish"
  PROVE  Sound'
<1>1. scan \in [Callers -> ScanState]
  BY ScanType
<1>2. scan'[p] = g /\ \A q \in Callers \ {p} : scan'[q] = scan[q]
  BY <1>1
<1>3. OneScan'
  <2> SUFFICES ASSUME NEW a \in Callers, NEW b \in Callers, a # b
               PROVE  Resting(a)' \/ Resting(b)'
    BY DEF OneScan
  <2>1. Resting(a) \/ Resting(b)
    BY DEF Sound, OneScan
  <2>2. \A q \in Callers \ {p} : Resting(q)' <=> Resting(q)
    BY <1>2 DEF Resting
  <2>3. g.pc \in {"idle", "waiting", "ok", "failed"} => Resting(p)'
    BY <1>2 DEF Resting
  <2> QED BY <2>1, <2>2, <2>3 DEF Sound, OneScan
<1>4. Started'
  <2>1. CASE p = Poller
    BY <1>2, <2>1 DEF Started
  <2>2. CASE p # Poller
    BY <1>2, <2>2 DEF Sound, Started, Callers
  <2> QED BY <2>1, <2>2
<1>5. \A d \in Dirs : disk[d].stamp \in Nat /\ disk'[d].stamp \in Nat
                     /\ disk[d].stamp <= disk'[d].stamp
  <2>1. \A d \in Dirs : disk[d].stamp \in Nat
    BY CatalogAssumption DEF TypeOK
  <2> QED BY <2>1, TouchAges
<1>6. Younger'
  <2>1. \A d \in Dirs : snap.seen[d] \in Nat /\ snap.seen[d] <= disk[d].stamp
    BY DEF TypeOK, Snapshots, Sound, Younger
  <2>2. \A q \in Callers, d \in Dirs : scan'[q].draft.seen[d] \in Nat
    BY <1>1, <1>2 DEF ScanState, Snapshots
  <2>3. ASSUME NEW q \in Callers, scan'[q].pc \in Drafting, NEW d \in Dirs
        PROVE  /\ snap.seen[d] <= scan'[q].draft.seen[d]
               /\ scan'[q].draft.seen[d] <= disk[d].stamp
    BY <1>2, <2>3 DEF Sound, Younger
  <2> QED BY <1>5, <2>1, <2>2, <2>3 DEF Younger
<1>7. ASSUME NEW c \in Clients
      PROVE  Answered(c)'
  <2>0. \A d \in Dirs : since[c][d] \in Nat /\ since[c][d] <= disk'[d].stamp
    <3>1. \A d \in Dirs : since[c][d] \in Nat /\ since[c][d] <= disk[d].stamp
      BY DEF TypeOK, Sound, Answered
    <3> QED BY <1>5, <3>1
  <2>1. c \in Callers /\ Answered(c)
    BY DEF Callers, Sound
  <2>2. CASE c = p
    BY <1>2, <2>0, <2>1, <2>2 DEF Answered
  <2>3. CASE c # p
    BY <1>2, <2>0, <2>1, <2>3 DEF Answered
  <2> QED BY <2>2, <2>3
<1>8. Mirrored'
  <2>1. \A d \in Dirs : Live(d)' = Live(d)
    BY DEF Live
  <2> QED BY <1>2, <2>1 DEF Sound, Mirrored
<1> QED BY <1>3, <1>4, <1>6, <1>7, <1>8 DEF Sound

\* The invariant holds when the process starts.
LEMMA InitInv == Init => IInv
<1> SUFFICES ASSUME Init PROVE IInv
  OBVIOUS
<1> DEFINE g == [AtRest EXCEPT !.pc = "waiting"]
<1>1. g \in ScanState /\ g.pc = "waiting"
  BY EmptyType, SetPc DEF Pcs
<1> HIDE DEF g
<1>2. scan = [p \in Callers |-> IF p = Startup THEN g ELSE AtRest]
  BY DEF Init, g
<1>3. scan \in [Callers -> ScanState]
  BY <1>1, <1>2, EmptyType
<1>4. \A p \in Callers : scan[p].pc \in {"idle", "waiting"}
  BY <1>1, <1>2, EmptyType
<1>5. 0 \in 0 .. MaxEdits + 1 /\ 1 \in 1 .. MaxEdits + 1
  BY CatalogAssumption
<1>6. \A d \in Dirs : disk[d] \in [body : Bodies \cup {Absent}, stamp : {1}]
  BY DEF Init
<1>7. \A d \in Dirs : disk[d].stamp = 1
  BY <1>6
<1>8. TypeOK
  <2>1. disk \in [Dirs -> [body : Bodies \cup {Broken, Absent}, stamp : 1 .. MaxEdits + 1]]
    BY <1>5 DEF Init
  <2>2. since \in [Clients -> [Dirs -> 0 .. MaxEdits + 1]]
    BY <1>5 DEF Init
  <2>3. snap \in Snapshots
    BY EmptyType DEF Init
  <2>4. mirror \in [Dirs -> Row]
    BY DEF Init, Row, NoRow
  <2>5. edits \in 0 .. MaxEdits /\ reloads \in 0 .. MaxReloads /\ failures \in 0 .. MaxFailures
    BY CatalogAssumption DEF Init
  <2> QED BY <1>3, <2>1, <2>2, <2>3, <2>4, <2>5 DEF Init, TypeOK, ScanState, Pcs
<1>9. Stamped
  BY <1>7 DEF Init, Stamped
<1>10. OneScan
  BY <1>4 DEF OneScan, Resting
<1>11. Started
  <2>1. Poller \in Callers /\ Poller # Startup
    BY DEF Callers, Poller, Startup
  <2>2. scan[Poller] = AtRest
    BY <1>2, <2>1
  <2> QED BY <2>2, EmptyType DEF Started
<1>12. \A d \in Dirs : snap.seen[d] = 0 /\ snap.tasks[d] = Absent
  BY EmptyType DEF Init
<1>13. Younger
  BY <1>4, <1>7, <1>12 DEF Younger, Drafting
<1>14. \A c \in Clients : Answered(c)
  <2>1. \A c \in Clients, d \in Dirs : since[c][d] = 0
    BY DEF Init
  <2>2. \A c \in Clients : scan[c].pc \in {"idle", "waiting"}
    BY <1>4 DEF Callers
  <2> QED BY <1>7, <2>1, <2>2 DEF Answered, Drafting
<1>15. Mirrored
  BY <1>4, <1>12 DEF Mirrored, Live, Init, NoRow
<1> QED BY <1>8, <1>9, <1>10, <1>11, <1>13, <1>14, <1>15 DEF IInv, Sound

------------------------------------------------------------------------------
(* Steps that move one scan. *)

\* Types, when one scan moves.
LEMMA ScanTypes ==
  ASSUME TypeOK, Stamped, NEW p \in Callers, NEW g \in ScanState, scan' = [scan EXCEPT ![p] = g],
         UNCHANGED <<since, snap, mirror>>, UNCHANGED <<disk, edits>> \/ \E d \in Dirs : Touch(d),
         watcher' \in {"off", "first", "polling", "dead"},
         reloads' \in 0 .. MaxReloads, failures' \in 0 .. MaxFailures
  PROVE  TypeOK' /\ Stamped'
<1>1. scan' \in [Callers -> ScanState]
  BY ScanType
<1>2. /\ disk' \in [Dirs -> [body : Bodies \cup {Broken, Absent}, stamp : 1 .. MaxEdits + 1]]
      /\ edits' \in 0 .. MaxEdits
      /\ \A d \in Dirs : disk'[d].stamp <= edits' + 1
  BY TouchAges DEF TypeOK, Stamped
<1>3. TypeOK'
  BY <1>1, <1>2 DEF TypeOK, ScanState, Pcs
<1>4. Stamped'
  BY <1>2 DEF Stamped
<1> QED BY <1>3, <1>4

\* main starts the goroutine, the ticker wakes it.
LEMMA ServeTickStep == ASSUME IInv, Serve \/ Tick PROVE IInv'
<1> DEFINE g == [scan[Poller] EXCEPT !.pc = "waiting"]
<1>1. TypeOK /\ Sound /\ Stamped /\ scan[Poller] \in ScanState /\ Poller \in Callers
  BY ScanType DEF IInv, Callers
<1>2. scan' = [scan EXCEPT ![Poller] = g]
  BY DEF Serve, Tick
<1>3. g \in ScanState /\ g.pc = "waiting"
  <2> DEFINE s == scan[Poller]
  <2>1. s \in ScanState
    BY <1>1
  <2> HIDE DEF s
  <2>2. [s EXCEPT !.pc = "waiting"] \in ScanState /\ [s EXCEPT !.pc = "waiting"].pc = "waiting"
    BY <2>1, SetPc DEF Pcs
  <2> QED BY <2>2 DEF s
<1> HIDE DEF g
<1>4. /\ UNCHANGED <<disk, edits, since, reloads, failures, snap, mirror>>
      /\ watcher' \in {"first", "polling"}
  BY DEF Serve, Tick, world
<1>5. scan[Poller].pc = "idle"
  BY <1>1 DEF Serve, Tick, Sound, Started
<1>6. Poller \notin Clients
  BY CatalogAssumption
<1>7. Sound'
  BY <1>1, <1>2, <1>3, <1>4, <1>5, <1>6, ScanMoves DEF Drafting
<1>8. TypeOK' /\ Stamped'
  BY <1>1, <1>2, <1>3, <1>4, ScanTypes DEF TypeOK
<1> QED BY <1>7, <1>8 DEF IInv

\* Watcher.Run comes back from a poll, and ends if it was its first and it failed.
LEMMA ReturnStep == ASSUME IInv, WatcherReturns PROVE IInv'
<1>1. TypeOK /\ Sound /\ Stamped /\ Poller \in Callers /\ Poller \notin Clients
  BY CatalogAssumption DEF IInv, Callers
<1>2. /\ scan' = [scan EXCEPT ![Poller] = AtRest] /\ AtRest \in ScanState /\ AtRest.pc = "idle"
      /\ UNCHANGED <<disk, edits, since, reloads, failures, snap, mirror>>
      /\ watcher' \in {"dead", "polling"} /\ scan[Poller].pc \in {"ok", "failed"}
  BY EmptyType DEF WatcherReturns, world
<1>3. Sound'
  BY <1>1, <1>2, ScanMoves DEF Drafting
<1>4. TypeOK' /\ Stamped'
  BY <1>1, <1>2, ScanTypes DEF TypeOK
<1> QED BY <1>3, <1>4 DEF IInv

\* A scan gets the mutex, and looks at the fingerprint unless it is forced.
LEMMA LockStep == ASSUME IInv, NEW p \in Callers, Lock(p) PROVE IInv'
<1> DEFINE x == IF Forced(p) THEN "list" ELSE "check"
           g == [scan[p] EXCEPT !.pc = x]
<1>1. TypeOK /\ Sound /\ Stamped /\ scan[p] \in ScanState
  BY ScanType DEF IInv
<1>2. scan' = [scan EXCEPT ![p] = g]
  BY DEF Lock
<1>3. g \in ScanState /\ g.pc = x
  <2> DEFINE s == scan[p]
  <2>1. s \in ScanState /\ x \in Pcs
    BY <1>1 DEF Pcs
  <2> HIDE DEF s, x
  <2>2. [s EXCEPT !.pc = x] \in ScanState /\ [s EXCEPT !.pc = x].pc = x
    BY <2>1, SetPc
  <2> QED BY <2>2 DEF s
<1> HIDE DEF g
<1>4. /\ UNCHANGED <<disk, edits, since, reloads, failures, snap, mirror, watcher>>
      /\ scan[p].pc = "waiting" /\ \A q \in Callers : Resting(q)
  BY DEF Lock, world
<1>5. p \in Clients => g.pc = "list"
  BY <1>3, CatalogAssumption DEF Forced
<1>6. watcher = "off" => p # Poller
  BY <1>1, <1>4 DEF Sound, Started
<1>7. g.pc \in {"list", "check"}
  BY <1>3
<1> HIDE DEF x
<1>8. Sound'
  BY <1>1, <1>2, <1>3, <1>4, <1>5, <1>6, <1>7, ScanMoves DEF Drafting
<1>9. TypeOK' /\ Stamped'
  BY <1>1, <1>2, <1>3, <1>4, ScanTypes DEF TypeOK
<1> QED BY <1>8, <1>9 DEF IInv

\* The steps of the scan that holds the mutex, up to the transaction.
LEMMA ScanningStep ==
  ASSUME IInv, NEW p \in Callers, NEW g \in ScanState,
         scan' = [scan EXCEPT ![p] = g],
         UNCHANGED <<since, reloads, watcher, snap, mirror>>,
         UNCHANGED <<disk, edits>> \/ \E d \in Dirs : Touch(d), failures' \in 0 .. MaxFailures,
         scan[p].pc \in {"check", "list", "read", "sync"},
         g.pc \in {"list", "read", "sync", "failed"} \/ (g.pc = "ok" /\ scan[p].pc = "check"),
         g.pc \in Drafting => \A d \in Dirs :
           \/ g.draft.seen[d] = disk[d].stamp
           \/ scan[p].pc \in Drafting /\ g.draft.seen[d] = scan[p].draft.seen[d]
  PROVE  IInv'
<1>1. TypeOK /\ Sound /\ Stamped
  BY DEF IInv
<1>2. ~Resting(p)
  BY DEF Resting
<1>3. watcher = "off" => p # Poller
  BY <1>1 DEF Sound, Started
<1>4. ASSUME g.pc \in Drafting, NEW d \in Dirs
      PROVE  /\ snap.seen[d] <= g.draft.seen[d] /\ g.draft.seen[d] <= disk[d].stamp
             /\ p \in Clients => since[p][d] <= g.draft.seen[d]
  <2>1. disk[d].stamp \in Nat
    BY <1>1 DEF TypeOK
  <2>2. snap.seen[d] <= disk[d].stamp /\ (p \in Clients => since[p][d] <= disk[d].stamp)
    BY <1>1 DEF Sound, Younger, Answered
  <2>3. CASE g.draft.seen[d] = disk[d].stamp
    BY <2>1, <2>2, <2>3
  <2>4. CASE scan[p].pc \in Drafting /\ g.draft.seen[d] = scan[p].draft.seen[d]
    BY <1>1, <2>4 DEF Sound, Younger, Answered
  <2> QED BY <1>4, <2>3, <2>4
<1>5. p \in Clients => scan[p].pc # "check"
  BY <1>1 DEF Sound, Answered
<1>6. Sound'
  BY <1>1, <1>2, <1>3, <1>4, <1>5, ScanMoves
<1>7. TypeOK' /\ Stamped'
  BY <1>1, ScanTypes DEF TypeOK
<1> QED BY <1>6, <1>7 DEF IInv

\* An unforced scan compares the fingerprints, and may stop there.
LEMMA CheckStep == ASSUME IInv, NEW p \in Callers, Check(p) PROVE IInv'
<1>1. PICK fprint \in {Fingerprint, NoPrint} :
        /\ Walk(fprint)
        /\ scan' = [scan EXCEPT ![p].pc = IF fprint = snap.fprint THEN "ok" ELSE "list"]
  BY DEF Check
<1> DEFINE x == IF fprint = snap.fprint THEN "ok" ELSE "list"
           g == [scan[p] EXCEPT !.pc = x]
<1>2. /\ scan[p] \in ScanState /\ failures \in 0 .. MaxFailures
      /\ UNCHANGED <<disk, edits>> \/ \E d \in Dirs : Touch(d)
  BY <1>1, ScanType, WalkStep DEF IInv, TypeOK
<1>3. scan' = [scan EXCEPT ![p] = g]
  BY <1>1
<1>4. g \in ScanState /\ g.pc = x
  <2> DEFINE s == scan[p]
  <2>1. s \in ScanState /\ x \in Pcs
    BY <1>2 DEF Pcs
  <2> HIDE DEF s, x
  <2>2. [s EXCEPT !.pc = x] \in ScanState /\ [s EXCEPT !.pc = x].pc = x
    BY <2>1, SetPc
  <2> QED BY <2>2 DEF s
<1> HIDE DEF g
<1>5. UNCHANGED <<since, reloads, failures, snap, mirror, watcher>> /\ scan[p].pc = "check"
  BY DEF Check
<1>6. g.pc \in {"ok", "list"}
  BY <1>4
<1> HIDE DEF x
<1> QED BY <1>2, <1>3, <1>4, <1>5, <1>6, ScanningStep DEF Drafting

\* ReadDir: from here on the scan has a draft.
LEMMA ListStep == ASSUME IInv, NEW p \in Callers, ListRoot(p) PROVE IInv'
<1> DEFINE listed == [EmptySnapshot EXCEPT !.seen = Stamps]
           g == [pc |-> "read", todo |-> {d \in Dirs : disk[d].body # Absent}, draft |-> listed]
<1>1. TypeOK /\ failures \in 0 .. MaxFailures
  BY DEF IInv, TypeOK
<1>2. scan' = [scan EXCEPT ![p] = g]
  BY DEF ListRoot
<1>3. listed \in Snapshots /\ listed.seen = Stamps
  BY <1>1, EmptyType, StampsType DEF Snapshots
<1> HIDE DEF listed
<1>4. g \in ScanState /\ g.pc = "read" /\ g.draft = listed
  BY <1>3 DEF ScanState, Pcs
<1> HIDE DEF g
<1>5. /\ UNCHANGED <<disk, edits, since, reloads, failures, snap, mirror, watcher>>
      /\ scan[p].pc = "list"
  BY DEF ListRoot, world
<1>6. \A d \in Dirs : g.draft.seen[d] = disk[d].stamp
  BY <1>1, <1>3, <1>4, StampsType
<1>7. g.pc = "read" /\ failures' \in 0 .. MaxFailures
  BY <1>1, <1>4, <1>5
<1>8. g \in ScanState
  BY <1>4
<1> QED BY <1>2, <1>5, <1>6, <1>7, <1>8, ScanningStep

\* LoadTask reads one directory as it is now.
LEMMA LoadedType ==
  ASSUME TypeOK, NEW draft \in Snapshots, NEW d \in Dirs
  PROVE  /\ LoadTask(draft, d) \in Snapshots
         /\ LoadTask(draft, d).seen[d] = disk[d].stamp
         /\ \A e \in Dirs \ {d} : LoadTask(draft, d).seen[e] = draft.seen[e]
<1>1. disk[d].stamp \in 0 .. MaxEdits + 1
  BY StampsType
<1>2. /\ LoadTask(draft, d).seen = [draft.seen EXCEPT ![d] = disk[d].stamp]
      /\ draft.seen \in [Dirs -> 0 .. MaxEdits + 1]
  BY DEF LoadTask, Snapshots
<1>3. LoadTask(draft, d) \in Snapshots
  BY <1>1 DEF LoadTask, Snapshots
<1> QED BY <1>1, <1>2, <1>3

With(s, todo, draft) == [s EXCEPT !.todo = todo, !.draft = draft]

\* A scan with another draft is otherwise the same.
LEMMA SetTodo ==
  ASSUME NEW s \in ScanState, NEW todo \in SUBSET Dirs, NEW draft \in Snapshots
  PROVE  LET g == With(s, todo, draft)
         IN  g \in ScanState /\ g.pc = s.pc /\ g.todo = todo /\ g.draft = draft
BY DEF ScanState, With

\* One directory of the scan is read.
LEMMA ReadStep == ASSUME IInv, NEW p \in Callers, ReadTask(p) PROVE IInv'
<1>1. /\ TypeOK /\ failures \in 0 .. MaxFailures /\ scan[p] \in ScanState
      /\ scan \in [Callers -> ScanState]
  BY ScanType DEF IInv, TypeOK
<1>2. PICK d \in scan[p].todo :
        scan' = [scan EXCEPT ![p].todo = @ \ {d}, ![p].draft = LoadTask(@, d)]
  BY DEF ReadTask
<1>3. /\ scan[p].todo \in SUBSET Dirs /\ scan[p].draft \in Snapshots /\ d \in Dirs
  BY <1>1, <1>2 DEF ScanState
<1> DEFINE s == scan[p]
           loaded == LoadTask(s.draft, d)
           rest == s.todo \ {d}
           g == With(s, rest, loaded)
<1>4. scan' = [scan EXCEPT ![p] = g]
  BY <1>1, <1>2 DEF With
<1>5. /\ loaded \in Snapshots /\ loaded.seen[d] = disk[d].stamp
      /\ \A e \in Dirs \ {d} : loaded.seen[e] = s.draft.seen[e]
  BY <1>1, <1>3, LoadedType
<1>6. rest \in SUBSET Dirs /\ s \in ScanState
  BY <1>1, <1>3
<1>7. g \in ScanState /\ g.pc = s.pc /\ g.draft = loaded
  <2> HIDE DEF s, loaded, rest
  <2> QED BY <1>5, <1>6, SetTodo
<1> HIDE DEF g, loaded, rest
<1>8. /\ UNCHANGED <<disk, edits, since, reloads, failures, snap, mirror, watcher>>
      /\ scan[p].pc = "read"
  BY DEF ReadTask, world
<1>9. \A e \in Dirs :
        \/ g.draft.seen[e] = disk[e].stamp
        \/ scan[p].pc \in Drafting /\ g.draft.seen[e] = scan[p].draft.seen[e]
  <2> SUFFICES ASSUME NEW e \in Dirs
               PROVE  \/ g.draft.seen[e] = disk[e].stamp
                      \/ scan[p].pc \in Drafting /\ g.draft.seen[e] = scan[p].draft.seen[e]
    OBVIOUS
  <2>1. CASE e = d
    BY <1>5, <1>7, <2>1
  <2>2. CASE e # d
    <3>1. e \in Dirs \ {d} /\ scan[p].pc \in Drafting
      BY <1>8, <2>2 DEF Drafting
    <3> QED BY <1>5, <1>7, <3>1
  <2> QED BY <2>1, <2>2
<1>10. g.pc = "read" /\ failures' \in 0 .. MaxFailures /\ g \in ScanState
  BY <1>1, <1>7, <1>8
<1> HIDE DEF s
<1> QED BY <1>4, <1>8, <1>9, <1>10, ScanningStep

\* The fingerprint is taken after the reading, and reads no directory.
LEMMA FingerprintStep == ASSUME IInv, NEW p \in Callers, TakeFingerprint(p) PROVE IInv'
<1>1. /\ TypeOK /\ failures \in 0 .. MaxFailures /\ scan[p] \in ScanState
      /\ scan \in [Callers -> ScanState]
  BY ScanType DEF IInv, TypeOK
<1>2. PICK fprint \in {Fingerprint, NoPrint} :
        /\ Walk(fprint)
        /\ scan' = [scan EXCEPT ![p].pc = "sync", ![p].draft.fprint = fprint]
  BY DEF TakeFingerprint
<1>3. /\ fprint \in SUBSET ((Dirs \cup {0}) \X (0 .. MaxEdits + 1))
      /\ UNCHANGED <<disk, edits>> \/ \E d \in Dirs : Touch(d)
  BY <1>1, <1>2, WalkStep
<1> DEFINE s == scan[p]
           printed == [s.draft EXCEPT !.fprint = fprint]
           g == [s EXCEPT !.pc = "sync", !.draft = printed]
<1>4. scan' = [scan EXCEPT ![p] = g]
  BY <1>1, <1>2
<1>5. s \in ScanState /\ s.draft \in Snapshots
  BY <1>1 DEF ScanState
<1>6. printed \in Snapshots /\ printed.seen = s.draft.seen
  <2> DEFINE draft == s.draft
  <2>1. draft \in Snapshots
    BY <1>5
  <2> HIDE DEF draft
  <2>2. /\ [draft EXCEPT !.fprint = fprint] \in Snapshots
        /\ [draft EXCEPT !.fprint = fprint].seen = draft.seen
    BY <1>3, <2>1 DEF Snapshots
  <2> QED BY <2>2 DEF draft
<1>7. g \in ScanState /\ g.pc = "sync" /\ g.draft = printed
  <2> HIDE DEF s, printed
  <2> QED BY <1>5, <1>6 DEF ScanState, Pcs
<1> HIDE DEF g, printed
<1>8. UNCHANGED <<since, reloads, failures, snap, mirror, watcher>> /\ scan[p].pc = "read"
  BY DEF TakeFingerprint
<1> QED BY <1>1, <1>3, <1>4, <1>6, <1>7, <1>8, ScanningStep DEF Drafting

\* A scan that fails leaves snapshot and table alone.
LEMMA FailStep == ASSUME IInv, NEW p \in Callers, ScanFails(p) PROVE IInv'
<1> DEFINE g == [AtRest EXCEPT !.pc = "failed"]
<1>1. g \in ScanState /\ g.pc = "failed"
  BY EmptyType, SetPc DEF Pcs
<1>2. scan' = [scan EXCEPT ![p] = g]
  BY DEF ScanFails
<1> HIDE DEF g
<1>3. /\ UNCHANGED <<disk, edits, since, reloads, snap, mirror, watcher>>
      /\ scan[p].pc \in {"check", "list", "read", "sync"}
      /\ failures' = failures + 1 /\ failures < MaxFailures
  BY DEF ScanFails, world
<1>4. failures' \in 0 .. MaxFailures
  BY <1>3, CatalogAssumption DEF IInv, TypeOK
<1> QED BY <1>1, <1>2, <1>3, <1>4, ScanningStep DEF Drafting

------------------------------------------------------------------------------
(* Steps that touch what scans read or write. *)

\* An edit makes the disk younger.
LEMMA EditStep == ASSUME IInv, NEW d \in Dirs, Edit(d) PROVE IInv'
<1>1. TypeOK /\ Stamped /\ Sound
  BY DEF IInv
<1>2. Touch(d) /\ UNCHANGED <<scan, since, reloads, failures, watcher, snap, mirror>>
  BY DEF Edit
<1>3. /\ disk' \in [Dirs -> [body : Bodies \cup {Broken, Absent}, stamp : 1 .. MaxEdits + 1]]
      /\ edits' \in 0 .. MaxEdits
      /\ \A e \in Dirs : disk[e].stamp <= disk'[e].stamp /\ disk'[e].stamp <= edits' + 1
      /\ \A e \in Dirs : disk[e].stamp \in Nat /\ disk'[e].stamp \in Nat
  BY <1>1, <1>2, TouchAges
<1>4. TypeOK'
  BY <1>1, <1>2, <1>3 DEF TypeOK
<1>5. Stamped'
  BY <1>3 DEF Stamped
<1>6. OneScan' /\ Started'
  BY <1>1, <1>2 DEF Sound, OneScan, Started, Resting
<1>7. Younger'
  <2>1. \A e \in Dirs : snap.seen[e] \in Nat
    BY <1>1 DEF TypeOK, Snapshots
  <2>2. \A p \in Callers, e \in Dirs : scan[p].draft.seen[e] \in Nat
    BY <1>1 DEF TypeOK, Snapshots
  <2> QED BY <1>1, <1>2, <1>3, <2>1, <2>2 DEF Sound, Younger
<1>8. ASSUME NEW c \in Clients
       PROVE  Answered(c)'
  <2>1. \A e \in Dirs : since[c][e] \in Nat
    BY <1>1 DEF TypeOK
  <2> QED BY <1>1, <1>2, <1>3, <2>1 DEF Sound, Answered
<1>9. Mirrored'
  BY <1>1, <1>2 DEF Sound, Mirrored, Live
<1> QED BY <1>4, <1>5, <1>6, <1>7, <1>8, <1>9 DEF IInv, Sound

\* A browser asks for a reload.
LEMMA ReloadStep == ASSUME IInv, NEW c \in Clients, Reload(c) PROVE IInv'
<1>1. TypeOK /\ Stamped /\ Sound /\ c \in Callers /\ c # Poller /\ reloads \in 0 .. MaxReloads
  BY CatalogAssumption DEF IInv, Callers, TypeOK
<1> DEFINE s == scan[c]
           g == [s EXCEPT !.pc = "waiting"]
<1>2. scan \in [Callers -> ScanState] /\ s \in ScanState
  BY <1>1, ScanType
<1>3. scan' = [scan EXCEPT ![c] = g] /\ since' = [since EXCEPT ![c] = Stamps]
  BY DEF Reload
<1>4. g \in ScanState /\ g.pc = "waiting"
  <2> HIDE DEF s
  <2> QED BY <1>2, SetPc DEF Pcs
<1> HIDE DEF g
<1>5. /\ UNCHANGED <<disk, edits, failures, watcher, snap, mirror>>
      /\ scan[c].pc \in {"idle", "ok", "failed"} /\ watcher # "off"
      /\ reloads' = reloads + 1 /\ reloads < MaxReloads
  BY DEF Reload, world
<1>6. scan' \in [Callers -> ScanState] /\ scan'[c] = g
      /\ \A q \in Callers \ {c} : scan'[q] = scan[q]
  BY <1>1, <1>2, <1>3, <1>4
<1>7. /\ since' \in [Clients -> [Dirs -> 0 .. MaxEdits + 1]]
      /\ since'[c] = Stamps /\ \A q \in Clients \ {c} : since'[q] = since[q]
  BY <1>1, <1>3, StampsType DEF TypeOK
<1>8. TypeOK' /\ Stamped'
  <2>1. reloads' \in 0 .. MaxReloads
    BY <1>1, <1>5, CatalogAssumption
  <2> QED BY <1>1, <1>5, <1>6, <1>7, <2>1 DEF TypeOK, ScanState, Pcs, Stamped
<1>9. OneScan'
  <2>1. Resting(c)' /\ \A q \in Callers \ {c} : Resting(q)' <=> Resting(q)
    BY <1>4, <1>6 DEF Resting
  <2> QED BY <1>1, <2>1 DEF Sound, OneScan
<1>10. Started' /\ Younger'
  BY <1>1, <1>4, <1>5, <1>6 DEF Sound, Started, Younger, Drafting
<1>11. ASSUME NEW b \in Clients
       PROVE  Answered(b)'
  <2>1. CASE b = c
    <3>1. \A d \in Dirs : since'[c][d] = disk[d].stamp /\ disk[d].stamp \in Nat
      BY <1>1, <1>7, StampsType DEF TypeOK
    <3> QED BY <1>4, <1>5, <1>6, <2>1, <3>1 DEF Answered, Drafting
  <2>2. CASE b # c
    <3>1. scan'[b] = scan[b] /\ since'[b] = since[b] /\ Answered(b)
      BY <1>1, <1>6, <1>7, <2>2 DEF Callers, Sound
    <3> QED BY <1>5, <3>1 DEF Answered
  <2> QED BY <2>1, <2>2
<1>12. Mirrored'
  <2>1. \A d \in Dirs : Live(d)' = Live(d)
    BY <1>5 DEF Live
  <2> QED BY <1>1, <1>4, <1>5, <1>6, <2>1 DEF Sound, Mirrored
<1> QED BY <1>8, <1>9, <1>10, <1>11, <1>12 DEF IInv, Sound

\* While one scan is on, the others rest.
LEMMA OthersRest ==
  ASSUME IInv, NEW p \in Callers, scan[p].pc \in {"sync", "publish"}
  PROVE  \A q \in Callers \ {p} : scan[q].pc \in {"idle", "waiting", "ok", "failed"}
<1>1. ~Resting(p)
  BY DEF Resting
<1> QED BY <1>1 DEF IInv, Sound, OneScan, Resting

\* The transaction makes the table that of the scan.
LEMMA SyncStep == ASSUME IInv, NEW p \in Callers, SyncTasks(p) PROVE IInv'
<1>1. /\ TypeOK /\ Stamped /\ Sound
      /\ scan[p].pc = "sync" /\ \A q \in Callers \ {p} : scan[q].pc \notin Drafting
  BY OthersRest DEF IInv, SyncTasks, Drafting
<1> DEFINE s == scan[p]
           g == [s EXCEPT !.pc = "publish"]
<1>2. scan \in [Callers -> ScanState] /\ s \in ScanState
  BY <1>1, ScanType
<1>3. scan' = [scan EXCEPT ![p] = g]
  BY DEF SyncTasks
<1>4. g \in ScanState /\ g.pc = "publish" /\ g.draft = s.draft
  <2> HIDE DEF s
  <2> QED BY <1>2, SetPc DEF Pcs
<1> HIDE DEF g
<1>5. scan' \in [Callers -> ScanState] /\ scan'[p] = g
      /\ \A q \in Callers \ {p} : scan'[q] = scan[q]
  BY <1>2, <1>3, <1>4
<1>6. UNCHANGED <<disk, edits, since, reloads, failures, watcher, snap>>
  BY DEF SyncTasks, world
<1>7. ASSUME NEW d \in Dirs
      PROVE  mirror'[d] \in Row /\ Live(d)' = s.draft.tasks[d]
  <2> DEFINE body == s.draft.tasks[d]
  <2>1. body \in Bodies \cup {Absent} /\ mirror[d] \in Row
    BY <1>1, <1>2 DEF TypeOK, ScanState, Snapshots
  <2>2. mirror'[d] = IF body # Absent THEN Upsert(mirror[d], body)
                     ELSE IF mirror[d].known THEN [mirror[d] EXCEPT !.deleted = TRUE]
                     ELSE mirror[d]
    BY DEF SyncTasks
  <2> HIDE DEF body, s
  <2>3. CASE body # Absent
    <3>1. mirror'[d] = [known |-> TRUE, hash |-> body, deleted |-> FALSE]
      BY <2>2, <2>3 DEF Upsert
    <3> QED BY <2>1, <3>1 DEF Row, Live, body
  <2>4. CASE body = Absent /\ mirror[d].known
    <3>1. mirror'[d] = [mirror[d] EXCEPT !.deleted = TRUE]
      BY <2>2, <2>4
    <3>2. mirror'[d] \in Row /\ mirror'[d].deleted
      BY <2>1, <3>1 DEF Row
    <3> QED BY <2>4, <3>2 DEF Live, body
  <2>5. CASE body = Absent /\ ~mirror[d].known
    <3>1. mirror'[d] = mirror[d]
      BY <2>2, <2>5
    <3> QED BY <2>1, <2>5, <3>1 DEF Live, body
  <2> QED BY <2>3, <2>4, <2>5
<1>8. mirror' \in [Dirs -> Row]
  <2>1. DOMAIN mirror' = Dirs /\ mirror' = [d \in Dirs |-> mirror'[d]]
    BY DEF SyncTasks
  <2> QED BY <1>7, <2>1
<1>9. TypeOK' /\ Stamped'
  BY <1>1, <1>5, <1>6, <1>8 DEF TypeOK, ScanState, Pcs, Stamped
<1>10. OneScan'
  <2>1. \A q \in Callers \ {p} : Resting(q)'
    BY <1>5, OthersRest, <1>1 DEF Resting
  <2> QED BY <2>1 DEF OneScan
<1>11. Started'
  BY <1>1, <1>5, <1>6 DEF Sound, Started, Callers
<1>12. Younger'
  BY <1>1, <1>4, <1>5, <1>6 DEF Sound, Younger, Drafting
<1>13. ASSUME NEW c \in Clients
       PROVE  Answered(c)'
  <2>1. Answered(c) /\ c \in Callers
    BY <1>1 DEF Sound, Callers
  <2>2. CASE c = p
    BY <1>1, <1>4, <1>5, <1>6, <2>1, <2>2 DEF Answered, Drafting
  <2>3. CASE c # p
    BY <1>5, <1>6, <2>1, <2>3 DEF Answered
  <2> QED BY <2>2, <2>3
<1>14. Mirrored'
  BY <1>1, <1>4, <1>5, <1>7 DEF Mirrored, Drafting
<1> QED BY <1>9, <1>10, <1>11, <1>12, <1>13, <1>14 DEF IInv, Sound

\* What is published is what was read.
LEMMA PublishStep == ASSUME IInv, NEW p \in Callers, Publish(p) PROVE IInv'
<1>1. /\ TypeOK /\ Stamped /\ Sound
      /\ scan[p].pc = "publish" /\ \A q \in Callers \ {p} : scan[q].pc \notin Drafting
  BY OthersRest DEF IInv, Publish, Drafting
<1> DEFINE s == scan[p]
           g == [AtRest EXCEPT !.pc = "ok"]
<1>2. scan \in [Callers -> ScanState] /\ s.draft \in Snapshots
  BY <1>1, ScanType DEF ScanState
<1>3. scan' = [scan EXCEPT ![p] = g] /\ snap' = s.draft
  BY DEF Publish
<1>4. g \in ScanState /\ g.pc = "ok"
  BY EmptyType, SetPc DEF Pcs
<1> HIDE DEF g
<1>5. scan' \in [Callers -> ScanState] /\ scan'[p] = g
      /\ \A q \in Callers \ {p} : scan'[q] = scan[q]
  BY <1>2, <1>3, <1>4
<1>6. UNCHANGED <<disk, edits, since, reloads, failures, watcher, mirror>>
  BY DEF Publish, world
<1>7. \A d \in Dirs : /\ snap.seen[d] <= snap'.seen[d] /\ snap'.seen[d] <= disk[d].stamp
                      /\ snap.seen[d] \in Nat /\ snap'.seen[d] \in Nat
  BY <1>1, <1>2, <1>3 DEF Sound, Younger, Drafting, TypeOK, Snapshots
<1>8. TypeOK' /\ Stamped'
  BY <1>1, <1>2, <1>3, <1>5, <1>6 DEF TypeOK, ScanState, Pcs, Stamped
<1>9. OneScan'
  <2>1. \A q \in Callers \ {p} : Resting(q)'
    BY <1>5, OthersRest, <1>1 DEF Resting
  <2> QED BY <2>1 DEF OneScan
<1>10. Started'
  BY <1>1, <1>5, <1>6 DEF Sound, Started, Callers
<1>11. Younger'
  BY <1>1, <1>4, <1>5, <1>6, <1>7 DEF Younger, Drafting
<1>12. ASSUME NEW c \in Clients
       PROVE  Answered(c)'
  <2>1. Answered(c) /\ c \in Callers /\ \A d \in Dirs : since[c][d] \in Nat
    BY <1>1 DEF Sound, Callers, TypeOK
  <2>2. CASE c = p
    BY <1>1, <1>3, <1>4, <1>5, <1>6, <2>1, <2>2 DEF Answered, Drafting
  <2>3. CASE c # p
    BY <1>1, <1>5, <1>6, <1>7, <2>1, <2>3 DEF Answered
  <2> QED BY <2>2, <2>3
<1>13. Mirrored'
  <2>1. \A d \in Dirs : Live(d)' = Live(d) /\ s.draft.tasks[d] = Live(d)
    BY <1>1, <1>6 DEF Sound, Mirrored, Live
  <2> QED BY <1>1, <1>3, <1>4, <1>5, <2>1 DEF Mirrored, Drafting
<1> QED BY <1>8, <1>9, <1>10, <1>11, <1>12, <1>13 DEF IInv, Sound

------------------------------------------------------------------------------
(* Every step. *)

\* Every step keeps the invariant.
LEMMA NextInv == IInv /\ [Next]_vars => IInv'
<1> SUFFICES ASSUME IInv, [Next]_vars PROVE IInv'
  OBVIOUS
<1>1. CASE UNCHANGED vars
  BY <1>1 DEF vars, world, IInv, TypeOK, Stamped, Sound, OneScan, Resting, Started, Younger,
              Answered, Mirrored, Live
<1>2. ASSUME NEW d \in Dirs, Edit(d) PROVE IInv'
  BY <1>2, EditStep
<1>3. CASE Serve \/ Tick \/ WatcherReturns
  BY <1>3, ServeTickStep, ReturnStep
<1>4. ASSUME NEW c \in Clients, Reload(c) PROVE IInv'
  BY <1>4, ReloadStep
<1>5. ASSUME NEW p \in Callers, Lock(p) \/ ScanStep(p) \/ ScanFails(p) PROVE IInv'
  BY <1>5, LockStep, CheckStep, ListStep, ReadStep, FingerprintStep, SyncStep, PublishStep,
     FailStep DEF ScanStep
<1> QED BY <1>1, <1>2, <1>3, <1>4, <1>5 DEF Next

\* The watcher, the reloads, the published snapshot and the table tasks stay
\* consistent, whatever is edited and whichever scans fail (watch.go, SyncTasks).
THEOREM Invariance == Spec => []IInv
BY InitInv, NextInv, PTL DEF Spec

------------------------------------------------------------------------------
(* What it means for the catalog. *)

\* Every variable keeps its type and every counter its bound.
THEOREM TypeCorrect == Spec => []TypeOK
<1>1. IInv => TypeOK
  BY DEF IInv
<1> QED BY <1>1, Invariance, PTL

\* A reload that came back without an error has read every edit made before it
\* was asked for (handleReload).
THEOREM ReloadIsFresh == Spec => []ReloadSeesTheEdits
<1>1. IInv => ReloadSeesTheEdits
  <2> SUFFICES ASSUME IInv, NEW c \in Clients, scan[c].pc = "ok", NEW d \in Dirs
               PROVE  snap.seen[d] >= since[c][d]
    BY DEF ReloadSeesTheEdits
  <2>1. since[c][d] <= snap.seen[d]
    BY DEF IInv, Sound, Answered
  <2>2. since[c][d] \in Nat /\ snap.seen[d] \in Nat
    BY DEF IInv, TypeOK, Snapshots
  <2> QED BY <2>1, <2>2
<1> QED BY <1>1, Invariance, PTL

\* Between scans the live rows of the table tasks are the tasks of the published
\* snapshot, whichever scans failed.
THEOREM TableIsTheCatalog == Spec => []MirrorMatches
<1>1. IInv => MirrorMatches
  BY DEF IInv, Sound, Mirrored, MirrorMatches, Live, Resting
<1> QED BY <1>1, Invariance, PTL

\* Polls and reloads overlap, but what is published only gets younger: the mutex
\* of scan covers the reading and the publishing.
THEOREM OnlyYounger == Spec => NeverOlder
<1>1. IInv /\ [Next]_vars => [\A d \in Dirs : snap'.seen[d] >= snap.seen[d]]_vars
  <2> SUFFICES ASSUME IInv, Next, NEW d \in Dirs PROVE snap'.seen[d] >= snap.seen[d]
    OBVIOUS
  <2>1. /\ snap.seen[d] \in Nat
        /\ \A p \in Callers : scan[p].draft.seen[d] \in Nat
    BY DEF IInv, TypeOK, Snapshots
  <2>2. ASSUME NEW p \in Callers, Publish(p) PROVE snap'.seen[d] >= snap.seen[d]
    BY <2>1, <2>2 DEF Publish, IInv, Sound, Younger, Drafting
  <2>3. CASE UNCHANGED snap
    BY <2>1, <2>3
  <2> QED BY <2>2, <2>3 DEF Next, ScanStep, Edit, Serve, Tick, WatcherReturns, Reload, Lock, Check,
                            ListRoot, ReadTask, TakeFingerprint, SyncTasks, ScanFails
<1> QED BY <1>1, Invariance, PTL DEF Spec, NeverOlder
==============================================================================
