------------------------------- MODULE Catalog -------------------------------
(***************************************************************************)
(* The task catalog of internal/catalog: the watcher that polls the tasks  *)
(* directory, the manual reload, the snapshot they publish, and the mirror *)
(* of it in the table tasks (internal/store/tasks.go).                     *)
(*                                                                         *)
(* A scan reads one task directory after another while the user edits      *)
(* them.  Each edit gets a fresh stamp, standing for the sizes and mtimes  *)
(* the fingerprint is made of.                                             *)
(***************************************************************************)
EXTENDS Integers, FiniteSets

CONSTANTS
  Dirs,        \* task directories, numbered in the order of their names
  Bodies,      \* abstract contents of a directory that loads
  Broken,      \* a content that fails validation
  Absent,      \* no such directory
  Clients,     \* browsers that may press "reload"
  MaxEdits,    \* bound on the edits of the directories
  MaxReloads,  \* bound on the manual reloads
  MaxFailures  \* bound on the scans that meet an I/O or database error

Startup == "startup"  \* main, before it serves
Poller == "poller"    \* the goroutine in Watcher.Run

ASSUME CatalogAssumption ==
  /\ Dirs \subseteq Nat \ {0} /\ IsFiniteSet(Dirs)
  /\ Broken \notin Bodies /\ Absent \notin Bodies \cup {Broken}
  /\ Clients \cap {Startup, Poller} = {}
  /\ MaxEdits \in Nat /\ MaxReloads \in Nat /\ MaxFailures \in Nat

VARIABLES
  disk,      \* per directory: [body, stamp]
  edits,     \* edits so far
  scan,      \* per caller of scan: where it is and what it has read
  since,     \* per client: the stamps on the disk when it called Reload
  reloads,   \* manual reloads so far
  failures,  \* failed scans so far
  watcher,   \* "off", "first" scan, "polling" or "dead"
  snap,      \* the published snapshot
  mirror     \* table tasks, by id

world == <<disk, edits>>
vars == <<disk, edits, scan, since, reloads, failures, watcher, snap, mirror>>

Callers == {Startup, Poller} \cup Clients

------------------------------------------------------------------------------
(* Data. *)

Stamps == [d \in Dirs |-> disk[d].stamp]

\* Names, sizes and mtimes of everything under the root.
Fingerprint == {<<d, disk[d].stamp>> : d \in {e \in Dirs : disk[e].body # Absent}}

\* The empty string, not the digest of an empty tree.
NoPrint == {<<0, 0>>}

EmptySnapshot ==
  [tasks |-> [d \in Dirs |-> Absent], errs |-> {}, fprint |-> NoPrint, seen |-> [d \in Dirs |-> 0]]

AtRest == [pc |-> "idle", todo |-> {}, draft |-> EmptySnapshot]

Row == [known : BOOLEAN, hash : Bodies \cup {Absent}, deleted : BOOLEAN]

NoRow == [known |-> FALSE, hash |-> Absent, deleted |-> FALSE]

\* Mutant: a manual reload looks at the fingerprint like a poll.
Forced_NotReload(p) == p = Startup \/ (p = Poller /\ watcher = "first")

\* The first scan and every reload are forced.
Forced(p) == p # Poller \/ watcher = "first"

Resting(p) == scan[p].pc \in {"idle", "waiting", "ok", "failed"}

Init ==
  /\ disk \in [Dirs -> [body : Bodies \cup {Absent}, stamp : {1}]]
  /\ edits = 0
  /\ scan = [p \in Callers |-> IF p = Startup THEN [AtRest EXCEPT !.pc = "waiting"] ELSE AtRest]
  /\ since = [c \in Clients |-> [d \in Dirs |-> 0]]
  /\ reloads = 0 /\ failures = 0
  /\ watcher = "off"
  /\ snap = EmptySnapshot
  /\ mirror = [d \in Dirs |-> NoRow]

------------------------------------------------------------------------------
(* The user edits. *)

Touch(d) ==
  /\ edits < MaxEdits
  /\ \E body \in Bodies \cup {Broken, Absent} :
       /\ body # disk[d].body
       /\ disk' = [disk EXCEPT ![d] = [body |-> body, stamp |-> @.stamp + 1]]
  /\ edits' = edits + 1

Edit(d) == Touch(d) /\ UNCHANGED <<scan, since, reloads, failures, watcher, snap, mirror>>

\* What Fingerprint's walk of the tree returns: nothing at all if the edit of a
\* directory takes away a file the walk has listed and not yet looked at.
Walk(fprint) ==
  \/ fprint = Fingerprint /\ UNCHANGED world
  \/ fprint = NoPrint /\ \E d \in Dirs : disk[d].body # Absent /\ Touch(d)

------------------------------------------------------------------------------
(* Who scans, and when. *)

\* main: after the first reload succeeded, the watcher's goroutine is started.
Serve ==
  /\ watcher = "off"
  /\ scan[Startup].pc = "ok"
  /\ watcher' = "first"
  /\ scan' = [scan EXCEPT ![Poller].pc = "waiting"]
  /\ UNCHANGED <<world, since, reloads, failures, snap, mirror>>

\* The ticker fires while the goroutine waits for it.
Tick ==
  /\ watcher = "polling"
  /\ scan[Poller].pc = "idle"
  /\ scan' = [scan EXCEPT ![Poller].pc = "waiting"]
  /\ UNCHANGED <<world, since, reloads, failures, watcher, snap, mirror>>

Reload(c) ==
  /\ watcher # "off"
  /\ scan[c].pc \in {"idle", "ok", "failed"}
  /\ reloads < MaxReloads
  /\ reloads' = reloads + 1
  /\ since' = [since EXCEPT ![c] = Stamps]
  /\ scan' = [scan EXCEPT ![c].pc = "waiting"]
  /\ UNCHANGED <<world, failures, watcher, snap, mirror>>

\* The watcher goes on after a failed poll, but not after a failed first scan.
WatcherReturns ==
  /\ scan[Poller].pc \in {"ok", "failed"}
  /\ watcher' = IF watcher = "first" /\ scan[Poller].pc = "failed" THEN "dead" ELSE "polling"
  /\ scan' = [scan EXCEPT ![Poller] = AtRest]
  /\ UNCHANGED <<world, since, reloads, failures, snap, mirror>>

------------------------------------------------------------------------------
(* scan, under the mutex. *)

\* Mutant: scans are not serialised.
Lock_NoMutex(p) ==
  /\ scan[p].pc = "waiting"
  /\ scan' = [scan EXCEPT ![p].pc = IF Forced(p) THEN "list" ELSE "check"]
  /\ UNCHANGED <<world, since, reloads, failures, watcher, snap, mirror>>

Lock(p) ==
  /\ scan[p].pc = "waiting"
  /\ \A q \in Callers : Resting(q)
  /\ scan' = [scan EXCEPT ![p].pc = IF Forced(p) THEN "list" ELSE "check"]
  /\ UNCHANGED <<world, since, reloads, failures, watcher, snap, mirror>>

\* Mutant: only the number of files is compared.
Check_ByCount(p) ==
  /\ scan[p].pc = "check"
  /\ \E fprint \in {Fingerprint, NoPrint} :
       /\ Walk(fprint)
       /\ scan' = [scan EXCEPT ![p].pc =
            IF Cardinality(fprint) = Cardinality(snap.fprint) THEN "ok" ELSE "list"]
  /\ UNCHANGED <<since, reloads, failures, watcher, snap, mirror>>

\* A poll ends here when the tree looks like the one the snapshot was built from.
Check(p) ==
  /\ scan[p].pc = "check"
  /\ \E fprint \in {Fingerprint, NoPrint} :
       /\ Walk(fprint)
       /\ scan' = [scan EXCEPT ![p].pc = IF fprint = snap.fprint THEN "ok" ELSE "list"]
  /\ UNCHANGED <<since, reloads, failures, watcher, snap, mirror>>

\* Load: list the root ...
ListRoot(p) ==
  /\ scan[p].pc = "list"
  /\ scan' = [scan EXCEPT ![p] =
       [pc    |-> "read",
        todo  |-> {d \in Dirs : disk[d].body # Absent},
        draft |-> [EmptySnapshot EXCEPT !.seen = Stamps]]]
  /\ UNCHANGED <<world, since, reloads, failures, watcher, snap, mirror>>

\* ... read the directories in order; one that does not load is listed as an
\* error, a directory that vanished since the listing included ...
LoadTask(draft, d) ==
  LET loads == disk[d].body \in Bodies
  IN  [draft EXCEPT !.seen[d] = disk[d].stamp,
                    !.tasks[d] = IF loads THEN disk[d].body ELSE Absent,
                    !.errs = IF loads THEN @ ELSE @ \cup {d}]

ReadTask(p) ==
  /\ scan[p].pc = "read"
  /\ \E d \in scan[p].todo :
       /\ \A e \in scan[p].todo : d <= e
       /\ scan' = [scan EXCEPT ![p].todo = @ \ {d}, ![p].draft = LoadTask(@, d)]
  /\ UNCHANGED <<world, since, reloads, failures, watcher, snap, mirror>>

\* ... and take the fingerprint last.
TakeFingerprint(p) ==
  /\ scan[p].pc = "read" /\ scan[p].todo = {}
  /\ \E fprint \in {Fingerprint, NoPrint} :
       /\ Walk(fprint)
       /\ scan' = [scan EXCEPT ![p].pc = "sync", ![p].draft.fprint = fprint]
  /\ UNCHANGED <<since, reloads, failures, watcher, snap, mirror>>

\* Mutant: a task that comes back stays soft deleted.
Upsert_NoRevive(row, body) ==
  [known |-> TRUE, hash |-> body, deleted |-> row.deleted]

Upsert(row, body) == [known |-> TRUE, hash |-> body, deleted |-> FALSE]

\* SyncTasks, one transaction: upsert what is there, soft delete what is not.
SyncTasks(p) ==
  /\ scan[p].pc = "sync"
  /\ mirror' = [d \in Dirs |->
       LET body == scan[p].draft.tasks[d]
       IN  IF body # Absent THEN Upsert(mirror[d], body)
           ELSE IF mirror[d].known THEN [mirror[d] EXCEPT !.deleted = TRUE]
           ELSE mirror[d]]
  /\ scan' = [scan EXCEPT ![p].pc = "publish"]
  /\ UNCHANGED <<world, since, reloads, failures, watcher, snap>>

Publish(p) ==
  /\ scan[p].pc = "publish"
  /\ snap' = scan[p].draft
  /\ scan' = [scan EXCEPT ![p] = [AtRest EXCEPT !.pc = "ok"]]
  /\ UNCHANGED <<world, since, reloads, failures, watcher, mirror>>

\* The root cannot be read, the walk fails, the transaction is rolled back or
\* the request that asked for the reload is gone: the old snapshot stays.
ScanFails(p) ==
  /\ scan[p].pc \in {"check", "list", "read", "sync"}
  /\ scan[p].pc = "read" => scan[p].todo = {}
  /\ failures < MaxFailures
  /\ failures' = failures + 1
  /\ scan' = [scan EXCEPT ![p] = [AtRest EXCEPT !.pc = "failed"]]
  /\ UNCHANGED <<world, since, reloads, watcher, snap, mirror>>

------------------------------------------------------------------------------

ScanStep(p) ==
  \/ Check(p) \/ ListRoot(p) \/ ReadTask(p) \/ TakeFingerprint(p)
  \/ SyncTasks(p) \/ Publish(p)

Next ==
  \/ \E d \in Dirs : Edit(d)
  \/ Serve \/ Tick \/ WatcherReturns
  \/ \E c \in Clients : Reload(c)
  \/ \E p \in Callers : Lock(p) \/ ScanStep(p) \/ ScanFails(p)

Spec == Init /\ [][Next]_vars

\* The ticker keeps firing, goroutines run, and whoever waits for the mutex gets
\* it in the end (Go's mutexes do not starve a waiter).
FairSpec ==
  /\ Spec
  /\ WF_vars(Serve) /\ WF_vars(Tick) /\ WF_vars(WatcherReturns)
  /\ \A p \in Callers : SF_vars(Lock(p)) /\ WF_vars(ScanStep(p))

------------------------------------------------------------------------------
(* Properties. *)

Snapshots ==
  [tasks : [Dirs -> Bodies \cup {Absent}], errs : SUBSET Dirs,
   fprint : SUBSET ((Dirs \cup {0}) \X (0 .. MaxEdits + 1)), seen : [Dirs -> 0 .. MaxEdits + 1]]

TypeOK ==
  /\ disk \in [Dirs -> [body : Bodies \cup {Broken, Absent}, stamp : 1 .. MaxEdits + 1]]
  /\ scan \in [Callers -> [pc : {"idle", "waiting", "check", "list", "read", "sync", "publish",
                                 "ok", "failed"},
                           todo : SUBSET Dirs, draft : Snapshots]]
  /\ since \in [Clients -> [Dirs -> 0 .. MaxEdits + 1]]
  /\ watcher \in {"off", "first", "polling", "dead"}
  /\ snap \in Snapshots
  /\ mirror \in [Dirs -> Row]
  /\ edits \in 0 .. MaxEdits /\ reloads \in 0 .. MaxReloads /\ failures \in 0 .. MaxFailures

\* A published snapshot is never replaced by one read from an older tree, though
\* polls and manual reloads overlap.
NeverOlder == [][\A d \in Dirs : snap'.seen[d] >= snap.seen[d]]_vars

\* When a manual reload has returned without an error, every edit made before
\* it was asked for is in the catalog - also one that the polls miss.
ReloadSeesTheEdits ==
  \A c \in Clients : scan[c].pc = "ok" => \A d \in Dirs : snap.seen[d] >= since[c][d]

\* Between scans the live rows of the table tasks are the tasks of the catalog,
\* whichever scans failed: the foreign keys and the screens see the same tasks.
MirrorMatches ==
  (\A p \in Callers : Resting(p)) =>
    \A d \in Dirs :
      snap.tasks[d] = IF mirror[d].known /\ ~mirror[d].deleted THEN mirror[d].hash ELSE Absent

\* The watcher ends up with a snapshot whose fingerprint is the tree's, whatever
\* polls fail on the way - unless its first scan failed, which ends it.
FingerprintCatchesUp ==
  <>[](watcher \in {"off", "dead"} \/ snap.fprint = Fingerprint)

\* ... and so with the tasks that are on the disk.
CatalogCatchesUp ==
  <>[](\A d \in Dirs : snap.tasks[d] = IF disk[d].body \in Bodies THEN disk[d].body ELSE Absent)

==============================================================================
