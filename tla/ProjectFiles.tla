---------------------------- MODULE ProjectFiles ----------------------------
(* A project on a directory its user keeps working in: registration,       *)
(* preflight, checkpoints, restore and file conflicts                      *)
(* (application/projects/, infrastructure/projects/ and                    *)
(* project_repository.py).  Requests run concurrently: each is a coroutine *)
(* that reads in one transaction, does its file work in a thread and       *)
(* writes in another transaction; the threads of the checkpoint store      *)
(* exclude each other by a lock of the process, the user's editor and the  *)
(* file tools of the agents do not take it.  One directory, direct mode.   *)
EXTENDS Integers, FiniteSets, Sequences

CONSTANTS Requests,        \* slots for concurrent requests
          Nobody,          \* holder of a free lock
          MaxPaths,        \* files of the project, numbered in sorted order
          MaxEdits,        \* bound: edits from outside
          MaxCheckpoints,  \* bound: published checkpoints
          MaxConflicts,    \* bound: recorded conflicts
          MaxAttempts      \* bound: attempts to register the directory

ASSUME ProjectFilesAssumption ==
    /\ Nobody \notin Requests
    /\ {MaxPaths, MaxAttempts} \subseteq Nat \ {0}
    /\ {MaxEdits, MaxCheckpoints, MaxConflicts} \subseteq Nat

Paths == 1..MaxPaths
Instructions == 1              \* the path of AGENTS.md
Absent == -1                   \* hash None: there is no such file
Contents == {Absent} \cup 0..MaxEdits
Files == [Paths -> Contents]
NoFiles == [p \in Paths |-> Absent]

Statuses == {"none", "preflight", "ready", "closed"}
Kinds == {"none", "register", "preflight", "checkpoint", "scan", "keep", "merge",
          "agent", "restore"}
Places == {"idle", "lookup", "empty", "marked", "described", "checked", "waiting",
           "capturing", "captured", "writing", "written"}
Resolutions == {"open", "keep", "merge", "agent"}

(* A published checkpoint, which a crash may leave without its row. *)
CheckpointRow == [files : Files, row : BOOLEAN]
(* A path that both sides changed. *)
ConflictRow == [path : Paths, user : Contents, agent : Contents, resolution : Resolutions]

VARIABLES project,     \* status of the registered project, or "none"
          owner,       \* the attempt that registered it
          metadata,    \* attempt named in .agent/project.json, 0: no file
          manifest,    \* attempt named in .agent/manifest.json, 0: no file
          attempts,    \* attempts so far
          workspace,   \* the files of the directory
          store,       \* published checkpoints: files, and whether a row names it
          conflicts,   \* rows of the file conflicts
          lock,        \* holder of the lock of the checkpoint store
          op,          \* the requests under way
          fresh,       \* requests that name the current version of the project
          edits,       \* edits so far
          required,    \* the manifest lists AGENTS.md
          undone       \* ghost: a registration was cleaned up after its commit

registry == <<project, owner, metadata, manifest, attempts, required, undone>>
disk == <<workspace, edits>>
vars == <<registry, disk, store, conflicts, lock, op, fresh>>

(* target: the checkpoint to restore, or the agents' one; other: the       *)
(* baseline of a scan, or the protection of a restore; made: the           *)
(* checkpoint this request published; raced: paths edited from outside     *)
(* since the request last read them (a ghost).                             *)
RequestRow == [kind : Kinds, at : Places, me : 0..MaxAttempts, pass : BOOLEAN,
               target : 0..MaxCheckpoints, other : 0..MaxCheckpoints,
               made : 0..MaxCheckpoints, item : 0..MaxConflicts,
               todo : SUBSET Paths, got : Files, raced : SUBSET Paths]
Idle == [kind |-> "none", at |-> "idle", me |-> 0, pass |-> FALSE, target |-> 0,
         other |-> 0, made |-> 0, item |-> 0, todo |-> {}, got |-> NoFiles, raced |-> {}]

TypeOK ==
    /\ project \in Statuses /\ {required, undone} \subseteq BOOLEAN
    /\ {owner, metadata, manifest, attempts} \subseteq 0..MaxAttempts
    /\ workspace \in Files
    /\ store \in Seq(CheckpointRow) /\ Len(store) <= MaxCheckpoints
    /\ conflicts \in Seq(ConflictRow)
    /\ lock \in Requests \cup {Nobody}
    /\ op \in [Requests -> RequestRow]
    /\ fresh \subseteq Requests
    /\ edits \in 0..MaxEdits
    \* the lock is held exactly by the thread that captures or restores
    /\ \A r \in Requests : lock = r <=> op[r].at \in {"capturing", "writing"}

Init ==
    /\ project = "none" /\ owner = 0 /\ metadata = 0 /\ manifest = 0
    /\ attempts = 0 /\ required = FALSE /\ undone = FALSE
    /\ workspace = [p \in Paths |-> 0] /\ edits = 0
    /\ store = <<>> /\ conflicts = <<>> /\ lock = Nobody
    /\ op = [r \in Requests |-> Idle] /\ fresh = {}

At(r, kinds, place) == op[r].kind \in kinds /\ op[r].at = place
Goes(r, place) == op' = [op EXCEPT ![r].at = place]
Starts(r, new) == op[r] = Idle /\ op' = [op EXCEPT ![r] = new]
Over(r) == op' = [op EXCEPT ![r] = Idle] /\ fresh' = fresh \ {r}
Rows == {c \in DOMAIN store : store[c].row}
First(p, S) == p \in S /\ \A q \in S : p <= q
Captured(files) == {p \in Paths : files[p] # Absent}

-----------------------------------------------------------------------------
(* Registration of the directory: the lookup, the check for an existing   *)
(* .agent, its creation, the manifest and the rows are separate awaits.    *)
Lookup(r) ==
    /\ project = "none" /\ attempts < MaxAttempts
    /\ Starts(r, [Idle EXCEPT !.kind = "register", !.at = "lookup", !.me = attempts + 1,
                              !.pass = workspace[Instructions] # Absent])
    /\ attempts' = attempts + 1
    /\ UNCHANGED <<project, owner, metadata, manifest, required, undone, disk, store, conflicts, lock,
                   fresh>>

CheckUnused(r) ==
    /\ At(r, {"register"}, "lookup")
    /\ IF metadata = 0 THEN Goes(r, "empty") /\ UNCHANGED fresh ELSE Over(r)
    /\ UNCHANGED <<registry, disk, store, conflicts, lock>>

(* Mutation of CreateMetadata: existing metadata is overwritten.           *)
CreateMetadataBlindly(r) ==
    /\ At(r, {"register"}, "empty")
    /\ metadata' = op[r].me
    /\ Goes(r, "marked")
    /\ UNCHANGED <<project, owner, manifest, attempts, required, undone, disk, store, conflicts,
                   lock, fresh>>

(* A cancellation while the thread creates the metadata is raised after    *)
(* the thread has ended, before the flag that asks for the cleanup is set. *)
CreateMetadata(r) ==
    /\ At(r, {"register"}, "empty")
    /\ IF metadata = 0
       THEN /\ metadata' = op[r].me
            /\ \/ Goes(r, "marked") /\ UNCHANGED fresh
               \/ Over(r)
       ELSE Over(r) /\ UNCHANGED metadata
    /\ UNCHANGED <<project, owner, manifest, attempts, required, undone, disk, store, conflicts,
                   lock>>

WriteManifest(r) ==
    /\ At(r, {"register"}, "marked") /\ metadata = op[r].me /\ manifest = 0
    /\ manifest' = op[r].me
    /\ Goes(r, "described")
    /\ UNCHANGED <<project, owner, metadata, attempts, required, undone, disk, store, conflicts, lock,
                   fresh>>

RemoveMetadata(r) ==
    IF metadata = op[r].me THEN metadata' = 0 /\ manifest' = 0
                           ELSE UNCHANGED <<metadata, manifest>>

(* The rows are committed; a cancellation while the unit of work closes    *)
(* still runs the cleanup of a failed registration.                        *)
Register(r) ==
    /\ At(r, {"register"}, "described") /\ project = "none"
    /\ project' = "preflight" /\ owner' = op[r].me /\ required' = op[r].pass
    /\ \/ UNCHANGED <<metadata, manifest, undone>>
       \/ RemoveMetadata(r) /\ undone' = TRUE
    /\ op' = [op EXCEPT ![r] = Idle] /\ fresh' = {}
    /\ UNCHANGED <<attempts, disk, store, conflicts, lock>>

(* A failure or a cancellation after the metadata was created.             *)
RegisterFails(r) ==
    /\ op[r].kind = "register" /\ op[r].at \in {"marked", "described"}
    /\ RemoveMetadata(r) /\ Over(r)
    /\ UNCHANGED <<project, owner, attempts, required, undone, disk, store, conflicts, lock>>

-----------------------------------------------------------------------------
(* Status changes bump the version: no other request is fresh afterwards.  *)
SetStatus(status) == project' = status /\ fresh' = {}

Open ==
    /\ project = "closed"
    /\ SetStatus("preflight")
    /\ UNCHANGED <<owner, metadata, manifest, attempts, required, undone, disk, store, conflicts, lock,
                   op>>

Close ==
    /\ project \notin {"none", "closed"}
    /\ SetStatus("closed")
    /\ UNCHANGED <<owner, metadata, manifest, attempts, required, undone, disk, store, conflicts, lock,
                   op>>

(* _project_context and _require_open: the reading half of every request.  *)
(* The version a client names is the current one or an older one.          *)
Reads(r, new, current) ==
    /\ project \notin {"none", "closed"}
    /\ Starts(r, new)
    /\ fresh' = IF current THEN fresh \cup {r} ELSE fresh
    /\ UNCHANGED <<registry, disk, store, conflicts, lock>>

(* The preflight looks at the metadata, at the manifest and at the paths   *)
(* the manifest names; the version is compared before and after.           *)
BeginPreflight(r) == Reads(r, [Idle EXCEPT !.kind = "preflight", !.at = "waiting"], TRUE)

PreflightChecks(r) ==
    /\ At(r, {"preflight"}, "waiting")
    /\ op' = [op EXCEPT ![r].at = "checked",
                        ![r].pass = /\ metadata = owner /\ manifest = owner
                                    /\ required => workspace[Instructions] # Absent]
    /\ UNCHANGED <<registry, disk, store, conflicts, lock, fresh>>

(* Mutation of Commits: the version is not compared.                       *)
CommitsUnchecked(r, status) ==
    /\ SetStatus(status)
    /\ op' = [op EXCEPT ![r] = Idle]
    /\ UNCHANGED <<owner, metadata, manifest, attempts, required, undone, disk, lock>>

(* The writing half of a request: refused unless the version it names is   *)
(* current.                                                                *)
Commits(r, status) ==
    /\ r \in fresh
    /\ SetStatus(status)
    /\ op' = [op EXCEPT ![r] = Idle]
    /\ UNCHANGED <<owner, metadata, manifest, attempts, required, undone, disk, lock>>

RecordPreflight(r) ==
    /\ At(r, {"preflight"}, "checked")
    /\ Commits(r, IF op[r].pass THEN "ready" ELSE "preflight")
    /\ UNCHANGED <<store, conflicts>>

-----------------------------------------------------------------------------
(* Requests that capture the project in a new checkpoint first.            *)
BeginCheckpoint(r) == Reads(r, [Idle EXCEPT !.kind = "checkpoint", !.at = "waiting"], FALSE)

PlanRestore(r) ==
    /\ Rows # {}
    /\ Reads(r, [Idle EXCEPT !.kind = "checkpoint", !.at = "waiting"], FALSE)

Scan(r) == \E baseline \in Rows, agent \in Rows \cup {0} :
    Reads(r, [Idle EXCEPT !.kind = "scan", !.at = "waiting", !.other = baseline,
                          !.target = agent], FALSE)

(* A conflict that is resolved already is refused at the end only, by      *)
(* resolve_file_conflict.                                                  *)
AcceptAgent(r) == \E i \in DOMAIN conflicts, agent \in Rows, current \in BOOLEAN :
    /\ store[agent].files[conflicts[i].path] = conflicts[i].agent
    /\ Reads(r, [Idle EXCEPT !.kind = "agent", !.at = "waiting", !.item = i,
                             !.target = agent], current)

(* The files are listed first and then copied one by one; a listed file    *)
(* that is gone, or that changes while it is copied, fails the request.    *)
BeginCapture(r) ==
    /\ At(r, {"checkpoint", "scan", "agent"}, "waiting")
    /\ lock = Nobody /\ Len(store) < MaxCheckpoints
    /\ lock' = r
    /\ op' = [op EXCEPT ![r].at = "capturing", ![r].todo = Captured(workspace)]
    /\ UNCHANGED <<registry, disk, store, conflicts, fresh>>

CaptureFile(r) ==
    /\ op[r].at = "capturing"
    /\ \E p \in Paths :
         /\ First(p, op[r].todo) /\ workspace[p] # Absent
         /\ op' = [op EXCEPT ![r].todo = @ \ {p}, ![r].got[p] = workspace[p],
                             ![r].raced = @ \ {p}]
    /\ UNCHANGED <<registry, disk, store, conflicts, lock, fresh>>

Publish(r) ==
    /\ op[r].at = "capturing" /\ op[r].todo = {}
    /\ store' = Append(store, [files |-> op[r].got, row |-> FALSE])
    /\ lock' = Nobody
    /\ op' = [op EXCEPT ![r].at = "captured", ![r].made = Len(store) + 1, ![r].got = NoFiles]
    /\ UNCHANGED <<registry, disk, conflicts, fresh>>

RecordCheckpoint(r) ==
    /\ At(r, {"checkpoint"}, "captured")
    /\ store' = [store EXCEPT ![op[r].made].row = TRUE]
    /\ Over(r)
    /\ UNCHANGED <<registry, disk, conflicts, lock>>

(* Paths changed on both sides, and not to the same content.              *)
Conflicting(before, user, agent) ==
    {p \in Paths : user[p] # before[p] /\ agent[p] # before[p] /\ user[p] # agent[p]}

(* The elements of a set of paths in sorted order.                         *)
Sorted(S) == {s \in [1..Cardinality(S) -> S] : \A i, j \in DOMAIN s : i < j => s[i] < s[j]}

RecordScan(r) ==
    /\ At(r, {"scan"}, "captured")
    /\ LET user == store[op[r].made].files
           agent == store[op[r].target].files
           found == IF op[r].target = 0 THEN {}
                    ELSE Conflicting(store[op[r].other].files, user, agent)
       IN /\ Len(conflicts) + Cardinality(found) <= MaxConflicts
          /\ \E paths \in Sorted(found) :
               conflicts' = conflicts \o
                   [i \in DOMAIN paths |-> [path |-> paths[i], user |-> user[paths[i]],
                                           agent |-> agent[paths[i]], resolution |-> "open"]]
    /\ store' = [store EXCEPT ![op[r].made].row = TRUE]
    /\ Over(r)
    /\ UNCHANGED <<registry, disk, lock>>

-----------------------------------------------------------------------------
(* A file of the directory is replaced, or deleted, by one of a checkpoint. *)
Overwrites(p, content) == workspace' = [workspace EXCEPT ![p] = content] /\ UNCHANGED edits

BeginRestore(r) == \E target, protection \in Rows, current \in BOOLEAN :
    Reads(r, [Idle EXCEPT !.kind = "restore", !.at = "waiting", !.target = target,
                          !.other = protection], current)

(* Mutation of StartRestore: the files are not compared with the           *)
(* protection.                                                             *)
StartRestoreUnchecked(r) ==
    /\ At(r, {"restore"}, "waiting") /\ lock = Nobody
    /\ op' = [op EXCEPT ![r].at = "writing", ![r].todo = Captured(store[op[r].target].files)]
    /\ lock' = r
    /\ UNCHANGED <<registry, disk, store, conflicts, fresh>>

StartRestore(r) ==
    /\ At(r, {"restore"}, "waiting") /\ lock = Nobody
    /\ LET target == store[op[r].target].files
           protection == store[op[r].other].files
       IN /\ \A p \in Captured(target) : workspace[p] = protection[p]
          /\ op' = [op EXCEPT ![r].at = "writing", ![r].todo = Captured(target)]
    /\ lock' = r
    /\ UNCHANGED <<registry, disk, store, conflicts, fresh>>

RestoreFile(r) ==
    /\ op[r].at = "writing"
    /\ \E p \in Paths :
         /\ First(p, op[r].todo)
         /\ Overwrites(p, store[op[r].target].files[p])
         /\ op' = [op EXCEPT ![r].todo = @ \ {p}]
    /\ UNCHANGED <<registry, store, conflicts, lock, fresh>>

FinishRestore(r) ==
    /\ op[r].at = "writing" /\ op[r].todo = {}
    /\ op' = [op EXCEPT ![r].at = "written", ![r].raced = {}] /\ lock' = Nobody
    /\ UNCHANGED <<registry, disk, store, conflicts, fresh>>

CommitRestore(r) ==
    /\ At(r, {"restore"}, "written")
    /\ Commits(r, "preflight")
    /\ UNCHANGED <<store, conflicts>>

-----------------------------------------------------------------------------
(* Resolution of a conflict: the file is looked at, or replaced, first.    *)
Resolve(r) == \E i \in DOMAIN conflicts, kind \in {"keep", "merge"}, current \in BOOLEAN :
    Reads(r, [Idle EXCEPT !.kind = kind, !.at = "waiting", !.item = i], current)

ConflictOf(r) == conflicts[op[r].item]

CompareFile(r) ==
    /\ At(r, {"keep", "merge"}, "waiting") /\ lock = Nobody
    /\ LET content == workspace[ConflictOf(r).path] IN
         IF op[r].kind = "keep" THEN content = ConflictOf(r).user ELSE content # Absent
    /\ Goes(r, "checked")
    /\ UNCHANGED <<registry, disk, store, conflicts, lock, fresh>>

(* Mutation of ReplaceFile: without the lock of the store.                 *)
ReplaceFileUnlocked(r) ==
    /\ At(r, {"agent"}, "captured")
    /\ LET p == ConflictOf(r).path IN Overwrites(p, store[op[r].target].files[p])
    /\ op' = [op EXCEPT ![r].at = "written", ![r].raced = {}]
    /\ UNCHANGED <<registry, store, conflicts, lock, fresh>>

ReplaceFile(r) ==
    /\ At(r, {"agent"}, "captured") /\ lock = Nobody
    /\ LET p == ConflictOf(r).path IN Overwrites(p, store[op[r].target].files[p])
    /\ op' = [op EXCEPT ![r].at = "written", ![r].raced = {}]
    /\ UNCHANGED <<registry, store, conflicts, lock, fresh>>

CommitResolution(r) ==
    /\ \/ At(r, {"keep", "merge"}, "checked")
       \/ At(r, {"agent"}, "written")
    /\ ConflictOf(r).resolution = "open"
    /\ conflicts' = [conflicts EXCEPT ![op[r].item].resolution = op[r].kind]
    /\ store' = [c \in DOMAIN store |->
                    IF c = op[r].made THEN [store[c] EXCEPT !.row = TRUE] ELSE store[c]]
    /\ Commits(r, "preflight")

-----------------------------------------------------------------------------
(* Mutation of Ends: a failing thread keeps the lock.                      *)
EndsHoldingLock(r) ==
    /\ op[r].at # "idle" /\ op[r].kind # "register"
    /\ Over(r)
    /\ UNCHANGED <<registry, disk, store, conflicts, lock>>

(* A request ends without its transaction: a check or the transaction      *)
(* refuses it, its thread fails, or it is cancelled at an await.           *)
Ends(r) ==
    /\ op[r].at # "idle" /\ op[r].kind # "register"
    /\ Over(r)
    /\ lock' = IF lock = r THEN Nobody ELSE lock
    /\ UNCHANGED <<registry, disk, store, conflicts>>

(* The request is about to replace this file, or has just done so.         *)
Watches(r, p) ==
    \/ op[r].at = "writing" /\ store[op[r].target].files[p] # Absent
    \/ op[r].kind = "agent" /\ op[r].at \in {"capturing", "captured"} /\ p = ConflictOf(r).path

(* The user's editor, or a file tool of an agent.                          *)
Edit(p, content) ==
    /\ edits < MaxEdits /\ content # workspace[p]
    /\ edits' = edits + 1
    /\ workspace' = [workspace EXCEPT ![p] = content]
    /\ op' = [r \in Requests |->
                IF Watches(r, p) THEN [op[r] EXCEPT !.raced = @ \cup {p}] ELSE op[r]]
    /\ UNCHANGED <<registry, store, conflicts, lock, fresh>>

Crash ==
    /\ op' = [r \in Requests |-> Idle] /\ fresh' = {} /\ lock' = Nobody
    /\ UNCHANGED <<registry, disk, store, conflicts>>

Next ==
    \/ \E r \in Requests :
         \/ Lookup(r) \/ CheckUnused(r) \/ CreateMetadata(r) \/ WriteManifest(r)
         \/ Register(r) \/ RegisterFails(r)
         \/ BeginPreflight(r) \/ PreflightChecks(r) \/ RecordPreflight(r)
         \/ BeginCheckpoint(r) \/ PlanRestore(r) \/ Scan(r) \/ AcceptAgent(r)
         \/ BeginCapture(r) \/ CaptureFile(r) \/ Publish(r)
         \/ RecordCheckpoint(r) \/ RecordScan(r)
         \/ BeginRestore(r) \/ StartRestore(r) \/ RestoreFile(r) \/ FinishRestore(r)
         \/ CommitRestore(r)
         \/ Resolve(r) \/ CompareFile(r) \/ ReplaceFile(r) \/ CommitResolution(r)
         \/ Ends(r)
    \/ Open \/ Close
    \/ \E p \in Paths : \E content \in {Absent, edits + 1} : Edit(p, content)
    \/ Crash

Spec == Init /\ [][Next]_vars

-----------------------------------------------------------------------------
(* No content of the project is lost to the program: whatever a restore    *)
(* replaces is in a checkpoint with a row, whatever the choice of the      *)
(* agents' side of a conflict replaces is in a published checkpoint,       *)
(* except what was edited after the program had looked at the file.        *)
UserContentKept ==
    [][\A r \in Requests, p \in Paths :
         (/\ edits' = edits /\ op'[r] # op[r]
          /\ workspace[p] \notin {workspace'[p], Absent} /\ p \notin op[r].raced) =>
            \E c \in DOMAIN store : /\ store[c].files[p] = workspace[p]
                                    /\ op[r].kind = "restore" => store[c].row]_vars

(* When the writing of a restore ends, every file of the checkpoint is in  *)
(* place, except those edited from outside meanwhile: neither another      *)
(* request nor a crash leaves a mixture that passes for restored.  (The    *)
(* lock is free before the row is committed, and a request may replace a   *)
(* file in between: the directory is not looked at again.)                 *)
RestoreComplete ==
    [][\A r \in Requests :
         (op[r].kind = "restore" /\ op[r].at # "written" /\ op'[r].at = "written") =>
            \A p \in Captured(store[op[r].target].files) :
                workspace'[p] = store[op[r].target].files[p] \/ p \in op[r].raced]_vars

(* The metadata in a registered directory is that of the registered        *)
(* project, however many registrations of the directory raced or failed    *)
(* (unless a cancellation hit the commit, see Register).                   *)
RegisteredBacked ==
    project # "none" /\ ~undone => metadata = owner /\ manifest = owner

(* A closed project is opened only by its user: no preflight, restore or   *)
(* resolution under way when it was closed changes its status.             *)
ClosedStays ==
    [][project = "closed" /\ project' # "closed" => UNCHANGED op]_vars

=============================================================================
