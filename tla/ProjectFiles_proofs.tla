------------------------- MODULE ProjectFiles_proofs -------------------------
(* Proofs about a project on its directory, for any number of requests,    *)
(* files, edits from outside, checkpoints, conflicts and attempts to       *)
(* register the directory.                                                 *)
EXTENDS ProjectFiles, SequenceTheorems, FiniteSetTheorems, TLAPS

USE DEF registry, disk

-----------------------------------------------------------------------------
(* What a request refers to exists: checkpoints stay published, rows and   *)
(* conflicts stay recorded, so what a request read stays there until its   *)
(* own transaction.                                                        *)
Bound(o, files, items) ==
    /\ o.kind \in {"scan", "restore"} => o.other \in DOMAIN files
    /\ o.kind \in {"agent", "restore"} => o.target \in DOMAIN files
    /\ o.kind = "scan" => o.target \in DOMAIN files \cup {0}
    /\ o.kind = "restore" => files[o.target].row /\ files[o.other].row
    /\ o.kind \in {"keep", "merge", "agent"} => o.item \in DOMAIN items
    /\ o.at = "captured" => o.made \in DOMAIN files
    /\ o.at = "writing" => o.kind = "restore"
    /\ o.at = "capturing" => /\ o.kind \in {"checkpoint", "scan", "agent"}
                             /\ Len(files) < MaxCheckpoints

TypeInv == TypeOK /\ Len(conflicts) <= MaxConflicts /\ \A r \in Requests : Bound(op[r], store, conflicts)

(* Checkpoints and conflicts are never removed, nor are their files, their *)
(* rows or their paths.                                                    *)
Grows ==
    /\ DOMAIN store \subseteq DOMAIN store' /\ DOMAIN conflicts \subseteq DOMAIN conflicts'
    /\ \A c \in DOMAIN store : /\ store'[c].files = store[c].files
                               /\ store[c].row => store'[c].row
    /\ \A i \in DOMAIN conflicts : conflicts'[i].path = conflicts[i].path

Locked == {"capturing", "writing"}

LEMMA Parameters ==
    /\ {MaxPaths, MaxAttempts, MaxEdits, MaxCheckpoints, MaxConflicts} \subseteq Nat
    /\ 1 \in Paths /\ IsFiniteSet(Paths) /\ Paths \subseteq Nat
    /\ Absent \in Contents /\ 0 \in Contents /\ NoFiles \in Files
<1>1. /\ {MaxPaths, MaxAttempts, MaxEdits, MaxCheckpoints, MaxConflicts} \subseteq Nat
      /\ 1 \in Paths /\ Paths \subseteq Nat
  BY ProjectFilesAssumption DEF Paths
<1>2. IsFiniteSet(Paths)
  BY <1>1, FS_Interval DEF Paths
<1>. QED
  BY <1>1, <1>2 DEF Contents, Absent, NoFiles, Files

LEMMA IdleType == Idle \in RequestRow
BY Parameters DEF Idle, RequestRow, Kinds, Places

LEMMA StoreFacts ==
    ASSUME TypeInv
    PROVE  /\ Len(store) \in 0..MaxCheckpoints /\ DOMAIN store = 1..Len(store)
           /\ Rows \subseteq DOMAIN store
           /\ \A c \in DOMAIN store : /\ store[c] \in CheckpointRow /\ store[c].files \in Files
                                      /\ c \in 0..MaxCheckpoints
           /\ Len(conflicts) \in 0..MaxConflicts /\ DOMAIN conflicts = 1..Len(conflicts)
           /\ \A i \in DOMAIN conflicts : /\ conflicts[i] \in ConflictRow /\ conflicts[i].path \in Paths
                                          /\ i \in 0..MaxConflicts
<1>1. /\ Len(store) \in Nat /\ DOMAIN store = 1..Len(store) /\ Len(store) <= MaxCheckpoints
      /\ Len(conflicts) \in Nat /\ DOMAIN conflicts = 1..Len(conflicts) /\ Len(conflicts) <= MaxConflicts
      /\ MaxCheckpoints \in Nat /\ MaxConflicts \in Nat
  BY Parameters, LenProperties DEF TypeInv, TypeOK
<1>2. /\ \A c \in DOMAIN store : store[c] \in CheckpointRow
      /\ \A i \in DOMAIN conflicts : conflicts[i] \in ConflictRow
  BY <1>1, ElementOfSeq DEF TypeInv, TypeOK
<1>. QED
  BY <1>1, <1>2 DEF Rows, CheckpointRow, ConflictRow

LEMMA RequestFacts ==
    ASSUME TypeInv, NEW r \in Requests
    PROVE  /\ op \in [Requests -> RequestRow] /\ op[r] \in RequestRow
           /\ op[r].kind \in Kinds /\ op[r].at \in Places /\ op[r].me \in 0..MaxAttempts
           /\ op[r].todo \in SUBSET Paths /\ op[r].raced \in SUBSET Paths /\ op[r].got \in Files
           /\ (lock = r <=> op[r].at \in Locked) /\ Bound(op[r], store, conflicts)
<1>1. op \in [Requests -> RequestRow] /\ (lock = r <=> op[r].at \in Locked) /\ Bound(op[r], store, conflicts)
  BY DEF TypeInv, TypeOK, Locked
<1>2. \A o \in RequestRow : /\ o.kind \in Kinds /\ o.at \in Places /\ o.me \in 0..MaxAttempts
                            /\ o.todo \in SUBSET Paths /\ o.raced \in SUBSET Paths /\ o.got \in Files
  BY DEF RequestRow
<1>. QED
  BY <1>1, <1>2

(* One request moves on: its row becomes x, and the lock follows.          *)
Moves(r, x) ==
    /\ op' = [op EXCEPT ![r] = x] /\ x \in RequestRow
    /\ \/ lock' = lock /\ (x.at \in Locked <=> op[r].at \in Locked)
       \/ lock = Nobody /\ lock' = r /\ x.at \in Locked
       \/ lock = r /\ lock' = Nobody /\ x.at \notin Locked

Typed ==
    /\ project' \in Statuses /\ required' \in BOOLEAN /\ undone' \in BOOLEAN
    /\ {owner', metadata', manifest', attempts'} \subseteq 0..MaxAttempts
    /\ workspace' \in Files /\ edits' \in 0..MaxEdits /\ fresh' \subseteq Requests
    /\ store' \in Seq(CheckpointRow) /\ Len(store') <= MaxCheckpoints
    /\ conflicts' \in Seq(ConflictRow) /\ Len(conflicts') <= MaxConflicts

(* A request leaves the store as it is, publishes under the lock, or names *)
(* checkpoints and records conflicts.                                      *)
StoreSteps(r) ==
    \/ UNCHANGED <<store, conflicts>>
    \/ lock = r /\ Len(store') = Len(store) + 1 /\ Grows
    \/ Len(store') = Len(store) /\ Grows

LEMMA GrowsKeepsBound ==
    ASSUME TypeInv, Grows, NEW o, Bound(o, store, conflicts), Len(store') = Len(store) \/ o.at # "capturing"
    PROVE  Bound(o, store', conflicts')
BY StoreFacts DEF Grows, Bound

LEMMA MovesKeepsTypes ==
    ASSUME TypeInv, NEW r \in Requests, NEW x, Moves(r, x), Typed, StoreSteps(r), Bound(x, store', conflicts')
    PROVE  TypeInv'
<1>1. /\ op' \in [Requests -> RequestRow] /\ op'[r] = x
      /\ \A q \in Requests : q # r => op'[q] = op[q]
  BY RequestFacts DEF Moves
<1>2. lock' \in Requests \cup {Nobody}
  BY DEF Moves, TypeInv, TypeOK
<1>3. ASSUME NEW q \in Requests PROVE lock' = q <=> op'[q].at \in {"capturing", "writing"}
  BY <1>1, RequestFacts, ProjectFilesAssumption DEF Moves, Locked
<1>4. ASSUME NEW q \in Requests PROVE Bound(op'[q], store', conflicts')
  <2>1. CASE q = r
    BY <1>1, <2>1
  <2>2. CASE q # r
    <3>1. op'[q] = op[q] /\ Bound(op[q], store, conflicts) /\ (lock = q <=> op[q].at \in Locked)
      BY <1>1, <2>2, RequestFacts
    <3>2. Bound(op[q], store', conflicts')
      <4>1. CASE UNCHANGED <<store, conflicts>>
        BY <3>1, <4>1 DEF Bound
      <4>2. CASE Grows /\ (Len(store') = Len(store) \/ lock = r)
        BY <2>2, <3>1, <4>2, GrowsKeepsBound DEF Locked
      <4>. QED
        BY <4>1, <4>2 DEF StoreSteps
    <3>. QED
      BY <3>1, <3>2
  <2>. QED
    BY <2>1, <2>2
<1>. QED
  BY <1>1, <1>2, <1>3, <1>4 DEF TypeInv, TypeOK, Typed

LEMMA SameTyped ==
    ASSUME TypeInv, UNCHANGED <<registry, disk, store, conflicts>>, fresh' \subseteq Requests
    PROVE  Typed
BY DEF TypeInv, TypeOK, Typed

(* Requests that start, and those that only look.                          *)
LEMMA ReadsType ==
    ASSUME TypeInv, NEW r \in Requests, NEW new, NEW current \in BOOLEAN, Reads(r, new, current),
           new \in RequestRow, Bound(new, store, conflicts), new.at = "waiting"
    PROVE  TypeInv'
<1>1. /\ op' = [op EXCEPT ![r] = new] /\ op[r].at = "idle" /\ UNCHANGED <<registry, disk, store, conflicts, lock>>
      /\ fresh' \subseteq Requests
  BY DEF Reads, Starts, Idle, TypeInv, TypeOK
<1>2. Moves(r, new)
  BY <1>1 DEF Moves, Locked
<1>3. Bound(new, store', conflicts')
  BY <1>1 DEF Bound
<1>. QED
  BY <1>1, <1>2, <1>3, SameTyped, MovesKeepsTypes DEF StoreSteps

LEMMA IdleBound == \A files, items : Bound(Idle, files, items)
BY DEF Bound, Idle

LEMMA OverType ==
    ASSUME TypeInv, NEW r \in Requests, Over(r), Typed, StoreSteps(r),
           \/ lock' = lock /\ lock # r
           \/ lock' = Nobody /\ lock = r
    PROVE  TypeInv'
<1>1. op' = [op EXCEPT ![r] = Idle] /\ Idle \in RequestRow /\ Idle.at \notin Locked
  BY IdleType DEF Over, Idle, Locked
<1>2. Moves(r, Idle)
  BY <1>1, RequestFacts DEF Moves
<1>. QED
  BY <1>2, IdleBound, MovesKeepsTypes

(* A request that writes only its own row, and perhaps scalars.            *)
LEMMA StaysBound ==
    ASSUME TypeInv, NEW r \in Requests, NEW x \in RequestRow, op' = [op EXCEPT ![r] = x],
           UNCHANGED <<store, conflicts>>, Typed, Bound(x, store, conflicts),
           \/ lock' = lock /\ lock # r /\ x.at \notin Locked
           \/ lock' = lock /\ lock = r /\ x.at \in Locked
           \/ lock = Nobody /\ lock' = r /\ x.at \in Locked
           \/ lock = r /\ lock' = Nobody /\ x.at \notin Locked
    PROVE  TypeInv'
<1>1. Moves(r, x)
  BY RequestFacts DEF Moves
<1>2. Bound(x, store', conflicts')
  OBVIOUS
<1>. QED
  BY <1>1, <1>2, MovesKeepsTypes DEF StoreSteps

LEMMA RegistrationTypes ==
    ASSUME TypeInv, NEW r \in Requests,
           \/ Lookup(r) \/ CheckUnused(r) \/ CreateMetadata(r) \/ WriteManifest(r)
           \/ Register(r) \/ RegisterFails(r)
    PROVE  TypeInv'
<1>. DEFINE Going(place) == [op[r] EXCEPT !.at = place]
<1>0. /\ op[r] \in RequestRow /\ op \in [Requests -> RequestRow] /\ fresh \subseteq Requests
      /\ op[r].me \in 0..MaxAttempts
  BY RequestFacts DEF TypeInv, TypeOK
<1>1. CASE Lookup(r)
  <2>. DEFINE new == [Idle EXCEPT !.kind = "register", !.at = "lookup", !.me = attempts + 1,
                                  !.pass = workspace[Instructions] # Absent]
  <2>1. attempts + 1 \in 0..MaxAttempts
    BY <1>1, Parameters DEF Lookup, TypeInv, TypeOK
  <2>2. new \in RequestRow
    BY <2>1, IdleType DEF RequestRow, Kinds, Places
  <2>3. Bound(new, store, conflicts) /\ new.at = "lookup"
    BY IdleType DEF Bound, Idle
  <2>4. /\ op' = [op EXCEPT ![r] = new] /\ lock' = lock /\ op[r].at = "idle"
        /\ UNCHANGED <<store, conflicts>>
    BY <1>1 DEF Lookup, Starts, Idle
  <2>5. Typed
    BY <1>1, <2>1 DEF Lookup, Typed, TypeInv, TypeOK
  <2>6. lock # r
    BY <2>4, RequestFacts DEF Locked
  <2>. HIDE DEF new
  <2>. QED
    BY <2>2, <2>3, <2>4, <2>5, <2>6, StaysBound DEF Locked
<1>2. ASSUME NEW place \in {"empty", "marked", "described"}, Goes(r, place), op[r].kind = "register",
             op[r].at \in {"lookup", "empty", "marked"}, Typed, UNCHANGED <<store, conflicts, lock>>
      PROVE  TypeInv'
  <2>1. Going(place) \in RequestRow /\ Going(place).at \notin Locked
    BY <1>0, <1>2 DEF RequestRow, Places, Locked
  <2>2. Bound(Going(place), store, conflicts)
    BY <1>0, <1>2 DEF Bound, RequestRow
  <2>3. op' = [op EXCEPT ![r] = Going(place)]
    BY <1>2 DEF Goes
  <2>4. lock # r
    BY <1>2, RequestFacts DEF Locked
  <2>. HIDE DEF Going
  <2>. QED
    BY <1>2, <2>1, <2>2, <2>3, <2>4, StaysBound
<1>3. ASSUME Over(r), op[r].at \in {"lookup", "empty", "marked", "described"}, Typed,
             UNCHANGED <<store, conflicts, lock>>
      PROVE  TypeInv'
  <2>1. lock # r
    BY <1>3, RequestFacts DEF Locked
  <2>. QED
    BY <1>3, <2>1, OverType DEF StoreSteps
<1>4. CASE CheckUnused(r)
  <2>1. Typed
    BY <1>0, <1>4, SameTyped DEF CheckUnused, Over
  <2>. QED
    BY <1>2, <1>3, <1>4, <2>1 DEF CheckUnused, At
<1>5. CASE CreateMetadata(r)
  <2>1. Typed
    BY <1>0, <1>5 DEF CreateMetadata, Over, Typed, TypeInv, TypeOK
  <2>. QED
    BY <1>2, <1>3, <1>5, <2>1 DEF CreateMetadata, At
<1>6. CASE WriteManifest(r)
  <2>1. Typed
    BY <1>0, <1>6 DEF WriteManifest, Typed, TypeInv, TypeOK
  <2>. QED
    BY <1>2, <1>6, <2>1 DEF WriteManifest, At
<1>7. CASE Register(r)
  <2>1. op[r].pass \in BOOLEAN
    BY <1>0 DEF RequestRow
  <2>2. metadata' \in 0..MaxAttempts /\ manifest' \in 0..MaxAttempts /\ undone' \in BOOLEAN
    <3>1. /\ metadata \in 0..MaxAttempts /\ manifest \in 0..MaxAttempts /\ 0 \in 0..MaxAttempts
          /\ undone \in BOOLEAN
      BY Parameters DEF TypeInv, TypeOK
    <3>2. CASE UNCHANGED <<metadata, manifest, undone>>
      BY <3>1, <3>2
    <3>3. CASE RemoveMetadata(r) /\ undone' = TRUE
      BY <3>1, <3>3 DEF RemoveMetadata
    <3>. QED
      BY <1>7, <3>2, <3>3 DEF Register
  <2>3. Typed
    BY <1>0, <1>7, <2>1, <2>2 DEF Register, Typed, TypeInv, TypeOK, Statuses
  <2>4. lock # r
    BY <1>7, RequestFacts DEF Register, At, Locked
  <2>5. Idle \in RequestRow /\ Idle.at \notin Locked
    BY IdleType DEF Idle, Locked
  <2>. QED
    BY <1>7, <2>3, <2>4, <2>5, IdleBound, StaysBound DEF Register
<1>8. CASE RegisterFails(r)
  <2>1. metadata' \in 0..MaxAttempts /\ manifest' \in 0..MaxAttempts
    BY <1>8, Parameters DEF RegisterFails, RemoveMetadata, TypeInv, TypeOK
  <2>2. Typed
    BY <1>0, <1>8, <2>1 DEF RegisterFails, Over, Typed, TypeInv, TypeOK
  <2>. QED
    BY <1>3, <1>8, <2>2 DEF RegisterFails
<1>. QED
  BY <1>1, <1>4, <1>5, <1>6, <1>7, <1>8

LEMMA ReadingTypes ==
    ASSUME TypeInv, NEW r \in Requests,
           \/ BeginPreflight(r) \/ BeginCheckpoint(r) \/ PlanRestore(r) \/ Scan(r) \/ AcceptAgent(r)
           \/ BeginRestore(r) \/ Resolve(r)
    PROVE  TypeInv'
<1>0. /\ Rows \subseteq DOMAIN store /\ \A c \in DOMAIN store : c \in 0..MaxCheckpoints
      /\ \A i \in DOMAIN conflicts : i \in 0..MaxConflicts
      /\ \A c \in Rows : store[c].row /\ 0 \in 0..MaxCheckpoints
  BY StoreFacts, Parameters DEF Rows
<1>1. ASSUME NEW k \in {"preflight", "checkpoint"}, NEW current \in BOOLEAN,
             Reads(r, [Idle EXCEPT !.kind = k, !.at = "waiting"], current)
      PROVE  TypeInv'
  <2>. DEFINE new == [Idle EXCEPT !.kind = k, !.at = "waiting"]
  <2>1. new \in RequestRow /\ Bound(new, store, conflicts) /\ new.at = "waiting"
    BY IdleType DEF RequestRow, Kinds, Places, Bound, Idle
  <2>3. Reads(r, new, current)
    BY <1>1
  <2>. HIDE DEF new
  <2>. QED
    BY <2>1, <2>3, ReadsType
<1>2. ASSUME NEW baseline \in Rows, NEW agent \in Rows \cup {0},
             Reads(r, [Idle EXCEPT !.kind = "scan", !.at = "waiting", !.other = baseline,
                                   !.target = agent], FALSE)
      PROVE  TypeInv'
  <2>. DEFINE new == [Idle EXCEPT !.kind = "scan", !.at = "waiting", !.other = baseline, !.target = agent]
  <2>0. /\ baseline \in 0..MaxCheckpoints /\ agent \in 0..MaxCheckpoints
        /\ baseline \in DOMAIN store /\ agent \in DOMAIN store \cup {0}
    BY <1>0
  <2>1. new \in RequestRow /\ new.at = "waiting"
    BY <2>0, IdleType DEF RequestRow, Kinds, Places, Idle
  <2>2. Bound(new, store, conflicts)
    BY <2>0 DEF Bound, Idle
  <2>3. Reads(r, new, FALSE)
    BY <1>2
  <2>. HIDE DEF new
  <2>. QED
    BY <2>1, <2>2, <2>3, ReadsType
<1>3. ASSUME NEW i \in DOMAIN conflicts, NEW agent \in Rows, NEW current \in BOOLEAN,
             Reads(r, [Idle EXCEPT !.kind = "agent", !.at = "waiting", !.item = i, !.target = agent],
                   current)
      PROVE  TypeInv'
  <2>. DEFINE new == [Idle EXCEPT !.kind = "agent", !.at = "waiting", !.item = i, !.target = agent]
  <2>0. agent \in 0..MaxCheckpoints /\ agent \in DOMAIN store /\ i \in 0..MaxConflicts
    BY <1>0
  <2>1. new \in RequestRow /\ new.at = "waiting"
    BY <2>0, IdleType DEF RequestRow, Kinds, Places, Idle
  <2>2. Bound(new, store, conflicts)
    BY <2>0 DEF Bound, Idle
  <2>3. Reads(r, new, current)
    BY <1>3
  <2>. HIDE DEF new
  <2>. QED
    BY <2>1, <2>2, <2>3, ReadsType
<1>4. ASSUME NEW target \in Rows, NEW protection \in Rows, NEW current \in BOOLEAN,
             Reads(r, [Idle EXCEPT !.kind = "restore", !.at = "waiting", !.target = target,
                                   !.other = protection], current)
      PROVE  TypeInv'
  <2>. DEFINE new == [Idle EXCEPT !.kind = "restore", !.at = "waiting", !.target = target,
                                  !.other = protection]
  <2>0. /\ target \in 0..MaxCheckpoints /\ protection \in 0..MaxCheckpoints
        /\ target \in DOMAIN store /\ protection \in DOMAIN store
        /\ store[target].row /\ store[protection].row
    BY <1>0
  <2>1. new \in RequestRow /\ new.at = "waiting"
    BY <2>0, IdleType DEF RequestRow, Kinds, Places, Idle
  <2>2. Bound(new, store, conflicts)
    BY <2>0 DEF Bound, Idle
  <2>3. Reads(r, new, current)
    BY <1>4
  <2>. HIDE DEF new
  <2>. QED
    BY <2>1, <2>2, <2>3, ReadsType
<1>5. ASSUME NEW i \in DOMAIN conflicts, NEW kind \in {"keep", "merge"}, NEW current \in BOOLEAN,
             Reads(r, [Idle EXCEPT !.kind = kind, !.at = "waiting", !.item = i], current)
      PROVE  TypeInv'
  <2>. DEFINE new == [Idle EXCEPT !.kind = kind, !.at = "waiting", !.item = i]
  <2>1. new \in RequestRow /\ new.at = "waiting"
    BY <1>0, IdleType DEF RequestRow, Kinds, Places, Idle
  <2>2. Bound(new, store, conflicts)
    BY DEF Bound, Idle
  <2>3. Reads(r, new, current)
    BY <1>5
  <2>. HIDE DEF new
  <2>. QED
    BY <2>1, <2>2, <2>3, ReadsType
<1>6. BeginPreflight(r) \/ BeginCheckpoint(r) \/ PlanRestore(r) => TypeInv'
  BY <1>1 DEF BeginPreflight, BeginCheckpoint, PlanRestore
<1>7. Scan(r) => TypeInv'
  BY <1>2 DEF Scan
<1>8. AcceptAgent(r) => TypeInv'
  BY <1>3 DEF AcceptAgent
<1>9. BeginRestore(r) => TypeInv'
  BY <1>4 DEF BeginRestore
<1>10. Resolve(r) => TypeInv'
  BY <1>5 DEF Resolve
<1>. QED
  BY <1>6, <1>7, <1>8, <1>9, <1>10

(* Requests at work on the files.                                          *)
LEMMA CaptureTypes ==
    ASSUME TypeInv, NEW r \in Requests, BeginCapture(r) \/ CaptureFile(r) \/ Publish(r)
    PROVE  TypeInv'
<1>0. /\ op[r] \in RequestRow /\ op \in [Requests -> RequestRow] /\ Bound(op[r], store, conflicts)
      /\ op[r].todo \in SUBSET Paths /\ op[r].raced \in SUBSET Paths /\ op[r].got \in Files
      /\ (lock = r <=> op[r].at \in Locked) /\ workspace \in Files
  BY RequestFacts DEF TypeInv, TypeOK
<1>1. CASE BeginCapture(r)
  <2>. DEFINE x == [op[r] EXCEPT !.at = "capturing", !.todo = Captured(workspace)]
  <2>1. x \in RequestRow /\ x.at \in Locked
    BY <1>0 DEF RequestRow, Places, Captured, Locked
  <2>2. Bound(x, store, conflicts)
    BY <1>0, <1>1 DEF BeginCapture, At, Bound, RequestRow
  <2>3. op' = [op EXCEPT ![r] = x]
    BY <1>1 DEF BeginCapture
  <2>4. lock = Nobody /\ lock' = r /\ UNCHANGED <<store, conflicts>> /\ Typed
    BY <1>1, SameTyped DEF BeginCapture, TypeInv, TypeOK
  <2>. HIDE DEF x
  <2>. QED
    BY <2>1, <2>2, <2>3, <2>4, StaysBound
<1>2. CASE CaptureFile(r)
  <2>1. PICK p \in Paths :
            op' = [op EXCEPT ![r].todo = @ \ {p}, ![r].got[p] = workspace[p], ![r].raced = @ \ {p}]
    BY <1>2 DEF CaptureFile
  <2>. DEFINE x == [op[r] EXCEPT !.todo = @ \ {p}, !.got[p] = workspace[p], !.raced = @ \ {p}]
  <2>2. op' = [op EXCEPT ![r] = x]
    BY <2>1
  <2>3. [op[r].got EXCEPT ![p] = workspace[p]] \in Files
    BY <1>0 DEF Files
  <2>4. x \in RequestRow /\ x.at = op[r].at
    BY <1>0, <2>3 DEF RequestRow
  <2>5. Bound(x, store, conflicts)
    BY <1>0 DEF Bound, RequestRow
  <2>6. lock = r /\ lock' = lock /\ op[r].at \in Locked /\ UNCHANGED <<store, conflicts>> /\ Typed
    BY <1>0, <1>2, SameTyped DEF CaptureFile, Locked, TypeInv, TypeOK
  <2>. HIDE DEF x
  <2>. QED
    BY <2>2, <2>4, <2>5, <2>6, StaysBound
<1>3. CASE Publish(r)
  <2>. DEFINE x == [op[r] EXCEPT !.at = "captured", !.made = Len(store) + 1, !.got = NoFiles]
              c == [files |-> op[r].got, row |-> FALSE]
  <2>1. lock = r /\ Len(store) < MaxCheckpoints /\ Len(store) \in Nat /\ MaxCheckpoints \in Nat
    BY <1>0, <1>3, StoreFacts, Parameters DEF Publish, Locked, Bound
  <2>2. c \in CheckpointRow /\ store \in Seq(CheckpointRow) /\ store' = Append(store, c)
    BY <1>0, <1>3 DEF Publish, CheckpointRow, TypeInv, TypeOK
  <2>. HIDE DEF c
  <2>3. /\ store' \in Seq(CheckpointRow) /\ Len(store') = Len(store) + 1
        /\ \A i \in 1..Len(store) : store'[i] = store[i]
        /\ DOMAIN store' = 1..Len(store) + 1 /\ DOMAIN store = 1..Len(store)
    BY <2>2, AppendProperties, LenProperties
  <2>4. Len(store) + 1 \in 0..MaxCheckpoints /\ Len(store) + 1 \in DOMAIN store'
    BY <2>1, <2>3
  <2>5. x \in RequestRow /\ x.at = "captured"
    BY <1>0, <2>4, Parameters DEF RequestRow, Places
  <2>6. Grows
    BY <1>3, <2>1, <2>3 DEF Publish, Grows
  <2>7. Bound(x, store', conflicts')
    <3>1. Bound(op[r], store, conflicts) /\ conflicts' = conflicts /\ DOMAIN store \subseteq DOMAIN store'
      BY <1>0, <1>3, <2>1, <2>3 DEF Publish
    <3>2. op[r].kind \in {"checkpoint", "scan", "agent"}
      BY <1>3, <3>1 DEF Publish, Bound
    <3>. QED
      BY <1>0, <2>4, <2>5, <3>1, <3>2 DEF Bound, RequestRow
  <2>8. Moves(r, x)
    <3>1. op' = [op EXCEPT ![r] = x]
      BY <1>3 DEF Publish
    <3>. QED
      BY <1>3, <2>1, <2>5, <3>1 DEF Publish, Moves, Locked
  <2>9. Typed
    BY <1>3, <2>3, <2>4 DEF Publish, Typed, TypeInv, TypeOK
  <2>10. StoreSteps(r)
    BY <2>1, <2>3, <2>6 DEF StoreSteps
  <2>. HIDE DEF x
  <2>. QED
    BY <2>7, <2>8, <2>9, <2>10, MovesKeepsTypes
<1>. QED
  BY <1>1, <1>2, <1>3

(* Checkpoints get their rows, conflicts their rows and resolutions.       *)
LEMMA NamingGrows ==
    ASSUME TypeInv, NEW c, store' = [store EXCEPT ![c].row = TRUE]
    PROVE  /\ store' \in Seq(CheckpointRow) /\ Len(store') = Len(store) /\ DOMAIN store' = DOMAIN store
           /\ \A d \in DOMAIN store : /\ store'[d].files = store[d].files
                                      /\ store[d].row => store'[d].row
<1>1. store \in Seq(CheckpointRow) /\ \A d \in DOMAIN store : store[d] \in CheckpointRow
  BY StoreFacts DEF TypeInv, TypeOK
<1>2. CASE c \in DOMAIN store
  <2>. DEFINE x == [store[c] EXCEPT !.row = TRUE]
  <2>1. x \in CheckpointRow /\ store' = [store EXCEPT ![c] = x]
    BY <1>1, <1>2 DEF CheckpointRow
  <2>2. x.files = store[c].files /\ x.row
    BY <1>1, <1>2 DEF CheckpointRow
  <2>. HIDE DEF x
  <2>3. /\ store' \in Seq(CheckpointRow) /\ Len(store') = Len(store) /\ DOMAIN store' = DOMAIN store
        /\ \A d \in DOMAIN store : store'[d] = IF d = c THEN x ELSE store[d]
    <3>1. DOMAIN store = 1..Len(store) /\ c \in 1..Len(store)
      BY <1>2, StoreFacts
    <3>2. store' = [store EXCEPT ![c] = x]
      BY <2>1
    <3>. QED
      <4>1. /\ [store EXCEPT ![c] = x] \in Seq(CheckpointRow)
            /\ Len([store EXCEPT ![c] = x]) = Len(store)
            /\ \A j \in 1..Len(store) : [store EXCEPT ![c] = x][j] = IF j = c THEN x ELSE store[j]
        BY <1>1, <2>1, <3>1, ExceptSeq
      <4>2. DOMAIN [store EXCEPT ![c] = x] = DOMAIN store
        OBVIOUS
      <4>. QED
        BY <3>1, <3>2, <4>1, <4>2
  <2>. QED
    BY <1>2, <2>1, <2>2, <2>3
<1>3. CASE c \notin DOMAIN store
  <2>1. store = [d \in 1..Len(store) |-> store[d]] /\ DOMAIN store = 1..Len(store)
    BY <1>1, LenProperties, SeqDef
  <2>2. store' = store
    BY <1>3, <2>1
  <2>. QED
    BY <1>1, <2>2
<1>. QED
  BY <1>2, <1>3

LEMMA RecordCheckpointTypes ==
    ASSUME TypeInv, NEW r \in Requests, RecordCheckpoint(r)
    PROVE  TypeInv' /\ Grows
<1>1. store' = [store EXCEPT ![op[r].made].row = TRUE] /\ conflicts' = conflicts /\ Over(r)
  BY DEF RecordCheckpoint
<1>2. /\ store' \in Seq(CheckpointRow) /\ Len(store') = Len(store) /\ DOMAIN store' = DOMAIN store
      /\ \A d \in DOMAIN store : /\ store'[d].files = store[d].files
                                 /\ store[d].row => store'[d].row
  BY <1>1, NamingGrows
<1>3. Grows
  BY <1>1, <1>2 DEF Grows
<1>4. Typed
  BY <1>1, <1>2 DEF RecordCheckpoint, Over, Typed, TypeInv, TypeOK
<1>5. lock' = lock /\ lock # r
  BY RequestFacts DEF RecordCheckpoint, At, Locked
<1>. QED
  BY <1>1, <1>2, <1>3, <1>4, <1>5, OverType DEF StoreSteps

(* Appending a sequence to another keeps its entries.                      *)
LEMMA ConcatGrows ==
    ASSUME NEW S, NEW s \in Seq(S), NEW t \in Seq(S)
    PROVE  /\ s \o t \in Seq(S) /\ Len(s \o t) = Len(s) + Len(t)
           /\ \A i \in 1..Len(s) : (s \o t)[i] = s[i]
           /\ DOMAIN (s \o t) = 1..Len(s \o t) /\ DOMAIN s \subseteq DOMAIN (s \o t)
<1>1. /\ s \o t \in Seq(S) /\ Len(s \o t) = Len(s) + Len(t)
      /\ Len(s) \in Nat /\ DOMAIN s = 1..Len(s) /\ Len(t) \in Nat
  BY ConcatProperties, LenProperties
<1>2. DOMAIN (s \o t) = 1..Len(s \o t)
  BY <1>1, LenProperties
<1>3. \A i \in 1..Len(s) : (s \o t)[i] = s[i]
  <2>. SUFFICES ASSUME NEW i \in 1..Len(s) PROVE (s \o t)[i] = s[i]
    OBVIOUS
  <2>1. i \in 1..Len(s) + Len(t) /\ i <= Len(s)
    BY <1>1
  <2>. QED
    BY <2>1, ConcatProperties
<1>. QED
  BY <1>1, <1>2, <1>3

LEMMA RecordScanTypes ==
    ASSUME TypeInv, NEW r \in Requests, RecordScan(r)
    PROVE  TypeInv' /\ Grows
<1>. DEFINE user == store[op[r].made].files
            agent == store[op[r].target].files
            found == IF op[r].target = 0 THEN {} ELSE Conflicting(store[op[r].other].files, user, agent)
            row(p) == [path |-> p, user |-> user[p], agent |-> agent[p], resolution |-> "open"]
<1>1. /\ store' = [store EXCEPT ![op[r].made].row = TRUE] /\ Over(r)
      /\ op[r].kind = "scan" /\ op[r].at = "captured"
      /\ Len(conflicts) + Cardinality(found) <= MaxConflicts
  BY DEF RecordScan, At
<1>2. PICK paths \in Sorted(found) : conflicts' = conflicts \o [i \in DOMAIN paths |-> row(paths[i])]
  BY DEF RecordScan
<1>3. found \subseteq Paths /\ Cardinality(found) \in Nat
  <2>1. found \subseteq Paths
    BY DEF Conflicting
  <2>. HIDE DEF found
  <2>. QED
    BY <2>1, Parameters, FS_Subset, FS_CardinalityType
<1>4. paths \in [1..Cardinality(found) -> found]
  BY <1>2 DEF Sorted
<1>5. Bound(op[r], store, conflicts)
  BY RequestFacts
<1>6. \A i \in DOMAIN paths : row(paths[i]) \in ConflictRow
  <2>1. user \in Files
    BY <1>1, <1>5, StoreFacts DEF Bound
  <2>2. found # {} => agent \in Files
    BY <1>1, <1>5, StoreFacts DEF Bound
  <2>3. \A p \in found : user[p] \in Contents /\ agent[p] \in Contents /\ p \in Paths
    BY <1>3, <2>1, <2>2 DEF Files
  <2>. HIDE DEF found, user, agent
  <2>. QED
    BY <1>4, <2>3 DEF ConflictRow, Resolutions
<1>. DEFINE new == [i \in DOMAIN paths |-> row(paths[i])]
<1>7. new \in Seq(ConflictRow) /\ Len(new) = Cardinality(found)
  <2>1. DOMAIN paths = 1..Cardinality(found)
    BY <1>4
  <2>2. new \in [1..Cardinality(found) -> ConflictRow]
    BY <1>6, <2>1
  <2>. HIDE DEF new, found, row
  <2>. QED
    BY <1>3, <2>2, SeqDef, LenProperties
<1>8. /\ conflicts' = conflicts \o new /\ conflicts \in Seq(ConflictRow)
      /\ Len(conflicts) \in Nat /\ DOMAIN conflicts = 1..Len(conflicts)
  <2>1. conflicts \in Seq(ConflictRow)
    BY DEF TypeInv, TypeOK
  <2>2. Len(conflicts) \in Nat /\ DOMAIN conflicts = 1..Len(conflicts)
    BY <2>1, LenProperties
  <2>. QED
    BY <1>2, <2>1, <2>2, ZenonT(40)
<1>. HIDE DEF new, found, row
<1>9. /\ conflicts' \in Seq(ConflictRow) /\ Len(conflicts') = Len(conflicts) + Len(new)
      /\ \A i \in 1..Len(conflicts) : conflicts'[i] = conflicts[i]
      /\ DOMAIN conflicts' = 1..Len(conflicts') /\ DOMAIN conflicts \subseteq DOMAIN conflicts'
  <2>1. /\ conflicts \o new \in Seq(ConflictRow)
        /\ Len(conflicts \o new) = Len(conflicts) + Len(new)
        /\ \A i \in 1..Len(conflicts) : (conflicts \o new)[i] = conflicts[i]
        /\ DOMAIN (conflicts \o new) = 1..Len(conflicts \o new)
        /\ DOMAIN conflicts \subseteq DOMAIN (conflicts \o new)
    <3>1. conflicts \in Seq(ConflictRow) /\ new \in Seq(ConflictRow)
      BY <1>7, <1>8
    <3>. QED
      BY <3>1, ConcatGrows
  <2>. QED
    BY <1>8, <2>1
<1>10. Len(conflicts') <= MaxConflicts
  BY <1>1, <1>7, <1>9
<1>11. /\ store' \in Seq(CheckpointRow) /\ Len(store') = Len(store) /\ DOMAIN store' = DOMAIN store
       /\ \A d \in DOMAIN store : /\ store'[d].files = store[d].files
                                  /\ store[d].row => store'[d].row
  BY <1>1, NamingGrows
<1>12. Grows
  BY <1>8, <1>9, <1>10, <1>11 DEF Grows
<1>13. Typed
  BY <1>1, <1>9, <1>10, <1>11 DEF RecordScan, Over, Typed, TypeInv, TypeOK
<1>14. lock' = lock /\ lock # r
  BY <1>1, RequestFacts DEF RecordScan, Locked
<1>. QED
  BY <1>1, <1>11, <1>12, <1>13, <1>14, OverType DEF StoreSteps

(* Requests that look at files or replace them.                            *)
LEMMA OverwritesType ==
    ASSUME TypeInv, NEW c \in DOMAIN store, NEW p \in Paths, Overwrites(p, store[c].files[p])
    PROVE  workspace' \in Files
<1>1. store[c].files[p] \in Contents /\ workspace \in Files
  BY StoreFacts DEF Files, TypeInv, TypeOK
<1>. QED
  BY <1>1 DEF Overwrites, Files

LEMMA RestoreTypes ==
    ASSUME TypeInv, NEW r \in Requests, StartRestore(r) \/ RestoreFile(r) \/ FinishRestore(r)
    PROVE  TypeInv'
<1>0. /\ op[r] \in RequestRow /\ op \in [Requests -> RequestRow] /\ Bound(op[r], store, conflicts)
      /\ op[r].todo \in SUBSET Paths
      /\ (lock = r <=> op[r].at \in Locked) /\ workspace \in Files
  BY RequestFacts DEF TypeInv, TypeOK
<1>1. CASE StartRestore(r)
  <2>. DEFINE x == [op[r] EXCEPT !.at = "writing", !.todo = Captured(store[op[r].target].files)]
  <2>1. x \in RequestRow /\ x.at \in Locked
    BY <1>0 DEF RequestRow, Places, Captured, Locked
  <2>2. Bound(x, store, conflicts)
    BY <1>0, <1>1 DEF StartRestore, At, Bound, RequestRow
  <2>3. op' = [op EXCEPT ![r] = x]
    BY <1>1 DEF StartRestore
  <2>4. lock = Nobody /\ lock' = r /\ UNCHANGED <<store, conflicts>> /\ Typed
    BY <1>1, SameTyped DEF StartRestore, TypeInv, TypeOK
  <2>. HIDE DEF x
  <2>. QED
    BY <2>1, <2>2, <2>3, <2>4, StaysBound
<1>2. CASE RestoreFile(r)
  <2>1. PICK p \in Paths : /\ op' = [op EXCEPT ![r].todo = @ \ {p}]
                           /\ Overwrites(p, store[op[r].target].files[p])
    BY <1>2 DEF RestoreFile
  <2>. DEFINE x == [op[r] EXCEPT !.todo = @ \ {p}]
  <2>2. op' = [op EXCEPT ![r] = x]
    BY <2>1
  <2>3. x \in RequestRow /\ x.at = op[r].at
    BY <1>0 DEF RequestRow
  <2>4. Bound(x, store, conflicts)
    BY <1>0 DEF Bound, RequestRow
  <2>5. op[r].target \in DOMAIN store
    BY <1>0, <1>2 DEF RestoreFile, Bound
  <2>6. workspace' \in Files /\ edits' = edits
    BY <2>1, <2>5, OverwritesType DEF Overwrites
  <2>7. Typed
    BY <1>2, <2>6 DEF RestoreFile, Typed, TypeInv, TypeOK
  <2>8. lock = r /\ lock' = lock /\ op[r].at \in Locked /\ UNCHANGED <<store, conflicts>>
    BY <1>0, <1>2 DEF RestoreFile, Locked
  <2>. HIDE DEF x
  <2>. QED
    BY <2>2, <2>3, <2>4, <2>7, <2>8, StaysBound
<1>3. CASE FinishRestore(r)
  <2>. DEFINE x == [op[r] EXCEPT !.at = "written", !.raced = {}]
  <2>1. x \in RequestRow /\ x.at \notin Locked
    BY <1>0 DEF RequestRow, Places, Locked
  <2>2. Bound(x, store, conflicts)
    BY <1>0, <1>3 DEF FinishRestore, Bound, RequestRow
  <2>3. op' = [op EXCEPT ![r] = x]
    BY <1>3 DEF FinishRestore
  <2>4. lock = r /\ lock' = Nobody /\ UNCHANGED <<store, conflicts>> /\ Typed
    BY <1>0, <1>3, SameTyped DEF FinishRestore, Locked, TypeInv, TypeOK
  <2>. HIDE DEF x
  <2>. QED
    BY <2>1, <2>2, <2>3, <2>4, StaysBound
<1>. QED
  BY <1>1, <1>2, <1>3

LEMMA LookingTypes ==
    ASSUME TypeInv, NEW r \in Requests, PreflightChecks(r) \/ CompareFile(r) \/ ReplaceFile(r)
    PROVE  TypeInv'
<1>0. /\ op[r] \in RequestRow /\ op \in [Requests -> RequestRow] /\ Bound(op[r], store, conflicts)
      /\ (lock = r <=> op[r].at \in Locked) /\ workspace \in Files
  BY RequestFacts DEF TypeInv, TypeOK
<1>1. CASE PreflightChecks(r)
  <2>. DEFINE pass == /\ metadata = owner /\ manifest = owner
                      /\ required => workspace[Instructions] # Absent
              x == [op[r] EXCEPT !.at = "checked", !.pass = pass]
  <2>0. pass \in BOOLEAN
    OBVIOUS
  <2>1. op' = [op EXCEPT ![r] = x]
    BY <1>1 DEF PreflightChecks
  <2>. HIDE DEF pass
  <2>2. x \in RequestRow /\ x.at \notin Locked
    BY <1>0, <2>0 DEF RequestRow, Places, Locked
  <2>3. Bound(x, store, conflicts)
    BY <1>0, <1>1 DEF PreflightChecks, At, Bound, RequestRow
  <2>4. lock # r /\ lock' = lock /\ UNCHANGED <<store, conflicts>> /\ Typed
    BY <1>0, <1>1, SameTyped DEF PreflightChecks, At, Locked, TypeInv, TypeOK
  <2>. HIDE DEF x
  <2>. QED
    BY <2>1, <2>2, <2>3, <2>4, StaysBound
<1>2. CASE CompareFile(r)
  <2>. DEFINE x == [op[r] EXCEPT !.at = "checked"]
  <2>1. op' = [op EXCEPT ![r] = x]
    BY <1>2 DEF CompareFile, Goes
  <2>2. x \in RequestRow /\ x.at \notin Locked
    BY <1>0 DEF RequestRow, Places, Locked
  <2>3. Bound(x, store, conflicts)
    BY <1>0, <1>2 DEF CompareFile, At, Bound, RequestRow
  <2>4. lock # r /\ lock' = lock /\ UNCHANGED <<store, conflicts>> /\ Typed
    BY <1>0, <1>2, SameTyped DEF CompareFile, At, Locked, TypeInv, TypeOK
  <2>. HIDE DEF x
  <2>. QED
    BY <2>1, <2>2, <2>3, <2>4, StaysBound
<1>3. CASE ReplaceFile(r)
  <2>. DEFINE x == [op[r] EXCEPT !.at = "written", !.raced = {}]
  <2>1. op' = [op EXCEPT ![r] = x]
    BY <1>3 DEF ReplaceFile
  <2>2. x \in RequestRow /\ x.at \notin Locked
    BY <1>0 DEF RequestRow, Places, Locked
  <2>3. Bound(x, store, conflicts)
    BY <1>0, <1>3 DEF ReplaceFile, At, Bound, RequestRow
  <2>4. op[r].target \in DOMAIN store /\ ConflictOf(r).path \in Paths
    BY <1>0, <1>3, StoreFacts DEF ReplaceFile, At, Bound, ConflictOf
  <2>5. workspace' \in Files /\ edits' = edits
    BY <1>3, <2>4, OverwritesType DEF ReplaceFile, Overwrites
  <2>6. Typed
    BY <1>3, <2>5 DEF ReplaceFile, Typed, TypeInv, TypeOK
  <2>7. lock # r /\ lock' = lock /\ UNCHANGED <<store, conflicts>>
    BY <1>0, <1>3 DEF ReplaceFile, At, Locked
  <2>. HIDE DEF x
  <2>. QED
    BY <2>1, <2>2, <2>3, <2>6, <2>7, StaysBound
<1>. QED
  BY <1>1, <1>2, <1>3

LEMMA CommitTypes ==
    ASSUME TypeInv, NEW r \in Requests, RecordPreflight(r) \/ CommitRestore(r)
    PROVE  TypeInv'
<1>1. /\ op' = [op EXCEPT ![r] = Idle] /\ Idle \in RequestRow /\ Idle.at \notin Locked
      /\ project' \in {"ready", "preflight"} /\ fresh' = {}
      /\ UNCHANGED <<owner, metadata, manifest, attempts, required, undone, disk, lock, store, conflicts>>
  BY IdleType DEF RecordPreflight, CommitRestore, Commits, SetStatus, Idle, Locked
<1>2. Typed
  BY <1>1 DEF Typed, TypeInv, TypeOK, Statuses
<1>3. lock # r
  BY RequestFacts DEF RecordPreflight, CommitRestore, At, Locked
<1>. QED
  BY <1>1, <1>2, <1>3, IdleBound, StaysBound

LEMMA CommitResolutionTypes ==
    ASSUME TypeInv, NEW r \in Requests, CommitResolution(r)
    PROVE  TypeInv' /\ Grows
<1>. DEFINE i == op[r].item
            c == op[r].made
            item == [conflicts[i] EXCEPT !.resolution = op[r].kind]
<1>1. /\ op' = [op EXCEPT ![r] = Idle] /\ Idle \in RequestRow /\ Idle.at \notin Locked
      /\ project' = "preflight" /\ fresh' = {}
      /\ UNCHANGED <<owner, metadata, manifest, attempts, required, undone, disk, lock>>
      /\ op[r].kind \in {"keep", "merge", "agent"} /\ op[r].at \in {"checked", "written"}
      /\ conflicts' = [conflicts EXCEPT ![i] = item]
      /\ store' = [d \in DOMAIN store |-> IF d = c THEN [store[d] EXCEPT !.row = TRUE] ELSE store[d]]
  BY IdleType DEF CommitResolution, Commits, SetStatus, Idle, At, Locked
<1>2. /\ i \in DOMAIN conflicts /\ i \in 1..Len(conflicts) /\ DOMAIN conflicts = 1..Len(conflicts)
      /\ conflicts[i] \in ConflictRow /\ conflicts \in Seq(ConflictRow)
      /\ Len(conflicts) <= MaxConflicts
  BY <1>1, RequestFacts, StoreFacts DEF Bound, TypeInv, TypeOK
<1>3. item \in ConflictRow /\ item.path = conflicts[i].path
  BY <1>1, <1>2 DEF ConflictRow, Resolutions
<1>4. /\ conflicts' \in Seq(ConflictRow) /\ Len(conflicts') = Len(conflicts)
      /\ DOMAIN conflicts' = DOMAIN conflicts
      /\ \A j \in DOMAIN conflicts : conflicts'[j].path = conflicts[j].path
  <2>. HIDE DEF i, item
  <2>1. /\ [conflicts EXCEPT ![i] = item] \in Seq(ConflictRow)
        /\ Len([conflicts EXCEPT ![i] = item]) = Len(conflicts)
        /\ DOMAIN [conflicts EXCEPT ![i] = item] = DOMAIN conflicts
        /\ \A j \in 1..Len(conflicts) :
               [conflicts EXCEPT ![i] = item][j] = IF j = i THEN item ELSE conflicts[j]
    BY <1>2, <1>3, ExceptSeq
  <2>. QED
    BY <1>1, <1>2, <1>3, <2>1
<1>5. /\ store' \in Seq(CheckpointRow) /\ Len(store') = Len(store) /\ DOMAIN store' = DOMAIN store
      /\ \A d \in DOMAIN store : /\ store'[d].files = store[d].files
                                 /\ store[d].row => store'[d].row
  <2>1. /\ store \in Seq(CheckpointRow) /\ Len(store) \in Nat /\ DOMAIN store = 1..Len(store)
        /\ \A d \in DOMAIN store : store[d] \in CheckpointRow
    BY StoreFacts DEF TypeInv, TypeOK
  <2>2. \A d \in DOMAIN store :
            /\ [store[d] EXCEPT !.row = TRUE] \in CheckpointRow
            /\ [store[d] EXCEPT !.row = TRUE].files = store[d].files
            /\ [store[d] EXCEPT !.row = TRUE].row
    BY <2>1 DEF CheckpointRow
  <2>3. DOMAIN store' = DOMAIN store /\ store' \in [1..Len(store) -> CheckpointRow]
    BY <1>1, <2>1, <2>2
  <2>4. store' \in Seq(CheckpointRow) /\ Len(store') = Len(store)
    BY <2>1, <2>3, SeqDef, LenProperties
  <2>. QED
    BY <1>1, <2>2, <2>3, <2>4
<1>6. Grows
  BY <1>4, <1>5 DEF Grows
<1>7. Typed
  BY <1>1, <1>2, <1>4, <1>5 DEF Typed, TypeInv, TypeOK, Statuses
<1>8. lock # r
  BY <1>1, RequestFacts DEF Locked
<1>9. Moves(r, Idle)
  BY <1>1, RequestFacts DEF Moves, Locked
<1>. QED
  BY <1>5, <1>6, <1>7, <1>9, IdleBound, MovesKeepsTypes DEF StoreSteps

LEMMA EndsTypes ==
    ASSUME TypeInv, NEW r \in Requests, Ends(r)
    PROVE  TypeInv'
<1>1. /\ Over(r) /\ lock' = (IF lock = r THEN Nobody ELSE lock) /\ fresh' \subseteq Requests
      /\ UNCHANGED <<registry, disk, store, conflicts>>
  BY DEF Ends, Over, TypeInv, TypeOK
<1>. QED
  BY <1>1, SameTyped, OverType DEF StoreSteps

LEMMA EditTypes ==
    ASSUME TypeInv, NEW p \in Paths, NEW content \in {Absent, edits + 1}, Edit(p, content)
    PROVE  TypeInv'
<1>1. edits + 1 \in 0..MaxEdits /\ workspace' \in Files
  <2>1. edits + 1 \in 0..MaxEdits
    BY Parameters DEF Edit, TypeInv, TypeOK
  <2>2. content \in Contents
    BY <2>1 DEF Contents
  <2>. QED
    BY <2>1, <2>2 DEF Edit, Files, TypeInv, TypeOK
<1>2. \A r \in Requests : op'[r] = op[r] \/ op'[r] = [op[r] EXCEPT !.raced = op[r].raced \cup {p}]
  BY DEF Edit
<1>3. ASSUME NEW r \in Requests
      PROVE  /\ op'[r] \in RequestRow /\ op'[r].at = op[r].at
             /\ Bound(op'[r], store, conflicts)
  <2>1. op[r] \in RequestRow /\ Bound(op[r], store, conflicts)
    BY RequestFacts
  <2>2. CASE op'[r] = op[r]
    BY <2>1, <2>2
  <2>. DEFINE x == [op[r] EXCEPT !.raced = op[r].raced \cup {p}]
  <2>3. CASE op'[r] = x
    <3>1. x \in RequestRow /\ x.at = op[r].at
      BY <2>1 DEF RequestRow
    <3>2. Bound(x, store, conflicts)
      BY <2>1 DEF Bound, RequestRow
    <3>. QED
      BY <2>3, <3>1, <3>2
  <2>. QED
    BY <1>2, <2>2, <2>3
<1>4. op' \in [Requests -> RequestRow]
  BY <1>3 DEF Edit
<1>. QED
  BY <1>1, <1>3, <1>4 DEF Edit, TypeInv, TypeOK

LEMMA CrashTypes ==
    ASSUME TypeInv, Crash
    PROVE  TypeInv'
<1>1. op' \in [Requests -> RequestRow] /\ \A r \in Requests : op'[r] = Idle
  BY IdleType DEF Crash
<1>2. \A r \in Requests : lock' # r
  BY ProjectFilesAssumption DEF Crash
<1>. QED
  BY <1>1, <1>2, IdleBound DEF Crash, Idle, TypeInv, TypeOK

LEMMA TypeInit == Init => TypeInv
<1>. SUFFICES ASSUME Init PROVE TypeInv
  OBVIOUS
<1>1. /\ workspace \in Files /\ op \in [Requests -> RequestRow] /\ \A r \in Requests : op[r] = Idle
  BY Parameters, IdleType DEF Init, Files
<1>2. \A r \in Requests : lock # r
  BY ProjectFilesAssumption DEF Init
<1>3. /\ store \in Seq(CheckpointRow) /\ Len(store) = 0 /\ conflicts \in Seq(ConflictRow)
      /\ Len(conflicts) = 0
  BY EmptySeq DEF Init
<1>4. /\ {owner, metadata, manifest, attempts} \subseteq 0..MaxAttempts /\ edits \in 0..MaxEdits
      /\ Len(store) <= MaxCheckpoints /\ Len(conflicts) <= MaxConflicts
      /\ project \in Statuses /\ {required, undone} \subseteq BOOLEAN
      /\ lock \in Requests \cup {Nobody} /\ fresh \subseteq Requests
  <2>1. /\ 0 \in 0..MaxAttempts /\ 0 \in 0..MaxEdits /\ 0 <= MaxCheckpoints /\ 0 <= MaxConflicts
    BY Parameters
  <2>2. {owner, metadata, manifest, attempts} \subseteq 0..MaxAttempts /\ edits \in 0..MaxEdits
    BY <2>1 DEF Init
  <2>3. /\ project \in Statuses /\ {required, undone} \subseteq BOOLEAN
        /\ lock \in Requests \cup {Nobody} /\ fresh \subseteq Requests
    BY DEF Init, Statuses
  <2>. QED
    BY <1>3, <2>1, <2>2, <2>3
<1>5. \A r \in Requests : op[r].at \notin {"capturing", "writing"}
  BY <1>1 DEF Idle
<1>. QED
  BY <1>1, <1>2, <1>3, <1>4, <1>5, IdleBound DEF TypeInv, TypeOK

LEMMA TypeStep == TypeInv /\ [Next]_vars => TypeInv'
<1>. SUFFICES ASSUME TypeInv, [Next]_vars PROVE TypeInv'
  OBVIOUS
<1>1. ASSUME NEW r \in Requests,
             \/ Lookup(r) \/ CheckUnused(r) \/ CreateMetadata(r) \/ WriteManifest(r)
             \/ Register(r) \/ RegisterFails(r)
             \/ BeginPreflight(r) \/ PreflightChecks(r) \/ RecordPreflight(r)
             \/ BeginCheckpoint(r) \/ PlanRestore(r) \/ Scan(r) \/ AcceptAgent(r)
             \/ BeginCapture(r) \/ CaptureFile(r) \/ Publish(r)
             \/ RecordCheckpoint(r) \/ RecordScan(r)
             \/ BeginRestore(r) \/ StartRestore(r) \/ RestoreFile(r) \/ FinishRestore(r)
             \/ CommitRestore(r)
             \/ Resolve(r) \/ CompareFile(r) \/ ReplaceFile(r) \/ CommitResolution(r)
             \/ Ends(r)
      PROVE  TypeInv'
  BY <1>1, RegistrationTypes, ReadingTypes, CaptureTypes, RecordCheckpointTypes, RecordScanTypes,
     RestoreTypes, LookingTypes, CommitTypes, CommitResolutionTypes, EndsTypes
<1>2. CASE Open \/ Close
  BY <1>2 DEF Open, Close, SetStatus, TypeInv, TypeOK, Statuses
<1>3. CASE UNCHANGED vars
  BY <1>3 DEF vars, TypeInv, TypeOK
<1>. QED
  BY <1>1, <1>2, <1>3, EditTypes, CrashTypes DEF Next

LEMMA TypeInvInductive == Spec => []TypeInv
BY TypeInit, TypeStep, PTL DEF Spec

(* Every variable keeps its type, and the lock of the checkpoint store is  *)
(* held exactly by the request whose thread captures or restores.          *)
THEOREM TypeCorrect == Spec => []TypeOK
BY TypeInvInductive, PTL DEF TypeInv

-----------------------------------------------------------------------------
(* A closed project: closing refuses the version every request under way   *)
(* names, and a closed project answers no new request.                     *)
ClosedInv == project \in {"none", "closed"} => fresh = {}

LEMMA ClosedInvInductive == Spec => []ClosedInv
<1>1. Init => ClosedInv
  BY DEF Init, ClosedInv
<1>2. ClosedInv /\ [Next]_vars => ClosedInv'
  <2>. SUFFICES ASSUME ClosedInv, [Next]_vars PROVE ClosedInv'
    OBVIOUS
  <2>1. ASSUME fresh' = {} \/ (fresh' \subseteq fresh /\ project' = project) PROVE ClosedInv'
    BY <2>1 DEF ClosedInv
  <2>2. ASSUME NEW r \in Requests, NEW new, NEW current \in BOOLEAN, Reads(r, new, current)
        PROVE  ClosedInv'
    BY <2>2 DEF Reads, ClosedInv
  <2>3. ASSUME NEW r \in Requests,
               \/ BeginPreflight(r) \/ BeginCheckpoint(r) \/ PlanRestore(r) \/ Scan(r)
               \/ AcceptAgent(r) \/ BeginRestore(r) \/ Resolve(r)
        PROVE  ClosedInv'
    BY <2>2, <2>3 DEF BeginPreflight, BeginCheckpoint, PlanRestore, Scan, AcceptAgent, BeginRestore,
                      Resolve
  <2>4. ASSUME NEW r \in Requests,
               \/ Lookup(r) \/ CheckUnused(r) \/ CreateMetadata(r) \/ WriteManifest(r)
               \/ Register(r) \/ RegisterFails(r) \/ PreflightChecks(r) \/ RecordPreflight(r)
        PROVE  ClosedInv'
    BY <2>1, <2>4 DEF Lookup, CheckUnused, CreateMetadata, WriteManifest, Register, RegisterFails,
                      PreflightChecks, RecordPreflight, Commits, SetStatus, Over
  <2>5. ASSUME NEW r \in Requests,
               \/ BeginCapture(r) \/ CaptureFile(r) \/ Publish(r) \/ RecordCheckpoint(r)
               \/ RecordScan(r) \/ StartRestore(r) \/ RestoreFile(r) \/ FinishRestore(r)
               \/ CommitRestore(r) \/ CompareFile(r) \/ ReplaceFile(r) \/ CommitResolution(r)
               \/ Ends(r)
        PROVE  ClosedInv'
    BY <2>1, <2>5 DEF BeginCapture, CaptureFile, Publish, RecordCheckpoint, RecordScan, StartRestore,
                      RestoreFile, FinishRestore, CommitRestore, CompareFile, ReplaceFile,
                      CommitResolution, Ends, Commits, SetStatus, Over
  <2>6. CASE Open \/ Close \/ Crash \/ UNCHANGED vars
             \/ \E p \in Paths : \E content \in {Absent, edits + 1} : Edit(p, content)
    BY <2>1, <2>6 DEF Open, Close, SetStatus, Crash, vars, Edit
  <2>. QED
    BY <2>3, <2>4, <2>5, <2>6 DEF Next
<1>. QED
  BY <1>1, <1>2, PTL DEF Spec

(* A closed project stays closed until its user opens it: the preflights,  *)
(* restores and resolutions that were under way name an older version.     *)
THEOREM ClosedStaysCorrect == Spec => ClosedStays
<1>. DEFINE Stays == project = "closed" /\ project' # "closed" => UNCHANGED op
<1>1. ClosedInv /\ [Next]_vars => [Stays]_vars
  <2>. SUFFICES ASSUME ClosedInv, [Next]_vars, project = "closed", project' # "closed"
                PROVE  UNCHANGED op
    OBVIOUS
  <2>0. fresh = {}
    BY DEF ClosedInv
  <2>1. ASSUME project' = project PROVE FALSE
    BY <2>1
  <2>2. ASSUME NEW r \in Requests, NEW new, NEW current \in BOOLEAN, Reads(r, new, current)
        PROVE  FALSE
    BY <2>2 DEF Reads
  <2>3. ASSUME NEW r \in Requests,
               \/ BeginPreflight(r) \/ BeginCheckpoint(r) \/ PlanRestore(r) \/ Scan(r)
               \/ AcceptAgent(r) \/ BeginRestore(r) \/ Resolve(r)
        PROVE  FALSE
    BY <2>2, <2>3 DEF BeginPreflight, BeginCheckpoint, PlanRestore, Scan, AcceptAgent, BeginRestore,
                      Resolve
  <2>4. ASSUME NEW r \in Requests,
               \/ Lookup(r) \/ CheckUnused(r) \/ CreateMetadata(r) \/ WriteManifest(r)
               \/ Register(r) \/ RegisterFails(r) \/ PreflightChecks(r) \/ RecordPreflight(r)
        PROVE  FALSE
    BY <2>0, <2>1, <2>4 DEF Lookup, CheckUnused, CreateMetadata, WriteManifest, Register,
                            RegisterFails, PreflightChecks, RecordPreflight, Commits
  <2>5. ASSUME NEW r \in Requests,
               \/ BeginCapture(r) \/ CaptureFile(r) \/ Publish(r) \/ RecordCheckpoint(r)
               \/ RecordScan(r) \/ StartRestore(r) \/ RestoreFile(r) \/ FinishRestore(r)
               \/ CommitRestore(r) \/ CompareFile(r) \/ ReplaceFile(r) \/ CommitResolution(r)
               \/ Ends(r)
        PROVE  FALSE
    BY <2>0, <2>1, <2>5 DEF BeginCapture, CaptureFile, Publish, RecordCheckpoint, RecordScan,
                      StartRestore, RestoreFile, FinishRestore, CommitRestore, CompareFile,
                      ReplaceFile, CommitResolution, Ends, Commits
  <2>6. CASE Close \/ Crash \/ UNCHANGED vars
             \/ \E p \in Paths : \E content \in {Absent, edits + 1} : Edit(p, content)
    BY <2>1, <2>6 DEF Close, SetStatus, Crash, vars, Edit
  <2>7. CASE Open
    BY <2>7 DEF Open
  <2>. QED
    BY <2>3, <2>4, <2>5, <2>6, <2>7 DEF Next
<1>2. Spec => [][Stays]_vars
  BY <1>1, ClosedInvInductive, PTL DEF Spec
<1>. QED
  BY <1>2 DEF ClosedStays

-----------------------------------------------------------------------------
(* Registration.  Attempts are numbered apart; the files an attempt has    *)
(* written name it until it registers or cleans up, and no attempt under   *)
(* way is the registered one.                                              *)
Registering(r) == op[r].kind = "register"
OwnFiles(r) == /\ op[r].at \in {"marked", "described"} => metadata = op[r].me
               /\ op[r].at = "described" => manifest = op[r].me
RegistrationInv ==
    /\ \A r \in Requests : Registering(r) => /\ op[r].me \in 1..attempts
                                             /\ project # "none" => op[r].me # owner
                                             /\ OwnFiles(r)
    /\ \A r, q \in Requests : Registering(r) /\ Registering(q) /\ op[r].me = op[q].me => r = q
    /\ project # "none" => owner \in 1..attempts
    /\ RegisteredBacked

(* A step that registers nothing.                                          *)
Apart ==
    /\ UNCHANGED <<owner, metadata, manifest, attempts, undone>>
    /\ project = "none" <=> project' = "none"
    /\ \A q \in Requests : op'[q].kind = "register" =>
           /\ op[q].kind = "register" /\ op'[q].at = op[q].at /\ op'[q].me = op[q].me

LEMMA OneApart ==
    ASSUME TypeInv, NEW r \in Requests, NEW x, op' = [op EXCEPT ![r] = x], x.kind # "register",
           UNCHANGED <<owner, metadata, manifest, attempts, undone>>,
           project = "none" <=> project' = "none"
    PROVE  Apart
<1>1. op'[r] = x /\ \A q \in Requests : q # r => op'[q] = op[q]
  BY RequestFacts
<1>. QED
  BY <1>1 DEF Apart

LEMMA ReadsApart ==
    ASSUME TypeInv, NEW r \in Requests,
           \/ BeginPreflight(r) \/ BeginCheckpoint(r) \/ PlanRestore(r) \/ Scan(r) \/ AcceptAgent(r)
           \/ BeginRestore(r) \/ Resolve(r)
    PROVE  Apart
<1>1. ASSUME NEW new, NEW current, Reads(r, new, current), new.kind # "register" PROVE Apart
  BY <1>1, OneApart DEF Reads, Starts
<1>2. ASSUME NEW k, k # "register" PROVE [Idle EXCEPT !.kind = k, !.at = "waiting"].kind # "register"
  BY <1>2 DEF Idle
<1>3. CASE BeginPreflight(r) \/ BeginCheckpoint(r) \/ PlanRestore(r)
  BY <1>1, <1>2, <1>3 DEF BeginPreflight, BeginCheckpoint, PlanRestore
<1>4. CASE Scan(r)
  <2>1. PICK baseline \in Rows, agent \in Rows \cup {0} :
            Reads(r, [Idle EXCEPT !.kind = "scan", !.at = "waiting", !.other = baseline,
                                  !.target = agent], FALSE)
    BY <1>4 DEF Scan
  <2>2. [Idle EXCEPT !.kind = "scan", !.at = "waiting", !.other = baseline,
                     !.target = agent].kind = "scan"
    BY DEF Idle
  <2>. QED
    BY <1>1, <2>1, <2>2
<1>5. CASE AcceptAgent(r)
  <2>1. PICK i \in DOMAIN conflicts, agent \in Rows, current \in BOOLEAN :
            Reads(r, [Idle EXCEPT !.kind = "agent", !.at = "waiting", !.item = i, !.target = agent],
                  current)
    BY <1>5 DEF AcceptAgent
  <2>2. [Idle EXCEPT !.kind = "agent", !.at = "waiting", !.item = i, !.target = agent].kind = "agent"
    BY DEF Idle
  <2>. QED
    BY <1>1, <2>1, <2>2
<1>6. CASE BeginRestore(r)
  <2>1. PICK target \in Rows, protection \in Rows, current \in BOOLEAN :
            Reads(r, [Idle EXCEPT !.kind = "restore", !.at = "waiting", !.target = target,
                                  !.other = protection], current)
    BY <1>6 DEF BeginRestore
  <2>2. [Idle EXCEPT !.kind = "restore", !.at = "waiting", !.target = target,
                     !.other = protection].kind = "restore"
    BY DEF Idle
  <2>. QED
    BY <1>1, <2>1, <2>2
<1>7. CASE Resolve(r)
  <2>1. PICK i \in DOMAIN conflicts, k \in {"keep", "merge"}, current \in BOOLEAN :
            Reads(r, [Idle EXCEPT !.kind = k, !.at = "waiting", !.item = i], current)
    BY <1>7 DEF Resolve
  <2>2. [Idle EXCEPT !.kind = k, !.at = "waiting", !.item = i].kind # "register"
    BY DEF Idle
  <2>. QED
    BY <1>1, <2>1, <2>2
<1>. QED
  BY <1>3, <1>4, <1>5, <1>6, <1>7

LEMMA OverApart ==
    ASSUME TypeInv, NEW r \in Requests, op' = [op EXCEPT ![r] = Idle],
           UNCHANGED <<owner, metadata, manifest, attempts, undone>>,
           project = "none" <=> project' = "none"
    PROVE  Apart
<1>1. Idle.kind # "register"
  BY DEF Idle
<1>. QED
  BY <1>1, OneApart

LEMMA MovesApart ==
    ASSUME TypeInv, NEW r \in Requests,
           \/ PreflightChecks(r) \/ BeginCapture(r) \/ CaptureFile(r) \/ Publish(r)
           \/ StartRestore(r) \/ RestoreFile(r) \/ FinishRestore(r) \/ CompareFile(r) \/ ReplaceFile(r)
    PROVE  Apart
<1>1. op[r] \in RequestRow /\ Bound(op[r], store, conflicts) /\ UNCHANGED registry
  BY RequestFacts DEF PreflightChecks, BeginCapture, CaptureFile, Publish, StartRestore, RestoreFile,
                      FinishRestore, CompareFile, ReplaceFile
<1>2. op[r].kind # "register"
  BY <1>1 DEF PreflightChecks, BeginCapture, CaptureFile, Publish, StartRestore, RestoreFile,
              FinishRestore, CompareFile, ReplaceFile, At, Bound
<1>3. \A q \in Requests : op'[q].kind = op[q].kind /\ (q # r => op'[q] = op[q])
  <2>1. op \in [Requests -> RequestRow]
    BY RequestFacts
  <2>2. CASE CaptureFile(r)
    <3>1. PICK p \in Paths :
              op' = [op EXCEPT ![r].todo = @ \ {p}, ![r].got[p] = workspace[p], ![r].raced = @ \ {p}]
      BY <2>2 DEF CaptureFile
    <3>. QED
      BY <1>1, <2>1, <3>1 DEF RequestRow
  <2>5. CASE RestoreFile(r)
    <3>1. PICK p \in Paths : op' = [op EXCEPT ![r].todo = @ \ {p}]
      BY <2>5 DEF RestoreFile
    <3>. QED
      BY <1>1, <2>1, <3>1 DEF RequestRow
  <2>3. CASE PreflightChecks(r) \/ BeginCapture(r) \/ Publish(r) \/ CompareFile(r) \/ ReplaceFile(r)
    BY <1>1, <2>1, <2>3 DEF PreflightChecks, BeginCapture, Publish, CompareFile, ReplaceFile, Goes,
                            RequestRow
  <2>4. CASE StartRestore(r) \/ FinishRestore(r)
    BY <1>1, <2>1, <2>4 DEF StartRestore, FinishRestore, RequestRow
  <2>. QED
    BY <2>2, <2>3, <2>4, <2>5
<1>. QED
  BY <1>1, <1>2, <1>3 DEF Apart

LEMMA RestApart ==
    ASSUME TypeInv, ClosedInv, NEW r \in Requests,
           \/ RecordPreflight(r) \/ RecordCheckpoint(r) \/ RecordScan(r) \/ CommitRestore(r)
           \/ CommitResolution(r) \/ Ends(r)
    PROVE  Apart
<1>1. op' = [op EXCEPT ![r] = Idle] /\ UNCHANGED <<owner, metadata, manifest, attempts, undone>>
  BY DEF RecordPreflight, RecordCheckpoint, RecordScan, CommitRestore, CommitResolution, Ends,
         Commits, Over
<1>2. project = "none" <=> project' = "none"
  BY DEF RecordPreflight, RecordCheckpoint, RecordScan, CommitRestore, CommitResolution, Ends,
         Commits, SetStatus, ClosedInv
<1>. QED
  BY <1>1, <1>2, OverApart

LEMMA OutsideApart ==
    ASSUME TypeInv,
           \/ Open \/ Close \/ Crash \/ UNCHANGED vars
           \/ \E p \in Paths : \E content \in {Absent, edits + 1} : Edit(p, content)
    PROVE  Apart
<1>1. CASE Open \/ Close \/ UNCHANGED vars
  BY <1>1 DEF Open, Close, SetStatus, vars, Apart
<1>2. CASE Crash
  BY <1>2 DEF Crash, Apart, Idle
<1>3. ASSUME NEW p, NEW content, Edit(p, content) PROVE Apart
  <2>1. \A q \in Requests : op[q] \in RequestRow
    BY RequestFacts
  <2>2. \A q \in Requests : op'[q] = op[q] \/ op'[q] = [op[q] EXCEPT !.raced = op[q].raced \cup {p}]
    BY <1>3 DEF Edit
  <2>3. \A q \in Requests : /\ op'[q].kind = op[q].kind /\ op'[q].at = op[q].at
                            /\ op'[q].me = op[q].me
    BY <2>1, <2>2 DEF RequestRow
  <2>. QED
    BY <1>3, <2>3 DEF Edit, Apart
<1>. QED
  BY <1>1, <1>2, <1>3

LEMMA ApartKeeps ==
    ASSUME RegistrationInv, Apart
    PROVE  RegistrationInv'
BY DEF RegistrationInv, Registering, OwnFiles, RegisteredBacked, Apart

(* An attempt under way changes only its own row.                          *)
LEMMA AttemptMoves ==
    ASSUME TypeInv, NEW r \in Requests,
           \/ Lookup(r) \/ CheckUnused(r) \/ CreateMetadata(r) \/ WriteManifest(r)
           \/ Register(r) \/ RegisterFails(r)
    PROVE  \A q \in Requests : q # r => op'[q] = op[q]
BY RequestFacts DEF Lookup, CheckUnused, CreateMetadata, WriteManifest, Register, RegisterFails,
                    Starts, Goes, Over

LEMMA AttemptKeeps ==
    ASSUME TypeInv, RegistrationInv, NEW r \in Requests,
           \/ Lookup(r) \/ CheckUnused(r) \/ CreateMetadata(r) \/ WriteManifest(r)
           \/ Register(r) \/ RegisterFails(r)
    PROVE  RegistrationInv'
<1>0. /\ \A q \in Requests : q # r => op'[q] = op[q]
      /\ Idle.kind # "register" /\ Idle.me = 0
      /\ attempts \in Nat /\ op[r] \in RequestRow
  BY AttemptMoves, RequestFacts, Parameters DEF Idle, TypeInv, TypeOK
<1>1. CASE Lookup(r)
  <2>1. /\ op'[r].kind = "register" /\ op'[r].me = attempts + 1 /\ op'[r].at = "lookup"
        /\ attempts' = attempts + 1 /\ project = "none"
        /\ UNCHANGED <<project, owner, metadata, manifest, undone>>
    BY <1>1, RequestFacts DEF Lookup, Starts, Idle
  <2>2. \A q \in Requests : q # r /\ Registering(q)' => Registering(q) /\ op'[q].me \in 1..attempts
    BY <1>0 DEF RegistrationInv, Registering
  <2>. QED
    BY <1>0, <2>1, <2>2 DEF RegistrationInv, Registering, OwnFiles, RegisteredBacked
<1>2. CASE CheckUnused(r)
  <2>1. UNCHANGED registry /\ (op'[r] = Idle \/ (op'[r].kind = op[r].kind /\ op'[r].me = op[r].me /\ op'[r].at = "empty"))
    BY <1>2, RequestFacts DEF CheckUnused, Over, Goes, RequestRow
  <2>. QED
    BY <1>0, <2>1 DEF RegistrationInv, Registering, OwnFiles, RegisteredBacked
<1>3. CASE CreateMetadata(r)
  <2>1. /\ UNCHANGED <<project, owner, manifest, attempts, undone>>
        /\ \/ metadata = 0 /\ metadata' = op[r].me
           \/ op'[r] = Idle /\ metadata' = metadata
        /\ \/ op'[r] = Idle
           \/ op'[r].kind = op[r].kind /\ op'[r].me = op[r].me /\ op'[r].at = "marked" /\ metadata = 0
    BY <1>3, RequestFacts DEF CreateMetadata, Over, Goes, RequestRow
  <2>2. ASSUME metadata = 0, NEW q \in Requests, Registering(q)
        PROVE  op[q].at \notin {"marked", "described"}
    BY <1>0, <2>2 DEF RegistrationInv, OwnFiles
  <2>3. metadata = 0 /\ project # "none" => undone
    BY <1>0 DEF RegistrationInv, RegisteredBacked
  <2>4. Registering(r)
    BY <1>3 DEF CreateMetadata, At, Registering
  <2>. QED
    BY <1>0, <2>1, <2>2, <2>3, <2>4 DEF RegistrationInv, Registering, OwnFiles, RegisteredBacked
<1>4. CASE WriteManifest(r)
  <2>1. /\ UNCHANGED <<project, owner, metadata, attempts, undone>>
        /\ manifest = 0 /\ manifest' = op[r].me /\ metadata = op[r].me
        /\ op'[r].kind = op[r].kind /\ op'[r].me = op[r].me /\ op'[r].at = "described"
    BY <1>4, RequestFacts DEF WriteManifest, Goes, RequestRow
  <2>2. ASSUME NEW q \in Requests, Registering(q) PROVE op[q].at # "described"
    BY <1>0, <2>1, <2>2 DEF RegistrationInv, OwnFiles
  <2>3. Registering(r) /\ (project # "none" => undone)
    BY <1>4, <2>1 DEF WriteManifest, At, Registering, RegistrationInv, RegisteredBacked
  <2>. QED
    BY <1>0, <2>1, <2>2, <2>3 DEF RegistrationInv, Registering, OwnFiles, RegisteredBacked
<1>5. ASSUME Registering(r), op[r].at \in {"marked", "described"}, NEW q \in Requests, q # r,
             Registering(q)
      PROVE  op[q].at \notin {"marked", "described"}
  BY <1>5 DEF RegistrationInv, OwnFiles
<1>6. CASE Register(r)
  <2>1. /\ op'[r] = Idle /\ project = "none" /\ project' = "preflight" /\ owner' = op[r].me
        /\ Registering(r) /\ op[r].at = "described" /\ attempts' = attempts
        /\ UNCHANGED <<metadata, manifest, undone>> \/ undone'
    BY <1>6, RequestFacts DEF Register, At, Registering
  <2>2. \A q \in Requests : q # r /\ Registering(q) => op[q].me # op[r].me
    BY <2>1 DEF RegistrationInv
  <2>3. metadata = op[r].me /\ manifest = op[r].me /\ op[r].me \in 1..attempts
    BY <2>1 DEF RegistrationInv, OwnFiles
  <2>. QED
    BY <1>0, <1>5, <2>1, <2>2, <2>3 DEF RegistrationInv, Registering, OwnFiles, RegisteredBacked
<1>7. CASE RegisterFails(r)
  <2>1. /\ op'[r] = Idle /\ Registering(r) /\ op[r].at \in {"marked", "described"}
        /\ UNCHANGED <<project, owner, attempts, undone>>
    BY <1>7, RequestFacts DEF RegisterFails, Over, Registering
  <2>2. metadata = op[r].me /\ (project # "none" => undone)
    BY <2>1 DEF RegistrationInv, OwnFiles, RegisteredBacked
  <2>. QED
    BY <1>0, <1>5, <2>1, <2>2 DEF RegistrationInv, Registering, OwnFiles, RegisteredBacked
<1>. QED
  BY <1>1, <1>2, <1>3, <1>4, <1>6, <1>7

LEMMA RegistrationInvInductive == Spec => []RegistrationInv
<1>1. Init => RegistrationInv
  BY DEF Init, RegistrationInv, Registering, RegisteredBacked, Idle
<1>2. TypeInv /\ ClosedInv /\ RegistrationInv /\ [Next]_vars => RegistrationInv'
  BY AttemptKeeps, ApartKeeps, ReadsApart, MovesApart, RestApart, OutsideApart DEF Next
<1>. QED
  BY <1>1, <1>2, TypeInvInductive, ClosedInvInductive, PTL DEF Spec

(* The metadata in the directory of a registered project is that of the    *)
(* project, however many registrations of the directory raced or failed,   *)
(* unless a cancellation hit the commit of the registration.               *)
THEOREM RegisteredBackedCorrect == Spec => []RegisteredBacked
BY RegistrationInvInductive, PTL DEF RegistrationInv

-----------------------------------------------------------------------------
(* The files of the project.  Under the lock of the store the files of a   *)
(* restore are those of its protection until they are written and those of *)
(* its target afterwards, and the file the agents' side of a conflict will *)
(* replace is in the checkpoint just captured; what is edited from outside *)
(* meanwhile is marked.                                                    *)
Kept(p, work, files) == work[p] = Absent \/ \E c \in DOMAIN files : files[c].files[p] = work[p]
Writing(o, work, target, protection) ==
    /\ o.todo \subseteq Captured(target)
    /\ \A p \in Captured(target) \ o.raced :
           work[p] = IF p \in o.todo THEN protection[p] ELSE target[p]
Sound(o, work, files, items) ==
    /\ o.at = "waiting" => o.got = NoFiles
    /\ o.at = "writing" => Writing(o, work, files[o.target].files, files[o.other].files)
    /\ o.kind = "agent" /\ o.at = "capturing" =>
           LET p == items[o.item].path IN p \notin o.raced \cup o.todo => o.got[p] = work[p]
    /\ o.kind = "agent" /\ o.at = "captured" =>
           LET p == items[o.item].path IN p \notin o.raced => Kept(p, work, files)
FilesInv == \A r \in Requests : Sound(op[r], workspace, store, conflicts)

LEMMA SameGrows == UNCHANGED <<store, conflicts>> => Grows
BY DEF Grows

LEMMA PublishGrows ==
    ASSUME TypeInv, NEW r \in Requests, Publish(r)
    PROVE  /\ Grows /\ Len(store) + 1 \in DOMAIN store'
           /\ store'[Len(store) + 1].files = op[r].got
<1>. DEFINE c == [files |-> op[r].got, row |-> FALSE]
<1>1. c \in CheckpointRow /\ store \in Seq(CheckpointRow) /\ store' = Append(store, c)
  BY RequestFacts DEF Publish, CheckpointRow, TypeInv, TypeOK
<1>2. c.files = op[r].got
  OBVIOUS
<1>. HIDE DEF c
<1>3. /\ store' \in Seq(CheckpointRow) /\ Len(store') = Len(store) + 1 /\ store'[Len(store) + 1] = c
      /\ \A i \in 1..Len(store) : store'[i] = store[i]
      /\ DOMAIN store' = 1..Len(store) + 1 /\ DOMAIN store = 1..Len(store) /\ Len(store) \in Nat
  BY <1>1, AppendProperties, LenProperties
<1>. QED
  BY <1>2, <1>3 DEF Publish, Grows

LEMMA GrowsKeepsSound ==
    ASSUME TypeInv, NEW o, Bound(o, store, conflicts), Sound(o, workspace, store, conflicts), Grows
    PROVE  Sound(o, workspace, store', conflicts')
<1>1. CASE o.at = "writing"
  <2>1. o.target \in DOMAIN store /\ o.other \in DOMAIN store
    BY <1>1 DEF Bound
  <2>2. store'[o.target].files = store[o.target].files /\ store'[o.other].files = store[o.other].files
    BY <2>1 DEF Grows
  <2>. QED
    BY <1>1, <2>2 DEF Sound
<1>2. CASE o.kind = "agent" /\ o.at \in {"capturing", "captured"}
  <2>1. conflicts'[o.item].path = conflicts[o.item].path
    BY <1>2 DEF Bound, Grows
  <2>2. \A p : Kept(p, workspace, store) => Kept(p, workspace, store')
    BY DEF Kept, Grows
  <2>. QED
    BY <1>2, <2>1, <2>2 DEF Sound
<1>3. CASE o.at # "writing" /\ ~(o.kind = "agent" /\ o.at \in {"capturing", "captured"})
  BY <1>3 DEF Sound
<1>. QED
  BY <1>1, <1>2, <1>3

(* A step that leaves the files alone, by one request.                     *)
LEMMA RowKeepsFiles ==
    ASSUME TypeInv, FilesInv, NEW r \in Requests, NEW x, op' = [op EXCEPT ![r] = x],
           workspace' = workspace, Grows, Sound(x, workspace, store', conflicts')
    PROVE  FilesInv'
<1>1. op'[r] = x /\ \A q \in Requests : q # r => op'[q] = op[q]
  BY RequestFacts
<1>2. ASSUME NEW q \in Requests, q # r PROVE Sound(op'[q], workspace, store', conflicts')
  BY <1>1, <1>2, RequestFacts, GrowsKeepsSound DEF FilesInv
<1>. QED
  BY <1>1, <1>2 DEF FilesInv

LEMMA QuietSound ==
    ASSUME NEW o, NEW work, NEW files, NEW items,
           \/ o.at \in {"idle", "lookup", "empty", "marked", "described", "checked", "written"}
           \/ o.at = "waiting" /\ o.got = NoFiles
    PROVE  Sound(o, work, files, items)
BY DEF Sound

LEMMA ReadsKeepFiles ==
    ASSUME TypeInv, FilesInv, NEW r \in Requests,
           \/ BeginPreflight(r) \/ BeginCheckpoint(r) \/ PlanRestore(r) \/ Scan(r) \/ AcceptAgent(r)
           \/ BeginRestore(r) \/ Resolve(r)
    PROVE  FilesInv'
<1>1. ASSUME NEW new, NEW current, Reads(r, new, current), new.at = "waiting", new.got = NoFiles
      PROVE  FilesInv'
  BY <1>1, RowKeepsFiles, SameGrows, QuietSound DEF Reads, Starts
<1>2. ASSUME NEW k, NEW i, NEW t, NEW b
      PROVE  /\ [Idle EXCEPT !.kind = k, !.at = "waiting"].at = "waiting"
             /\ [Idle EXCEPT !.kind = k, !.at = "waiting"].got = NoFiles
             /\ [Idle EXCEPT !.kind = k, !.at = "waiting", !.other = b, !.target = t].at = "waiting"
             /\ [Idle EXCEPT !.kind = k, !.at = "waiting", !.other = b, !.target = t].got = NoFiles
             /\ [Idle EXCEPT !.kind = k, !.at = "waiting", !.target = t, !.other = b].at = "waiting"
             /\ [Idle EXCEPT !.kind = k, !.at = "waiting", !.target = t, !.other = b].got = NoFiles
             /\ [Idle EXCEPT !.kind = k, !.at = "waiting", !.item = i, !.target = t].at = "waiting"
             /\ [Idle EXCEPT !.kind = k, !.at = "waiting", !.item = i, !.target = t].got = NoFiles
             /\ [Idle EXCEPT !.kind = k, !.at = "waiting", !.item = i].at = "waiting"
             /\ [Idle EXCEPT !.kind = k, !.at = "waiting", !.item = i].got = NoFiles
  BY DEF Idle
<1>3. CASE BeginPreflight(r) \/ BeginCheckpoint(r) \/ PlanRestore(r)
  BY <1>1, <1>2, <1>3 DEF BeginPreflight, BeginCheckpoint, PlanRestore
<1>4. CASE Scan(r)
  <2>1. PICK baseline \in Rows, agent \in Rows \cup {0} :
            Reads(r, [Idle EXCEPT !.kind = "scan", !.at = "waiting", !.other = baseline,
                                  !.target = agent], FALSE)
    BY <1>4 DEF Scan
  <2>. DEFINE x == [Idle EXCEPT !.kind = "scan", !.at = "waiting", !.other = baseline, !.target = agent]
  <2>2. x.at = "waiting" /\ x.got = NoFiles
    BY DEF Idle
  <2>3. Reads(r, x, FALSE)
    BY <2>1
  <2>. HIDE DEF x
  <2>. QED
    BY <1>1, <2>2, <2>3
<1>5. CASE AcceptAgent(r)
  <2>1. PICK i \in DOMAIN conflicts, agent \in Rows, current \in BOOLEAN :
            Reads(r, [Idle EXCEPT !.kind = "agent", !.at = "waiting", !.item = i, !.target = agent],
                  current)
    BY <1>5 DEF AcceptAgent
  <2>. DEFINE x == [Idle EXCEPT !.kind = "agent", !.at = "waiting", !.item = i, !.target = agent]
  <2>2. x.at = "waiting" /\ x.got = NoFiles /\ Reads(r, x, current)
    BY <1>2, <2>1
  <2>. HIDE DEF x
  <2>. QED
    BY <1>1, <2>2
<1>6. CASE BeginRestore(r)
  <2>1. PICK target \in Rows, protection \in Rows, current \in BOOLEAN :
            Reads(r, [Idle EXCEPT !.kind = "restore", !.at = "waiting", !.target = target,
                                  !.other = protection], current)
    BY <1>6 DEF BeginRestore
  <2>. DEFINE x == [Idle EXCEPT !.kind = "restore", !.at = "waiting", !.target = target,
                                !.other = protection]
  <2>2. x.at = "waiting" /\ x.got = NoFiles /\ Reads(r, x, current)
    BY <1>2, <2>1
  <2>. HIDE DEF x
  <2>. QED
    BY <1>1, <2>2
<1>7. CASE Resolve(r)
  <2>1. PICK i \in DOMAIN conflicts, k \in {"keep", "merge"}, current \in BOOLEAN :
            Reads(r, [Idle EXCEPT !.kind = k, !.at = "waiting", !.item = i], current)
    BY <1>7 DEF Resolve
  <2>. DEFINE x == [Idle EXCEPT !.kind = k, !.at = "waiting", !.item = i]
  <2>2. x.at = "waiting" /\ x.got = NoFiles /\ Reads(r, x, current)
    BY <1>2, <2>1
  <2>. HIDE DEF x
  <2>. QED
    BY <1>1, <2>2
<1>. QED
  BY <1>3, <1>4, <1>5, <1>6, <1>7

(* Requests that end, commit or only change their place.                   *)
LEMMA OverKeepsFiles ==
    ASSUME TypeInv, FilesInv, NEW r \in Requests,
           \/ Register(r) \/ RegisterFails(r) \/ RecordPreflight(r) \/ RecordCheckpoint(r)
           \/ RecordScan(r) \/ CommitRestore(r) \/ CommitResolution(r) \/ Ends(r)
    PROVE  FilesInv'
<1>1. op' = [op EXCEPT ![r] = Idle] /\ workspace' = workspace
  BY DEF Register, RegisterFails, RecordPreflight, RecordCheckpoint, RecordScan, CommitRestore,
         CommitResolution, Ends, Commits, Over
<1>2. Grows
  <2>1. CASE Register(r) \/ RegisterFails(r) \/ RecordPreflight(r) \/ CommitRestore(r) \/ Ends(r)
    BY <2>1, SameGrows DEF Register, RegisterFails, RecordPreflight, CommitRestore, Ends
  <2>. QED
    BY <2>1, RecordCheckpointTypes, RecordScanTypes, CommitResolutionTypes
<1>3. Idle.at = "idle"
  BY DEF Idle
<1>. QED
  BY <1>1, <1>2, <1>3, RowKeepsFiles, QuietSound

LEMMA PlacesKeepFiles ==
    ASSUME TypeInv, FilesInv, NEW r \in Requests,
           \/ Lookup(r) \/ CheckUnused(r) \/ CreateMetadata(r) \/ WriteManifest(r)
           \/ PreflightChecks(r) \/ CompareFile(r) \/ FinishRestore(r)
    PROVE  FilesInv'
<1>1. op \in [Requests -> RequestRow] /\ op[r] \in RequestRow /\ Idle \in RequestRow
  BY RequestFacts, IdleType
<1>2. /\ workspace' = workspace /\ Grows
  BY SameGrows DEF Lookup, CheckUnused, CreateMetadata, WriteManifest, PreflightChecks, CompareFile,
                   FinishRestore
<1>3. ASSUME NEW x, op' = [op EXCEPT ![r] = x],
             x.at \in {"idle", "lookup", "empty", "marked", "described", "checked", "written"}
      PROVE  FilesInv'
  BY <1>2, <1>3, RowKeepsFiles, QuietSound
<1>4. CASE Lookup(r)
  <2>. DEFINE x == [Idle EXCEPT !.kind = "register", !.at = "lookup", !.me = attempts + 1,
                                !.pass = workspace[Instructions] # Absent]
  <2>1. x.at = "lookup" /\ op' = [op EXCEPT ![r] = x]
    BY <1>1, <1>4 DEF Lookup, Starts, RequestRow
  <2>. QED
    BY <1>3, <2>1
<1>5. ASSUME NEW place \in {"empty", "marked", "described", "checked"}, Goes(r, place) PROVE FilesInv'
  <2>. DEFINE x == [op[r] EXCEPT !.at = place]
  <2>1. x.at = place /\ op' = [op EXCEPT ![r] = x]
    BY <1>1, <1>5 DEF Goes, RequestRow
  <2>. QED
    BY <1>3, <1>5, <2>1
<1>6. ASSUME Over(r) PROVE FilesInv'
  BY <1>3, <1>6 DEF Over, Idle
<1>7. CASE CheckUnused(r) \/ CreateMetadata(r) \/ WriteManifest(r) \/ CompareFile(r)
  BY <1>5, <1>6, <1>7 DEF CheckUnused, CreateMetadata, WriteManifest, CompareFile
<1>8. CASE PreflightChecks(r)
  <2>. DEFINE x == [op[r] EXCEPT !.at = "checked",
                                 !.pass = /\ metadata = owner /\ manifest = owner
                                          /\ required => workspace[Instructions] # Absent]
  <2>1. x.at = "checked" /\ op' = [op EXCEPT ![r] = x]
    BY <1>1, <1>8 DEF PreflightChecks, RequestRow
  <2>. QED
    BY <1>3, <2>1
<1>9. CASE FinishRestore(r)
  <2>. DEFINE x == [op[r] EXCEPT !.at = "written", !.raced = {}]
  <2>1. x.at = "written" /\ op' = [op EXCEPT ![r] = x]
    BY <1>1, <1>9 DEF FinishRestore, RequestRow
  <2>. QED
    BY <1>3, <2>1
<1>. QED
  BY <1>4, <1>7, <1>8, <1>9

(* A capture: the file a conflict is about is copied as it is.             *)
LEMMA CaptureKeepsFiles ==
    ASSUME TypeInv, FilesInv, NEW r \in Requests, BeginCapture(r) \/ CaptureFile(r) \/ Publish(r)
    PROVE  FilesInv'
<1>1. /\ op[r] \in RequestRow /\ Bound(op[r], store, conflicts) /\ workspace \in Files
      /\ op[r].got \in Files /\ op[r].todo \in SUBSET Paths /\ op[r].raced \in SUBSET Paths
      /\ Sound(op[r], workspace, store, conflicts)
  BY RequestFacts DEF FilesInv, TypeInv, TypeOK
<1>. DEFINE path == conflicts[op[r].item].path
<1>2. op[r].kind = "agent" => path \in Paths
  BY <1>1, StoreFacts DEF Bound
<1>. HIDE DEF path
<1>3. CASE BeginCapture(r)
  <2>. DEFINE x == [op[r] EXCEPT !.at = "capturing", !.todo = Captured(workspace)]
  <2>1. op' = [op EXCEPT ![r] = x] /\ workspace' = workspace /\ Grows /\ UNCHANGED <<store, conflicts>>
    BY <1>3, SameGrows DEF BeginCapture
  <2>2. /\ x.at = "capturing" /\ x.kind = op[r].kind /\ x.got = NoFiles /\ x.todo = Captured(workspace)
        /\ x.item = op[r].item /\ x.raced = op[r].raced
    BY <1>1, <1>3 DEF BeginCapture, At, Sound, RequestRow
  <2>3. x.kind = "agent" /\ path \notin x.todo => x.got[path] = workspace[path]
    BY <1>2, <2>2 DEF Captured, NoFiles
  <2>. HIDE DEF x
  <2>4. Sound(x, workspace, store', conflicts')
    BY <2>1, <2>2, <2>3 DEF Sound, path
  <2>. QED
    BY <2>1, <2>4, RowKeepsFiles
<1>4. CASE CaptureFile(r)
  <2>1. PICK p \in Paths :
            op' = [op EXCEPT ![r].todo = @ \ {p}, ![r].got[p] = workspace[p], ![r].raced = @ \ {p}]
    BY <1>4 DEF CaptureFile
  <2>. DEFINE x == [op[r] EXCEPT !.todo = @ \ {p}, !.got[p] = workspace[p], !.raced = @ \ {p}]
  <2>2. op' = [op EXCEPT ![r] = x]
    BY <2>1
  <2>6. workspace' = workspace /\ UNCHANGED <<store, conflicts>> /\ Grows
    BY <1>4, SameGrows DEF CaptureFile
  <2>3. /\ x.at = "capturing" /\ x.kind = op[r].kind /\ x.item = op[r].item
        /\ x.todo = op[r].todo \ {p} /\ x.raced = op[r].raced \ {p}
        /\ x.got = [op[r].got EXCEPT ![p] = workspace[p]]
    BY <1>1, <1>4 DEF CaptureFile, RequestRow
  <2>. HIDE DEF x
  <2>4. x.kind = "agent" /\ path \notin x.raced \cup x.todo => x.got[path] = workspace[path]
    <3>1. CASE path = p
      BY <1>1, <2>3, <3>1 DEF Files
    <3>2. CASE path # p
      <4>1. op[r].at = "capturing"
        BY <1>4 DEF CaptureFile
      <4>2. op[r].kind = "agent" /\ path \notin op[r].raced \cup op[r].todo =>
                op[r].got[path] = workspace[path]
        BY <1>1, <4>1 DEF Sound, path
      <4>. QED
        BY <1>1, <1>2, <2>3, <3>2, <4>2 DEF Files
    <3>. QED
      BY <3>1, <3>2
  <2>5. Sound(x, workspace, store', conflicts')
    BY <2>3, <2>4, <2>6 DEF Sound, path
  <2>. QED
    BY <2>2, <2>5, <2>6, RowKeepsFiles
<1>5. CASE Publish(r)
  <2>. DEFINE x == [op[r] EXCEPT !.at = "captured", !.made = Len(store) + 1, !.got = NoFiles]
              c == Len(store) + 1
  <2>1. /\ op' = [op EXCEPT ![r] = x] /\ workspace' = workspace /\ conflicts' = conflicts
        /\ op[r].at = "capturing" /\ op[r].todo = {}
    BY <1>5 DEF Publish
  <2>2. Grows /\ c \in DOMAIN store' /\ store'[c].files = op[r].got
    BY <1>5, PublishGrows
  <2>3. x.at = "captured" /\ x.kind = op[r].kind /\ x.item = op[r].item /\ x.raced = op[r].raced
    BY <1>1 DEF RequestRow
  <2>. HIDE DEF x, c
  <2>4. x.kind = "agent" /\ path \notin x.raced => op[r].got[path] = workspace[path]
    BY <1>1, <2>1, <2>3 DEF Sound, path
  <2>5. x.kind = "agent" /\ path \notin x.raced => Kept(path, workspace, store')
    BY <2>2, <2>4 DEF Kept
  <2>6. Sound(x, workspace, store', conflicts')
    BY <2>1, <2>3, <2>5 DEF Sound, path
  <2>. QED
    BY <2>1, <2>2, <2>6, RowKeepsFiles
<1>. QED
  BY <1>3, <1>4, <1>5

(* A restore starts only when the files to replace are those of its        *)
(* protection.                                                             *)
LEMMA StartKeepsFiles ==
    ASSUME TypeInv, FilesInv, NEW r \in Requests, StartRestore(r)
    PROVE  FilesInv'
<1>. DEFINE target == store[op[r].target].files
            protection == store[op[r].other].files
            x == [op[r] EXCEPT !.at = "writing", !.todo = Captured(target)]
<1>1. /\ op' = [op EXCEPT ![r] = x] /\ workspace' = workspace /\ UNCHANGED <<store, conflicts>> /\ Grows
      /\ \A p \in Captured(target) : workspace[p] = protection[p]
  BY SameGrows DEF StartRestore
<1>2. /\ x.at = "writing" /\ x.kind = "restore" /\ x.todo = Captured(target)
      /\ x.target = op[r].target /\ x.other = op[r].other
  BY RequestFacts DEF StartRestore, At, RequestRow
<1>. HIDE DEF x
<1>3. Writing(x, workspace, target, protection)
  BY <1>1, <1>2 DEF Writing
<1>4. Sound(x, workspace, store', conflicts')
  BY <1>1, <1>2, <1>3 DEF Sound
<1>. QED
  BY <1>1, <1>4, RowKeepsFiles

(* A file of the directory is replaced by that of a published checkpoint,  *)
(* under the lock: the other requests wait, or have captured.              *)
LEMMA OverwriteKeepsSound ==
    ASSUME TypeInv, NEW o, o.at \notin Locked, Sound(o, workspace, store, conflicts),
           NEW p \in Paths, NEW c \in DOMAIN store,
           workspace' = [workspace EXCEPT ![p] = store[c].files[p]], UNCHANGED <<store, conflicts>>
    PROVE  Sound(o, workspace', store', conflicts')
<1>1. \A q : Kept(q, workspace, store) => Kept(q, workspace', store)
  <2>1. workspace \in Files
    BY DEF TypeInv, TypeOK
  <2>2. workspace'[p] = store[c].files[p] /\ \A q : q # p => workspace'[q] = workspace[q]
    BY <2>1 DEF Files
  <2>. QED
    BY <2>2 DEF Kept
<1>. QED
  BY <1>1 DEF Sound, Locked

LEMMA WritesKeepFiles ==
    ASSUME TypeInv, FilesInv, NEW r \in Requests, RestoreFile(r) \/ ReplaceFile(r)
    PROVE  FilesInv'
<1>1. /\ op \in [Requests -> RequestRow] /\ op[r] \in RequestRow /\ Bound(op[r], store, conflicts)
      /\ workspace \in Files /\ Sound(op[r], workspace, store, conflicts)
  BY RequestFacts DEF FilesInv, TypeInv, TypeOK
<1>2. \A q \in Requests : q # r => op[q].at \notin Locked
  BY RequestFacts, ProjectFilesAssumption DEF RestoreFile, ReplaceFile, Locked
<1>3. ASSUME NEW q \in Requests, q # r, op'[q] = op[q], NEW p \in Paths, NEW c \in DOMAIN store,
             workspace' = [workspace EXCEPT ![p] = store[c].files[p]], UNCHANGED <<store, conflicts>>
      PROVE  Sound(op'[q], workspace', store', conflicts')
  <2>1. Sound(op[q], workspace, store, conflicts) /\ op[q].at \notin Locked
    BY <1>2, <1>3 DEF FilesInv
  <2>. QED
    BY <1>3, <2>1, OverwriteKeepsSound
<1>4. CASE RestoreFile(r)
  <2>1. PICK p \in Paths :
            /\ p \in op[r].todo
            /\ workspace' = [workspace EXCEPT ![p] = store[op[r].target].files[p]]
            /\ op' = [op EXCEPT ![r].todo = @ \ {p}]
    BY <1>4 DEF RestoreFile, First, Overwrites
  <2>2. /\ op[r].at = "writing" /\ op[r].target \in DOMAIN store /\ UNCHANGED <<store, conflicts>>
    BY <1>1, <1>4 DEF RestoreFile, Bound
  <2>. DEFINE target == store[op[r].target].files
              protection == store[op[r].other].files
  <2>3. /\ op'[r].at = "writing" /\ op'[r].todo = op[r].todo \ {p} /\ op'[r].raced = op[r].raced
        /\ op'[r].target = op[r].target /\ op'[r].other = op[r].other /\ op'[r].kind = op[r].kind
        /\ \A q \in Requests : q # r => op'[q] = op[q]
    BY <1>1, <2>1, <2>2 DEF RequestRow
  <2>4. Writing(op[r], workspace, target, protection)
    BY <1>1, <2>2 DEF Sound
  <2>. HIDE DEF target, protection
  <2>5. workspace' = [workspace EXCEPT ![p] = target[p]]
    BY <2>1 DEF target
  <2>6. Writing(op'[r], workspace', target, protection)
    BY <1>1, <2>3, <2>4, <2>5 DEF Writing, Files, Captured
  <2>7. Sound(op'[r], workspace', store', conflicts')
    BY <1>1, <2>2, <2>3, <2>6 DEF Sound, Bound, target, protection
  <2>. QED
    BY <1>3, <2>1, <2>2, <2>3, <2>7 DEF FilesInv
<1>5. CASE ReplaceFile(r)
  <2>1. /\ workspace' = [workspace EXCEPT ![ConflictOf(r).path] =
                                      store[op[r].target].files[ConflictOf(r).path]]
        /\ op' = [op EXCEPT ![r].at = "written", ![r].raced = {}] /\ op[r].kind = "agent"
        /\ UNCHANGED <<store, conflicts>>
    BY <1>5 DEF ReplaceFile, At, Overwrites
  <2>2. op[r].target \in DOMAIN store /\ ConflictOf(r).path \in Paths
    BY <1>1, <2>1, StoreFacts DEF Bound, ConflictOf
  <2>3. op'[r].at = "written" /\ \A q \in Requests : q # r => op'[q] = op[q]
    BY <1>1, <2>1 DEF RequestRow
  <2>4. Sound(op'[r], workspace', store', conflicts')
    BY <2>3, QuietSound
  <2>. QED
    BY <1>3, <2>1, <2>2, <2>3, <2>4 DEF FilesInv
<1>. QED
  BY <1>4, <1>5

(* What is edited from outside is marked by the requests that care.        *)
LEMMA EditKeepsFiles ==
    ASSUME TypeInv, FilesInv, NEW p \in Paths, NEW content, Edit(p, content)
    PROVE  FilesInv'
<1>1. UNCHANGED <<store, conflicts>> /\ workspace \in Files
  BY DEF Edit, TypeInv, TypeOK
<1>2. \A q \in Paths : q # p => workspace'[q] = workspace[q]
  BY <1>1 DEF Edit, Files
<1>3. ASSUME NEW r \in Requests PROVE Sound(op'[r], workspace', store', conflicts')
  <2>1. /\ op[r] \in RequestRow /\ Bound(op[r], store, conflicts)
        /\ Sound(op[r], workspace, store, conflicts)
    BY RequestFacts DEF FilesInv
  <2>2. /\ op'[r].at = op[r].at /\ op'[r].kind = op[r].kind /\ op'[r].got = op[r].got
        /\ op'[r].todo = op[r].todo /\ op'[r].item = op[r].item
        /\ op'[r].target = op[r].target /\ op'[r].other = op[r].other
        /\ op'[r].raced = IF Watches(r, p) THEN op[r].raced \cup {p} ELSE op[r].raced
    BY <2>1 DEF Edit, RequestRow
  <2>3. CASE op[r].at = "writing"
    <3>. DEFINE target == store[op[r].target].files
                protection == store[op[r].other].files
    <3>1. Writing(op[r], workspace, target, protection) /\ (Watches(r, p) <=> target[p] # Absent)
      <4>1. op[r].kind = "restore"
        BY <2>1, <2>3 DEF Bound
      <4>2. Writing(op[r], workspace, target, protection)
        BY <2>1, <2>3 DEF Sound
      <4>3. Watches(r, p) <=> target[p] # Absent
        BY <2>3, <4>1 DEF Watches
      <4>. QED
        BY <4>2, <4>3
    <3>2. \A q \in Captured(target) \ op'[r].raced : q \in Paths /\ q # p /\ q \notin op[r].raced
      BY <2>2, <3>1 DEF Captured
    <3>. HIDE DEF target, protection
    <3>3. Writing(op'[r], workspace', target, protection)
      BY <1>2, <2>2, <3>1, <3>2 DEF Writing
    <3>. QED
      BY <1>1, <2>1, <2>2, <2>3, <3>3 DEF Sound, Bound, target, protection
  <2>4. CASE op[r].kind = "agent" /\ op[r].at \in {"capturing", "captured"}
    <3>1. /\ conflicts[op[r].item].path \in Paths
          /\ Watches(r, p) <=> p = conflicts[op[r].item].path
      BY <2>1, <2>4, StoreFacts DEF Watches, ConflictOf, Bound
    <3>2. CASE p = conflicts[op[r].item].path
      BY <1>1, <2>2, <2>4, <3>1, <3>2 DEF Sound
    <3>3. CASE p # conflicts[op[r].item].path
      BY <1>1, <1>2, <2>1, <2>2, <2>4, <3>1, <3>3 DEF Sound, Kept
    <3>. QED
      BY <3>2, <3>3
  <2>5. CASE op[r].at # "writing" /\ ~(op[r].kind = "agent" /\ op[r].at \in {"capturing", "captured"})
    BY <2>1, <2>2, <2>5 DEF Sound
  <2>. QED
    BY <2>3, <2>4, <2>5
<1>. QED
  BY <1>3 DEF FilesInv

LEMMA FilesInvInductive == Spec => []FilesInv
<1>1. Init => FilesInv
  BY QuietSound DEF Init, FilesInv, Idle
<1>2. TypeInv /\ FilesInv /\ [Next]_vars => FilesInv'
  <2>. SUFFICES ASSUME TypeInv, FilesInv, [Next]_vars PROVE FilesInv'
    OBVIOUS
  <2>1. CASE Crash
    BY <2>1, QuietSound DEF Crash, FilesInv, Idle
  <2>2. CASE Open \/ Close \/ UNCHANGED vars
    BY <2>2 DEF Open, Close, vars, FilesInv
  <2>. QED
    BY <2>1, <2>2, ReadsKeepFiles, OverKeepsFiles, PlacesKeepFiles, CaptureKeepsFiles,
       StartKeepsFiles, WritesKeepFiles, EditKeepsFiles DEF Next
<1>. QED
  BY <1>1, <1>2, TypeInvInductive, PTL DEF Spec

(* Which steps change a file of the project.                               *)
LEMMA OnlyWrites ==
    ASSUME TypeInv, [Next]_vars, workspace' # workspace, edits' = edits
    PROVE  \E r \in Requests : RestoreFile(r) \/ ReplaceFile(r)
<1>1. ASSUME NEW r \in Requests, NEW new, NEW current, Reads(r, new, current) PROVE workspace' = workspace
  BY <1>1 DEF Reads
<1>2. ASSUME NEW r \in Requests,
             \/ BeginPreflight(r) \/ BeginCheckpoint(r) \/ PlanRestore(r) \/ Scan(r)
             \/ AcceptAgent(r) \/ BeginRestore(r) \/ Resolve(r)
      PROVE  FALSE
  BY <1>1, <1>2 DEF BeginPreflight, BeginCheckpoint, PlanRestore, Scan, AcceptAgent, BeginRestore,
                    Resolve
<1>3. ASSUME NEW r \in Requests,
             \/ Lookup(r) \/ CheckUnused(r) \/ CreateMetadata(r) \/ WriteManifest(r)
             \/ Register(r) \/ RegisterFails(r) \/ PreflightChecks(r) \/ RecordPreflight(r)
             \/ BeginCapture(r) \/ CaptureFile(r) \/ Publish(r) \/ RecordCheckpoint(r)
      PROVE  FALSE
  BY <1>3 DEF Lookup, CheckUnused, CreateMetadata, WriteManifest, Register, RegisterFails,
              PreflightChecks, RecordPreflight, Commits, BeginCapture, CaptureFile, Publish,
              RecordCheckpoint
<1>4. ASSUME NEW r \in Requests,
             \/ RecordScan(r) \/ StartRestore(r) \/ FinishRestore(r) \/ CommitRestore(r)
             \/ CompareFile(r) \/ CommitResolution(r) \/ Ends(r)
      PROVE  FALSE
  BY <1>4 DEF RecordScan, StartRestore, FinishRestore, CommitRestore, Commits, CompareFile,
              CommitResolution, Ends
<1>5. CASE Open \/ Close \/ Crash \/ UNCHANGED vars
           \/ \E p \in Paths : \E content \in {Absent, edits + 1} : Edit(p, content)
  <2>1. edits \in Nat
    BY Parameters DEF TypeInv, TypeOK
  <2>. QED
    BY <1>5, <2>1 DEF Open, Close, Crash, vars, Edit
<1>. QED
  BY <1>2, <1>3, <1>4, <1>5 DEF Next

(* Whatever a restore replaces is in a checkpoint with a row, and whatever *)
(* the agents' side of a conflict replaces is in a published checkpoint,   *)
(* except what was edited after the program had looked at the file.        *)
THEOREM UserContentKeptCorrect == Spec => UserContentKept
<1>. DEFINE KeptBy(r, p) ==
                (/\ edits' = edits /\ op'[r] # op[r]
                 /\ workspace[p] \notin {workspace'[p], Absent} /\ p \notin op[r].raced) =>
                    \E c \in DOMAIN store : /\ store[c].files[p] = workspace[p]
                                            /\ op[r].kind = "restore" => store[c].row
<1>1. TypeInv /\ FilesInv /\ [Next]_vars => [\A r \in Requests, p \in Paths : KeptBy(r, p)]_vars
  <2>. SUFFICES ASSUME TypeInv, FilesInv, [Next]_vars, NEW r \in Requests, NEW p \in Paths,
                       edits' = edits, op'[r] # op[r], workspace[p] \notin {workspace'[p], Absent},
                       p \notin op[r].raced
                PROVE  \E c \in DOMAIN store : /\ store[c].files[p] = workspace[p]
                                               /\ op[r].kind = "restore" => store[c].row
    OBVIOUS
  <2>1. PICK q \in Requests : RestoreFile(q) \/ ReplaceFile(q)
    BY OnlyWrites
  <2>2. /\ op \in [Requests -> RequestRow] /\ op[r] \in RequestRow /\ workspace \in Files
        /\ Bound(op[r], store, conflicts) /\ Sound(op[r], workspace, store, conflicts)
    BY RequestFacts DEF FilesInv, TypeInv, TypeOK
  <2>3. q = r
    BY <2>1, <2>2 DEF RestoreFile, ReplaceFile
  <2>4. CASE RestoreFile(r)
    <3>1. PICK t \in Paths :
              /\ t \in op[r].todo
              /\ workspace' = [workspace EXCEPT ![t] = store[op[r].target].files[t]]
      BY <2>4 DEF RestoreFile, First, Overwrites
    <3>2. t = p
      BY <2>2, <3>1 DEF Files
    <3>3. op[r].at = "writing" /\ op[r].kind = "restore"
      BY <2>2, <2>4 DEF RestoreFile, Bound
    <3>4. workspace[p] = store[op[r].other].files[p]
      BY <2>2, <3>1, <3>2, <3>3 DEF Sound, Writing
    <3>5. op[r].other \in DOMAIN store /\ store[op[r].other].row
      BY <2>2, <3>3 DEF Bound
    <3>. QED
      BY <3>4, <3>5
  <2>5. CASE ReplaceFile(r)
    <3>1. /\ workspace' = [workspace EXCEPT ![ConflictOf(r).path] =
                                        store[op[r].target].files[ConflictOf(r).path]]
          /\ op[r].kind = "agent" /\ op[r].at = "captured"
      BY <2>5 DEF ReplaceFile, At, Overwrites
    <3>2. ConflictOf(r).path = p
      BY <2>2, <3>1 DEF Files
    <3>3. Kept(p, workspace, store)
      BY <2>2, <3>1, <3>2 DEF Sound, ConflictOf
    <3>. QED
      BY <3>1, <3>3 DEF Kept
  <2>. QED
    BY <2>1, <2>3, <2>4, <2>5
<1>2. Spec => [][\A r \in Requests, p \in Paths : KeptBy(r, p)]_vars
  BY <1>1, TypeInvInductive, FilesInvInductive, PTL DEF Spec
<1>. QED
  BY <1>2 DEF UserContentKept

LEMMA OnlyFinish ==
    ASSUME TypeInv, [Next]_vars, NEW r \in Requests, op[r].kind = "restore", op[r].at # "written",
           op'[r].at = "written"
    PROVE  FinishRestore(r)
<1>0. op \in [Requests -> RequestRow] /\ \A q \in Requests : op[q] \in RequestRow
  BY RequestFacts
<1>1. op'[r] # op[r] /\ op'[r] # Idle
  BY DEF Idle
<1>2. ASSUME NEW q \in Requests, op' = [op EXCEPT ![q] = Idle] PROVE FALSE
  BY <1>0, <1>1, <1>2
<1>3. ASSUME NEW q \in Requests,
             \/ BeginPreflight(q) \/ BeginCheckpoint(q) \/ PlanRestore(q) \/ Scan(q)
             \/ AcceptAgent(q) \/ BeginRestore(q) \/ Resolve(q) \/ Lookup(q)
      PROVE  FALSE
  <2>1. ASSUME NEW new, Starts(q, new) PROVE FALSE
    BY <1>0, <1>1, <2>1 DEF Starts, Idle
  <2>. QED
    BY <1>3, <2>1 DEF BeginPreflight, BeginCheckpoint, PlanRestore, Scan, AcceptAgent, BeginRestore,
                      Resolve, Lookup, Reads
<1>4. ASSUME NEW q \in Requests,
             \/ Register(q) \/ RegisterFails(q) \/ RecordPreflight(q) \/ RecordCheckpoint(q)
             \/ RecordScan(q) \/ CommitRestore(q) \/ CommitResolution(q) \/ Ends(q)
      PROVE  FALSE
  BY <1>2, <1>4 DEF Register, RegisterFails, RecordPreflight, RecordCheckpoint, RecordScan,
                    CommitRestore, CommitResolution, Ends, Commits, Over
<1>5. ASSUME NEW q \in Requests,
             \/ CheckUnused(q) \/ CreateMetadata(q) \/ WriteManifest(q) \/ CompareFile(q)
      PROVE  FALSE
  <2>1. ASSUME NEW place, Goes(q, place), place # "written" PROVE FALSE
    BY <1>0, <1>1, <2>1 DEF Goes, RequestRow
  <2>. QED
    BY <1>2, <1>5, <2>1 DEF CheckUnused, CreateMetadata, WriteManifest, CompareFile, Over
<1>7. ASSUME NEW q \in Requests, PreflightChecks(q) \/ BeginCapture(q) \/ StartRestore(q) PROVE FALSE
  BY <1>0, <1>1, <1>7 DEF PreflightChecks, BeginCapture, StartRestore, RequestRow
<1>8. ASSUME NEW q \in Requests, Publish(q) PROVE FALSE
  BY <1>0, <1>1, <1>8 DEF Publish, RequestRow
<1>9. ASSUME NEW q \in Requests, CaptureFile(q) \/ RestoreFile(q) PROVE FALSE
  <2>1. CASE CaptureFile(q)
    <3>1. PICK p \in Paths :
              op' = [op EXCEPT ![q].todo = @ \ {p}, ![q].got[p] = workspace[p], ![q].raced = @ \ {p}]
      BY <2>1 DEF CaptureFile
    <3>. QED
      BY <1>0, <1>1, <3>1 DEF RequestRow
  <2>2. CASE RestoreFile(q)
    <3>1. PICK p \in Paths : op' = [op EXCEPT ![q].todo = @ \ {p}]
      BY <2>2 DEF RestoreFile
    <3>. QED
      BY <1>0, <1>1, <3>1 DEF RequestRow
  <2>. QED
    BY <1>9, <2>1, <2>2
<1>10. ASSUME NEW q \in Requests, ReplaceFile(q) PROVE FALSE
  <2>1. op[q].kind = "agent" /\ q # r
    BY <1>10 DEF ReplaceFile, At
  <2>. QED
    BY <1>0, <1>1, <1>10, <2>1 DEF ReplaceFile
<1>11. ASSUME NEW p, NEW content, Edit(p, content) PROVE FALSE
  BY <1>0, <1>11 DEF Edit, RequestRow
<1>12. CASE Open \/ Close \/ Crash \/ UNCHANGED vars
  BY <1>1, <1>12 DEF Open, Close, Crash, vars
<1>13. ASSUME NEW q \in Requests, FinishRestore(q) PROVE q = r
  BY <1>0, <1>1, <1>13 DEF FinishRestore
<1>. QED
  BY <1>3, <1>4, <1>5, <1>7, <1>8, <1>9, <1>10, <1>11, <1>12, <1>13 DEF Next

(* When the writing of a restore ends, every file of the checkpoint is in  *)
(* place, except those edited from outside meanwhile.                      *)
THEOREM RestoreCompleteCorrect == Spec => RestoreComplete
<1>. DEFINE Complete(r) ==
                (op[r].kind = "restore" /\ op[r].at # "written" /\ op'[r].at = "written") =>
                    \A p \in Captured(store[op[r].target].files) :
                        workspace'[p] = store[op[r].target].files[p] \/ p \in op[r].raced
<1>1. TypeInv /\ FilesInv /\ [Next]_vars => [\A r \in Requests : Complete(r)]_vars
  <2>. SUFFICES ASSUME TypeInv, FilesInv, [Next]_vars, NEW r \in Requests, op[r].kind = "restore",
                       op[r].at # "written", op'[r].at = "written",
                       NEW p \in Captured(store[op[r].target].files)
                PROVE  workspace'[p] = store[op[r].target].files[p] \/ p \in op[r].raced
    OBVIOUS
  <2>1. FinishRestore(r)
    BY OnlyFinish
  <2>2. op[r].at = "writing" /\ op[r].todo = {} /\ workspace' = workspace
    BY <2>1 DEF FinishRestore
  <2>3. Writing(op[r], workspace, store[op[r].target].files, store[op[r].other].files)
    BY <2>2 DEF FilesInv, Sound
  <2>. QED
    BY <2>2, <2>3 DEF Writing
<1>2. Spec => [][\A r \in Requests : Complete(r)]_vars
  BY <1>1, TypeInvInductive, FilesInvInductive, PTL DEF Spec
<1>. QED
  BY <1>2 DEF RestoreComplete

=============================================================================
