-------------------------- MODULE WorkerSupervisor --------------------------
(***************************************************************************)
(* The supervisor of worker processes and the protocol it speaks with      *)
(* them.  One process per project answers numbered requests over its pipes *)
(* and sends heartbeats; a watchdog stops workers whose heartbeat is       *)
(* overdue; every stop of a worker, whoever asks for it, is one task.      *)
(*                                                                         *)
(* The supervisor runs on one event loop, so what it does between two      *)
(* awaits is one action.  Its registry lock is held across the whole of    *)
(* start, which awaits the new process; the state lock of a handle is      *)
(* never held across an await and does not appear.                         *)
(***************************************************************************)
EXTENDS Naturals, Sequences

CONSTANTS
    Projects,   \* project ids
    Handles,    \* worker ids; each names one process and is never used again
    Requests,   \* requests of callers
    None,       \* null
    Shutdown,   \* the shutdown request of a stop task
    MaxFaults   \* bound on crashes, bad frames, failed starts and failed kills

ASSUME SupervisorAssumption ==
    /\ None \notin Handles \cup Projects \cup Requests
    /\ Requests \cap {Shutdown, "garbage"} = {}
    /\ MaxFaults \in Nat

VARIABLES
    starting,   \* handle whose start holds the registry lock
    workers,    \* supervisor._workers: the handles that can be asked
    projects,   \* supervisor._projects
    closing,    \* supervisor._closing
    closeJoin,  \* handles whose stop task stop_all still waits for
    project,    \* handle.project_id
    process,    \* the worker process of each handle
    stop,       \* where the stop task of each handle is
    failedStop, \* handles whose stop task remembered an error
    reader,     \* handle.reader_task
    overdue,    \* handles whose last heartbeat is older than the timeout
    outSeq,     \* handle.outbound_sequence
    pending,    \* handle.pending
    writeLock,  \* request that holds the write lock of each handle
    stdin,      \* messages written and not yet read by the worker
    stdinOpen,  \* handles whose stdin is not closed
    stdout,     \* messages of the worker not yet read
    lastIn,     \* last sequence accepted by the worker's replay window
    call,       \* where each request is
    target,     \* the handle it was sent to
    future,     \* its response future
    served,     \* requests a worker has carried out
    watchTodo,  \* overdue handles watch_once has still to stop
    watched,    \* handles watch_once waits for
    unlisting,  \* handles whose early removal waits for the registry lock
    watching,   \* the watchdog task is alive
    faults      \* so far

registry == <<starting, workers, projects, closing>>
wires == <<stdin, stdinOpen, stdout, lastIn>>
calls == <<call, target, future>>
watchdog == <<watchTodo, watched, watching>>
lifecycle == <<project, process, stop, failedStop, reader>>
vars == <<registry, closeJoin, lifecycle, overdue, outSeq, pending, writeLock, wires,
          calls, served, watchdog, unlisting, faults>>

StopStates == {"none", "asking", "awaiting", "killing", "draining",
               "unregister", "done"}
CallStates == {"idle", "queued", "draining", "waiting", "joining",
               "answered", "abandoned", "unavailable", "invalid"}
Message == [call : Requests \cup {Shutdown}, seq : Nat]
Reply == Requests \cup {Shutdown, "garbage"}

Running(h) == process[h] = "running"

Init ==
    /\ starting = None /\ workers = {} /\ closing = FALSE /\ closeJoin = {}
    /\ projects = [p \in Projects |-> None]
    /\ project = [h \in Handles |-> None]
    /\ process = [h \in Handles |-> "none"]
    /\ stop = [h \in Handles |-> "none"]
    /\ failedStop = {} /\ overdue = {} /\ served = {} /\ unlisting = {}
    /\ reader = [h \in Handles |-> "none"]
    /\ outSeq = [h \in Handles |-> 0]
    /\ lastIn = [h \in Handles |-> 0]
    /\ pending = [h \in Handles |-> {}]
    /\ writeLock = [h \in Handles |-> None]
    /\ stdin = [h \in Handles |-> <<>>]
    /\ stdout = [h \in Handles |-> <<>>]
    /\ stdinOpen = {}
    /\ call = [r \in Requests |-> "idle"]
    /\ target = [r \in Requests |-> None]
    /\ future = [r \in Requests |-> "open"]
    /\ watchTodo = {} /\ watched = {} /\ watching = TRUE
    /\ faults = 0

Fault == faults < MaxFaults /\ faults' = faults + 1

(* With a process go what it has not read and its replay window. *)
Exits(h) ==
    /\ process' = [process EXCEPT ![h] = "exited"]
    /\ stdin' = [stdin EXCEPT ![h] = <<>>]
    /\ lastIn' = [lastIn EXCEPT ![h] = 0]

-----------------------------------------------------------------------------
(* Mutation of BeginStart: the closed registry takes new workers. *)
BeginStartClosed(p, h) ==
    /\ starting = None /\ projects[p] = None
    /\ process[h] = "none"
    /\ starting' = h
    /\ project' = [project EXCEPT ![h] = p]
    /\ process' = [process EXCEPT ![h] = "running"]
    /\ stdinOpen' = stdinOpen \cup {h}
    /\ UNCHANGED <<workers, projects, closing, closeJoin, stop, failedStop, reader, overdue,
                   outSeq, pending, writeLock, stdin, stdout, lastIn, calls, served,
                   watchdog, unlisting, faults>>

(* start: the registry lock is held while the process is created. *)
BeginStart(p, h) ==
    /\ starting = None /\ ~closing /\ projects[p] = None
    /\ process[h] = "none"
    /\ starting' = h
    /\ project' = [project EXCEPT ![h] = p]
    /\ process' = [process EXCEPT ![h] = "running"]
    /\ stdinOpen' = stdinOpen \cup {h}
    /\ UNCHANGED <<workers, projects, closing, closeJoin, stop, failedStop, reader, overdue,
                   outSeq, pending, writeLock, stdin, stdout, lastIn, calls, served,
                   watchdog, unlisting, faults>>

FinishStart(h) ==
    /\ starting = h
    /\ starting' = None
    /\ workers' = workers \cup {h}
    /\ projects' = [projects EXCEPT ![project[h]] = h]
    /\ reader' = [reader EXCEPT ![h] = "reading"]
    /\ UNCHANGED <<closing, closeJoin, project, process, stop, failedStop, overdue, outSeq,
                   pending, writeLock, wires, calls, served, watchdog, unlisting, faults>>

(* A partial start kills what it created before it gives the lock back. *)
FailStart(h) ==
    /\ starting = h /\ Fault
    /\ starting' = None
    /\ Exits(h)
    /\ stdinOpen' = stdinOpen \ {h}
    /\ UNCHANGED <<workers, projects, closing, closeJoin, project, stop, failedStop, reader,
                   overdue, outSeq, pending, writeLock, stdout, calls, served,
                   watchdog, unlisting>>

-----------------------------------------------------------------------------
(* Mutation of FailPending: the entries go, their futures stay open. *)
FailPendingDropped(h) == pending' = [pending EXCEPT ![h] = {}] /\ UNCHANGED future

(* The futures of the pending requests of h fail. *)
FailPending(h) ==
    /\ future' = [r \in Requests |->
                     IF r \in pending[h] /\ future[r] = "open" THEN "failed" ELSE future[r]]
    /\ pending' = [pending EXCEPT ![h] = {}]

(* _ensure_stop_task: the first who asks decides whether the stop is graceful. *)
EnsureStop(h, graceful) ==
    IF stop[h] = "none"
    THEN /\ stop' = [stop EXCEPT ![h] = IF graceful THEN "asking" ELSE "killing"]
         /\ FailPending(h)
    ELSE UNCHANGED <<stop, future, pending>>

(* stop and stop_project; the handle is found through _projects too. *)
StopProject(p) ==
    /\ starting = None /\ projects[p] # None /\ stop[projects[p]] = "none"
    /\ EnsureStop(projects[p], TRUE)
    /\ UNCHANGED <<registry, closeJoin, project, process, failedStop, reader, overdue, outSeq,
                   writeLock, wires, call, target, served, watchdog, unlisting, faults>>

(* The handles stop_all stops. *)
Remaining == {projects[p] : p \in Projects} \ {None}

(* watch_once waits for its stop tasks, which no cancellation interrupts. *)
WatchJoining == watchTodo = {} /\ watched # {} /\ watched \cap unlisting = {}

(* stop_all closes the registry and stops every handle of a project; the    *)
(* shutdown of the application cancels the watchdog first.                  *)
StopAll ==
    /\ starting = None /\ ~closing /\ ~WatchJoining
    /\ closing' = TRUE
    /\ watching' = FALSE /\ watchTodo' = {} /\ watched' = {}
    /\ closeJoin' = Remaining
    /\ stop' = [h \in Handles |->
                   IF h \in Remaining /\ stop[h] = "none" THEN "asking" ELSE stop[h]]
    /\ future' = [r \in Requests |->
                     IF /\ future[r] = "open"
                        /\ \E h \in Remaining : stop[h] = "none" /\ r \in pending[h]
                     THEN "failed" ELSE future[r]]
    /\ pending' = [h \in Handles |->
                      IF h \in Remaining /\ stop[h] = "none" THEN {} ELSE pending[h]]
    /\ UNCHANGED <<starting, workers, projects, project, process, failedStop, reader, overdue,
                   outSeq, writeLock, wires, call, target, served, unlisting, faults>>

StopAllReturns ==
    /\ closeJoin # {}
    /\ \A h \in closeJoin : stop[h] = "done"
    /\ closeJoin' = {}
    /\ UNCHANGED <<registry, lifecycle, overdue, outSeq, pending, writeLock, wires, calls,
                   served, watchdog, unlisting, faults>>

-----------------------------------------------------------------------------
(* The next number of h is on a frame; nobody reads it if the process ended. *)
Write(h, c) ==
    stdin' = [stdin EXCEPT ![h] =
                 IF Running(h) THEN Append(@, [call |-> c, seq |-> outSeq[h] + 1]) ELSE @]

(* The stop task.  Its shutdown request needs the write lock; it goes on when *)
(* the answer is there, the deadline passes or the worker is gone.            *)
StopAsks(h) ==
    /\ stop[h] = "asking" /\ writeLock[h] = None /\ Running(h)
    /\ outSeq' = [outSeq EXCEPT ![h] = @ + 1]
    /\ pending' = [pending EXCEPT ![h] = @ \cup {Shutdown}]
    /\ Write(h, Shutdown)
    /\ stop' = [stop EXCEPT ![h] = "awaiting"]
    /\ UNCHANGED <<registry, closeJoin, project, process, failedStop, reader, overdue,
                   writeLock, stdinOpen, stdout, lastIn, calls, served, watchdog, unlisting,
                   faults>>

(* Mutation of StopClosesStdin: the shutdown request has no deadline. *)
StopClosesStdinAnswered(h) ==
    /\ stop[h] \in {"asking", "awaiting"} /\ Shutdown \notin pending[h]
    /\ stop' = [stop EXCEPT ![h] = "killing"]
    /\ stdinOpen' = stdinOpen \ {h}
    /\ UNCHANGED <<registry, closeJoin, project, process, failedStop, reader, overdue, outSeq,
                   pending, writeLock, stdin, stdout, lastIn, calls, served, watchdog,
                   unlisting, faults>>

StopClosesStdin(h) ==
    /\ stop[h] \in {"asking", "awaiting"}
    /\ stop' = [stop EXCEPT ![h] = "killing"]
    /\ pending' = [pending EXCEPT ![h] = @ \ {Shutdown}]
    /\ stdinOpen' = stdinOpen \ {h}
    /\ UNCHANGED <<registry, closeJoin, project, process, failedStop, reader, overdue, outSeq,
                   writeLock, stdin, stdout, lastIn, calls, served, watchdog, unlisting, faults>>

(* The process has exited, or the deadline has passed, or the stop is not    *)
(* graceful: group, tree, descendants and the process itself are killed.     *)
(* One of these may fail, which is remembered while the others go on.  That  *)
(* every kill of one process times out, after which its entry is removed     *)
(* although it lives, is left out.                                           *)
StopKills(h) ==
    /\ stop[h] = "killing"
    /\ Exits(h)
    /\ stop' = [stop EXCEPT ![h] = "draining"]
    /\ stdinOpen' = stdinOpen \ {h}
    /\ \/ UNCHANGED <<failedStop, faults>>
       \/ Fault /\ failedStop' = failedStop \cup {h}
    /\ UNCHANGED <<registry, closeJoin, project, reader, overdue, outSeq, pending, writeLock,
                   stdout, calls, served, watchdog, unlisting>>

(* The reader is cancelled with what it has not read. *)
StopDrains(h) ==
    /\ stop[h] = "draining"
    /\ stop' = [stop EXCEPT ![h] = "unregister"]
    /\ reader' = [reader EXCEPT ![h] = "ended"]
    /\ stdout' = [stdout EXCEPT ![h] = <<>>]
    /\ overdue' = overdue \ {h}
    /\ FailPending(h)
    /\ UNCHANGED <<registry, closeJoin, project, process, failedStop, outSeq, writeLock,
                   stdin, stdinOpen, lastIn, call, target, served, watchdog, unlisting, faults>>

(* The handle is dropped, with its number. *)
StopUnregisters(h) ==
    /\ stop[h] = "unregister" /\ starting = None
    /\ stop' = [stop EXCEPT ![h] = "done"]
    /\ workers' = workers \ {h}
    /\ projects' = [p \in Projects |-> IF projects[p] = h THEN None ELSE projects[p]]
    /\ outSeq' = [outSeq EXCEPT ![h] = 0]
    /\ UNCHANGED <<starting, closing, closeJoin, project, process, failedStop, reader, overdue,
                   pending, writeLock, wires, calls, served, watchdog, unlisting, faults>>

(* Mutation of Unlist: the project entry goes with the worker's. *)
UnlistBoth(h) ==
    /\ h \in unlisting /\ starting = None
    /\ unlisting' = unlisting \ {h}
    /\ workers' = workers \ {h}
    /\ projects' = [p \in Projects |-> IF projects[p] = h THEN None ELSE projects[p]]
    /\ UNCHANGED <<starting, closing, closeJoin, lifecycle, overdue, outSeq, pending,
                   writeLock, wires, calls, served, watchdog, faults>>

(* _remove_worker_registry, for a stop that hides the worker at once. *)
Unlist(h) ==
    /\ h \in unlisting /\ starting = None
    /\ unlisting' = unlisting \ {h}
    /\ workers' = workers \ {h}
    /\ UNCHANGED <<starting, projects, closing, closeJoin, lifecycle, overdue, outSeq, pending,
                   writeLock, wires, calls, served, watchdog, faults>>

-----------------------------------------------------------------------------
(* send and ping: a request to a worker that is listed, not stopping and, as *)
(* far as the supervisor knows, alive.                                       *)
Ask(r, h) ==
    /\ call[r] = "idle"
    /\ h \in workers /\ stop[h] = "none"
    /\ call' = [call EXCEPT ![r] = "queued"]
    /\ target' = [target EXCEPT ![r] = h]
    /\ UNCHANGED <<registry, closeJoin, lifecycle, overdue, outSeq, pending, writeLock, wires,
                   future, served, watchdog, unlisting, faults>>

(* Mutation of Send: the state is not checked again under the write lock. *)
SendUnchecked(r) ==
    LET h == target[r] IN
    /\ call[r] = "queued" /\ writeLock[h] = None
    /\ outSeq' = [outSeq EXCEPT ![h] = @ + 1]
    /\ call' = [call EXCEPT ![r] = "draining"]
    /\ pending' = [pending EXCEPT ![h] = @ \cup {r}]
    /\ Write(h, r)
    /\ writeLock' = [writeLock EXCEPT ![h] = r]
    /\ UNCHANGED <<registry, closeJoin, lifecycle, overdue, stdinOpen, stdout, lastIn, target,
                   future, served, watchdog, unlisting, faults>>

(* With the write lock: the state is checked again, a number is taken, the   *)
(* future is entered, and the frame is written.  A payload encode_frame      *)
(* refuses has used up its number all the same.                              *)
Send(r) ==
    LET h == target[r] IN
    /\ call[r] = "queued" /\ writeLock[h] = None
    /\ stop[h] = "none"
    /\ outSeq' = [outSeq EXCEPT ![h] = @ + 1]
    /\ \/ /\ call' = [call EXCEPT ![r] = "invalid"]
          /\ UNCHANGED <<pending, stdin, writeLock>>
       \/ /\ call' = [call EXCEPT ![r] = "draining"]
          /\ pending' = [pending EXCEPT ![h] = @ \cup {r}]
          /\ Write(h, r)
          /\ writeLock' = [writeLock EXCEPT ![h] = r]
    /\ UNCHANGED <<registry, closeJoin, lifecycle, overdue, stdinOpen, stdout, lastIn, target,
                   future, served, watchdog, unlisting, faults>>

SendRefused(r) ==
    /\ call[r] = "queued"
    /\ writeLock[target[r]] = None
    /\ stop[target[r]] # "none" \/ ~Running(target[r])
    /\ call' = [call EXCEPT ![r] = "unavailable"]
    /\ UNCHANGED <<registry, closeJoin, lifecycle, overdue, outSeq, pending, writeLock, wires,
                   target, future, served, watchdog, unlisting, faults>>

Unlock(r) ==
    writeLock' = [writeLock EXCEPT ![target[r]] = IF @ = r THEN None ELSE @]

Drained(r) ==
    /\ call[r] = "draining"
    /\ call' = [call EXCEPT ![r] = "waiting"]
    /\ Unlock(r)
    /\ UNCHANGED <<registry, closeJoin, lifecycle, overdue, outSeq, pending, wires, target,
                   future, served, watchdog, unlisting, faults>>

(* The pipe is broken: the worker is stopped and the caller waits for that. *)
WriteFails(r) ==
    LET h == target[r] IN
    /\ call[r] = "draining" /\ ~Running(h)
    /\ call' = [call EXCEPT ![r] = "joining"]
    /\ Unlock(r)
    /\ unlisting' = unlisting \cup {h}
    /\ IF stop[h] = "none"
       THEN /\ stop' = [stop EXCEPT ![h] = "killing"]
            /\ future' = [s \in Requests |->
                  IF s \in pending[h] \ {r} /\ future[s] = "open" THEN "failed" ELSE future[s]]
            /\ pending' = [pending EXCEPT ![h] = {}]
       ELSE /\ pending' = [pending EXCEPT ![h] = @ \ {r}]
            /\ UNCHANGED <<stop, future>>
    /\ UNCHANGED <<registry, closeJoin, project, process, failedStop, reader, overdue, outSeq,
                   wires, target, served, watchdog, faults>>

(* A request returns: with its answer, with the failure of its future, or    *)
(* after the stop it waited for.                                             *)
Returns(r) ==
    /\ \/ /\ call[r] = "waiting" /\ future[r] = "answered"
          /\ call' = [call EXCEPT ![r] = "answered"]
       \/ /\ call[r] = "waiting" /\ future[r] = "failed"
          /\ call' = [call EXCEPT ![r] = "unavailable"]
       \/ /\ call[r] = "joining" /\ stop[target[r]] = "done"
          /\ call' = [call EXCEPT ![r] = "unavailable"]
    /\ UNCHANGED <<registry, closeJoin, lifecycle, overdue, outSeq, pending, writeLock, wires,
                   target, future, served, watchdog, unlisting, faults>>

(* abandon_request: the deadline passes or the caller is cancelled. *)
Abandon(r) ==
    /\ call[r] \in {"queued", "draining", "waiting"}
    /\ call' = [call EXCEPT ![r] = "abandoned"]
    /\ pending' = [pending EXCEPT ![target[r]] = @ \ {r}]
    /\ Unlock(r)
    /\ UNCHANGED <<registry, closeJoin, lifecycle, overdue, outSeq, wires, target, future,
                   served, watchdog, unlisting, faults>>

-----------------------------------------------------------------------------
(* The worker process reads one message after the other.  Its replay window *)
(* takes consecutive numbers only; it exits on any other.                   *)
Consecutive(h, message) == message.seq = lastIn[h] + 1

Serve(h) ==
    LET message == Head(stdin[h]) IN
    /\ Running(h) /\ starting # h /\ stdin[h] # <<>>
    /\ IF Consecutive(h, message)
       THEN /\ stdout' = [stdout EXCEPT ![h] = Append(@, message.call)]
            /\ served' = served \cup ({message.call} \ {Shutdown})
            /\ IF message.call = Shutdown
               THEN Exits(h)
               ELSE /\ stdin' = [stdin EXCEPT ![h] = Tail(@)]
                    /\ lastIn' = [lastIn EXCEPT ![h] = message.seq]
                    /\ UNCHANGED process
       ELSE Exits(h) /\ UNCHANGED <<stdout, served>>
    /\ UNCHANGED <<registry, closeJoin, project, stop, failedStop, reader, overdue, outSeq,
                   pending, writeLock, stdinOpen, calls, watchdog, unlisting, faults>>

(* End of input: the worker returns 0. *)
WorkerLeaves(h) ==
    /\ Running(h) /\ h \notin stdinOpen /\ stdin[h] = <<>>
    /\ Exits(h)
    /\ UNCHANGED <<registry, closeJoin, project, stop, failedStop, reader, overdue, outSeq,
                   pending, writeLock, stdinOpen, stdout, calls, served, watchdog, unlisting, faults>>

Crash(h) ==
    /\ Running(h) /\ Fault
    /\ Exits(h)
    /\ UNCHANGED <<registry, closeJoin, project, stop, failedStop, reader, overdue, outSeq,
                   pending, writeLock, stdinOpen, stdout, calls, served, watchdog, unlisting>>

(* A frame the decoder or the inbound replay window refuses. *)
Garble(h) ==
    /\ Running(h) /\ Fault
    /\ stdout' = [stdout EXCEPT ![h] = Append(@, "garbage")]
    /\ UNCHANGED <<registry, closeJoin, lifecycle, overdue, outSeq, pending, writeLock, stdin,
                   stdinOpen, lastIn, calls, served, watchdog, unlisting>>

-----------------------------------------------------------------------------
(* Mutation of ReadReply: an answer settles every request that waits. *)
ReadReplyUncorrelated(h) ==
    /\ reader[h] = "reading" /\ stdout[h] # <<>> /\ Head(stdout[h]) # "garbage"
    /\ stdout' = [stdout EXCEPT ![h] = Tail(@)]
    /\ pending' = [pending EXCEPT ![h] = {}]
    /\ future' = [r \in Requests |->
                     IF r \in pending[h] /\ future[r] = "open" THEN "answered" ELSE future[r]]
    /\ UNCHANGED <<registry, closeJoin, lifecycle, overdue, outSeq, writeLock, stdin, stdinOpen,
                   lastIn, call, target, served, watchdog, unlisting, faults>>

(* _read_stdout *)
ReadReply(h) ==
    LET reply == Head(stdout[h]) IN
    /\ reader[h] = "reading" /\ stdout[h] # <<>> /\ reply # "garbage"
    /\ stdout' = [stdout EXCEPT ![h] = Tail(@)]
    /\ pending' = [pending EXCEPT ![h] = @ \ {reply}]
    /\ future' = [r \in Requests |->
                     IF r = reply /\ r \in pending[h] /\ future[r] = "open"
                     THEN "answered" ELSE future[r]]
    /\ UNCHANGED <<registry, closeJoin, lifecycle, overdue, outSeq, writeLock, stdin, stdinOpen,
                   lastIn, call, target, served, watchdog, unlisting, faults>>

(* _handle_reader_failure: the reader becomes the stop task if there is none. *)
ReaderFails(h) ==
    /\ reader[h] = "reading"
    /\ \/ stdout[h] # <<>> /\ Head(stdout[h]) = "garbage"
       \/ stdout[h] = <<>> /\ ~Running(h) /\ stop[h] = "none"
    /\ reader' = [reader EXCEPT ![h] = "ended"]
    /\ stop' = [stop EXCEPT ![h] = IF @ = "none" THEN "killing" ELSE @]
    /\ FailPending(h)
    /\ UNCHANGED <<registry, closeJoin, project, process, failedStop, overdue, outSeq,
                   writeLock, wires, call, target, served, watchdog, unlisting, faults>>

(* The end of the output of a worker that is being stopped. *)
ReaderEnds(h) ==
    /\ reader[h] = "reading" /\ stdout[h] = <<>> /\ ~Running(h) /\ stop[h] # "none"
    /\ reader' = [reader EXCEPT ![h] = "ended"]
    /\ UNCHANGED <<registry, closeJoin, project, process, stop, failedStop, overdue, outSeq,
                   pending, writeLock, wires, calls, served, watchdog, unlisting, faults>>

(* Nobody looks at the heartbeats of a worker that is being stopped. *)
Heartbeat(h) ==
    /\ h \in overdue /\ reader[h] = "reading" /\ Running(h) /\ stop[h] = "none"
    /\ overdue' = overdue \ {h}
    /\ UNCHANGED <<registry, closeJoin, lifecycle, outSeq, pending, writeLock, wires, calls,
                   served, watchdog, unlisting, faults>>

HeartbeatOverdue(h) ==
    /\ h \in workers \ overdue /\ stop[h] = "none"
    /\ overdue' = overdue \cup {h}
    /\ UNCHANGED <<registry, closeJoin, lifecycle, outSeq, pending, writeLock, wires, calls,
                   served, watchdog, unlisting, faults>>

-----------------------------------------------------------------------------
(* watch_once, called again and again by the watchdog task.  The handles it  *)
(* found overdue are stopped one after the other, each after an await; an    *)
(* error of a stop task ends the watchdog.                                   *)
WatchScan ==
    /\ watching /\ watchTodo = {} /\ watched = {}
    /\ watchTodo' = {h \in workers : h \in overdue /\ stop[h] = "none"}
    /\ watchTodo' # {}
    /\ UNCHANGED <<registry, closeJoin, lifecycle, overdue, outSeq, pending, writeLock, wires,
                   calls, served, watched, watching, unlisting, faults>>

WatchStops(h) ==
    /\ h \in watchTodo /\ watched \cap unlisting = {}
    /\ watchTodo' = watchTodo \ {h}
    /\ watched' = watched \cup {h}
    /\ unlisting' = unlisting \cup {h}
    /\ EnsureStop(h, FALSE)
    /\ UNCHANGED <<registry, closeJoin, project, process, failedStop, reader, overdue, outSeq,
                   writeLock, wires, call, target, served, watching, faults>>

WatchReturns ==
    /\ WatchJoining
    /\ \A h \in watched : stop[h] = "done"
    /\ watched' = {}
    /\ watching' = (watching /\ watched \cap failedStop = {})
    /\ UNCHANGED <<registry, closeJoin, lifecycle, overdue, outSeq, pending, writeLock, wires,
                   calls, served, watchTodo, unlisting, faults>>

-----------------------------------------------------------------------------
StopTask(h) ==
    StopAsks(h) \/ StopClosesStdin(h) \/ StopKills(h) \/ StopDrains(h)
    \/ StopUnregisters(h)
Reader(h) == ReadReply(h) \/ ReaderFails(h) \/ ReaderEnds(h) \/ Heartbeat(h)
Caller(r) == Send(r) \/ SendRefused(r) \/ Drained(r) \/ WriteFails(r) \/ Returns(r) \/ Abandon(r)
Worker(h) == Serve(h) \/ WorkerLeaves(h)
Watch == WatchScan \/ (\E h \in Handles : WatchStops(h)) \/ WatchReturns

Next ==
    \/ \E p \in Projects, h \in Handles : BeginStart(p, h)
    \/ \E h \in Handles : FinishStart(h) \/ FailStart(h)
    \/ \E p \in Projects : StopProject(p)
    \/ StopAll \/ StopAllReturns
    \/ \E h \in Handles : StopTask(h) \/ Unlist(h) \/ Reader(h) \/ Worker(h)
    \/ \E h \in Handles : Crash(h) \/ Garble(h) \/ HeartbeatOverdue(h)
    \/ \E r \in Requests : Caller(r) \/ \E h \in Handles : Ask(r, h)
    \/ Watch

(* The event loop runs its ready tasks, processes are created or refused,    *)
(* and deadlines pass; no worker is assumed to answer or to exit by itself.  *)
Fairness ==
    /\ \A h \in Handles :
           /\ WF_vars(FinishStart(h)) /\ WF_vars(StopTask(h)) /\ WF_vars(Unlist(h))
           /\ WF_vars(ReadReply(h) \/ ReaderFails(h) \/ ReaderEnds(h))
    /\ \A r \in Requests :
           WF_vars(Send(r) \/ SendRefused(r) \/ WriteFails(r) \/ Returns(r))
    /\ WF_vars(StopAllReturns)
    /\ WF_vars(Watch)

Spec == Init /\ [][Next]_vars
FairSpec == Spec /\ Fairness
-----------------------------------------------------------------------------
(* Every variable holds values of its type. *)
TypeOK ==
    /\ starting \in Handles \cup {None}
    /\ workers \subseteq Handles
    /\ projects \in [Projects -> Handles \cup {None}]
    /\ closing \in BOOLEAN /\ watching \in BOOLEAN
    /\ project \in [Handles -> Projects \cup {None}]
    /\ process \in [Handles -> {"none", "running", "exited"}]
    /\ stop \in [Handles -> StopStates]
    /\ reader \in [Handles -> {"none", "reading", "ended"}]
    /\ closeJoin \subseteq Handles /\ failedStop \subseteq Handles
    /\ overdue \subseteq Handles /\ stdinOpen \subseteq Handles
    /\ watchTodo \subseteq Handles /\ watched \subseteq Handles /\ unlisting \subseteq Handles
    /\ outSeq \in [Handles -> Nat] /\ lastIn \in [Handles -> Nat]
    /\ pending \in [Handles -> SUBSET (Requests \cup {Shutdown})]
    /\ writeLock \in [Handles -> Requests \cup {None}]
    /\ stdin \in [Handles -> Seq(Message)] /\ stdout \in [Handles -> Seq(Reply)]
    /\ call \in [Requests -> CallStates]
    /\ target \in [Requests -> Handles \cup {None}]
    /\ future \in [Requests -> {"open", "answered", "failed"}]
    /\ served \subseteq Requests
    /\ faults \in 0..MaxFaults

(* No worker process runs without an owner: it is being started, or it is   *)
(* the one registered for its project, where stop_project and stop_all find *)
(* it.  In particular a project never has two processes, although a worker  *)
(* leaves _workers early and its project entry goes only after the kill.    *)
ProcessOwned ==
    \A h \in Handles : Running(h) => starting = h \/ projects[project[h]] = h

(* When stop_all has returned, no worker process is left, whatever was      *)
(* starting, being stopped or failing when it was called.                   *)
ClosedMeansStopped ==
    closing /\ closeJoin = {} => \A h \in Handles : ~Running(h)

(* A caller never waits on a future that only its deadline can settle       *)
(* although the supervisor has given the worker up: an open future is       *)
(* pending at a handle that is not being stopped and whose output is read.  *)
NobodyForgotten ==
    \A r \in Requests :
        LET h == target[r] IN
        call[r] = "waiting" /\ future[r] = "open" =>
            r \in pending[h] /\ stop[h] = "none" /\ reader[h] = "reading"

Outcome(r) ==
    CASE call[r] = "idle" -> "none"
      [] call[r] \in {"queued", "draining", "waiting", "joining"} -> "open"
      [] OTHER -> call[r]

(* The supervisor, its pipes and the workers keep what send promises. *)
Contract == INSTANCE RequestContract WITH outcome <- [r \in Requests |-> Outcome(r)]
ImplementsContract == Contract!Spec

(* A stop task ends, whatever the worker does and whoever waits for it. *)
StopEnds == \A h \in Handles : stop[h] # "none" ~> stop[h] = "done"

(* When the process of a worker has ended, its callers return without       *)
(* having to wait for their deadlines.                                      *)
DeadWorkerReleasesCallers ==
    \A r \in Requests :
        (Outcome(r) = "open" /\ ~Running(target[r])) ~> Outcome(r) # "open"

=============================================================================
