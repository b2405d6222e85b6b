----------------------------- MODULE EventStream -----------------------------
(***************************************************************************)
(* The live event feed: the websocket publisher of the outbox broadcasts   *)
(* committed events through an in-memory broker to one handler per socket; *)
(* a handler subscribes first, replays the log page by page from the       *)
(* cursor of the client, then sends what its queue brings.  The desktop's  *)
(* EventProxy observes one workflow, fetches a single-use ticket, opens a  *)
(* socket and reconnects with its cursor when the socket closes.           *)
(*                                                                         *)
(* The critical sections of the broker and of the ticket store hold no     *)
(* await, so each is atomic and a publication never waits.  What a handler *)
(* does between two reads of shared state is one action.  Events are       *)
(* published for the first time in the order of their creation time, those *)
(* of one clock tick in any order (FirstAttemptsInTimeOrder of Outbox);    *)
(* later attempts repeat any of them.                                      *)
(***************************************************************************)
EXTENDS Naturals, Sequences

CONSTANTS
    Workflows,       \* workflow ids
    Conns,           \* connections, used again after both ends are closed
    NoConn,          \* null: no socket, no workflow
    QueueCapacity,   \* settings.websocket_subscriber_queue_capacity
    DedupCapacity,   \* settings.websocket_publisher_dedup_capacity
    PageSize,        \* settings.websocket_replay_batch_size
    TicketCapacity,  \* max_pending of the ticket store
    MaxEvents,       \* bound on committed events
    MaxSwitches,     \* bound on changes of the observed workflow
    MaxRepeats,      \* bound on repeated publications
    MaxDisturbances  \* bound on restarts, drops, failed connects, expiries, replays

ASSUME EventStreamAssumption ==
    /\ NoConn \notin Conns
    /\ {QueueCapacity, DedupCapacity, PageSize, TicketCapacity} \subseteq Nat \ {0}
    /\ {MaxEvents, MaxSwitches, MaxRepeats, MaxDisturbances} \subseteq Nat

VARIABLES
    log,      \* workflow of each event in event_log, by event id
    born,     \* creation time of each event, in clock ticks
    released, \* events published at least once, or committed before this process
    recent,   \* the broker's _published, oldest first
    subs,     \* the broker's _subscriptions
    queue,    \* queue of each subscription; 0 stands for the sentinel None
    tickets,  \* the ticket store, oldest first: of the current attempt or stale
    handler,  \* where the handler of each connection is
    subject,  \* workflow each handler serves
    last,     \* last_event_id of each handler
    wire,     \* events sent to the client and not yet received
    active,   \* EventProxy.activeWorkflowId
    cursor,   \* EventProxy.lastEventId
    socket,   \* EventProxy.socket
    phase,    \* what the proxy is doing about its connection
    switches, repeats, disturbances  \* so far

logVars == <<log, born, released>>
brokerVars == <<recent, subs, queue>>
handlerVars == <<handler, subject, last>>
proxyVars == <<active, cursor, socket, phase>>
bounds == <<switches, repeats, disturbances>>
vars == <<logVars, brokerVars, tickets, handlerVars, wire, proxyVars, bounds>>

HandlerStates == {"none", "connecting", "replaying", "live", "closing"}
Phases == {"ticketing", "ticketed", "open", "waiting"}
Close == 0

Elements(s) == {s[i] : i \in DOMAIN s}
Disturb == disturbances < MaxDisturbances /\ disturbances' = disturbances + 1

\* The events of w after n.
Later(w, n) == {e \in DOMAIN log : e > n /\ log[e] = w}

\* Sequences of these events in id order, at most a page; what is left out
\* comes after a full page.
Listed(later) ==
    {page \in UNION {[1..k -> later] : k \in 0..PageSize} :
        /\ \A i, j \in DOMAIN page : i < j => page[i] < page[j]
        /\ \A e \in later \ Elements(page) :
               Len(page) = PageSize /\ \A i \in DOMAIN page : page[i] < e}

\* Mutation of Pages: one event too far.
PagesAfterNext(w, n) == Listed(Later(w, n + 1))

\* What list_after returns: the only page there is.
Pages(w, n) == Listed(Later(w, n))

\* A page that is not full ends the replay.
LastPage(p) == Len(p) < PageSize

-----------------------------------------------------------------------------
Init ==
    /\ active \in Workflows
    /\ log = <<>> /\ born = <<>> /\ released = {}
    /\ recent = <<>> /\ subs = {} /\ queue = [c \in Conns |-> <<>>]
    /\ tickets = <<>>
    /\ handler = [c \in Conns |-> "none"]
    /\ subject = [c \in Conns |-> NoConn]
    /\ last = [c \in Conns |-> 0]
    /\ wire = [c \in Conns |-> <<>>]
    /\ cursor = 0
    /\ socket = NoConn
    /\ phase = "ticketing"
    /\ switches = 0 /\ repeats = 0 /\ disturbances = 0

\* What the clock may show: the time of the event before, or a later one.
Ticks == IF log = <<>> THEN {0} ELSE {born[Len(log)], born[Len(log)] + 1}

Commit(w, tick) ==
    /\ Len(log) < MaxEvents
    /\ log' = Append(log, w)
    /\ born' = Append(born, tick)
    /\ UNCHANGED <<released, brokerVars, tickets, handlerVars, wire, proxyVars, bounds>>

Overfull(c) == Len(queue[c]) = QueueCapacity

\* What an overflow leaves of a queue: put_nowait(None) after emptying it.
Drained(q) == <<Close>>

\* EventStreamBroker.publish: events seen lately are ignored; a subscriber
\* without room is dropped and told so.
Broadcast(e) ==
    LET receivers == {c \in subs : subject[c] = log[e]}
        overflowed == {c \in receivers : Overfull(c)}
        published == Append(recent, e)
    IN IF e \in Elements(recent)
       THEN UNCHANGED brokerVars
       ELSE /\ recent' = IF Len(published) > DedupCapacity THEN Tail(published) ELSE published
            /\ queue' = [c \in Conns |-> CASE c \in overflowed -> Drained(queue[c])
                                           [] c \in receivers \ overflowed -> Append(queue[c], e)
                                           [] OTHER -> queue[c]]
            /\ subs' = subs \ overflowed

\* The first attempt of an event: all of earlier ticks have had theirs.
PublishNext(e) ==
    /\ e \in DOMAIN log \ released
    /\ \A f \in DOMAIN log : born[f] < born[e] => f \in released
    /\ Broadcast(e)
    /\ released' = released \cup {e}
    /\ UNCHANGED <<log, born, tickets, handlerVars, wire, proxyVars, bounds>>

\* A later attempt: websocket rows are retried until they are dead letters.
PublishAgain(e) ==
    /\ e \in released
    /\ repeats < MaxRepeats /\ repeats' = repeats + 1
    /\ Broadcast(e)
    /\ UNCHANGED <<logVars, tickets, handlerVars, wire, proxyVars, switches, disturbances>>

-----------------------------------------------------------------------------
\* Handlers that are over, and their local variables with them.
Ended(C) ==
    /\ handler' = [c \in Conns |-> IF c \in C THEN "none" ELSE handler[c]]
    /\ last' = [c \in Conns |-> IF c \in C THEN 0 ELSE last[c]]
    /\ subject' = [c \in Conns |-> IF c \in C THEN NoConn ELSE subject[c]]

\* The proxy lets its socket go: nothing more is received from it.  A handler
\* at work notices only when it sends.
LeaveSocket ==
    LET ended == {c \in Conns : c = socket /\ handler[c] \in {"connecting", "closing"}}
    IN /\ socket' = NoConn
       /\ wire' = [c \in Conns |-> IF c = socket THEN <<>> ELSE wire[c]]
       /\ Ended(ended)

\* connect(): the ticket of an earlier generation will not be used any more.
BeginConnect ==
    /\ phase' = "ticketing"
    /\ tickets' = [i \in DOMAIN tickets |-> "stale"]

\* EventTicketStore.issue: the oldest tickets make room.
IssueTicket ==
    /\ phase = "ticketing"
    /\ phase' = "ticketed"
    /\ LET kept == IF Len(tickets) < TicketCapacity THEN tickets
                   ELSE SubSeq(tickets, Len(tickets) - TicketCapacity + 2, Len(tickets))
       IN tickets' = Append(kept, "current")
    /\ UNCHANGED <<logVars, brokerVars, handlerVars, wire, active, cursor, socket, bounds>>

TicketExpires ==
    /\ tickets # <<>>
    /\ Disturb
    /\ tickets' = Tail(tickets)
    /\ UNCHANGED <<logVars, brokerVars, handlerVars, wire, proxyVars, switches, repeats>>

\* The ticket request fails, or its reply is refused.
ConnectFails ==
    /\ phase \in {"ticketing", "ticketed"}
    /\ Disturb
    /\ phase' = "waiting"
    /\ UNCHANGED <<logVars, brokerVars, tickets, handlerVars, wire, active, cursor, socket,
                   switches, repeats>>

\* A free connection; which one makes no difference.
Fresh(c) ==
    LET free == {d \in Conns : handler[d] = "none"} IN free # {} /\ c = CHOOSE d \in free : TRUE

\* The URL carries the ticket and the cursor of this moment.
OpenSocket(c) ==
    /\ phase = "ticketed" /\ Fresh(c)
    /\ phase' = "open"
    /\ socket' = c
    /\ handler' = [handler EXCEPT ![c] = "connecting"]
    /\ subject' = [subject EXCEPT ![c] = active]
    /\ last' = [last EXCEPT ![c] = cursor]
    /\ UNCHANGED <<logVars, brokerVars, tickets, wire, active, cursor, bounds>>

\* The head of stream_events: consume the ticket, then subscribe.
Handshake(c) ==
    /\ handler[c] = "connecting"
    /\ \/ /\ \E i \in DOMAIN tickets :
                /\ tickets[i] = "current"
                /\ tickets' = SubSeq(tickets, 1, i - 1) \o SubSeq(tickets, i + 1, Len(tickets))
          /\ handler' = [handler EXCEPT ![c] = "replaying"]
          /\ subs' = subs \cup {c}
          /\ queue' = [queue EXCEPT ![c] = <<>>]
       \/ /\ "current" \notin Elements(tickets)
          /\ handler' = [handler EXCEPT ![c] = "closing"]
          /\ UNCHANGED <<tickets, subs, queue>>
    /\ UNCHANGED <<logVars, recent, subject, last, wire, proxyVars, bounds>>

\* One page of the replay, sent; the last page is followed by the ready frame.
ReplayPage(c) ==
    /\ handler[c] = "replaying" /\ socket = c
    /\ \E page \in Pages(subject[c], last[c]) :
         /\ wire' = [wire EXCEPT ![c] = @ \o page]
         /\ last' = [last EXCEPT ![c] = IF page = <<>> THEN @ ELSE page[Len(page)]]
         /\ handler' = [handler EXCEPT ![c] = IF LastPage(page) THEN "live" ELSE "replaying"]
    /\ UNCHANGED <<logVars, brokerVars, tickets, subject, proxyVars, bounds>>

\* One item of the queue: the sentinel closes the socket, an event at or
\* below last_event_id is skipped, any other is sent.
TakeQueued(c) ==
    /\ handler[c] = "live" /\ queue[c] # <<>>
    /\ queue' = [queue EXCEPT ![c] = Tail(@)]
    /\ LET e == Head(queue[c])
       IN \/ /\ e = Close /\ socket = c
             /\ handler' = [handler EXCEPT ![c] = "closing"]
             /\ UNCHANGED <<wire, last>>
          \/ /\ e # Close /\ e <= last[c]
             /\ UNCHANGED <<wire, last, handler>>
          \/ /\ e # Close /\ e > last[c] /\ socket = c
             /\ wire' = [wire EXCEPT ![c] = Append(@, e)]
             /\ last' = [last EXCEPT ![c] = e]
             /\ UNCHANGED handler
    /\ UNCHANGED <<logVars, recent, subs, tickets, subject, proxyVars, bounds>>

\* A send on a socket the client has left raises; finally: unsubscribe.
HandlerEnds(c) ==
    /\ socket # c
    /\ \/ handler[c] = "replaying"
       \/ /\ handler[c] = "live" /\ queue[c] # <<>>
          /\ Head(queue[c]) = Close \/ Head(queue[c]) > last[c]
    /\ Ended({c})
    /\ subs' = subs \ {c}
    /\ queue' = [queue EXCEPT ![c] = <<>>]
    /\ UNCHANGED <<logVars, recent, tickets, wire, proxyVars, bounds>>

-----------------------------------------------------------------------------
\* EventProxy.receive: hand the event over unless the cursor is past it.
Receive(c) ==
    /\ socket = c /\ wire[c] # <<>>
    /\ cursor' = IF Head(wire[c]) > cursor THEN Head(wire[c]) ELSE cursor
    /\ wire' = [wire EXCEPT ![c] = Tail(@)]
    /\ UNCHANGED <<logVars, brokerVars, tickets, handlerVars, active, socket, phase, bounds>>

\* Mutation of SocketClosed: no reconnect is scheduled.
SocketClosedForGood(c) ==
    /\ socket = c /\ handler[c] = "closing" /\ wire[c] = <<>>
    /\ LeaveSocket
    /\ UNCHANGED <<logVars, brokerVars, tickets, active, cursor, phase, bounds>>

\* The close event arrives after everything that was sent.
SocketClosed(c) ==
    /\ socket = c /\ handler[c] = "closing" /\ wire[c] = <<>>
    /\ LeaveSocket
    /\ phase' = "waiting"
    /\ UNCHANGED <<logVars, brokerVars, tickets, active, cursor, bounds>>

SocketDropped ==
    /\ phase = "open"
    /\ Disturb
    /\ LeaveSocket
    /\ phase' = "waiting"
    /\ UNCHANGED <<logVars, brokerVars, tickets, active, cursor, switches, repeats>>

\* The timer of scheduleReconnect fires.
Reconnect ==
    /\ phase = "waiting"
    /\ BeginConnect
    /\ UNCHANGED <<logVars, brokerVars, handlerVars, wire, active, cursor, socket, bounds>>

\* requestReplay of a renderer, whose cursor is never ahead of the proxy's:
\* without a socket it starts a new generation, with one it does nothing.
RequestReplay ==
    /\ phase \in {"ticketing", "ticketed", "waiting"}
    /\ Disturb
    /\ BeginConnect
    /\ UNCHANGED <<logVars, brokerVars, handlerVars, wire, active, cursor, socket, switches,
                   repeats>>

\* observeWorkflow: the cursor is kept.
Observe(w) ==
    /\ w # active
    /\ switches < MaxSwitches /\ switches' = switches + 1
    /\ active' = w
    /\ LeaveSocket
    /\ BeginConnect
    /\ UNCHANGED <<logVars, brokerVars, cursor, repeats, disturbances>>

\* The backend restarts: broker, tickets and handlers are gone, the log stays.
RestartBackend ==
    /\ Disturb
    /\ released' = DOMAIN log
    /\ recent' = <<>> /\ subs' = {} /\ queue' = [c \in Conns |-> <<>>]
    /\ tickets' = <<>>
    /\ handler' = [c \in Conns |-> IF c = socket THEN "closing" ELSE "none"]
    /\ last' = [c \in Conns |-> 0]
    /\ subject' = [c \in Conns |-> NoConn]
    /\ UNCHANGED <<log, born, wire, proxyVars, switches, repeats>>

-----------------------------------------------------------------------------
Next ==
    \/ \E w \in Workflows, tick \in Ticks : Commit(w, tick)
    \/ \E w \in Workflows : Observe(w)
    \/ \E e \in 1..MaxEvents : PublishNext(e) \/ PublishAgain(e)
    \/ IssueTicket \/ TicketExpires \/ ConnectFails
    \/ \E c \in Conns : OpenSocket(c) \/ Handshake(c) \/ ReplayPage(c) \/ TakeQueued(c)
                        \/ HandlerEnds(c) \/ Receive(c) \/ SocketClosed(c)
    \/ SocketDropped \/ Reconnect \/ RequestReplay \/ RestartBackend

\* The dispatcher publishes as long as it lives, the event loops of backend
\* and desktop keep running their tasks, timers fire.
Fairness ==
    /\ WF_vars(\E e \in 1..MaxEvents : PublishNext(e))
    /\ WF_vars(IssueTicket) /\ WF_vars(Reconnect)
    /\ WF_vars(\E c \in Conns : OpenSocket(c))
    /\ \A c \in Conns : /\ WF_vars(Handshake(c)) /\ WF_vars(ReplayPage(c))
                        /\ WF_vars(TakeQueued(c)) /\ WF_vars(HandlerEnds(c))
                        /\ WF_vars(Receive(c)) /\ WF_vars(SocketClosed(c))

Spec == Init /\ [][Next]_vars
FairSpec == Spec /\ Fairness

-----------------------------------------------------------------------------
TypeOK ==
    /\ log \in Seq(Workflows) /\ Len(log) <= MaxEvents
    /\ born \in [DOMAIN log -> Nat]
    /\ released \subseteq DOMAIN log
    /\ recent \in Seq(released) /\ Len(recent) <= DedupCapacity
    /\ subs \subseteq Conns
    /\ queue \in [Conns -> Seq(released \cup {Close})] /\ \A c \in Conns : Len(queue[c]) <= QueueCapacity
    /\ tickets \in Seq({"current", "stale"}) /\ Len(tickets) <= TicketCapacity
    /\ handler \in [Conns -> HandlerStates]
    /\ subject \in [Conns -> Workflows \cup {NoConn}]
    /\ last \in [Conns -> 0..Len(log)]
    /\ wire \in [Conns -> Seq(1..Len(log))]
    /\ active \in Workflows
    /\ cursor \in 0..Len(log)
    /\ socket \in Conns \cup {NoConn}
    /\ phase \in Phases
    /\ switches \in 0..MaxSwitches
    /\ repeats \in 0..MaxRepeats /\ disturbances \in 0..MaxDisturbances

\* An event of the observed workflow after the cursor reaches the renderer,
\* or is overtaken by a later one, through overflows, retries, lost sockets
\* and restarts, unless the user turns to another workflow.
EventuallyFed ==
    \A e \in 1..MaxEvents :
        (e <= Len(log) /\ log[e] = active /\ e > cursor)
            ~> (cursor >= e \/ (e <= Len(log) /\ log[e] # active))

-----------------------------------------------------------------------------
\* Sockets, tickets, queues and pages hidden, the proxy hands over the log
\* in order, and misses at most events of one tick with a later one.
Feed == INSTANCE FeedContract
ImplementsFeed == Feed!Spec
=============================================================================
