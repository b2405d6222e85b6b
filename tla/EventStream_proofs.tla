--------------------------- MODULE EventStream_proofs ---------------------------
(***************************************************************************)
(* Proofs about the live event feed, for any number of workflows, events,  *)
(* connections and disturbances and any capacity of queue, deduplication,  *)
(* page and ticket store.                                                  *)
(***************************************************************************)
EXTENDS EventStream, Integers, SequenceTheorems, TLAPS

USE DEF logVars, brokerVars, handlerVars, proxyVars, bounds

-----------------------------------------------------------------------------
\* Types.
LEMMA Parameters ==
    /\ {MaxEvents, MaxSwitches, MaxRepeats, MaxDisturbances} \subseteq Nat
    /\ {QueueCapacity, DedupCapacity, PageSize, TicketCapacity} \subseteq Nat \ {0}
    /\ NoConn \notin Conns
BY EventStreamAssumption

LEMMA Lengths ==
    ASSUME TypeOK
    PROVE  /\ Len(log) \in Nat /\ DOMAIN log = 1..Len(log) /\ released \subseteq DOMAIN log
           /\ \A e \in DOMAIN log : log[e] \in Workflows /\ born[e] \in Nat
           /\ released \cup {Close} \subseteq 0..Len(log)
           /\ \A c \in Conns : /\ queue[c] \in Seq(released \cup {Close}) /\ Len(queue[c]) \in Nat
                               /\ Len(queue[c]) <= QueueCapacity
                               /\ DOMAIN queue[c] = 1..Len(queue[c])
                               /\ wire[c] \in Seq(1..Len(log)) /\ Len(wire[c]) \in Nat
                               /\ DOMAIN wire[c] = 1..Len(wire[c])
                               /\ last[c] \in 0..Len(log)
<1>1. Len(log) \in Nat /\ DOMAIN log = 1..Len(log) /\ \A e \in DOMAIN log : log[e] \in Workflows
  BY LenProperties, ElementOfSeq DEF TypeOK
<1>2. /\ released \subseteq DOMAIN log /\ \A e \in DOMAIN log : born[e] \in Nat
      /\ released \cup {Close} \subseteq 0..Len(log)
  BY <1>1 DEF TypeOK, Close
<1>3. ASSUME NEW c \in Conns
      PROVE  /\ queue[c] \in Seq(released \cup {Close}) /\ Len(queue[c]) \in Nat
             /\ Len(queue[c]) <= QueueCapacity /\ DOMAIN queue[c] = 1..Len(queue[c])
             /\ wire[c] \in Seq(1..Len(log)) /\ Len(wire[c]) \in Nat
             /\ DOMAIN wire[c] = 1..Len(wire[c]) /\ last[c] \in 0..Len(log)
  <2>1. /\ queue[c] \in Seq(released \cup {Close}) /\ wire[c] \in Seq(1..Len(log)) /\ last[c] \in 0..Len(log)
        /\ Len(queue[c]) <= QueueCapacity
    BY DEF TypeOK
  <2>. QED
    BY <2>1, LenProperties
<1>. QED
  BY <1>1, <1>2, <1>3

LEMMA CommitAppends ==
    ASSUME TypeOK, NEW w \in Workflows, NEW tick \in Ticks, Commit(w, tick)
    PROVE  LET n == Len(log)
           IN /\ n \in Nat /\ DOMAIN log = 1..n /\ DOMAIN log' = 1..n + 1
              /\ log' \in Seq(Workflows) /\ Len(log') = n + 1
              /\ \A e \in 1..n : log'[e] = log[e] /\ born'[e] = born[e]
              /\ n + 1 \in DOMAIN log' /\ n + 1 \notin DOMAIN log
              /\ DOMAIN log \subseteq DOMAIN log'
              /\ born' \in [DOMAIN log' -> Nat] /\ born'[n + 1] = tick
              /\ n = 0 \/ (n \in DOMAIN log /\ tick >= born[n])
<1>. DEFINE n == Len(log)
<1>1. n \in Nat /\ DOMAIN log = 1..n /\ log \in Seq(Workflows) /\ born \in [1..n -> Nat]
  BY Lengths DEF TypeOK
<1>2. /\ log' \in Seq(Workflows) /\ Len(log') = n + 1
      /\ \A e \in 1..n : log'[e] = log[e]
  BY <1>1, AppendProperties DEF Commit
<1>3. DOMAIN log' = 1..n + 1
  BY <1>2, LenProperties
<1>4. born \in Seq(Nat) /\ Len(born) = n
  <2>1. born \in Seq(Nat)
    BY <1>1, SeqDef
  <2>. QED
    BY <1>1, <2>1, LenProperties
<1>5. /\ tick \in Nat
      /\ n = 0 \/ (n \in 1..n /\ tick >= born[n])
  <2>1. CASE log = <<>>
    <3>1. n = 0
      BY <2>1, EmptySeq
    <3>. QED
      BY <2>1, <3>1 DEF Ticks
  <2>2. CASE log # <<>>
    <3>1. n # 0
      BY <1>1, <2>2, EmptySeq
    <3>2. n \in 1..n /\ born[n] \in Nat
      BY <1>1, <3>1
    <3>. QED
      BY <2>2, <3>2 DEF Ticks
  <2>. QED
    BY <2>1, <2>2
<1>6. /\ born' \in Seq(Nat) /\ Len(born') = n + 1 /\ born'[n + 1] = tick
      /\ \A e \in 1..n : born'[e] = born[e]
  <2>. HIDE DEF n
  <2>1. born' = Append(born, tick)
    BY DEF Commit
  <2>. QED
    BY <1>4, <1>5, <2>1, AppendProperties
<1>7. born' \in [1..n + 1 -> Nat]
  BY <1>6, LenProperties
<1>8. n + 1 \in 1..n + 1 /\ n + 1 \notin 1..n /\ 1..n \subseteq 1..n + 1
  BY <1>1
<1>. QED
  BY <1>1, <1>2, <1>3, <1>5, <1>6, <1>7, <1>8

LEMMA CommitTypes ==
    ASSUME TypeOK, NEW w \in Workflows, NEW tick \in Ticks, Commit(w, tick)
    PROVE  TypeOK'
<1>1. /\ log' \in Seq(Workflows) /\ Len(log') = Len(log) + 1 /\ Len(log) \in Nat
      /\ \A e \in 1..Len(log) : log'[e] = log[e]
      /\ DOMAIN log \subseteq DOMAIN log'
  BY CommitAppends DEF Commit, TypeOK
<1>2. Len(log') <= MaxEvents
  BY <1>1, Parameters DEF Commit
<1>3. /\ cursor' \in 0..Len(log')
      /\ last' \in [Conns -> 0..Len(log')]
  BY <1>1, SMTT(30) DEF Commit, TypeOK
<1>4. wire' \in [Conns -> Seq(1..Len(log'))]
  <2>1. 1..Len(log) \subseteq 1..Len(log')
    BY <1>1
  <2>2. Seq(1..Len(log)) \subseteq Seq(1..Len(log'))
    BY <2>1, SeqMonotonic
  <2>. QED
    BY <2>2 DEF Commit, TypeOK
<1>5. born' \in [DOMAIN log' -> Nat] /\ released' \subseteq DOMAIN log'
  BY <1>1, CommitAppends DEF Commit, TypeOK
<1>. QED
  BY <1>1, <1>2, <1>3, <1>4, <1>5 DEF Commit, TypeOK

\* The broker: publications are remembered and queued.
LEMMA BroadcastTypes ==
    ASSUME TypeOK, NEW P \in SUBSET DOMAIN log, released \subseteq P, NEW e \in P, Broadcast(e)
    PROVE  /\ recent' \in Seq(P) /\ Len(recent') <= DedupCapacity
           /\ queue' \in [Conns -> Seq(P \cup {Close})]
           /\ \A c \in Conns : Len(queue'[c]) <= QueueCapacity
           /\ subs' \subseteq Conns
<1>0. /\ e \in P \cup {Close}
      /\ DedupCapacity \in Nat /\ DedupCapacity > 0 /\ QueueCapacity \in Nat /\ QueueCapacity > 0
  BY Lengths, Parameters
<1>1. Seq(released) \subseteq Seq(P) /\ Seq(released \cup {Close}) \subseteq Seq(P \cup {Close})
  <2>1. released \cup {Close} \subseteq P \cup {Close}
    OBVIOUS
  <2>. QED
    BY <2>1, SeqMonotonic
<1>2. /\ recent \in Seq(P) /\ Len(recent) \in Nat /\ Len(recent) <= DedupCapacity
      /\ queue \in [Conns -> Seq(P \cup {Close})] /\ subs \subseteq Conns
      /\ \A c \in Conns : Len(queue[c]) \in Nat /\ Len(queue[c]) <= QueueCapacity
  BY <1>1, LenProperties, Lengths DEF TypeOK
<1>3. CASE e \in Elements(recent)
  BY <1>2, <1>3 DEF Broadcast
<1>4. CASE e \notin Elements(recent)
  <2>. DEFINE published == Append(recent, e)
  <2>1. published \in Seq(P) /\ Len(published) = Len(recent) + 1 /\ published # <<>>
    BY <1>0, <1>2, AppendProperties
  <2>2. recent' = IF Len(published) > DedupCapacity THEN Tail(published) ELSE published
    BY <1>4 DEF Broadcast
  <2>. HIDE DEF published
  <2>3. recent' \in Seq(P) /\ Len(recent') <= DedupCapacity
    <3>1. Tail(published) \in Seq(P) /\ Len(Tail(published)) = Len(published) - 1
      BY <2>1, HeadTailProperties
    <3>2. CASE Len(published) > DedupCapacity
      <4>1. Len(Tail(published)) <= DedupCapacity
        BY <1>0, <1>2, <2>1, <3>1
      <4>. QED
        BY <2>2, <3>1, <3>2, <4>1
    <3>3. CASE ~(Len(published) > DedupCapacity)
      <4>1. Len(published) <= DedupCapacity
        BY <1>0, <1>2, <2>1, <3>3
      <4>. QED
        BY <2>1, <2>2, <3>3, <4>1
    <3>. QED
      BY <3>2, <3>3
  <2>4. ASSUME NEW c \in Conns
        PROVE  queue'[c] \in Seq(P \cup {Close}) /\ Len(queue'[c]) <= QueueCapacity
    <3>1. \/ queue'[c] = queue[c]
          \/ queue'[c] = <<Close>>
          \/ queue'[c] = Append(queue[c], e) /\ ~Overfull(c)
      BY <1>4 DEF Broadcast, Drained
    <3>2. CASE queue'[c] = queue[c]
      BY <1>2, <3>2
    <3>3. CASE queue'[c] = <<Close>>
      BY <1>0, <3>3
    <3>4. CASE queue'[c] = Append(queue[c], e) /\ ~Overfull(c)
      <4>1. queue[c] \in Seq(P \cup {Close})
        BY <1>2
      <4>2. queue'[c] \in Seq(P \cup {Close}) /\ Len(queue'[c]) = Len(queue[c]) + 1
        BY <1>0, <3>4, <4>1, AppendProperties
      <4>. QED
        BY <1>0, <1>2, <3>4, <4>2 DEF Overfull
    <3>. QED
      BY <3>1, <3>2, <3>3, <3>4
  <2>5. queue' \in [Conns -> Seq(P \cup {Close})] /\ subs' \subseteq Conns
    <3>1. DOMAIN queue' = Conns /\ queue' = [c \in Conns |-> queue'[c]] /\ subs' \subseteq Conns
      BY <1>2, <1>4 DEF Broadcast
    <3>. QED
      BY <2>4, <3>1
  <2>. QED
    BY <2>3, <2>4, <2>5
<1>. QED
  BY <1>3, <1>4

LEMMA PublishTypes ==
    ASSUME TypeOK, NEW e \in 1..MaxEvents, PublishNext(e) \/ PublishAgain(e)
    PROVE  TypeOK'
<1>0. released \subseteq DOMAIN log
  BY Lengths
<1>1. CASE PublishNext(e)
  <2>1. released' \subseteq DOMAIN log /\ released \subseteq released' /\ e \in released'
    BY <1>0, <1>1 DEF PublishNext
  <2>2. /\ recent' \in Seq(released') /\ Len(recent') <= DedupCapacity
        /\ queue' \in [Conns -> Seq(released' \cup {Close})] /\ subs' \subseteq Conns
        /\ \A c \in Conns : Len(queue'[c]) <= QueueCapacity
    BY <1>1, <2>1, BroadcastTypes DEF PublishNext
  <2>. QED
    BY <1>1, <2>1, <2>2 DEF PublishNext, TypeOK
<1>2. CASE PublishAgain(e)
  <2>1. e \in released
    BY <1>2 DEF PublishAgain
  <2>2. /\ recent' \in Seq(released) /\ Len(recent') <= DedupCapacity
        /\ queue' \in [Conns -> Seq(released \cup {Close})] /\ subs' \subseteq Conns
        /\ \A c \in Conns : Len(queue'[c]) <= QueueCapacity
    BY <1>0, <1>2, <2>1, BroadcastTypes DEF PublishAgain
  <2>3. repeats' \in 0..MaxRepeats
    BY <1>2, Parameters, SMTT(30) DEF PublishAgain, TypeOK
  <2>. QED
    BY <1>2, <2>2, <2>3 DEF PublishAgain, TypeOK
<1>. QED
  BY <1>1, <1>2

\* Tickets come and go; the oldest make room.
LEMMA TicketTypes ==
    ASSUME TypeOK, IssueTicket \/ TicketExpires
    PROVE  TypeOK'
<1>. DEFINE T == {"current", "stale"}
<1>0. /\ tickets \in Seq(T) /\ Len(tickets) \in Nat /\ Len(tickets) <= TicketCapacity
      /\ TicketCapacity \in Nat \ {0} /\ DOMAIN tickets = 1..Len(tickets)
      /\ \A i \in 1..Len(tickets) : tickets[i] \in T
  <2>1. tickets \in Seq(T) /\ Len(tickets) <= TicketCapacity /\ TicketCapacity \in Nat \ {0}
    BY Parameters DEF TypeOK
  <2>. QED
    BY <2>1, LenProperties, ElementOfSeq
<1>1. CASE IssueTicket
  <2>. DEFINE kept == IF Len(tickets) < TicketCapacity THEN tickets
                      ELSE SubSeq(tickets, Len(tickets) - TicketCapacity + 2, Len(tickets))
  <2>1. tickets' = Append(kept, "current") /\ "current" \in T
    BY <1>1 DEF IssueTicket
  <2>2. kept \in Seq(T) /\ Len(kept) \in Nat /\ Len(kept) < TicketCapacity
    <3>1. CASE Len(tickets) < TicketCapacity
      BY <1>0, <3>1
    <3>2. CASE ~(Len(tickets) < TicketCapacity)
      <4>. DEFINE m == Len(tickets) - TicketCapacity + 2
                  n == Len(tickets)
      <4>5. Len(tickets) = TicketCapacity
        <5>1. Len(tickets) \in Nat /\ TicketCapacity \in Nat /\ Len(tickets) <= TicketCapacity
          BY <1>0
        <5>. QED
          BY <3>2, <5>1
      <4>1. m \in Int /\ n \in Int /\ m = 2 /\ n = TicketCapacity
        BY <1>0, <4>5
      <4>2. \A i \in m..n : tickets[i] \in T
        BY <1>0, <4>1
      <4>3. /\ SubSeq(tickets, m, n) \in Seq(T)
            /\ Len(SubSeq(tickets, m, n)) = IF m <= n THEN n - m + 1 ELSE 0
        BY <4>1, <4>2, SubSeqProperties
      <4>4. kept = SubSeq(tickets, m, n)
        BY <3>2
      <4>. QED
        BY <1>0, <4>1, <4>3, <4>4
    <3>. QED
      BY <3>1, <3>2
  <2>. HIDE DEF kept, T
  <2>3. tickets' \in Seq(T) /\ Len(tickets') = Len(kept) + 1
    BY <2>1, <2>2, AppendProperties
  <2>4. Len(tickets') <= TicketCapacity
    BY <1>0, <2>2, <2>3
  <2>5. tickets' \in Seq({"current", "stale"})
    BY <2>3 DEF T
  <2>. QED
    BY <1>1, <2>4, <2>5 DEF IssueTicket, TypeOK, Phases
<1>2. CASE TicketExpires
  <2>1. tickets' \in Seq(T) /\ Len(tickets') = Len(tickets) - 1
    BY <1>0, <1>2, HeadTailProperties DEF TicketExpires
  <2>2. Len(tickets') <= TicketCapacity /\ disturbances' \in 0..MaxDisturbances
    BY <1>0, <1>2, <2>1, Parameters, SMTT(30) DEF TicketExpires, Disturb, TypeOK
  <2>. QED
    BY <1>2, <2>1, <2>2 DEF TicketExpires, TypeOK
<1>. QED
  BY <1>1, <1>2

LEMMA StaleTypes ==
    ASSUME TypeOK, tickets' = [i \in DOMAIN tickets |-> "stale"]
    PROVE  tickets' \in Seq({"current", "stale"}) /\ Len(tickets') <= TicketCapacity
<1>1. DOMAIN tickets = 1..Len(tickets) /\ Len(tickets) \in Nat
  BY LenProperties DEF TypeOK
<1>2. tickets' \in [1..Len(tickets) -> {"current", "stale"}]
  BY <1>1
<1>3. tickets' \in Seq({"current", "stale"})
  BY <1>1, <1>2, SeqDef
<1>4. Len(tickets') = Len(tickets)
  BY <1>1, <1>2, <1>3, LenProperties
<1>. QED
  BY <1>3, <1>4 DEF TypeOK

\* A page lists events in order, leaves none out in between, and is full
\* unless it is the last one.
LEMMA PageFacts ==
    ASSUME TypeOK, NEW w, NEW n, NEW page \in Pages(w, n)
    PROVE  /\ page \in Seq(Later(w, n)) /\ Len(page) \in Nat /\ DOMAIN page = 1..Len(page)
           /\ \A i \in 1..Len(page) : page[i] \in Later(w, n)
           /\ \A i, j \in 1..Len(page) : i < j => page[i] < page[j]
           /\ \A i \in 1..Len(page), f \in Later(w, n) : f < page[i] => \E j \in 1..i - 1 : page[j] = f
           /\ LastPage(page) => \A f \in Later(w, n) : \E j \in 1..Len(page) : page[j] = f
<1>1. PICK k \in 0..PageSize : page \in [1..k -> Later(w, n)]
  BY DEF Pages, Listed
<1>2. k \in Nat /\ Later(w, n) \subseteq Nat /\ PageSize \in Nat
  BY <1>1, Lengths, Parameters DEF Later
<1>3. page \in Seq(Later(w, n))
  BY <1>1, <1>2, SeqDef
<1>4. /\ Len(page) \in Nat /\ DOMAIN page = 1..Len(page)
      /\ \A i \in 1..Len(page) : page[i] \in Later(w, n)
  BY <1>3, LenProperties, ElementOfSeq
<1>5. /\ \A i, j \in 1..Len(page) : i < j => page[i] < page[j]
      /\ \A e \in Later(w, n) \ Elements(page) :
             Len(page) = PageSize /\ \A i \in 1..Len(page) : page[i] < e
  BY <1>4 DEF Pages, Listed
<1>6. ASSUME NEW i \in 1..Len(page), NEW f \in Later(w, n), f < page[i]
      PROVE  \E j \in 1..i - 1 : page[j] = f
  <2>1. f \in Nat /\ page[i] \in Nat
    BY <1>2, <1>4
  <2>2. PICK j \in 1..Len(page) : page[j] = f
    BY <1>4, <1>5, <1>6, <2>1 DEF Elements
  <2>3. j < i
    BY <1>4, <1>5, <1>6, <2>1, <2>2
  <2>. QED
    BY <1>4, <2>2, <2>3
<1>7. ASSUME LastPage(page), NEW f \in Later(w, n) PROVE \E j \in 1..Len(page) : page[j] = f
  BY <1>2, <1>4, <1>5, <1>7 DEF LastPage, Elements
<1>. QED
  BY <1>3, <1>4, <1>5, <1>6, <1>7

LEMMA LeaveTypes ==
    ASSUME TypeOK, LeaveSocket
    PROVE  /\ socket' = NoConn
           /\ wire' \in [Conns -> Seq(1..Len(log))]
           /\ handler' \in [Conns -> HandlerStates]
           /\ subject' \in [Conns -> Workflows \cup {NoConn}]
           /\ last' \in [Conns -> 0..Len(log)]
<1>1. <<>> \in Seq(1..Len(log)) /\ 0 \in 0..Len(log)
  BY EmptySeq, Lengths
<1>. QED
  BY <1>1 DEF LeaveSocket, Ended, TypeOK, HandlerStates

\* The proxy.
LEMMA ProxyTypes ==
    ASSUME TypeOK,
           \/ ConnectFails \/ SocketDropped \/ Reconnect \/ RequestReplay
           \/ \E w \in Workflows : Observe(w)
           \/ \E c \in Conns : SocketClosed(c) \/ OpenSocket(c) \/ Receive(c)
    PROVE  TypeOK'
<1>0. {"ticketing", "ticketed", "open", "waiting"} = Phases /\ NoConn \in Conns \cup {NoConn}
  BY DEF Phases
<1>1. CASE ConnectFails
  <2>1. disturbances' \in 0..MaxDisturbances
    BY <1>1, Parameters, SMTT(30) DEF ConnectFails, Disturb, TypeOK
  <2>. QED
    BY <1>0, <1>1, <2>1 DEF ConnectFails, TypeOK
<1>2. CASE SocketDropped
  <2>1. disturbances' \in 0..MaxDisturbances
    BY <1>2, Parameters, SMTT(30) DEF SocketDropped, Disturb, TypeOK
  <2>. QED
    BY <1>0, <1>2, <2>1, LeaveTypes DEF SocketDropped, TypeOK
<1>3. CASE Reconnect
  BY <1>0, <1>3, StaleTypes DEF Reconnect, BeginConnect, TypeOK
<1>4. CASE RequestReplay
  <2>1. disturbances' \in 0..MaxDisturbances
    BY <1>4, Parameters, SMTT(30) DEF RequestReplay, Disturb, TypeOK
  <2>. QED
    BY <1>0, <1>4, <2>1, StaleTypes DEF RequestReplay, BeginConnect, TypeOK
<1>5. ASSUME NEW w \in Workflows, Observe(w) PROVE TypeOK'
  <2>1. switches' \in 0..MaxSwitches
    BY <1>5, Parameters, SMTT(30) DEF Observe, TypeOK
  <2>2. tickets' \in Seq({"current", "stale"}) /\ Len(tickets') <= TicketCapacity /\ phase' \in Phases
    BY <1>0, <1>5, StaleTypes DEF Observe, BeginConnect
  <2>. QED
    BY <1>0, <1>5, <2>1, <2>2, LeaveTypes DEF Observe, TypeOK
<1>6. ASSUME NEW c \in Conns, SocketClosed(c) PROVE TypeOK'
  BY <1>0, <1>6, LeaveTypes DEF SocketClosed, TypeOK
<1>7. ASSUME NEW c \in Conns, OpenSocket(c) PROVE TypeOK'
  BY <1>0, <1>7 DEF OpenSocket, TypeOK, HandlerStates
<1>8. ASSUME NEW c \in Conns, Receive(c) PROVE TypeOK'
  <2>1. /\ Head(wire[c]) \in 1..Len(log) /\ Tail(wire[c]) \in Seq(1..Len(log)) /\ Len(log) \in Nat
    BY <1>8, Lengths, HeadTailProperties DEF Receive
  <2>2. cursor' \in 0..Len(log) /\ wire' \in [Conns -> Seq(1..Len(log))]
    BY <1>8, <2>1, SMTT(30) DEF Receive, TypeOK
  <2>. QED
    BY <1>8, <2>2 DEF Receive, TypeOK
<1>. QED
  BY <1>1, <1>2, <1>3, <1>4, <1>5, <1>6, <1>7, <1>8

\* The handlers.
LEMMA HandshakeTypes ==
    ASSUME TypeOK, NEW c \in Conns, Handshake(c)
    PROVE  TypeOK'
<1>. DEFINE T == {"current", "stale"}
<1>1. /\ tickets \in Seq(T) /\ Len(tickets) \in Nat /\ DOMAIN tickets = 1..Len(tickets)
      /\ \A i \in 1..Len(tickets) : tickets[i] \in T
      /\ Len(tickets) <= TicketCapacity /\ TicketCapacity \in Nat
  <2>1. tickets \in Seq(T) /\ Len(tickets) <= TicketCapacity /\ TicketCapacity \in Nat
    BY Parameters DEF TypeOK
  <2>. QED
    BY <2>1, LenProperties, ElementOfSeq
<1>2. CASE "current" \notin Elements(tickets)
  <2>1. \A i \in DOMAIN tickets : tickets[i] # "current"
    BY <1>2 DEF Elements
  <2>. QED
    BY <2>1 DEF Handshake, TypeOK, HandlerStates
<1>3. ASSUME NEW i \in DOMAIN tickets,
             tickets' = SubSeq(tickets, 1, i - 1) \o SubSeq(tickets, i + 1, Len(tickets)),
             handler' = [handler EXCEPT ![c] = "replaying"], subs' = subs \cup {c},
             queue' = [queue EXCEPT ![c] = <<>>]
      PROVE  TypeOK'
  <2>. DEFINE a == SubSeq(tickets, 1, i - 1)
              b == SubSeq(tickets, i + 1, Len(tickets))
  <2>1. a \in Seq(T) /\ Len(a) = i - 1
    <3>1. 1 \in Int /\ i - 1 \in Int /\ \A j \in 1..i - 1 : tickets[j] \in T
      BY <1>1, <1>3
    <3>2. a \in Seq(T) /\ Len(a) = IF 1 <= i - 1 THEN (i - 1) - 1 + 1 ELSE 0
      BY <3>1, SubSeqProperties
    <3>. QED
      BY <1>1, <1>3, <3>2
  <2>2. b \in Seq(T) /\ Len(b) = Len(tickets) - i
    <3>1. i + 1 \in Int /\ Len(tickets) \in Int /\ \A j \in i + 1..Len(tickets) : tickets[j] \in T
      BY <1>1, <1>3
    <3>2. b \in Seq(T) /\ Len(b) = IF i + 1 <= Len(tickets) THEN Len(tickets) - (i + 1) + 1 ELSE 0
      BY <3>1, SubSeqProperties
    <3>. QED
      BY <1>1, <1>3, <3>2, SMTT(30)
  <2>3. tickets' = a \o b
    BY <1>3
  <2>. HIDE DEF a, b, T
  <2>4. tickets' \in Seq(T) /\ Len(tickets') = (i - 1) + (Len(tickets) - i)
    BY <2>1, <2>2, <2>3, ConcatProperties
  <2>5. Len(tickets') <= TicketCapacity
    BY <1>1, <1>3, <2>4
  <2>6. queue' \in [Conns -> Seq(released \cup {Close})] /\ \A d \in Conns : Len(queue'[d]) <= QueueCapacity
    <3>1. <<>> \in Seq(released \cup {Close}) /\ Len(<<>>) = 0 /\ 0 <= QueueCapacity
      BY EmptySeq, Parameters
    <3>. QED
      BY <1>3, <3>1 DEF TypeOK
  <2>7. tickets' \in Seq({"current", "stale"})
    BY <2>4 DEF T
  <2>. QED
    BY <1>3, <2>5, <2>6, <2>7 DEF Handshake, TypeOK, HandlerStates
<1>. QED
  BY <1>2, <1>3 DEF Handshake, Elements

LEMMA ReplayTypes ==
    ASSUME TypeOK, NEW c \in Conns, ReplayPage(c)
    PROVE  TypeOK'
<1>1. PICK page \in Pages(subject[c], last[c]) :
          /\ wire' = [wire EXCEPT ![c] = @ \o page]
          /\ last' = [last EXCEPT ![c] = IF page = <<>> THEN @ ELSE page[Len(page)]]
          /\ handler' = [handler EXCEPT ![c] = IF LastPage(page) THEN "live" ELSE "replaying"]
  BY DEF ReplayPage
<1>2. Later(subject[c], last[c]) \subseteq 1..Len(log)
  BY Lengths DEF Later
<1>3. page \in Seq(1..Len(log)) /\ Len(page) \in Nat
  BY <1>2, PageFacts, SeqMonotonic
<1>4. page # <<>> => page[Len(page)] \in 1..Len(log)
  BY <1>3, EmptySeq, ElementOfSeq
<1>5. wire[c] \o page \in Seq(1..Len(log))
  BY <1>3, Lengths, ConcatProperties
<1>6. wire' \in [Conns -> Seq(1..Len(log))] /\ last' \in [Conns -> 0..Len(log)]
  BY <1>1, <1>4, <1>5, Lengths, SMTT(30) DEF TypeOK
<1>7. handler' \in [Conns -> HandlerStates]
  BY <1>1 DEF TypeOK, HandlerStates
<1>. QED
  BY <1>6, <1>7 DEF ReplayPage, TypeOK

LEMMA TakeTypes ==
    ASSUME TypeOK, NEW c \in Conns, TakeQueued(c)
    PROVE  TypeOK'
<1>1. /\ queue[c] \in Seq(released \cup {Close}) /\ queue[c] # <<>> /\ Len(queue[c]) \in Nat
      /\ Len(queue[c]) <= QueueCapacity /\ QueueCapacity \in Nat
      /\ released \cup {Close} \subseteq 0..Len(log) /\ Len(log) \in Nat
  BY Lengths, Parameters DEF TakeQueued, TypeOK
<1>2. /\ Head(queue[c]) \in released \cup {Close} /\ Tail(queue[c]) \in Seq(released \cup {Close})
      /\ Len(Tail(queue[c])) = Len(queue[c]) - 1
  BY <1>1, HeadTailProperties
<1>3. queue' \in [Conns -> Seq(released \cup {Close})] /\ \A d \in Conns : Len(queue'[d]) <= QueueCapacity
  <2>1. queue' = [queue EXCEPT ![c] = Tail(queue[c])]
    BY DEF TakeQueued
  <2>2. Len(Tail(queue[c])) <= QueueCapacity
    BY <1>1, <1>2
  <2>. QED
    BY <1>2, <2>1, <2>2 DEF TypeOK
<1>. DEFINE e == Head(queue[c])
<1>4. /\ wire' \in [Conns -> Seq(1..Len(log))] /\ last' \in [Conns -> 0..Len(log)]
      /\ handler' \in [Conns -> HandlerStates]
  <2>1. CASE UNCHANGED <<wire, last>>
    BY <2>1 DEF TakeQueued, TypeOK, HandlerStates
  <2>2. CASE /\ e # Close /\ e > last[c]
             /\ wire' = [wire EXCEPT ![c] = Append(@, e)]
             /\ last' = [last EXCEPT ![c] = e]
             /\ UNCHANGED handler
    <3>1. e \in 1..Len(log) /\ e \in 0..Len(log)
      BY <1>2, <2>2, Lengths
    <3>2. Append(wire[c], e) \in Seq(1..Len(log))
      BY <3>1, Lengths, AppendProperties
    <3>. QED
      BY <2>2, <3>1, <3>2 DEF TypeOK
  <2>. QED
    BY <2>1, <2>2 DEF TakeQueued
<1>. QED
  BY <1>3, <1>4 DEF TakeQueued, TypeOK

LEMMA EndsTypes ==
    ASSUME TypeOK, NEW c \in Conns, HandlerEnds(c)
    PROVE  TypeOK'
<1>1. <<>> \in Seq(released \cup {Close}) /\ Len(<<>>) = 0 /\ 0 <= QueueCapacity /\ 0 \in 0..Len(log)
  BY EmptySeq, Parameters, Lengths
<1>2. queue' \in [Conns -> Seq(released \cup {Close})] /\ \A d \in Conns : Len(queue'[d]) <= QueueCapacity
  BY <1>1 DEF HandlerEnds, TypeOK
<1>3. /\ handler' \in [Conns -> HandlerStates] /\ last' \in [Conns -> 0..Len(log)]
      /\ subject' \in [Conns -> Workflows \cup {NoConn}] /\ subs' \subseteq Conns
  BY <1>1 DEF HandlerEnds, Ended, TypeOK, HandlerStates
<1>. QED
  BY <1>2, <1>3 DEF HandlerEnds, TypeOK

LEMMA RestartTypes ==
    ASSUME TypeOK, RestartBackend
    PROVE  TypeOK'
<1>1. /\ <<>> \in Seq(DOMAIN log \cup {Close}) /\ <<>> \in Seq(DOMAIN log) /\ <<>> \in Seq({"current", "stale"})
      /\ Len(<<>>) = 0 /\ Len(log) \in Nat
      /\ {QueueCapacity, DedupCapacity, TicketCapacity} \subseteq Nat
  BY EmptySeq, Parameters, Lengths
<1>2. queue' \in [Conns -> Seq(DOMAIN log \cup {Close})] /\ \A d \in Conns : Len(queue'[d]) <= QueueCapacity
  BY <1>1 DEF RestartBackend, TypeOK
<1>3. /\ handler' \in [Conns -> HandlerStates] /\ last' \in [Conns -> 0..Len(log)]
      /\ subject' \in [Conns -> Workflows \cup {NoConn}] /\ subs' \subseteq Conns
      /\ recent' \in Seq(DOMAIN log) /\ Len(recent') <= DedupCapacity
      /\ tickets' \in Seq({"current", "stale"}) /\ Len(tickets') <= TicketCapacity
      /\ released' = DOMAIN log /\ 0 \in 0..Len(log)
  BY <1>1 DEF RestartBackend, HandlerStates
<1>4. disturbances' \in 0..MaxDisturbances
  BY Parameters, SMTT(30) DEF RestartBackend, Disturb, TypeOK
<1>. QED
  BY <1>2, <1>3, <1>4 DEF RestartBackend, TypeOK

LEMMA TypeInit == Init => TypeOK
<1>. SUFFICES ASSUME Init PROVE TypeOK
  OBVIOUS
<1>1. /\ \A S : <<>> \in Seq(S)
      /\ Len(<<>>) = 0
      /\ {MaxEvents, MaxSwitches, MaxRepeats, MaxDisturbances} \subseteq Nat
      /\ {QueueCapacity, DedupCapacity, TicketCapacity} \subseteq Nat
  BY EmptySeq, Parameters
<1>2. log = <<>> /\ Len(log) = 0 /\ DOMAIN log = {} /\ released = {} /\ born \in [DOMAIN log -> Nat]
  BY <1>1 DEF Init
<1>3. /\ queue \in [Conns -> Seq(released \cup {Close})] /\ \A c \in Conns : Len(queue[c]) <= QueueCapacity
      /\ wire \in [Conns -> Seq(1..Len(log))] /\ last \in [Conns -> 0..Len(log)]
  BY <1>1, <1>2 DEF Init
<1>4. /\ log \in Seq(Workflows) /\ recent \in Seq(released) /\ tickets \in Seq({"current", "stale"})
      /\ Len(recent) <= DedupCapacity /\ Len(tickets) <= TicketCapacity
  BY <1>1 DEF Init
<1>. QED
  BY <1>1, <1>2, <1>3, <1>4 DEF Init, TypeOK, HandlerStates, Phases

LEMMA TypeStep == TypeOK /\ [Next]_vars => TypeOK'
<1>. SUFFICES ASSUME TypeOK, [Next]_vars PROVE TypeOK'
  OBVIOUS
<1>1. CASE UNCHANGED vars
  BY <1>1 DEF vars, TypeOK
<1>. QED
  BY <1>1, CommitTypes, PublishTypes, TicketTypes, ProxyTypes, HandshakeTypes, ReplayTypes, TakeTypes,
     EndsTypes, RestartTypes DEF Next

\* Every variable keeps its type; the queues of the subscriptions, the memory
\* of the broker and the ticket store stay within their capacity.
THEOREM TypeCorrect == Spec => []TypeOK
BY TypeInit, TypeStep, PTL DEF Spec

-----------------------------------------------------------------------------
\* The clock and the dispatcher: events are committed in the order of their
\* creation time and published for the first time in the order of the ticks.
BornInOrder == \A d, e \in DOMAIN log : d <= e => born[d] <= born[e]
ReleasedInOrder == \A e \in released, f \in DOMAIN log : born[f] < born[e] => f \in released
InTime == BornInOrder /\ ReleasedInOrder

LEMMA InTimeStep == TypeOK /\ InTime /\ [Next]_vars => InTime'
<1>. SUFFICES ASSUME TypeOK, InTime, [Next]_vars PROVE InTime'
  OBVIOUS
<1>1. ASSUME NEW w \in Workflows, NEW tick \in Ticks, Commit(w, tick) PROVE InTime'
  <2>. DEFINE n == Len(log)
  <2>1. /\ n \in Nat /\ DOMAIN log = 1..n /\ DOMAIN log' = 1..n + 1
        /\ \A e \in 1..n : born'[e] = born[e]
        /\ n + 1 \in DOMAIN log' /\ born' \in [DOMAIN log' -> Nat] /\ born'[n + 1] = tick
        /\ n = 0 \/ (n \in 1..n /\ tick >= born[n])
        /\ released' = released /\ released \subseteq 1..n
        /\ \A e \in 1..n : born[e] \in Nat
    BY <1>1, CommitAppends, Lengths DEF Commit
  <2>2. \A e \in 1..n + 1 : e \in 1..n \/ e = n + 1
    BY <2>1
  <2>3. \A e \in 1..n : born[e] <= tick /\ tick \in Nat /\ ~(n + 1 <= e)
    <3>1. ASSUME NEW e \in 1..n PROVE born[e] <= tick /\ tick \in Nat /\ ~(n + 1 <= e)
      <4>1. n \in 1..n /\ e <= n /\ ~(n + 1 <= e) /\ tick >= born[n] /\ tick \in Nat
        BY <2>1
      <4>2. born[e] <= born[n] /\ born[e] \in Nat /\ born[n] \in Nat
        BY <2>1, <4>1 DEF InTime, BornInOrder
      <4>. QED
        BY <4>1, <4>2
    <3>. QED
      BY <3>1
  <2>. HIDE DEF n
  <2>4. ASSUME NEW d \in 1..n + 1, NEW e \in 1..n + 1, d <= e PROVE born'[d] <= born'[e]
    <3>1. CASE d \in 1..n /\ e \in 1..n
      BY <2>1, <2>4, <3>1 DEF InTime, BornInOrder
    <3>2. CASE d \in 1..n /\ e = n + 1
      BY <2>1, <2>3, <3>2
    <3>3. CASE d = n + 1
      <4>1. e = n + 1
        BY <2>2, <2>3, <2>4, <3>3
      <4>. QED
        BY <2>1, <3>3, <4>1
    <3>. QED
      BY <2>2, <3>1, <3>2, <3>3
  <2>5. ASSUME NEW e \in released, NEW f \in 1..n + 1, born'[f] < born'[e] PROVE f \in released
    <3>1. e \in 1..n /\ born'[e] = born[e] /\ born[e] <= tick /\ born[e] \in Nat /\ tick \in Nat
      BY <2>1, <2>3
    <3>2. f \in 1..n
      BY <2>1, <2>2, <2>5, <3>1
    <3>. QED
      BY <2>1, <2>5, <3>1, <3>2 DEF InTime, ReleasedInOrder
  <2>. QED
    BY <2>1, <2>4, <2>5 DEF InTime, BornInOrder, ReleasedInOrder
<1>2. ASSUME NEW e \in 1..MaxEvents, PublishNext(e) PROVE InTime'
  <2>1. released' = released \cup {e} /\ log' = log /\ born' = born
    BY <1>2 DEF PublishNext
  <2>2. \A f \in DOMAIN log : born[f] < born[e] => f \in released
    BY <1>2 DEF PublishNext
  <2>. QED
    BY <2>1, <2>2 DEF InTime, BornInOrder, ReleasedInOrder
<1>3. CASE RestartBackend
  BY <1>3 DEF RestartBackend, InTime, BornInOrder, ReleasedInOrder
<1>4. CASE UNCHANGED logVars
  BY <1>4 DEF InTime, BornInOrder, ReleasedInOrder
<1>. QED
  BY <1>1, <1>2, <1>3, <1>4 DEF Next, vars, Observe, PublishAgain, IssueTicket, TicketExpires, ConnectFails,
     OpenSocket, Handshake, ReplayPage, TakeQueued, HandlerEnds, Receive, SocketClosed, SocketDropped,
     Reconnect, RequestReplay

\* The feed.  What is on the wire to the proxy continues its cursor and passes
\* over none but events of the tick of a later one; the handler knows how far
\* it has sent; a subscription that was not dropped holds every published
\* event the handler has not sent, or a later one of its tick, each after the
\* ones before it.  Only the connection the proxy uses matters.
Working == {"connecting", "replaying", "live"}
After(events, w, n) == {e \in DOMAIN events : e > n /\ events[e] = w}
Covers(times, e, f) == f <= e /\ times[f] = times[e]
Gapless(times, s, ahead) ==
    \A i \in DOMAIN s : \A f \in ahead : f < s[i] => \E j \in 1..i : Covers(times, s[j], f)
Sent(c) ==
    /\ \A i \in DOMAIN wire[c] : wire[c][i] \in After(log, active, cursor)
    /\ \A i, j \in DOMAIN wire[c] : i < j => wire[c][i] < wire[c][j]
    /\ Gapless(born, wire[c], After(log, active, cursor))
Reached(c) ==
    handler[c] \in Working =>
        /\ subject[c] = active /\ cursor <= last[c]
        /\ \A i \in DOMAIN wire[c] : wire[c][i] <= last[c]
        /\ \A f \in After(log, active, cursor) : f <= last[c] => \E j \in DOMAIN wire[c] : Covers(born, wire[c][j], f)
Pending(c) ==
    handler[c] \in {"replaying", "live"} =>
        /\ c \in subs => \A i \in DOMAIN queue[c] : queue[c][i] # Close /\ log[queue[c][i]] = active
        /\ c \notin subs => \A i \in DOMAIN queue[c] : queue[c][i] = Close
Following(c) ==
    handler[c] = "live" /\ c \in subs =>
        /\ Gapless(born, queue[c], After(log, active, last[c]))
        /\ \A f \in After(log, active, last[c]) :
               f \in released => \E j \in DOMAIN queue[c] : Covers(born, queue[c][j], f)
Served(c) == Sent(c) /\ Reached(c) /\ Pending(c) /\ Following(c)

Wired ==
    /\ socket # NoConn => phase = "open"
    /\ \A c \in Conns : c # socket => wire[c] = <<>>
    /\ \A c \in subs : handler[c] \in {"replaying", "live"}
FeedInv == Wired /\ (socket \in Conns => Served(socket))

LEMMA CoversItself == \A f \in Nat : Covers(born, f, f)
BY DEF Covers

LEMMA LeaveWired ==
    ASSUME TypeOK, FeedInv, LeaveSocket, UNCHANGED subs
    PROVE  Wired' /\ FeedInv'
<1>1. socket' = NoConn /\ NoConn \notin Conns
  BY Parameters DEF LeaveSocket
<1>2. \A c \in Conns : wire'[c] = <<>>
  BY DEF LeaveSocket, FeedInv, Wired
<1>3. \A c \in subs : c \in Conns /\ handler'[c] = handler[c]
  BY DEF LeaveSocket, Ended, FeedInv, Wired, TypeOK
<1>. QED
  BY <1>1, <1>2, <1>3 DEF FeedInv, Wired

\* Steps that concern other connections or the tickets only.
LEMMA Unmoved ==
    ASSUME TypeOK, FeedInv, socket \in Conns, UNCHANGED <<logVars, active, cursor, socket>>,
           wire'[socket] = wire[socket], handler'[socket] = handler[socket],
           subject'[socket] = subject[socket], last'[socket] = last[socket],
           queue'[socket] = queue[socket], socket \in subs <=> socket \in subs'
    PROVE  Served(socket)'
BY DEF FeedInv, Served, Sent, Reached, Pending, Following

LEMMA TicketsKeepFeed ==
    ASSUME TypeOK, FeedInv,
           IssueTicket \/ TicketExpires \/ ConnectFails \/ Reconnect \/ RequestReplay
    PROVE  FeedInv'
<1>1. /\ UNCHANGED <<logVars, active, cursor, socket, wire, handler, subject, last, queue, subs>>
      /\ phase # "open" \/ phase' = phase
  BY DEF IssueTicket, TicketExpires, ConnectFails, Reconnect, RequestReplay, BeginConnect
<1>2. Wired'
  BY <1>1 DEF FeedInv, Wired
<1>. QED
  BY <1>1, <1>2, Unmoved DEF FeedInv

\* A new event is after everything sent, queued and published.
LEMMA CommitKeepsFeed ==
    ASSUME TypeOK, FeedInv, NEW w \in Workflows, NEW tick \in Ticks, Commit(w, tick)
    PROVE  FeedInv'
<1>1. /\ UNCHANGED <<released, active, cursor, socket, wire, handler, subject, last, queue, subs, phase>>
      /\ Len(log) \in Nat /\ DOMAIN log = 1..Len(log) /\ DOMAIN log' = 1..Len(log) + 1
      /\ \A e \in DOMAIN log : log'[e] = log[e] /\ born'[e] = born[e]
      /\ cursor \in 0..Len(log) /\ released \subseteq 1..Len(log)
  BY Lengths, CommitAppends DEF Commit, TypeOK
<1>2. \A n : \A f \in After(log', active, n) : f \in After(log, active, n) \/ f = Len(log) + 1
  BY <1>1 DEF After
<1>3. \A n : After(log, active, n) \subseteq After(log', active, n)
  BY <1>1 DEF After
<1>4. \A e \in 0..Len(log), f \in DOMAIN log : Covers(born, e, f) => Covers(born', e, f)
  <2>1. \A e \in 0..Len(log), f \in DOMAIN log : f <= e => e \in DOMAIN log
    BY <1>1
  <2>. QED
    BY <1>1, <2>1 DEF Covers
<1>5. \A n : After(log, active, n) \subseteq DOMAIN log
  BY DEF After
<1>6. Wired'
  BY <1>1 DEF FeedInv, Wired
<1>7. ASSUME socket \in Conns PROVE Served(socket)'
  <2>0. PICK c \in Conns : c = socket
    BY <1>7
  <2>1. /\ Sent(c) /\ Reached(c) /\ Pending(c) /\ Following(c)
        /\ last[c] \in 0..Len(log)
        /\ DOMAIN wire[c] = 1..Len(wire[c]) /\ DOMAIN queue[c] = 1..Len(queue[c])
        /\ \A i \in DOMAIN wire[c] : wire[c][i] \in 1..Len(log)
        /\ \A i \in DOMAIN queue[c] : queue[c][i] \in 0..Len(log)
    <3>1. \A i \in DOMAIN queue[c] : queue[c][i] \in released \cup {Close}
      BY <2>0, Lengths, ElementOfSeq
    <3>. QED
      BY <2>0, <3>1, Lengths, ElementOfSeq DEF FeedInv, Served
  <2>2. Sent(c)'
    <3>1. \A i \in DOMAIN wire'[c] : wire'[c][i] \in After(log', active', cursor')
      BY <1>1, <1>3, <2>1 DEF Sent
    <3>2. Gapless(born', wire'[c], After(log', active', cursor'))
      <4>1. ASSUME NEW i \in DOMAIN wire[c], NEW f \in After(log', active, cursor), f < wire[c][i]
            PROVE  \E j \in 1..i : Covers(born', wire[c][j], f)
        <5>1. f \in After(log, active, cursor) /\ f \in DOMAIN log
          BY <1>1, <1>2, <1>5, <2>1, <4>1
        <5>2. PICK j \in 1..i : Covers(born, wire[c][j], f)
          BY <2>1, <4>1, <5>1 DEF Sent, Gapless
        <5>3. j \in DOMAIN wire[c] /\ wire[c][j] \in 0..Len(log)
          BY <2>1, <5>2, Lengths
        <5>4. Covers(born', wire[c][j], f)
          BY <1>1, <1>4, <5>1, <5>2, <5>3
        <5>. QED
          BY <1>1, <5>4
      <4>. QED
        BY <1>1, <2>1, <4>1 DEF Gapless
    <3>. QED
      BY <1>1, <2>1, <3>1, <3>2 DEF Sent
  <2>3. Reached(c)'
    <3>1. ASSUME handler[c] \in Working, NEW f \in After(log', active, cursor), f <= last[c]
          PROVE  \E j \in DOMAIN wire[c] : Covers(born', wire[c][j], f)
      <4>1. f \in After(log, active, cursor) /\ f \in DOMAIN log
        BY <1>1, <1>2, <1>5, <2>1, <3>1
      <4>2. PICK j \in DOMAIN wire[c] : Covers(born, wire[c][j], f)
        BY <2>1, <3>1, <4>1 DEF Reached
      <4>3. wire[c][j] \in 0..Len(log)
        BY <1>1, <2>1
      <4>4. Covers(born', wire[c][j], f)
        BY <1>1, <1>4, <4>1, <4>2, <4>3
      <4>. QED
        BY <1>1, <4>4
    <3>. QED
      BY <1>1, <2>1, <3>1 DEF Reached
  <2>4. Pending(c)'
    BY <1>1, <2>1 DEF Pending, Close
  <2>5. Following(c)'
    <3>. SUFFICES ASSUME handler[c] = "live", c \in subs PROVE Following(c)'
      BY <1>1 DEF Following
    <3>0. After(log', active', last'[c]) = After(log', active, last[c]) /\ queue'[c] = queue[c]
      BY <1>1
    <3>1. ASSUME NEW i \in DOMAIN queue[c], NEW f \in After(log', active, last[c]), f < queue[c][i]
          PROVE  \E j \in 1..i : Covers(born', queue[c][j], f)
      <4>1. f \in After(log, active, last[c]) /\ f \in DOMAIN log
        BY <1>1, <1>2, <1>5, <2>1, <3>1
      <4>2. PICK j \in 1..i : Covers(born, queue[c][j], f)
        BY <2>1, <3>1, <4>1 DEF Following, Gapless
      <4>3. j \in DOMAIN queue[c] /\ queue[c][j] \in 0..Len(log)
        BY <2>1, <4>2, Lengths
      <4>4. Covers(born', queue[c][j], f)
        BY <1>1, <1>4, <4>1, <4>2, <4>3
      <4>. QED
        BY <1>1, <4>4
    <3>2. ASSUME NEW f \in After(log', active, last[c]), f \in released
          PROVE  \E j \in DOMAIN queue[c] : Covers(born', queue[c][j], f)
      <4>1. f \in After(log, active, last[c]) /\ f \in DOMAIN log
        BY <1>1, <1>2, <1>5, <3>2
      <4>2. PICK j \in DOMAIN queue[c] : Covers(born, queue[c][j], f)
        BY <2>1, <3>2, <4>1 DEF Following
      <4>3. queue[c][j] \in 0..Len(log)
        BY <2>1
      <4>4. Covers(born', queue[c][j], f)
        BY <1>1, <1>4, <4>1, <4>2, <4>3
      <4>. QED
        BY <1>1, <4>4
    <3>3. Gapless(born', queue[c], After(log', active, last[c]))
      BY <1>1, <2>1, <3>1 DEF Gapless
    <3>. QED
      BY <1>1, <3>0, <3>2, <3>3 DEF Following
  <2>. QED
    BY <1>1, <2>0, <2>2, <2>3, <2>4, <2>5 DEF Served
<1>. QED
  BY <1>1, <1>6, <1>7 DEF FeedInv

\* A publication reaches the queue after everything published before it, or
\* the subscription is dropped and its handler told so.
LEMMA BroadcastKeepsFeed ==
    ASSUME TypeOK, FeedInv, NEW e \in DOMAIN log, Broadcast(e),
           released' = released \cup {e},
           \A f \in DOMAIN log \ released' : f < e => born[f] = born[e],
           UNCHANGED <<log, born, handlerVars, wire, proxyVars>>
    PROVE  FeedInv'
<1>1. /\ Len(log) \in Nat /\ DOMAIN log = 1..Len(log) /\ e \in Nat /\ e > 0
      /\ Elements(recent) \subseteq released
      /\ released \cup {Close} \subseteq 0..Len(log)
  <2>1. recent \in Seq(released)
    BY DEF TypeOK
  <2>2. Elements(recent) \subseteq released
    <3>1. ASSUME NEW i \in DOMAIN recent PROVE recent[i] \in released
      BY <2>1, <3>1, LenProperties, ElementOfSeq
    <3>. QED
      BY <3>1 DEF Elements
  <2>. QED
    BY <2>2, Lengths
<1>2. subs' \subseteq subs
  BY DEF Broadcast
<1>3. Wired'
  BY <1>2 DEF FeedInv, Wired
<1>4. ASSUME socket \in Conns PROVE Served(socket)'
  <2>0. PICK c \in Conns : c = socket
    BY <1>4
  <2>1. /\ Sent(c) /\ Reached(c) /\ Pending(c) /\ Following(c)
        /\ last[c] \in 0..Len(log)
        /\ DOMAIN wire[c] = 1..Len(wire[c])
        /\ queue[c] \in Seq(released \cup {Close}) /\ DOMAIN queue[c] = 1..Len(queue[c]) /\ Len(queue[c]) \in Nat
        /\ \A i \in DOMAIN queue[c] : queue[c][i] \in released \cup {Close}
        /\ c \in subs => handler[c] \in {"replaying", "live"} /\ subject[c] = active
    BY <2>0, Lengths, ElementOfSeq DEF FeedInv, Wired, Served, Reached, Working
  <2>2. Sent(c)' /\ Reached(c)'
    BY <2>1 DEF Sent, Reached
  <2>3. CASE e \in Elements(recent)
    <3>1. released' = released /\ UNCHANGED brokerVars
      BY <1>1, <2>3 DEF Broadcast
    <3>. QED
      BY <1>4, <3>1, Unmoved
  <2>4. CASE e \notin Elements(recent) /\ (c \notin subs \/ subject[c] # log[e])
    <3>1. queue'[c] = queue[c] /\ (c \in subs' <=> c \in subs)
      BY <2>1, <2>4 DEF Broadcast
    <3>2. Pending(c)'
      BY <2>1, <3>1 DEF Pending
    <3>3. Following(c)'
      <4>1. CASE handler[c] = "live" /\ c \in subs
        <5>1. After(log', active', last'[c]) = After(log, active, last[c]) /\ After(log, active, last[c]) \subseteq Nat
          BY <1>1, <2>1 DEF After
        <5>2. e \notin After(log, active, last[c])
          BY <2>1, <2>4, <4>1 DEF After
        <5>3. \A f \in After(log, active, last[c]) : f \in released' => f \in released
          BY <5>2
        <5>. QED
          <6>1. /\ Gapless(born, queue[c], After(log, active, last[c]))
                /\ \A f \in After(log, active, last[c]) :
                       f \in released => \E j \in DOMAIN queue[c] : Covers(born, queue[c][j], f)
            BY <2>1, <4>1 DEF Following
          <6>2. Gapless(born, queue'[c], After(log', active', last'[c]))
            BY <3>1, <5>1, <6>1 DEF Gapless
          <6>3. \A f \in After(log', active', last'[c]) :
                    f \in released' => \E j \in DOMAIN queue'[c] : Covers(born, queue'[c][j], f)
            BY <3>1, <5>1, <5>3, <6>1
          <6>. QED
            BY <2>1, <6>2, <6>3 DEF Following
      <4>2. CASE ~(handler[c] = "live" /\ c \in subs)
        BY <2>1, <3>1, <4>2 DEF Following
      <4>. QED
        BY <4>1, <4>2
    <3>. QED
      BY <2>0, <2>2, <3>2, <3>3 DEF Served
  <2>5. CASE e \notin Elements(recent) /\ c \in subs /\ subject[c] = log[e] /\ Overfull(c)
    <3>1. queue'[c] = <<Close>> /\ c \notin subs'
      BY <2>1, <2>5 DEF Broadcast, Drained
    <3>2. Pending(c)' /\ Following(c)'
      BY <2>1, <3>1 DEF Pending, Following
    <3>. QED
      BY <2>0, <2>2, <3>2 DEF Served
  <2>6. CASE e \notin Elements(recent) /\ c \in subs /\ subject[c] = log[e] /\ ~Overfull(c)
    <3>1. queue'[c] = Append(queue[c], e) /\ c \in subs'
      BY <2>1, <2>6 DEF Broadcast
    <3>2. /\ Len(queue'[c]) = Len(queue[c]) + 1
          /\ DOMAIN queue'[c] = 1..Len(queue[c]) + 1
          /\ \A i \in 1..Len(queue[c]) : queue'[c][i] = queue[c][i]
          /\ queue'[c][Len(queue[c]) + 1] = e
      <4>1. queue[c] \in Seq(Nat) /\ e \in Nat
        BY <1>1, <2>1, SeqMonotonic
      <4>. QED
        BY <3>1, <4>1, AppendProperties, LenProperties
    <3>3. Pending(c)'
      BY <1>1, <2>1, <2>6, <3>1, <3>2, SMTT(30) DEF Pending, Close
    <3>4. ASSUME handler[c] = "live" PROVE Following(c)'
      <4>1. /\ \A f \in After(log, active, last[c]) :
                   f \in released => \E j \in 1..Len(queue[c]) : Covers(born, queue[c][j], f)
            /\ Gapless(born, queue[c], After(log, active, last[c]))
        BY <2>1, <2>6, <3>4 DEF Following
      <4>2. After(log', active', last'[c]) = After(log, active, last[c]) /\ After(log, active, last[c]) \subseteq Nat
        BY <1>1, <2>1 DEF After
      <4>3. \A i \in 1..Len(queue[c]) + 1 : \A f \in After(log, active, last[c]) :
                f < queue'[c][i] => \E j \in 1..i : Covers(born, queue'[c][j], f)
        <5>1. ASSUME NEW i \in 1..Len(queue[c]), NEW f \in After(log, active, last[c]), f < queue'[c][i]
              PROVE  \E j \in 1..i : Covers(born, queue'[c][j], f)
          <6>1. PICK j \in 1..i : Covers(born, queue[c][j], f)
            BY <2>1, <3>2, <4>1, <5>1 DEF Gapless
          <6>2. j \in 1..Len(queue[c])
            BY <2>1, <5>1, <6>1
          <6>. QED
            BY <3>2, <6>1, <6>2
        <5>2. ASSUME NEW f \in After(log, active, last[c]), f < e
              PROVE  \E j \in 1..Len(queue[c]) + 1 : Covers(born, queue'[c][j], f)
          <6>1. Len(queue[c]) + 1 \in 1..Len(queue[c]) + 1
            BY <2>1
          <6>2. CASE f \notin released'
            <7>1. f \in DOMAIN log
              BY DEF After
            <7>2. Covers(born, e, f)
              BY <1>1, <5>2, <6>2, <7>1 DEF Covers
            <7>. QED
              BY <3>2, <6>1, <7>2
          <6>3. CASE f \in released'
            <7>1. f \in released
              BY <1>1, <4>2, <5>2, <6>3
            <7>2. PICK j \in 1..Len(queue[c]) : Covers(born, queue[c][j], f)
              BY <4>1, <7>1
            <7>3. j \in 1..Len(queue[c]) + 1
              BY <2>1, <7>2
            <7>. QED
              BY <3>2, <7>2, <7>3
          <6>. QED
            BY <6>2, <6>3
        <5>4. \A i \in 1..Len(queue[c]) + 1 : i \in 1..Len(queue[c]) \/ i = Len(queue[c]) + 1
          BY <2>1
        <5>. QED
          BY <3>2, <5>1, <5>2, <5>4
      <4>4. \A f \in After(log, active, last[c]) :
                f \in released' => \E j \in 1..Len(queue[c]) + 1 : Covers(born, queue'[c][j], f)
        <5>1. ASSUME NEW f \in After(log, active, last[c]), f \in released'
              PROVE  \E j \in 1..Len(queue[c]) + 1 : Covers(born, queue'[c][j], f)
          <6>1. Len(queue[c]) + 1 \in 1..Len(queue[c]) + 1
            BY <2>1
          <6>2. CASE f = e
            BY <1>1, <3>2, <6>1, <6>2, CoversItself
          <6>3. CASE f # e
            <7>1. f \in released
              BY <5>1, <6>3
            <7>2. PICK j \in 1..Len(queue[c]) : Covers(born, queue[c][j], f)
              BY <4>1, <7>1
            <7>3. j \in 1..Len(queue[c]) + 1
              BY <2>1, <7>2
            <7>. QED
              BY <3>2, <7>2, <7>3
          <6>. QED
            BY <6>2, <6>3
        <5>. QED
          BY <5>1
      <4>5. Gapless(born, queue'[c], After(log, active, last[c]))
        BY <3>2, <4>3 DEF Gapless
      <4>. QED
        BY <2>1, <3>2, <4>2, <4>4, <4>5 DEF Following
    <3>5. Following(c)'
      BY <2>1, <3>4 DEF Following
    <3>. QED
      BY <2>0, <2>2, <3>3, <3>5 DEF Served
  <2>. QED
    BY <2>3, <2>4, <2>5, <2>6
<1>. QED
  BY <1>3, <1>4 DEF FeedInv

LEMMA PublishKeepsFeed ==
    ASSUME TypeOK, InTime, FeedInv, NEW e \in 1..MaxEvents, PublishNext(e) \/ PublishAgain(e)
    PROVE  FeedInv'
<1>1. /\ e \in DOMAIN log /\ released' = released \cup {e} /\ Broadcast(e)
      /\ UNCHANGED <<log, born, handlerVars, wire, proxyVars>>
      /\ e \in released \/ \A f \in DOMAIN log : born[f] < born[e] => f \in released
  BY Lengths DEF PublishNext, PublishAgain
<1>2. ASSUME NEW f \in DOMAIN log, f \notin released', f < e PROVE born[f] = born[e]
  <2>1. f \in Nat /\ e \in Nat /\ born[f] \in Nat /\ born[e] \in Nat /\ f <= e
    BY <1>1, <1>2, Lengths
  <2>2. born[f] <= born[e]
    BY <1>1, <2>1 DEF InTime, BornInOrder
  <2>3. ~(born[f] < born[e])
    BY <1>1, <1>2 DEF InTime, ReleasedInOrder
  <2>. QED
    BY <2>1, <2>2, <2>3
<1>. QED
  BY <1>1, <1>2, BroadcastKeepsFeed

\* Sockets come and go.
LEMMA LeaveKeepsFeed ==
    ASSUME TypeOK, FeedInv,
           \/ SocketDropped \/ \E w \in Workflows : Observe(w)
           \/ \E c \in Conns : SocketClosed(c)
    PROVE  FeedInv'
BY LeaveWired DEF SocketDropped, Observe, SocketClosed

LEMMA OpenKeepsFeed ==
    ASSUME TypeOK, FeedInv, NEW c \in Conns, OpenSocket(c)
    PROVE  FeedInv'
<1>1. /\ phase = "ticketed" /\ phase' = "open" /\ socket' = c /\ handler[c] = "none"
      /\ UNCHANGED <<logVars, subs, queue, wire, active, cursor>>
      /\ handler' = [handler EXCEPT ![c] = "connecting"]
      /\ subject'[c] = active /\ last'[c] = cursor
  BY DEF OpenSocket, Fresh, TypeOK
<1>2. socket = NoConn /\ wire[c] = <<>> /\ c \notin subs
  BY <1>1, Parameters DEF FeedInv, Wired
<1>3. handler'[c] = "connecting" /\ \A d \in subs : handler'[d] = handler[d]
  BY <1>1, <1>2 DEF TypeOK
<1>4. Wired'
  BY <1>1, <1>2, <1>3, Parameters DEF FeedInv, Wired
<1>5. DOMAIN wire'[c] = {} /\ cursor \in Nat
  BY <1>1, <1>2, Lengths, EmptySeq, LenProperties DEF TypeOK
<1>6. Sent(c)' /\ Pending(c)' /\ Following(c)'
  BY <1>3, <1>5 DEF Sent, Gapless, Pending, Following
<1>7. Reached(c)'
  <2>1. \A f \in After(log, active, cursor) : ~(f <= cursor)
    BY <1>5, Lengths DEF After
  <2>. QED
    BY <1>1, <1>5, <2>1 DEF Reached
<1>. QED
  BY <1>1, <1>4, <1>6, <1>7 DEF FeedInv, Served

LEMMA HandshakeKeepsFeed ==
    ASSUME TypeOK, FeedInv, NEW c \in Conns, Handshake(c)
    PROVE  FeedInv'
<1>1. /\ handler[c] = "connecting" /\ UNCHANGED <<logVars, wire, active, cursor, socket, subject, last, phase>>
      /\ \A d \in Conns : d # c => /\ handler'[d] = handler[d] /\ queue'[d] = queue[d]
                                   /\ d \in subs' <=> d \in subs
      /\ \/ handler'[c] = "replaying" /\ c \in subs' /\ queue'[c] = <<>>
         \/ handler'[c] = "closing" /\ subs' = subs
      /\ subs' \subseteq Conns
  BY DEF Handshake, TypeOK
<1>2. c \notin subs
  BY <1>1 DEF FeedInv, Wired
<1>3. Wired'
  BY <1>1, <1>2 DEF FeedInv, Wired
<1>4. ASSUME socket = c PROVE Served(c)'
  <2>1. Sent(c) /\ Reached(c)
    BY <1>4 DEF FeedInv, Served
  <2>2. Sent(c)' /\ Reached(c)'
    BY <1>1, <2>1 DEF Sent, Reached, Working
  <2>3. Pending(c)' /\ Following(c)'
    <3>1. DOMAIN <<>> = {}
      OBVIOUS
    <3>. QED
      BY <1>1, <1>2, <3>1 DEF Pending, Following
  <2>. QED
    BY <2>2, <2>3 DEF Served
<1>5. ASSUME socket \in Conns, socket # c PROVE Served(socket)'
  BY <1>1, <1>5, Unmoved
<1>. QED
  BY <1>1, <1>3, <1>4, <1>5 DEF FeedInv

LEMMA EndKeepsFeed ==
    ASSUME TypeOK, FeedInv, NEW c \in Conns, HandlerEnds(c)
    PROVE  FeedInv'
<1>1. /\ socket # c /\ UNCHANGED <<logVars, wire, active, cursor, socket, phase>>
      /\ \A d \in Conns : d # c => /\ handler'[d] = handler[d] /\ queue'[d] = queue[d]
                                   /\ subject'[d] = subject[d] /\ last'[d] = last[d]
      /\ subs' = subs \ {c} /\ subs \subseteq Conns
  BY DEF HandlerEnds, Ended, TypeOK
<1>2. Wired'
  BY <1>1 DEF FeedInv, Wired
<1>. QED
  BY <1>1, <1>2, Unmoved DEF FeedInv

LEMMA RestartKeepsFeed ==
    ASSUME TypeOK, FeedInv, RestartBackend
    PROVE  FeedInv'
<1>1. /\ UNCHANGED <<log, born, wire, active, cursor, socket, phase>> /\ subs' = {}
      /\ socket \in Conns => handler'[socket] = "closing"
  BY DEF RestartBackend
<1>2. Wired'
  BY <1>1 DEF FeedInv, Wired
<1>3. ASSUME socket \in Conns PROVE Served(socket)'
  <2>0. PICK c \in Conns : c = socket
    BY <1>3
  <2>1. Sent(c) /\ handler'[c] = "closing"
    BY <1>1, <2>0 DEF FeedInv, Served
  <2>2. Sent(c)'
    BY <1>1, <2>1 DEF Sent
  <2>3. Reached(c)' /\ Pending(c)' /\ Following(c)'
    BY <2>1 DEF Reached, Working, Pending, Following
  <2>. QED
    BY <1>1, <2>0, <2>2, <2>3 DEF Served
<1>. QED
  BY <1>1, <1>2, <1>3 DEF FeedInv

\* The proxy takes the first event from the wire: the next one it wants.
LEMMA NextOnWire ==
    ASSUME TypeOK, FeedInv, NEW c \in Conns, Receive(c)
    PROVE  /\ cursor' = wire[c][1] /\ wire[c][1] \in After(log, active, cursor)
           /\ \A f \in After(log, active, cursor) : f < wire[c][1] => Covers(born, wire[c][1], f)
<1>1. socket = c /\ wire[c] # <<>> /\ Sent(c)
  BY DEF Receive, FeedInv, Served
<1>2. 1 \in DOMAIN wire[c] /\ Head(wire[c]) = wire[c][1]
  BY <1>1, Lengths, EmptySeq
<1>3. wire[c][1] \in After(log, active, cursor) /\ wire[c][1] > cursor
  BY <1>1, <1>2 DEF Sent, After
<1>4. \A f \in After(log, active, cursor) : f < wire[c][1] => Covers(born, wire[c][1], f)
  <2>1. ASSUME NEW f \in After(log, active, cursor), f < wire[c][1] PROVE Covers(born, wire[c][1], f)
    <3>1. PICK j \in 1..1 : Covers(born, wire[c][j], f)
      BY <1>1, <1>2, <2>1 DEF Sent, Gapless
    <3>2. j = 1
      OBVIOUS
    <3>. QED
      BY <3>1, <3>2
  <2>. QED
    BY <2>1
<1>. QED
  BY <1>2, <1>3, <1>4 DEF Receive

LEMMA ReceiveKeepsFeed ==
    ASSUME TypeOK, FeedInv, NEW c \in Conns, Receive(c)
    PROVE  FeedInv'
<1>. DEFINE s == wire[c]
            t == Tail(wire[c])
<1>1. /\ socket = c /\ s # <<>> /\ s \in Seq(1..Len(log)) /\ Len(s) \in Nat /\ DOMAIN s = 1..Len(s)
      /\ Sent(c) /\ Reached(c) /\ Pending(c) /\ Following(c)
      /\ UNCHANGED <<logVars, subs, queue, handler, subject, last, active, socket, phase>>
      /\ wire' = [wire EXCEPT ![c] = t] /\ wire'[c] = t
  BY Lengths DEF Receive, FeedInv, Served, TypeOK
<1>2. /\ t \in Seq(1..Len(log)) /\ Len(t) = Len(s) - 1 /\ Len(s) > 0
      /\ \A i \in 1..Len(t) : t[i] = s[i + 1]
      /\ DOMAIN t = 1..Len(t)
  <2>. HIDE DEF s
  <2>1. t = Tail(s) /\ s \in Seq(1..Len(log)) /\ s # <<>>
    BY <1>1 DEF s
  <2>. HIDE DEF t
  <2>2. t \in Seq(1..Len(log)) /\ Len(t) = Len(s) - 1 /\ \A i \in 1..Len(t) : t[i] = s[i + 1]
    BY <2>1, HeadTailProperties
  <2>3. DOMAIN t = 1..Len(t) /\ Len(t) \in Nat
    BY <2>2, LenProperties
  <2>4. Len(s) > 0
    BY <1>1, <2>2, <2>3 DEF s
  <2>. QED
    BY <2>2, <2>3, <2>4
<1>3. cursor' = s[1] /\ s[1] \in After(log, active, cursor)
  BY NextOnWire
<1>4. Wired'
  BY <1>1 DEF FeedInv, Wired
<1>. HIDE DEF s, t
<1>5. /\ \A f \in After(log, active, s[1]) : f \in After(log, active, cursor) /\ f > s[1]
      /\ \A f \in After(log, active, cursor) : f > s[1] => f \in After(log, active, s[1])
      /\ After(log, active, cursor) \subseteq Nat
      /\ cursor \in Nat /\ s[1] \in Nat /\ s[1] > cursor
  <2>1. DOMAIN log \subseteq Nat /\ cursor \in Nat
    BY Lengths DEF TypeOK
  <2>2. s[1] \in Nat /\ s[1] > cursor
    BY <1>3, <2>1 DEF After
  <2>3. ASSUME NEW f \in After(log, active, s[1])
        PROVE  f \in After(log, active, cursor) /\ f > s[1]
    <3>1. f \in DOMAIN log /\ f > s[1] /\ log[f] = active
      BY DEF After
    <3>2. f > cursor
      BY <2>1, <2>2, <3>1
    <3>. QED
      BY <3>1, <3>2 DEF After
  <2>4. \A f \in After(log, active, cursor) : f > s[1] => f \in After(log, active, s[1])
    BY DEF After
  <2>5. After(log, active, cursor) \subseteq Nat
    BY <2>1 DEF After
  <2>. QED
    BY <2>1, <2>2, <2>3, <2>4, <2>5
<1>6. /\ \A i \in 1..Len(s) : s[i] \in After(log, active, cursor)
      /\ \A i, j \in 1..Len(s) : i < j => s[i] < s[j]
      /\ \A i \in 1..Len(s) : \A f \in After(log, active, cursor) :
             f < s[i] => \E j \in 1..i : Covers(born, s[j], f)
  BY <1>1 DEF Sent, Gapless, s
<1>7. \A i \in 1..Len(t) : i + 1 \in 1..Len(s) /\ 1 < i + 1 /\ t[i] = s[i + 1]
  BY <1>1, <1>2
<1>8. \A i \in 1..Len(t) : t[i] \in After(log, active, s[1])
  <2>1. 1 \in 1..Len(s)
    BY <1>1, <1>2
  <2>. QED
    BY <1>5, <1>6, <1>7, <2>1
<1>9. ASSUME NEW i \in 1..Len(t), NEW j \in 1..Len(t), i < j PROVE t[i] < t[j]
  <2>1. i + 1 < j + 1
    BY <1>9
  <2>. QED
    BY <1>6, <1>7, <2>1
<1>10. ASSUME NEW j \in 1..Len(s), NEW f \in After(log, active, s[1]), Covers(born, s[j], f)
       PROVE  j - 1 \in 1..Len(t) /\ Covers(born, t[j - 1], f)
  <2>1. j # 1 /\ j \in Nat
    <3>1. ~Covers(born, s[1], f)
      BY <1>5 DEF Covers
    <3>. QED
      BY <1>1, <1>10, <3>1
  <2>2. j - 1 \in 1..Len(t) /\ (j - 1) + 1 = j
    BY <1>1, <1>2, <2>1
  <2>3. t[j - 1] = s[j]
    BY <1>2, <2>2
  <2>. QED
    BY <1>10, <2>2, <2>3
<1>11. ASSUME NEW i \in 1..Len(t), NEW f \in After(log, active, s[1]), f < t[i]
       PROVE  \E j \in 1..i : Covers(born, t[j], f)
  <2>1. PICK j \in 1..i + 1 : Covers(born, s[j], f)
    BY <1>5, <1>6, <1>7, <1>11
  <2>2. j \in 1..Len(s) /\ j <= i + 1 /\ j \in Nat
    BY <1>1, <1>7, <1>11, <2>1
  <2>3. j - 1 \in 1..Len(t) /\ Covers(born, t[j - 1], f)
    BY <1>10, <2>1, <2>2
  <2>4. j - 1 \in 1..i
    BY <2>2, <2>3
  <2>. QED
    BY <2>3, <2>4
<1>12. Sent(c)'
  <2>1. /\ wire'[c] = t /\ After(log', active', cursor') = After(log, active, s[1])
    BY <1>1, <1>3
  <2>2. Gapless(born, t, After(log, active, s[1]))
    BY <1>2, <1>11 DEF Gapless
  <2>. QED
    BY <1>1, <1>2, <1>8, <1>9, <2>1, <2>2 DEF Sent
<1>13. Reached(c)'
  <2>. SUFFICES ASSUME handler[c] \in Working PROVE Reached(c)'
    BY <1>1 DEF Reached
  <2>1. /\ subject[c] = active /\ \A i \in 1..Len(s) : s[i] <= last[c]
        /\ \A f \in After(log, active, cursor) : f <= last[c] => \E j \in 1..Len(s) : Covers(born, s[j], f)
    BY <1>1 DEF Reached, s
  <2>2. 1 \in 1..Len(s)
    BY <1>1, <1>2
  <2>3. ASSUME NEW f \in After(log, active, s[1]), f <= last[c] PROVE \E j \in 1..Len(t) : Covers(born, t[j], f)
    <3>1. PICK j \in 1..Len(s) : Covers(born, s[j], f)
      BY <1>5, <2>1, <2>3
    <3>. QED
      BY <1>10, <3>1
  <2>4. \A i \in 1..Len(t) : t[i] <= last[c]
    BY <1>7, <2>1
  <2>5. s[1] <= last[c]
    BY <2>1, <2>2
  <2>6. /\ wire'[c] = t /\ handler'[c] = handler[c] /\ subject'[c] = subject[c] /\ last'[c] = last[c]
        /\ active' = active /\ cursor' = s[1]
        /\ After(log', active', cursor') = After(log, active, s[1])
    BY <1>1, <1>3
  <2>7. DOMAIN wire'[c] = 1..Len(t)
    BY <1>2, <2>6
  <2>. QED
    BY <1>1, <2>1, <2>3, <2>4, <2>5, <2>6, <2>7 DEF Reached
<1>14. Pending(c)' /\ Following(c)'
  BY <1>1 DEF Pending, Following
<1>. QED
  BY <1>1, <1>4, <1>12, <1>13, <1>14 DEF FeedInv, Served

\* The handler sends the next events of its workflow, from where it is on and
\* without a gap.
LEMMA SendingKeepsSent ==
    ASSUME TypeOK, FeedInv, NEW c \in Conns, c = socket, handler[c] \in Working,
           UNCHANGED <<log, born, active, cursor, subject>>,
           NEW p \in Seq(After(log, active, last[c])),
           \A i, j \in 1..Len(p) : i < j => p[i] < p[j],
           \A i \in 1..Len(p) : \A f \in After(log, active, last[c]) :
               f < p[i] => \E j \in 1..i : Covers(born, p[j], f),
           wire'[c] = wire[c] \o p,
           last'[c] = IF p = <<>> THEN last[c] ELSE p[Len(p)]
    PROVE  Sent(c)' /\ Reached(c)'
<1>. DEFINE s == wire[c]
            n == last[c]
            A == After(log, active, cursor)
            B == After(log, active, n)
            u == wire'[c]
<1>1. /\ s \in Seq(1..Len(log)) /\ Len(s) \in Nat /\ DOMAIN s = 1..Len(s)
      /\ Sent(c) /\ Reached(c) /\ n \in Nat /\ cursor \in Nat
      /\ DOMAIN log \subseteq Nat /\ 1..Len(log) \subseteq Nat
  <2>1. Len(log) \in Nat /\ DOMAIN log = 1..Len(log) /\ last[c] \in 0..Len(log) /\ cursor \in 0..Len(log)
    BY Lengths DEF TypeOK
  <2>2. Served(c)
    BY DEF FeedInv
  <2>. QED
    BY <2>1, <2>2, Lengths DEF Served
<1>2. /\ subject[c] = active /\ cursor <= n
      /\ \A i \in 1..Len(s) : s[i] <= n
      /\ \A f \in A : f <= n => \E j \in 1..Len(s) : Covers(born, s[j], f)
  BY <1>1 DEF Reached
<1>3. /\ \A i \in 1..Len(s) : s[i] \in A
      /\ \A i, j \in 1..Len(s) : i < j => s[i] < s[j]
      /\ \A i \in 1..Len(s) : \A f \in A : f < s[i] => \E j \in 1..i : Covers(born, s[j], f)
  BY <1>1 DEF Sent, Gapless
<1>4. /\ A \subseteq Nat /\ B \subseteq A
      /\ \A f \in A : f <= n \/ f \in B
      /\ \A f \in B : f > n
  <2>1. \A f \in B : f \in Nat /\ f > n /\ f > cursor
    BY <1>1, <1>2 DEF After
  <2>2. B \subseteq A
    BY <2>1 DEF After
  <2>3. A \subseteq Nat
    BY <1>1 DEF After
  <2>4. \A f \in A : f <= n \/ f \in B
    BY <1>1, <2>3 DEF After
  <2>. QED
    BY <2>1, <2>2, <2>3, <2>4
<1>5. /\ Len(p) \in Nat /\ DOMAIN p = 1..Len(p) /\ \A i \in 1..Len(p) : p[i] \in B
      /\ p = <<>> => Len(p) = 0
      /\ p # <<>> => Len(p) \in 1..Len(p)
  <2>1. p \in Seq(B)
    OBVIOUS
  <2>. HIDE DEF B
  <2>2. Len(p) \in Nat /\ DOMAIN p = 1..Len(p) /\ \A i \in 1..Len(p) : p[i] \in B
    BY <2>1, LenProperties, ElementOfSeq
  <2>3. p # <<>> => Len(p) # 0
    BY <2>1, EmptySeq
  <2>4. Len(<<>>) = 0
    BY EmptySeq
  <2>. QED
    BY <2>2, <2>3, <2>4
<1>6. /\ u \in Seq(Nat) /\ Len(u) = Len(s) + Len(p) /\ DOMAIN u = 1..Len(s) + Len(p)
      /\ \A i \in 1..Len(s) : u[i] = s[i]
      /\ \A i \in Len(s) + 1..Len(s) + Len(p) : u[i] = p[i - Len(s)]
  <2>1. s \in Seq(Nat) /\ p \in Seq(Nat)
    BY <1>1, <1>4, SeqMonotonic
  <2>2. u = s \o p
    OBVIOUS
  <2>. HIDE DEF s, u
  <2>3. /\ u \in Seq(Nat) /\ Len(u) = Len(s) + Len(p)
        /\ \A i \in 1..Len(s) : u[i] = s[i]
        /\ \A i \in Len(s) + 1..Len(s) + Len(p) : u[i] = p[i - Len(s)]
    BY <2>1, <2>2, ConcatProperties
  <2>. QED
    BY <2>3, LenProperties
<1>. DEFINE N == Len(s) + Len(p)
<1>7. \A a \in 1..Len(p) : Len(s) + a \in 1..N /\ u[Len(s) + a] = p[a]
  <2>1. \A a \in 1..Len(p) : Len(s) + a \in Len(s) + 1..Len(s) + Len(p) /\ (Len(s) + a) - Len(s) = a
    BY <1>1, <1>5
  <2>2. \A a \in 1..Len(p) : Len(s) + a \in 1..N
    BY <1>1, <1>5
  <2>. QED
    BY <1>6, <2>1, <2>2
<1>8. \A i \in 1..N : i \in 1..Len(s) \/ \E a \in 1..Len(p) : i = Len(s) + a
  <2>1. ASSUME NEW i \in 1..N, i \notin 1..Len(s) PROVE i - Len(s) \in 1..Len(p) /\ i = Len(s) + (i - Len(s))
    BY <1>1, <1>5, <2>1
  <2>. QED
    BY <2>1
<1>9. \A i \in 1..Len(s) : i \in 1..N /\ u[i] = s[i]
  BY <1>1, <1>5, <1>6
<1>. HIDE DEF s, u, A, B, n, N
<1>10. \A i \in 1..N : u[i] \in A
  <2>1. \A i \in 1..Len(s) : u[i] \in A
    BY <1>3, <1>9 DEF s, A
  <2>2. \A a \in 1..Len(p) : u[Len(s) + a] \in A
    BY <1>4, <1>5, <1>7
  <2>. QED
    BY <1>8, <2>1, <2>2
<1>11. ASSUME NEW i \in 1..N, NEW j \in 1..N, i < j PROVE u[i] < u[j]
  <2>1. CASE i \in 1..Len(s) /\ j \in 1..Len(s)
    BY <1>3, <1>9, <1>11, <2>1
  <2>2. ASSUME i \in 1..Len(s), NEW b \in 1..Len(p), j = Len(s) + b PROVE u[i] < u[j]
    <3>1. s[i] \in Nat /\ p[b] \in Nat /\ s[i] <= n /\ p[b] > n
      BY <1>2, <1>3, <1>4, <1>5, <2>2
    <3>2. s[i] < p[b]
      BY <1>1, <3>1 DEF n
    <3>. QED
      BY <1>7, <1>9, <2>2, <3>2
  <2>3. ASSUME NEW a \in 1..Len(p), NEW b \in 1..Len(p), i = Len(s) + a, j = Len(s) + b PROVE u[i] < u[j]
    <3>1. a < b
      BY <1>1, <1>11, <2>3
    <3>. QED
      BY <1>7, <2>3, <3>1
  <2>4. ASSUME NEW a \in 1..Len(p), i = Len(s) + a, j \in 1..Len(s) PROVE FALSE
    BY <1>1, <1>11, <2>4
  <2>. QED
    BY <1>8, <2>1, <2>2, <2>3, <2>4
<1>12. ASSUME NEW i \in 1..N, NEW f \in A, f < u[i] PROVE \E j \in 1..i : Covers(born, u[j], f)
  <2>1. CASE i \in 1..Len(s)
    <3>1. PICK j \in 1..i : Covers(born, s[j], f)
      BY <1>3, <1>9, <1>12, <2>1
    <3>2. j \in 1..Len(s)
      BY <1>1, <2>1, <3>1
    <3>. QED
      BY <1>9, <3>1, <3>2
  <2>2. ASSUME NEW a \in 1..Len(p), i = Len(s) + a PROVE \E j \in 1..i : Covers(born, u[j], f)
    <3>1. CASE f <= n
      <4>1. PICK j \in 1..Len(s) : Covers(born, s[j], f)
        BY <1>2, <3>1 DEF A, n, s
      <4>2. j \in 1..i
        BY <1>1, <2>2, <4>1
      <4>. QED
        BY <1>9, <4>1, <4>2
    <3>2. CASE f \in B
      <4>1. f < p[a]
        BY <1>7, <1>12, <2>2
      <4>2. PICK b \in 1..a : Covers(born, p[b], f)
        BY <3>2, <4>1 DEF B, n
      <4>3. b \in 1..Len(p) /\ Len(s) + b \in 1..i
        BY <1>1, <1>5, <2>2, <4>2
      <4>. QED
        BY <1>7, <4>2, <4>3
    <3>. QED
      BY <1>4, <3>1, <3>2
  <2>. QED
    BY <1>8, <2>1, <2>2
<1>13. /\ n <= last'[c] /\ last'[c] \in Nat
       /\ \A i \in 1..N : u[i] <= last'[c]
       /\ \A f \in A : f <= last'[c] => \E j \in 1..N : Covers(born, u[j], f)
  <2>1. CASE p = <<>>
    <3>1. last'[c] = n
      BY <2>1 DEF n
    <3>2. N = Len(s)
      BY <1>1, <1>5, <2>1 DEF N
    <3>3. \A i \in 1..N : u[i] <= n
      BY <1>2, <1>9, <3>2 DEF n, s
    <3>4. \A f \in A : f <= n => \E j \in 1..N : Covers(born, u[j], f)
      <4>1. ASSUME NEW f \in A, f <= n PROVE \E j \in 1..N : Covers(born, u[j], f)
        <5>1. PICK j \in 1..Len(s) : Covers(born, s[j], f)
          BY <1>2, <4>1 DEF A, n, s
        <5>. QED
          BY <1>9, <5>1
      <4>. QED
        BY <4>1
    <3>5. n \in Nat /\ n <= n
      BY <1>1 DEF n
    <3>. QED
      BY <3>1, <3>3, <3>4, <3>5
  <2>2. CASE p # <<>>
    <3>. DEFINE k == Len(p)
    <3>1. last'[c] = p[k] /\ k \in 1..k /\ p[k] \in B /\ p[k] \in Nat /\ p[k] > n
      BY <1>4, <1>5, <2>2
    <3>2. \A a \in 1..k : p[a] <= p[k]
      <4>1. ASSUME NEW a \in 1..k PROVE p[a] <= p[k]
        <5>1. p[a] \in Nat
          BY <1>4, <1>5
        <5>2. a = k \/ a < k
          <6>1. k \in Nat
            BY <1>5
          <6>. HIDE DEF k
          <6>. QED
            BY <6>1
        <5>3. a < k => p[a] < p[k]
          BY <3>1
        <5>. QED
          BY <3>1, <5>1, <5>2, <5>3
      <4>. QED
        BY <4>1
    <3>3. ASSUME NEW i \in 1..N PROVE u[i] <= p[k]
      <4>1. CASE i \in 1..Len(s)
        <5>1. u[i] \in Nat /\ u[i] <= n
          BY <1>2, <1>4, <1>9, <1>10, <4>1 DEF n, s
        <5>. QED
          BY <1>1, <3>1, <5>1 DEF n
      <4>2. ASSUME NEW a \in 1..Len(p), i = Len(s) + a PROVE u[i] <= p[k]
        BY <1>7, <3>2, <4>2
      <4>. QED
        BY <1>8, <4>1, <4>2
    <3>4. ASSUME NEW f \in A, f <= p[k] PROVE \E j \in 1..N : Covers(born, u[j], f)
      <4>1. CASE f <= n
        <5>1. PICK j \in 1..Len(s) : Covers(born, s[j], f)
          BY <1>2, <4>1 DEF A, n, s
        <5>. QED
          BY <1>9, <5>1
      <4>2. CASE f \in B /\ f = p[k]
        BY <1>7, <3>1, <4>2, CoversItself
      <4>3. CASE f \in B /\ f < p[k]
        <5>1. PICK b \in 1..k : Covers(born, p[b], f)
          BY <3>1, <4>3 DEF B, n
        <5>2. b \in 1..Len(p)
          BY <1>5, <5>1
        <5>. QED
          BY <1>7, <5>1, <5>2
      <4>4. f = p[k] \/ f < p[k]
        BY <1>4, <3>1, <3>4
      <4>. QED
        BY <1>4, <4>1, <4>2, <4>3, <4>4
    <3>5. n <= p[k]
      BY <1>1, <3>1 DEF n
    <3>. QED
      BY <3>1, <3>3, <3>4, <3>5
  <2>. QED
    BY <2>1, <2>2
<1>14. After(log', active', cursor') = A /\ DOMAIN wire'[c] = 1..N /\ wire'[c] = u
  BY <1>6 DEF A, N, u
<1>15. Sent(c)'
  <2>1. Gapless(born, u, A)
    BY <1>12, <1>14 DEF Gapless
  <2>. QED
    BY <1>10, <1>11, <1>14, <2>1 DEF Sent
<1>16. Reached(c)'
  <2>1. cursor' <= last'[c] /\ subject'[c] = active'
    <3>1. cursor \in Nat /\ n \in Nat /\ cursor <= n
      BY <1>1, <1>2 DEF n
    <3>. QED
      BY <1>2, <1>13, <3>1
  <2>. QED
    BY <1>13, <1>14, <2>1 DEF Reached
<1>. QED
  BY <1>15, <1>16

LEMMA ReplayKeepsFeed ==
    ASSUME TypeOK, FeedInv, NEW c \in Conns, ReplayPage(c)
    PROVE  FeedInv'
<1>1. /\ socket = c /\ handler[c] = "replaying" /\ Served(c) /\ subject[c] = active
      /\ UNCHANGED <<logVars, subs, queue, subject, active, cursor, socket, phase>>
  <2>1. socket = c /\ handler[c] = "replaying" /\ Served(c)
    BY DEF ReplayPage, FeedInv
  <2>. QED
    BY <2>1 DEF ReplayPage, Served, Reached, Working
<1>2. PICK page \in Pages(active, last[c]) :
          /\ wire' = [wire EXCEPT ![c] = @ \o page]
          /\ last' = [last EXCEPT ![c] = IF page = <<>> THEN @ ELSE page[Len(page)]]
          /\ handler' = [handler EXCEPT ![c] = IF LastPage(page) THEN "live" ELSE "replaying"]
  BY <1>1 DEF ReplayPage
<1>3. /\ wire'[c] = wire[c] \o page
      /\ last'[c] = IF page = <<>> THEN last[c] ELSE page[Len(page)]
      /\ handler'[c] = IF LastPage(page) THEN "live" ELSE "replaying"
      /\ \A d \in Conns : d # c => wire'[d] = wire[d] /\ handler'[d] = handler[d]
  BY <1>2 DEF TypeOK
<1>4. Later(active, last[c]) = After(log, active, last[c])
  BY DEF Later, After
<1>5. /\ page \in Seq(After(log, active, last[c])) /\ Len(page) \in Nat /\ DOMAIN page = 1..Len(page)
      /\ \A i, j \in 1..Len(page) : i < j => page[i] < page[j]
      /\ \A i \in 1..Len(page) : \A f \in After(log, active, last[c]) :
             f < page[i] => \E j \in 1..i : Covers(born, page[j], f)
      /\ LastPage(page) => \A f \in After(log, active, last[c]) : \E j \in 1..Len(page) : page[j] = f
  <2>1. \A f \in After(log, active, last[c]) : Covers(born, f, f)
    BY CoversItself, Lengths DEF After
  <2>2. ASSUME NEW i \in 1..Len(page), NEW f \in After(log, active, last[c]), f < page[i]
        PROVE  \E j \in 1..i : Covers(born, page[j], f)
    <3>1. PICK j \in 1..i - 1 : page[j] = f
      BY <1>4, <2>2, PageFacts
    <3>2. j \in 1..i
      BY <3>1
    <3>. QED
      BY <2>1, <3>1, <3>2
  <2>. QED
    BY <1>4, <2>2, PageFacts
<1>6. Sent(c)' /\ Reached(c)'
  BY <1>1, <1>3, <1>5, SendingKeepsSent DEF Working
<1>7. Wired'
  <2>1. \A d \in subs : d \in Conns
    BY DEF TypeOK
  <2>. QED
    BY <1>1, <1>3, <2>1 DEF FeedInv, Wired
<1>8. Pending(c)'
  <2>1. Pending(c) /\ handler[c] \in {"replaying", "live"}
    BY <1>1 DEF Served
  <2>. QED
    BY <1>1, <2>1 DEF Pending
<1>9. ASSUME handler'[c] = "live" PROVE After(log, active, last'[c]) = {}
  <2>1. /\ \A f \in After(log, active, last[c]) : \E j \in 1..Len(page) : page[j] = f
        /\ handler'[c] \in Working /\ last[c] \in Nat
    <3>1. LastPage(page)
      BY <1>3, <1>9
    <3>. QED
      BY <1>5, <1>9, <3>1, Lengths DEF Working
  <2>2. \A j \in 1..Len(page) : page[j] <= last'[c] /\ last[c] <= last'[c] /\ last'[c] \in Nat
    <3>1. ASSUME NEW j \in 1..Len(page)
          PROVE  page[j] <= last'[c] /\ last[c] <= last'[c] /\ last'[c] \in Nat
      <4>1. page # <<>> /\ Len(page) \in 1..Len(page)
        BY <1>5, EmptySeq
      <4>2. \A i \in 1..Len(page) : page[i] \in Nat /\ page[i] > last[c]
        <5>1. \A i \in 1..Len(page) : page[i] \in After(log, active, last[c])
          BY <1>5, ElementOfSeq
        <5>. QED
          BY <5>1, Lengths DEF After
      <4>3. last'[c] = page[Len(page)]
        BY <1>3, <4>1
      <4>4. j = Len(page) \/ j < Len(page)
        <5>1. Len(page) \in Nat
          BY <1>5
        <5>. QED
          BY <3>1, <5>1
      <4>5. page[j] <= page[Len(page)]
        <5>1. page[j] \in Nat /\ page[Len(page)] \in Nat
          BY <3>1, <4>1, <4>2
        <5>2. j < Len(page) => page[j] < page[Len(page)]
          BY <1>5, <3>1, <4>1
        <5>. QED
          BY <4>4, <5>1, <5>2
      <4>6. last[c] <= page[Len(page)] /\ page[Len(page)] \in Nat
        BY <2>1, <4>1, <4>2
      <4>. QED
        BY <4>3, <4>5, <4>6
    <3>. QED
      BY <3>1
  <2>3. ASSUME NEW f \in After(log, active, last'[c]) PROVE FALSE
    <3>1. f \in DOMAIN log /\ f > last'[c] /\ log[f] = active /\ f \in Nat
      BY Lengths DEF After
    <3>2. f > last[c]
      <4>1. CASE page = <<>>
        BY <1>3, <3>1, <4>1
      <4>2. CASE page # <<>>
        <5>1. Len(page) \in 1..Len(page)
          BY <1>5, <4>2, EmptySeq
        <5>. QED
          BY <2>1, <2>2, <3>1, <5>1
      <4>. QED
        BY <4>1, <4>2
    <3>3. f \in After(log, active, last[c])
      BY <3>1, <3>2 DEF After
    <3>4. PICK j \in 1..Len(page) : page[j] = f
      BY <2>1, <3>3
    <3>. QED
      BY <2>2, <3>1, <3>4
  <2>. QED
    BY <2>3
<1>10. Following(c)'
  <2>1. After(log', active', last'[c]) = After(log, active, last'[c])
    BY <1>1
  <2>. QED
    BY <1>9, <2>1 DEF Following, Gapless
<1>. QED
  BY <1>1, <1>6, <1>7, <1>8, <1>10 DEF FeedInv, Served

\* The handler takes the head of its queue: the news that it was dropped, an
\* event the replay has sent, or the next event of its workflow.
LEMMA HeadAndTail ==
    ASSUME NEW S \in SUBSET Nat, NEW q \in Seq(S), q # <<>>
    PROVE  /\ DOMAIN q = 1..Len(q) /\ 1 \in 1..Len(q) /\ Len(q) \in Nat
           /\ Head(q) = q[1] /\ Head(q) \in Nat /\ \A i \in 1..Len(q) : q[i] \in Nat
           /\ DOMAIN Tail(q) = 1..Len(Tail(q)) /\ Len(Tail(q)) \in Nat
           /\ \A i \in 1..Len(Tail(q)) : i + 1 \in 1..Len(q) /\ Tail(q)[i] = q[i + 1]
           /\ \A j \in 1..Len(q) : j # 1 => j - 1 \in 1..Len(Tail(q)) /\ Tail(q)[j - 1] = q[j]
<1>1. /\ Head(q) = q[1] /\ Tail(q) \in Seq(S) /\ Len(Tail(q)) = Len(q) - 1
      /\ \A i \in 1..Len(Tail(q)) : Tail(q)[i] = q[i + 1]
  BY HeadTailProperties
<1>2. /\ DOMAIN Tail(q) = 1..Len(Tail(q)) /\ Len(Tail(q)) \in Nat
      /\ DOMAIN q = 1..Len(q) /\ Len(q) \in Nat
  BY <1>1, LenProperties
<1>3. \A i \in 1..Len(q) : q[i] \in Nat
  BY <1>2, ElementOfSeq
<1>4. 1 \in 1..Len(q)
  BY <1>1, <1>2
<1>5. \A i \in 1..Len(Tail(q)) : i + 1 \in 1..Len(q) /\ Tail(q)[i] = q[i + 1]
  BY <1>1, <1>2
<1>6. ASSUME NEW j \in 1..Len(q), j # 1 PROVE j - 1 \in 1..Len(Tail(q)) /\ Tail(q)[j - 1] = q[j]
  <2>1. j # 1 /\ j \in Nat
    BY <1>1, <1>2, <1>6
  <2>2. j - 1 \in 1..Len(Tail(q)) /\ (j - 1) + 1 = j
    BY <1>1, <1>2, <1>6, <2>1
  <2>. QED
    BY <1>1, <2>2
<1>. QED
  BY <1>1, <1>2, <1>3, <1>4, <1>5, <1>6

\* What is left of a queue after its head follows the handler as the queue
\* did: to the same place if the head was behind it, else to the head.
LEMMA TakenKeepsFollowing ==
    ASSUME NEW q \in Seq(Nat), q # <<>>,
           NEW B \in SUBSET Nat, NEW C \in SUBSET B, \A f \in C : f > Head(q), NEW R,
           Gapless(born, q, B), \A f \in B : f \in R => \E j \in 1..Len(q) : Covers(born, q[j], f)
    PROVE  /\ Gapless(born, Tail(q), C)
           /\ \A f \in C : f \in R => \E j \in 1..Len(Tail(q)) : Covers(born, Tail(q)[j], f)
<1>. DEFINE t == Tail(q)
<1>1. /\ DOMAIN q = 1..Len(q) /\ Len(q) \in Nat /\ Head(q) = q[1] /\ q[1] \in Nat
      /\ DOMAIN t = 1..Len(t) /\ Len(t) \in Nat
      /\ \A i \in 1..Len(t) : i + 1 \in 1..Len(q) /\ t[i] = q[i + 1]
      /\ \A j \in 1..Len(q) : j # 1 => j - 1 \in 1..Len(t) /\ t[j - 1] = q[j]
  BY HeadAndTail
<1>. HIDE DEF t
<1>5. ASSUME NEW f \in C, NEW j \in 1..Len(q), Covers(born, q[j], f)
      PROVE  j - 1 \in 1..Len(t) /\ Covers(born, t[j - 1], f)
  <2>1. f \in Nat /\ f > q[1]
    BY <1>1
  <2>2. ~Covers(born, q[1], f)
    BY <1>1, <2>1 DEF Covers
  <2>3. j # 1
    BY <1>5, <2>2
  <2>. QED
    BY <1>1, <1>5, <2>3
<1>2. ASSUME NEW i \in 1..Len(t), NEW f \in C, f < t[i] PROVE \E j \in 1..i : Covers(born, t[j], f)
  <2>0. i \in Nat /\ i + 1 \in 1..Len(q) /\ f < q[i + 1] /\ f \in B
    BY <1>1, <1>2
  <2>1. PICK j \in 1..i + 1 : Covers(born, q[j], f)
    BY <1>1, <2>0 DEF Gapless
  <2>2. j \in 1..Len(q) /\ j <= i + 1 /\ j \in Nat
    BY <1>1, <2>0, <2>1
  <2>3. j - 1 \in 1..Len(t) /\ Covers(born, t[j - 1], f)
    BY <1>5, <2>1, <2>2
  <2>4. j - 1 \in 1..i
    BY <2>0, <2>2, <2>3
  <2>. QED
    BY <2>3, <2>4
<1>3. ASSUME NEW f \in C, f \in R PROVE \E j \in 1..Len(t) : Covers(born, t[j], f)
  <2>1. PICK j \in 1..Len(q) : Covers(born, q[j], f)
    BY <1>3
  <2>. QED
    BY <1>5, <2>1
<1>4. Gapless(born, t, C)
  BY <1>1, <1>2 DEF Gapless
<1>. QED
  BY <1>3, <1>4 DEF t

LEMMA TakeKeepsFeed ==
    ASSUME TypeOK, FeedInv, NEW c \in Conns, TakeQueued(c)
    PROVE  FeedInv'
<1>. DEFINE q == queue[c]
            e == Head(queue[c])
<1>1. /\ handler[c] = "live" /\ q # <<>> /\ q \in Seq(released \cup {Close}) /\ released \cup {Close} \in SUBSET Nat
      /\ UNCHANGED <<logVars, subs, subject, active, cursor, socket, phase>>
      /\ queue'[c] = Tail(q)
      /\ \A d \in Conns : d # c => queue'[d] = queue[d]
      /\ last[c] \in Nat /\ DOMAIN log \subseteq Nat
      /\ subs \subseteq Conns
  BY Lengths, SMTT(30) DEF TakeQueued, TypeOK
<1>2. \A d \in Conns : d # c => handler'[d] = handler[d] /\ last'[d] = last[d] /\ wire'[d] = wire[d]
  BY DEF TakeQueued, TypeOK
<1>3. /\ DOMAIN q = 1..Len(q) /\ 1 \in 1..Len(q) /\ e = q[1] /\ e \in Nat
      /\ DOMAIN Tail(q) = 1..Len(Tail(q))
      /\ \A i \in 1..Len(Tail(q)) : i + 1 \in 1..Len(q) /\ Tail(q)[i] = q[i + 1]
  BY <1>1, HeadAndTail
<1>4. \/ /\ e = Close /\ socket = c
         /\ handler'[c] = "closing" /\ wire'[c] = wire[c] /\ last'[c] = last[c]
      \/ /\ e # Close /\ e <= last[c]
         /\ handler'[c] = "live" /\ wire'[c] = wire[c] /\ last'[c] = last[c]
      \/ /\ e # Close /\ e > last[c] /\ socket = c
         /\ handler'[c] = "live" /\ wire'[c] = Append(wire[c], e) /\ last'[c] = e
  BY <1>1 DEF TakeQueued, TypeOK
<1>. HIDE DEF q, e
<1>5. CASE socket # c
  <2>1. handler'[c] = handler[c]
    BY <1>1, <1>4, <1>5
  <2>2. handler' = handler /\ wire' = wire
    BY <1>4, <1>5, <2>1 DEF TakeQueued, e
  <2>3. Wired'
    BY <1>1, <2>2 DEF FeedInv, Wired
  <2>4. socket \in Conns => Served(socket)'
    BY <1>1, <1>2, <1>5, Unmoved
  <2>. QED
    BY <1>1, <2>3, <2>4 DEF FeedInv
<1>6. CASE socket = c
  <2>1. Served(c) /\ Sent(c) /\ Reached(c) /\ Pending(c) /\ Following(c) /\ Wired
    BY <1>6 DEF FeedInv, Served
  <2>2. /\ subject[c] = active
        /\ c \in subs => \A i \in 1..Len(q) : q[i] # Close /\ log[q[i]] = active
        /\ c \notin subs => \A i \in 1..Len(q) : q[i] = Close
    BY <1>1, <1>3, <2>1 DEF Reached, Working, Pending, q
  <2>3. e = Close <=> c \notin subs
    BY <1>3, <2>2
  <2>4. Wired'
    <3>1. \A d \in subs : d # c => handler'[d] = handler[d]
      BY <1>1, <1>2
    <3>2. c \in subs => handler'[c] = "live"
      BY <1>4, <2>3
    <3>3. \A d \in Conns : d # c => wire'[d] = wire[d]
      BY <1>2
    <3>. QED
      BY <1>1, <1>6, <2>1, <3>1, <3>2, <3>3 DEF Wired
  <2>5. Pending(c)'
    <3>1. /\ c \in subs => \A i \in 1..Len(Tail(q)) : Tail(q)[i] # Close /\ log[Tail(q)[i]] = active
          /\ c \notin subs => \A i \in 1..Len(Tail(q)) : Tail(q)[i] = Close
      BY <1>3, <2>2
    <3>. QED
      BY <1>1, <1>3, <3>1 DEF Pending
  <2>. DEFINE B == After(log, active, last[c])
  <2>6. B \in SUBSET Nat /\ \A f \in B : f > last[c]
    BY <1>1 DEF After
  <2>7. ASSUME c \in subs
        PROVE  Gapless(born, q, B) /\ \A f \in B : f \in released => \E j \in 1..Len(q) : Covers(born, q[j], f)
    BY <1>1, <1>3, <2>1, <2>7 DEF Following, q
  <2>8. CASE e = Close
    <3>1. Sent(c)' /\ Reached(c)'
      BY <1>1, <1>3, <1>4, <2>1, <2>8 DEF Sent, Reached, Working, Close
    <3>2. Following(c)'
      BY <1>1, <2>3, <2>8 DEF Following
    <3>. QED
      BY <1>1, <1>6, <2>4, <2>5, <3>1, <3>2 DEF FeedInv, Served
  <2>9. CASE e # Close /\ e <= last[c]
    <3>1. handler'[c] = "live" /\ wire'[c] = wire[c] /\ last'[c] = last[c]
      BY <1>1, <1>3, <1>4, <2>9
    <3>2. Sent(c)' /\ Reached(c)'
      BY <1>1, <2>1, <3>1 DEF Sent, Reached
    <3>3. Following(c)'
      <4>1. \A f \in B : f > e
        BY <1>1, <1>3, <2>6, <2>9
      <4>2. c \in subs
        BY <2>3, <2>9
      <4>3. /\ Gapless(born, Tail(q), B)
            /\ \A f \in B : f \in released => \E j \in 1..Len(Tail(q)) : Covers(born, Tail(q)[j], f)
        <5>1. \A f \in B : f > Head(q)
          BY <4>1 DEF e, q
        <5>. HIDE DEF B
        <5>2. Gapless(born, q, B) /\ \A f \in B : f \in released => \E j \in 1..Len(q) : Covers(born, q[j], f)
          BY <2>7, <4>2
        <5>3. q \in Seq(Nat) /\ q # <<>> /\ B \in SUBSET Nat /\ B \in SUBSET B
          BY <1>1, <2>6, SeqMonotonic
        <5>4. PICK C \in SUBSET B : C = B
          BY <5>3
        <5>5. \A f \in C : f > Head(q)
          BY <5>1, <5>4
        <5>6. /\ Gapless(born, Tail(q), C)
              /\ \A f \in C : f \in released => \E j \in 1..Len(Tail(q)) : Covers(born, Tail(q)[j], f)
          BY <5>2, <5>3, <5>5, TakenKeepsFollowing, ZenonT(40)
        <5>. QED
          BY <5>4, <5>6
      <4>4. After(log', active', last'[c]) = B
        BY <1>1, <3>1
      <4>. QED
        BY <1>1, <1>3, <4>3, <4>4 DEF Following
    <3>. QED
      BY <1>1, <1>6, <2>4, <2>5, <3>2, <3>3 DEF FeedInv, Served
  <2>10. CASE e # Close /\ e > last[c]
    <3>0. c \in subs
      BY <2>3, <2>10
    <3>1. handler'[c] = "live" /\ wire'[c] = Append(wire[c], e) /\ last'[c] = e
      BY <1>1, <1>3, <1>4, <2>10
    <3>2. e \in B /\ \A f \in B : f < e => Covers(born, e, f)
      <4>1. e \in DOMAIN log
        <5>1. e \in released \cup {Close}
          BY <1>1, <1>3, ElementOfSeq
        <5>. QED
          BY <2>10, <5>1, Lengths
      <4>2. e \in B
        BY <1>3, <2>2, <2>10, <3>0, <4>1 DEF After
      <4>3. ASSUME NEW f \in B, f < e PROVE Covers(born, e, f)
        <5>1. PICK j \in 1..1 : Covers(born, q[j], f)
          BY <1>3, <2>7, <3>0, <4>3 DEF Gapless
        <5>2. j = 1
          OBVIOUS
        <5>. QED
          BY <1>3, <5>1, <5>2
      <4>. QED
        BY <4>2, <4>3
    <3>. DEFINE p == <<e>>
    <3>3. /\ p \in Seq(B) /\ Len(p) = 1 /\ p # <<>> /\ p[Len(p)] = e /\ p[1] = e
          /\ wire'[c] = wire[c] \o p
      <4>1. p \in Seq(B) /\ Len(p) = 1 /\ p # <<>> /\ p[1] = e
        BY <3>2
      <4>2. Append(wire[c], e) = wire[c] \o <<e>>
        <5>1. wire[c] \in Seq(Nat) /\ e \in Nat
          BY <1>1, <1>3, Lengths, SeqMonotonic
        <5>. QED
          BY <5>1, AppendIsConcat
      <4>. QED
        BY <3>1, <4>1, <4>2
    <3>. HIDE DEF p, B
    <3>4. /\ \A i, j \in 1..Len(p) : i < j => p[i] < p[j]
          /\ \A i \in 1..Len(p) : \A f \in B : f < p[i] => \E j \in 1..i : Covers(born, p[j], f)
      <4>1. \A i \in 1..Len(p) : i = 1
        BY <3>3
      <4>2. 1 \in 1..1
        OBVIOUS
      <4>. QED
        BY <3>2, <3>3, <4>1, <4>2
    <3>5. last'[c] = IF p = <<>> THEN last[c] ELSE p[Len(p)]
      BY <3>1, <3>3
    <3>6. Sent(c)' /\ Reached(c)'
      <4>1. handler[c] \in Working
        BY <1>1 DEF Working
      <4>. QED
        BY <1>1, <1>6, <3>3, <3>4, <3>5, <4>1, SendingKeepsSent DEF B
    <3>7. Following(c)'
      <4>. DEFINE C == After(log, active, e)
      <4>1. C \in SUBSET B /\ \A f \in C : f > e
        BY <1>1, <1>3, <2>10 DEF After, B
      <4>2. \A f \in C : f > Head(q)
        BY <4>1 DEF e, q
      <4>. HIDE DEF C
      <4>3. Gapless(born, q, B) /\ \A f \in B : f \in released => \E j \in 1..Len(q) : Covers(born, q[j], f)
        BY <2>7, <3>0
      <4>4. /\ Gapless(born, Tail(q), C)
            /\ \A f \in C : f \in released => \E j \in 1..Len(Tail(q)) : Covers(born, Tail(q)[j], f)
        <5>1. q \in Seq(Nat) /\ q # <<>> /\ B \in SUBSET Nat /\ C \in SUBSET B
          BY <1>1, <2>6, <4>1, SeqMonotonic
        <5>. QED
          BY <4>2, <4>3, <5>1, TakenKeepsFollowing, ZenonT(40)
      <4>5. After(log', active', last'[c]) = C
        BY <1>1, <3>1 DEF C
      <4>. QED
        BY <1>1, <1>3, <4>4, <4>5 DEF Following
    <3>. QED
      BY <1>1, <1>6, <2>4, <2>5, <3>6, <3>7 DEF FeedInv, Served
  <2>. QED
    <3>1. e <= last[c] \/ e > last[c]
      BY <1>1, <1>3
    <3>. QED
      BY <2>8, <2>9, <2>10, <3>1
<1>. QED
  BY <1>5, <1>6

LEMMA FeedInit == Init => FeedInv
<1>1. NoConn \notin Conns
  BY Parameters
<1>. QED
  BY <1>1 DEF Init, FeedInv, Wired

LEMMA FeedStep == TypeOK /\ InTime /\ FeedInv /\ [Next]_vars => FeedInv'
<1>. SUFFICES ASSUME TypeOK, InTime, FeedInv, [Next]_vars PROVE FeedInv'
  OBVIOUS
<1>1. CASE UNCHANGED vars
  <2>1. Wired'
    BY <1>1 DEF vars, FeedInv, Wired
  <2>2. socket \in Conns => Served(socket)'
    BY <1>1, Unmoved DEF vars
  <2>. QED
    BY <1>1, <2>1, <2>2 DEF vars, FeedInv
<1>. QED
  BY <1>1, CommitKeepsFeed, PublishKeepsFeed, TicketsKeepFeed, LeaveKeepsFeed, OpenKeepsFeed,
     HandshakeKeepsFeed, ReplayKeepsFeed, TakeKeepsFeed, EndKeepsFeed, RestartKeepsFeed,
     ReceiveKeepsFeed DEF Next

\* Published events and what is queued, sent and received keep together in
\* every reachable state: nothing published is lost on the way to the proxy
\* but an event of the tick of a later one.
THEOREM FeedCorrect == Spec => [](TypeOK /\ InTime /\ FeedInv)
<1>1. Init => TypeOK /\ InTime /\ FeedInv
  <2>1. Init => InTime
    BY EmptySeq DEF Init, InTime, BornInOrder, ReleasedInOrder
  <2>. QED
    BY <2>1, TypeInit, FeedInit
<1>2. TypeOK /\ InTime /\ FeedInv /\ [Next]_vars => TypeOK' /\ InTime' /\ FeedInv'
  BY TypeStep, InTimeStep, FeedStep
<1>. QED
  BY <1>1, <1>2, PTL DEF Spec

-----------------------------------------------------------------------------
\* The refinement: a commit appends to the log, a change of the observed
\* workflow moves nothing else, and what the proxy receives is the next event
\* of the observed workflow after its cursor, or a later one of its tick.
LEMMA ReceiveHandsOver ==
    ASSUME TypeOK, FeedInv, NEW c \in Conns, Receive(c)
    PROVE  Feed!HandOver
<1>1. /\ cursor' = wire[c][1] /\ wire[c][1] \in After(log, active, cursor)
      /\ \A f \in After(log, active, cursor) : f < wire[c][1] => Covers(born, wire[c][1], f)
      /\ UNCHANGED <<log, born, active>>
  BY NextOnWire DEF Receive
<1>. DEFINE e == wire[c][1]
<1>2. e \in DOMAIN log /\ log[e] = active /\ e > cursor
  BY <1>1 DEF After
<1>3. DOMAIN log = 1..Len(log) /\ Len(log) \in Nat /\ cursor \in Nat
  BY Lengths DEF TypeOK
<1>. HIDE DEF e
<1>4. ASSUME NEW f \in cursor + 1 .. e - 1, log[f] = active PROVE born[f] = born[e]
  <2>1. f \in DOMAIN log /\ f > cursor /\ f < e
    BY <1>2, <1>3, <1>4
  <2>2. f \in After(log, active, cursor)
    BY <1>4, <2>1 DEF After
  <2>. QED
    BY <1>1, <2>1, <2>2 DEF e, Covers
<1>5. cursor' = e
  BY <1>1 DEF e
<1>. QED
  BY <1>1, <1>2, <1>4, <1>5 DEF Feed!HandOver

LEMMA StepRefines ==
    ASSUME TypeOK, FeedInv, [Next]_vars
    PROVE  [Feed!Next]_Feed!vars
<1>1. ASSUME NEW w \in Workflows, NEW tick \in Ticks, Commit(w, tick) PROVE Feed!Next
  BY <1>1 DEF Commit, Ticks, Feed!Next, Feed!Commit, Feed!Ticks
<1>2. ASSUME NEW w \in Workflows, Observe(w) PROVE Feed!Next
  BY <1>2 DEF Observe, Feed!Next, Feed!Observe
<1>3. ASSUME NEW c \in Conns, Receive(c) PROVE Feed!Next
  BY <1>3, ReceiveHandsOver DEF Feed!Next
<1>4. CASE \/ UNCHANGED vars
           \/ \E e \in 1..MaxEvents : PublishNext(e) \/ PublishAgain(e)
           \/ IssueTicket \/ TicketExpires \/ ConnectFails
           \/ \E c \in Conns : \/ OpenSocket(c) \/ Handshake(c) \/ ReplayPage(c) \/ TakeQueued(c)
                               \/ HandlerEnds(c) \/ SocketClosed(c)
           \/ SocketDropped \/ Reconnect \/ RequestReplay \/ RestartBackend
  BY <1>4 DEF vars, PublishNext, PublishAgain, IssueTicket, TicketExpires, ConnectFails, OpenSocket,
     Handshake, ReplayPage, TakeQueued, HandlerEnds, SocketClosed, SocketDropped, Reconnect,
     RequestReplay, RestartBackend, Feed!vars
<1>. QED
  BY <1>1, <1>2, <1>3, <1>4 DEF Next

\* With sockets, tickets, queues and pages hidden, the proxy hands over the
\* events of the observed workflow in the order of the log, none twice, and
\* passes over none but events created in the tick of the one handed over,
\* through overflows, restarts, lost sockets, expired tickets and repeated
\* publications.
THEOREM Refinement == Spec => ImplementsFeed
<1>1. Init => Feed!Init
  BY DEF Init, Feed!Init
<1>2. TypeOK /\ FeedInv /\ [Next]_vars => [Feed!Next]_Feed!vars
  BY StepRefines
<1>. QED
  BY <1>1, <1>2, FeedCorrect, PTL DEF Spec, ImplementsFeed, Feed!Spec

=============================================================================
