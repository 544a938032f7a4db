---------------------------- MODULE ServiceProofs ----------------------------
(***************************************************************************)
(* The service has one caller of stop(), the main thread of the service    *)
(* program.  Then stop() is a barrier, connections are bounded and never   *)
(* shared, and what was answered is committed, for any number of clients,  *)
(* workers, requests and starts, and any bound on connections.             *)
(***************************************************************************)
EXTENDS Service, FiniteSetTheorems, TLAPS

\* Where a worker holds the connection it is serving.
Serving == {"serving", "reading", "dispatching", "announcing", "replying",
            "rejecting", "closing", "leaving"}
WorkerAt == Serving \cup {"unstarted", "locking", "waiting", "dropping", "deciding", "done"}
AcceptorAt == {"unstarted", "accepting", "testing", "queueing", "notifying", "refusing", "done"}
CallerAt == StopAt \cup {"starting", "locking", "waiting", "calling", "returned", "exited"}
ConnAt == {"away", "backlog", "accepted", "queued", "active", "closed"}

Types ==
    /\ {running, stopping, wake} \subseteq BOOLEAN
    /\ listener \in {"open", "shut", "closed"}
    /\ conn \in [Client -> ConnAt]
    /\ queue \in Seq(Client)
    /\ active \subseteq Client /\ IsFiniteSet(active)
    /\ acceptor \in [at : AcceptorAt, socket : Client \cup {NoSocket, WakeSocket}]
    /\ worker \in [Worker -> [at : WorkerAt, socket : Client \cup {NoSocket}]]
    /\ caller \in [Caller \cup {Main} -> CallerAt]

\* What the acceptor holds is an accepted connection, or stop()'s own once stop()
\* has begun, and every accepted connection is in its hands.
AcceptorHolds ==
    /\ acceptor.at \in {"queueing", "refusing"} => acceptor.socket \in Client
    /\ acceptor.at \in {"testing", "queueing", "refusing"} <=> acceptor.socket # NoSocket
    /\ acceptor.socket \in Client => conn[acceptor.socket] = "accepted"
    /\ acceptor.socket = WakeSocket \/ wake => stopping
    /\ \A c \in Client : conn[c] = "accepted" => acceptor.socket = c

\* A connection on its way is in one place: the queue, or the hands of one worker.
WorkersHold ==
    /\ \A w \in Worker : worker[w].at \in Serving =>
         /\ worker[w].socket \in Client /\ conn[worker[w].socket] \in {"active", "closed"}
         /\ worker[w].at = "leaving" => conn[worker[w].socket] = "closed"
    /\ \A w \in Worker : worker[w].at = "dropping" =>
         /\ worker[w].socket \in Client \ Range(queue)
         /\ conn[worker[w].socket] = "queued"
    /\ \A w \in Worker : worker[w].at \notin Serving \cup {"dropping"} =>
         worker[w].socket = NoSocket
    /\ \A v, w \in Worker : worker[v].socket = worker[w].socket /\ v # w
                              => worker[v].socket = NoSocket

\* The list of connections agrees with where the connections are.
ListsAgree ==
    /\ \A c \in Range(queue) : conn[c] = "queued"
    /\ \A c \in active : conn[c] \in {"active", "closed"}
    /\ \A c \in Client : conn[c] = "queued" =>
         c \in Range(queue) \/ \E w \in Worker : worker[w] = [at |-> "dropping", socket |-> c]
    /\ \A c \in Client : conn[c] = "active" =>
         \E w \in Worker : worker[w].at \in Serving /\ worker[w].socket = c
    /\ \A c \in Client : conn[c] = "backlog" => listener # "closed"

Bounded ==
    /\ Cardinality(active) + Len(queue) <= max_connections
    /\ IsInjective(queue)

\* How far stop() has come tells what has ended.
Phases ==
    LET at == caller[Main] IN
    /\ at \in {"locking", "waiting", "calling"} => ~stopping
    /\ at \in StopAt => stopping
    /\ at \in {"starting", "closing", "renotifying", "joining_workers", "clearing",
               "returned", "exited"} =>
         /\ acceptor.at \in {"unstarted", "done"} /\ ~wake /\ listener = "closed"
         /\ at # "starting" => acceptor.at = "done"
    /\ at \in {"starting", "renotifying", "joining_workers", "clearing", "returned", "exited"} =>
         queue = <<>>
    /\ at \in {"starting", "clearing", "returned", "exited"} => \A w \in Worker :
         /\ worker[w].at \in {"unstarted", "done"}
         /\ at # "starting" => worker[w].at = "done"
    /\ at = "exited" => applied = committed

IInv == Types /\ AcceptorHolds /\ WorkersHold /\ ListsAgree /\ Bounded /\ Phases

-----------------------------------------------------------------------------
(* Queues *)

LEMMA AppendFacts ==
    ASSUME NEW S, NEW q \in Seq(S), NEW c \in S
    PROVE  /\ Append(q, c) \in Seq(S) /\ Len(Append(q, c)) = Len(q) + 1
           /\ Range(Append(q, c)) = Range(q) \cup {c}
           /\ IsInjective(q) /\ c \notin Range(q) => IsInjective(Append(q, c))
<1>1. /\ Append(q, c) \in Seq(S) /\ Len(Append(q, c)) = Len(q) + 1 /\ Len(q) \in Nat
      /\ \A i \in 1 .. Len(q) : Append(q, c)[i] = q[i]
      /\ Append(q, c)[Len(q) + 1] = c
    OBVIOUS
<1>2. DOMAIN q = 1 .. Len(q) /\ DOMAIN Append(q, c) = 1 .. Len(q) + 1
    BY <1>1
<1>3. Range(Append(q, c)) = Range(q) \cup {c}
    BY <1>1, <1>2 DEF Range
<1>4. ASSUME IsInjective(q), c \notin Range(q) PROVE IsInjective(Append(q, c))
    BY <1>1, <1>2, <1>4 DEF Range, IsInjective
<1> QED
    BY <1>1, <1>3, <1>4, Zenon

LEMMA TailFacts ==
    ASSUME NEW S, NEW q \in Seq(S), q # <<>>
    PROVE  /\ Tail(q) \in Seq(S) /\ Len(Tail(q)) = Len(q) - 1 /\ Head(q) \in S
           /\ Range(q) = Range(Tail(q)) \cup {Head(q)}
           /\ IsInjective(q) => IsInjective(Tail(q)) /\ Head(q) \notin Range(Tail(q))
<1>1. /\ Tail(q) \in Seq(S) /\ Len(Tail(q)) = Len(q) - 1 /\ Head(q) \in S
      /\ Len(q) \in Nat \ {0} /\ Head(q) = q[1]
      /\ \A i \in 1 .. Len(q) - 1 : Tail(q)[i] = q[i + 1]
    OBVIOUS
<1>2. DOMAIN q = 1 .. Len(q) /\ DOMAIN Tail(q) = 1 .. Len(q) - 1
    BY <1>1
<1>3. \A i \in 1 .. Len(q) : i = 1 \/ (i - 1 \in 1 .. Len(q) - 1 /\ Tail(q)[i - 1] = q[i])
    BY <1>1
<1>4. Range(q) = Range(Tail(q)) \cup {Head(q)}
  <2>1. ASSUME NEW x \in Range(q) PROVE x \in Range(Tail(q)) \cup {Head(q)}
    <3>1. PICK i \in 1 .. Len(q) : x = q[i]
      BY <1>2, <2>1, Zenon DEF Range
    <3>2. CASE i = 1
      BY <1>1, <3>1, <3>2, Zenon
    <3>3. CASE i - 1 \in 1 .. Len(q) - 1 /\ Tail(q)[i - 1] = q[i]
      BY <1>2, <3>1, <3>3, Zenon DEF Range
    <3> QED
      BY <1>3, <3>2, <3>3, Zenon
  <2>2. ASSUME NEW x \in Range(Tail(q)) PROVE x \in Range(q)
    BY <1>1, <1>2, <2>2 DEF Range
  <2>3. Head(q) \in Range(q)
    BY <1>1, <1>2 DEF Range
  <2> QED
    BY <2>1, <2>2, <2>3, Zenon
<1>5. ASSUME IsInjective(q)
      PROVE  IsInjective(Tail(q)) /\ Head(q) \notin Range(Tail(q))
    BY <1>1, <1>2, <1>5 DEF Range, IsInjective
<1> QED
    BY <1>1, <1>4, <1>5, Zenon

\* What is in the lists are connections.
LEMMA ListTypes ==
    ASSUME IInv
    PROVE  active \subseteq Client /\ Range(queue) \subseteq Client /\ Len(queue) \in Nat
<1>1. active \subseteq Client /\ queue \in Seq(Client)
    BY Zenon DEF IInv, Types
<1>2. Len(queue) \in Nat /\ DOMAIN queue = 1 .. Len(queue)
      /\ \A i \in 1 .. Len(queue) : queue[i] \in Client
    BY <1>1
<1>3. Range(queue) \subseteq Client
    BY <1>2, Zenon DEF Range
<1> QED
    BY <1>1, <1>2, <1>3, Zenon

LEMMA EmptyFacts == Range(<<>>) = {} /\ Len(<<>>) = 0 /\ IsInjective(<<>>)
    BY DEF Range, IsInjective

-----------------------------------------------------------------------------
(* The clients and the acceptor *)

LEMMA InitIInv == Init => IInv
<1> SUFFICES ASSUME Init PROVE IInv
    BY Zenon
<1> USE ServiceAssumption DEF Init
<1>1. Types
  <2>1. caller \in [Caller \cup {Main} -> CallerAt]
    BY Zenon DEF CallerAt
  <2>2. worker \in [Worker -> [at : WorkerAt, socket : Client \cup {NoSocket}]]
    BY Zenon DEF WorkerAt
  <2>3. conn \in [Client -> ConnAt] /\ queue \in Seq(Client)
    BY DEF ConnAt
  <2>4. acceptor \in [at : AcceptorAt, socket : Client \cup {NoSocket, WakeSocket}]
    BY Zenon DEF AcceptorAt
  <2> QED
    BY <2>1, <2>2, <2>3, <2>4, FS_EmptySet, Zenon DEF Types
<1>2. AcceptorHolds
    BY Zenon DEF AcceptorHolds, NoSocket, WakeSocket
<1>3. WorkersHold
    BY EmptyFacts, Zenon DEF WorkersHold, Serving
<1>4. ListsAgree
    BY EmptyFacts, Zenon DEF ListsAgree
<1>5. Bounded
    BY EmptyFacts, FS_EmptySet DEF Bounded
<1>6. Phases
    BY Zenon DEF Phases, StopAt
<1> QED
    BY <1>1, <1>2, <1>3, <1>4, <1>5, <1>6, Zenon DEF IInv

\* The variables the invariant speaks of.
view == <<running, stopping, listener, wake, conn, queue, active, acceptor, worker, caller,
          applied, committed>>

LEMMA ViewUnchanged == ASSUME IInv, UNCHANGED view PROVE IInv'
    BY DEF view, IInv, Types, AcceptorHolds, WorkersHold, ListsAgree, Bounded, Phases

LEMMA ClientIInv ==
    ASSUME IInv, NEW c \in Client, ClientConnect(c) \/ ClientSend(c) \/ ClientClose(c)
    PROVE  IInv'
<1>1. CASE ClientConnect(c)
  <2>1. /\ conn[c] = "away" /\ listener = "open" /\ conn' = [conn EXCEPT ![c] = "backlog"]
        /\ UNCHANGED <<running, stopping, listener, wake, queue, active, acceptor, worker, caller,
                       applied, committed>>
    BY <1>1, Zenon DEF ClientConnect, flags, requests
  <2>2. Types'
    BY <2>1, Zenon DEF IInv, Types, ConnAt
  <2>3. AcceptorHolds'
    BY <2>1, Zenon DEF IInv, Types, AcceptorHolds
  <2>4. WorkersHold'
    BY <2>1, Zenon DEF IInv, Types, WorkersHold
  <2>5. ListsAgree'
    BY <2>1 DEF IInv, Types, ListsAgree
  <2>6. Bounded' /\ Phases'
    BY <2>1, Zenon DEF IInv, Bounded, Phases
  <2> QED
    BY <2>2, <2>3, <2>4, <2>5, <2>6, Zenon DEF IInv
<1>2. CASE ClientSend(c) \/ ClientClose(c)
    BY <1>2, ViewUnchanged, Zenon DEF ClientSend, ClientClose, flags, requests, view
<1> QED
    BY <1>1, <1>2, Zenon

LEMMA AcceptOneIInv == ASSUME IInv, AcceptOne PROVE IInv'
<1>1. /\ acceptor.at = "accepting" /\ acceptor.socket = NoSocket
      /\ UNCHANGED <<running, stopping, listener, queue, active, worker, caller,
                     applied, committed>>
    BY Zenon DEF AcceptOne, flags, requests, IInv, AcceptorHolds
<1>2. ASSUME NEW c \in Client, conn[c] = "backlog", conn' = [conn EXCEPT ![c] = "accepted"],
             acceptor' = [at |-> "testing", socket |-> c], UNCHANGED wake
      PROVE  IInv'
  <2>1. Types'
    BY <1>1, <1>2, Zenon DEF IInv, Types, ConnAt, AcceptorAt
  <2>2. AcceptorHolds'
    BY <1>1, <1>2, ServiceAssumption, Zenon DEF IInv, Types, AcceptorHolds
  <2>3. WorkersHold'
    BY <1>1, <1>2 DEF IInv, Types, WorkersHold
  <2>4. ListsAgree'
    BY <1>1, <1>2 DEF IInv, Types, ListsAgree
  <2>5. Bounded' /\ Phases'
    BY <1>1, <1>2, Zenon DEF IInv, Bounded, Phases
  <2> QED
    BY <2>1, <2>2, <2>3, <2>4, <2>5, Zenon DEF IInv
<1>3. ASSUME wake, wake' = FALSE, acceptor' = [at |-> "testing", socket |-> WakeSocket],
             UNCHANGED conn
      PROVE  IInv'
  <2>1. Types'
    BY <1>1, <1>3, Zenon DEF IInv, Types, AcceptorAt
  <2>2. AcceptorHolds'
    BY <1>1, <1>3, ServiceAssumption, Zenon DEF IInv, Types, AcceptorHolds, NoSocket, WakeSocket
  <2>3. WorkersHold' /\ ListsAgree' /\ Bounded' /\ Phases'
    BY <1>1, <1>3 DEF IInv, WorkersHold, ListsAgree, Bounded, Phases
  <2> QED
    BY <2>1, <2>2, <2>3, Zenon DEF IInv
<1> QED
    BY <1>2, <1>3, Zenon DEF AcceptOne, accepts

LEMMA AcceptTestIInv == ASSUME IInv, AcceptTest \/ AcceptFails PROVE IInv'
<1>1. /\ acceptor.at \in {"accepting", "testing"}
      /\ UNCHANGED <<running, stopping, listener, wake, queue, active, worker, caller,
                     applied, committed>>
    BY Zenon DEF AcceptTest, AcceptFails, flags, requests
<1>2. \/ /\ stopping /\ acceptor' = [at |-> "done", socket |-> NoSocket]
         /\ conn' = [c \in Client |-> IF c = acceptor.socket THEN "closed" ELSE conn[c]]
      \/ /\ ~stopping /\ acceptor' = [at |-> "queueing", socket |-> acceptor.socket]
         /\ acceptor.at = "testing" /\ UNCHANGED conn
  <2>1. CASE AcceptTest
    BY <2>1, Zenon DEF AcceptTest, accepts
  <2>2. CASE AcceptFails
    <3>1. acceptor.socket = NoSocket /\ conn \in [Client -> ConnAt]
      BY <2>2, Zenon DEF AcceptFails, IInv, AcceptorHolds, Types
    <3>2. conn = [c \in Client |-> IF c = acceptor.socket THEN "closed" ELSE conn[c]]
      BY <3>1, ServiceAssumption, Zenon
    <3> QED
      BY <2>2, <3>2, Zenon DEF AcceptFails, accepts
  <2> QED
    BY <2>1, <2>2, Zenon
<1>3. Types'
    BY <1>1, <1>2 DEF IInv, Types, ConnAt, AcceptorAt
<1>4. \A c \in Client : \/ conn'[c] = conn[c] /\ (stopping => c # acceptor.socket)
                        \/ conn[c] = "accepted" /\ conn'[c] = "closed"
    BY <1>2, Zenon DEF IInv, AcceptorHolds
<1>8. AcceptorHolds'
    BY <1>1, <1>2, <1>4, ServiceAssumption
       DEF IInv, Types, AcceptorHolds, NoSocket, WakeSocket
<1>5. WorkersHold'
    BY <1>1, <1>4 DEF IInv, WorkersHold
<1>6. ListsAgree'
  <2>1. Range(queue) \subseteq Client /\ active \subseteq Client
    BY ListTypes, Zenon
  <2> QED
    BY <1>1, <1>4, <2>1 DEF IInv, ListsAgree
<1>7. Bounded' /\ Phases'
    BY <1>1, <1>2, Zenon DEF IInv, Bounded, Phases
<1> QED
    BY <1>3, <1>8, <1>5, <1>6, <1>7, Zenon DEF IInv

LEMMA AcceptQueueIInv == ASSUME IInv, AcceptQueue PROVE IInv'
<1> DEFINE c == acceptor.socket
<1>1. /\ acceptor.at = "queueing" /\ c \in Client /\ conn[c] = "accepted"
      /\ UNCHANGED <<running, stopping, listener, wake, active, worker, caller,
                     applied, committed>>
    BY Zenon DEF AcceptQueue, flags, requests, IInv, AcceptorHolds
<1>2. CASE HasRoom
  <2>1. /\ queue' = Append(queue, c) /\ conn' = [conn EXCEPT ![c] = "queued"]
        /\ acceptor' = [at |-> "notifying", socket |-> NoSocket]
    BY <1>2, Zenon DEF AcceptQueue, accepts
  <2>2. c \notin Range(queue)
    BY <1>1, Zenon DEF IInv, ListsAgree
  <2>3. /\ queue' \in Seq(Client) /\ Len(queue') = Len(queue) + 1
        /\ Range(queue') = Range(queue) \cup {c} /\ IsInjective(queue')
        /\ Len(queue) \in Nat
    BY <1>1, <2>1, <2>2, AppendFacts DEF IInv, Types, Bounded
  <2>4. Types'
    BY <1>1, <2>1, <2>3, Zenon DEF IInv, Types, ConnAt, AcceptorAt
  <2>5. AcceptorHolds'
    BY <1>1, <2>1, ServiceAssumption, Zenon DEF IInv, Types, AcceptorHolds, NoSocket, WakeSocket
  <2>6. WorkersHold'
    BY <1>1, <2>1, <2>3, Zenon DEF IInv, Types, WorkersHold
  <2>7. ListsAgree'
    BY <1>1, <2>1, <2>3 DEF IInv, Types, ListsAgree
  <2>8. Bounded'
    <3>1. Cardinality(active) \in Nat
      BY FS_CardinalityType, Zenon DEF IInv, Types
    <3> QED
      BY <1>1, <1>2, <2>3, <3>1, ServiceAssumption DEF HasRoom, Bounded
  <2>9. Phases'
    BY <1>1, <2>1, Zenon DEF IInv, Phases
  <2> QED
    BY <2>4, <2>5, <2>6, <2>7, <2>8, <2>9, Zenon DEF IInv
<1>3. CASE ~HasRoom
  <2>1. UNCHANGED <<queue, conn>> /\ acceptor' = [at |-> "refusing", socket |-> c]
    BY <1>3, Zenon DEF AcceptQueue, accepts
  <2>2. Types'
    BY <1>1, <2>1, Zenon DEF IInv, Types, AcceptorAt
  <2>3. AcceptorHolds'
    BY <1>1, <2>1, Zenon DEF IInv, AcceptorHolds
  <2>4. WorkersHold' /\ ListsAgree' /\ Bounded' /\ Phases'
    BY <1>1, <2>1 DEF IInv, WorkersHold, ListsAgree, Bounded, Phases
  <2> QED
    BY <2>2, <2>3, <2>4, Zenon DEF IInv
<1> QED
    BY <1>2, <1>3, Zenon

LEMMA AcceptRefuseIInv == ASSUME IInv, AcceptRefuse PROVE IInv'
<1>1. /\ acceptor.at = "refusing" /\ acceptor.socket \in Client
      /\ conn' = [conn EXCEPT ![acceptor.socket] = "closed"]
      /\ acceptor' = [at |-> "accepting", socket |-> NoSocket]
      /\ conn[acceptor.socket] = "accepted"
      /\ UNCHANGED <<running, stopping, listener, wake, queue, active, worker, caller,
                     applied, committed>>
    BY Zenon DEF AcceptRefuse, accepts, flags, requests, IInv, AcceptorHolds
<1>2. Types'
    BY <1>1, Zenon DEF IInv, Types, ConnAt, AcceptorAt
<1>3. AcceptorHolds'
    BY <1>1, ServiceAssumption, Zenon DEF IInv, Types, AcceptorHolds, NoSocket, WakeSocket
<1>4. WorkersHold'
    BY <1>1, Zenon DEF IInv, Types, WorkersHold
<1>5. ListsAgree'
    BY <1>1 DEF IInv, Types, ListsAgree
<1>6. Bounded' /\ Phases'
    BY <1>1, Zenon DEF IInv, Bounded, Phases
<1> QED
    BY <1>2, <1>3, <1>4, <1>5, <1>6, Zenon DEF IInv

-----------------------------------------------------------------------------
(* The workers *)

\* Waking sleepers changes nothing of who holds what.
WakesSome ==
    /\ worker' = [w \in Worker |-> worker'[w]]
    /\ \A w \in Worker : \/ worker'[w] = worker[w]
                         \/ /\ worker[w].at = "waiting"
                            /\ worker'[w] = [at |-> "locking", socket |-> NoSocket]

LEMMA WakingKeeps ==
    ASSUME IInv, WakesSome, UNCHANGED <<listener, conn, queue, active>>
    PROVE  /\ worker' \in [Worker -> [at : WorkerAt, socket : Client \cup {NoSocket}]]
           /\ WorkersHold' /\ ListsAgree'
           /\ \A w \in Worker : worker[w].at \in {"unstarted", "done"} =>
                  worker'[w] = worker[w]
<1>1. \A w \in Worker : worker'[w] \in [at : WorkerAt, socket : Client \cup {NoSocket}]
    BY DEF WakesSome, IInv, Types, WorkerAt
<1>9. /\ worker' \in [Worker -> [at : WorkerAt, socket : Client \cup {NoSocket}]]
      /\ \A w \in Worker : worker[w].at \in {"unstarted", "done"} => worker'[w] = worker[w]
    BY <1>1, Zenon DEF WakesSome
<1>2. /\ \A w \in Worker : worker'[w].socket = worker[w].socket
      /\ \A w \in Worker : \/ worker'[w] = worker[w]
                           \/ /\ worker[w].at \notin Serving \cup {"dropping"}
                              /\ worker'[w].at \notin Serving \cup {"dropping"}
    BY DEF WakesSome, IInv, WorkersHold, Serving
<1>3. WorkersHold'
    BY <1>2 DEF IInv, WorkersHold
<1>4. ListsAgree'
    BY <1>2 DEF IInv, ListsAgree
<1> QED
    BY <1>9, <1>3, <1>4, Zenon

LEMMA WokenWakes ==
    ASSUME IInv, NEW w \in Sleeping, worker' = Woken(w)
    PROVE  WakesSome
<1>1. worker \in [Worker -> [at : WorkerAt, socket : Client \cup {NoSocket}]]
    BY Zenon DEF IInv, Types
<1>2. w \in Worker /\ worker[w].at = "waiting" /\ worker[w].socket = NoSocket
    BY Zenon DEF Sleeping, IInv, WorkersHold, Serving
<1>3. [worker[w] EXCEPT !.at = "locking"] = [at |-> "locking", socket |-> NoSocket]
    BY <1>1, <1>2
<1>4. worker' = [worker EXCEPT ![w] = [at |-> "locking", socket |-> NoSocket]]
    BY <1>3, Zenon DEF Woken
<1> QED
    BY <1>1, <1>2, <1>4, Zenon DEF WakesSome

LEMMA WakeWorkersWakes == ASSUME IInv, WakeWorkers PROVE WakesSome
<1>1. worker \in [Worker -> [at : WorkerAt, socket : Client \cup {NoSocket}]]
    BY Zenon DEF IInv, Types
<1>2. ASSUME NEW w \in Worker, worker[w].at = "waiting"
      PROVE  [worker[w] EXCEPT !.at = "locking"] = [at |-> "locking", socket |-> NoSocket]
  <2>1. worker[w].socket = NoSocket
    BY <1>2, Zenon DEF IInv, WorkersHold, Serving
  <2> QED
    BY <1>1, <2>1
<1> QED
    BY <1>2, Zenon DEF WakeWorkers, Sleeping, WakesSome

LEMMA AcceptNotifyIInv == ASSUME IInv, AcceptNotify PROVE IInv'
<1>1. /\ acceptor.at = "notifying" /\ acceptor' = [at |-> "accepting", socket |-> NoSocket]
      /\ UNCHANGED <<running, stopping, listener, wake, conn, queue, active, caller,
                     applied, committed>>
    BY Zenon DEF AcceptNotify, accepts, flags, requests
<1>2. WakesSome
  <2>1. UNCHANGED worker => WakesSome
    BY Zenon DEF WakesSome, IInv, Types
  <2> QED
    BY <2>1, WokenWakes, Zenon DEF AcceptNotify
<1>3. Types'
    BY <1>1, <1>2, WakingKeeps, Zenon DEF IInv, Types, AcceptorAt
<1>4. AcceptorHolds'
    BY <1>1, ServiceAssumption, Zenon DEF IInv, AcceptorHolds
<1>5. Bounded' /\ Phases'
    BY <1>1, <1>2, WakingKeeps, Zenon DEF IInv, Bounded, Phases
<1> QED
    BY <1>1, <1>2, <1>3, <1>4, <1>5, WakingKeeps, Zenon DEF IInv

\* One more step with the connection a worker holds.
LEMMA ServingIInv ==
    ASSUME IInv, NEW w \in Worker, worker[w].at \in Serving,
           NEW at \in Serving \ {"leaving"}, goes(w, at),
           caller' \in {caller, [caller EXCEPT ![Main] = IF @ = "waiting" THEN "locking" ELSE @]},
           UNCHANGED <<running, stopping, listener, wake, conn, queue, active, acceptor, committed>>
    PROVE  IInv'
<1>1. /\ worker[w].socket \in Client
      /\ worker' = [worker EXCEPT ![w] = [at |-> at, socket |-> worker[w].socket]]
  <2>1. worker[w] \in [at : WorkerAt, socket : Client \cup {NoSocket}]
    BY Zenon DEF IInv, Types
  <2>2. [worker[w] EXCEPT !.at = at] = [at |-> at, socket |-> worker[w].socket]
    BY <2>1
  <2>3. worker[w].socket \in Client
    BY Zenon DEF IInv, WorkersHold
  <2> QED
    BY <2>2, <2>3, Zenon DEF goes
<1>2. \A v \in Worker : /\ worker'[v].socket = worker[v].socket
                        /\ \/ worker'[v] = worker[v]
                           \/ v = w /\ worker'[v].at = at
    BY <1>1, Zenon DEF IInv, Types
<1>3. "dropping" \notin Serving
    BY Zenon DEF Serving
<1>4. Types'
  <2>1. worker' \in [Worker -> [at : WorkerAt, socket : Client \cup {NoSocket}]]
    BY <1>1, Zenon DEF IInv, Types, WorkerAt
  <2>2. caller' \in [Caller \cup {Main} -> CallerAt]
    BY Zenon DEF IInv, Types, CallerAt
  <2> QED
    BY <2>1, <2>2, Zenon DEF IInv, Types
<1>5. AcceptorHolds'
    BY Zenon DEF IInv, AcceptorHolds
<1>6. WorkersHold'
    BY <1>2, <1>3 DEF IInv, WorkersHold
<1>7. ListsAgree'
  <2>1. \A v \in Worker, c \in Client :
            worker[v] = [at |-> "dropping", socket |-> c] => worker'[v] = worker[v]
    BY <1>2, <1>3
  <2>2. \A v \in Worker : worker[v].at \in Serving => worker'[v].at \in Serving
    BY <1>2, Zenon
  <2> QED
    BY <1>2, <2>1, <2>2 DEF IInv, ListsAgree
<1>8. Bounded'
    BY Zenon DEF IInv, Bounded
<1>9. Phases'
  <2>1. worker[w].at \notin {"unstarted", "done"}
    BY Zenon DEF Serving
  <2>2. caller[Main] \notin {"starting", "clearing", "returned", "exited"}
    BY <2>1, Zenon DEF IInv, Phases
  <2>3. \/ caller'[Main] = caller[Main]
        \/ caller[Main] = "waiting" /\ caller'[Main] = "locking"
    BY Zenon DEF IInv, Types
  <2> QED
    BY <2>2, <2>3, Zenon DEF IInv, Phases, StopAt
<1> QED
    BY <1>4, <1>5, <1>6, <1>7, <1>8, <1>9, Zenon DEF IInv

LEMMA ServeIInv ==
    ASSUME IInv, NEW w \in Worker,
           \/ WorkerServe(w) \/ WorkerRead(w) \/ WorkerDispatch(w) \/ WorkerShutdown(w)
           \/ WorkerReply(w) \/ WorkerReject(w)
    PROVE  IInv'
<1>1. /\ worker[w].at \in Serving
      /\ UNCHANGED <<running, stopping, listener, wake, conn, queue, active, acceptor, committed>>
    BY Zenon DEF WorkerServe, WorkerRead, WorkerDispatch, WorkerShutdown, WorkerReply, WorkerReject,
       flags, requests, Serving
<1>2. caller' \in {caller, [caller EXCEPT ![Main] = IF @ = "waiting" THEN "locking" ELSE @]}
    BY Zenon DEF WorkerServe, WorkerRead, WorkerDispatch, WorkerShutdown, WorkerReply, WorkerReject
<1>3. \E at \in Serving \ {"leaving"} : goes(w, at)
  <2>1. CASE WorkerServe(w)
    BY <2>1, Zenon DEF WorkerServe, Serving
  <2>2. CASE WorkerRead(w)
    BY <2>2, Zenon DEF WorkerRead, Serving
  <2>3. CASE WorkerDispatch(w) \/ WorkerShutdown(w)
    BY <2>3, Zenon DEF WorkerDispatch, WorkerShutdown, Serving
  <2>4. CASE WorkerReply(w)
    BY <2>4, Zenon DEF WorkerReply, Serving
  <2>5. CASE WorkerReject(w)
    BY <2>5, Zenon DEF WorkerReject, Serving
  <2> QED
    BY <2>1, <2>2, <2>3, <2>4, <2>5, Zenon
<1> QED
    BY <1>1, <1>2, <1>3, ServingIInv, Zenon

\* A connection changes hands without a change of place, or is closed.
LEMMA TakeIInv == ASSUME IInv, NEW w \in Worker, WorkerTake(w) PROVE IInv'
<1> DEFINE c == Head(queue)
<1>1. /\ worker[w].at = "locking"
      /\ UNCHANGED <<running, stopping, listener, wake, acceptor, caller, applied, committed>>
    BY Zenon DEF WorkerTake, flags, requests
<1>2. caller[Main] \notin {"starting", "clearing", "returned", "exited"}
    BY <1>1, Zenon DEF IInv, Phases
<1>3. worker[w].socket = NoSocket
    BY <1>1, Zenon DEF IInv, WorkersHold, Serving
<1>4. CASE queue = <<>>
  <2>1. PICK at \in {"done", "waiting"} :
            /\ worker' = [worker EXCEPT ![w] = [at |-> at, socket |-> NoSocket]]
            /\ UNCHANGED <<queue, active, conn>>
    BY <1>4, Zenon DEF WorkerTake, rests
  <2>2. \A v \in Worker : /\ worker'[v].socket = worker[v].socket
                          /\ \/ worker'[v] = worker[v]
                             \/ v = w /\ worker'[v].at = at
    BY <1>3, <2>1, Zenon DEF IInv, Types
  <2>3. at \notin Serving \cup {"dropping"} /\ worker[w].at \notin Serving \cup {"dropping"}
    BY <1>1, Zenon DEF Serving
  <2>4. Types'
    BY <1>1, <2>1, Zenon DEF IInv, Types, WorkerAt
  <2>5. AcceptorHolds' /\ Bounded'
    BY <1>1, <2>1, Zenon DEF IInv, AcceptorHolds, Bounded
  <2>6. WorkersHold'
    BY <2>1, <2>2, <2>3 DEF IInv, WorkersHold
  <2>7. ListsAgree'
    BY <1>1, <2>1, <2>2, <2>3 DEF IInv, ListsAgree
  <2>8. Phases'
    BY <1>1, <1>2, <2>1, Zenon DEF IInv, Phases
  <2> QED
    BY <2>4, <2>5, <2>6, <2>7, <2>8, Zenon DEF IInv
<1>5. CASE queue # <<>>
  <2>1. /\ queue' = Tail(queue)
        /\ \/ /\ stopping /\ UNCHANGED <<active, conn>>
              /\ worker' = [worker EXCEPT ![w] = [at |-> "dropping", socket |-> c]]
           \/ /\ ~stopping /\ active' = active \cup {c}
              /\ conn' = [conn EXCEPT ![c] = "active"]
              /\ worker' = [worker EXCEPT ![w] = [at |-> "serving", socket |-> c]]
    BY <1>5, Zenon DEF WorkerTake
  <2>2. /\ queue' \in Seq(Client) /\ Len(queue') = Len(queue) - 1 /\ c \in Client
        /\ Range(queue) = Range(queue') \cup {c}
        /\ IsInjective(queue') /\ c \notin Range(queue') /\ Len(queue) \in Nat
    BY <1>5, <2>1, TailFacts DEF IInv, Types, Bounded
  <2>3. /\ conn[c] = "queued" /\ c \notin active
        /\ \A v \in Worker : worker[v].socket # c
    <3>1. conn[c] = "queued" /\ c \notin active
      BY <2>2, Zenon DEF IInv, ListsAgree
    <3>2. ASSUME NEW v \in Worker PROVE worker[v].socket # c
      BY <2>2, <3>1, ServiceAssumption, Zenon DEF IInv, WorkersHold
    <3> QED
      BY <3>1, <3>2, Zenon
  <2> HIDE DEF c
  <2>4. CASE stopping
    <3>1. /\ UNCHANGED <<active, conn>>
          /\ worker' = [worker EXCEPT ![w] = [at |-> "dropping", socket |-> c]]
      BY <2>1, <2>4, Zenon
    <3>2. \A v \in Worker : IF v = w THEN worker'[v] = [at |-> "dropping", socket |-> c]
                            ELSE worker'[v] = worker[v]
      BY <3>1, Zenon DEF IInv, Types
    <3>3. "dropping" \notin Serving /\ "locking" \notin Serving
      BY Zenon DEF Serving
    <3>4. Types'
      BY <1>1, <2>2, <3>1, Zenon DEF IInv, Types, WorkerAt
    <3>5. AcceptorHolds'
      BY <1>1, <3>1, Zenon DEF IInv, AcceptorHolds
    <3>6. Bounded'
      <4>1. Cardinality(active) \in Nat
        BY FS_CardinalityType, Zenon DEF IInv, Types
      <4> QED
        BY <2>2, <3>1, <4>1, ServiceAssumption DEF IInv, Bounded
    <3>7. WorkersHold'
      BY <2>2, <2>3, <3>1, <3>2, <3>3 DEF IInv, WorkersHold
    <3>8. ListsAgree'
      BY <1>1, <2>2, <2>3, <3>1, <3>2, <3>3 DEF IInv, ListsAgree
    <3>9. Phases'
      BY <1>1, <1>2, <1>5, <2>2, <3>1, Zenon DEF IInv, Phases
    <3> QED
      BY <3>4, <3>5, <3>6, <3>7, <3>8, <3>9, Zenon DEF IInv
  <2>5. CASE ~stopping
    <3>1. /\ active' = active \cup {c} /\ conn' = [conn EXCEPT ![c] = "active"]
          /\ worker' = [worker EXCEPT ![w] = [at |-> "serving", socket |-> c]]
      BY <2>1, <2>5, Zenon
    <3>2. \A v \in Worker : IF v = w THEN worker'[v] = [at |-> "serving", socket |-> c]
                            ELSE worker'[v] = worker[v]
      BY <3>1, Zenon DEF IInv, Types
    <3>3. /\ "dropping" \notin Serving /\ "locking" \notin Serving
          /\ "serving" \in Serving /\ "dropping" # "serving"
      BY Zenon DEF Serving
    <3>4. \A d \in Client : IF d = c THEN conn'[d] = "active" ELSE conn'[d] = conn[d]
      BY <3>1, Zenon DEF IInv, Types
    <3>5. Types'
      <4>1. IsFiniteSet(active')
        BY <3>1, FS_AddElement, Zenon DEF IInv, Types
      <4> QED
        BY <1>1, <2>2, <3>1, <4>1, Zenon DEF IInv, Types, WorkerAt, Serving, ConnAt
    <3>6. AcceptorHolds'
      BY <1>1, <2>3, <3>4, Zenon DEF IInv, AcceptorHolds
    <3>7. Bounded'
      <4>1. Cardinality(active) \in Nat /\ Cardinality(active') = Cardinality(active) + 1
        BY <2>3, <3>1, FS_AddElement, FS_CardinalityType, Zenon DEF IInv, Types
      <4>2. Cardinality(active) + Len(queue) <= max_connections /\ IsInjective(queue)
        BY Zenon DEF IInv, Bounded
      <4> HIDE DEF IInv
      <4>3. Cardinality(active') + Len(queue') <= max_connections
        BY <2>2, <4>1, <4>2, ServiceAssumption
      <4>4. IsInjective(queue')
        BY <2>2, <4>2, Zenon DEF IsInjective
      <4> QED
        BY <4>3, <4>4, Zenon DEF Bounded
    <3>8. WorkersHold'
      <4>1. WorkersHold /\ w \in Worker
        BY <1>5, Zenon DEF IInv
      <4>2. /\ worker'[w].at = "serving" /\ worker'[w].socket = c
            /\ \A v \in Worker : v # w => worker'[v] = worker[v]
        BY <3>2, <4>1
      <4>3. \A d \in Client : d # c => conn'[d] = conn[d]
        BY <3>4, Zenon
      <4>4. conn'[c] = "active" /\ c \in Client
        BY <2>2, <3>4, Zenon
      <4>5. ASSUME NEW v \in Worker
            PROVE  /\ worker'[v].at \in Serving =>
                        /\ worker'[v].socket \in Client
                        /\ conn'[worker'[v].socket] \in {"active", "closed"}
                        /\ worker'[v].at = "leaving" => conn'[worker'[v].socket] = "closed"
                   /\ worker'[v].at = "dropping" =>
                        /\ worker'[v].socket \in Client \ Range(queue')
                        /\ conn'[worker'[v].socket] = "queued"
                   /\ worker'[v].at \notin Serving \cup {"dropping"} =>
                        worker'[v].socket = NoSocket
        <5>1. CASE v = w
          BY <3>3, <4>2, <4>4, <5>1, Zenon
        <5>2. CASE v # w
          BY <2>2, <2>3, <4>1, <4>2, <4>3, <5>2 DEF WorkersHold
        <5> QED
          BY <5>1, <5>2, Zenon
      <4>6. \A u, v \in Worker : worker'[u].socket = worker'[v].socket /\ u # v
                                  => worker'[u].socket = NoSocket
        BY <2>3, <4>1, <4>2 DEF WorkersHold
      <4> QED
        BY <4>5, <4>6, Zenon DEF WorkersHold
    <3>9. ListsAgree'
      <4>1. active \subseteq Client /\ Range(queue) \subseteq Client
        BY ListTypes, Zenon
      <4> QED
        BY <1>1, <2>2, <2>3, <3>1, <3>2, <3>3, <3>4, <4>1 DEF IInv, ListsAgree
    <3>10. Phases'
      BY <1>1, <1>2, <1>5, <2>2, Zenon DEF IInv, Phases
    <3> QED
      BY <3>5, <3>6, <3>7, <3>8, <3>9, <3>10, Zenon DEF IInv
  <2> QED
    BY <2>4, <2>5, Zenon
<1> QED
    BY <1>4, <1>5, Zenon

\* A worker wakes on its own, or goes back to the head of its loop.
LEMMA IdleIInv ==
    ASSUME IInv, NEW w \in Worker, WorkerSpurious(w) \/ WorkerDecide(w) PROVE IInv'
<1>1. /\ worker[w].at \in {"waiting", "deciding"}
      /\ UNCHANGED <<running, stopping, listener, wake, conn, queue, active, acceptor, caller,
                     applied, committed>>
    BY Zenon DEF WorkerSpurious, WorkerDecide, flags, requests
<1>2. worker[w] \in [at : WorkerAt, socket : Client \cup {NoSocket}]
    BY Zenon DEF IInv, Types
<1>3. PICK at \in {"locking", "done"} : worker' = [worker EXCEPT ![w].at = at]
    BY Zenon DEF WorkerSpurious, WorkerDecide, goes
<1>4. \A v \in Worker : /\ worker'[v].socket = worker[v].socket
                        /\ \/ worker'[v] = worker[v]
                           \/ v = w /\ worker'[v].at = at
    BY <1>2, <1>3, Zenon DEF IInv, Types
<1>5. at \notin Serving \cup {"dropping"} /\ worker[w].at \notin Serving \cup {"dropping"}
    BY <1>1, Zenon DEF Serving
<1>6. Types'
  <2>1. [worker[w] EXCEPT !.at = at] \in [at : WorkerAt, socket : Client \cup {NoSocket}]
    BY <1>2, Zenon DEF WorkerAt
  <2>2. worker' \in [Worker -> [at : WorkerAt, socket : Client \cup {NoSocket}]]
    BY <1>3, <2>1, Zenon DEF IInv, Types
  <2> QED
    BY <1>1, <2>2, Zenon DEF IInv, Types
<1>7. AcceptorHolds' /\ Bounded'
    BY <1>1, Zenon DEF IInv, AcceptorHolds, Bounded
<1>8. WorkersHold'
    BY <1>1, <1>4, <1>5 DEF IInv, WorkersHold
<1>9. ListsAgree'
    BY <1>1, <1>4, <1>5 DEF IInv, ListsAgree
<1>10. Phases'
  <2>1. caller[Main] \notin {"starting", "clearing", "returned", "exited"}
    BY <1>1, Zenon DEF IInv, Phases
  <2> QED
    BY <1>1, <2>1, Zenon DEF IInv, Phases
<1> QED
    BY <1>6, <1>7, <1>8, <1>9, <1>10, Zenon DEF IInv

\* A worker closes its connection, or lets go of a closed one.
LEMMA ReleaseIInv ==
    ASSUME IInv, NEW w \in Worker, WorkerDrop(w) \/ WorkerClose(w) \/ WorkerLeave(w) PROVE IInv'
<1> DEFINE c == worker[w].socket
<1>1. /\ worker[w].at \in {"dropping", "closing", "leaving"}
      /\ UNCHANGED <<running, stopping, listener, wake, queue, acceptor, caller,
                     applied, committed>>
    BY Zenon DEF WorkerDrop, WorkerClose, WorkerLeave, flags, requests
<1>2. worker \in [Worker -> [at : WorkerAt, socket : Client \cup {NoSocket}]]
    BY Zenon DEF IInv, Types
<1>3. /\ c \in Client /\ conn[c] \in {"queued", "active", "closed"} /\ c # NoSocket
      /\ worker[w].at = "leaving" => conn[c] = "closed"
      /\ c \notin Range(queue)
  <2>1. /\ c \in Client /\ conn[c] \in {"queued", "active", "closed"}
        /\ worker[w].at = "leaving" => conn[c] = "closed"
        /\ conn[c] = "queued" => c \notin Range(queue)
    BY <1>1, Zenon DEF IInv, WorkersHold, Serving
  <2> QED
    BY <2>1, ServiceAssumption DEF IInv, ListsAgree
<1>4. PICK at \in {"done", "leaving", "deciding"}, socket \in {c, NoSocket} :
          /\ worker' = [worker EXCEPT ![w] = [at |-> at, socket |-> socket]]
          /\ at = "leaving" <=> socket = c
  <2>1. CASE WorkerClose(w)
    <3>1. [worker[w] EXCEPT !.at = "leaving"] = [at |-> "leaving", socket |-> c]
      BY <1>2
    <3>2. worker' = [worker EXCEPT ![w] = [at |-> "leaving", socket |-> c]]
      BY <2>1, <3>1, Zenon DEF WorkerClose, goes
    <3> QED
      BY <3>2, Zenon
  <2>2. CASE WorkerDrop(w) \/ WorkerLeave(w)
    BY <1>3, <2>2, Zenon DEF WorkerDrop, WorkerLeave, rests
  <2> QED
    BY <2>1, <2>2, Zenon
<1>5. conn' = [conn EXCEPT ![c] = "closed"]
  <2>1. conn \in [Client -> ConnAt]
    BY Zenon DEF IInv, Types
  <2>2. Closed({c}) = [conn EXCEPT ![c] = "closed"]
    BY <1>3, <2>1, Zenon DEF Closed
  <2>3. WorkerLeave(w) => [conn EXCEPT ![c] = "closed"] = conn'
    BY <1>3, <2>1, Zenon DEF WorkerLeave
  <2> QED
    BY <2>2, <2>3, Zenon DEF WorkerDrop, WorkerClose
<1>6. active' \in {active, active \ {c}}
    BY Zenon DEF WorkerDrop, WorkerClose, WorkerLeave
<1>7. \A v \in Worker \ {w} : worker'[v] = worker[v] /\ worker[v].socket # c
    BY <1>2, <1>3, <1>4, Zenon DEF IInv, WorkersHold
<1>8. worker'[w] = [at |-> at, socket |-> socket]
    BY <1>2, <1>4, Zenon
<1>9. \A d \in Client : IF d = c THEN conn'[d] = "closed" ELSE conn'[d] = conn[d]
    BY <1>5, Zenon DEF IInv, Types
<1> HIDE DEF c
<1>10. Types'
  <2>1. active' \subseteq Client /\ IsFiniteSet(active')
    <3>1. active \subseteq Client /\ IsFiniteSet(active)
      BY Zenon DEF IInv, Types
    <3>2. IsFiniteSet(active \ {c})
      BY <3>1, FS_RemoveElement, Zenon
    <3> QED
      BY <1>6, <3>1, <3>2, Zenon
  <2> QED
    BY <1>1, <1>3, <1>4, <1>5, <2>1, Zenon DEF IInv, Types, WorkerAt, Serving, ConnAt
<1>11. AcceptorHolds'
    BY <1>1, <1>3, <1>9, Zenon DEF IInv, AcceptorHolds
<1>12. WorkersHold'
  <2>1. "leaving" \in Serving /\ {"done", "deciding"} \cap (Serving \cup {"dropping"}) = {}
        /\ "dropping" # "leaving"
    BY Zenon DEF Serving
  <2> QED
    <3>1. \A v \in Worker \ {w} : /\ worker'[v] = worker[v] /\ worker[v].socket # c
                                  /\ worker[v].socket \in Client =>
                                        conn'[worker[v].socket] = conn[worker[v].socket]
      BY <1>7, <1>9, Zenon
    <3>2. worker'[w].at = at /\ worker'[w].socket = socket
      BY <1>8
    <3>3. ASSUME NEW v \in Worker, worker'[v].at \in Serving
          PROVE  /\ worker'[v].socket \in Client
                 /\ conn'[worker'[v].socket] \in {"active", "closed"}
                 /\ worker'[v].at = "leaving" => conn'[worker'[v].socket] = "closed"
      <4>1. CASE v = w
        BY <1>3, <1>4, <1>9, <2>1, <3>2, <3>3, <4>1, Zenon
      <4>2. CASE v # w
        BY <3>1, <3>3, <4>2 DEF IInv, WorkersHold
      <4> QED
        BY <4>1, <4>2, Zenon
    <3>4. ASSUME NEW v \in Worker, worker'[v].at = "dropping"
          PROVE  /\ worker'[v].socket \in Client \ Range(queue')
                 /\ conn'[worker'[v].socket] = "queued"
      <4>1. v # w
        BY <1>4, <3>2, <3>4, Zenon
      <4> QED
        BY <1>1, <3>1, <3>4, <4>1 DEF IInv, WorkersHold
    <3>5. ASSUME NEW v \in Worker, worker'[v].at \notin Serving \cup {"dropping"}
          PROVE  worker'[v].socket = NoSocket
      <4>1. CASE v = w
        BY <1>4, <2>1, <3>2, <3>5, <4>1, Zenon
      <4>2. CASE v # w
        BY <3>1, <3>5, <4>2, Zenon DEF IInv, WorkersHold
      <4> QED
        BY <4>1, <4>2, Zenon
    <3>6. ASSUME NEW u \in Worker, NEW v \in Worker, worker'[u].socket = worker'[v].socket, u # v
          PROVE  worker'[u].socket = NoSocket
      <4>1. CASE u # w /\ v # w
        BY <3>1, <3>6, <4>1 DEF IInv, WorkersHold
      <4>2. CASE u = w \/ v = w
        BY <1>4, <3>1, <3>2, <3>6, <4>2
      <4> QED
        BY <4>1, <4>2, Zenon
    <3> QED
      BY <3>3, <3>4, <3>5, <3>6, Zenon DEF WorkersHold
<1>13. ListsAgree'
  <2>1. active \subseteq Client /\ Range(queue) \subseteq Client
    BY ListTypes, Zenon
  <2>2. \A d \in Client, v \in Worker : d # c /\ worker[v].socket = d => worker'[v] = worker[v]
    BY <1>7, Zenon DEF c
  <2>3. queue' = queue /\ listener' = listener
    BY <1>1, Zenon
  <2>4. \A d \in Range(queue) : conn'[d] = "queued"
    BY <1>3, <1>9, <2>1, Zenon DEF IInv, ListsAgree
  <2>5. \A d \in active' : conn'[d] \in {"active", "closed"}
    BY <1>6, <1>9, <2>1, Zenon DEF IInv, ListsAgree
  <2>6. ASSUME NEW d \in Client, conn'[d] \in {"queued", "active", "backlog"}
        PROVE  d # c /\ conn'[d] = conn[d]
    BY <1>9, <2>6, Zenon
  <2>7. ASSUME NEW d \in Client, conn'[d] = "queued"
        PROVE  \/ d \in Range(queue)
               \/ \E v \in Worker : worker'[v] = [at |-> "dropping", socket |-> d]
    <3>1. d # c /\ conn[d] = "queued"
      BY <2>6, <2>7, Zenon
    <3>2. CASE d \in Range(queue)
      BY <3>2, Zenon
    <3>3. CASE \E v \in Worker : worker[v] = [at |-> "dropping", socket |-> d]
      <4>1. PICK v \in Worker : worker[v] = [at |-> "dropping", socket |-> d]
        BY <3>3, Zenon
      <4>2. worker[v].socket = d
        BY <4>1
      <4> QED
        BY <2>2, <3>1, <4>1, <4>2, Zenon
    <3> QED
      BY <3>1, <3>2, <3>3, Zenon DEF IInv, ListsAgree
  <2>8. ASSUME NEW d \in Client, conn'[d] = "active"
        PROVE  \E v \in Worker : worker'[v].at \in Serving /\ worker'[v].socket = d
    <3>1. d # c /\ conn[d] = "active"
      BY <2>6, <2>8, Zenon
    <3>2. PICK v \in Worker : worker[v].at \in Serving /\ worker[v].socket = d
      BY <3>1, Zenon DEF IInv, ListsAgree
    <3> QED
      BY <2>2, <3>1, <3>2, Zenon
  <2>9. \A d \in Client : conn'[d] = "backlog" => listener # "closed"
    BY <2>6, Zenon DEF IInv, ListsAgree
  <2> QED
    BY <2>3, <2>4, <2>5, <2>7, <2>8, <2>9, Zenon DEF ListsAgree
<1>14. Bounded'
  <2>1. IsFiniteSet(active) /\ active' \subseteq active /\ Len(queue) \in Nat
    BY <1>6 DEF IInv, Types
  <2>2. Cardinality(active') <= Cardinality(active) /\ Cardinality(active) \in Nat
        /\ Cardinality(active') \in Nat
    BY <2>1, FS_Subset, FS_CardinalityType, Zenon
  <2> QED
    BY <1>1, <2>1, <2>2, ServiceAssumption DEF IInv, Bounded
<1>15. Phases'
  <2>1. caller[Main] \notin {"starting", "clearing", "returned", "exited"}
    BY <1>1, Zenon DEF IInv, Phases
  <2> QED
    BY <1>1, <2>1, Zenon DEF IInv, Phases
<1> QED
    BY <1>10, <1>11, <1>12, <1>13, <1>14, <1>15, Zenon DEF IInv

-----------------------------------------------------------------------------
(* The main thread *)

LEMMA Idle ==
    ASSUME IInv, acceptor.at \in {"unstarted", "accepting", "notifying", "done"}
    PROVE  acceptor.socket = NoSocket /\ \A c \in Client : conn[c] # "accepted"
    BY ServiceAssumption, Zenon DEF IInv, AcceptorHolds

LEMMA Quiet ==
    ASSUME IInv, queue = <<>>,
           \A w \in Worker : worker[w].at \notin Serving \cup {"dropping"}
    PROVE  \A c \in Client : conn[c] \notin {"queued", "active"}
<1> SUFFICES ASSUME NEW c \in Client PROVE conn[c] # "queued" /\ conn[c] # "active"
    BY Zenon
<1>1. \A w \in Worker : worker[w] # [at |-> "dropping", socket |-> c]
    OBVIOUS
<1>2. conn[c] # "queued"
    BY <1>1, EmptyFacts, Zenon DEF IInv, ListsAgree
<1>3. conn[c] # "active"
    BY Zenon DEF IInv, ListsAgree
<1> QED
    BY <1>2, <1>3, Zenon

LEMMA StartIInv == ASSUME IInv, Start PROVE IInv'
<1>1. /\ caller[Main] = "starting" /\ running' = TRUE /\ stopping' = FALSE /\ listener' = "open"
      /\ acceptor' = [at |-> "accepting", socket |-> NoSocket]
      /\ worker' = [w \in Worker |-> [at |-> "locking", socket |-> NoSocket]]
      /\ caller' = [caller EXCEPT ![Main] = "locking"]
      /\ UNCHANGED <<wake, conn, queue, active, applied, committed>>
    BY Zenon DEF Start, accepts, moves, requests
<1>2. /\ acceptor.at \in {"unstarted", "done"} /\ ~wake /\ queue = <<>>
      /\ \A w \in Worker : worker[w].at \notin Serving \cup {"dropping"}
    BY <1>1, Zenon DEF IInv, Phases, Serving
<1>3. \A c \in Client : conn[c] \notin {"accepted", "queued", "active"}
    BY <1>2, Idle, Quiet, Zenon
<1>4. caller'[Main] = "locking"
    BY <1>1, Zenon DEF IInv, Types
<1>5. Types'
    BY <1>1, Zenon DEF IInv, Types, AcceptorAt, WorkerAt, CallerAt
<1>6. AcceptorHolds'
    BY <1>1, <1>2, <1>3, ServiceAssumption, Zenon DEF AcceptorHolds, NoSocket, WakeSocket
<1>7. WorkersHold'
    BY <1>1, Zenon DEF WorkersHold, Serving
<1>8. ListsAgree' /\ Bounded'
    BY <1>1, <1>2, <1>3, EmptyFacts, Zenon DEF IInv, ListsAgree, Bounded
<1>9. Phases'
    BY <1>1, <1>4, Zenon DEF Phases, StopAt
<1> QED
    BY <1>5, <1>6, <1>7, <1>8, <1>9, Zenon DEF IInv

\* Steps of main that leave the threads and the connections alone.
LEMMA MainMovesIInv ==
    ASSUME IInv,
           wait_for_shutdown \/ StopExchange(Main) \/ StopJoinWorkers(Main)
             \/ Restart \/ CommitAndExit
    PROVE  IInv'
<1>1. /\ running' \in BOOLEAN /\ stopping' \in BOOLEAN /\ (stopping => stopping')
      /\ UNCHANGED <<listener, wake, conn, queue, active, acceptor, worker, applied>>
  <2>1. UNCHANGED <<listener, wake, conn, queue, active, acceptor, worker, applied>>
    BY Zenon DEF wait_for_shutdown, StopExchange, StopJoinWorkers, Restart, CommitAndExit, requests
  <2>2. \/ UNCHANGED <<running, stopping>>
        \/ stopping' = TRUE /\ running' \in {running, FALSE}
    BY Zenon DEF wait_for_shutdown, StopExchange, StopJoinWorkers, Restart, CommitAndExit, flags
  <2>3. running \in BOOLEAN /\ stopping \in BOOLEAN
    BY Zenon DEF IInv, Types
  <2> QED
    BY <2>1, <2>2, <2>3, Zenon
<1>2. PICK at \in CallerAt : caller' = [caller EXCEPT ![Main] = at]
    BY Zenon DEF wait_for_shutdown, StopExchange, StopJoinWorkers, Restart, CommitAndExit, moves,
       CallerAt, StopAt
<1>3. caller'[Main] = at
    BY <1>2, Zenon DEF IInv, Types
<1>4. Types'
  <2>1. {running, stopping, wake}' \subseteq BOOLEAN
    BY <1>1, Zenon DEF IInv, Types
  <2>2. caller' \in [Caller \cup {Main} -> CallerAt]
    BY <1>2, Zenon DEF IInv, Types
  <2> QED
    BY <1>1, <2>1, <2>2, Zenon DEF IInv, Types
<1>5. AcceptorHolds' /\ WorkersHold' /\ ListsAgree' /\ Bounded'
  <2>1. AcceptorHolds'
    BY <1>1, Zenon DEF IInv, AcceptorHolds
  <2>2. WorkersHold' /\ Bounded'
    BY <1>1, Zenon DEF IInv, WorkersHold, Bounded
  <2>3. ListsAgree'
    BY <1>1, Zenon DEF IInv, ListsAgree
  <2> QED
    BY <2>1, <2>2, <2>3, Zenon
<1>6. Phases'
  <2>1. CASE wait_for_shutdown
    BY <1>1, <2>1, Zenon DEF wait_for_shutdown, moves, flags, IInv, Types, Phases, StopAt
  <2>2. CASE StopExchange(Main)
    BY <1>1, <2>2, Zenon DEF StopExchange, moves, IInv, Types, Phases, StopAt
  <2>3. CASE StopJoinWorkers(Main)
    BY <1>1, <2>3 DEF StopJoinWorkers, moves, flags, IInv, Types, Phases, StopAt
  <2>4. CASE Restart
    BY <1>1, <2>4 DEF Restart, moves, flags, IInv, Types, Phases, StopAt
  <2>5. CASE CommitAndExit
    BY <1>1, <2>5 DEF CommitAndExit, moves, flags, IInv, Types, Phases, StopAt
  <2> QED
    BY <2>1, <2>2, <2>3, <2>4, <2>5, Zenon
<1> QED
    BY <1>4, <1>5, <1>6, Zenon DEF IInv

LEMMA StopWakesIInv == ASSUME IInv, StopNotify(Main) \/ StopRenotify(Main) PROVE IInv'
<1>1. UNCHANGED <<running, stopping, listener, wake, conn, queue, active, acceptor,
                  applied, committed>>
    BY Zenon DEF StopNotify, StopRenotify, flags, requests
<1>2. WakesSome
    BY WakeWorkersWakes, Zenon DEF StopNotify, StopRenotify
<1>3. /\ caller' \in [Caller \cup {Main} -> CallerAt]
      /\ \/ caller[Main] = "notifying" /\ caller'[Main] = "waking"
         \/ caller[Main] = "renotifying" /\ caller'[Main] = "joining_workers"
  <2>1. CASE StopNotify(Main)
    BY <2>1, Zenon DEF StopNotify, IInv, Types, CallerAt, StopAt
  <2>2. CASE StopRenotify(Main)
    BY <2>2, Zenon DEF StopRenotify, moves, IInv, Types, CallerAt, StopAt
  <2> QED
    BY <2>1, <2>2, Zenon
<1>4. Types'
    BY <1>1, <1>2, <1>3, WakingKeeps, Zenon DEF IInv, Types
<1>5. AcceptorHolds' /\ Bounded'
    BY <1>1, Zenon DEF IInv, AcceptorHolds, Bounded
<1>6. Phases'
    BY <1>1, <1>3, Zenon DEF IInv, Phases, StopAt
<1> QED
    BY <1>1, <1>2, <1>4, <1>5, <1>6, WakingKeeps, Zenon DEF IInv

LEMMA StopListenerIInv == ASSUME IInv, StopWake(Main) \/ StopJoinAcceptor(Main) PROVE IInv'
<1>1. UNCHANGED <<running, stopping, queue, active, acceptor, worker, applied, committed>>
    BY Zenon DEF StopWake, StopJoinAcceptor, flags, requests
<1>2. CASE StopWake(Main)
  <2>1. /\ caller[Main] = "waking" /\ caller' = [caller EXCEPT ![Main] = "joining_acceptor"]
        /\ wake' = TRUE /\ listener' = "shut" /\ conn' = conn
    BY <1>2, Zenon DEF StopWake, moves
  <2>2. stopping /\ caller'[Main] = "joining_acceptor"
    BY <2>1, Zenon DEF IInv, Types, Phases, StopAt
  <2>3. Types'
    BY <1>1, <2>1, Zenon DEF IInv, Types, CallerAt, StopAt
  <2>4. AcceptorHolds' /\ WorkersHold' /\ ListsAgree' /\ Bounded'
    <3>1. AcceptorHolds'
      BY <1>1, <2>1, <2>2, Zenon DEF IInv, AcceptorHolds
    <3>2. WorkersHold' /\ Bounded'
      BY <1>1, <2>1, Zenon DEF IInv, WorkersHold, Bounded
    <3>3. ListsAgree'
      BY <1>1, <2>1, Zenon DEF IInv, ListsAgree
    <3> QED
      BY <3>1, <3>2, <3>3, Zenon
  <2>5. Phases'
    BY <1>1, <2>2, Zenon DEF Phases, StopAt
  <2> QED
    BY <2>3, <2>4, <2>5, Zenon DEF IInv
<1>3. CASE StopJoinAcceptor(Main)
  <2>1. /\ caller[Main] = "joining_acceptor" /\ caller' = [caller EXCEPT ![Main] = "closing"]
        /\ acceptor.at = "done" /\ wake' = FALSE /\ listener' = "closed"
        /\ conn' = [c \in Client |-> IF conn[c] = "backlog" THEN "closed" ELSE conn[c]]
    BY <1>3, Zenon DEF StopJoinAcceptor, moves, Closed
  <2>2. stopping /\ caller'[Main] = "closing"
    BY <2>1, Zenon DEF IInv, Types, Phases, StopAt
  <2>3. \A c \in Client : IF conn[c] = "backlog" THEN conn'[c] = "closed" ELSE conn'[c] = conn[c]
    BY <2>1, Zenon
  <2>4. Types'
    BY <1>1, <2>1, Zenon DEF IInv, Types, CallerAt, StopAt, ConnAt
  <2>5. AcceptorHolds'
    BY <1>1, <2>1, <2>2, <2>3, Zenon DEF IInv, AcceptorHolds
  <2>6. WorkersHold'
    BY <1>1, <2>3, Zenon DEF IInv, WorkersHold
  <2>7. ListsAgree'
    <3>1. active \subseteq Client /\ Range(queue) \subseteq Client
      BY ListTypes, Zenon
    <3> QED
      BY <1>1, <2>3, <3>1, Zenon DEF IInv, ListsAgree
  <2>8. Bounded' /\ Phases'
    BY <1>1, <2>1, <2>2, Zenon DEF IInv, Bounded, Phases, StopAt
  <2> QED
    BY <2>4, <2>5, <2>6, <2>7, <2>8, Zenon DEF IInv
<1> QED
    BY <1>2, <1>3, Zenon

LEMMA StopConnectionsIInv == ASSUME IInv, StopClose(Main) \/ StopClear(Main) PROVE IInv'
<1>1. UNCHANGED <<running, stopping, listener, wake, acceptor, worker, applied, committed>>
    BY Zenon DEF StopClose, StopClear, flags, requests
<1>2. /\ caller[Main] \in {"closing", "clearing"} /\ acceptor.at = "done"
      /\ \A c \in Client : conn[c] # "accepted"
    BY Idle, Zenon DEF StopClose, StopClear, IInv, Phases
<1>3. active \subseteq Client /\ Range(queue) \subseteq Client /\ Len(queue) \in Nat
    BY ListTypes, Zenon
<1>4. CASE StopClose(Main)
  <2>1. /\ caller[Main] = "closing" /\ caller' = [caller EXCEPT ![Main] = "renotifying"]
        /\ conn' = Closed(active \cup Range(queue)) /\ queue' = <<>> /\ active' = active
    BY <1>4, Zenon DEF StopClose, moves
  <2>2. stopping /\ caller'[Main] = "renotifying"
    BY <2>1, Zenon DEF IInv, Types, Phases, StopAt
  <2>3. \A c \in Client : IF c \in active \cup Range(queue) THEN conn'[c] = "closed"
                           ELSE conn'[c] = conn[c]
    BY <2>1, Zenon DEF Closed
  <2>4. Types'
    BY <1>1, <2>1 DEF IInv, Types, CallerAt, StopAt, ConnAt, Closed
  <2>5. AcceptorHolds'
    BY <1>1, <1>2, <2>3, Idle, ServiceAssumption, Zenon DEF IInv, AcceptorHolds
  <2>6. WorkersHold'
    <3>1. \A c \in active : conn[c] # "queued"
      BY Zenon DEF IInv, ListsAgree
    <3> QED
      BY <1>1, <2>1, <2>3, <3>1, EmptyFacts, Zenon DEF IInv, WorkersHold
  <2>7. ListsAgree'
    BY <1>1, <1>3, <2>1, <2>3, EmptyFacts, Zenon DEF IInv, ListsAgree
  <2>8. Bounded'
    <3>1. Cardinality(active) \in Nat
      BY FS_CardinalityType, Zenon DEF IInv, Types
    <3> QED
      BY <1>3, <2>1, <3>1, EmptyFacts, ServiceAssumption DEF IInv, Bounded
  <2>9. Phases'
    BY <1>1, <2>1, <2>2, Zenon DEF IInv, Phases, StopAt
  <2> QED
    BY <2>4, <2>5, <2>6, <2>7, <2>8, <2>9, Zenon DEF IInv
<1>5. CASE StopClear(Main)
  <2>1. /\ caller[Main] = "clearing" /\ caller' = [caller EXCEPT ![Main] = "returned"]
        /\ conn' = Closed(active) /\ active' = {} /\ queue' = queue
    BY <1>5, Zenon DEF StopClear, moves
  <2>2. /\ stopping /\ caller'[Main] = "returned" /\ queue = <<>>
        /\ \A w \in Worker : worker[w].at = "done"
    BY <2>1, Zenon DEF IInv, Types, Phases, StopAt
  <2>3. \A c \in Client : conn[c] \notin {"queued", "active"}
    <3>1. \A w \in Worker : worker[w].at \notin Serving \cup {"dropping"}
      BY <2>2, Zenon DEF Serving
    <3> QED
      BY <2>2, <3>1, Quiet, Zenon
  <2>4. \A c \in Client : conn'[c] \in {"closed", conn[c]}
    BY <2>1, Zenon DEF Closed
  <2>5. Types'
    BY <1>1, <2>1, FS_EmptySet, Zenon DEF IInv, Types, CallerAt, ConnAt, Closed
  <2>6. AcceptorHolds'
    BY <1>1, <1>2, <2>4, Idle, ServiceAssumption, Zenon DEF IInv, AcceptorHolds
  <2>7. WorkersHold'
    BY <1>1, <2>2, Zenon DEF IInv, WorkersHold, Serving
  <2>8. ListsAgree'
    BY <1>1, <2>1, <2>2, <2>3, <2>4, EmptyFacts DEF IInv, ListsAgree
  <2>9. Bounded'
    BY <2>1, <2>2, EmptyFacts, FS_EmptySet, ServiceAssumption DEF Bounded
  <2>10. Phases'
    BY <1>1, <2>1, <2>2, Zenon DEF IInv, Phases, StopAt
  <2> QED
    BY <2>5, <2>6, <2>7, <2>8, <2>9, <2>10, Zenon DEF IInv
<1> QED
    BY <1>4, <1>5, Zenon

-----------------------------------------------------------------------------
(* The theorems *)

LEMMA NextIInv == ASSUME Caller = {}, IInv, [Next]_vars PROVE IInv'
<1>1. CASE UNCHANGED vars
    BY <1>1, ViewUnchanged, Zenon DEF vars, view, flags, requests
<1>2. CASE MainStep
    BY <1>2, StartIInv, MainMovesIInv, Zenon DEF MainStep
<1>3. CASE \E p \in Caller \cup {Main} : StopStep(p)
  <2>1. StopStep(Main)
    BY <1>3, Zenon
  <2> QED
    BY <2>1, MainMovesIInv, StopWakesIInv, StopListenerIInv, StopConnectionsIInv, Zenon DEF StopStep
<1>4. CASE Acceptor \/ AcceptFails
    BY <1>4, AcceptOneIInv, AcceptTestIInv, AcceptQueueIInv, AcceptNotifyIInv, AcceptRefuseIInv,
       Zenon
       DEF Acceptor
<1>5. CASE \E w \in Worker : WorkerStep(w) \/ WorkerSpurious(w)
    BY <1>5, TakeIInv, ServeIInv, IdleIInv, ReleaseIInv, Zenon DEF WorkerStep
<1>6. CASE \E c \in Client : ClientConnect(c) \/ ClientSend(c) \/ ClientClose(c)
    BY <1>6, ClientIInv, Zenon
<1> QED
    BY <1>1, <1>2, <1>3, <1>4, <1>5, <1>6, Zenon DEF Next

LEMMA SpecIInv == ASSUME Caller = {} PROVE Spec => []IInv
    BY InitIInv, NextIInv, PTL DEF Spec

\* The bound of try_accept and the exclusive ownership of a connection hold in
\* every interleaving of acceptor, workers and stop().
THEOREM ServiceConnectionsBounded == ASSUME Caller = {} PROVE Spec => []ConnectionsBounded
<1>1. IInv => ConnectionsBounded
  <2> SUFFICES ASSUME IInv PROVE ConnectionsBounded
    BY Zenon
  <2>1. Range(queue) \cap active = {}
    BY Zenon DEF IInv, ListsAgree
  <2> QED
    BY <2>1, Zenon DEF IInv, Bounded, WorkersHold, ConnectionsBounded
<1> QED
    BY <1>1, SpecIInv, PTL

\* stop() called by main alone is a barrier: it returns after the acceptor and
\* every worker has ended and every connection taken in has been closed.
THEOREM ServiceStopIsBarrier == ASSUME Caller = {} PROVE Spec => []StopIsBarrier
<1>1. IInv => StopIsBarrier
  <2> SUFFICES ASSUME IInv, caller[Main] \in {"returned", "exited"}
               PROVE  /\ acceptor.at = "done" /\ queue = <<>>
                      /\ \A w \in Worker : worker[w].at = "done"
                      /\ \A c \in Client : conn[c] \in {"away", "closed"}
    BY Zenon DEF StopIsBarrier
  <2>1. /\ acceptor.at = "done" /\ queue = <<>> /\ listener = "closed"
        /\ \A w \in Worker : worker[w].at = "done"
    BY Zenon DEF IInv, Phases
  <2>2. ASSUME NEW c \in Client PROVE conn[c] \in {"away", "closed"}
    <3>1. \A w \in Worker : worker[w].at \notin Serving \cup {"dropping"}
      BY <2>1, Zenon DEF Serving
    <3>2. conn[c] # "accepted" /\ conn[c] \notin {"queued", "active"}
      BY <2>1, <3>1, Idle, Quiet, Zenon
    <3>3. conn[c] # "backlog"
      BY <2>1, Zenon DEF IInv, ListsAgree
    <3> QED
      BY <3>2, <3>3, Zenon DEF IInv, Types, ConnAt
  <2> QED
    BY <2>1, <2>2, Zenon
<1> QED
    BY <1>1, SpecIInv, PTL

\* No worker applies a request once stop() has returned, so what main commits
\* on exit holds every call that was answered.
THEOREM ServiceAnsweredIsCommitted == ASSUME Caller = {} PROVE Spec => []AnsweredIsCommitted
<1>1. IInv => AnsweredIsCommitted
    BY Zenon DEF IInv, Phases, AnsweredIsCommitted
<1> QED
    BY <1>1, SpecIInv, PTL
=============================================================================
