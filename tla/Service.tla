------------------------------- MODULE Service -------------------------------
(***************************************************************************)
(* The service surface of src/src/service.cpp and the life of the process  *)
(* that runs it (tools/ocreg_service.cpp): an acceptor thread, a bounded   *)
(* pool of workers, the connection queue they share, the condition         *)
(* variables they sleep on, and stop(), which has to end all of them.      *)
(*                                                                         *)
(* One action is one step between two points where another thread can      *)
(* interfere: a critical section of Impl::mutex is one step, a notify, a   *)
(* socket call and a test of an atomic flag are steps of their own.  A     *)
(* request is what the properties tell apart: it changes the registry, asks*)
(* for shutdown, or is refused before dispatch.  The registry call itself  *)
(* is atomic (one lock per entry point) and is modelled in Registry.       *)
(***************************************************************************)
EXTENDS Integers, FiniteSets, Sequences, Functions

CONSTANTS
    Client,                   \* a client makes one connection per start
    Worker,                   \* options.max_workers threads
    Caller,                   \* threads other than main that call stop()
    max_connections,
    max_requests_per_connection,   \* 0 is no bound
    MaxRequests,              \* requests a client sends on its connection
    MaxStarts                 \* times main starts the service

Main == "main"

NoSocket == "none"
WakeSocket == "wake"

ASSUME ServiceAssumption ==
    /\ Main \notin Caller /\ NoSocket \notin Client /\ WakeSocket \notin Client
    /\ max_connections \in Nat \ {0}
    /\ max_requests_per_connection \in Nat

VARIABLES
    running, stopping, shutdown_flag,   \* the three atomics
    listener,       \* "open", "shut" or "closed"
    wake,           \* stop()'s connection to itself waits to be accepted
    conn,           \* where each client's connection is: "away", "backlog",
                    \* "accepted", "queued", "active" or "closed"
    queue, active,  \* guarded by the mutex
    acceptor,       \* [at, socket]
    worker,         \* [Worker -> [at, socket]]
    caller,         \* [Caller \cup {Main} -> position]
    inbox,          \* the request a client has sent and no worker has read
    sent,           \* requests each client has sent
    gone,           \* clients that closed their end
    applied,        \* <<client, n>> whose registry call was made
    replied,        \* <<client, n>> whose response was sent
    committed,      \* what the final snapshot of the process holds
    starts

flags == <<running, stopping, shutdown_flag>>
clients == <<inbox, sent, gone>>
requests == <<applied, replied, committed>>
vars == <<flags, listener, wake, conn, queue, active, acceptor, worker,
          caller, clients, requests, starts>>

Kinds == {"call", "shutdown", "malformed", "oversized"}
Request == Client \X (1..MaxRequests)

StopAt == {"notifying", "waking", "joining_acceptor", "closing",
           "renotifying", "joining_workers", "clearing"}

Init ==
    /\ running = FALSE /\ stopping = FALSE /\ shutdown_flag = FALSE
    /\ listener = "closed" /\ wake = FALSE
    /\ conn = [c \in Client |-> "away"]
    /\ queue = <<>> /\ active = {}
    /\ acceptor = [at |-> "unstarted", socket |-> NoSocket]
    /\ worker = [w \in Worker |-> [at |-> "unstarted", socket |-> NoSocket]]
    /\ caller = [p \in Caller \cup {Main} |->
                    IF p = Main THEN "starting" ELSE "calling"]
    /\ inbox = [c \in Client |-> "none"] /\ sent = [c \in Client |-> 0]
    /\ gone = {}
    /\ applied = {} /\ replied = {} /\ committed = {}
    /\ starts = 0

-----------------------------------------------------------------------------
(* Clients (external): they connect, send one request at a time, and close *)
(* or fall silent whenever they like.                                      *)

ClientConnect(c) ==
    /\ listener = "open" /\ conn[c] = "away"
    /\ conn' = [conn EXCEPT ![c] = "backlog"]
    /\ UNCHANGED <<flags, listener, wake, queue, active, acceptor, worker,
                   caller, clients, requests, starts>>

ClientSend(c) ==
    /\ conn[c] \notin {"away", "closed"} /\ c \notin gone
    /\ sent[c] < MaxRequests
    /\ sent[c] = 0 \/ <<c, sent[c]>> \in replied
    /\ \E kind \in Kinds : inbox' = [inbox EXCEPT ![c] = kind]
    /\ sent' = [sent EXCEPT ![c] = @ + 1]
    /\ UNCHANGED <<flags, listener, wake, conn, queue, active, acceptor,
                   worker, caller, gone, requests, starts>>

ClientClose(c) ==
    /\ conn[c] \notin {"away", "closed"} /\ c \notin gone
    /\ gone' = gone \cup {c}
    /\ UNCHANGED <<flags, listener, wake, conn, queue, active, acceptor,
                   worker, caller, inbox, sent, requests, starts>>

-----------------------------------------------------------------------------
(* accept_loop *)

accepts(socket, at) == acceptor' = [at |-> at, socket |-> socket]

\* accept() returns a client's connection or stop()'s own.
AcceptOne ==
    /\ acceptor.at = "accepting"
    /\ \/ \E c \in Client :
             /\ conn[c] = "backlog"
             /\ conn' = [conn EXCEPT ![c] = "accepted"]
             /\ accepts(c, "testing")
             /\ UNCHANGED wake
       \/ /\ wake /\ wake' = FALSE
          /\ accepts(WakeSocket, "testing")
          /\ UNCHANGED conn
    /\ UNCHANGED <<flags, listener, queue, active, worker, caller, clients,
                   requests, starts>>

\* accept() fails; nothing obliges it to.
AcceptFails ==
    /\ acceptor.at = "accepting"
    /\ stopping
    /\ accepts(NoSocket, "done")
    /\ UNCHANGED <<flags, listener, wake, conn, queue, active, worker, caller,
                   clients, requests, starts>>

AcceptTest ==
    /\ acceptor.at = "testing"
    /\ IF stopping
       THEN /\ accepts(NoSocket, "done")
            /\ conn' = [c \in Client |->
                          IF c = acceptor.socket THEN "closed" ELSE conn[c]]
       ELSE accepts(acceptor.socket, "queueing") /\ UNCHANGED conn
    /\ UNCHANGED <<flags, listener, wake, queue, active, worker, caller,
                   clients, requests, starts>>

\* Mutant: the bound looks at the queue alone.
HasRoomInQueue == Len(queue) < max_connections

HasRoom == Cardinality(active) + Len(queue) < max_connections

AcceptQueue ==
    /\ acceptor.at = "queueing"
    /\ LET c == acceptor.socket IN
       IF HasRoom
       THEN /\ queue' = Append(queue, c)
            /\ conn' = [conn EXCEPT ![c] = "queued"]
            /\ accepts(NoSocket, "notifying")
       ELSE accepts(c, "refusing") /\ UNCHANGED <<queue, conn>>
    /\ UNCHANGED <<flags, listener, wake, active, worker, caller, clients,
                   requests, starts>>

Woken(w) == [worker EXCEPT ![w].at = "locking"]
Sleeping == {w \in Worker : worker[w].at = "waiting"}

\* Mutant: the acceptor goes on without notifying.
AcceptSilently ==
    /\ acceptor.at = "notifying"
    /\ accepts(NoSocket, "accepting")
    /\ UNCHANGED <<flags, listener, wake, conn, queue, active, worker, caller,
                   clients, requests, starts>>

\* queue_ready.notify_one(): one sleeper wakes, if there is one.
AcceptNotify ==
    /\ acceptor.at = "notifying"
    /\ IF Sleeping = {}
       THEN UNCHANGED worker
       ELSE \E w \in Sleeping : worker' = Woken(w)
    /\ accepts(NoSocket, "accepting")
    /\ UNCHANGED <<flags, listener, wake, conn, queue, active, caller,
                   clients, requests, starts>>

AcceptRefuse ==
    /\ acceptor.at = "refusing"
    /\ conn' = [conn EXCEPT ![acceptor.socket] = "closed"]
    /\ accepts(NoSocket, "accepting")
    /\ UNCHANGED <<flags, listener, wake, queue, active, worker, caller,
                   clients, requests, starts>>

Acceptor ==
    AcceptOne \/ AcceptTest \/ AcceptQueue \/ AcceptNotify \/ AcceptRefuse

-----------------------------------------------------------------------------
(* worker_loop and serve_connection *)

goes(w, at) == worker' = [worker EXCEPT ![w].at = at]
rests(w, at) == worker' = [worker EXCEPT ![w] = [at |-> at, socket |-> NoSocket]]
Closed(S) == [c \in Client |-> IF c \in S THEN "closed" ELSE conn[c]]

\* The critical section at the head of the loop: sleep, leave, or take the
\* oldest connection; one taken after stop() began is closed, not served.
WorkerTake(w) ==
    /\ worker[w].at = "locking"
    /\ IF queue = <<>>
       THEN /\ rests(w, IF stopping THEN "done" ELSE "waiting")
            /\ UNCHANGED <<queue, active, conn>>
       ELSE LET c == Head(queue) IN
            /\ queue' = Tail(queue)
            /\ worker' = [worker EXCEPT ![w] =
                 [at |-> IF stopping THEN "dropping" ELSE "serving",
                  socket |-> c]]
            /\ active' = IF stopping THEN active ELSE active \cup {c}
            /\ conn' = IF stopping THEN conn ELSE [conn EXCEPT ![c] = "active"]
    /\ UNCHANGED <<flags, listener, wake, acceptor, caller, clients, requests,
                   starts>>

WorkerDrop(w) ==
    /\ worker[w].at = "dropping"
    /\ conn' = Closed({worker[w].socket})
    /\ rests(w, "done")
    /\ UNCHANGED <<flags, listener, wake, queue, active, acceptor, caller,
                   clients, requests, starts>>

\* A condition variable may wake a sleeper on its own.
WorkerSpurious(w) ==
    /\ worker[w].at = "waiting"
    /\ goes(w, "locking")
    /\ UNCHANGED <<flags, listener, wake, conn, queue, active, acceptor,
                   caller, clients, requests, starts>>

WorkerServe(w) ==
    /\ worker[w].at = "serving"
    /\ goes(w, IF stopping THEN "closing" ELSE "reading")
    /\ UNCHANGED <<flags, listener, wake, conn, queue, active, acceptor,
                   caller, clients, requests, starts>>

\* recv_exact returns: a request arrived, the client closed its end, or the
\* connection was closed under the reader.
WorkerRead(w) ==
    LET c == worker[w].socket IN
    /\ worker[w].at = "reading"
    /\ \/ /\ conn[c] = "closed" \/ (c \in gone /\ inbox[c] = "none")
          /\ goes(w, "closing") /\ UNCHANGED inbox
       \/ /\ conn[c] # "closed" /\ inbox[c] # "none"
          /\ inbox' = [inbox EXCEPT ![c] = "none"]
          /\ goes(w, CASE inbox[c] = "malformed" -> "rejecting"
                       [] inbox[c] = "oversized" -> "closing"
                       [] inbox[c] = "shutdown" -> "announcing"
                       [] OTHER -> "dispatching")
    /\ UNCHANGED <<flags, listener, wake, conn, queue, active, acceptor,
                   caller, sent, gone, requests, starts>>

\* dispatch of a registry call.
WorkerDispatch(w) ==
    LET c == worker[w].socket IN
    /\ worker[w].at = "dispatching"
    /\ applied' = applied \cup {<<c, sent[c]>>}
    /\ goes(w, "replying")
    /\ UNCHANGED <<flags, listener, wake, conn, queue, active, acceptor,
                   caller, clients, replied, committed, starts>>

\* dispatch of Shutdown: the flag is set under the mutex, then main is
\* notified.  Main's predicate is read under the same mutex, so the two are
\* one step for it.
WorkerShutdown(w) ==
    /\ worker[w].at = "announcing"
    /\ shutdown_flag' = TRUE
    /\ caller' = [caller EXCEPT ![Main] = IF @ = "waiting" THEN "locking" ELSE @]
    /\ goes(w, "replying")
    /\ UNCHANGED <<running, stopping, listener, wake, conn, queue, active,
                   acceptor, clients, requests, starts>>

Served(c) == Cardinality({r \in replied : r[1] = c}) + 1

\* send_all succeeds on a connection neither side has closed.
WorkerReply(w) ==
    LET c == worker[w].socket IN
    /\ worker[w].at = "replying"
    /\ IF conn[c] = "closed"
       THEN goes(w, "closing") /\ UNCHANGED replied
       ELSE \/ /\ replied' = replied \cup {<<c, sent[c]>>}
               /\ goes(w, IF /\ max_requests_per_connection # 0
                             /\ Served(c) >= max_requests_per_connection
                          THEN "closing" ELSE "serving")
            \/ /\ c \in gone
               /\ goes(w, "closing") /\ UNCHANGED replied
    /\ UNCHANGED <<flags, listener, wake, conn, queue, active, acceptor,
                   caller, clients, applied, committed, starts>>

\* A header or a digest that does not verify is answered, then the connection
\* ends.
WorkerReject(w) ==
    LET c == worker[w].socket IN
    /\ worker[w].at = "rejecting"
    /\ replied' = IF conn[c] = "closed" THEN replied
                  ELSE replied \cup {<<c, sent[c]>>}
    /\ goes(w, "closing")
    /\ UNCHANGED <<flags, listener, wake, conn, queue, active, acceptor,
                   caller, clients, applied, committed, starts>>

WorkerClose(w) ==
    /\ worker[w].at = "closing"
    /\ conn' = Closed({worker[w].socket})
    /\ goes(w, "leaving")
    /\ UNCHANGED <<flags, listener, wake, queue, active, acceptor, caller,
                   clients, requests, starts>>

WorkerLeave(w) ==
    /\ worker[w].at = "leaving"
    /\ active' = active \ {worker[w].socket}
    /\ rests(w, "deciding")
    /\ UNCHANGED <<flags, listener, wake, conn, queue, acceptor, caller,
                   clients, requests, starts>>

\* queue.empty() is read here without the mutex while another thread may be
\* changing the queue: either answer is possible.
WorkerDecide(w) ==
    /\ worker[w].at = "deciding"
    /\ \/ goes(w, "locking")
       \/ stopping /\ goes(w, "done")
    /\ UNCHANGED <<flags, listener, wake, conn, queue, active, acceptor,
                   caller, clients, requests, starts>>

WorkerStep(w) ==
    \/ WorkerTake(w) \/ WorkerDrop(w) \/ WorkerServe(w) \/ WorkerRead(w)
    \/ WorkerDispatch(w) \/ WorkerShutdown(w) \/ WorkerReply(w)
    \/ WorkerReject(w) \/ WorkerClose(w) \/ WorkerLeave(w) \/ WorkerDecide(w)

-----------------------------------------------------------------------------
(* start, wait_for_shutdown, stop, and the main thread around them *)

moves(p, at) == caller' = [caller EXCEPT ![p] = at]

Start ==
    /\ caller[Main] = "starting" /\ ~running
    /\ starts < MaxStarts /\ starts' = starts + 1
    /\ running' = TRUE /\ stopping' = FALSE /\ shutdown_flag' = FALSE
    /\ listener' = "open"
    /\ accepts(NoSocket, "accepting")
    /\ worker' = [w \in Worker |-> [at |-> "locking", socket |-> NoSocket]]
    /\ moves(Main, "locking")
    /\ UNCHANGED <<wake, conn, queue, active, clients, requests>>

\* Mutant: the predicate is not tested before the first sleep.
SleepAtOnce ==
    /\ caller[Main] = "locking"
    /\ moves(Main, "waiting")
    /\ UNCHANGED <<flags, listener, wake, conn, queue, active, acceptor,
                   worker, clients, requests, starts>>

\* Mutant: stop() is not called once the wait is over.
ExitAtOnce ==
    /\ caller[Main] = "locking"
    /\ moves(Main, IF shutdown_flag \/ stopping THEN "returned" ELSE "waiting")
    /\ UNCHANGED <<flags, listener, wake, conn, queue, active, acceptor,
                   worker, clients, requests, starts>>

wait_for_shutdown ==
    /\ caller[Main] = "locking"
    /\ moves(Main, IF shutdown_flag \/ stopping THEN "calling" ELSE "waiting")
    /\ UNCHANGED <<flags, listener, wake, conn, queue, active, acceptor,
                   worker, clients, requests, starts>>

\* The flag is exchanged under the mutex; a caller that finds it set returns.
StopExchange(p) ==
    /\ caller[p] = "calling" /\ starts > 0
    /\ stopping' = TRUE
    /\ IF stopping
       THEN moves(p, "returned") /\ UNCHANGED running
       ELSE moves(p, "notifying") /\ running' = FALSE
    /\ UNCHANGED <<shutdown_flag, listener, wake, conn, queue, active,
                   acceptor, worker, clients, requests, starts>>

WakeWorkers ==
    worker' = [w \in Worker |-> IF w \in Sleeping
                                THEN [worker[w] EXCEPT !.at = "locking"]
                                ELSE worker[w]]

StopNotify(p) ==
    /\ caller[p] = "notifying"
    /\ caller' = [q \in DOMAIN caller |->
                    CASE q = p -> "waking"
                      [] q = Main /\ caller[q] = "waiting" -> "locking"
                      [] OTHER -> caller[q]]
    /\ WakeWorkers
    /\ UNCHANGED <<flags, listener, wake, conn, queue, active, acceptor,
                   clients, requests, starts>>

\* The service connects to itself so that a blocked accept() returns; the
\* code does not count on shutdown() of the listener to do that.
StopWake(p) ==
    /\ caller[p] = "waking"
    /\ wake' = TRUE
    /\ listener' = "shut"
    /\ moves(p, "joining_acceptor")
    /\ UNCHANGED <<flags, conn, queue, active, acceptor, worker, clients,
                   requests, starts>>

\* Joining, then closing the listener resets what was never accepted.
StopJoinAcceptor(p) ==
    /\ caller[p] = "joining_acceptor" /\ acceptor.at = "done"
    /\ listener' = "closed" /\ wake' = FALSE
    /\ conn' = Closed({c \in Client : conn[c] = "backlog"})
    /\ moves(p, "closing")
    /\ UNCHANGED <<flags, queue, active, acceptor, worker, clients, requests,
                   starts>>

\* Mutant: the connections being served are left to their workers.
CloseQueued(p) ==
    /\ caller[p] = "closing"
    /\ conn' = Closed(Range(queue))
    /\ queue' = <<>>
    /\ moves(p, "renotifying")
    /\ UNCHANGED <<flags, listener, wake, active, acceptor, worker, clients,
                   requests, starts>>

StopClose(p) ==
    /\ caller[p] = "closing"
    /\ conn' = Closed(active \cup Range(queue))
    /\ queue' = <<>>
    /\ moves(p, "renotifying")
    /\ UNCHANGED <<flags, listener, wake, active, acceptor, worker, clients,
                   requests, starts>>

StopRenotify(p) ==
    /\ caller[p] = "renotifying"
    /\ WakeWorkers
    /\ moves(p, "joining_workers")
    /\ UNCHANGED <<flags, listener, wake, conn, queue, active, acceptor,
                   clients, requests, starts>>

\* Mutant: the workers are not waited for.
DetachWorkers(p) ==
    /\ caller[p] = "joining_workers"
    /\ moves(p, "clearing")
    /\ UNCHANGED <<flags, listener, wake, conn, queue, active, acceptor,
                   worker, clients, requests, starts>>

StopJoinWorkers(p) ==
    /\ caller[p] = "joining_workers"
    /\ \A w \in Worker : worker[w].at = "done"
    /\ moves(p, "clearing")
    /\ UNCHANGED <<flags, listener, wake, conn, queue, active, acceptor,
                   worker, clients, requests, starts>>

StopClear(p) ==
    /\ caller[p] = "clearing"
    /\ conn' = Closed(active)
    /\ active' = {}
    /\ moves(p, "returned")
    /\ UNCHANGED <<flags, listener, wake, queue, acceptor, worker, clients,
                   requests, starts>>

\* After stop() main starts the service again or commits a snapshot and exits.
Restart ==
    /\ caller[Main] = "returned" /\ starts < MaxStarts
    /\ moves(Main, "starting")
    /\ UNCHANGED <<flags, listener, wake, conn, queue, active, acceptor,
                   worker, clients, requests, starts>>

CommitAndExit ==
    /\ caller[Main] = "returned"
    /\ committed' = applied
    /\ moves(Main, "exited")
    /\ UNCHANGED <<flags, listener, wake, conn, queue, active, acceptor,
                   worker, clients, applied, replied, starts>>

StopStep(p) ==
    \/ StopNotify(p) \/ StopWake(p) \/ StopJoinAcceptor(p) \/ StopClose(p)
    \/ StopRenotify(p) \/ StopJoinWorkers(p) \/ StopClear(p)

MainStep ==
    Start \/ wait_for_shutdown \/ StopExchange(Main) \/ Restart \/ CommitAndExit

Next ==
    \/ MainStep
    \/ \E p \in Caller : StopExchange(p)
    \/ \E p \in Caller \cup {Main} : StopStep(p)
    \/ Acceptor \/ AcceptFails
    \/ \E w \in Worker : WorkerStep(w) \/ WorkerSpurious(w)
    \/ \E c \in Client : ClientConnect(c) \/ ClientSend(c) \/ ClientClose(c)

Spec == Init /\ [][Next]_vars

\* Every thread that can take a step of its own takes it in the end.  Nothing
\* is assumed of the clients: a worker blocked in a read can step only once
\* there is something to read or the connection has been closed.
Fairness ==
    /\ WF_vars(Acceptor)
    /\ \A w \in Worker : WF_vars(WorkerStep(w))
    /\ WF_vars(MainStep)
    /\ \A p \in Caller \cup {Main} : WF_vars(StopStep(p))

FairSpec == Spec /\ Fairness

-----------------------------------------------------------------------------
(* Properties *)

\* Connections queued and being served never exceed options.max_connections,
\* whichever thread is between accepting, taking and releasing one, and none
\* is both queued and served or served by two workers.
ConnectionsBounded ==
    /\ Cardinality(active) + Len(queue) <= max_connections
    /\ Range(queue) \cap active = {} /\ IsInjective(queue)
    /\ \A v, w \in Worker : worker[v].socket = worker[w].socket /\ v # w
                              => worker[v].socket = NoSocket

\* stop() is a barrier: when a call of it has returned, the acceptor and every
\* worker have ended and no accepted connection is left open.
StopIsBarrier ==
    \A p \in Caller \cup {Main} : caller[p] \in {"returned", "exited"} =>
        /\ acceptor.at = "done"
        /\ \A w \in Worker : worker[w].at = "done"
        /\ \A c \in Client : conn[c] \in {"away", "closed"}
        /\ queue = <<>>

\* What the service answered is in the snapshot the process commits on exit.
AnsweredIsCommitted ==
    caller[Main] = "exited" => replied \cap applied \subseteq committed

\* A stop() that has begun returns, whatever the clients do.
StopReturns ==
    \A p \in Caller \cup {Main} : caller[p] \in StopAt ~> caller[p] = "returned"

\* A served Shutdown request ends the process's wait: no order of setting the
\* flag, testing it and sleeping loses the notification.
ShutdownIsNoticed ==
    shutdown_flag ~> caller[Main] \notin {"locking", "waiting"}

\* No connection waits in the queue while a worker sleeps for good.
QueueWakesWorkers ==
    \A w \in Worker :
        queue # <<>> /\ worker[w].at = "waiting"
            ~> queue = <<>> \/ worker[w].at # "waiting"
=============================================================================
