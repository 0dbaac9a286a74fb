----------------------------- MODULE TCPServer -----------------------------
(***************************************************************************)
(* The threaded request server of autogentoo/network/tcp_server.c.         *)
(*                                                                         *)
(* One acceptor thread (TCPServer_run) turns connections into queued       *)
(* requests; worker threads (TCPServer_worker_run) take requests off the   *)
(* queue, run the Python callback under the interpreter lock and answer;   *)
(* a Python thread, Main, calls start, set_request_callback and stop and   *)
(* finally drops the object (TCPServer_dealloc).  Each Python method runs  *)
(* with the GIL held from its first to its last statement.                 *)
(*                                                                         *)
(* A frame is abstracted to the fact that it was sent or answered.  The    *)
(* listening socket, the clients' sockets, the GIL and pthreads are        *)
(* modelled from how tcp_server.c and tcp_client.c use them.               *)
(***************************************************************************)
EXTENDS Naturals, Sequences, FiniteSets

CONSTANTS
    Workers,    \* the worker threads, TCP_WORKER_COUNT of them
    Acceptor,   \* the thread that runs TCPServer_run
    Main,       \* the Python thread that owns the server object
    Nobody,     \* the holder of a lock that is free
    Conns,      \* the connections clients may make
    NoConn,     \* no connection
    MaxStarts   \* bound: how often start() is called

Threads == Workers \cup {Acceptor, Main}

ASSUME ThreadsDistinct ==
    /\ Acceptor \notin Workers
    /\ Main \notin Workers \cup {Acceptor}
    /\ Nobody \notin Threads
    /\ NoConn \notin Conns
    /\ MaxStarts \in Nat

ASSUME WorkersFinite == IsFiniteSet(Workers)

VARIABLES
    pc,         \* where each thread is
    lock,       \* holder of TCPServer.lock
    gil,        \* holder of the Python interpreter lock
    keepAlive,  \* TCPServer.keep_alive
    isAlive,    \* TCPServer.is_alive
    callback,   \* TRUE when TCPServer.callback is not None
    queue,      \* TCPServer.request_queue
    req,        \* the request each worker has popped
    accepted,   \* the acceptor's client_sock
    reply,      \* what each worker decided to send (send_reply)
    listener,   \* state of the listening socket
    sock,       \* server side of each connection
    client,     \* client side of each connection
    sent,       \* what has been written to each client
    serving,    \* Main has called start and stop has not returned
    dropping,   \* stop was called by TCPServer_dealloc
    starts      \* calls of start so far

locks == <<lock, gil>>
flags == <<keepAlive, isAlive, callback>>
requests == <<queue, req, accepted, reply>>
network == <<listener, sock, client, sent>>
caller == <<serving, dropping, starts>>
vars == <<pc, locks, flags, requests, network, caller>>

WorkerLabels ==
    {"off", "check", "lock", "peek", "wait", "relock", "woken", "read",
     "ensure", "dispatch", "calling", "regain", "release", "write", "close"}
AcceptorLabels ==
    {"off", "begin", "check", "accept", "lock", "add", "notify", "cleanup"}
MainLabels ==
    {"idle", "openSocket", "startRun", "stopLock", "stopFlag", "stopNotify",
     "joinWorkers", "closeSocket", "joinRun", "freed"}
Answers == {"none", "reply", "zeroes"}

\* TCPServer_new and TCPServer_init: no thread, no socket, no callback.
Init ==
    /\ pc = [t \in Threads |-> IF t = Main THEN "idle" ELSE "off"]
    /\ lock = Nobody /\ gil = Nobody
    /\ keepAlive = FALSE /\ isAlive = FALSE /\ callback = FALSE
    /\ queue = <<>> /\ accepted = NoConn
    /\ req = [w \in Workers |-> NoConn] /\ reply = [w \in Workers |-> "none"]
    /\ listener = "none"
    /\ sock = [c \in Conns |-> "none"]
    /\ client = [c \in Conns |-> "idle"]
    /\ sent = [c \in Conns |-> "none"]
    /\ serving = FALSE /\ dropping = FALSE /\ starts = 0

----------------------------------------------------------------------------
(* pthread and interpreter primitives: one step of thread t *)

Step(t, from, to) == pc[t] = from /\ pc' = [pc EXCEPT ![t] = to]

LockMutex(t, from, to) ==
    /\ Step(t, from, to)
    /\ lock = Nobody /\ lock' = t
    /\ UNCHANGED <<gil, flags, requests, network, caller>>

TakeGil(t) == gil = Nobody /\ gil' = t

\* pthread_cond_broadcast: every thread in pthread_cond_wait must now take
\* the mutex again.
Broadcast(t, from, to) ==
    /\ pc[t] = from
    /\ pc' = [u \in Threads |-> IF u = t THEN to
                                ELSE IF pc[u] = "wait" THEN "relock" ELSE pc[u]]
    /\ UNCHANGED <<locks, flags, requests, network, caller>>

----------------------------------------------------------------------------
(* Mutants: bugs a change of the code could introduce.  They take the place *)
(* of the action they are named after to show that a property notices them. *)

\* queue_peek in place of queue_pop
WorkerPopKeeps(w) ==
    /\ queue # <<>>
    /\ Step(w, "peek", "read")
    /\ req' = [req EXCEPT ![w] = Head(queue)]
    /\ lock' = Nobody
    /\ UNCHANGED <<gil, flags, queue, accepted, reply, network, caller>>

\* the mutex is released after the request was served
WorkerPopLocked(w) ==
    /\ queue # <<>>
    /\ Step(w, "peek", "read")
    /\ req' = [req EXCEPT ![w] = Head(queue)]
    /\ queue' = Tail(queue)
    /\ UNCHANGED <<locks, flags, accepted, reply, network, caller>>

\* the newest request first
WorkerPopLast(w) ==
    /\ queue # <<>>
    /\ Step(w, "peek", "read")
    /\ req' = [req EXCEPT ![w] = queue[Len(queue)]]
    /\ queue' = SubSeq(queue, 1, Len(queue) - 1)
    /\ lock' = Nobody
    /\ UNCHANGED <<gil, flags, accepted, reply, network, caller>>

\* a callback that raised ends the request at once
WorkerReleaseSkips(w) ==
    /\ Step(w, "release", IF reply[w] = "zeroes" THEN "check" ELSE "write")
    /\ gil' = Nobody
    /\ UNCHANGED <<lock, flags, requests, network, caller>>

\* nothing is written when the callback raised
WorkerWriteNoZeroes(w) ==
    /\ Step(w, "write", "close")
    /\ sent' = IF reply[w] = "reply" THEN [sent EXCEPT ![req[w]] = "reply"] ELSE sent
    /\ UNCHANGED <<locks, flags, requests, listener, sock, client, caller>>

\* client_sock < 0 is queued
AcceptFailsQueues ==
    /\ Step(Acceptor, "accept", "lock")
    /\ UNCHANGED <<locks, flags, requests, network, caller>>

\* no broadcast
AcceptorNotifySilent ==
    /\ Step(Acceptor, "notify", "check")
    /\ UNCHANGED <<locks, flags, requests, network, caller>>

\* TCPServer_dealloc does not call stop
DropCallForgets ==
    /\ Step(Main, "idle", "freed")
    /\ TakeGil(Main)
    /\ dropping' = TRUE
    /\ UNCHANGED <<lock, flags, requests, network, serving, starts>>

\* neither shutdown nor close
CloseSocketForgets ==
    /\ Step(Main, "closeSocket", "joinRun")
    /\ UNCHANGED <<locks, flags, requests, network, caller>>

\* the acceptor is not joined
JoinRunForgets ==
    /\ Step(Main, "joinRun", IF dropping THEN "freed" ELSE "idle")
    /\ gil' = Nobody
    /\ serving' = FALSE
    /\ UNCHANGED <<lock, flags, requests, network, dropping, starts>>

----------------------------------------------------------------------------
(* A worker thread: TCPServer_worker_run *)

\* while (self->keep_alive), read without the lock
WorkerCheck(w) ==
    /\ Step(w, "check", IF keepAlive THEN "lock" ELSE "off")
    /\ UNCHANGED <<locks, flags, requests, network, caller>>

WorkerLock(w) == LockMutex(w, "lock", "peek")

\* The queue is empty: pthread_cond_wait releases the mutex and blocks.
WorkerWait(w) ==
    /\ queue = <<>>
    /\ Step(w, "peek", "wait")
    /\ lock' = Nobody
    /\ UNCHANGED <<gil, flags, requests, network, caller>>

\* POSIX lets pthread_cond_wait return without a broadcast.
SpuriousWake(w) ==
    /\ Step(w, "wait", "relock")
    /\ UNCHANGED <<locks, flags, requests, network, caller>>

\* pthread_cond_wait takes the mutex again before it returns.
WorkerRelock(w) == LockMutex(w, "relock", "woken")

\* unlock and continue: the queue is looked at again only after keep_alive
WorkerWoken(w) ==
    /\ Step(w, "woken", "check")
    /\ lock' = Nobody
    /\ UNCHANGED <<gil, flags, requests, network, caller>>

WorkerPop(w) ==
    /\ queue # <<>>
    /\ Step(w, "peek", "read")
    /\ req' = [req EXCEPT ![w] = Head(queue)]
    /\ queue' = Tail(queue)
    /\ lock' = Nobody
    /\ UNCHANGED <<gil, flags, accepted, reply, network, caller>>

\* read() blocks until the client has sent its frame or is gone.
WorkerRead(w) ==
    /\ Step(w, "read", "ensure")
    /\ client[req[w]] \notin {"idle", "connected"}
    /\ UNCHANGED <<locks, flags, requests, network, caller>>

\* PyGILState_Ensure
WorkerEnsure(w) ==
    /\ Step(w, "ensure", "dispatch")
    /\ TakeGil(w)
    /\ UNCHANGED <<lock, flags, requests, network, caller>>

\* if (self->callback == Py_None) raise, else PyObject_Call
WorkerDispatch(w) ==
    /\ Step(w, "dispatch", IF callback THEN "calling" ELSE "release")
    /\ reply' = IF callback THEN reply ELSE [reply EXCEPT ![w] = "zeroes"]
    /\ UNCHANGED <<locks, flags, queue, req, accepted, network, caller>>

\* The interpreter switches threads inside the callback.
CallbackYield(w) ==
    /\ Step(w, "calling", "regain")
    /\ gil' = Nobody
    /\ UNCHANGED <<lock, flags, requests, network, caller>>

CallbackRegain(w) ==
    /\ Step(w, "regain", "calling")
    /\ TakeGil(w)
    /\ UNCHANGED <<lock, flags, requests, network, caller>>

\* The callback returns a message, or raises.
CallbackReturn(w) ==
    /\ Step(w, "calling", "release")
    /\ \E r \in {"reply", "zeroes"} : reply' = [reply EXCEPT ![w] = r]
    /\ UNCHANGED <<locks, flags, queue, req, accepted, network, caller>>

\* PyGILState_Release
WorkerRelease(w) ==
    /\ Step(w, "release", "write")
    /\ gil' = Nobody
    /\ UNCHANGED <<lock, flags, requests, network, caller>>

\* Write the response, or zeroes.  A client that is gone is not noticed.
WorkerWrite(w) ==
    /\ Step(w, "write", "close")
    /\ sent' = [sent EXCEPT ![req[w]] = reply[w]]
    /\ UNCHANGED <<locks, flags, requests, listener, sock, client, caller>>

\* close(req->client); OBJECT_FREE(req)
WorkerClose(w) ==
    /\ Step(w, "close", "check")
    /\ sock' = [sock EXCEPT ![req[w]] = "closed"]
    /\ req' = [req EXCEPT ![w] = NoConn]
    /\ reply' = [reply EXCEPT ![w] = "none"]
    /\ UNCHANGED <<locks, flags, queue, accepted, listener, client, sent, caller>>

WorkerStep(w) ==
    \/ WorkerCheck(w) \/ WorkerLock(w) \/ WorkerWait(w) \/ WorkerRelock(w)
    \/ WorkerWoken(w) \/ WorkerPop(w) \/ WorkerRead(w) \/ WorkerEnsure(w)
    \/ WorkerDispatch(w) \/ CallbackYield(w) \/ CallbackRegain(w)
    \/ CallbackReturn(w) \/ WorkerRelease(w) \/ WorkerWrite(w) \/ WorkerClose(w)

----------------------------------------------------------------------------
(* The acceptor thread: TCPServer_run *)

AcceptorBegin ==
    /\ Step(Acceptor, "begin", "check")
    /\ isAlive' = TRUE
    /\ UNCHANGED <<locks, keepAlive, callback, requests, network, caller>>

AcceptorCheck ==
    /\ Step(Acceptor, "check", IF keepAlive THEN "accept" ELSE "cleanup")
    /\ UNCHANGED <<locks, flags, requests, network, caller>>

\* accept() returns the socket of a connection in the backlog.
Accept(c) ==
    /\ Step(Acceptor, "accept", "lock")
    /\ listener = "open" /\ sock[c] = "backlog"
    /\ sock' = [sock EXCEPT ![c] = "open"]
    /\ accepted' = c
    /\ UNCHANGED <<locks, flags, queue, req, reply, listener, client, sent, caller>>

\* accept() fails: always when the socket was closed or never opened, now and
\* then when it is open (out of descriptors, connection aborted).
AcceptFails ==
    /\ Step(Acceptor, "accept", "check")
    /\ UNCHANGED <<locks, flags, requests, network, caller>>

AcceptorLock == LockMutex(Acceptor, "lock", "add")

\* request_new, queue_add, pthread_mutex_unlock
AcceptorAdd ==
    /\ Step(Acceptor, "add", "notify")
    /\ queue' = Append(queue, accepted)
    /\ accepted' = NoConn
    /\ lock' = Nobody
    /\ UNCHANGED <<gil, flags, req, reply, network, caller>>

AcceptorNotify == Broadcast(Acceptor, "notify", "check")

AcceptorCleanup ==
    /\ Step(Acceptor, "cleanup", "off")
    /\ isAlive' = FALSE
    /\ UNCHANGED <<locks, keepAlive, callback, requests, network, caller>>

AcceptorStep ==
    \/ AcceptorBegin \/ AcceptorCheck \/ (\E c \in Conns : Accept(c))
    \/ (AcceptFails /\ listener # "open") \/ AcceptorLock \/ AcceptorAdd
    \/ AcceptorNotify \/ AcceptorCleanup

----------------------------------------------------------------------------
(* The Python thread.  A call takes the GIL; it is given back when the     *)
(* method returns, never inside it.  The caller pairs start and stop, as   *)
(* setUp and tearDown of network_test.py do.                               *)

\* TCPServer_start up to the creation of the worker threads
StartCall ==
    /\ pc[Main] = "idle" /\ ~serving /\ starts < MaxStarts
    /\ TakeGil(Main)
    /\ keepAlive' = TRUE
    /\ pc' = [t \in Threads |-> IF t \in Workers THEN "check"
                                ELSE IF t = Main THEN "openSocket" ELSE pc[t]]
    /\ serving' = TRUE /\ starts' = starts + 1
    /\ UNCHANGED <<lock, isAlive, callback, requests, network, dropping>>

\* TCPServer_init_network_socket or TCPServer_init_unix_socket; a failure
\* (-1) is stored in self->socket and not looked at.
OpenSocket ==
    /\ Step(Main, "openSocket", "startRun")
    /\ listener' \in {"open", "failed"}
    /\ UNCHANGED <<locks, flags, requests, sock, client, sent, caller>>

StartRun ==
    /\ pc[Main] = "startRun"
    /\ pc' = [pc EXCEPT ![Acceptor] = "begin", ![Main] = "idle"]
    /\ gil' = Nobody
    /\ UNCHANGED <<lock, flags, requests, network, caller>>

\* TCPServer_set_request_callback, with a function or with None
SetRequestCallback ==
    /\ pc[Main] = "idle" /\ gil = Nobody
    /\ callback' \in BOOLEAN
    /\ UNCHANGED <<pc, locks, keepAlive, isAlive, requests, network, caller>>

StopCall ==
    /\ serving
    /\ Step(Main, "idle", "stopLock")
    /\ TakeGil(Main)
    /\ UNCHANGED <<lock, flags, requests, network, caller>>

\* TCPServer_dealloc stops the server only if it sees is_alive.
DropCall ==
    /\ Step(Main, "idle", IF isAlive THEN "stopLock" ELSE "freed")
    /\ TakeGil(Main)
    /\ dropping' = TRUE
    /\ UNCHANGED <<lock, flags, requests, network, serving, starts>>

StopLock == LockMutex(Main, "stopLock", "stopFlag")

StopFlag ==
    /\ Step(Main, "stopFlag", "stopNotify")
    /\ keepAlive' = FALSE
    /\ lock' = Nobody
    /\ UNCHANGED <<gil, isAlive, callback, requests, network, caller>>

StopNotify == Broadcast(Main, "stopNotify", "joinWorkers")

\* pthread_join of every worker
JoinWorkers ==
    /\ Step(Main, "joinWorkers", "closeSocket")
    /\ \A w \in Workers : pc[w] = "off"
    /\ UNCHANGED <<locks, flags, requests, network, caller>>

\* shutdown() and close(): connections that were not accepted are reset
CloseSocket ==
    /\ Step(Main, "closeSocket", "joinRun")
    /\ listener' = "closed"
    /\ sock' = [c \in Conns |-> IF sock[c] = "backlog" THEN "reset" ELSE sock[c]]
    /\ UNCHANGED <<locks, flags, requests, client, sent, caller>>

\* pthread_join of the acceptor; stop returns, and so does dealloc
JoinRun ==
    /\ Step(Main, "joinRun", IF dropping THEN "freed" ELSE "idle")
    /\ pc[Acceptor] = "off"
    /\ gil' = Nobody
    /\ serving' = FALSE
    /\ UNCHANGED <<lock, flags, requests, network, dropping, starts>>

MainStep ==
    \/ OpenSocket \/ StartRun \/ StopLock \/ StopFlag \/ StopNotify
    \/ JoinWorkers \/ CloseSocket \/ JoinRun

MainCall == StartCall \/ SetRequestCallback \/ StopCall \/ DropCall

----------------------------------------------------------------------------
(* A client: tcp_client_send_message *)

ClientConnect(c) ==
    /\ client[c] = "idle"
    /\ IF listener = "open"
       THEN /\ client' = [client EXCEPT ![c] = "connected"]
            /\ sock' = [sock EXCEPT ![c] = "backlog"]
       ELSE /\ client' = [client EXCEPT ![c] = "refused"]
            /\ UNCHANGED sock
    /\ UNCHANGED <<pc, locks, flags, requests, listener, sent, caller>>

ClientGoto(c, from, to) ==
    /\ client[c] \in from
    /\ client' = [client EXCEPT ![c] = to]
    /\ UNCHANGED <<pc, locks, flags, requests, listener, sock, sent, caller>>

ClientSend(c) == ClientGoto(c, {"connected"}, "sent")

\* read() returns the reply, or end of file.
ClientRead(c) ==
    /\ sent[c] # "none" \/ sock[c] \in {"closed", "reset"}
    /\ ClientGoto(c, {"sent"}, "returned")

\* The client's process ends; its kernel closes the connection.
ClientDies(c) == ClientGoto(c, {"connected", "sent"}, "gone")

ClientStep(c) == ClientConnect(c) \/ ClientSend(c) \/ ClientRead(c) \/ ClientDies(c)

----------------------------------------------------------------------------
\* Once the object is freed nothing is specified: a thread still running
\* would use freed memory.
NotFreed == pc[Main] # "freed"

Next ==
    \/ /\ NotFreed
       /\ \/ \E w \in Workers : WorkerStep(w) \/ SpuriousWake(w)
          \/ AcceptorStep \/ AcceptFails
          \/ MainCall \/ MainStep
          \/ \E c \in Conns : ClientStep(c)
    \/ ~NotFreed /\ UNCHANGED vars

Spec == Init /\ [][Next]_vars

(***************************************************************************)
(* Fairness.  The kernel runs every runnable thread and gives a mutex to   *)
(* each of the threads that compete for it; CPython makes the holder of    *)
(* the GIL drop it for a waiting thread: a thread that can step again and  *)
(* again does.  The Python callback returns, accept() does not fail        *)
(* forever, a connected client sends and reads as tcp_client_send_message  *)
(* does.  Nothing makes Main call a method, a client connect or die, or    *)
(* pthread_cond_wait return by itself.                                     *)
(***************************************************************************)
WorkerFairness(w) ==
    /\ SF_vars(NotFreed /\ WorkerStep(w))
    /\ SF_vars(NotFreed /\ CallbackReturn(w))

AcceptorFairness ==
    /\ SF_vars(NotFreed /\ AcceptorStep)
    /\ SF_vars(NotFreed /\ \E c \in Conns : Accept(c))

Fairness ==
    /\ \A w \in Workers : WorkerFairness(w)
    /\ AcceptorFairness
    /\ SF_vars(NotFreed /\ MainStep)
    /\ \A c \in Conns : WF_vars(NotFreed /\ (ClientSend(c) \/ ClientRead(c)))

FairSpec == Spec /\ Fairness

----------------------------------------------------------------------------
TypeOK ==
    /\ pc \in [Threads -> WorkerLabels \cup AcceptorLabels \cup MainLabels]
    /\ \A w \in Workers : pc[w] \in WorkerLabels
    /\ pc[Acceptor] \in AcceptorLabels
    /\ pc[Main] \in MainLabels
    /\ keepAlive \in BOOLEAN
    /\ isAlive \in BOOLEAN
    /\ lock \in Threads \cup {Nobody}
    /\ gil \in Workers \cup {Main, Nobody}
    /\ queue \in Seq(Conns)
    /\ req \in [Workers -> Conns \cup {NoConn}]
    /\ accepted \in Conns \cup {NoConn}
    /\ callback \in BOOLEAN
    /\ reply \in [Workers -> Answers]
    /\ listener \in {"none", "open", "failed", "closed"}
    /\ sock \in [Conns -> {"none", "backlog", "open", "closed", "reset"}]
    /\ client \in [Conns -> {"idle", "connected", "sent", "returned",
                             "refused", "gone"}]
    /\ sent \in [Conns -> Answers]
    /\ serving \in BOOLEAN
    /\ dropping \in BOOLEAN
    /\ starts \in 0..MaxStarts

(* Ownership of accepted connections *)

Queued(c) == \E i \in DOMAIN queue : queue[i] = c

\* An accepted connection that is not closed is in the acceptor's hands, in
\* the queue or in the hands of a worker, and in one of them only: no
\* interleaving of queue_add and queue_pop loses a request or hands it to
\* two workers.
OneOwner ==
    /\ \A i, j \in DOMAIN queue : queue[i] = queue[j] => i = j
    /\ \A c \in Conns :
         /\ (sock[c] = "open") <=> (accepted = c \/ Queued(c)
                                       \/ \E w \in Workers : req[w] = c)
         /\ accepted = c => ~Queued(c) /\ \A w \in Workers : req[w] # c
         /\ Queued(c) => \A w \in Workers : req[w] # c
         /\ \A v, w \in Workers : req[v] = c /\ req[w] = c => v = w

\* A worker sleeps in pthread_cond_wait while a request is queued only until
\* the acceptor, which queued it, makes its broadcast: a request is never
\* queued without a wake-up to come, although the broadcast is sent after
\* the mutex was released.
NoSleepOnWork ==
    queue # <<>> /\ (\E w \in Workers : pc[w] = "wait") => pc[Acceptor] = "notify"

\* A client's connection is never closed by the server before a reply frame
\* (the response or zeroes) was written to it, whatever the callback did.
RepliedBeforeClose == \A c \in Conns : sock[c] = "closed" => sent[c] # "none"

\* When stop has returned every thread of the server is gone, the listening
\* socket is closed and is_alive, which only the acceptor writes, is false.
StopQuiesces ==
    pc[Main] = "idle" /\ ~serving =>
        /\ \A t \in Threads \ {Main} : pc[t] = "off"
        /\ listener # "open"
        /\ ~isAlive /\ lock = Nobody

\* No thread that waits for the GIL, a client or the network holds the
\* server's mutex: a stuck callback or client cannot stop the acceptor from
\* queueing, nor stop() from clearing keep_alive.
MutexNotHeldAcrossBlocking ==
    /\ \A w \in Workers :
         pc[w] \in {"read", "ensure", "calling", "regain", "write"} => lock # w
    /\ pc[Acceptor] = "accept" => lock # Acceptor
    /\ pc[Main] \in {"joinWorkers", "joinRun"} => lock # Main

\* TCPServer_dealloc frees the memory of a server whose threads still run
\* only in the window before the acceptor's first statement sets is_alive.
DropStopsThreads ==
    pc[Main] = "freed" /\ (\E t \in Threads \ {Main} : pc[t] # "off")
        => pc[Acceptor] = "begin"

----------------------------------------------------------------------------
(* Liveness, under FairSpec *)

Stopping == ~keepAlive \/ ~NotFreed

\* While the server is not being stopped, every accepted request is finished,
\* also one that was left in the queue by an earlier stop and its client
\* gone: no wake-up is lost, no worker starves and no callback that raises
\* keeps a connection open.
AcceptedIsClosed ==
    \A c \in Conns : (sock[c] = "open") ~> (sock[c] = "closed" \/ Stopping)

\* While the server is not being stopped, a client that has sent its message
\* returns from tcp_client_send_message, or dies.
ClientReturns ==
    \A c \in Conns : (client[c] = "sent") ~> (client[c] # "sent" \/ Stopping)

\* stop() is joining a worker that went to sleep after the broadcast: it had
\* read keep_alive before stop cleared it and took the mutex after stop.
LostWakeup == pc[Main] = "joinWorkers" /\ \E w \in Workers : pc[w] = "wait"

\* stop() is joining, with the GIL, a worker that waits for the GIL.
GilDeadlock ==
    pc[Main] = "joinWorkers" /\ \E w \in Workers : pc[w] \in {"ensure", "regain"}

\* stop() returns unless one of these two happens: nothing else (the
\* acceptor in accept(), a slow client, a queue that is not empty, the mutex)
\* can keep it from returning.
StopReturnsOrHangs ==
    (pc[Main] = "stopLock") ~>
        (pc[Main] \in {"idle", "freed"} \/ LostWakeup \/ GilDeadlock)

\* "Signal the blocked worker threads" (tcp_server.c:316): after stop's
\* broadcast no worker stays blocked in pthread_cond_wait.
StopWakesWorkers ==
    (pc[Main] = "joinWorkers") ~> \A w \in Workers : pc[w] # "wait"

\* "Perform a concurrent python callback" (tcp_server.c:115): a worker that
\* asks for the GIL to run the callback of its request gets it.
CallbackRuns ==
    \A w \in Workers : (pc[w] = "ensure") ~> (pc[w] # "ensure" \/ ~NotFreed)

----------------------------------------------------------------------------
(* The server implements RequestPool. *)

\* What the pool sees of the server.
pending == IF accepted = NoConn THEN queue ELSE Append(queue, accepted)
busy == {req[w] : w \in Workers} \ {NoConn}
finished == {c \in Conns : sock[c] = "closed"}

Pool == INSTANCE RequestPool WITH
    Requests <- Conns, Capacity <- Cardinality(Workers), NoAnswer <- "none",
    answer <- sent

\* Every step of the acceptor, of a worker and of Main is a step of the
\* request pool or invisible to it: requests are served in the order in which
\* they were accepted, once each, across stop and start as well.
ImplementsPool == Pool!Spec
=============================================================================
