-------------------------- MODULE TCPServerProofs --------------------------
(***************************************************************************)
(* Proofs about TCPServer for any number of workers and of connections.    *)
(***************************************************************************)
EXTENDS TCPServer, FiniteSetTheorems, SequenceTheorems, TLAPS

\* The labels at which a worker has a request in its hands.
Serving == {"read", "ensure", "dispatch", "calling", "regain", "release",
            "write", "close"}

\* Between queue_pop and close a worker has a request, and at no other time;
\* between accept and queue_add the acceptor has a socket.
Handover ==
    /\ \A w \in Workers : req[w] \in Conns <=> pc[w] \in Serving
    /\ accepted \in Conns <=> pc[Acceptor] \in {"lock", "add"}

\* Where the threads are while Main is in one of the server's methods.
Phases ==
    /\ isAlive <=> pc[Acceptor] \notin {"off", "begin"}
    /\ ~serving => /\ \A w \in Workers : pc[w] = "off"
                   /\ pc[Acceptor] = "off" /\ listener # "open"
                   /\ pc[Main] \in {"idle", "freed"}
    /\ pc[Main] \in {"openSocket", "startRun"} => keepAlive /\ pc[Acceptor] = "off"
    /\ serving /\ pc[Main] \in {"idle", "stopLock", "stopFlag"} =>
         keepAlive /\ pc[Acceptor] \notin {"off", "cleanup"}
    /\ pc[Main] \in {"closeSocket", "joinRun"} => \A w \in Workers : pc[w] = "off"
    /\ pc[Main] = "joinRun" => listener = "closed"
    /\ pc[Main] = "freed" /\ serving => pc[Acceptor] = "begin"

\* Who holds the mutex, by where the threads are.
MutexHeld ==
    /\ \A w \in Workers : lock = w <=> pc[w] \in {"peek", "woken"}
    /\ lock = Acceptor <=> pc[Acceptor] = "add"
    /\ lock = Main <=> pc[Main] = "stopFlag"

ThreadInv == TypeOK /\ Handover /\ Phases /\ MutexHeld

\* At the start no thread runs and both locks are free.
LEMMA ThreadInvInit == Init => ThreadInv
<1> SUFFICES ASSUME Init PROVE ThreadInv
  OBVIOUS
<1> USE ThreadsDistinct DEF Init, Threads
<1>1. pc[Main] = "idle" /\ \A t \in Threads \ {Main} : pc[t] = "off"
  OBVIOUS
<1>2. pc \in [Threads -> WorkerLabels \cup AcceptorLabels \cup MainLabels]
  BY DEF WorkerLabels, AcceptorLabels, MainLabels
<1>3. /\ queue \in Seq(Conns) /\ starts \in 0..MaxStarts
      /\ req \in [Workers -> Conns \cup {NoConn}] /\ reply \in [Workers -> Answers]
  BY DEF Answers
<1>4. TypeOK
  BY <1>1, <1>2, <1>3 DEF TypeOK, WorkerLabels, AcceptorLabels, MainLabels, Answers
<1>5. Handover /\ Phases /\ MutexHeld
  BY DEF Handover, Phases, MutexHeld, Serving
<1> QED
  BY <1>4, <1>5 DEF ThreadInv

\* Every step of a thread leaves the locks with those whose place says so.
LEMMA ThreadInvStep == ThreadInv /\ [Next]_vars => ThreadInv'
<1> SUFFICES ASSUME ThreadInv, [Next]_vars
             PROVE  ThreadInv'
  OBVIOUS
<1> USE ThreadsDistinct DEF ThreadInv, TypeOK, Handover, Phases, MutexHeld, Threads,
        WorkerLabels, AcceptorLabels, MainLabels, Answers, Serving, Step, LockMutex,
        TakeGil, Broadcast, ClientGoto, vars, locks, flags, requests, network, caller
<1>1. ASSUME NEW w \in Workers, WorkerCheck(w)
      PROVE  ThreadInv'
  BY <1>1 DEF WorkerCheck
<1>2. ASSUME NEW w \in Workers, WorkerLock(w)
      PROVE  ThreadInv'
  BY <1>2 DEF WorkerLock
<1>3. ASSUME NEW w \in Workers, WorkerWait(w)
      PROVE  ThreadInv'
  BY <1>3 DEF WorkerWait
<1>4. ASSUME NEW w \in Workers, WorkerRelock(w)
      PROVE  ThreadInv'
  BY <1>4 DEF WorkerRelock
<1>5. ASSUME NEW w \in Workers, WorkerWoken(w)
      PROVE  ThreadInv'
  BY <1>5 DEF WorkerWoken
<1>6. ASSUME NEW w \in Workers, WorkerPop(w)
      PROVE  ThreadInv'
  BY <1>6 DEF WorkerPop
<1>7. ASSUME NEW w \in Workers, WorkerRead(w)
      PROVE  ThreadInv'
  BY <1>7 DEF WorkerRead
<1>8. ASSUME NEW w \in Workers, WorkerEnsure(w)
      PROVE  ThreadInv'
  BY <1>8 DEF WorkerEnsure
<1>9. ASSUME NEW w \in Workers, WorkerDispatch(w)
      PROVE  ThreadInv'
  BY <1>9 DEF WorkerDispatch
<1>10. ASSUME NEW w \in Workers, CallbackYield(w)
      PROVE  ThreadInv'
  BY <1>10 DEF CallbackYield
<1>11. ASSUME NEW w \in Workers, CallbackRegain(w)
      PROVE  ThreadInv'
  BY <1>11 DEF CallbackRegain
<1>12. ASSUME NEW w \in Workers, CallbackReturn(w)
      PROVE  ThreadInv'
  BY <1>12 DEF CallbackReturn
<1>13. ASSUME NEW w \in Workers, WorkerRelease(w)
      PROVE  ThreadInv'
  BY <1>13 DEF WorkerRelease
<1>14. ASSUME NEW w \in Workers, WorkerWrite(w)
      PROVE  ThreadInv'
  BY <1>14 DEF WorkerWrite
<1>15. ASSUME NEW w \in Workers, WorkerClose(w)
      PROVE  ThreadInv'
  BY <1>15 DEF WorkerClose
<1>16. ASSUME NEW w \in Workers, SpuriousWake(w)
      PROVE  ThreadInv'
  BY <1>16 DEF SpuriousWake
<1>17. ASSUME NotFreed, AcceptorBegin
      PROVE  ThreadInv'
  BY <1>17 DEF AcceptorBegin, NotFreed
<1>18. ASSUME AcceptorCheck
      PROVE  ThreadInv'
  BY <1>18 DEF AcceptorCheck
<1>19. ASSUME NEW c \in Conns, Accept(c)
      PROVE  ThreadInv'
  BY <1>19 DEF Accept
<1>20. ASSUME AcceptFails
      PROVE  ThreadInv'
  BY <1>20 DEF AcceptFails
<1>21. ASSUME AcceptorLock
      PROVE  ThreadInv'
  BY <1>21 DEF AcceptorLock
<1>22. ASSUME AcceptorAdd
      PROVE  ThreadInv'
  BY <1>22 DEF AcceptorAdd
<1>23. ASSUME AcceptorNotify
      PROVE  ThreadInv'
  BY <1>23 DEF AcceptorNotify
<1>24. ASSUME AcceptorCleanup
      PROVE  ThreadInv'
  BY <1>24, ZenonT(60) DEF AcceptorCleanup
<1>25. ASSUME StartCall
      PROVE  ThreadInv'
  BY <1>25 DEF StartCall
<1>26. ASSUME SetRequestCallback
      PROVE  ThreadInv'
  BY <1>26 DEF SetRequestCallback
<1>27. ASSUME StopCall
      PROVE  ThreadInv'
  BY <1>27 DEF StopCall
<1>28. ASSUME DropCall
      PROVE  ThreadInv'
  BY <1>28 DEF DropCall
<1>29. ASSUME OpenSocket
      PROVE  ThreadInv'
  BY <1>29 DEF OpenSocket
<1>30. ASSUME StartRun
      PROVE  ThreadInv'
  BY <1>30 DEF StartRun
<1>31. ASSUME StopLock
      PROVE  ThreadInv'
  BY <1>31 DEF StopLock
<1>32. ASSUME StopFlag
      PROVE  ThreadInv'
  BY <1>32, ZenonT(60) DEF StopFlag
<1>33. ASSUME StopNotify
      PROVE  ThreadInv'
  BY <1>33 DEF StopNotify
<1>34. ASSUME JoinWorkers
      PROVE  ThreadInv'
  BY <1>34 DEF JoinWorkers
<1>35. ASSUME CloseSocket
      PROVE  ThreadInv'
  BY <1>35 DEF CloseSocket
<1>36. ASSUME JoinRun
      PROVE  ThreadInv'
  BY <1>36 DEF JoinRun
<1>37. ASSUME NEW c \in Conns, ClientConnect(c)
      PROVE  ThreadInv'
  BY <1>37 DEF ClientConnect
<1>38. ASSUME NEW c \in Conns, ClientSend(c)
      PROVE  ThreadInv'
  BY <1>38 DEF ClientSend
<1>39. ASSUME NEW c \in Conns, ClientRead(c)
      PROVE  ThreadInv'
  BY <1>39 DEF ClientRead
<1>40. ASSUME NEW c \in Conns, ClientDies(c)
      PROVE  ThreadInv'
  BY <1>40 DEF ClientDies
<1>41. ASSUME UNCHANGED vars
      PROVE  ThreadInv'
  BY <1>41 DEF vars
<1> QED
  BY <1>1, <1>2, <1>3, <1>4, <1>5, <1>6, <1>7, <1>8, <1>9, <1>10, <1>11, <1>12, <1>13, <1>14, <1>15, <1>16, <1>17, <1>18, <1>19, <1>20, <1>21, <1>22, <1>23, <1>24, <1>25, <1>26, <1>27, <1>28, <1>29, <1>30, <1>31, <1>32, <1>33, <1>34, <1>35, <1>36, <1>37, <1>38, <1>39, <1>40, <1>41
  DEF Next, WorkerStep, AcceptorStep, MainCall, MainStep, ClientStep

\* Every variable keeps its type in every behaviour of the server, whatever
\* the number of workers, clients and restarts.
THEOREM TypeCorrect == Spec => []TypeOK
<1>1. Spec => []ThreadInv
  BY ThreadInvInit, ThreadInvStep, PTL DEF Spec
<1>2. ThreadInv => TypeOK
  BY DEF ThreadInv
<1> QED
  BY <1>1, <1>2, PTL

\* When stop has returned, the server's threads are gone.
THEOREM StopQuiescesHolds == Spec => []StopQuiesces
<1>1. Spec => []ThreadInv
  BY ThreadInvInit, ThreadInvStep, PTL DEF Spec
<1>2. ThreadInv => StopQuiesces
  BY ThreadsDistinct DEF ThreadInv, TypeOK, Phases, MutexHeld, StopQuiesces, Threads
<1> QED
  BY <1>1, <1>2, PTL

\* No thread keeps the mutex while it waits for the GIL, for a client, for a
\* connection or for another thread to end.
THEOREM MutexNotHeldHolds == Spec => []MutexNotHeldAcrossBlocking
<1>1. Spec => []ThreadInv
  BY ThreadInvInit, ThreadInvStep, PTL DEF Spec
<1>2. ThreadInv => MutexNotHeldAcrossBlocking
  BY DEF ThreadInv, MutexHeld, MutexNotHeldAcrossBlocking
<1> QED
  BY <1>1, <1>2, PTL

\* Dropping the object leaves threads behind only before is_alive is set.
THEOREM DropStopsThreadsHolds == Spec => []DropStopsThreads
<1>1. Spec => []ThreadInv
  BY ThreadInvInit, ThreadInvStep, PTL DEF Spec
<1>2. ThreadInv => DropStopsThreads
  BY DEF ThreadInv, Phases, DropStopsThreads, Threads
<1> QED
  BY <1>1, <1>2, PTL

----------------------------------------------------------------------------
(* No worker sleeps on a request. *)

\* A worker goes to sleep only on an empty queue, and who fills it wakes one.
LEMMA NoSleepOnWorkStep ==
    ThreadInv /\ NoSleepOnWork /\ [Next]_vars => NoSleepOnWork'
<1> SUFFICES ASSUME ThreadInv, NoSleepOnWork, [Next]_vars
             PROVE  NoSleepOnWork'
  OBVIOUS
<1> USE ThreadsDistinct DEF ThreadInv, TypeOK, NoSleepOnWork, Threads, Step, LockMutex,
        Broadcast, ClientGoto, vars, locks, flags, requests, network, caller
<1>1. ASSUME NEW w \in Workers, WorkerStep(w) \/ SpuriousWake(w)
      PROVE  NoSleepOnWork'
  BY <1>1 DEF WorkerStep, WorkerCheck, WorkerLock, WorkerWait, WorkerRelock, WorkerWoken,
       WorkerPop, WorkerRead, WorkerEnsure, WorkerDispatch, CallbackYield, CallbackRegain,
       CallbackReturn, WorkerRelease, WorkerWrite, WorkerClose, SpuriousWake
<1>2. ASSUME AcceptorStep \/ AcceptFails
      PROVE  NoSleepOnWork'
  BY <1>2 DEF AcceptorStep, AcceptorBegin, AcceptorCheck, Accept, AcceptFails,
       AcceptorLock, AcceptorAdd, AcceptorNotify, AcceptorCleanup
<1>3. ASSUME MainCall \/ MainStep
      PROVE  NoSleepOnWork'
  BY <1>3 DEF MainCall, StartCall, SetRequestCallback, StopCall, DropCall, MainStep,
       OpenSocket, StartRun, StopLock, StopFlag, StopNotify, JoinWorkers, CloseSocket,
       JoinRun, Phases
<1>4. ASSUME NEW c \in Conns, ClientStep(c)
      PROVE  NoSleepOnWork'
  BY <1>4 DEF ClientStep, ClientConnect, ClientSend, ClientRead, ClientDies
<1>5. ASSUME UNCHANGED vars
      PROVE  NoSleepOnWork'
  BY <1>5
<1> QED
  BY <1>1, <1>2, <1>3, <1>4, <1>5 DEF Next

\* A worker sleeps while a request is queued only until the acceptor's
\* broadcast, for any number of workers and connections.
THEOREM NoSleepOnWorkHolds == Spec => []NoSleepOnWork
<1>1. Init => NoSleepOnWork
  BY DEF Init, NoSleepOnWork
<1> QED
  BY <1>1, ThreadInvInit, ThreadInvStep, NoSleepOnWorkStep, PTL DEF Spec

----------------------------------------------------------------------------
(* Every accepted connection has one owner. *)

\* A connection that was not made was not accepted; one that was not accepted
\* was sent nothing.
ClientInv ==
    \A c \in Conns : /\ client[c] = "idle" => sock[c] = "none"
                     /\ sock[c] \in {"none", "backlog", "reset"} => sent[c] = "none"

Owned == OneOwner /\ ClientInv

\* The parts of a state that Owned reads.
ownership == <<queue, req, accepted, sock, client, sent>>

\* A connection goes from hand to hand: acceptor, queue, worker.
LEMMA OwnedStep == ThreadInv /\ Owned /\ [Next]_vars => Owned'
<1> SUFFICES ASSUME ThreadInv, Owned, [Next]_vars
             PROVE  Owned'
  OBVIOUS
<1> USE ThreadsDistinct DEF ThreadInv, TypeOK, Handover, Threads, Serving, Step,
        Owned, OneOwner, ClientInv, Queued
<1>1. ASSUME NEW c \in Conns, Accept(c)
      PROVE  Owned'
  <2>1. /\ pc[Acceptor] = "accept" /\ accepted = NoConn /\ accepted' = c
        /\ sock[c] = "backlog" /\ sock' = [sock EXCEPT ![c] = "open"]
        /\ UNCHANGED <<queue, req, client, sent>>
    BY <1>1 DEF Accept
  <2>2. OneOwner'
    BY <2>1
  <2>3. ClientInv'
    BY <2>1
  <2> QED
    BY <2>2, <2>3
<1>2. ASSUME AcceptorAdd
      PROVE  Owned'
  <2>1. /\ accepted \in Conns /\ accepted' = NoConn
        /\ queue' = Append(queue, accepted)
        /\ UNCHANGED <<req, sock, client, sent>>
    BY <1>2 DEF AcceptorAdd, network
  <2>2. /\ DOMAIN queue = 1..Len(queue) /\ DOMAIN queue' = 1..(Len(queue) + 1)
        /\ Len(queue) \in Nat
        /\ \A i \in DOMAIN queue : queue'[i] = queue[i]
        /\ queue'[Len(queue) + 1] = accepted
    BY <2>1
  <2>3. \A c : Queued(c)' <=> Queued(c) \/ c = accepted
    BY <2>2
  <2>4. \A i, j \in DOMAIN queue' : queue'[i] = queue'[j] => i = j
    BY <2>1, <2>2
  <2> HIDE DEF Queued
  <2>5. OneOwner'
    BY <2>1, <2>3, <2>4
  <2> QED
    BY <2>1, <2>5
<1>3. ASSUME NEW w \in Workers, WorkerPop(w)
      PROVE  Owned'
  <2> DEFINE h == Head(queue)
  <2>1. /\ queue # <<>> /\ pc[w] = "peek" /\ queue' = Tail(queue)
        /\ req' = [req EXCEPT ![w] = h]
        /\ UNCHANGED <<accepted, sock, client, sent>>
    BY <1>3 DEF WorkerPop, network
  <2>2. /\ Len(queue) \in Nat \ {0} /\ DOMAIN queue = 1..Len(queue)
        /\ DOMAIN queue' = 1..(Len(queue) - 1)
        /\ \A i \in DOMAIN queue' : i + 1 \in DOMAIN queue /\ queue'[i] = queue[i + 1]
        /\ h = queue[1] /\ h \in Conns /\ 1 \in DOMAIN queue
    BY <2>1
  <2>3. \A i, j \in DOMAIN queue' : queue'[i] = queue'[j] => i = j
    BY <2>2
  <2>4. \A c : Queued(c) => Queued(c)' \/ c = h
    <3> SUFFICES ASSUME NEW i \in DOMAIN queue, queue[i] # h
                 PROVE  \E j \in DOMAIN queue' : queue'[j] = queue[i]
      OBVIOUS
    <3>1. i - 1 \in DOMAIN queue'
      BY <2>2
    <3> QED
      BY <3>1, <2>2
  <2>5. \A c : Queued(c)' => Queued(c) /\ c # h
    BY <2>2
  <2>6. Queued(h) /\ h \in Conns
    BY <2>2
  <2> HIDE DEF Queued, h
  <2>7. OneOwner'
    BY <2>1, <2>3, <2>4, <2>5, <2>6
  <2> QED
    BY <2>1, <2>7
<1>4. ASSUME NEW w \in Workers, WorkerWrite(w)
      PROVE  Owned'
  BY <1>4 DEF WorkerWrite, requests
<1>5. ASSUME NEW w \in Workers, WorkerClose(w)
      PROVE  Owned'
  BY <1>5 DEF WorkerClose
<1>6. ASSUME CloseSocket
      PROVE  Owned'
  BY <1>6 DEF CloseSocket, requests
<1>7. ASSUME NEW c \in Conns, ClientStep(c)
      PROVE  Owned'
  BY <1>7 DEF ClientStep, ClientConnect, ClientSend, ClientRead, ClientDies, ClientGoto,
       requests
<1>8. ASSUME UNCHANGED ownership
      PROVE  Owned'
  BY <1>8 DEF ownership
<1>9. ASSUME Next
      PROVE  Owned'
  BY <1>1, <1>2, <1>3, <1>4, <1>5, <1>6, <1>7, <1>8, <1>9
  DEF Next, WorkerStep, WorkerCheck, WorkerLock, WorkerWait, WorkerRelock, WorkerWoken,
      WorkerRead, WorkerEnsure, WorkerDispatch, CallbackYield, CallbackRegain,
      CallbackReturn, WorkerRelease, SpuriousWake, AcceptorStep, AcceptorBegin,
      AcceptorCheck, AcceptFails, AcceptorLock, AcceptorNotify, AcceptorCleanup,
      MainCall, StartCall, SetRequestCallback, StopCall, DropCall, MainStep, OpenSocket,
      StartRun, StopLock, StopFlag, StopNotify, JoinWorkers, JoinRun, LockMutex,
      Broadcast, ownership, vars, requests, network
<1> QED
  BY <1>8, <1>9 DEF vars, ownership, requests, network

\* No accepted connection is lost, queued twice or handed to two threads, for
\* any number of workers and connections.
THEOREM OneOwnerHolds == Spec => []OneOwner
<1>1. Init => Owned
  BY ThreadsDistinct DEF Init, Owned, OneOwner, ClientInv, Queued
<1>2. Owned => OneOwner
  BY DEF Owned
<1> QED
  BY <1>1, <1>2, ThreadInvInit, ThreadInvStep, OwnedStep, PTL DEF Spec

----------------------------------------------------------------------------
(* Every connection the server closes was answered. *)

\* A worker knows its answer before it writes and has written it before it
\* closes; what was sent was sent to a connection that is closed or about to be.
ReplyInv ==
    /\ \A w \in Workers : pc[w] \in {"release", "write"} => reply[w] # "none"
    /\ \A w \in Workers : pc[w] = "close" => sent[req[w]] # "none"
    /\ \A c \in Conns : sent[c] # "none" =>
         sock[c] = "closed" \/ \E w \in Workers : req[w] = c /\ pc[w] = "close"
    /\ RepliedBeforeClose

\* What was sent on a connection is what the place of its worker says.
LEMMA ReplyInvStep == ThreadInv /\ Owned /\ ReplyInv /\ [Next]_vars => ReplyInv'
<1> SUFFICES ASSUME ThreadInv, Owned, ReplyInv, [Next]_vars
             PROVE  ReplyInv'
  OBVIOUS
<1> USE ThreadsDistinct DEF ThreadInv, TypeOK, Handover, Phases, Threads, Serving, Step,
        LockMutex, Broadcast, ClientGoto, vars, locks, flags, requests, network, caller,
        Owned, ClientInv, ReplyInv, RepliedBeforeClose
<1>1. ASSUME NEW w \in Workers, WorkerCheck(w)
      PROVE  ReplyInv'
  BY <1>1 DEF WorkerCheck
<1>2. ASSUME NEW w \in Workers, WorkerLock(w)
      PROVE  ReplyInv'
  BY <1>2 DEF WorkerLock
<1>3. ASSUME NEW w \in Workers, WorkerWait(w)
      PROVE  ReplyInv'
  BY <1>3 DEF WorkerWait
<1>4. ASSUME NEW w \in Workers, WorkerRelock(w)
      PROVE  ReplyInv'
  BY <1>4 DEF WorkerRelock
<1>5. ASSUME NEW w \in Workers, WorkerWoken(w)
      PROVE  ReplyInv'
  BY <1>5 DEF WorkerWoken
<1>6. ASSUME NEW w \in Workers, WorkerPop(w)
      PROVE  ReplyInv'
  BY <1>6 DEF WorkerPop
<1>7. ASSUME NEW w \in Workers, WorkerRead(w)
      PROVE  ReplyInv'
  BY <1>7 DEF WorkerRead
<1>8. ASSUME NEW w \in Workers, WorkerEnsure(w)
      PROVE  ReplyInv'
  BY <1>8 DEF WorkerEnsure
<1>9. ASSUME NEW w \in Workers, WorkerDispatch(w)
      PROVE  ReplyInv'
  BY <1>9 DEF WorkerDispatch
<1>10. ASSUME NEW w \in Workers, CallbackYield(w)
      PROVE  ReplyInv'
  BY <1>10 DEF CallbackYield
<1>11. ASSUME NEW w \in Workers, CallbackRegain(w)
      PROVE  ReplyInv'
  BY <1>11 DEF CallbackRegain
<1>12. ASSUME NEW w \in Workers, CallbackReturn(w)
      PROVE  ReplyInv'
  BY <1>12 DEF CallbackReturn
<1>13. ASSUME NEW w \in Workers, WorkerRelease(w)
      PROVE  ReplyInv'
  BY <1>13 DEF WorkerRelease
<1>14. ASSUME NEW w \in Workers, WorkerWrite(w)
      PROVE  ReplyInv'
  BY <1>14 DEF WorkerWrite
<1>15. ASSUME NEW w \in Workers, WorkerClose(w)
      PROVE  ReplyInv'
  BY <1>15 DEF WorkerClose
<1>16. ASSUME NEW w \in Workers, SpuriousWake(w)
      PROVE  ReplyInv'
  BY <1>16 DEF SpuriousWake
<1>17. ASSUME AcceptorBegin
      PROVE  ReplyInv'
  BY <1>17 DEF AcceptorBegin
<1>18. ASSUME AcceptorCheck
      PROVE  ReplyInv'
  BY <1>18 DEF AcceptorCheck
<1>19. ASSUME NEW c \in Conns, Accept(c)
      PROVE  ReplyInv'
  BY <1>19 DEF Accept
<1>20. ASSUME AcceptFails
      PROVE  ReplyInv'
  BY <1>20 DEF AcceptFails
<1>21. ASSUME AcceptorLock
      PROVE  ReplyInv'
  BY <1>21 DEF AcceptorLock
<1>22. ASSUME AcceptorAdd
      PROVE  ReplyInv'
  BY <1>22 DEF AcceptorAdd
<1>23. ASSUME AcceptorNotify
      PROVE  ReplyInv'
  BY <1>23 DEF AcceptorNotify
<1>24. ASSUME AcceptorCleanup
      PROVE  ReplyInv'
  BY <1>24 DEF AcceptorCleanup
<1>25. ASSUME StartCall
      PROVE  ReplyInv'
  BY <1>25 DEF StartCall
<1>26. ASSUME SetRequestCallback
      PROVE  ReplyInv'
  BY <1>26 DEF SetRequestCallback
<1>27. ASSUME StopCall
      PROVE  ReplyInv'
  BY <1>27 DEF StopCall
<1>28. ASSUME DropCall
      PROVE  ReplyInv'
  BY <1>28 DEF DropCall
<1>29. ASSUME OpenSocket
      PROVE  ReplyInv'
  BY <1>29 DEF OpenSocket
<1>30. ASSUME StartRun
      PROVE  ReplyInv'
  BY <1>30 DEF StartRun
<1>31. ASSUME StopLock
      PROVE  ReplyInv'
  BY <1>31 DEF StopLock
<1>32. ASSUME StopFlag
      PROVE  ReplyInv'
  BY <1>32 DEF StopFlag
<1>33. ASSUME StopNotify
      PROVE  ReplyInv'
  BY <1>33 DEF StopNotify
<1>34. ASSUME JoinWorkers
      PROVE  ReplyInv'
  BY <1>34 DEF JoinWorkers
<1>35. ASSUME CloseSocket
      PROVE  ReplyInv'
  BY <1>35 DEF CloseSocket
<1>36. ASSUME JoinRun
      PROVE  ReplyInv'
  BY <1>36 DEF JoinRun
<1>37. ASSUME NEW c \in Conns, ClientConnect(c)
      PROVE  ReplyInv'
  BY <1>37 DEF ClientConnect
<1>38. ASSUME NEW c \in Conns, ClientSend(c)
      PROVE  ReplyInv'
  BY <1>38 DEF ClientSend
<1>39. ASSUME NEW c \in Conns, ClientRead(c)
      PROVE  ReplyInv'
  BY <1>39 DEF ClientRead
<1>40. ASSUME NEW c \in Conns, ClientDies(c)
      PROVE  ReplyInv'
  BY <1>40 DEF ClientDies
<1>41. ASSUME UNCHANGED vars
      PROVE  ReplyInv'
  BY <1>41 DEF vars
<1> QED
  BY <1>1, <1>2, <1>3, <1>4, <1>5, <1>6, <1>7, <1>8, <1>9, <1>10, <1>11, <1>12, <1>13, <1>14, <1>15, <1>16, <1>17, <1>18, <1>19, <1>20, <1>21, <1>22, <1>23, <1>24, <1>25, <1>26, <1>27, <1>28, <1>29, <1>30, <1>31, <1>32, <1>33, <1>34, <1>35, <1>36, <1>37, <1>38, <1>39, <1>40, <1>41
  DEF Next, WorkerStep, AcceptorStep, MainCall, MainStep, ClientStep

\* No client is hung up on without a reply frame.
THEOREM RepliedBeforeCloseHolds == Spec => []RepliedBeforeClose
<1>1. Init => Owned /\ ReplyInv
  BY ThreadsDistinct DEF Init, Owned, OneOwner, ClientInv, Queued, ReplyInv,
     RepliedBeforeClose, Threads
<1>2. ReplyInv => RepliedBeforeClose
  BY DEF ReplyInv
<1> QED
  BY <1>1, <1>2, ThreadInvInit, ThreadInvStep, OwnedStep, ReplyInvStep, PTL DEF Spec

----------------------------------------------------------------------------
(* TCPServer implements RequestPool: each step of the threads is a step of  *)
(* the pool or leaves the pool as it is.                                   *)

ServerInv == ThreadInv /\ Owned /\ ReplyInv

\* All of these hold in every state.
LEMMA ServerInvHolds == Spec => []ServerInv
<1>1. Init => Owned /\ ReplyInv
  BY ThreadsDistinct DEF Init, Owned, OneOwner, ClientInv, Queued, ReplyInv,
     RepliedBeforeClose, Threads
<1> QED
  BY <1>1, ThreadInvInit, ThreadInvStep, OwnedStep, ReplyInvStep, PTL
  DEF Spec, ServerInv

\* A worker without a request leaves room in the pool.
LEMMA RoomForOne ==
  ASSUME TypeOK, NEW w \in Workers, req[w] = NoConn,
         \A u, v \in Workers : req[u] \in Conns /\ req[u] = req[v] => u = v
  PROVE  Cardinality(busy) < Cardinality(Workers)
<1> DEFINE S == {v \in Workers : req[v] # NoConn}
           f == [v \in S |-> req[v]]
<1>1. S \in SUBSET (Workers \ {w})
  OBVIOUS
<1>2. /\ IsFiniteSet(Workers \ {w})
      /\ Cardinality(Workers \ {w}) = Cardinality(Workers) - 1
  BY WorkersFinite, FS_RemoveElement
<1>3. IsFiniteSet(S) /\ Cardinality(S) <= Cardinality(Workers \ {w})
  BY <1>1, <1>2, FS_Subset
<1>4. f \in Surjection(S, busy)
  BY DEF Surjection, busy
<1>5. IsFiniteSet(busy) /\ Cardinality(busy) <= Cardinality(S)
  BY <1>3, <1>4, FS_Surjection
<1> QED
  BY <1>2, <1>3, <1>5, WorkersFinite, FS_CardinalityType

\* A server that was not started is a pool without requests.
LEMMA PoolInit == Init => Pool!Init
BY ThreadsDistinct DEF Init, Pool!Init, pending, busy, finished, Threads

\* Every step of the server is one of the pool or changes nothing of it.
LEMMA PoolStep ==
    ServerInv /\ ServerInv' /\ [Next]_vars => [Pool!Next]_(Pool!vars)
<1> SUFFICES ASSUME ServerInv, ServerInv', [Next]_vars
             PROVE  [Pool!Next]_(Pool!vars)
  OBVIOUS
<1> USE ThreadsDistinct DEF ServerInv, ThreadInv, TypeOK, Handover, Threads, Serving, Step
<1>1. ASSUME NEW c \in Conns, Accept(c)
      PROVE  Pool!Submit(c)
  <2>1. /\ accepted = NoConn /\ accepted' = c /\ sock[c] = "backlog"
        /\ sock' = [sock EXCEPT ![c] = "open"] /\ UNCHANGED <<queue, req, sent>>
    BY <1>1 DEF Accept
  <2>2. Pool!Fresh(c)
    BY <2>1 DEF Pool!Fresh, Owned, OneOwner, Queued, pending, busy, finished
  <2> QED
    BY <2>1, <2>2 DEF Pool!Submit, pending, busy, finished
<1>2. ASSUME AcceptorAdd
      PROVE  UNCHANGED Pool!vars
  BY <1>2 DEF AcceptorAdd, network, Pool!vars, pending, busy, finished
<1>3. ASSUME NEW w \in Workers, WorkerPop(w)
      PROVE  Pool!Take
  <2>1. /\ queue # <<>> /\ queue \in Seq(Conns) /\ queue' = Tail(queue)
        /\ req[w] = NoConn /\ req' = [req EXCEPT ![w] = Head(queue)]
        /\ Head(queue) \in Conns /\ UNCHANGED <<accepted, sock, sent>>
    BY <1>3, HeadTailProperties DEF WorkerPop, network
  <2>2. pending # <<>> /\ Head(pending) = Head(queue) /\ pending' = Tail(pending)
    <3>1. CASE accepted = NoConn
      BY <2>1, <3>1 DEF pending
    <3>2. CASE accepted # NoConn
      <4>1. accepted \in Conns /\ pending = Append(queue, accepted)
        BY <3>2 DEF pending
      <4>2. pending' = Append(Tail(queue), accepted)
        BY <2>1, <3>2 DEF pending
      <4>3. /\ Head(Append(queue, accepted)) = Head(queue)
            /\ Tail(Append(queue, accepted)) = Append(Tail(queue), accepted)
        BY <2>1, <4>1, HeadTailAppend
      <4>4. Append(queue, accepted) # <<>>
        BY <2>1, <4>1, AppendProperties
      <4> QED
        BY <4>1, <4>2, <4>3, <4>4
    <3> QED
      BY <3>1, <3>2
  <2>3. Cardinality(busy) < Cardinality(Workers)
    BY <2>1, RoomForOne DEF Owned, OneOwner
  <2>4. busy' = busy \cup {Head(queue)}
    BY <2>1 DEF busy
  <2>5. UNCHANGED <<sent, finished>>
    BY <2>1 DEF finished
  <2>6. Pool!Cardinality(busy) = Cardinality(busy)
    BY DEF Pool!Cardinality, Cardinality, Pool!IsFiniteSet, IsFiniteSet
  <2> QED
    BY <2>2, <2>3, <2>4, <2>5, <2>6 DEF Pool!Take
<1>4. ASSUME NEW w \in Workers, WorkerWrite(w)
      PROVE  Pool!Reply(req[w], reply[w])
  BY <1>4 DEF WorkerWrite, requests, Pool!Reply, Owned, OneOwner, ReplyInv,
       pending, busy, finished
<1>5. ASSUME NEW w \in Workers, WorkerClose(w)
      PROVE  Pool!Finish(req[w])
  BY <1>5 DEF WorkerClose, Pool!Finish, Owned, OneOwner, ReplyInv,
       pending, busy, finished
<1>6. ASSUME CloseSocket
      PROVE  UNCHANGED Pool!vars
  BY <1>6 DEF CloseSocket, requests, Pool!vars, pending, busy, finished
<1>7. ASSUME NEW c \in Conns, ClientStep(c)
      PROVE  UNCHANGED Pool!vars
  BY <1>7 DEF ClientStep, ClientConnect, ClientSend, ClientRead, ClientDies, ClientGoto,
       requests, Pool!vars, Owned, ClientInv, pending, busy,
       finished
<1>8. ASSUME UNCHANGED ownership
      PROVE  UNCHANGED Pool!vars
  BY <1>8 DEF ownership, Pool!vars, pending, busy, finished
<1>9. ASSUME UNCHANGED vars
      PROVE  UNCHANGED ownership
  BY <1>9 DEF vars, ownership, requests, network
<1>10. ASSUME Next
       PROVE  \/ \E c \in Conns : Accept(c) \/ ClientStep(c)
              \/ \E w \in Workers : WorkerPop(w) \/ WorkerWrite(w) \/ WorkerClose(w)
              \/ AcceptorAdd \/ CloseSocket \/ UNCHANGED ownership
  BY <1>10, ZenonT(60)
  DEF Next, WorkerStep, WorkerCheck, WorkerLock, WorkerWait, WorkerRelock, WorkerWoken,
      WorkerRead, WorkerEnsure, WorkerDispatch, CallbackYield, CallbackRegain,
      CallbackReturn, WorkerRelease, SpuriousWake, AcceptorStep, AcceptorBegin,
      AcceptorCheck, AcceptFails, AcceptorLock, AcceptorNotify, AcceptorCleanup,
      MainCall, StartCall, SetRequestCallback, StopCall, DropCall, MainStep, OpenSocket,
      StartRun, StopLock, StopFlag, StopNotify, JoinWorkers, JoinRun, LockMutex,
      Broadcast, ownership, vars, requests, network
<1>11. ASSUME NEW c \in Conns, Accept(c)
       PROVE  Pool!Next
  BY <1>1, <1>11 DEF Pool!Next
<1>12. ASSUME NEW w \in Workers, WorkerWrite(w)
       PROVE  Pool!Next
  <2>1. req[w] \in Conns /\ reply[w] \in Answers \ {"none"}
    BY <1>12 DEF WorkerWrite, ReplyInv
  <2> QED
    BY <1>4, <1>12, <2>1 DEF Pool!Next
<1>13. ASSUME NEW w \in Workers, WorkerClose(w)
       PROVE  Pool!Next
  <2>1. req[w] \in Conns
    BY <1>13 DEF WorkerClose
  <2> QED
    BY <1>5, <1>13, <2>1 DEF Pool!Next
<1>14. ASSUME NEW w \in Workers, WorkerPop(w)
       PROVE  Pool!Next
  BY <1>3, <1>14 DEF Pool!Next
<1> QED
  BY <1>2, <1>6, <1>7, <1>8, <1>9, <1>10, <1>11, <1>12, <1>13, <1>14

\* The server implements the request pool, for any number of workers and
\* connections: no interleaving of acceptor, workers, start and stop reorders,
\* loses or repeats a request or finishes one that was not answered.
THEOREM ServerImplementsPool == Spec => ImplementsPool
BY PoolInit, PoolStep, ServerInvHolds, PTL DEF Spec, ImplementsPool, Pool!Spec
=============================================================================
