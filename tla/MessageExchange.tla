-------------------------- MODULE MessageExchange --------------------------
(***************************************************************************)
(* One connection after another of autogentoo/network: send_message of a   *)
(* client process, the worker of the server that answers it, and the bytes *)
(* between them.  TCPServer models which worker that is and when.          *)
(*                                                                         *)
(* A frame on the wire is the sequence of its units, which are numbers:    *)
(* the token and a parameter (struct Message), the size, the data.  read() *)
(* may return fewer units than it was asked for, and nobody looks: the     *)
(* rest of the buffer is what the memory held before, and the next read()  *)
(* gets the units that were left.                                          *)
(***************************************************************************)
EXTENDS Integers, Sequences

CONSTANTS
    Messages,       \* Message objects of Python code
    TokenRange,     \* number of values of a U32
    None, NotEight, \* no data; a parameter that is not 8 bytes long
    Raised,         \* the callback raised, or there is none
    Garbage,        \* units that memory may hold
    MaxExchanges    \* bound on the calls of send_message

ASSUME MessagesAreMessages ==
    /\ Messages \subseteq [token : Int, val : {NotEight} \cup Nat, data : {None} \cup Seq(Nat)]
    /\ None \notin Messages /\ Raised \notin Messages
ASSUME DataOrNone == None \notin Seq(Nat)
ASSUME TokensAreWords == TokenRange \in Nat \ {0}
ASSUME GarbageIsUnits == Garbage \subseteq Nat

VARIABLES
    client,         \* where send_message is
    request,        \* its message
    reply,          \* its buffer, struct MessageFrame
    result,         \* what it returned
    worker,         \* where the worker is: what it does next
    message,        \* its buffer for the request
    given,          \* what the callback was called with
    answer,         \* what the callback returned
    up, down,       \* units under way to the server and to the client
    short,          \* the sides of this connection that had a short read
    aborted,        \* free() found memory that was freed before
    exchanges

buffers == <<reply, message>>
python == <<request, given, answer, result>>
vars == <<client, worker, buffers, python, up, down, short, aborted, exchanges>>

Blank(g) == [head |-> <<g, g>>, size |-> g, data |-> <<>>]

Init ==
    /\ client = "idle" /\ worker = "idle"
    /\ reply = Blank(0) /\ message = Blank(0)
    /\ request = None /\ given = None /\ answer = None /\ result = None
    /\ up = <<>> /\ down = <<>>
    /\ short = {} /\ aborted = FALSE /\ exchanges = 0

----------------------------------------------------------------------------
(* Conversions *)

\* PyMessage_AsMessageFrame: the token is cut to 32 bits, a parameter that
\* is not 8 bytes long is 0.
AsMessageFrame(m) ==
    [head |-> <<m.token % TokenRange, IF m.val = NotEight THEN 0 ELSE m.val>>,
     size |-> IF m.data = None THEN 0 ELSE Len(m.data),
     data |-> IF m.data = None THEN <<>> ELSE m.data]

\* PyMessage_FromMessageFrame: data of size 0 are None.
FromMessageFrame(frame) ==
    [token |-> frame.head[1], val |-> frame.head[2],
     data |-> IF frame.size = 0 THEN None ELSE frame.data]

\* Mutant: the size is left out when there are no data.
UnitsBare(frame) == frame.head \o (IF frame.size = 0 THEN <<>> ELSE <<frame.size>> \o frame.data)

\* The three writes of a frame.
Units(frame) == frame.head \o <<frame.size>> \o frame.data

Zeroes == Units(Blank(0))

\* The messages that arrive as they are.
Sendable(m) ==
    m.token \in 0..(TokenRange - 1) /\ m.val # NotEight /\ m.data # <<>>

----------------------------------------------------------------------------
(* read(): of at most n units, into a buffer *)

Overwritten(buffer, units) == units \o SubSeq(buffer, Len(units) + 1, Len(buffer))

Least(a, b) == IF a < b THEN a ELSE b

\* Mutant: the data are not read.
NextPartStale == [head |-> "size", size |-> "whole", data |-> "whole"]

\* The parts of a frame, each read by one call.
NextPart == [head |-> "size", size |-> "data", data |-> "whole"]

\* How many units a part asks for.
Asks(frame, part) ==
    CASE part = "head" -> 2 [] part = "size" -> 1 [] part = "data" -> frame.size

\* The frame after the next n units were read as a part of it; a buffer of
\* the size that was read is allocated for the data.
Filled(frame, part, units) ==
    CASE part = "head" -> [frame EXCEPT !.head = Overwritten(@, units)]
      [] part = "size" -> [frame EXCEPT !.size = Overwritten(<<@>>, units)[1]]
      [] part = "data" -> [frame EXCEPT !.data = Overwritten(@, units)]

\* What is read of a stream: the new frame, the rest and whether it was
\* short, for every number of units that read() may return; none when the
\* other side has closed.
Reads(frame, part, stream) ==
    {[frame |-> Filled(frame, part, SubSeq(stream, 1, n)),
      rest |-> SubSeq(stream, n + 1, Len(stream)),
      short |-> n < Asks(frame, part)] :
        n \in (IF stream = <<>> THEN {0} ELSE 1..Least(Asks(frame, part), Len(stream)))}

\* Memory that malloc returns for the data once their size is known.
Allocated(frame, part, g) ==
    IF part = "size" THEN [frame EXCEPT !.data = [i \in 1..frame.size |-> g]] ELSE frame

\* After the size comes the data, unless it is 0.
After(frame, part) ==
    IF part = "size" /\ frame.size = 0 THEN "whole" ELSE NextPart[part]

----------------------------------------------------------------------------
(* send_message *)

\* The message is converted, a connection is made and the frame written.
Send(m, g) ==
    /\ client = "idle" /\ worker = "idle" /\ ~aborted /\ exchanges < MaxExchanges
    /\ exchanges' = exchanges + 1
    /\ request' = m /\ given' = None /\ answer' = None /\ result' = None
    /\ up' = Units(AsMessageFrame(m)) /\ down' = <<>> /\ short' = {}
    /\ reply' = Blank(g) /\ message' = Blank(g)
    /\ client' = "head" /\ worker' = "head"
    /\ UNCHANGED aborted

ClientRead(g) ==
    /\ client \in {"head", "size", "data"}
    /\ down # <<>> \/ worker = "idle"
    /\ \E r \in Reads(reply, client, down) :
         /\ reply' = Allocated(r.frame, client, g)
         /\ down' = r.rest
         /\ short' = (IF r.short THEN short \cup {"client"} ELSE short)
         /\ client' = After(r.frame, client)
    /\ UNCHANGED <<worker, message, python, up, aborted, exchanges>>

ClientReturn ==
    /\ client = "whole"
    /\ result' = FromMessageFrame(reply)
    /\ client' = "idle"
    /\ UNCHANGED <<worker, buffers, request, given, answer, up, down, short, aborted, exchanges>>

----------------------------------------------------------------------------
(* The worker; the client never closes its socket *)

WorkerRead(g) ==
    /\ worker \in {"head", "size", "data"}
    /\ up # <<>>
    /\ \E r \in Reads(message, worker, up) :
         /\ message' = Allocated(r.frame, worker, g)
         /\ up' = r.rest
         /\ short' = (IF r.short THEN short \cup {"worker"} ELSE short)
         /\ worker' = After(r.frame, worker)
    /\ UNCHANGED <<client, reply, python, down, aborted, exchanges>>

\* The callback is called, and the reply or a frame of zeroes written.
WorkerCall(m) ==
    /\ worker = "whole"
    /\ given' = FromMessageFrame(message)
    /\ answer' = m
    /\ down' = (IF m = Raised THEN Zeroes ELSE Units(AsMessageFrame(m)))
    /\ worker' = "free"
    /\ UNCHANGED <<client, buffers, request, result, up, short, aborted, exchanges>>

\* message.data is freed for the request, and once more when response.size
\* is not 0, which nobody sets when the callback raised: free() ends the
\* process.  The connection is closed either way.
WorkerFree(g) ==
    /\ worker = "free"
    /\ LET size == IF answer = Raised THEN g ELSE AsMessageFrame(answer).size
       IN  aborted' = (message.size # 0 /\ size # 0)
    /\ worker' = "idle"
    /\ UNCHANGED <<client, buffers, python, up, down, short, exchanges>>

----------------------------------------------------------------------------
ClientStep == (\E g \in Garbage : ClientRead(g)) \/ ClientReturn
WorkerStep ==
    \/ \E g \in Garbage : WorkerRead(g) \/ WorkerFree(g)
    \/ \E m \in Messages \cup {Raised} : WorkerCall(m)

Next ==
    \/ \E m \in Messages, g \in Garbage : Send(m, g)
    \/ ClientStep \/ WorkerStep

Spec == Init /\ [][Next]_vars

\* Either process goes on while it can.
FairSpec == Spec /\ WF_vars(ClientStep) /\ WF_vars(WorkerStep)

----------------------------------------------------------------------------
\* As long as no read comes short, the callback is called with the message
\* that was sent and send_message returns the one that the callback did, or
\* zeroes if it raised, although the server may be gone by then and whatever
\* the buffers held before.
Delivered ==
    short = {} =>
        /\ given # None /\ Sendable(request) => given = request
        /\ result # None /\ answer # Raised /\ Sendable(answer) => result = answer
        /\ result # None /\ answer = Raised => result = FromMessageFrame(Blank(0))

\* send_message returns, whatever the callback does and however the server
\* ends, unless a read of the worker came short: it may then wait for units
\* that are not sent, as the client waits for an answer.
SendReturns == []<>(client = "idle" \/ "worker" \in short)
=============================================================================
